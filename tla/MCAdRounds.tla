----------------------------- MODULE MCAdRounds -----------------------------
(* Instances of AdRounds for TLC. *)
EXTENDS AdRounds, TLC

CONSTANTS s1, w1, w2, p1, p2

OneService == {s1}
OneScanner == {w1}
TwoScanners == {w1, w2}
OnePipe == {p1}
TwoPipes == {p1, p2}

Engaged ==
  {p \in Pipes : pipe[p].at # "idle" \/ \E n \in Numbers : round[n].owner = p}

(* Two pipelines overlap, and one may crash, in the only round of an event   *)
(* that closes, and whose services stay as they are; two scanners, and one   *)
(* pipeline, run the rounds of an event in which services change.            *)
Overlap ==
  /\ latest <= 1 /\ churn = 0
  /\ phase = "running" => Cardinality(Engaged) <= 1
  /\ Cardinality({w \in Scanners : cursor[w] # NoWatch}) <= 1
Succession == crashes = 0 /\ Cardinality(Engaged) <= 1
OverlapOrSuccession == Overlap \/ Succession

Symmetry == Permutations(Scanners) \cup Permutations(Pipes)
=============================================================================
