---------------------------- MODULE MCMailOutbox ----------------------------
(***************************************************************************)
(* Constants for model-checking MailOutbox.                                *)
(***************************************************************************)
EXTENDS MailOutbox, TLC

CONSTANTS o1, o2, a1, w1, w2, s1, s2, t1, t2, t3

TwoMails == {o1, o2}
OneAccount == {a1}
OneWorker == {w1}
TwoWorkers == {w1, w2}
OneSlot == {s1}
TwoSlots == {s1, s2}
TwoTokens == {t1, t2}
ThreeTokens == {t1, t2, t3}
Changes == {"EmailChange"}

Symmetry ==
  Permutations(Operations) \cup Permutations(Workers)
  \cup Permutations(Slots) \cup Permutations(Tokens)
=============================================================================
