---------------------------- MODULE MCBlobRefs ----------------------------
\* Instances of BlobRefs for TLC: one content, two operations, two owners.
EXTENDS BlobRefs, TLC

CONSTANTS h1, archive, upload, w1, w2, c1, c2, cron

OneHash == {h1}
TwoOps == {archive, upload}
TwoOwners == {w1, w2}
OneClient == {c1}
TwoClients == {c1, c2}
ClientSymmetry == Permutations(TwoClients)

SameContent == archive :> h1 @@ upload :> h1

\* Only the upload may be repeated.
UploadRepeated == archive :> 1 @@ upload :> 2

\* The operations compete for the first owner, the upload has a second one.
SharedSlots == archive :> {w1} @@ upload :> {w1, w2}

\* The first owner is a snapshot, the second is open to both.
SnapshotSlots == archive :> {w1, w2} @@ upload :> {w2}
=============================================================================
