SPECIFICATION FairSpec
CONSTANTS
  h1 = h1
  archive = archive
  upload = upload
  w1 = w1
  w2 = w2
  c1 = c1
  c2 = c2
  cron = cron
  Hashes <- OneHash
  Ops <- TwoOps
  Owners <- TwoOwners
  Clients <- OneClient
  Cron = cron
  Content <- SameContent
  Slots <- SnapshotSlots
  OneShot = {archive}
  Batched = {upload}
  Snapshots = {w1}
  Slow = {}
  MaxTries <- UploadRepeated
  MaxFaults = 2
CHECK_DEADLOCK FALSE
INVARIANT OwnedBytesExist
PROPERTIES DeletionSparesReferenced UnownedContentGoes
