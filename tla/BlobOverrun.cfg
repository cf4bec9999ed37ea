SPECIFICATION Spec
CONSTANTS
  h1 = h1
  archive = archive
  upload = upload
  w1 = w1
  w2 = w2
  c1 = c1
  c2 = c2
  cron = cron
  Hashes <- OneHash
  Ops <- TwoOps
  Owners <- TwoOwners
  Clients <- TwoClients
  Cron = cron
  Content <- SameContent
  Slots <- SharedSlots
  OneShot = {archive}
  Batched = {}
  Snapshots = {}
  Slow = {"effect", "stall"}
  MaxTries <- UploadRepeated
  MaxFaults = 1
CHECK_DEADLOCK FALSE
SYMMETRY ClientSymmetry
INVARIANT CountsAreOwners
