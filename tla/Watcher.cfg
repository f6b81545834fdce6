SPECIFICATION FairSpec
CONSTANTS
  f1 = f1
  f2 = f2
  part = part
  w1 = w1
  w2 = w2
  Paths = {f1, f2, part}
  Rejected = {part}
  Workers = {w1, w2}
  Sizes <- MCSizes
  Checks = 2
  NoFile = NoFile
  MaxChanges = 3
INVARIANTS TypeOK OneWorkerPerPath OfferedAfterQuiet
PROPERTIES ImplementsFeed CancelCloses WaitEnds
CHECK_DEADLOCK FALSE
