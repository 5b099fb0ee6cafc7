SPECIFICATION Spec
CONSTANTS
  t1 = t1
  t2 = t2
  Threads <- MCThreads
  Users = {u1, u2}
  Acts = {1, 2}
  TermWeeks = 3
  RebuiltWeeks = 2
  Starts = {8, 15}
  Today = 8
  Plans <- MCPlans
  Uploads <- MCUploads
  Dates = {1, 7, 8, 9, 13, 14, 15, 16, 20, 21, 22, 28, 29, 35, 36, 40}
  Times <- MCTimes
  Summers <- MCSummers
  MaxRequests = 4
SYMMETRY Symmetry
INVARIANTS
  CacheFollows
  
  WeekAndDayIsRight
  MasksAreRight
PROPERTY UploadedIsValid
CHECK_DEADLOCK FALSE
