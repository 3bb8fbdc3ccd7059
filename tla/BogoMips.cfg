SPECIFICATION FairSpec
CONSTANTS
  Bits = 6
  MaxJiffy = 70
  MaxLate = 4
INVARIANTS TypeOK Accurate LockIsBounded
PROPERTIES SchedulerReturns
