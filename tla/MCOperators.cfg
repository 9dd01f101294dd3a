SPECIFICATION FairSpec
CONSTANTS
  tester = tester
  commissioner = commissioner
  Nothing = Nothing
  Clients <- Both
  Tester = tester
  Commissioner = commissioner
  Invocations <- ParkOrBench
INVARIANTS
  IdleIsLastWord
  ParkHolds
  ExitCodeHonest
PROPERTIES
  CommissionDecides
  TestLeavesIdle
  DisarmIsNoticed
CHECK_DEADLOCK FALSE
