SPECIFICATION Spec
CONSTANTS
  tester = tester
  commissioner = commissioner
  Nothing = Nothing
  Clients <- Both
  Tester = tester
  Commissioner = commissioner
  Invocations <- BenchOnly
INVARIANT
  NotLeftSpinning
CHECK_DEADLOCK FALSE
