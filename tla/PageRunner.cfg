CONSTANT NumUrls = 4
SPECIFICATION FairSpec
INVARIANTS TypeOK OneAtATime EachLateTestCostsOne
PROPERTY RunnerFinishes
CHECK_DEADLOCK FALSE
