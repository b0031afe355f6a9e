CONSTANTS c1 = c1  c2 = c2  t1 = t1  t2 = t2  m1 = m1  m2 = m2  s1 = s1  ra = ra  rb = rb  None = None
SPECIFICATION Spec
INVARIANTS NothingDangles NothingLeaks KeyTypesAgree SeesLatest ReachesOwnLayer SharedByReference GradientsExact
PROPERTY RoundsAreComplete
CHECK_DEADLOCK FALSE
