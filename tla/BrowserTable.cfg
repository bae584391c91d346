CONSTANTS
  Crawler = {c1, c2}
  Key = {k1, k2}
  Info = {plain, other}
  MaxId = 4
SPECIFICATION FairSpec
INVARIANTS TypeOK OneRowPerKey ResultsUnderOwnRow
PROPERTIES ImplementsAtomicTable CallsEnd
CHECK_DEADLOCK FALSE
