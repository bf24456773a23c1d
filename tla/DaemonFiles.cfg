\* Rings of two files under every strategy that writes a full cache out, caches
\* that wrap under those that do not, and traces of two files.
CONSTANTS
  SectionsMax = 6
  KeysMax = 12
  Absent = Absent
  Bad = Bad
  Wild = Wild
  Conf <- MCConf
  Name = {"f"}
  CacheMax = 6
  MaxErrors = 2
  Serials = 6
  MaxWraps = 2
  TraceConf <- MCTraceConf
  MaxTraceFiles = 6
SPECIFICATION SpecFiles
INVARIANTS TypeOK RingIsSuffix WholeMessages RingIsBounded CacheIsQueue RingCacheWritten StoredAsConfigured TraceFits
PROPERTY KeepsOld
CHECK_DEADLOCK FALSE
