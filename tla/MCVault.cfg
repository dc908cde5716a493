SPECIFICATION Spec
CONSTANTS
  Absent = Absent
  Gone = Gone
  Ids = {1, 2}
  Names = {"a", "b"}
  Hosts = {"h1", "h2"}
  Urls = {"h3"}
  Refs = {"t"}
  Ops = {"o1"}
  CacheSize = 1
  CacheTtl = 1
  Pages = {"p1"}
  MaxRequests = 2
  CountFrom = 2
  Initial <- MCInitial
  Placed <- MCPlaced
INVARIANT PairedByARow
PROPERTY RotationTakesEffect RevealedIsHidden
