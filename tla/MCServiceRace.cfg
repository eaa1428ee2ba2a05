\* Two requests.
SPECIFICATION Spec
CONSTANTS
  Key = {k1, k2}
  Text = {"a"}
  Client = {c1, c2}
  Worker = {}
  Expiring = {}
  Searches <- AllSearches
  Absent = Absent
  Unknown = Unknown
INVARIANTS
  NoDataRace
