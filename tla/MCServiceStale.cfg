\* Two requests on one key.
SPECIFICATION Spec
CONSTANTS
  Key = {k1}
  Text = {"a"}
  Client = {c1, c2}
  Worker = {}
  Expiring = {}
  Searches <- OneSearch
  Absent = Absent
  Unknown = Unknown
INVARIANTS
  IndexFollowsStore
