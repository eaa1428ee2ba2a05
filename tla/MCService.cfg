\* Two processes, each a request or a callback at a time; two keys, both of
\* which may expire. Of the searches, which change nothing, one is enough.
SPECIFICATION Spec
CONSTANTS
  Key = {k1, k2}
  Text = {"a"}
  Client = {p1, p2}
  Worker = {p1, p2}
  Expiring = {k1, k2}
  Searches <- OneSearch
  Absent = Absent
  Unknown = Unknown
INVARIANTS
  TypeOK
  UndisturbedChangesAgree
SYMMETRY Symmetry
