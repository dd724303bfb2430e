\* Four management requests on one key, one profile of two fields, a route and the deny list.
SPECIFICATION Spec
CONSTANTS
  host = host
  port = port
  Admins = {a1, a2, a3, a4}
  KeyIds = {k1}
  ProxyIds = {p1}
  Aliases = {al}
  MaxEvents = 2
  FieldOrder <- HostThenPort
  Values = {v1, v2}
SYMMETRY Symmetry
INVARIANTS
  TypeOK
  StoresAreAccountedFor
  EveryChangeIsAudited
  TrailIsNewest
CHECK_DEADLOCK FALSE
