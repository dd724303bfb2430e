\* A key is created and updated twice at once.
SPECIFICATION Spec
CONSTANTS
  host = host
  port = port
  Admins = {a1, a2, a3}
  KeyIds = {k1}
  ProxyIds = {}
  Aliases = {}
  MaxEvents = 2
  FieldOrder <- HostThenPort
  Values = {v1, v2}
SYMMETRY Symmetry
INVARIANT NoUpdateIsLost
CHECK_DEADLOCK FALSE
