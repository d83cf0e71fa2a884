SPECIFICATION Spec
CONSTANTS
  c1 = c1
  c2 = c2
  c3 = c3
  d = d
  r = r
  g = g
  b = b
  admin = admin
  section = section
  u = u
  stranger = stranger
  p = p
  k1 = k1
  k2 = k2
  other = other
  Calls = {c1, c2, c3}
  Devices = {d}
  Relays = {r}
  Groups = {g}
  Books = {b}
  Roles = {admin}
  Sections = {section}
  Users = {u}
  Strangers = {stranger}
  Permissions = {p}
  Keys = {k1, k2}
  Values = {0, 1}
  Preset = 0
  Others = {other}
  None = None
  Requests <- MCHeartbeats
  Deployments <- MCRelay
  Faulty = {}
  MaxTime = 2
INVARIANT HeartbeatFound
CHECK_DEADLOCK FALSE
