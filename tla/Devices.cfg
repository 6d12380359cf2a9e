CONSTANTS
  s1 = s1
  s2 = s2
  p1 = p1
  a1 = a1
  a2 = a2
  k1 = k1
  k2 = k2
  Students = {s1, s2}
  Phones = {p1}
  Apps = {a1, a2}
  Tokens = {k1}
  TokenOf <- OnePhone
  device_secret_required = FALSE
  Mixes = {{"register", "delete"}, {"preferences", "upload"}, {"credentials", "delete"}}
  NoOne = NoOne
  NoDevice = NoDevice
VIEW DevicesView
SYMMETRY DeviceSymmetry
SPECIFICATION DevicesSpec
INVARIANTS RemovedStaysOut MoodleTokenNeedsDevice
CHECK_DEADLOCK FALSE
