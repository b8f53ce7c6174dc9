CONSTANTS
  i1 = i1
  i2 = i2
  Images = {i1, i2}
  Builtin = i1
  Settings = {p1}
  Cams = {c1}
  Uploaders = {u1}
  NoCall = NoCall
  MaxEdits = 2
  MaxUploads = 2
  MaxRefs = 2
  MaxBusy = 2
  MaxRestarts = 0
SPECIFICATION Spec
CHECK_DEADLOCK FALSE
INVARIANTS UsedImageKept
