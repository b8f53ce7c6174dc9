CONSTANTS
  i1 = i1
  i2 = i2
  Images = {i1, i2}
  Builtin = i1
  Settings = {p1, p2}
  Cams = {c1}
  Uploaders = {u1}
  NoCall = NoCall
  MaxEdits = 2
  MaxUploads = 2
  MaxRefs = 2
  MaxBusy = 2
  MaxRestarts = 1
SPECIFICATION MCSpec
CHECK_DEADLOCK FALSE
INVARIANTS OneEncoder StreamRenditionMatches ImageFileKept EncodedIsWhole
