SPECIFICATION Spec
CONSTANTS
  a = a
  b = b
  c = c
  da = da
  db = db
  cwd = cwd
  Unset = Unset
  Null = Null
  Garbage = Garbage
  Sessions = {s1, s2}
  Models = {a, b, c}
  Dirs = {da, db, cwd}
  DirOf <- MCDirOf
  FileOf <- MCFileOf
  Cwd = cwd
  Bare = {c}
  UserPaths = {Unset}
  Failures = {}
  MaxLoading = 1
  MaxRefs = 3
INVARIANT OwnConstants
INVARIANT LibraryReleased
