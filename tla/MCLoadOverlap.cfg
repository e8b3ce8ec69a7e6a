SPECIFICATION Spec
CONSTANTS
  a = a
  b = b
  c = c
  da = da
  db = db
  cwd = cwd
  Unset = Unset
  Null = Null
  Garbage = Garbage
  Sessions = {s1, s2}
  Models = {a, b}
  Dirs = {da, db, cwd}
  DirOf <- MCDirOf
  FileOf <- MCFileOf
  Cwd = cwd
  Bare = {}
  UserPaths = {Unset, cwd}
  Failures = {"dlopen", "dlsym", "entry", "mmap"}
  MaxLoading = 2
  MaxRefs = 2
INVARIANT TypeOK
INVARIANT LibraryMapped
INVARIANT UserPathKept
INVARIANT PathLeftOnlyByThrow
PROPERTY SessionKeepsLibrary
