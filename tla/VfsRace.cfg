CONSTANTS
  Thread = {t1, t2}
  Main = main
  Archive <- MCArchive
  LongName <- MCLong
  Opens <- RaceOpens
  Mkdirs <- RaceMkdirs
  Mounts <- NoPaths
  Chdirs <- NoPaths
  FsNames <- MCFsNames
  MAX_CHILDREN = 3
  MAX_FD = 1
  MAX_VNODE = 9
  MAX_MOUNT = 2
  Forks = FALSE
  Stale = {}
  Interruptible = TRUE
SPECIFICATION Spec
INVARIANT DirectoryOK
