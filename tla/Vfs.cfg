CONSTANTS
  Thread = {t1, t2}
  Main = main
  Archive <- MCArchive
  LongName <- MCLong
  Opens <- MCOpens
  Mkdirs <- MCMkdirs
  Mounts <- MCMounts
  Chdirs <- MCChdirs
  FsNames <- MCFsNames
  MAX_CHILDREN = 3
  MAX_FD = 1
  MAX_VNODE = 9
  MAX_MOUNT = 2
  Forks = TRUE
  Stale = {8}
  Interruptible = FALSE
SPECIFICATION Spec
SYMMETRY Symmetry
INVARIANTS TypeOK DirectoryOK DotDotInverts OnlyFailedCreateIsNull 
