SPECIFICATION FairSpec
CONSTANTS
  Threads = {t1, t2, t3}
  Keys = {a, b, trash}
  Objects = {o1, o2, o3}
  VTrash = trash
  OnDisk = {a}
  MaxCalls = 3
  NoThread = NoThread
  NoKey = NoKey
  NoObject = NoObject
INVARIANTS TypeOK CreatorOwns SomeoneWillUnreserve TablesAgree RefsAreOwned TrashHasOpenFolders OpenFoldersExist
CHECK_DEADLOCK FALSE
PROPERTIES CallsReturn ImplementsCache
