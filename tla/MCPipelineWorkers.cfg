\* A worker of each kind, one state and two libraries: tasks of all three priorities
\* at once, workers that find theirs taken, and a command list in flight while the
\* next one is recorded.
SPECIFICATION FairSpec
CONSTANTS
  HighWorkers = {h}
  NormalWorkers = {n}
  LowWorkers = {l}
  States = {s1}
  Library = library
  NoTask = none
  NoList = nolist
  MaxLibraries = 2
  MaxLists = 1
  MayFail = TRUE
INVARIANTS
  TypeOK
  BaseAlive
  HandleAvailable
  NoStuckTask
PROPERTIES
  TasksCompile
CHECK_DEADLOCK FALSE
