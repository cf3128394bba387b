\* One state and one worker: the optimized pipeline is stored between two loads.
SPECIFICATION Spec
CONSTANTS
  HighWorkers = {}
  NormalWorkers = {}
  LowWorkers = {l}
  States = {s1}
  Library = library
  NoTask = none
  NoList = nolist
  MaxLibraries = 0
  MaxLists = 1
  MayFail = FALSE
PROPERTY
  PipelineFound
CHECK_DEADLOCK FALSE
