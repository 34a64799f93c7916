SPECIFICATION FairSpec
CONSTANTS
  NoPackage = NoPackage
  Entry = "main"
  Projects <- SmallProjects
  FirstCap = 2
  MaxStack = 4
  MaxCalls = 8
INVARIANTS TypeOK Inv MergedIsClosed CircularIsReal CycleNeverMerged
INVARIANTS OverflowNeedsBareFile CrashNeedsGrowth
PROPERTIES Terminates ImplementsClosure
CHECK_DEADLOCK FALSE
