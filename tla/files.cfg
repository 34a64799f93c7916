SPECIFICATION Spec
CONSTANTS
  Parts <- MCParts
  Disks <- MCDisks
  Commands <- MCCommands
  Texts <- MCTexts
  Checks <- MCChecks
  Packaged <- MCPackaged
  Links <- MCLinks
  Template <- MCTemplate
  MaxCommands = 2
INVARIANTS
  TypeOK
  SourcesSurvive
  RunsWhatItBuilt
 
CHECK_DEADLOCK FALSE
