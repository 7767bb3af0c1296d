CONSTANTS
  None = None
  Empty = ""
  Undefined = Undefined
  Options <- MCOptions
  Kind <- MCKind
  Values <- MCValues
  Typed <- MCTyped
  Numerals <- MCNumerals
  MaxJobs = 2
  MaxAwaited = 2
  MaxStages = 2
  MaxOutside = 1
  Texts <- MCTexts
  Trimmed <- MCTrimmed
  Completed <- MCCompleted
  Histories <- MCHistories
  Queries <- MCQueries
  Finds <- MCFinds
  Catalogue <- MCCatalogue
  Prefilled <- MCPrefilled
SPECIFICATION MCSpec
INVARIANTS
  TypeOK
  
  DraftKept
  HighlightExists
  SectionsAgree
PROPERTIES
  EditsSurvive
CHECK_DEADLOCK FALSE
VIEW View
