SPECIFICATION PartsSpec
CONSTANTS
  MaxWindows = 5
  Stems     = {"Ge", "_"}
  Letters   = {"t"}
  Receivers = {"Set"}
  MaxDecls  = 2
  MaxDefs   = 2
  WordChars = {"a"}
  Modes    = {"go", "python"}
  MaxText  = 6
  MaxCount = 3
  Characters = {"a"}
  MaxLength  = 2
  PageWidth  = 3
  PageHeight = 4
  NPages     = 2
  RenderHeight = 2
  Colours      = {0, 255}
  Widths       = {5}
  MaxSets      = 2
  MaxCommands  = 3
  Sizes   = {3, 4, 5}
  MinSize = 3
  Readers = {r1, r2}
  MaxRuns = 3
  NSql     = 3
  NGiveUps = 2
  Timers   = TRUE
  Emacsen = {e1, e2}
  Nested  = FALSE
  NTries  = 2
INVARIANTS
  PurposesDistinct
  EveryBenchmark
  
  Arrives
  Understood
  RendersRight
  SettingsAsWritten
  LatestRead
  OwnSource
  InStep
  AllOrNothing
PROPERTIES
  NoWindowWhileForbidden
  AgainNothing
CHECK_DEADLOCK FALSE
