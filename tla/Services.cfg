SPECIFICATION Spec
CONSTANTS
  Actors = {r1, r2}
  Nil = "none"
  MaxClock = 3
  MaxRuns = 2
  RowNames = {"a", "b"}
  Moods = {"calm", "wake"}
  Tunes = {"tune"}
  Containers = {"mint"}
  Own <- OwnContainer
  Off = "off"
  Length = 1
  Intro = 1
  Delay = 1
  StepBounds <- OfEach
  MaxRecords = 3
  RecordScenes <- SomeRecordScenes
  MaxItems = 2
  CatalogScenes <- SomeCatalogScenes
  Objects = {"x", "y", "z", "w"}
  Journal <- JournalOf
  Legacy <- LegacyOf
  MaxCrashes = 2
  Pods = {"p", "q"}
  Scopes = {"ikyomm", "company"}
  MaxEntries = 1
  StaleAge = 1
  MaxPolls = 3
  MaxSignIns = 3
  Slugs = {"owner", "x"}
  Defaults = {"owner"}
  Resources = {"account", "wallet", "report"}
  Managed = {"account"}
  Preset <- PresetOf
  MaxRoles = 2
  MaxRoleEdits = 4
  Folders <- TwoFolders
  Tracks = 2
  Titles = {"Calm", "Uplift"}
  SyncMap <- SyncMapOf
  MaxLists = 4
  MaxSongs = 6
  MaxRemovals = 1
  Sessions = {"s", "t"}
  Life = 1
  Batch = 1
  MaxBatches = 2
  Companies = {1, 2, 3, 4}
  Limits = {2}
  MaxListEdits = 2
INVARIANTS TypesOK AnsweredInForce RecordsStand WritesAsAnswered MigrationsReplayed PollsFallBack PanelsApart RolesStand LibraryPlays CleansAll ListsMissNothing
PROPERTY PurchasesKept
CHECK_DEADLOCK FALSE
SYMMETRY Symmetry
