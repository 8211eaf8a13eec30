SPECIFICATION Spec
CONSTANTS
    Handles = {"ddr", "copy"}
    Delay = 1
    Directories = {"cwd", "sub"}
    Traces <- ToolTraces
    Sheets <- ToolSheets
    MaxTime = 2
    MaxCommands = 2
    MaxCalls = 4
CHECK_DEADLOCK FALSE
INVARIANTS
    ResultOfWholeTrace
    NoResultOnFailure
    ExtensionAgrees
    AskedInTime
    BanksReachedExist
