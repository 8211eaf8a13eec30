SPECIFICATION Spec
CONSTANTS
    Handles = {"ddr", "copy"}
    Delay = 1
    Directories = {"cwd", "sub"}
    Traces <- ToolTraces
    Sheets <- ToolSheets
    MaxTime = 2
    MaxCommands = 2
    MaxCalls = 3
CHECK_DEADLOCK FALSE
INVARIANT JsonFileExists
