CONSTANTS
    CgoEnabled = FALSE
    Args = 1
    Env = {"HOST"}
    Vars = {"HOST", "NONE"}
    TextKind = "count"
    MaxText = 3
    Options <- MCOptions
    Minimal <- MCMinimal
    Starts <- MCStarts
    MaxSet = 2
    MaxEntries = 2
    MaxJobs = 2

SPECIFICATION Spec
INVARIANTS
    VariablesAreExpanded
    OptionsTakeEffect
    EntriesKeepTheirConfig
    
CHECK_DEADLOCK FALSE
