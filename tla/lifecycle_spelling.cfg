SPECIFICATION Spec
CHECK_DEADLOCK FALSE
CONSTANTS
    Scenario = "spelling"
    Ext <- MCExt
    CoreMod = "core"
    Names <- MCNames
    Name <- MCName
    Lower <- MCLower
    Deps <- MCDeps
    AbiOk <- MCAbiOk
    Tables <- MCTables
    MaxCalls = 1
    MaxFaults = 0
INVARIANT AcceptsLegal
