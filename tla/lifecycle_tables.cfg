SPECIFICATION MCSpec
CHECK_DEADLOCK FALSE
CONSTANTS
    Scenario = "tables"
    Ext <- MCExt
    CoreMod = "core"
    Names <- MCNames
    Name <- MCName
    Lower <- MCLower
    Deps <- MCDeps
    AbiOk <- MCAbiOk
    Tables <- MCTables
    MaxCalls = 4
    MaxFaults = 2
INVARIANTS RefusesIllegal AcceptsLegal DependenciesOutlive HooksBalanced AllOrNothing DestructorContext
PROPERTIES CallsReturn HookContext ContractSpec
