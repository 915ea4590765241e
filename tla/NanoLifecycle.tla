---------------------------- MODULE NanoLifecycle ----------------------------
(***************************************************************************)
(* The life cycle of a PHP Nano process: src/src/core.cpp (the core and    *)
(* its request), src/src/extension.cpp (the static extension registry) and *)
(* the two Zend functions they drive, zend_register_module_ex and          *)
(* zend_startup_module_ex.                                                 *)
(*                                                                         *)
(* The host calls php_nano_startup_extensions with a table of module       *)
(* entries, and php_nano_shutdown_extensions.  Both calls are run in small *)
(* steps, one per hook, per table entry or per subsystem, with pc naming   *)
(* the loop being executed.  Anything that can fail does so through an     *)
(* action of its own; at most MaxFaults failures happen.                   *)
(***************************************************************************)
EXTENDS Integers, Sequences, FiniteSets

CONSTANTS
    Ext,        \* the zend_module_entry objects linked into the program
    CoreMod,    \* zend_builtin_module, the entry of module "Core"
    Names,      \* spellings of module names
    Name,       \* Name[m]: the name field of an entry
    Lower,      \* Lower[n]: zend_str_tolower
    Deps,       \* Deps[e]: the zend_module_dep list, a sequence of records
    AbiOk,      \* entries whose size, API number, debug and ZTS fields match
    Tables,     \* the extension tables the host may pass
    MaxCalls,   \* bound: API calls made by the host
    MaxFaults   \* bound: failures of malloc, hooks and subsystems

DepTypes == {"REQUIRED", "OPTIONAL", "CONFLICTS"}
Modules == Ext \union {CoreMod}

ASSUME CoreAssumption == CoreMod \notin Ext
ASSUME NameAssumption == /\ Name \in [Modules -> Names]
                         /\ Lower \in [Names -> Names]
ASSUME DepsAssumption == Deps \in [Ext -> Seq([type: DepTypes, name: Names])]
ASSUME TablesAssumption == Tables \subseteq Seq(Ext)
ASSUME BoundAssumption == MaxCalls \in Nat /\ MaxFaults \in Nat

VARIABLES
    pc,           \* the loop or call the process is executing
    table,        \* available: the copy of the host's table
    idx,          \* index into table, started or a step list
    progressed,   \* whether the current scan started an extension
    started,      \* started_extensions()
    reqcount,     \* request_started_count()
    mstarted,     \* entries whose module_started is not 0
    registered,   \* the entries in module_registry, keyed by lowercase name
    storage,      \* which table zend_new_interned_string writes to
    up,           \* process-lifetime subsystems that are initialised
    requp,        \* request-lifetime subsystems that are initialised
    core_started, core_active,
    minit,        \* history: MINIT succeeded, MSHUTDOWN has not run
    rinit,        \* history: RINIT succeeded, RSHUTDOWN has not run
    ret,          \* result of the last startup call
    calls, faults

core == <<storage, up, requp, core_started, core_active>>
hooks == <<started, reqcount, mstarted, registered, minit, rinit>>
vars == <<pc, table, idx, progressed, core, hooks, ret, calls, faults>>

-----------------------------------------------------------------------------
(* php_nano_startup_core initialises its subsystems in this order; two of  *)
(* the steps can fail and return without undoing the earlier ones.         *)
StartupSteps == << "memory", "gc", "interned", "extmech", "bcmath", "tables",
                   "ini", "rsrc_dtors", "plist", "cwd", "streams", "output",
                   "builtin", "coremod" >>
FallibleSteps == {"tables", "builtin"}

\* php_nano_shutdown_core tears them down in this one.
ShutdownSteps == << "ini", "output", "plist", "coremod", "builtin", "tables",
                    "rsrc_dtors", "streams", "cwd", "extmech", "interned",
                    "bcmath", "memory", "gc" >>

Subsystems == { StartupSteps[i] : i \in DOMAIN StartupSteps }

\* The request subsystems of php_nano_activate_core.
RequestSteps == <<"interned", "rlist", "cwd", "executor", "output">>
RequestSubsystems == { RequestSteps[i] : i \in DOMAIN RequestSteps }

\* Variant: the executor is shut down before the destructors run.
DeactivateStepsLateDestructors ==
    << "output", "executor", "destructors", "rlist", "cwd", "interned" >>

\* php_nano_deactivate_core, with the user destructors as a step of their own.
DeactivateSteps == << "output", "destructors", "executor", "rlist", "cwd",
                      "interned" >>

Key(m) == Lower[Name[m]]
Elems(s) == { s[i] : i \in DOMAIN s }

(* find_available: an exact, case-sensitive match in the host's table.     *)
find_available(n) == { i \in DOMAIN table : Name[table[i]] = n }

(* The registry lookup dependency_state falls back on: lowercase keys.     *)
RegistryFind(n) == { m \in registered : Key(m) = Lower[n] }

Available(n) == IF find_available(n) # {}
                THEN { table[i] : i \in { j \in find_available(n) :
                                 \A k \in find_available(n) : j <= k } }
                ELSE RegistryFind(n)

\* Variant: a conflict with an entry that is yet to start goes unnoticed.
DepVerdictLateConflict(d) ==
    CASE d.type = "CONFLICTS" ->
            IF RegistryFind(d.name) # {} THEN "Invalid" ELSE "Ready"
      [] d.type # "CONFLICTS" /\ Available(d.name) = {} ->
            IF d.type = "REQUIRED" THEN "Invalid" ELSE "Ready"
      [] OTHER ->
            IF Available(d.name) \subseteq mstarted THEN "Ready" ELSE "Waiting"

(* The verdict of one iteration of the loop in dependency_state.           *)
DepVerdict(d) ==
    CASE d.type = "CONFLICTS" ->
            IF Available(d.name) # {} THEN "Invalid" ELSE "Ready"
      [] d.type # "CONFLICTS" /\ Available(d.name) = {} ->
            IF d.type = "REQUIRED" THEN "Invalid" ELSE "Ready"
      [] OTHER ->
            IF Available(d.name) \subseteq mstarted THEN "Ready" ELSE "Waiting"

(* dependency_state: the first dependency that is not ready decides.       *)
dependency_state(e) ==
    LET blocking == { i \in DOMAIN Deps[e] : DepVerdict(Deps[e][i]) # "Ready" }
    IN  IF blocking = {} THEN "Ready"
        ELSE DepVerdict(Deps[e][CHOOSE i \in blocking :
                                    \A j \in blocking : i <= j])

(* zend_register_module_ex refuses a conflict and a key already in use.    *)
Registrable(e) ==
    /\ \A i \in DOMAIN Deps[e] :
          Deps[e][i].type = "CONFLICTS" => RegistryFind(Deps[e][i].name) = {}
    /\ \A m \in registered : Key(m) # Key(e)

(* The dependency check of zend_startup_module_ex, made once e itself is   *)
(* registered and flagged.                                                 *)
RequiredStarted(e) ==
    \A i \in DOMAIN Deps[e] :
        Deps[e][i].type = "REQUIRED" =>
            \E m \in registered \union {e} :
                /\ Key(m) = Lower[Deps[e][i].name]
                /\ m \in mstarted \union {e}

(* php_nano_find_extension                                                 *)
php_nano_find_extension(n) == { e \in Elems(started) : Name[e] = n }

-----------------------------------------------------------------------------
Init ==
    /\ pc = "idle" /\ table = <<>> /\ idx = 1 /\ progressed = FALSE
    /\ started = <<>> /\ reqcount = 0 /\ mstarted = {} /\ registered = {}
    /\ storage = "permanent" /\ up = {} /\ requp = {}
    /\ core_started = FALSE /\ core_active = FALSE
    /\ minit = {} /\ rinit = {} /\ ret = "none"
    /\ calls = 0 /\ faults = 0

Goto(l) == pc' = l /\ idx' = 1

\* A failure the environment injects.
Fault == faults < MaxFaults /\ faults' = faults + 1

\* Every failure path of php_nano_startup_extensions after the core is up.
FailStartup == Goto("rshutdown") /\ ret' = "FAILURE"

(* The host calls php_nano_startup_extensions.                             *)
CallStartup(t) ==
    /\ pc = "idle" /\ calls < MaxCalls
    /\ calls' = calls + 1
    /\ table' = t /\ ret' = "none"
    /\ Goto(IF core_started THEN "check" ELSE "core")
    /\ UNCHANGED <<progressed, core, hooks, faults>>

(* The host calls php_nano_shutdown_extensions.                            *)
CallShutdown ==
    /\ pc = "idle" /\ calls < MaxCalls
    /\ calls' = calls + 1
    /\ Goto("rshutdown") /\ ret' = "none"
    /\ UNCHANGED <<table, progressed, core, hooks, faults>>

-----------------------------------------------------------------------------
(* php_nano_startup_core, one subsystem per step.                          *)
StartupCoreStep ==
    /\ pc = "core" /\ idx <= Len(StartupSteps)
    /\ LET s == StartupSteps[idx] IN
       /\ up' = up \union {s}
       /\ storage' = IF s = "interned" THEN "permanent" ELSE storage
       /\ registered' = (IF s = "tables" THEN {} ELSE registered)
                            \union (IF s = "builtin" THEN {CoreMod} ELSE {})
       /\ LET runs == s = "coremod" /\ CoreMod \notin mstarted
          IN  /\ mstarted' = IF runs THEN mstarted \union {CoreMod} ELSE mstarted
              /\ minit' = IF runs THEN minit \union {CoreMod} ELSE minit
    /\ idx' = idx + 1
    /\ UNCHANGED <<pc, table, progressed, requp, core_started, core_active,
                   started, reqcount, rinit, ret, calls, faults>>

\* malloc of the tables or registration of the built-in functions fails.
StartupCoreFails ==
    /\ pc = "core" /\ idx <= Len(StartupSteps)
    /\ StartupSteps[idx] \in FallibleSteps
    /\ Fault
    /\ Goto("idle") /\ ret' = "FAILURE"
    /\ UNCHANGED <<table, progressed, core, hooks, calls>>

StartupCoreDone ==
    /\ pc = "core" /\ idx > Len(StartupSteps)
    /\ core_started' = TRUE
    /\ Goto("check")
    /\ UNCHANGED <<table, progressed, storage, up, requp, core_active, hooks,
                   ret, calls, faults>>

-----------------------------------------------------------------------------
(* A runtime that already has extensions refuses the call and stays up.    *)
CheckNotStarted ==
    /\ pc = "check"
    /\ IF started # <<>> THEN Goto("idle") /\ ret' = "FAILURE"
                         ELSE Goto("validate") /\ UNCHANGED ret
    /\ UNCHANGED <<table, progressed, core, hooks, calls, faults>>

(* The validation loop: layout and ABI first, then the flag is reset, then *)
(* the name is compared with the earlier entries.                          *)
DuplicateName(i) == \E j \in 1..(i-1) : Name[table[j]] = Name[table[i]]

ValidateEntry ==
    /\ pc = "validate" /\ idx <= Len(table)
    /\ LET e == table[idx] IN
       /\ mstarted' = IF e \in AbiOk THEN mstarted \ {e} ELSE mstarted
       /\ IF e \in AbiOk /\ ~DuplicateName(idx)
          THEN idx' = idx + 1 /\ UNCHANGED <<pc, ret>>
          ELSE FailStartup
    /\ UNCHANGED <<table, progressed, core, started, reqcount, registered,
                   minit, rinit, calls, faults>>

ValidateDone ==
    /\ pc = "validate" /\ idx > Len(table)
    /\ Goto(IF Len(started) < Len(table) THEN "scan" ELSE "activate")
    /\ progressed' = FALSE
    /\ UNCHANGED <<table, core, hooks, ret, calls, faults>>

-----------------------------------------------------------------------------
(* One scan over the table; e is the entry under the cursor.               *)
Scanning(e) == pc = "scan" /\ idx <= Len(table) /\ e = table[idx]

\* Already started, or waiting for a dependency: the scan moves on.
ScanSkip(e) ==
    /\ Scanning(e)
    /\ e \in mstarted \/ dependency_state(e) = "Waiting"
    /\ idx' = idx + 1
    /\ UNCHANGED <<pc, table, progressed, core, hooks, ret, calls, faults>>

ScanInvalid(e) ==
    /\ Scanning(e) /\ e \notin mstarted
    /\ dependency_state(e) = "Invalid"
    /\ FailStartup
    /\ UNCHANGED <<table, progressed, core, hooks, calls, faults>>

Startable(e) ==
    Scanning(e) /\ e \notin mstarted /\ dependency_state(e) = "Ready"

(* start_extension: register, construct the globals, run MINIT, record.    *)
StartExtension(e) ==
    /\ Startable(e) /\ Registrable(e) /\ RequiredStarted(e)
    /\ registered' = registered \union {e}
    /\ mstarted' = mstarted \union {e}
    /\ minit' = minit \union {e}
    /\ started' = Append(started, e)
    /\ progressed' = TRUE /\ idx' = idx + 1
    /\ UNCHANGED <<pc, table, core, reqcount, rinit, ret, calls, faults>>

(* start_extension fails: zend_register_module_ex returns NULL, on a       *)
(* conflict, on a taken key or (taking the entry out of the registry       *)
(* again) on the function table, or zend_startup_module_ex misses a        *)
(* requirement, which leaves the entry registered with its flag cleared.   *)
StartFails(e) ==
    /\ Startable(e)
    /\ IF Registrable(e) /\ RequiredStarted(e) THEN Fault ELSE UNCHANGED faults
    /\ registered' = IF Registrable(e) /\ ~RequiredStarted(e)
                     THEN registered \union {e} ELSE registered
    /\ FailStartup
    /\ UNCHANGED <<table, progressed, core, started, reqcount, mstarted, minit,
                   rinit, calls>>

\* MINIT returns FAILURE: zend_error_noreturn ends in abort().
MinitAborts(e) ==
    /\ Startable(e) /\ Registrable(e) /\ RequiredStarted(e)
    /\ Fault
    /\ registered' = registered \union {e}
    /\ mstarted' = mstarted \union {e}
    /\ Goto("aborted")
    /\ UNCHANGED <<table, progressed, core, started, reqcount, minit, rinit,
                   ret, calls>>

\* Variant: the table is scanned once only.
ScanDoneSingleScan ==
    /\ pc = "scan" /\ idx > Len(table)
    /\ IF Len(started) < Len(table)
       THEN FailStartup ELSE Goto("activate") /\ UNCHANGED ret
    /\ progressed' = FALSE
    /\ UNCHANGED <<table, core, hooks, calls, faults>>

\* Variant: a scan without progress is repeated.
ScanDoneNoProgressCheck ==
    /\ pc = "scan" /\ idx > Len(table)
    /\ IF Len(started) < Len(table)
       THEN Goto("scan") ELSE Goto("activate")
    /\ progressed' = FALSE
    /\ UNCHANGED <<table, core, hooks, ret, calls, faults>>

(* The end of a scan: all started, another scan, or no progress.           *)
ScanDone ==
    /\ pc = "scan" /\ idx > Len(table)
    /\ IF progressed
       THEN /\ Goto(IF Len(started) < Len(table) THEN "scan" ELSE "activate")
            /\ UNCHANGED ret
       ELSE FailStartup
    /\ progressed' = FALSE
    /\ UNCHANGED <<table, core, hooks, calls, faults>>

-----------------------------------------------------------------------------
(* php_nano_activate_core, one request subsystem per step.  An active core *)
(* is left as it is.                                                       *)
ActivateStep ==
    /\ pc = "activate" /\ ~core_active /\ idx <= Len(RequestSteps)
    /\ storage' = "request"
    /\ requp' = requp \union {RequestSteps[idx]}
    /\ idx' = idx + 1
    /\ UNCHANGED <<pc, table, progressed, up, core_started, core_active, hooks,
                   ret, calls, faults>>

\* php_output_activate is the last step and the only one that can fail.
ActivateFails ==
    /\ pc = "activate" /\ ~core_active /\ idx = Len(RequestSteps)
    /\ Fault
    /\ pc' = "undo" /\ idx' = 3
    /\ UNCHANGED <<table, progressed, core, hooks, ret, calls>>

ActivateDone ==
    /\ pc = "activate" /\ (core_active \/ idx > Len(RequestSteps))
    /\ core_active' = TRUE
    /\ reqcount' = 0
    /\ Goto("rinit")
    /\ UNCHANGED <<table, progressed, storage, up, requp, core_started, started,
                   mstarted, registered, minit, rinit, ret, calls, faults>>

(* Request startup, in the order of started_extensions().                  *)
Rinit ==
    /\ pc = "rinit" /\ idx <= Len(started)
    /\ rinit' = rinit \union {started[idx]}
    /\ reqcount' = reqcount + 1
    /\ idx' = idx + 1
    /\ UNCHANGED <<pc, table, progressed, core, started, mstarted, registered,
                   minit, ret, calls, faults>>

RinitFails ==
    /\ pc = "rinit" /\ idx <= Len(started)
    /\ Fault
    /\ FailStartup
    /\ UNCHANGED <<table, progressed, core, hooks, calls>>

RinitDone ==
    /\ pc = "rinit" /\ idx > Len(started)
    /\ Goto("idle") /\ ret' = "SUCCESS"
    /\ UNCHANGED <<table, progressed, core, hooks, calls, faults>>

-----------------------------------------------------------------------------
\* Variant: RSHUTDOWN in startup order.
RshutdownForward ==
    /\ pc = "rshutdown" /\ reqcount > 0
    /\ reqcount' = reqcount - 1
    /\ rinit' = rinit \ {started[Len(started) - reqcount + 1]}
    /\ UNCHANGED <<pc, table, idx, progressed, core, started, mstarted,
                   registered, minit, ret, calls, faults>>

(* php_nano_shutdown_extensions: RSHUTDOWN from the last RINIT backwards.  *)
Rshutdown ==
    /\ pc = "rshutdown" /\ reqcount > 0
    /\ reqcount' = reqcount - 1
    /\ rinit' = rinit \ {started[reqcount]}
    /\ UNCHANGED <<pc, table, idx, progressed, core, started, mstarted,
                   registered, minit, ret, calls, faults>>

RshutdownDone ==
    /\ pc = "rshutdown" /\ reqcount = 0
    /\ Goto(IF core_active THEN "deactivate" ELSE "mshutdown")
    /\ UNCHANGED <<table, progressed, core, hooks, ret, calls, faults>>

(* php_nano_deactivate_core, and the undo path of a failed activation,     *)
(* which enters the same list after the output layer and the destructors.  *)
DeactivateStep ==
    /\ pc \in {"deactivate", "undo"} /\ idx <= Len(DeactivateSteps)
    /\ requp' = requp \ {DeactivateSteps[idx]}
    /\ idx' = idx + 1
    /\ UNCHANGED <<pc, table, progressed, storage, up, core_started,
                   core_active, hooks, ret, calls, faults>>

\* Variant: module storage is not restored.
DeactivateDoneKeepsStorage ==
    /\ pc \in {"deactivate", "undo"} /\ idx > Len(DeactivateSteps)
    /\ core_active' = FALSE
    /\ IF pc = "undo" THEN FailStartup ELSE Goto("mshutdown") /\ UNCHANGED ret
    /\ UNCHANGED <<table, progressed, storage, up, requp, core_started, hooks,
                   calls, faults>>

DeactivateDone ==
    /\ pc \in {"deactivate", "undo"} /\ idx > Len(DeactivateSteps)
    /\ storage' = "permanent"
    /\ core_active' = FALSE
    /\ IF pc = "undo" THEN FailStartup ELSE Goto("mshutdown") /\ UNCHANGED ret
    /\ UNCHANGED <<table, progressed, up, requp, core_started, hooks, calls,
                   faults>>

\* Variant: MSHUTDOWN in startup order.
MshutdownForward ==
    /\ pc = "mshutdown" /\ started # <<>>
    /\ minit' = minit \ {Head(started)}
    /\ mstarted' = mstarted \ {Head(started)}
    /\ started' = Tail(started)
    /\ UNCHANGED <<pc, table, idx, progressed, core, reqcount, registered,
                   rinit, ret, calls, faults>>

\* Variant: module_started is left set.
MshutdownKeepsFlag ==
    /\ pc = "mshutdown" /\ started # <<>>
    /\ minit' = minit \ {started[Len(started)]}
    /\ started' = SubSeq(started, 1, Len(started) - 1)
    /\ UNCHANGED <<pc, table, idx, progressed, core, reqcount, registered,
                   mstarted, rinit, ret, calls, faults>>

(* MSHUTDOWN and the globals destructor, last started first.               *)
Mshutdown ==
    /\ pc = "mshutdown" /\ started # <<>>
    /\ LET e == started[Len(started)] IN
       /\ minit' = minit \ {e}
       /\ mstarted' = mstarted \ {e}
    /\ started' = SubSeq(started, 1, Len(started) - 1)
    /\ UNCHANGED <<pc, table, idx, progressed, core, reqcount, registered,
                   rinit, ret, calls, faults>>

MshutdownDone ==
    /\ pc = "mshutdown" /\ started = <<>>
    /\ Goto(IF core_started THEN "coredown" ELSE "idle")
    /\ UNCHANGED <<table, progressed, core, hooks, ret, calls, faults>>

\* Variant: the core entry keeps its module_started flag.
ShutdownCoreStepKeepsFlag ==
    /\ pc = "coredown" /\ idx <= Len(ShutdownSteps)
    /\ LET s == ShutdownSteps[idx] IN
       /\ up' = up \ {s}
       /\ storage' = "permanent"
       /\ minit' = IF s = "coremod" THEN minit \ {CoreMod} ELSE minit
       /\ registered' = IF s = "builtin" THEN {} ELSE registered
    /\ idx' = idx + 1
    /\ UNCHANGED <<pc, table, progressed, requp, core_started, core_active,
                   started, reqcount, mstarted, rinit, ret, calls, faults>>

(* php_nano_shutdown_core, one subsystem per step.                         *)
ShutdownCoreStep ==
    /\ pc = "coredown" /\ idx <= Len(ShutdownSteps)
    /\ LET s == ShutdownSteps[idx] IN
       /\ up' = up \ {s}
       /\ storage' = "permanent"
       /\ mstarted' = IF s = "coremod" THEN mstarted \ {CoreMod} ELSE mstarted
       /\ minit' = IF s = "coremod" THEN minit \ {CoreMod} ELSE minit
       /\ registered' = IF s = "builtin" THEN {} ELSE registered
    /\ idx' = idx + 1
    /\ UNCHANGED <<pc, table, progressed, requp, core_started, core_active,
                   started, reqcount, rinit, ret, calls, faults>>

ShutdownCoreDone ==
    /\ pc = "coredown" /\ idx > Len(ShutdownSteps)
    /\ core_started' = FALSE
    /\ Goto("idle")
    /\ UNCHANGED <<table, progressed, storage, up, requp, core_active, hooks,
                   ret, calls, faults>>

-----------------------------------------------------------------------------
Host == (\E t \in Tables : CallStartup(t)) \/ CallShutdown

Scan(e) ==
    \/ ScanSkip(e) \/ ScanInvalid(e) \/ StartExtension(e)
    \/ StartFails(e) \/ MinitAborts(e)

\* What the process does by itself while a call is in progress.
Run ==
    \/ StartupCoreStep \/ StartupCoreFails \/ StartupCoreDone
    \/ CheckNotStarted \/ ValidateEntry \/ ValidateDone
    \/ (\E e \in Ext : Scan(e)) \/ ScanDone
    \/ ActivateStep \/ ActivateFails \/ ActivateDone
    \/ Rinit \/ RinitFails \/ RinitDone
    \/ Rshutdown \/ RshutdownDone \/ DeactivateStep \/ DeactivateDone
    \/ Mshutdown \/ MshutdownDone \/ ShutdownCoreStep \/ ShutdownCoreDone

Next == Host \/ Run

(* A call, once made, runs to its end: hooks return and nothing blocks.    *)
Spec == Init /\ [][Next]_vars /\ WF_vars(Run)

-----------------------------------------------------------------------------
TypeOK ==
    /\ pc \in {"idle", "core", "check", "validate", "scan", "activate", "undo",
               "rinit", "rshutdown", "deactivate", "mshutdown", "coredown",
               "aborted"}
    /\ table \in Seq(Ext) /\ idx \in Nat \ {0} /\ progressed \in BOOLEAN
    /\ started \in Seq(Ext) /\ reqcount \in 0..Len(started)
    /\ mstarted \subseteq Modules /\ registered \subseteq Modules
    /\ storage \in {"permanent", "request"}
    /\ up \subseteq Subsystems /\ requp \subseteq RequestSubsystems
    /\ core_started \in BOOLEAN /\ core_active \in BOOLEAN
    /\ minit \subseteq Modules /\ rinit \subseteq Ext
    /\ ret \in {"none", "SUCCESS", "FAILURE"}
    /\ calls \in 0..MaxCalls /\ faults \in 0..MaxFaults

(* The REQUIRED dependencies of m name, in any spelling, modules of S.     *)
Needs(m, S) ==
    m \in Ext =>
        \A i \in DOMAIN Deps[m] :
            Deps[m][i].type = "REQUIRED" =>
                \E d \in S : Key(d) = Lower[Deps[m][i].name]

(* EXTENSIONS.md: dependencies start before dependents, and outlive them.  *)
(* Between its MINIT and its MSHUTDOWN, and between its RINIT and its      *)
(* RSHUTDOWN, a module finds the modules it requires in the same phase,    *)
(* whatever the order of the table and however the startup failed.         *)
DependenciesOutlive ==
    /\ \A m \in minit : Needs(m, minit)
    /\ \A m \in rinit : Needs(m, rinit \union {CoreMod})

(* The books the shutdown loops work from agree with the hooks that ran:   *)
(* started_extensions() and module_started hold exactly the modules        *)
(* between MINIT and MSHUTDOWN, the first request_started_count() of them  *)
(* the ones between RINIT and RSHUTDOWN, and none is listed twice.         *)
HooksBalanced ==
    /\ minit \ {CoreMod} = Elems(started)
    /\ pc # "aborted" => mstarted = minit
    /\ rinit = { started[i] : i \in 1..reqcount }
    /\ \A i, j \in DOMAIN started : started[i] = started[j] => i = j

(* Between calls the runtime is all up or all down.  Up, every entry of    *)
(* the table has started and serves requests; down, no hook is left to     *)
(* run, lookups find nothing, string storage is permanent, and, unless     *)
(* php_nano_startup_core gave up half-way, no subsystem is left behind.    *)
AllUp ==
    /\ ret = "SUCCESS" => Elems(started) = Elems(table)
    /\ up = Subsystems /\ requp = RequestSubsystems /\ storage = "request"
    /\ core_active /\ CoreMod \in minit
    /\ rinit = Elems(started)

AllDown ==
    /\ ret # "SUCCESS"
    /\ minit = {} /\ rinit = {} /\ mstarted = {} /\ reqcount = 0
    /\ ~core_active /\ requp = {} /\ storage = "permanent"
    /\ \A n \in Names : php_nano_find_extension(n) = {}
    /\ faults = 0 => up = {} /\ registered = {}

AllOrNothing == pc = "idle" => IF core_started THEN AllUp ELSE AllDown

(* The table as EXTENSIONS.md describes the legal ones: matching ABI,      *)
(* distinct names, requirements present, no conflict, no cycle.  Module    *)
(* names are compared the way the Zend registry compares them.             *)
Resolves(m, n) == Key(m) = Lower[n]

Legal(t) ==
    LET E == Elems(t)
        All == E \union {CoreMod}
        D(e, types) == { d \in Elems(Deps[e]) : d.type \in types }
    IN  /\ E \subseteq AbiOk
        /\ \A i, j \in DOMAIN t : Key(t[i]) = Key(t[j]) => i = j
        /\ \A e \in E : Key(e) # Key(CoreMod)
        /\ \A e \in E : \A d \in D(e, {"REQUIRED"}) :
              \E m \in All : Resolves(m, d.name)
        /\ \A e \in E : \A d \in D(e, {"CONFLICTS"}) :
              \A m \in All : ~Resolves(m, d.name)
        /\ \E rank \in [E -> 1..Len(t)] :
              \A e, m \in E : \A d \in D(e, {"REQUIRED", "OPTIONAL"}) :
                  Resolves(m, d.name) => rank[m] < rank[e]

(* EXTENSIONS.md: "Duplicate names, missing/cyclic dependencies,           *)
(* conflicts, and ABI mismatches fail startup/build."                      *)
RefusesIllegal == pc = "idle" /\ ret = "SUCCESS" => Legal(table)

(* EXTENSIONS.md: dependencies are honoured "even when Composer discovery  *)
(* order differs": a legal table is refused only when something fails.     *)
AcceptsLegal ==
    pc = "idle" /\ ret = "FAILURE" /\ ~core_started /\ faults = 0
        => ~Legal(table)

(* core.cpp: "All module startup hooks have completed by activation time." *)
(* MINIT and MSHUTDOWN run in permanent string storage with no request     *)
(* active; RINIT and RSHUTDOWN run inside an active request.               *)
HookContext ==
    [][/\ minit' # minit => ~core_active /\ storage = "permanent" /\ requp = {}
       /\ rinit' # rinit => core_active /\ storage = "request"
                            /\ requp = RequestSubsystems]_vars

(* User destructors run in php_nano_deactivate_core: the executor, the     *)
(* resource list, the working directory and request strings are still      *)
(* there, every extension has left the request, and none has left the      *)
(* process.                                                                *)
DestructorContext ==
    pc = "deactivate" /\ idx <= Len(DeactivateSteps)
                      /\ DeactivateSteps[idx] = "destructors" =>
        /\ requp = RequestSubsystems \ {"output"} /\ storage = "request"
        /\ up = Subsystems /\ rinit = {} /\ Elems(started) \subseteq minit

(* Every call returns, whatever fails on the way, unless MINIT aborts the  *)
(* process: the scan over a table with a dependency cycle ends.            *)
CallsReturn == pc # "idle" ~> pc \in {"idle", "aborted"}

(* The registry keeps the contract of ModuleContract.                      *)
Contract == INSTANCE ModuleContract WITH
    Mods <- Modules, Base <- {CoreMod}, Needs <- Needs,
    loaded <- minit, serving <- rinit

ContractSpec == Contract!Spec
=============================================================================
