-------------------------------- MODULE ZendIni --------------------------------
(***************************************************************************)
(* The INI registry (Zend/zend_ini.c) over the life of the Nano core:      *)
(* modules register their directives while they start, the program and the *)
(* host change them during a request, and the end of the request puts back *)
(* what was changed.  A directive may have an on_modify handler, which     *)
(* keeps a copy of the value in its module's globals and may refuse a      *)
(* value.                                                                  *)
(*                                                                         *)
(* Nano never installs a configuration file reader (zend_startup does),    *)
(* so a directive starts with the default of its definition.               *)
(*                                                                         *)
(* Its names start with ini where another registry has the same ones, so   *)
(* that RegistryProofs extends this module and ZendResources together.     *)
(***************************************************************************)
EXTENDS Integers, FiniteSets

CONSTANTS
    Module, Core,   \* modules; Core registers the standard directives
    Name, Value,    \* directives and their values
    None,           \* not registered, or no value
    Tables,         \* the zend_ini_entry_def tables a module registers
    Default,        \* the value in a directive's definition
    Modifiable,     \* who may modify a directive, by its definition
    Handled,        \* the directives with an on_modify handler
    Reporting       \* the directive error_reporting

Modes == {"user", "perdir", "system"}

ASSUME ModuleAssumption == Core \in Module /\ None \notin Module
ASSUME TablesAssumption == Tables \in [Module -> SUBSET SUBSET Name]
ASSUME DisjointAssumption ==
    \A m \in Module : \A T, U \in Tables[m] : T = U \/ T \intersect U = {}
ASSUME ValueAssumption == None \notin Value /\ Default \in [Name -> Value]
ASSUME ModifiableAssumption == Modifiable \in [Name -> SUBSET Modes]
ASSUME HandledAssumption == Handled \subseteq Name
ASSUME ReportingAssumption == Reporting \in Handled /\ \E T \in Tables[Core] : Reporting \in T

VARIABLES
    ini_phase,  \* of the core: see Phases
    ini,        \* EG(ini_directives)
    table,      \* EG(modified_ini_directives)
    cached,     \* the module globals that on_modify handlers set
    skewed,     \* history: handlers whose last call on the stored value failed
    pin         \* history: values the host fixed for the request

iniVars == <<ini_phase, ini, table, cached, skewed, pin>>

Phases == {"down", "startup", "request", "idle", "shutdown"}
Outcomes == {"ok", "fail", "bail"}
NoEntry == [owner |-> None, value |-> None, modifiable |-> {},
            orig |-> None, origModifiable |-> {}, modified |-> FALSE]
Registered == { n \in Name : ini[n].owner # None }

IniInit ==
    /\ ini_phase = "down" /\ ini = [n \in Name |-> NoEntry] /\ table = {}
    /\ cached = [n \in Name |-> None] /\ skewed = {}
    /\ pin = [n \in Name |-> None]

-----------------------------------------------------------------------------
(* Registration.                                                           *)

NewEntry(m, n) ==
    [owner |-> m, value |-> Default[n], modifiable |-> Modifiable[n],
     orig |-> None, origModifiable |-> {}, modified |-> FALSE]

\* zend_unregister_ini_entries_ex: the entries of module m are freed.
Without(m) == [n \in Name |-> IF ini[n].owner = m THEN NoEntry ELSE ini[n]]

\* The handlers of the directives S are called with the default; those in
\* failing refuse it, which registration does not look at.
CallHandlers(S, failing) ==
    /\ cached' = [n \in Name |-> IF n \in (S \intersect Handled) \ failing
                                 THEN Default[n] ELSE cached[n]]
    /\ skewed' = (skewed \ S) \union (S \intersect Handled \intersect failing)

\* Variant: the entries that were added before the name that exists stay.
RegisterKeepsPart(m, T, failing) ==
    /\ ini_phase = "startup" /\ T \in Tables[m] /\ \A n \in T : ini[n].owner # m
    /\ ini' = [n \in Name |-> IF n \in T \ Registered THEN NewEntry(m, n) ELSE ini[n]]
    /\ CallHandlers(T \ Registered, failing)
    /\ UNCHANGED <<ini_phase, table, pin>>

\* zend_register_ini_entries_ex, from a module's MINIT: a name that exists
\* takes all entries of the module back, though handlers may have been called.
zend_register_ini_entries(m, T, failing) ==
    /\ ini_phase = "startup" /\ T \in Tables[m] /\ \A n \in T : ini[n].owner # m
    /\ IF T \intersect Registered = {}
       THEN ini' = [n \in Name |-> IF n \in T THEN NewEntry(m, n) ELSE ini[n]]
       ELSE ini' = Without(m)
    /\ CallHandlers(T \ Registered, failing)
    /\ UNCHANGED <<ini_phase, table, pin>>

\* php_nano_startup_core: zend_ini_startup, zend_register_standard_ini_entries.
zend_ini_startup(failing) ==
    /\ ini_phase = "down" /\ ini_phase' = "startup" /\ table' = {}
    /\ LET T == UNION Tables[Core]
       IN  /\ ini' = [n \in Name |-> IF n \in T THEN NewEntry(Core, n) ELSE NoEntry]
           /\ CallHandlers(T, failing)
    /\ UNCHANGED pin

php_nano_activate_core ==
    /\ ini_phase \in {"startup", "idle"} /\ ini_phase' = "request"
    /\ UNCHANGED <<ini, table, cached, skewed, pin>>

-----------------------------------------------------------------------------
(* Changing and restoring an entry.                                        *)

\* Variant: every change saves what was there, the second one what the first
\* one stored.
SavedAlways(e, stage, mode) ==
    [e EXCEPT !.orig = e.value, !.origModifiable = e.modifiable, !.modified = TRUE,
              !.modifiable = IF stage = "activate" /\ mode = "system"
                             THEN {"system"} ELSE @]

\* The entry as it is when it is about to be changed: its first change keeps
\* what it was.  The host, at activation, makes it its own.
Saved(e, stage, mode) ==
    LET own == IF stage = "activate" /\ mode = "system"
               THEN [e EXCEPT !.modifiable = {"system"}] ELSE e
    IN  IF e.modified THEN own
        ELSE [own EXCEPT !.orig = e.value, !.origModifiable = e.modifiable,
                         !.modified = TRUE]

\* Variant: the value is stored although the handler refused it.
AlterStoresAnyway(n, v, mode, stage, outcome) ==
    LET e == ini[n] IN
    /\ e.owner # None /\ mode \in e.modifiable
    /\ table' = table \union {n}
    /\ ini' = [ini EXCEPT ![n] = [Saved(e, stage, mode) EXCEPT !.value = v]]
    /\ cached' = IF n \in Handled /\ outcome = "ok" THEN [cached EXCEPT ![n] = v] ELSE cached
    /\ UNCHANGED <<ini_phase, skewed>>

\* zend_alter_ini_entry_ex.  The handler accepts, refuses or bails out; in the
\* last two cases the entry counts as modified and keeps its value.
zend_alter_ini_entry(n, v, mode, stage, outcome) ==
    LET e == ini[n]
        accepted == n \notin Handled \/ outcome = "ok"
    IN  /\ e.owner # None
        /\ mode \in Saved(e, stage, mode).modifiable
        /\ table' = IF e.modified THEN table ELSE table \union {n}
        /\ ini' = [ini EXCEPT ![n] = [Saved(e, stage, mode) EXCEPT
                                        !.value = IF accepted THEN v ELSE @]]
        /\ cached' = IF n \in Handled /\ accepted THEN [cached EXCEPT ![n] = v] ELSE cached
        /\ skewed' = IF n \in Handled /\ accepted THEN skewed \ {n} ELSE skewed
        /\ UNCHANGED ini_phase

\* ini_set, and the other functions that change a directive for the program
\* with zend_alter_ini_entry: gc_enable, set_time_limit, assert_options...
ini_set(n, v, outcome) ==
    /\ ini_phase = "request"
    /\ zend_alter_ini_entry(n, v, "user", "runtime", outcome)
    /\ UNCHANGED pin

\* error_reporting, with a level that is not the current one: it writes the
\* entry itself and asks neither modifiable nor the handler.
error_reporting(v) ==
    LET e == ini[Reporting] IN
    /\ ini_phase = "request" /\ e.owner # None /\ v # cached[Reporting]
    /\ table' = IF e.modified THEN table ELSE table \union {Reporting}
    /\ ini' = [ini EXCEPT ![Reporting] =
                 [(IF Reporting \in table THEN e ELSE Saved(e, "runtime", "user"))
                    EXCEPT !.value = v]]
    /\ cached' = [cached EXCEPT ![Reporting] = v] /\ skewed' = skewed \ {Reporting}
    /\ UNCHANGED <<ini_phase, pin>>

\* The host fixes a directive when it activates a request.
HostActivates(n, v, outcome) ==
    /\ ini_phase = "request"
    /\ zend_alter_ini_entry(n, v, "system", "activate", outcome)
    /\ pin' = [pin EXCEPT ![n] = ini'[n].value]

\* The host changes a directive of the core before extensions are started.
\* Nothing in the repository changes a module's directive that early.
HostConfigures(n, v, outcome) ==
    /\ ini_phase = "startup" /\ ini[n].owner = Core
    /\ zend_alter_ini_entry(n, v, "system", "startup", outcome)
    /\ UNCHANGED pin

\* zend_restore_ini_entry_cb: the entry as it was.
Restored(e) ==
    IF ~e.modified THEN e
    ELSE [e EXCEPT !.value = e.orig, !.modifiable = e.origModifiable,
                   !.orig = None, !.origModifiable = {}, !.modified = FALSE]

\* Variant: anyone may restore, as if modifiable did not matter.
RestoreAny(n, outcome) ==
    /\ ini_phase = "request" /\ ini[n].owner # None
    /\ IF n \in table /\ n \in Handled /\ outcome = "ok"
       THEN /\ ini' = [ini EXCEPT ![n] = Restored(@)] /\ table' = table \ {n}
            /\ cached' = [cached EXCEPT ![n] = ini[n].orig] /\ skewed' = skewed \ {n}
       ELSE UNCHANGED <<ini, table, cached, skewed>>
    /\ UNCHANGED <<ini_phase, pin>>

\* zend_restore_ini_entry at runtime (ini_restore): refused if the handler
\* refuses, and also if there is no handler, because the result starts out as
\* FAILURE.
zend_restore_ini_entry(n, outcome) ==
    /\ ini_phase = "request" /\ ini[n].owner # None /\ "user" \in ini[n].modifiable
    /\ IF ini[n].modified /\ n \in Handled /\ outcome = "ok"
       THEN /\ ini' = [ini EXCEPT ![n] = Restored(@)] /\ table' = table \ {n}
            /\ cached' = [cached EXCEPT ![n] = ini[n].orig] /\ skewed' = skewed \ {n}
       ELSE UNCHANGED <<ini, table, cached, skewed>>
    /\ UNCHANGED <<ini_phase, pin>>

-----------------------------------------------------------------------------
(* The end of the request and of the core.                                 *)

\* zend_ini_deactivate: every modified entry gets its old value back, whether
\* its handler accepts it, refuses it or bails out (failing).
zend_ini_deactivate(failing) ==
    /\ ini_phase = "request" /\ ini_phase' = "idle" /\ table' = {}
    /\ ini' = [n \in Name |-> IF n \in table THEN Restored(ini[n]) ELSE ini[n]]
    /\ cached' = [n \in Name |-> IF n \in (table \intersect Handled) \ failing
                                 THEN ini[n].orig ELSE cached[n]]
    /\ skewed' = (skewed \ table) \union (table \intersect Handled \intersect failing)
    /\ pin' = [n \in Name |-> None]

\* Variant: modules are shut down while the request is still active.
UnregisterInRequest(m) ==
    /\ ini_phase \in {"startup", "request", "idle", "shutdown"} /\ m # Core
    /\ ini_phase' = "shutdown" /\ ini' = Without(m)
    /\ UNCHANGED <<table, cached, skewed, pin>>

\* php_nano_shutdown_extensions: the MSHUTDOWN of a module unregisters its
\* entries; no request follows.
zend_unregister_ini_entries(m) ==
    /\ ini_phase \in {"startup", "idle", "shutdown"} /\ m # Core
    /\ ini_phase' = "shutdown" /\ ini' = Without(m)
    /\ UNCHANGED <<table, cached, skewed, pin>>

\* php_nano_shutdown_core: zend_ini_shutdown.
zend_ini_shutdown ==
    /\ ini_phase \in {"startup", "idle", "shutdown"} /\ ini_phase' = "down"
    /\ ini' = [n \in Name |-> NoEntry]
    /\ UNCHANGED <<table, cached, skewed, pin>>

-----------------------------------------------------------------------------
IniNext ==
    \/ \E failing \in SUBSET Handled :
          zend_ini_startup(failing) \/ zend_ini_deactivate(failing)
    \/ \E m \in Module \ {Core} :
          \/ \E T \in Tables[m], failing \in SUBSET Handled :
                zend_register_ini_entries(m, T, failing)
          \/ zend_unregister_ini_entries(m)
    \/ php_nano_activate_core \/ zend_ini_shutdown
    \/ \E v \in Value : error_reporting(v)
    \/ \E n \in Name, outcome \in Outcomes :
          \/ zend_restore_ini_entry(n, outcome)
          \/ \E v \in Value : \/ ini_set(n, v, outcome)
                              \/ HostActivates(n, v, outcome)
                              \/ HostConfigures(n, v, outcome)

IniSpec == IniInit /\ [][IniNext]_iniVars

-----------------------------------------------------------------------------
(* Properties.                                                             *)

IniEntries == [owner : Module \union {None}, value : Value \union {None},
               modifiable : SUBSET Modes, orig : Value \union {None},
               origModifiable : SUBSET Modes, modified : BOOLEAN]

\* The types of zend_ini_entry and of the executor's tables.
IniTypeOK ==
    /\ ini_phase \in Phases /\ ini \in [Name -> IniEntries] /\ table \subseteq Name
    /\ \A n \in Registered : ini[n].value # None
    /\ cached \in [Name -> Value \union {None}] /\ skewed \subseteq Handled
    /\ pin \in [Name -> Value \union {None}]

\* While the core is up, the table of modified entries holds exactly the
\* registered entries marked modified: none that was freed, by a clash of names
\* or by a module's shutdown, and none is forgotten.
TableExact == ini_phase # "down" => table = { n \in Registered : ini[n].modified }

\* An entry's old value is the one it was registered with, however often and
\* by whomever it was changed since.
OldValueKept ==
    \A n \in Registered :
        LET e == ini[n] IN
        IF e.modified THEN e.orig = Default[n] /\ e.origModifiable = Modifiable[n]
        ELSE e.value = Default[n] /\ e.modifiable = Modifiable[n]

\* Nothing a request does to a directive is seen by the next request, also
\* when handlers refuse the old value (zend_ini_deactivate).
RequestIsolated ==
    ini_phase = "idle" => \A n \in Registered :
        ini[n].value = Default[n] /\ ini[n].modifiable = Modifiable[n]

\* A value the host fixed for the request is not changed or restored by the
\* program with ini_set or ini_restore.  error_reporting() does change the value
\* of its own directive, but leaves it the host's, out of reach for the others.
PinnedHolds ==
    \A n \in Name : pin[n] # None =>
        ini[n].modifiable = {"system"} /\ (n = Reporting \/ ini[n].value = pin[n])

\* What the registry reports and what the module uses agree, unless the
\* handler refused the value when registration or deactivation stored it.
CacheAgrees ==
    \A n \in (Registered \intersect Handled) \ skewed : cached[n] = ini[n].value

\* A module's registration is all or nothing.
AllOrNone ==
    ini_phase \in {"startup", "request", "idle"} =>
        \A m \in Module : \A T \in Tables[m], n, k \in Name :
            n \in T /\ k \in T /\ ini[n].owner = m => ini[k].owner = m

\* What makes these inductive: outside of requests only directives of the core
\* are modified, so that a module's entries can be freed; between requests none
\* is; and only a request has fixed values.
PhaseFacts ==
    /\ ini_phase \in {"startup", "shutdown"} => \A n \in table : ini[n].owner = Core
    /\ ini_phase = "idle" => table = {}
    /\ ini_phase # "request" => \A n \in Name : pin[n] = None
    /\ \A n \in Name : pin[n] # None => n \in Registered
===============================================================================
