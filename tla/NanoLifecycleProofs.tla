------------------------- MODULE NanoLifecycleProofs -------------------------
(***************************************************************************)
(* Proofs about NanoLifecycle for every set of extensions, every           *)
(* dependency graph over them, every set of tables and every bound.        *)
(***************************************************************************)
EXTENDS NanoLifecycle, SequenceFacts, TLAPS

(* php_nano_startup_core has fourteen steps, the core module's the last.   *)
LEMMA StartupStepsType ==
    /\ Len(StartupSteps) = 14 /\ StartupSteps[14] = "coremod"
    /\ \A i \in Nat \ {0} :
          i <= Len(StartupSteps) => StartupSteps[i] \in Subsystems
<1>1. Len(StartupSteps) = 14 /\ StartupSteps[14] = "coremod"
      /\ DOMAIN StartupSteps = 1..14
  BY DEF StartupSteps
<1> QED
  BY <1>1 DEF Subsystems

(* php_nano_activate_core has five.                                        *)
LEMMA RequestStepsType ==
    /\ Len(RequestSteps) = 5
    /\ \A i \in Nat \ {0} :
          i <= Len(RequestSteps) => RequestSteps[i] \in RequestSubsystems
<1>1. Len(RequestSteps) = 5 /\ DOMAIN RequestSteps = 1..5
  BY DEF RequestSteps
<1> QED
  BY <1>1 DEF RequestSubsystems

-----------------------------------------------------------------------------
(* Every variable keeps its type; request_started_count() never exceeds    *)
(* the number of started extensions, so the loop of                        *)
(* php_nano_shutdown_extensions stays inside the vector.  The second part  *)
(* of the invariant is what makes it inductive: extensions are popped only *)
(* once the request loop has emptied the counter, and RINIT is counted at  *)
(* its own position.                                                       *)
CounterInv ==
    /\ pc \in {"validate", "scan", "activate", "undo", "deactivate",
               "mshutdown"} => reqcount = 0
    /\ pc = "rinit" => idx = reqcount + 1
    /\ pc \in {"check", "validate", "scan", "activate", "undo", "rinit",
               "coredown"} => core_started
    /\ pc \in {"core", "validate", "coredown"} \/ ~core_started
          => started = <<>>

TypeInv == TypeOK /\ CounterInv

(* Types and loop counters are right in every reachable state.             *)
THEOREM TypeInvariant == Spec => []TypeInv
<1>1. Init => TypeInv
  <2>1. Init => /\ progressed \in BOOLEAN /\ core_started \in BOOLEAN
                /\ core_active \in BOOLEAN /\ ~core_started
    BY Zenon DEF Init
  <2> QED
    BY <2>1, BoundAssumption, NoElements DEF Init, TypeInv, TypeOK, CounterInv
<1>2. TypeInv /\ [Next]_vars => TypeInv'
  <2> SUFFICES ASSUME TypeInv, [Next]_vars PROVE TypeInv'
    OBVIOUS
  <2> USE DEF TypeInv, TypeOK, CounterInv, core, hooks, Goto, Fault, FailStartup
  <2>1. ASSUME NEW t \in Tables, CallStartup(t) PROVE TypeInv'
    BY <2>1, TablesAssumption, BoundAssumption DEF CallStartup
  <2>2. CASE CallShutdown
    BY <2>2, BoundAssumption DEF CallShutdown
  <2>3. CASE StartupCoreStep
    BY <2>3, StartupStepsType DEF StartupCoreStep, Modules
  <2>4. CASE StartupCoreFails
    BY <2>4, BoundAssumption DEF StartupCoreFails
  <2>5. CASE StartupCoreDone
    BY <2>5 DEF StartupCoreDone
  <2>6. CASE CheckNotStarted
    BY <2>6, NoElements DEF CheckNotStarted
  <2>7. CASE ValidateEntry
    BY <2>7 DEF ValidateEntry
  <2>8. CASE ValidateDone
    <3>1. progressed' \in BOOLEAN
      BY <2>8, Zenon DEF ValidateDone
    <3> QED
      BY <2>8, <3>1 DEF ValidateDone
  <2>9. ASSUME NEW e \in Ext, Scan(e) PROVE TypeInv'
    <3>1. CASE ScanSkip(e)
      BY <3>1 DEF ScanSkip, Scanning
    <3>2. CASE ScanInvalid(e)
      BY <3>2 DEF ScanInvalid, Scanning
    <3>3. CASE StartExtension(e)
      BY <3>3, AppendFacts DEF StartExtension, Startable, Scanning, Modules
    <3>4. CASE StartFails(e)
      BY <3>4, BoundAssumption DEF StartFails, Startable, Scanning, Modules
    <3>5. CASE MinitAborts(e)
      BY <3>5, BoundAssumption DEF MinitAborts, Startable, Scanning, Modules
    <3> QED
      BY <2>9, <3>1, <3>2, <3>3, <3>4, <3>5 DEF Scan
  <2>10. CASE ScanDone
    <3>1. progressed' \in BOOLEAN
      BY <2>10, Zenon DEF ScanDone
    <3> QED
      BY <2>10, <3>1 DEF ScanDone
  <2>11. CASE ActivateStep
    BY <2>11, RequestStepsType DEF ActivateStep
  <2>12. CASE ActivateFails
    BY <2>12, BoundAssumption DEF ActivateFails
  <2>13. CASE ActivateDone
    BY <2>13 DEF ActivateDone
  <2>14. CASE Rinit
    BY <2>14 DEF Rinit
  <2>15. CASE RinitFails
    BY <2>15, BoundAssumption DEF RinitFails
  <2>16. CASE RinitDone
    BY <2>16 DEF RinitDone
  <2>17. CASE Rshutdown
    BY <2>17 DEF Rshutdown
  <2>18. CASE RshutdownDone
    BY <2>18 DEF RshutdownDone
  <2>19. CASE DeactivateStep
    BY <2>19 DEF DeactivateStep
  <2>20. CASE DeactivateDone
    <3>1. core_active' \in BOOLEAN
      BY <2>20, Zenon DEF DeactivateDone
    <3> QED
      BY <2>20, <3>1 DEF DeactivateDone
  <2>21. CASE Mshutdown
    BY <2>21, FrontFacts DEF Mshutdown
  <2>22. CASE MshutdownDone
    BY <2>22 DEF MshutdownDone
  <2>23. CASE ShutdownCoreStep
    BY <2>23 DEF ShutdownCoreStep
  <2>24. CASE ShutdownCoreDone
    <3>1. core_started' \in BOOLEAN
      BY <2>24, Zenon DEF ShutdownCoreDone
    <3> QED
      BY <2>24, <3>1 DEF ShutdownCoreDone
  <2>25. CASE UNCHANGED vars
    BY <2>25 DEF vars
  <2> QED
    BY <2>1, <2>2, <2>3, <2>4, <2>5, <2>6, <2>7, <2>8, <2>9, <2>10, <2>11,
       <2>12, <2>13, <2>14, <2>15, <2>16, <2>17, <2>18, <2>19, <2>20, <2>21,
       <2>22, <2>23, <2>24, <2>25 DEF Next, Host, Run
<1> QED
  BY <1>1, <1>2, PTL DEF Spec

(* The type invariant, request_started_count() <= the number of started    *)
(* extensions included.                                                    *)
THEOREM TypeCorrect == Spec => []TypeOK
<1>1. TypeInv => TypeOK
  BY DEF TypeInv
<1> QED
  BY <1>1, TypeInvariant, PTL

-----------------------------------------------------------------------------
(* The inductive invariant behind the hook properties.  OrderInv is the    *)
(* strengthening: each started extension finds its requirements at or      *)
(* before its own position, which survives popping from the end, where     *)
(* "somewhere in minit" would not.  CoreInv says when the core, which any  *)
(* extension may require, is between its own MINIT and its end.            *)
Upto(s, n) == { s[i] : i \in 1..n }

OrderInv ==
    \A i \in 1..Len(started) :
        Needs(started[i], Upto(started, i) \union {CoreMod})

CoreInv ==
    /\ core_started /\ pc # "coredown" => CoreMod \in minit
    /\ pc = "core" /\ idx > Len(StartupSteps) => CoreMod \in minit

HookInv == HooksBalanced /\ OrderInv /\ CoreInv

(* Requirements met in a set are met in a larger one.                      *)
LEMMA NeedsMonotone ==
    ASSUME NEW m, NEW S, NEW T, S \subseteq T, Needs(m, S)
    PROVE  Needs(m, T)
BY DEF Needs

(* Before the first call no hook has run.                                  *)
LEMMA HookInvInitially == Init => HookInv
<1> SUFFICES ASSUME Init PROVE HookInv
  OBVIOUS
<1>1. started = <<>> /\ Len(started) = 0 /\ DOMAIN started = {}
      /\ reqcount = 0 /\ ~core_started /\ pc = "idle"
  BY DEF Init
<1>2. HooksBalanced
  BY <1>1 DEF Init, HooksBalanced, Elems
<1>3. OrderInv
  BY <1>1 DEF OrderInv
<1> QED
  BY <1>1, <1>2, <1>3 DEF HookInv, CoreInv

(* Steps that run no hook keep the invariant as long as the core part does. *)
LEMMA NoHook ==
    ASSUME HookInv, UNCHANGED <<started, reqcount, minit, rinit>>,
           (pc # "aborted" => mstarted = minit)', CoreInv'
    PROVE  HookInv'
<1>1. HooksBalanced'
  BY DEF HookInv, HooksBalanced, Elems
<1>2. OrderInv'
  BY DEF HookInv, OrderInv, Upto, Needs
<1> QED
  BY <1>1, <1>2 DEF HookInv

(* StartExtension appends an extension that was not started and whose      *)
(* requirements are among the started ones, the core or itself.            *)
LEMMA StartKeepsHookInv ==
    ASSUME TypeInv, HookInv, NEW e \in Ext, StartExtension(e)
    PROVE  HookInv'
<1> DEFINE n == Len(started)
           new == started'
<1>1. /\ started \in Seq(Ext) /\ n \in Nat /\ DOMAIN started = 1..n
      /\ reqcount \in 0..n /\ pc = "scan" /\ pc' = "scan" /\ reqcount' = reqcount
      /\ core_started /\ core_started' /\ e # CoreMod
  BY CoreAssumption DEF TypeInv, TypeOK, CounterInv, StartExtension, Startable,
                        Scanning, core
<1>2. /\ new \in Seq(Ext) /\ Len(new) = n + 1 /\ DOMAIN new = 1..(n + 1)
      /\ \A i \in 1..n : new[i] = started[i]
      /\ new[n + 1] = e
  BY <1>1, AppendFacts DEF StartExtension
<1>3. /\ mstarted = minit /\ mstarted' = minit \union {e}
      /\ minit' = minit \union {e} /\ e \notin minit /\ rinit' = rinit
  BY <1>1 DEF HookInv, HooksBalanced, StartExtension, Startable
<1>4. /\ minit \ {CoreMod} = { started[i] : i \in 1..n }
      /\ rinit = { started[i] : i \in 1..reqcount }
      /\ \A i, j \in 1..n : started[i] = started[j] => i = j
  BY <1>1 DEF HookInv, HooksBalanced, Elems
<1>5. \A i \in 1..n : started[i] # e
  BY <1>3, <1>4
<1>6. HooksBalanced'
  <2>1. minit' \ {CoreMod} = { new[i] : i \in 1..(n + 1) }
    BY <1>1, <1>2, <1>3, <1>4
  <2>2. rinit' = { new[i] : i \in 1..reqcount }
    BY <1>1, <1>2, <1>3, <1>4
  <2>3. \A i, j \in 1..(n + 1) : new[i] = new[j] => i = j
    BY <1>1, <1>2, <1>4, <1>5
  <2> QED
    BY <1>1, <1>2, <1>3, <2>1, <2>2, <2>3 DEF HooksBalanced, Elems
<1>7. OrderInv'
  <2>1. Needs(e, Upto(new, n + 1) \union {CoreMod})
    <3>1. minit \union {e} \subseteq Upto(new, n + 1) \union {CoreMod}
      BY <1>1, <1>2, <1>4 DEF Upto
    <3>2. Needs(e, minit \union {e})
      BY <1>3 DEF StartExtension, RequiredStarted, Needs
    <3> QED
      BY <3>1, <3>2, NeedsMonotone
  <2>2. ASSUME NEW i \in 1..n
        PROVE  Needs(new[i], Upto(new, i) \union {CoreMod})
    <3>1. Upto(new, i) = Upto(started, i)
      BY <1>1, <1>2 DEF Upto
    <3> QED
      BY <1>1, <1>2, <3>1 DEF HookInv, OrderInv
  <2>3. ASSUME NEW i \in 1..(n + 1)
        PROVE  Needs(new[i], Upto(new, i) \union {CoreMod})
    <3>1. CASE i = n + 1
      BY <3>1, <1>2, <2>1
    <3>2. CASE i \in 1..n
      BY <3>2, <2>2
    <3> QED
      BY <1>1, <3>1, <3>2
  <2> QED
    BY <1>2, <2>3 DEF OrderInv, Upto, Needs
<1>8. CoreInv'
  BY <1>1, <1>3 DEF HookInv, CoreInv
<1> QED
  BY <1>6, <1>7, <1>8 DEF HookInv

(* Mshutdown removes the last started extension, which nothing that is     *)
(* left can require.                                                       *)
LEMMA MshutdownKeepsHookInv ==
    ASSUME TypeInv, HookInv, Mshutdown
    PROVE  HookInv'
<1> DEFINE n == Len(started)
           new == started'
           e == started[Len(started)]
<1>1. /\ started \in Seq(Ext) /\ started # <<>> /\ reqcount = 0
      /\ reqcount' = reqcount /\ pc = "mshutdown" /\ pc' = pc
      /\ core_started' = core_started /\ idx' = idx
  BY DEF TypeInv, TypeOK, CounterInv, Mshutdown, core
<1>2. /\ n \in Nat \ {0} /\ DOMAIN started = 1..n /\ e \in Ext /\ e # CoreMod
      /\ new \in Seq(Ext) /\ Len(new) = n - 1 /\ DOMAIN new = 1..(n - 1)
      /\ \A i \in 1..(n - 1) : new[i] = started[i]
  BY <1>1, FrontFacts, CoreAssumption DEF Mshutdown
<1>3. /\ mstarted = minit /\ minit' = minit \ {e} /\ mstarted' = minit \ {e}
      /\ rinit' = rinit
      /\ minit \ {CoreMod} = { started[i] : i \in 1..n }
      /\ rinit = { started[i] : i \in 1..reqcount }
      /\ \A i, j \in 1..n : started[i] = started[j] => i = j
  BY <1>1, <1>2 DEF HookInv, HooksBalanced, Mshutdown, Elems
<1>4. HooksBalanced'
  <2>1. minit' \ {CoreMod} = { new[i] : i \in 1..(n - 1) }
    <3>1. \A i \in 1..(n - 1) : started[i] # e
      BY <1>2, <1>3
    <3>2. \A i \in 1..n : i \in 1..(n - 1) \/ started[i] = e
      BY <1>2
    <3> QED
      BY <1>2, <1>3, <3>1, <3>2
  <2>2. rinit' = { new[i] : i \in 1..reqcount }
    BY <1>1, <1>3
  <2>3. \A i, j \in 1..(n - 1) : new[i] = new[j] => i = j
    BY <1>2, <1>3
  <2> QED
    BY <1>1, <1>2, <1>3, <2>1, <2>2, <2>3 DEF HooksBalanced, Elems
<1>5. OrderInv'
  <2>1. ASSUME NEW i \in 1..(n - 1)
        PROVE  Needs(new[i], Upto(new, i) \union {CoreMod})
    <3>1. Upto(new, i) = Upto(started, i) /\ i \in 1..n
      BY <1>2 DEF Upto
    <3> QED
      BY <1>2, <3>1 DEF HookInv, OrderInv
  <2> QED
    BY <1>2, <2>1 DEF OrderInv, Upto, Needs
<1>6. CoreInv'
  BY <1>1, <1>2, <1>3 DEF HookInv, CoreInv
<1> QED
  BY <1>4, <1>5, <1>6 DEF HookInv

(* RINIT and RSHUTDOWN extend and shrink the same prefix of the started    *)
(* extensions.                                                             *)
LEMMA RequestHooksKeepHookInv ==
    ASSUME TypeInv, HookInv, Rinit \/ Rshutdown
    PROVE  HookInv'
<1>1. /\ started \in Seq(Ext) /\ Len(started) \in Nat
      /\ DOMAIN started = 1..Len(started) /\ reqcount \in 0..Len(started)
      /\ \A i \in 1..Len(started) : started[i] \in Ext
  BY DEF TypeInv, TypeOK
<1>2. /\ started' = started /\ minit' = minit /\ mstarted' = mstarted
      /\ pc' = pc /\ pc # "aborted" /\ pc # "coredown" /\ pc # "core"
      /\ core_started' = core_started
  BY DEF Rinit, Rshutdown, core
<1>3. /\ rinit = { started[i] : i \in 1..reqcount }
      /\ \A i, j \in 1..Len(started) : started[i] = started[j] => i = j
  BY <1>1 DEF HookInv, HooksBalanced
<1>4. CASE Rinit
  <2>1. /\ idx = reqcount + 1 /\ idx <= Len(started) /\ reqcount' = reqcount + 1
        /\ rinit' = rinit \union {started[reqcount + 1]}
    BY <1>4 DEF Rinit, TypeInv, CounterInv
  <2>2. rinit' = { started[i] : i \in 1..(reqcount + 1) }
    BY <1>1, <1>3, <2>1
  <2> QED
    BY <1>1, <1>2, <2>1, <2>2
       DEF HookInv, HooksBalanced, OrderInv, CoreInv, Elems, Upto, Needs
<1>5. CASE Rshutdown
  <2>1. /\ reqcount > 0 /\ reqcount' = reqcount - 1
        /\ rinit' = rinit \ {started[reqcount]}
    BY <1>5 DEF Rshutdown
  <2>2. rinit' = { started[i] : i \in 1..(reqcount - 1) }
    <3>1. \A i \in 1..(reqcount - 1) : started[i] # started[reqcount]
      BY <1>1, <1>3, <2>1
    <3>2. \A i \in 1..reqcount : i \in 1..(reqcount - 1) \/ i = reqcount
      BY <1>1
    <3> QED
      BY <1>1, <1>3, <2>1, <3>1, <3>2
  <2> QED
    BY <1>1, <1>2, <2>1, <2>2
       DEF HookInv, HooksBalanced, OrderInv, CoreInv, Elems, Upto, Needs
<1> QED
  BY <1>4, <1>5

(* The core's own MINIT and end happen while no extension is started.      *)
LEMMA CoreHooksKeepHookInv ==
    ASSUME TypeInv, HookInv, StartupCoreStep \/ ShutdownCoreStep
    PROVE  HookInv'
<1>1. /\ started = <<>> /\ started' = started /\ DOMAIN started = {}
      /\ Len(started) = 0
      /\ rinit' = rinit /\ reqcount' = reqcount /\ pc' = pc
      /\ pc \in {"core", "coredown"} /\ core_started' = core_started
  BY DEF StartupCoreStep, ShutdownCoreStep, TypeInv, CounterInv, TypeOK
<1>2. mstarted = minit /\ minit \ {CoreMod} = {}
  BY <1>1 DEF HookInv, HooksBalanced, Elems
<1>3. mstarted' = minit' /\ minit' \ {CoreMod} = {}
  BY <1>2 DEF StartupCoreStep, ShutdownCoreStep
<1>4. HooksBalanced'
  BY <1>1, <1>3 DEF HookInv, HooksBalanced, Elems
<1>5. CoreInv'
  <2>1. CASE StartupCoreStep
    <3>1. /\ idx \in Nat \ {0} /\ idx <= 14 /\ idx' = idx + 1
          /\ Len(StartupSteps) = 14 /\ pc = "core"
          /\ minit \subseteq minit'
      BY <2>1, StartupStepsType DEF StartupCoreStep, TypeInv, TypeOK
    <3>2. idx = 14 => CoreMod \in minit'
      BY <2>1, <1>2, StartupStepsType DEF StartupCoreStep
    <3> QED
      BY <1>1, <3>1, <3>2 DEF HookInv, CoreInv
  <2>2. CASE ShutdownCoreStep
    BY <2>2, <1>1 DEF ShutdownCoreStep, CoreInv
  <2> QED
    BY <2>1, <2>2
<1> QED
  BY <1>1, <1>4, <1>5 DEF HookInv, OrderInv

(* Every other step leaves the hooks alone; validation resets the flag of  *)
(* an extension only while none is started.                                *)
Quiet ==
    \/ (\E t \in Tables : CallStartup(t)) \/ CallShutdown
    \/ StartupCoreFails \/ StartupCoreDone \/ CheckNotStarted \/ ValidateEntry
    \/ ValidateDone \/ ScanDone \/ ActivateStep \/ ActivateFails \/ ActivateDone
    \/ RinitFails \/ RinitDone \/ RshutdownDone \/ DeactivateStep
    \/ DeactivateDone \/ MshutdownDone \/ ShutdownCoreDone
    \/ \E e \in Ext : ScanSkip(e) \/ ScanInvalid(e) \/ StartFails(e)

(* The steps that run no hook keep the invariant.                          *)
LEMMA QuietKeepsHookInv ==
    ASSUME TypeInv, HookInv, Quiet
    PROVE  HookInv'
<1> USE DEF Goto, FailStartup, core, hooks
<1>1. UNCHANGED <<started, reqcount, minit, rinit>>
  <2>1. ASSUME ActivateDone PROVE UNCHANGED <<started, reqcount, minit, rinit>>
    BY <2>1 DEF ActivateDone, TypeInv, CounterInv
  <2> QED
    BY <2>1 DEF Quiet, CallStartup, CallShutdown, StartupCoreFails,
       StartupCoreDone, CheckNotStarted, ValidateEntry, ValidateDone, ScanDone,
       ActivateStep, ActivateFails, RinitFails, RinitDone, RshutdownDone,
       DeactivateStep, DeactivateDone, MshutdownDone, ShutdownCoreDone,
       ScanSkip, ScanInvalid, StartFails
<1>2. (pc # "aborted" => mstarted = minit)'
  <2>1. pc # "aborted" => mstarted = minit
    BY DEF HookInv, HooksBalanced
  <2>2. CASE ValidateEntry
    <3>1. /\ started = <<>> /\ DOMAIN started = {} /\ table[idx] \in Ext
          /\ pc = "validate"
      BY <2>2 DEF ValidateEntry, TypeInv, TypeOK, CounterInv
    <3>2. minit \ {CoreMod} = {} /\ table[idx] # CoreMod
      BY <3>1, CoreAssumption DEF HookInv, HooksBalanced, Elems
    <3> QED
      BY <2>1, <2>2, <3>1, <3>2, <1>1 DEF ValidateEntry
  <2>3. CASE ~ValidateEntry
    <3>1. mstarted' = mstarted
      BY <2>3 DEF Quiet, CallStartup, CallShutdown, StartupCoreFails,
       StartupCoreDone, CheckNotStarted, ValidateDone, ScanDone,
       ActivateStep, ActivateFails, ActivateDone, RinitFails, RinitDone,
       RshutdownDone, DeactivateStep, DeactivateDone, MshutdownDone,
       ShutdownCoreDone, ScanSkip, ScanInvalid, StartFails
    <3>2. pc # "aborted"
      BY DEF Quiet, CallStartup, CallShutdown, StartupCoreFails,
       StartupCoreDone, CheckNotStarted, ValidateEntry, ValidateDone, ScanDone,
       ActivateStep, ActivateFails, ActivateDone, RinitFails, RinitDone,
       RshutdownDone, DeactivateStep, DeactivateDone, MshutdownDone,
       ShutdownCoreDone, ScanSkip, ScanInvalid, StartFails, Startable, Scanning
    <3> QED
      BY <2>1, <3>1, <3>2, <1>1
  <2> QED
    BY <2>2, <2>3
<1>3. CoreInv'
  <2>1. CASE StartupCoreDone
    BY <2>1, <1>1 DEF StartupCoreDone, HookInv, CoreInv
  <2>2. CASE ShutdownCoreDone
    BY <2>2, <1>1 DEF ShutdownCoreDone, HookInv, CoreInv
  <2>3. CASE ~StartupCoreDone /\ ~ShutdownCoreDone
    <3>1. /\ core_started' = core_started /\ pc # "coredown"
          /\ pc' = "core" => idx' = 1 \/ (pc = "core" /\ idx' = idx)
      BY <2>3 DEF Quiet, CallStartup, CallShutdown, StartupCoreFails,
       CheckNotStarted, ValidateEntry, ValidateDone, ScanDone,
       ActivateStep, ActivateFails, ActivateDone, RinitFails, RinitDone,
       RshutdownDone, DeactivateStep, DeactivateDone, MshutdownDone,
       ScanSkip, ScanInvalid, StartFails, Startable, Scanning
    <3> QED
      BY <1>1, <3>1, StartupStepsType DEF HookInv, CoreInv
  <2> QED
    BY <2>1, <2>2, <2>3
<1> QED
  BY <1>1, <1>2, <1>3, NoHook

(* The inductive invariant behind the two theorems below.                 *)
THEOREM HookInvariant == Spec => []HookInv
<1>1. TypeInv /\ HookInv /\ [Next]_vars => HookInv'
  <2> SUFFICES ASSUME TypeInv, HookInv, [Next]_vars PROVE HookInv'
    OBVIOUS
  <2>1. CASE Quiet
    BY <2>1, QuietKeepsHookInv
  <2>2. CASE StartupCoreStep \/ ShutdownCoreStep
    BY <2>2, CoreHooksKeepHookInv
  <2>3. CASE Rinit \/ Rshutdown
    BY <2>3, RequestHooksKeepHookInv
  <2>4. CASE Mshutdown
    BY <2>4, MshutdownKeepsHookInv
  <2>5. CASE \E e \in Ext : StartExtension(e)
    BY <2>5, StartKeepsHookInv
  <2>6. CASE \E e \in Ext : MinitAborts(e)
    <3>1. /\ UNCHANGED <<started, reqcount, minit, rinit>>
          /\ pc' = "aborted" /\ core_started' = core_started /\ pc = "scan"
      BY <2>6 DEF MinitAborts, Goto, core, Startable, Scanning
    <3> QED
      BY <3>1, NoHook DEF HookInv, CoreInv
  <2>7. CASE UNCHANGED vars
    BY <2>7, NoHook DEF vars, core, hooks, HookInv, HooksBalanced, CoreInv
  <2> QED
    BY <2>1, <2>2, <2>3, <2>4, <2>5, <2>6, <2>7
       DEF Next, Host, Run, Scan, Quiet
<1> QED
  BY <1>1, HookInvInitially, TypeInvariant, PTL DEF Spec

(* The shutdown books agree with the hooks that ran.                       *)
THEOREM HooksAreBalanced == Spec => []HooksBalanced
<1>1. HookInv => HooksBalanced
  BY DEF HookInv
<1> QED
  BY <1>1, HookInvariant, PTL

(* Requirements are up whenever a module that needs them is.               *)
THEOREM DependenciesAreUp == Spec => []DependenciesOutlive
<1>1. TypeInv /\ HookInv => DependenciesOutlive
  <2> SUFFICES ASSUME TypeInv, HookInv PROVE DependenciesOutlive
    OBVIOUS
  <2>1. /\ started \in Seq(Ext) /\ DOMAIN started = 1..Len(started)
        /\ Len(started) \in Nat /\ reqcount \in 0..Len(started)
        /\ minit \ {CoreMod} = Upto(started, Len(started))
        /\ rinit = Upto(started, reqcount)
    BY DEF TypeInv, TypeOK, HookInv, HooksBalanced, Elems, Upto
  <2>2. started # <<>> => CoreMod \in minit
    BY DEF TypeInv, CounterInv, HookInv, CoreInv
  <2>3. ASSUME NEW m \in minit PROVE Needs(m, minit)
    <3>1. CASE m = CoreMod
      BY <3>1, CoreAssumption DEF Needs
    <3>2. CASE m # CoreMod
      <4>1. PICK i \in 1..Len(started) : m = started[i]
        BY <3>2, <2>1 DEF Upto
      <4>2. Upto(started, i) \union {CoreMod} \subseteq minit
        <5>1. started # <<>>
          BY <4>1, <2>1
        <5> QED
          BY <5>1, <2>1, <2>2 DEF Upto
      <4> QED
        BY <4>1, <4>2, NeedsMonotone DEF HookInv, OrderInv
    <3> QED
      BY <3>1, <3>2
  <2>4. ASSUME NEW m \in rinit PROVE Needs(m, rinit \union {CoreMod})
    <3>1. PICK i \in 1..reqcount : m = started[i]
      BY <2>1 DEF Upto
    <3>2. /\ i \in 1..Len(started)
          /\ Upto(started, i) \union {CoreMod} \subseteq rinit \union {CoreMod}
      BY <2>1 DEF Upto
    <3> QED
      BY <3>1, <3>2, NeedsMonotone DEF HookInv, OrderInv
  <2> QED
    BY <2>3, <2>4 DEF DependenciesOutlive
<1> QED
  BY <1>1, TypeInvariant, HookInvariant, PTL

-----------------------------------------------------------------------------
(* The request: which of its subsystems are up at every point of a call.   *)
(* php_nano_activate_core brings them up one by one, php_nano_deactivate_  *)
(* core and the undo path of a failed activation take them down, and       *)
(* everywhere else they are all up or all down, as core_active says.       *)
Settled == IF core_active THEN requp = RequestSubsystems /\ storage = "request"
                          ELSE requp = {} /\ storage = "permanent"

RequestInv ==
    /\ core_active => core_started
    /\ ~core_active => reqcount = 0
    /\ pc = "idle" /\ core_started => core_active
    /\ pc = "core" => ~core_started
    /\ pc = "check" /\ ~core_active => started = <<>>
    /\ pc \in {"rinit", "deactivate"} => core_active
    /\ pc \in {"core", "undo", "mshutdown", "coredown"} => ~core_active
    /\ pc \in {"idle", "core", "check", "validate", "scan", "rinit", "rshutdown",
               "mshutdown", "coredown"} => Settled
    /\ pc = "activate" =>
          IF core_active THEN Settled
          ELSE /\ idx <= Len(RequestSteps) + 1
               /\ requp = Upto(RequestSteps, idx - 1)
               /\ storage = IF idx = 1 THEN "permanent" ELSE "request"
    /\ pc \in {"deactivate", "undo"} =>
          /\ idx <= Len(DeactivateSteps) + 1 /\ storage = "request"
          /\ requp = RequestSubsystems \ Upto(DeactivateSteps, idx - 1)

(* One more step of a list.                                                *)
LEMMA UptoFacts ==
    ASSUME NEW s, NEW k \in Nat \ {0}
    PROVE  /\ Upto(s, 0) = {} /\ Upto(s, 1 - 1) = {}
           /\ Upto(s, (k + 1) - 1) = Upto(s, k - 1) \union {s[k]}
<1>1. 1..0 = {} /\ 1..(1 - 1) = {}
  OBVIOUS
<1>2. 1..((k + 1) - 1) = 1..(k - 1) \union {k}
  OBVIOUS
<1> QED
  BY <1>1, <1>2 DEF Upto

(* Activation brings up every subsystem of a request; deactivation takes   *)
(* down every one, and so does the undo path, which leaves out the output  *)
(* layer because that is the step that failed.                             *)
LEMMA RequestLists ==
    /\ Len(RequestSteps) = 5 /\ Len(DeactivateSteps) = 6
    /\ Upto(RequestSteps, 5) = RequestSubsystems
    /\ Upto(RequestSteps, 4) = RequestSubsystems \ Upto(DeactivateSteps, 2)
    /\ RequestSubsystems \ Upto(DeactivateSteps, 6) = {}
    /\ RequestSubsystems \ Upto(DeactivateSteps, 1) = RequestSubsystems \ {"output"}
    /\ DeactivateSteps[2] = "destructors"
    /\ \A k \in 1..6 : DeactivateSteps[k] = "destructors" => k = 2
<1>1. /\ Len(RequestSteps) = 5 /\ DOMAIN RequestSteps = {1, 2, 3, 4, 5}
      /\ RequestSteps[1] = "interned" /\ RequestSteps[2] = "rlist"
      /\ RequestSteps[3] = "cwd" /\ RequestSteps[4] = "executor"
      /\ RequestSteps[5] = "output"
  BY DEF RequestSteps
<1>2. /\ Len(DeactivateSteps) = 6
      /\ DeactivateSteps[1] = "output" /\ DeactivateSteps[2] = "destructors"
      /\ DeactivateSteps[3] = "executor" /\ DeactivateSteps[4] = "rlist"
      /\ DeactivateSteps[5] = "cwd" /\ DeactivateSteps[6] = "interned"
  BY DEF DeactivateSteps
<1>3. /\ 1..1 = {1} /\ 1..2 = {1, 2} /\ 1..4 = {1, 2, 3, 4}
      /\ 1..5 = {1, 2, 3, 4, 5} /\ 1..6 = {1, 2, 3, 4, 5, 6}
  OBVIOUS
<1>4. RequestSubsystems = {"interned", "rlist", "cwd", "executor", "output"}
  BY <1>1 DEF RequestSubsystems
<1>5. /\ Upto(RequestSteps, 5) = {"interned", "rlist", "cwd", "executor", "output"}
      /\ Upto(RequestSteps, 4) = {"interned", "rlist", "cwd", "executor"}
  BY <1>1, <1>3 DEF Upto
<1>6. /\ Upto(DeactivateSteps, 1) = {"output"}
      /\ Upto(DeactivateSteps, 2) = {"output", "destructors"}
      /\ Upto(DeactivateSteps, 6) =
            {"output", "destructors", "executor", "rlist", "cwd", "interned"}
  BY <1>2, <1>3 DEF Upto
<1> QED
  BY <1>1, <1>2, <1>3, <1>4, <1>5, <1>6

(* Every step keeps the request consistent.                                *)
LEMMA RequestInvStep == TypeInv /\ RequestInv /\ [Next]_vars => RequestInv'
<1> SUFFICES ASSUME TypeInv, RequestInv, [Next]_vars PROVE RequestInv'
  OBVIOUS
<1> USE DEF Goto, FailStartup, core, hooks, Settled
<1>t. /\ TypeInv /\ RequestInv /\ idx \in Nat \ {0}
      /\ core_active \in BOOLEAN /\ core_started \in BOOLEAN
  BY DEF TypeInv, TypeOK
<1>u. ASSUME idx' = 1
      PROVE  idx' <= Len(RequestSteps) + 1 /\ Upto(RequestSteps, idx' - 1) = {}
  BY <1>u, RequestLists, UptoFacts
<1>1. ASSUME NEW t \in Tables, CallStartup(t) PROVE RequestInv'
  BY <1>1, <1>t DEF CallStartup, RequestInv
<1>2. CASE CallShutdown
  BY <1>2, <1>t DEF CallShutdown, RequestInv
<1>3. CASE StartupCoreStep
  BY <1>3, <1>t DEF StartupCoreStep, RequestInv
<1>4. CASE StartupCoreFails
  BY <1>4, <1>t DEF StartupCoreFails, RequestInv, TypeInv, CounterInv
<1>5. CASE StartupCoreDone
  BY <1>5, <1>t DEF StartupCoreDone, RequestInv, TypeInv, CounterInv
<1>6. CASE CheckNotStarted
  BY <1>6, <1>t DEF CheckNotStarted, RequestInv
<1>7. CASE ValidateEntry
  BY <1>7, <1>t DEF ValidateEntry, RequestInv
<1>8. CASE ValidateDone
  BY <1>8, <1>t, <1>u DEF ValidateDone, RequestInv
<1>9. ASSUME NEW e \in Ext, Scan(e) PROVE RequestInv'
  <2>1. /\ pc = "scan" /\ pc' \in {"scan", "rshutdown", "aborted"}
        /\ UNCHANGED <<storage, requp, core_started, core_active, reqcount>>
    BY <1>9 DEF Scan, ScanSkip, ScanInvalid, StartExtension, StartFails,
                MinitAborts, Startable, Scanning
  <2> QED
    BY <2>1, <1>t DEF RequestInv
<1>10. CASE ScanDone
  BY <1>10, <1>t, <1>u DEF ScanDone, RequestInv
<1>11. CASE ActivateStep
  <2>1. /\ pc = "activate" /\ ~core_active /\ idx <= 5 /\ pc' = pc
        /\ idx' = idx + 1 /\ storage' = "request"
        /\ requp' = requp \union {RequestSteps[idx]}
        /\ UNCHANGED <<core_started, core_active, reqcount, started>>
    BY <1>11, RequestLists DEF ActivateStep
  <2>2. requp' = Upto(RequestSteps, idx' - 1)
    BY <1>t, <2>1, UptoFacts DEF RequestInv
  <2>3. idx' # 1 /\ idx' <= Len(RequestSteps) + 1
    BY <1>t, <2>1, RequestLists
  <2> QED
    BY <1>t, <2>1, <2>2, <2>3 DEF RequestInv
<1>12. CASE ActivateFails
  <2>1. /\ pc = "activate" /\ ~core_active /\ idx = 5 /\ pc' = "undo" /\ idx' = 3
        /\ UNCHANGED <<storage, requp, core_started, core_active, reqcount>>
    BY <1>12, RequestLists DEF ActivateFails
  <2>2. storage = "request" /\ requp = Upto(RequestSteps, 4)
    BY <1>t, <2>1 DEF RequestInv
  <2> QED
    BY <1>t, <2>1, <2>2, RequestLists DEF RequestInv
<1>13. CASE ActivateDone
  <2>1. /\ pc = "activate" /\ (core_active \/ idx > 5) /\ pc' = "rinit"
        /\ core_active' = TRUE /\ reqcount' = 0
        /\ UNCHANGED <<storage, requp, core_started>>
    BY <1>13, RequestLists DEF ActivateDone
  <2>2. requp = RequestSubsystems /\ storage = "request"
    <3>1. CASE core_active
      BY <1>t, <2>1, <3>1 DEF RequestInv
    <3>2. CASE ~core_active
      <4>1. idx = 6
        BY <1>t, <2>1, <3>2, RequestLists DEF RequestInv
      <4> QED
        BY <1>t, <2>1, <3>2, <4>1, RequestLists DEF RequestInv
    <3> QED
      BY <3>1, <3>2
  <2>3. core_started
    BY <1>t, <2>1 DEF TypeInv, CounterInv
  <2> QED
    BY <2>1, <2>2, <2>3 DEF RequestInv
<1>14. CASE Rinit
  BY <1>14, <1>t DEF Rinit, RequestInv
<1>15. CASE RinitFails \/ RinitDone
  BY <1>15, <1>t DEF RinitFails, RinitDone, RequestInv
<1>16. CASE Rshutdown
  BY <1>16, <1>t DEF Rshutdown, RequestInv, TypeInv, TypeOK
<1>17. CASE RshutdownDone
  BY <1>17, <1>t, UptoFacts, RequestLists DEF RshutdownDone, RequestInv
<1>18. CASE DeactivateStep
  <2>1. /\ pc \in {"deactivate", "undo"} /\ idx <= 6 /\ pc' = pc /\ idx' = idx + 1
        /\ requp' = requp \ {DeactivateSteps[idx]}
        /\ UNCHANGED <<storage, core_started, core_active, reqcount>>
    BY <1>18, RequestLists DEF DeactivateStep
  <2>2. requp' = RequestSubsystems \ Upto(DeactivateSteps, idx' - 1)
    BY <1>t, <2>1, UptoFacts DEF RequestInv
  <2>3. idx' <= Len(DeactivateSteps) + 1
    BY <1>t, <2>1, RequestLists
  <2> QED
    BY <1>t, <2>1, <2>2, <2>3 DEF RequestInv
<1>19. CASE DeactivateDone
  <2>1. /\ pc \in {"deactivate", "undo"} /\ idx > 6 /\ storage' = "permanent"
        /\ core_active' = FALSE /\ pc' \in {"rshutdown", "mshutdown"}
        /\ UNCHANGED <<requp, core_started, reqcount>>
    BY <1>19, RequestLists DEF DeactivateDone
  <2>2. idx = 7 /\ reqcount = 0
    BY <1>t, <2>1, RequestLists DEF RequestInv, TypeInv, CounterInv
  <2>3. requp = {}
    BY <1>t, <2>1, <2>2, RequestLists DEF RequestInv
  <2> QED
    BY <2>1, <2>2, <2>3 DEF RequestInv
<1>20. CASE Mshutdown \/ MshutdownDone
  BY <1>20, <1>t DEF Mshutdown, MshutdownDone, RequestInv, TypeInv, CounterInv
<1>21. CASE ShutdownCoreStep
  BY <1>21, <1>t DEF ShutdownCoreStep, RequestInv
<1>22. CASE ShutdownCoreDone
  BY <1>22, <1>t DEF ShutdownCoreDone, RequestInv
<1>23. CASE UNCHANGED vars
  BY <1>23, <1>t DEF vars, RequestInv
<1> QED
  BY <1>1, <1>2, <1>3, <1>4, <1>5, <1>6, <1>7, <1>8, <1>9, <1>10, <1>11, <1>12,
     <1>13, <1>14, <1>15, <1>16, <1>17, <1>18, <1>19, <1>20, <1>21, <1>22, <1>23
     DEF Next, Host, Run

-----------------------------------------------------------------------------
(* The process: which of its subsystems are up, and when the core module   *)
(* is between its MINIT and its MSHUTDOWN.  A startup of the core that     *)
(* gives up half-way leaves what it has initialised; without a failure     *)
(* nothing is left.                                                        *)
ProcessInv ==
    /\ core_started /\ pc # "coredown" => up = Subsystems
    /\ pc = "core" => /\ idx <= Len(StartupSteps) + 1
                      /\ Upto(StartupSteps, idx - 1) \subseteq up
    /\ pc = "coredown" => /\ idx <= Len(ShutdownSteps) + 1
                          /\ up = Subsystems \ Upto(ShutdownSteps, idx - 1)
                          /\ idx > 5 => registered = {}
    /\ CoreMod \in minit => \/ core_started /\ (pc = "coredown" => idx <= 4)
                            \/ pc = "core" /\ idx > Len(StartupSteps)
    /\ ~core_started /\ pc # "core" /\ faults = 0 => up = {} /\ registered = {}

(* Startup brings up every subsystem, shutdown takes down every one; the   *)
(* core module starts last, after the steps that can fail.                 *)
LEMMA ProcessLists ==
    /\ Len(StartupSteps) = 14 /\ Len(ShutdownSteps) = 14
    /\ Upto(StartupSteps, 14) = Subsystems
    /\ Subsystems \ Upto(ShutdownSteps, 14) = {}
    /\ \A k \in 1..14 : StartupSteps[k] = "coremod" <=> k = 14
    /\ \A k \in 1..14 : ShutdownSteps[k] = "coremod" <=> k = 4
    /\ \A k \in 1..14 : ShutdownSteps[k] = "builtin" <=> k = 5
    /\ StartupSteps[14] \notin FallibleSteps
<1>1. /\ Len(StartupSteps) = 14 /\ DOMAIN StartupSteps = 1..14
      /\ Len(ShutdownSteps) = 14
  BY DEF StartupSteps, ShutdownSteps
<1>2. Upto(StartupSteps, 14) = Subsystems
  BY <1>1 DEF Upto, Subsystems
<1>3. /\ StartupSteps[1] = "memory" /\ StartupSteps[2] = "gc"
      /\ StartupSteps[3] = "interned" /\ StartupSteps[4] = "extmech"
      /\ StartupSteps[5] = "bcmath" /\ StartupSteps[6] = "tables"
      /\ StartupSteps[7] = "ini" /\ StartupSteps[8] = "rsrc_dtors"
      /\ StartupSteps[9] = "plist" /\ StartupSteps[10] = "cwd"
      /\ StartupSteps[11] = "streams" /\ StartupSteps[12] = "output"
      /\ StartupSteps[13] = "builtin" /\ StartupSteps[14] = "coremod"
  BY DEF StartupSteps
<1>4. /\ ShutdownSteps[1] = "ini" /\ ShutdownSteps[2] = "output"
      /\ ShutdownSteps[3] = "plist" /\ ShutdownSteps[4] = "coremod"
      /\ ShutdownSteps[5] = "builtin" /\ ShutdownSteps[6] = "tables"
      /\ ShutdownSteps[7] = "rsrc_dtors" /\ ShutdownSteps[8] = "streams"
      /\ ShutdownSteps[9] = "cwd" /\ ShutdownSteps[10] = "extmech"
      /\ ShutdownSteps[11] = "interned" /\ ShutdownSteps[12] = "bcmath"
      /\ ShutdownSteps[13] = "memory" /\ ShutdownSteps[14] = "gc"
  BY DEF ShutdownSteps
<1>5. 1..14 = {1, 2, 3, 4, 5, 6, 7, 8, 9, 10, 11, 12, 13, 14}
  OBVIOUS
<1>6. /\ Upto(StartupSteps, 14) = {"memory", "gc", "interned", "extmech", "bcmath",
             "tables", "ini", "rsrc_dtors", "plist", "cwd", "streams", "output",
             "builtin", "coremod"}
      /\ Upto(ShutdownSteps, 14) = {"ini", "output", "plist", "coremod", "builtin",
             "tables", "rsrc_dtors", "streams", "cwd", "extmech", "interned",
             "bcmath", "memory", "gc"}
  BY <1>3, <1>4, <1>5 DEF Upto
<1>7. Upto(StartupSteps, 14) \ Upto(ShutdownSteps, 14) = {}
  BY <1>6
<1>8. /\ \A k \in 1..14 : StartupSteps[k] = "coremod" <=> k = 14
      /\ \A k \in 1..14 : ShutdownSteps[k] = "coremod" <=> k = 4
      /\ \A k \in 1..14 : ShutdownSteps[k] = "builtin" <=> k = 5
  BY <1>3, <1>4, <1>5
<1> QED
  BY <1>1, <1>2, <1>3, <1>7, <1>8 DEF FallibleSteps

(* Every step keeps the process consistent.                                *)
LEMMA ProcessInvStep ==
    TypeInv /\ HookInv /\ RequestInv /\ ProcessInv /\ [Next]_vars => ProcessInv'
<1> SUFFICES ASSUME TypeInv, HookInv, RequestInv, ProcessInv, [Next]_vars
             PROVE  ProcessInv'
  OBVIOUS
<1> USE DEF Goto, FailStartup, core, hooks
<1>t. /\ TypeInv /\ ProcessInv /\ idx \in Nat \ {0} /\ faults \in Nat
      /\ core_started \in BOOLEAN
      /\ pc = "core" => ~core_started
      /\ pc \in {"validate", "scan", "activate", "undo", "rinit", "coredown",
                 "check"} => core_started
  BY BoundAssumption DEF TypeInv, TypeOK, CounterInv, RequestInv
<1>u. ASSUME idx' = 1
      PROVE  /\ idx' <= Len(StartupSteps) + 1 /\ idx' <= Len(ShutdownSteps) + 1
             /\ Upto(StartupSteps, idx' - 1) = {}
             /\ Upto(ShutdownSteps, idx' - 1) = {}
             /\ ~(idx' > 5) /\ idx' <= 4
  BY <1>u, ProcessLists, UptoFacts
<1>1. ASSUME NEW t \in Tables, CallStartup(t) PROVE ProcessInv'
  BY <1>1, <1>t, <1>u DEF CallStartup, ProcessInv
<1>2. CASE CallShutdown
  BY <1>2, <1>t DEF CallShutdown, ProcessInv
<1>3. CASE StartupCoreStep
  <2>1. /\ pc = "core" /\ pc' = "core" /\ idx <= 14 /\ idx' = idx + 1
        /\ up' = up \union {StartupSteps[idx]}
        /\ minit' = minit \/ (StartupSteps[idx] = "coremod")
        /\ core_started' = core_started
    BY <1>3, ProcessLists DEF StartupCoreStep
  <2>2. Upto(StartupSteps, idx' - 1) \subseteq up'
    BY <1>t, <2>1, UptoFacts DEF ProcessInv
  <2>3. CoreMod \in minit' => idx' > Len(StartupSteps)
    <3>1. idx \in 1..14
      BY <1>t, <2>1
    <3>2. CASE idx = 14
      BY <2>1, <3>2, ProcessLists
    <3>3. CASE idx # 14
      BY <1>t, <2>1, <3>1, <3>3, ProcessLists DEF ProcessInv
    <3> QED
      BY <3>2, <3>3
  <2>4. idx' <= Len(StartupSteps) + 1
    BY <1>t, <2>1, ProcessLists
  <2> QED
    BY <1>t, <2>1, <2>2, <2>3, <2>4 DEF ProcessInv
<1>4. CASE StartupCoreFails
  <2>1. /\ pc = "core" /\ pc' = "idle" /\ idx <= 14 /\ StartupSteps[idx] \in FallibleSteps
        /\ faults' = faults + 1 /\ UNCHANGED <<up, minit, core_started, registered>>
    BY <1>4, ProcessLists DEF StartupCoreFails, Fault
  <2>2. CoreMod \notin minit /\ faults' # 0
    BY <1>t, <2>1, ProcessLists DEF ProcessInv
  <2> QED
    BY <1>t, <2>1, <2>2 DEF ProcessInv
<1>5. CASE StartupCoreDone
  <2>1. /\ pc = "core" /\ idx > 14 /\ core_started' = TRUE /\ pc' = "check"
        /\ UNCHANGED <<up, minit, registered>>
    BY <1>5, ProcessLists DEF StartupCoreDone
  <2>2. idx = 15
    BY <1>t, <2>1, ProcessLists DEF ProcessInv
  <2>3. Upto(StartupSteps, 14) \subseteq up
    BY <1>t, <2>1, <2>2 DEF ProcessInv
  <2>4. up = Subsystems
    BY <2>3, ProcessLists DEF TypeInv, TypeOK
  <2> QED
    BY <2>1, <2>4 DEF ProcessInv
<1>6. CASE CheckNotStarted \/ ValidateEntry \/ ValidateDone \/ ScanDone
  BY <1>6, <1>t DEF CheckNotStarted, ValidateEntry, ValidateDone, ScanDone,
                    ProcessInv
<1>7. ASSUME NEW e \in Ext, Scan(e) PROVE ProcessInv'
  <2>1. /\ pc = "scan" /\ pc' \in {"scan", "rshutdown", "aborted"}
        /\ UNCHANGED <<up, core_started>> /\ minit' \subseteq minit \union {e}
    BY <1>7 DEF Scan, ScanSkip, ScanInvalid, StartExtension, StartFails,
                MinitAborts, Startable, Scanning
  <2> QED
    BY <1>t, <2>1, CoreAssumption DEF ProcessInv
<1>8. CASE ActivateStep \/ ActivateFails \/ ActivateDone
  BY <1>8, <1>t DEF ActivateStep, ActivateFails, ActivateDone, ProcessInv
<1>9. CASE Rinit \/ RinitFails \/ RinitDone
  BY <1>9, <1>t DEF Rinit, RinitFails, RinitDone, ProcessInv
<1>10. CASE Rshutdown \/ RshutdownDone
  BY <1>10, <1>t DEF Rshutdown, RshutdownDone, ProcessInv
<1>11. CASE DeactivateStep \/ DeactivateDone
  BY <1>11, <1>t DEF DeactivateStep, DeactivateDone, ProcessInv
<1>12. CASE Mshutdown
  BY <1>12, <1>t DEF Mshutdown, ProcessInv
<1>13. CASE MshutdownDone
  BY <1>13, <1>t, <1>u DEF MshutdownDone, ProcessInv
<1>14. CASE ShutdownCoreStep
  <2>1. /\ pc = "coredown" /\ pc' = "coredown" /\ idx <= 14 /\ idx' = idx + 1
        /\ up' = up \ {ShutdownSteps[idx]} /\ minit' \subseteq minit
        /\ ShutdownSteps[idx] = "coremod" => CoreMod \notin minit'
        /\ registered' = IF ShutdownSteps[idx] = "builtin" THEN {} ELSE registered
        /\ core_started' = core_started
    BY <1>14, ProcessLists DEF ShutdownCoreStep
  <2>2. up' = Subsystems \ Upto(ShutdownSteps, idx' - 1)
    BY <1>t, <2>1, UptoFacts DEF ProcessInv
  <2>3. idx \in 1..14 /\ idx' <= Len(ShutdownSteps) + 1
    BY <1>t, <2>1, ProcessLists
  <2>4. idx' > 5 => registered' = {}
    <3>1. CASE idx = 5
      BY <2>1, <2>3, <3>1, ProcessLists
    <3>2. CASE idx # 5
      BY <1>t, <2>1, <2>3, <3>2 DEF ProcessInv
    <3> QED
      BY <3>1, <3>2
  <2>5. CoreMod \in minit' => idx' <= 4
    <3>1. CASE idx = 4
      BY <2>1, <2>3, <3>1, ProcessLists
    <3>2. CASE idx # 4
      BY <1>t, <2>1, <2>3, <3>2 DEF ProcessInv
    <3> QED
      BY <3>1, <3>2
  <2> QED
    BY <1>t, <2>1, <2>2, <2>3, <2>4, <2>5 DEF ProcessInv
<1>15. CASE ShutdownCoreDone
  <2>1. /\ pc = "coredown" /\ idx > 14 /\ core_started' = FALSE /\ pc' = "idle"
        /\ UNCHANGED <<up, minit, registered>>
    BY <1>15, ProcessLists DEF ShutdownCoreDone
  <2>2. idx = 15
    BY <1>t, <2>1, ProcessLists DEF ProcessInv
  <2>3. up = {} /\ registered = {} /\ CoreMod \notin minit
    BY <1>t, <2>1, <2>2, ProcessLists DEF ProcessInv
  <2> QED
    BY <2>1, <2>3 DEF ProcessInv
<1>16. CASE UNCHANGED vars
  BY <1>16, <1>t DEF vars, ProcessInv
<1> QED
  BY <1>1, <1>2, <1>3, <1>4, <1>5, <1>6, <1>7, <1>8, <1>9, <1>10, <1>11, <1>12,
     <1>13, <1>14, <1>15, <1>16 DEF Next, Host, Run
-----------------------------------------------------------------------------
(* The call: what the table under the cursor and the result have to do     *)
(* with the extensions that are started.  Activation is reached only when  *)
(* as many extensions are started as the table has entries; since each is  *)
(* started once and comes from the table, they are the entries.            *)
TableInv ==
    /\ ret = "SUCCESS" => /\ pc = "idle" /\ core_started
                          /\ Elems(started) = Elems(table)
    /\ pc \in {"idle", "core", "check"} => reqcount = Len(started)
    /\ pc \in {"scan", "activate", "rinit"} => Elems(started) \subseteq Elems(table)
    /\ pc \in {"activate", "rinit"} => Len(started) >= Len(table)

(* A list of distinct entries of a table, as long as the table, has them   *)
(* all.                                                                    *)
LEMMA AllStarted ==
    ASSUME NEW S, NEW s \in Seq(S), NEW t \in Seq(S),
           \A i, j \in DOMAIN s : s[i] = s[j] => i = j,
           Elems(s) \subseteq Elems(t), Len(s) >= Len(t)
    PROVE  Elems(s) = Elems(t)
<1>1. /\ Len(s) \in Nat /\ DOMAIN s = 1..Len(s)
      /\ Len(t) \in Nat /\ DOMAIN t = 1..Len(t)
  OBVIOUS
<1>2. /\ IsFiniteSet(1..Len(s)) /\ Cardinality(1..Len(s)) = Len(s)
      /\ IsFiniteSet(1..Len(t)) /\ Cardinality(1..Len(t)) = Len(t)
  BY <1>1, IntervalSize
<1>3. Cardinality(Elems(s)) = Len(s) /\ IsFiniteSet(Elems(s))
  <2> DEFINE f == [i \in 1..Len(s) |-> s[i]]
  <2>1. f \in Bijection(1..Len(s), Elems(s))
    BY <1>1 DEF Bijection, Injection, Surjection, IsInjective, Elems
  <2>2. ExistsBijection(1..Len(s), Elems(s))
    BY <2>1 DEF ExistsBijection
  <2> QED
    BY <1>2, <2>2, FS_Bijection
<1>4. Cardinality(Elems(t)) <= Len(t) /\ IsFiniteSet(Elems(t))
  <2> DEFINE f == [i \in 1..Len(t) |-> t[i]]
  <2>1. f \in Surjection(1..Len(t), Elems(t))
    BY <1>1 DEF Surjection, Elems
  <2> HIDE DEF f
  <2> QED
    BY <1>2, <2>1, FS_Surjection
<1>5. Cardinality(Elems(s)) <= Cardinality(Elems(t))
      /\ (Cardinality(Elems(s)) = Cardinality(Elems(t)) => Elems(s) = Elems(t))
  BY <1>4, FS_Subset
<1>6. Cardinality(Elems(t)) \in Nat
  BY <1>4, FS_CardinalityType
<1> QED
  BY <1>1, <1>3, <1>4, <1>5, <1>6

(* Every step keeps the call consistent.                                   *)
LEMMA TableInvStep ==
    TypeInv /\ HookInv /\ RequestInv /\ TableInv /\ [Next]_vars => TableInv'
<1> SUFFICES ASSUME TypeInv, HookInv, RequestInv, TableInv, [Next]_vars
             PROVE  TableInv'
  OBVIOUS
<1> USE DEF Goto, FailStartup, core, hooks
<1>t. /\ TypeInv /\ TableInv /\ idx \in Nat \ {0}
      /\ started \in Seq(Ext) /\ table \in Seq(Ext)
      /\ Len(started) \in Nat /\ DOMAIN started = 1..Len(started)
      /\ Len(table) \in Nat /\ DOMAIN table = 1..Len(table)
      /\ reqcount \in 0..Len(started)
      /\ started = <<>> => Elems(started) = {} /\ Len(started) = 0 /\ reqcount = 0
      /\ pc = "rinit" => idx = reqcount + 1
      /\ pc = "core" => ~core_started /\ started = <<>>
      /\ pc \in {"validate", "coredown"} \/ ~core_started => started = <<>>
  BY DEF TypeInv, TypeOK, CounterInv, RequestInv, Elems
<1>1. ASSUME NEW t \in Tables, CallStartup(t) PROVE TableInv'
  BY <1>1, <1>t DEF CallStartup, TableInv
<1>2. CASE CallShutdown
  BY <1>2, <1>t DEF CallShutdown, TableInv
<1>3. CASE StartupCoreStep \/ StartupCoreFails \/ StartupCoreDone
  BY <1>3, <1>t DEF StartupCoreStep, StartupCoreFails, StartupCoreDone, TableInv
<1>4. CASE CheckNotStarted \/ ValidateEntry
  BY <1>4, <1>t DEF CheckNotStarted, ValidateEntry, TableInv
<1>5. CASE ValidateDone
  BY <1>5, <1>t DEF ValidateDone, TableInv, Elems
<1>6. ASSUME NEW e \in Ext, Scan(e) PROVE TableInv'
  <2>1. CASE StartExtension(e)
    <3>1. /\ pc = "scan" /\ pc' = "scan" /\ e = table[idx] /\ idx <= Len(table)
          /\ started' = Append(started, e) /\ table' = table /\ ret' = ret
      BY <2>1 DEF StartExtension, Startable, Scanning
    <3>2. Elems(started') = Elems(started) \union {e}
      <4>1. /\ Len(started') = Len(started) + 1 /\ started' \in Seq(Ext)
            /\ \A i \in 1..Len(started) : started'[i] = started[i]
            /\ started'[Len(started) + 1] = e
        BY <1>t, <3>1, AppendFacts
      <4>2. DOMAIN started' = 1..(Len(started) + 1)
        BY <4>1
      <4>3. \A i : i \in 1..(Len(started) + 1) <=>
                      i \in 1..Len(started) \/ i = Len(started) + 1
        BY <1>t
      <4> QED
        BY <1>t, <4>1, <4>2, <4>3 DEF Elems
    <3>3. e \in Elems(table)
      BY <1>t, <3>1 DEF Elems
    <3>4. Elems(started') \subseteq Elems(table)
      BY <1>t, <3>1, <3>2, <3>3 DEF TableInv
    <3>5. Elems(started)' = Elems(started') /\ Elems(table)' = Elems(table)
      BY <3>1 DEF Elems
    <3> QED
      BY <1>t, <3>1, <3>4, <3>5 DEF TableInv
  <2>2. CASE ~StartExtension(e)
    <3>1. /\ pc = "scan" /\ pc' \in {"scan", "rshutdown", "aborted"}
          /\ ret' \in {ret, "FAILURE"} /\ UNCHANGED <<started, table>>
      BY <1>6, <2>2 DEF Scan, ScanSkip, ScanInvalid, StartFails, MinitAborts,
                        Startable, Scanning
    <3> QED
      BY <1>t, <3>1 DEF TableInv
  <2> QED
    BY <2>1, <2>2
<1>7. CASE ScanDone
  <2>1. /\ pc = "scan" /\ pc' \in {"scan", "activate", "rshutdown"}
        /\ ret' \in {ret, "FAILURE"} /\ UNCHANGED <<started, table>>
    BY <1>7 DEF ScanDone
  <2>2. pc' = "activate" => Len(started) >= Len(table)
    BY <1>7, <1>t DEF ScanDone
  <2> QED
    BY <1>t, <2>1, <2>2 DEF TableInv, Elems
<1>8. CASE ActivateStep \/ ActivateFails \/ ActivateDone
  BY <1>8, <1>t DEF ActivateStep, ActivateFails, ActivateDone, TableInv
<1>9. CASE Rinit \/ RinitFails
  BY <1>9, <1>t DEF Rinit, RinitFails, TableInv
<1>10. CASE RinitDone
  <2>1. /\ pc = "rinit" /\ idx > Len(started) /\ pc' = "idle" /\ core_started
        /\ UNCHANGED <<started, table, reqcount, core_started>>
    BY <1>10 DEF RinitDone, TypeInv, CounterInv
  <2>2. reqcount = Len(started)
    <3>1. idx = reqcount + 1 /\ idx > Len(started) /\ Len(started) \in Nat
          /\ reqcount \in Nat /\ reqcount <= Len(started)
      BY <1>t, <2>1
    <3> QED
      BY <3>1
  <2>3. Elems(started) = Elems(table)
    BY <1>t, <2>1, AllStarted DEF TableInv, HookInv, HooksBalanced
  <2> QED
    BY <2>1, <2>2, <2>3 DEF TableInv, Elems
<1>11. CASE Rshutdown \/ RshutdownDone \/ DeactivateStep \/ DeactivateDone
  BY <1>11, <1>t DEF Rshutdown, RshutdownDone, DeactivateStep, DeactivateDone,
                     TableInv
<1>12. CASE Mshutdown
  BY <1>12, <1>t DEF Mshutdown, TableInv
<1>13. CASE MshutdownDone
  BY <1>13, <1>t DEF MshutdownDone, TableInv, TypeInv, CounterInv
<1>14. CASE ShutdownCoreStep \/ ShutdownCoreDone
  BY <1>14, <1>t DEF ShutdownCoreStep, ShutdownCoreDone, TableInv
<1>15. CASE UNCHANGED vars
  BY <1>15, <1>t DEF vars, TableInv, Elems
<1> QED
  BY <1>1, <1>2, <1>3, <1>4, <1>5, <1>6, <1>7, <1>8, <1>9, <1>10, <1>11, <1>12,
     <1>13, <1>14, <1>15 DEF Next, Host, Run

(* The four parts together hold in every reachable state.                  *)
LifecycleInv == TypeInv /\ HookInv /\ RequestInv /\ ProcessInv /\ TableInv

(* Types, hooks, request, process and table agree at every label of the    *)
(* life cycle, whatever calls the host makes and whatever fails.           *)
THEOREM LifecycleInvariant == Spec => []LifecycleInv
<1>1. Init => RequestInv /\ ProcessInv /\ TableInv
  <2> SUFFICES ASSUME Init PROVE RequestInv /\ ProcessInv /\ TableInv
    OBVIOUS
  <2>1. /\ pc = "idle" /\ ~core_started /\ ~core_active /\ ret = "none"
        /\ started = <<>> /\ Len(started) = 0 /\ reqcount = 0
        /\ requp = {} /\ storage = "permanent" /\ up = {} /\ registered = {}
        /\ minit = {}
    BY DEF Init
  <2> QED
    BY <2>1 DEF RequestInv, ProcessInv, TableInv, Settled
<1>2. TypeInv /\ HookInv /\ RequestInv /\ ProcessInv /\ TableInv
        /\ TypeInv' /\ HookInv' /\ [Next]_vars
      => RequestInv' /\ ProcessInv' /\ TableInv'
  BY RequestInvStep, ProcessInvStep, TableInvStep
<1> QED
  BY <1>1, <1>2, TypeInvariant, HookInvariant, PTL DEF Spec, LifecycleInv

(* Between calls the runtime is all up or all down, for every table and    *)
(* wherever the startup failed.                                            *)
THEOREM RuntimeAllOrNothing == Spec => []AllOrNothing
<1>1. LifecycleInv => AllOrNothing
  <2> SUFFICES ASSUME LifecycleInv, pc = "idle"
               PROVE  IF core_started THEN AllUp ELSE AllDown
    BY DEF AllOrNothing
  <2>t. /\ started \in Seq(Ext) /\ DOMAIN started = 1..Len(started)
        /\ reqcount = Len(started) /\ mstarted = minit
        /\ minit \ {CoreMod} = Elems(started)
        /\ rinit = { started[i] : i \in 1..reqcount }
    BY DEF LifecycleInv, TypeInv, TypeOK, TableInv, HookInv, HooksBalanced
  <2>1. CASE core_started
    <3>1. core_active /\ Settled /\ up = Subsystems /\ CoreMod \in minit
      BY <2>1 DEF LifecycleInv, RequestInv, ProcessInv, HookInv, CoreInv
    <3>2. rinit = Elems(started)
      BY <2>t DEF Elems
    <3>3. ret = "SUCCESS" => Elems(started) = Elems(table)
      BY DEF LifecycleInv, TableInv
    <3> QED
      BY <2>1, <3>1, <3>2, <3>3 DEF AllUp, Settled
  <2>2. CASE ~core_started
    <3>1. /\ started = <<>> /\ ~core_active /\ Settled /\ ret # "SUCCESS"
          /\ CoreMod \notin minit /\ (faults = 0 => up = {} /\ registered = {})
      BY <2>2 DEF LifecycleInv, TypeInv, CounterInv, RequestInv, ProcessInv, TableInv
    <3>2. Len(started) = 0 /\ DOMAIN started = {} /\ 1..0 = {}
      BY <3>1
    <3>3. Elems(started) = {} /\ minit = {} /\ rinit = {} /\ reqcount = 0
      BY <2>t, <3>1, <3>2 DEF Elems
    <3>4. \A n \in Names : php_nano_find_extension(n) = {}
      BY <3>3 DEF php_nano_find_extension
    <3> QED
      BY <2>t, <2>2, <3>1, <3>3, <3>4 DEF AllDown, Settled
  <2> QED
    BY <2>1, <2>2
<1> QED
  BY <1>1, LifecycleInvariant, PTL

(* What a user destructor finds when php_nano_deactivate_core calls it.    *)
THEOREM DestructorsRunInContext == Spec => []DestructorContext
<1>1. LifecycleInv => DestructorContext
  <2> SUFFICES ASSUME LifecycleInv, pc = "deactivate",
                      idx <= Len(DeactivateSteps),
                      DeactivateSteps[idx] = "destructors"
               PROVE  /\ requp = RequestSubsystems \ {"output"}
                      /\ storage = "request"
                      /\ up = Subsystems /\ rinit = {}
                      /\ Elems(started) \subseteq minit
    BY DEF DestructorContext
  <2>1. idx = 2
    BY RequestLists DEF LifecycleInv, TypeInv, TypeOK
  <2>2. requp = RequestSubsystems \ {"output"} /\ storage = "request"
    BY <2>1, RequestLists DEF LifecycleInv, RequestInv
  <2>3. up = Subsystems
    BY DEF LifecycleInv, RequestInv, ProcessInv
  <2>4. rinit = {}
    <3>1. reqcount = 0 /\ 1..0 = {}
      BY DEF LifecycleInv, TypeInv, CounterInv
    <3> QED
      BY <3>1 DEF LifecycleInv, HookInv, HooksBalanced
  <2>5. Elems(started) \subseteq minit
    BY DEF LifecycleInv, HookInv, HooksBalanced
  <2> QED
    BY <2>2, <2>3, <2>4, <2>5
<1> QED
  BY <1>1, LifecycleInvariant, PTL

-----------------------------------------------------------------------------
(* An active core has extensions.  This is where the table matters: an     *)
(* empty one activates the core with nothing started, and the next call    *)
(* would start its extensions inside that request.                         *)
ActiveInv ==
    /\ pc \in {"core", "check", "validate", "scan", "activate", "rinit"}
          => table # <<>>
    /\ pc \in {"validate", "scan"} => ~core_active
    /\ pc \in {"idle", "check"} /\ core_active => started # <<>>

(* Every step keeps it, as long as the host passes no empty table.         *)
LEMMA ActiveInvStep ==
    ASSUME <<>> \notin Tables
    PROVE  LifecycleInv /\ ActiveInv /\ [Next]_vars => ActiveInv'
<1> SUFFICES ASSUME LifecycleInv, ActiveInv, [Next]_vars PROVE ActiveInv'
  OBVIOUS
<1> USE DEF Goto, FailStartup, core, hooks
<1>t. /\ ActiveInv
      /\ pc \in {"core", "mshutdown", "coredown"} => ~core_active
      /\ pc = "check" /\ started = <<>> => ~core_active
      /\ started \in Seq(Ext) /\ table \in Seq(Ext)
      /\ pc \in {"activate", "rinit"} => Len(started) >= Len(table)
  BY DEF LifecycleInv, ActiveInv, RequestInv, TypeInv, TypeOK, TableInv
<1>1. ASSUME NEW t \in Tables, CallStartup(t) PROVE ActiveInv'
  BY <1>1, <1>t DEF CallStartup, ActiveInv
<1>2. CASE CallShutdown
  BY <1>2 DEF CallShutdown, ActiveInv
<1>3. CASE StartupCoreStep \/ StartupCoreFails \/ StartupCoreDone
  BY <1>3, <1>t DEF StartupCoreStep, StartupCoreFails, StartupCoreDone, ActiveInv
<1>4. CASE CheckNotStarted \/ ValidateEntry \/ ValidateDone
  BY <1>4, <1>t DEF CheckNotStarted, ValidateEntry, ValidateDone, ActiveInv
<1>5. ASSUME NEW e \in Ext, Scan(e) PROVE ActiveInv'
  <2>1. /\ pc = "scan" /\ pc' \in {"scan", "rshutdown", "aborted"}
        /\ UNCHANGED <<core_active, table>>
    BY <1>5 DEF Scan, ScanSkip, ScanInvalid, StartExtension, StartFails,
                MinitAborts, Startable, Scanning
  <2> QED
    BY <2>1, <1>t DEF ActiveInv
<1>6. CASE ScanDone
  BY <1>6, <1>t DEF ScanDone, ActiveInv
<1>7. CASE ActivateStep \/ ActivateFails \/ ActivateDone
  BY <1>7, <1>t DEF ActivateStep, ActivateFails, ActivateDone, ActiveInv
<1>8. CASE Rinit \/ RinitFails
  BY <1>8, <1>t DEF Rinit, RinitFails, ActiveInv
<1>9. CASE RinitDone
  <2>1. pc = "rinit" /\ pc' = "idle" /\ UNCHANGED started
    BY <1>9 DEF RinitDone
  <2>2. started # <<>>
    <3>1. table # <<>> /\ Len(started) >= Len(table)
      BY <2>1, <1>t DEF ActiveInv
    <3>2. Len(table) \in Nat \ {0} /\ Len(<<>>) = 0
      BY <3>1, <1>t
    <3> QED
      BY <3>1, <3>2
  <2> QED
    BY <2>1, <2>2 DEF ActiveInv
<1>10. CASE Rshutdown \/ RshutdownDone \/ DeactivateStep \/ DeactivateDone
  BY <1>10, <1>t DEF Rshutdown, RshutdownDone, DeactivateStep, DeactivateDone,
                     ActiveInv
<1>11. CASE Mshutdown \/ MshutdownDone \/ ShutdownCoreStep \/ ShutdownCoreDone
  BY <1>11, <1>t DEF Mshutdown, MshutdownDone, ShutdownCoreStep,
                     ShutdownCoreDone, ActiveInv
<1>12. CASE UNCHANGED vars
  BY <1>12, <1>t DEF vars, ActiveInv
<1> QED
  BY <1>1, <1>2, <1>3, <1>4, <1>5, <1>6, <1>7, <1>8, <1>9, <1>10, <1>11, <1>12
     DEF Next, Host, Run

(* Module hooks run outside every request, request hooks inside one, for   *)
(* every host that passes no empty table.                                  *)
THEOREM HooksRunInContext ==
    ASSUME <<>> \notin Tables
    PROVE  Spec => HookContext
<1>1. Init => ActiveInv
  BY DEF Init, ActiveInv
<1>2. LifecycleInv /\ ActiveInv /\ [Next]_vars => ActiveInv'
  BY ActiveInvStep
<1>3. LifecycleInv /\ ActiveInv /\ [Next]_vars =>
        [/\ minit' # minit => ~core_active /\ storage = "permanent" /\ requp = {}
         /\ rinit' # rinit => core_active /\ storage = "request"
                              /\ requp = RequestSubsystems]_vars
  <2> SUFFICES ASSUME LifecycleInv, ActiveInv, Next
      PROVE /\ minit' # minit => ~core_active /\ storage = "permanent" /\ requp = {}
            /\ rinit' # rinit => core_active /\ storage = "request"
                                 /\ requp = RequestSubsystems
    OBVIOUS
  <2>1. /\ minit' # minit => pc \in {"core", "scan", "mshutdown", "coredown"}
        /\ rinit' # rinit => pc = "rinit" \/ (pc = "rshutdown" /\ reqcount > 0)
    <3> USE DEF core, hooks
    <3>1. ASSUME NEW e \in Ext, Scan(e) PROVE pc = "scan" /\ rinit' = rinit
      BY <3>1 DEF Scan, ScanSkip, ScanInvalid, StartExtension, StartFails,
                  MinitAborts, Startable, Scanning
    <3> QED
      BY <3>1 DEF Next, Host, Run, CallStartup, CallShutdown, StartupCoreStep,
        StartupCoreFails, StartupCoreDone, CheckNotStarted, ValidateEntry,
        ValidateDone, ScanDone, ActivateStep, ActivateFails, ActivateDone, Rinit,
        RinitFails, RinitDone, Rshutdown, RshutdownDone, DeactivateStep,
        DeactivateDone, Mshutdown, MshutdownDone, ShutdownCoreStep,
        ShutdownCoreDone
  <2>2. /\ pc \in {"core", "scan", "mshutdown", "coredown"} => ~core_active
        /\ pc = "rinit" => core_active
        /\ pc = "rshutdown" /\ reqcount > 0 => core_active
        /\ pc \in {"core", "scan", "mshutdown", "coredown", "rinit", "rshutdown"}
              => Settled
    BY DEF LifecycleInv, RequestInv, ActiveInv
  <2> QED
    BY <2>1, <2>2 DEF Settled
<1> QED
  BY <1>1, <1>2, <1>3, LifecycleInvariant, PTL DEF Spec, HookContext

-----------------------------------------------------------------------------
(* The registry implements ModuleContract: every step either runs one hook *)
(* that the contract allows at that point or leaves its state alone.       *)
THEOREM RegistryKeepsContract == Spec => ContractSpec
<1> USE DEF Contract!cvars
<1>1. Init => Contract!Init
  BY DEF Init, Contract!Init
<1>2. LifecycleInv /\ LifecycleInv' /\ DependenciesOutlive' /\ [Next]_vars
        => [Contract!Next]_(Contract!cvars)
  <2> SUFFICES ASSUME LifecycleInv, LifecycleInv', DependenciesOutlive', [Next]_vars,
                      ~UNCHANGED <<minit, rinit>>
               PROVE  Contract!Next
    OBVIOUS
  <2>t. /\ started \in Seq(Ext) /\ DOMAIN started = 1..Len(started)
        /\ Len(started) \in Nat /\ reqcount \in 0..Len(started)
        /\ minit \ {CoreMod} = Elems(started)
        /\ rinit = { started[i] : i \in 1..reqcount }
        /\ \A i, j \in DOMAIN started : started[i] = started[j] => i = j
        /\ minit \subseteq Modules /\ rinit \subseteq Ext
        /\ \A i \in 1..Len(started) : started[i] \in Ext /\ started[i] # CoreMod
    BY CoreAssumption DEF LifecycleInv, TypeInv, TypeOK, HookInv, HooksBalanced
  <2>c. Contract!Closed(minit') /\ Contract!Closed(rinit')
    <3>1. ASSUME NEW m \in minit' PROVE Needs(m, minit' \union {CoreMod})
      BY <3>1, NeedsMonotone DEF DependenciesOutlive, Needs
    <3>2. ASSUME NEW m \in rinit' PROVE Needs(m, rinit' \union {CoreMod})
      BY <3>2 DEF DependenciesOutlive, Needs
    <3> QED
      BY <3>1, <3>2 DEF Contract!Closed
  <2>0. reqcount = 0 => rinit = {}
    <3>1. 1..0 = {}
      OBVIOUS
    <3> QED
      BY <2>t, <3>1
  <2>1. CASE StartupCoreStep \/ ShutdownCoreStep
    <3>1. /\ pc \in {"core", "coredown"} /\ rinit' = rinit
          /\ minit' = minit \union {CoreMod} \/ minit' = minit \ {CoreMod}
      BY <2>1 DEF StartupCoreStep, ShutdownCoreStep
    <3>2. started = <<>> /\ reqcount = 0
      BY <3>1 DEF LifecycleInv, TypeInv, CounterInv, RequestInv
    <3>3. minit \subseteq {CoreMod} /\ rinit = {}
      BY <2>t, <2>0, <3>2 DEF Elems
    <3>4. CASE minit' = minit \union {CoreMod}
      <4>1. Contract!Load(CoreMod)
        BY <2>c, <3>1, <3>3, <3>4 DEF Contract!Load
      <4> QED
        BY <4>1 DEF Contract!Next, Modules
    <3>5. CASE minit' = minit \ {CoreMod}
      <4>1. Contract!Unload(CoreMod)
        BY <2>c, <3>1, <3>3, <3>5 DEF Contract!Unload
      <4> QED
        BY <4>1 DEF Contract!Next, Modules
    <3> QED
      BY <3>1, <3>4, <3>5
  <2>2. ASSUME NEW e \in Ext, StartExtension(e) PROVE Contract!Next
    <3>1. /\ pc = "scan" /\ e \notin mstarted /\ minit' = minit \union {e}
          /\ rinit' = rinit
      BY <2>2 DEF StartExtension, Startable, Scanning
    <3>2. e \notin minit /\ rinit = {}
      BY <2>0, <3>1 DEF LifecycleInv, HookInv, HooksBalanced, TypeInv, CounterInv
    <3>3. Contract!Load(e)
      BY <2>c, <3>1, <3>2 DEF Contract!Load
    <3> QED
      BY <3>3 DEF Contract!Next, Modules
  <2>3. CASE Mshutdown
    <3> DEFINE e == started[Len(started)]
    <3>1. /\ pc = "mshutdown" /\ started # <<>> /\ minit' = minit \ {e}
          /\ rinit' = rinit
      BY <2>3 DEF Mshutdown
    <3>2. Len(started) \in 1..Len(started)
      BY <2>t, <3>1
    <3>3. e \in minit /\ e \in Ext /\ e # CoreMod
      BY <2>t, <3>2 DEF Elems
    <3>4. rinit = {}
      BY <2>0, <3>1 DEF LifecycleInv, TypeInv, CounterInv
    <3> HIDE DEF e
    <3>5. Contract!Unload(e)
      BY <2>c, <3>1, <3>3, <3>4 DEF Contract!Unload
    <3> QED
      BY <3>3, <3>5 DEF Contract!Next, Modules
  <2>4. CASE Rinit
    <3> DEFINE e == started[idx]
    <3>1. /\ idx <= Len(started) /\ idx = reqcount + 1 /\ minit' = minit
          /\ rinit' = rinit \union {e}
      BY <2>4 DEF Rinit, LifecycleInv, TypeInv, CounterInv
    <3>2. idx \in 1..Len(started) /\ \A i \in 1..reqcount :
             i \in 1..Len(started) /\ i # idx
      BY <2>t, <3>1
    <3>3. e \in minit /\ e \in Ext /\ e \notin rinit
      BY <2>t, <3>2 DEF Elems
    <3> HIDE DEF e
    <3>4. Contract!Serve(e)
      BY <2>c, <3>1, <3>3 DEF Contract!Serve
    <3> QED
      BY <3>3, <3>4 DEF Contract!Next, Modules
  <2>5. CASE Rshutdown
    <3> DEFINE e == started[reqcount]
    <3>1. reqcount > 0 /\ minit' = minit /\ rinit' = rinit \ {e}
      BY <2>5 DEF Rshutdown
    <3>2. reqcount \in 1..reqcount /\ reqcount \in 1..Len(started)
      BY <2>t, <3>1
    <3>3. e \in rinit /\ e \in Ext
      BY <2>t, <3>2
    <3> HIDE DEF e
    <3>4. Contract!Retire(e)
      BY <2>c, <3>1, <3>3 DEF Contract!Retire
    <3> QED
      BY <3>3, <3>4 DEF Contract!Next, Modules
  <2>6. CASE Quiet
    <3>1. UNCHANGED <<minit, rinit>>
      BY <2>6 DEF Quiet, CallStartup, CallShutdown, StartupCoreFails,
       StartupCoreDone, CheckNotStarted, ValidateEntry, ValidateDone, ScanDone,
       ActivateStep, ActivateFails, ActivateDone, RinitFails, RinitDone,
       RshutdownDone, DeactivateStep, DeactivateDone, MshutdownDone,
       ShutdownCoreDone, ScanSkip, ScanInvalid, StartFails, hooks
    <3> QED
      BY <3>1
  <2>7. CASE \E e \in Ext : MinitAborts(e)
    BY <2>7 DEF MinitAborts
  <2>8. CASE UNCHANGED vars
    BY <2>8 DEF vars, hooks
  <2> QED
    BY <2>1, <2>2, <2>3, <2>4, <2>5, <2>6, <2>7, <2>8
       DEF Next, Host, Run, Scan, Quiet
<1> QED
  BY <1>1, <1>2, LifecycleInvariant, DependenciesAreUp, PTL
     DEF Spec, ContractSpec, Contract!Spec

-----------------------------------------------------------------------------
(* Which tables php_nano_startup_extensions accepts, for every set of      *)
(* extensions and every table: exactly the legal ones, as long as the      *)
(* dependency lists spell a module's name the way its entry does.  Without *)
(* that hypothesis both directions fail, because find_available compares   *)
(* names exactly and the Zend registry compares them in lower case.        *)

(* Every dependency that an entry of the table resolves, in any case,      *)
(* spells that entry's name exactly.                                       *)
Spelled(t) ==
    \A e, m \in Elems(t) : \A d \in Elems(Deps[e]) :
        Resolves(m, d.name) => Name[m] = d.name

SpelledAlike == \A t \in Tables : Spelled(t)

-----------------------------------------------------------------------------
(* dependency_state answers Ready when every dependency is, and otherwise  *)
(* with the verdict on one of them.                                        *)
LEMMA StateFacts ==
    ASSUME NEW e \in Ext
    PROVE  /\ dependency_state(e) = "Ready" =>
                 \A d \in Elems(Deps[e]) : DepVerdict(d) = "Ready"
           /\ dependency_state(e) # "Ready" =>
                 \E d \in Elems(Deps[e]) : DepVerdict(d) = dependency_state(e)
<1> DEFINE B == { i \in DOMAIN Deps[e] : DepVerdict(Deps[e][i]) # "Ready" }
           c == CHOOSE i \in B : \A j \in B : i <= j
<1>1. B \in SUBSET Nat
  BY DepsAssumption
<1>2. dependency_state(e) = IF B = {} THEN "Ready" ELSE DepVerdict(Deps[e][c])
  BY DEF dependency_state
<1>3. B # {} => c \in B
  <2> SUFFICES ASSUME B # {} PROVE c \in B
    OBVIOUS
  <2> HIDE DEF B
  <2>1. \E i \in B : \A j \in B : i <= j
    BY <1>1, LeastElement
  <2> QED
    BY <2>1
<1>4. c \in B => /\ Deps[e][c] \in Elems(Deps[e])
                 /\ DepVerdict(Deps[e][c]) # "Ready"
  <2> HIDE DEF c
  <2> QED
    BY DEF Elems
<1> HIDE DEF c
<1>5. B = {} => \A d \in Elems(Deps[e]) : DepVerdict(d) = "Ready"
  BY DEF Elems
<1> HIDE DEF B
<1> QED
  BY <1>2, <1>3, <1>4, <1>5

(* What each verdict on one dependency says of the entry it finds.         *)
LEMMA VerdictFacts ==
    ASSUME NEW d
    PROVE  /\ DepVerdict(d) = "Invalid" =>
                 \/ d.type = "CONFLICTS" /\ Available(d.name) # {}
                 \/ d.type = "REQUIRED" /\ Available(d.name) = {}
           /\ DepVerdict(d) = "Waiting" =>
                 d.type # "CONFLICTS" /\ ~(Available(d.name) \subseteq mstarted)
           /\ DepVerdict(d) = "Ready" =>
                 IF d.type = "CONFLICTS" THEN Available(d.name) = {}
                 ELSE /\ Available(d.name) \subseteq mstarted
                      /\ d.type = "REQUIRED" => Available(d.name) # {}
BY DEF DepVerdict

(* The entry a name finds: one of the table that carries it, or else one   *)
(* of the registry that carries it in some case; and none only if there is *)
(* neither.                                                                *)
LEMMA AvailableFacts ==
    ASSUME NEW n, table \in Seq(Ext)
    PROVE  /\ \A m \in Available(n) : \/ m \in Elems(table) /\ Name[m] = n
                                      \/ m \in RegistryFind(n)
           /\ Available(n) = {} => /\ \A m \in Elems(table) : Name[m] # n
                                   /\ RegistryFind(n) = {}
<1> DEFINE F == find_available(n)
           L == { j \in F : \A k \in F : j <= k }
<1>1. F \in SUBSET Nat /\ F = { i \in DOMAIN table : Name[table[i]] = n }
  BY DEF find_available
<1>2. Available(n) = IF F # {} THEN { table[i] : i \in L } ELSE RegistryFind(n)
  BY DEF Available
<1>3. F # {} => L # {}
  <2> SUFFICES ASSUME F # {} PROVE L # {}
    OBVIOUS
  <2> HIDE DEF F
  <2>1. \E i \in F : \A j \in F : i <= j
    BY <1>1, LeastElement
  <2> QED
    BY <2>1
<1>4. \A i \in L : table[i] \in Elems(table) /\ Name[table[i]] = n
  BY <1>1 DEF Elems
<1>5. F = {} <=> \A m \in Elems(table) : Name[m] # n
  BY <1>1 DEF Elems
<1> HIDE DEF F, L
<1>6. CASE F = {}
  <2>1. Available(n) = RegistryFind(n)
    BY <1>2, <1>6
  <2> QED
    BY <1>5, <1>6, <2>1
<1>7. CASE F # {}
  <2>1. Available(n) = { table[i] : i \in L } /\ L # {}
    BY <1>2, <1>3, <1>7
  <2>2. Available(n) # {}
    BY <2>1
  <2> QED
    BY <1>4, <2>1, <2>2
<1> QED
  BY <1>6, <1>7

(* With distinct names, an entry of the table is the one its name finds.   *)
Distinct(t) == \A i \in 1..Len(t) : \A j \in 1..(i - 1) : Name[t[j]] # Name[t[i]]

(* find_available finds an entry of the table by its own name.             *)
LEMMA AvailableInTable ==
    ASSUME table \in Seq(Ext), Distinct(table), NEW m \in Elems(table)
    PROVE  m \in Available(Name[m])
<1>1. PICK i \in DOMAIN table : m = table[i]
  BY DEF Elems
<1>2. DOMAIN table = 1..Len(table) /\ Len(table) \in Nat /\ i \in Nat
  OBVIOUS
<1>3. \A j \in DOMAIN table : Name[table[j]] = Name[m] => j = i
  <2> SUFFICES ASSUME NEW j \in DOMAIN table, Name[table[j]] = Name[m], j # i
               PROVE  FALSE
    OBVIOUS
  <2>1. j \in 1..(i - 1) \/ i \in 1..(j - 1)
    BY <1>2
  <2> QED
    BY <1>1, <1>2, <2>1 DEF Distinct
<1>4. find_available(Name[m]) = {i}
  BY <1>1, <1>3 DEF find_available
<1> QED
  BY <1>1, <1>2, <1>4 DEF Available

-----------------------------------------------------------------------------
(* While a runtime is being started or is up, the registry holds the core  *)
(* and the started extensions and nothing else, under different keys.      *)
RegistryInv ==
    /\ pc \in {"idle", "check", "validate", "scan", "activate", "rinit"}
          /\ core_started => registered = minit
    /\ pc = "core" /\ idx > 6 /\ idx <= 13 => registered = {}
    /\ pc = "core" /\ idx > 13 => registered = {CoreMod}
    /\ \A m, k \in minit : Key(m) = Key(k) => m = k

(* Where php_nano_startup_core touches the registry.                       *)
LEMMA RegistrySteps ==
    \A k \in 1..14 : /\ StartupSteps[k] = "tables" <=> k = 6
                     /\ StartupSteps[k] = "builtin" <=> k = 13
<1>1. /\ StartupSteps[1] = "memory" /\ StartupSteps[2] = "gc"
      /\ StartupSteps[3] = "interned" /\ StartupSteps[4] = "extmech"
      /\ StartupSteps[5] = "bcmath" /\ StartupSteps[6] = "tables"
      /\ StartupSteps[7] = "ini" /\ StartupSteps[8] = "rsrc_dtors"
      /\ StartupSteps[9] = "plist" /\ StartupSteps[10] = "cwd"
      /\ StartupSteps[11] = "streams" /\ StartupSteps[12] = "output"
      /\ StartupSteps[13] = "builtin" /\ StartupSteps[14] = "coremod"
  BY DEF StartupSteps
<1>2. 1..14 = {1, 2, 3, 4, 5, 6, 7, 8, 9, 10, 11, 12, 13, 14}
  OBVIOUS
<1> QED
  BY <1>1, <1>2

(* Every step keeps the registry and the started extensions together.      *)
LEMMA RegistryInvStep == LifecycleInv /\ RegistryInv /\ [Next]_vars => RegistryInv'
<1> SUFFICES ASSUME LifecycleInv, RegistryInv, [Next]_vars PROVE RegistryInv'
  OBVIOUS
<1> USE DEF Goto, FailStartup, core, hooks
<1>t. /\ RegistryInv /\ idx \in Nat \ {0}
      /\ pc = "core" => ~core_started /\ started = <<>>
      /\ pc = "coredown" => started = <<>>
      /\ pc \in {"scan", "mshutdown"} => mstarted = minit
      /\ minit \ {CoreMod} = Elems(started)
      /\ started = <<>> => minit \subseteq {CoreMod}
  <2>1. started = <<>> => Elems(started) = {}
    BY DEF Elems
  <2>2. minit \ {CoreMod} = Elems(started)
    BY DEF LifecycleInv, HookInv, HooksBalanced
  <2>3. started = <<>> => minit \subseteq {CoreMod}
    BY <2>1, <2>2
  <2> QED
    BY <2>2, <2>3 DEF LifecycleInv, TypeInv, TypeOK, CounterInv, RequestInv, HookInv,
                      HooksBalanced
<1>k. ASSUME minit' \subseteq minit \/ minit' \subseteq {CoreMod}
      PROVE  (\A m, k \in minit : Key(m) = Key(k) => m = k)'
  BY <1>t, <1>k DEF RegistryInv, Key
<1>1. ASSUME NEW t \in Tables, CallStartup(t) PROVE RegistryInv'
  BY <1>1, <1>t, <1>k DEF CallStartup, RegistryInv
<1>2. CASE CallShutdown
  BY <1>2, <1>k DEF CallShutdown, RegistryInv
<1>3. CASE StartupCoreStep
  <2>1. /\ pc = "core" /\ pc' = "core" /\ idx <= 14 /\ idx' = idx + 1
        /\ minit' \subseteq minit \union {CoreMod}
        /\ registered' = (IF StartupSteps[idx] = "tables" THEN {} ELSE registered)
                \union (IF StartupSteps[idx] = "builtin" THEN {CoreMod} ELSE {})
    BY <1>3, ProcessLists DEF StartupCoreStep
  <2>2. idx \in 1..14 /\ minit' \subseteq {CoreMod}
    BY <1>t, <2>1
  <2>3. idx = 6 => registered' = {}
    BY <2>1, <2>2, RegistrySteps
  <2>4. idx = 13 => registered' = registered \union {CoreMod}
    BY <2>1, <2>2, RegistrySteps
  <2>5. idx # 6 /\ idx # 13 => registered' = registered
    BY <2>1, <2>2, RegistrySteps
  <2>6. /\ idx' > 6 /\ idx' <= 13 => registered' = {}
        /\ idx' > 13 => registered' = {CoreMod}
    BY <1>t, <2>1, <2>2, <2>3, <2>4, <2>5 DEF RegistryInv
  <2> QED
    BY <2>1, <2>2, <2>6, <1>k DEF RegistryInv
<1>4. CASE StartupCoreFails
  BY <1>4, <1>t, <1>k DEF StartupCoreFails, RegistryInv
<1>5. CASE StartupCoreDone
  <2>1. /\ pc = "core" /\ idx > 14 /\ pc' = "check"
        /\ UNCHANGED <<registered, minit>>
    BY <1>5, ProcessLists DEF StartupCoreDone
  <2>2. CoreMod \in minit
    BY <2>1, ProcessLists DEF LifecycleInv, HookInv, CoreInv
  <2>3. registered = minit
    <3>1. idx > 13
      BY <1>t, <2>1
    <3>2. registered = {CoreMod} /\ minit \subseteq {CoreMod}
      BY <1>t, <2>1, <3>1 DEF RegistryInv
    <3> QED
      BY <2>2, <3>2
  <2> QED
    BY <2>1, <2>3, <1>k DEF RegistryInv
<1>6. CASE CheckNotStarted \/ ValidateEntry \/ ValidateDone \/ ScanDone
  BY <1>6, <1>t, <1>k DEF CheckNotStarted, ValidateEntry, ValidateDone, ScanDone,
                          RegistryInv
<1>7. ASSUME NEW e \in Ext, Scan(e) PROVE RegistryInv'
  <2>1. CASE StartExtension(e)
    <3>1. /\ pc = "scan" /\ pc' = "scan" /\ registered' = registered \union {e}
          /\ minit' = minit \union {e} /\ core_started
          /\ \A m \in registered : Key(m) # Key(e)
      BY <2>1 DEF StartExtension, Startable, Scanning, Registrable, LifecycleInv,
                  TypeInv, CounterInv
    <3>2. registered = minit
      BY <1>t, <3>1 DEF RegistryInv
    <3>3. \A m, k \in minit' : Key(m) = Key(k) => m = k
      BY <1>t, <3>1, <3>2 DEF RegistryInv
    <3>4. (\A m, k \in minit : Key(m) = Key(k) => m = k)'
      BY <3>3 DEF Key
    <3> QED
      BY <3>1, <3>2, <3>4 DEF RegistryInv
  <2>2. CASE ~StartExtension(e)
    <3>1. /\ pc' \in {"scan", "rshutdown", "aborted"} /\ minit' = minit
          /\ pc = "scan" /\ core_started' = core_started
          /\ pc' = "scan" => registered' = registered
      BY <1>7, <2>2 DEF Scan, ScanSkip, ScanInvalid, StartFails, MinitAborts,
                        Startable, Scanning
    <3> QED
      BY <1>t, <3>1, <1>k DEF RegistryInv
  <2> QED
    BY <2>1, <2>2
<1>8. CASE ActivateStep \/ ActivateFails \/ ActivateDone
  BY <1>8, <1>t, <1>k DEF ActivateStep, ActivateFails, ActivateDone, RegistryInv
<1>9. CASE Rinit \/ RinitFails \/ RinitDone
  BY <1>9, <1>t, <1>k DEF Rinit, RinitFails, RinitDone, RegistryInv
<1>10. CASE Rshutdown \/ RshutdownDone \/ DeactivateStep \/ DeactivateDone
  BY <1>10, <1>t, <1>k DEF Rshutdown, RshutdownDone, DeactivateStep,
                           DeactivateDone, RegistryInv
<1>11. CASE Mshutdown \/ MshutdownDone
  BY <1>11, <1>t, <1>k DEF Mshutdown, MshutdownDone, RegistryInv
<1>12. CASE ShutdownCoreStep
  BY <1>12, <1>t, <1>k DEF ShutdownCoreStep, RegistryInv
<1>13. CASE ShutdownCoreDone
  <2>1. pc' = "idle" /\ core_started' = FALSE /\ minit' = minit
    BY <1>13 DEF ShutdownCoreDone
  <2> QED
    BY <2>1, <1>k DEF RegistryInv
<1>14. CASE UNCHANGED vars
  BY <1>14, <1>t, <1>k DEF vars, RegistryInv
<1> QED
  BY <1>1, <1>2, <1>3, <1>4, <1>5, <1>6, <1>7, <1>8, <1>9, <1>10, <1>11, <1>12,
     <1>13, <1>14 DEF Next, Host, Run

-----------------------------------------------------------------------------
(* The validation loop has found every entry so far to match the ABI and   *)
(* to carry a name of its own; behind it, that holds of the whole table.   *)
Validated(t, n) ==
    \A i \in 1..n : /\ t[i] \in AbiOk
                    /\ \A j \in 1..(i - 1) : Name[t[j]] # Name[t[i]]

Accepting == pc \in {"scan", "activate", "rinit"} \/ ret = "SUCCESS"

ValidInv ==
    /\ pc = "validate" => idx <= Len(table) + 1 /\ Validated(table, idx - 1)
    /\ Accepting => Validated(table, Len(table))

(* Every step keeps it.                                                    *)
LEMMA ValidInvStep == LifecycleInv /\ ValidInv /\ [Next]_vars => ValidInv'
<1> SUFFICES ASSUME LifecycleInv, ValidInv, [Next]_vars PROVE ValidInv'
  OBVIOUS
<1> USE DEF Goto, FailStartup, core, hooks
<1>t. /\ ValidInv /\ idx \in Nat \ {0} /\ Len(table) \in Nat
      /\ ret = "SUCCESS" => pc = "idle"
  BY DEF LifecycleInv, TypeInv, TypeOK, TableInv
<1>a. ASSUME table' = table, Accepting' => Accepting,
             pc' = "validate" => pc = "validate" /\ idx' = idx
      PROVE  ValidInv'
  BY <1>a, <1>t DEF ValidInv, Validated
<1>1. ASSUME NEW t \in Tables, CallStartup(t) PROVE ValidInv'
  BY <1>1, <1>t DEF CallStartup, ValidInv, Accepting
<1>2. CASE CallShutdown \/ StartupCoreStep \/ StartupCoreFails \/ StartupCoreDone
  BY <1>2, <1>t, <1>a DEF CallShutdown, StartupCoreStep, StartupCoreFails,
                          StartupCoreDone, Accepting
<1>3. CASE CheckNotStarted
  <2>1. /\ pc = "check" /\ pc' \in {"idle", "validate"} /\ table' = table /\ idx' = 1
        /\ ret' # "SUCCESS"
    BY <1>3, <1>t DEF CheckNotStarted
  <2>2. 1 <= Len(table) + 1 /\ 1..(1 - 1) = {}
    BY <1>t
  <2>3. Validated(table, idx - 1)'
    BY <2>1, <2>2 DEF Validated
  <2> QED
    BY <2>1, <2>2, <2>3 DEF ValidInv, Accepting
<1>4. CASE ValidateEntry
  <2>1. /\ pc = "validate" /\ idx <= Len(table) /\ table' = table
        /\ pc' # "validate" => pc' = "rshutdown" /\ ret' = "FAILURE"
        /\ pc' = "validate" => /\ idx' = idx + 1 /\ ret' = ret
                               /\ table[idx] \in AbiOk /\ ~DuplicateName(idx)
    BY <1>4 DEF ValidateEntry
  <2>2. CASE pc' = "validate"
    <3>1. Validated(table, idx)
      <4>1. Validated(table, idx - 1)
        BY <1>t, <2>1 DEF ValidInv
      <4>2. \A i \in 1..idx : i \in 1..(idx - 1) \/ i = idx
        BY <1>t
      <4>3. \A j \in 1..(idx - 1) : Name[table[j]] # Name[table[idx]]
        BY <2>1, <2>2 DEF DuplicateName
      <4> QED
        BY <2>1, <2>2, <4>1, <4>2, <4>3 DEF Validated
    <3>2. idx' - 1 = idx /\ idx' <= Len(table) + 1
      BY <1>t, <2>1, <2>2
    <3>3. Validated(table, idx - 1)'
      BY <2>1, <3>1, <3>2 DEF Validated
    <3> QED
      BY <1>t, <2>1, <2>2, <3>2, <3>3 DEF ValidInv, Accepting
  <2>3. CASE pc' # "validate"
    BY <2>1, <2>3 DEF ValidInv, Accepting
  <2> QED
    BY <2>2, <2>3
<1>5. CASE ValidateDone
  <2>1. /\ pc = "validate" /\ idx > Len(table) /\ table' = table
        /\ pc' \in {"scan", "activate"}
    BY <1>5 DEF ValidateDone
  <2>2. idx - 1 = Len(table)
    BY <1>t, <2>1 DEF ValidInv
  <2>3. Validated(table, Len(table))
    BY <1>t, <2>1, <2>2 DEF ValidInv
  <2>4. Validated(table, Len(table))'
    BY <2>1, <2>3 DEF Validated
  <2> QED
    BY <2>1, <2>4 DEF ValidInv
<1>6. ASSUME NEW e \in Ext, Scan(e) PROVE ValidInv'
  <2>1. /\ pc = "scan" /\ pc' \in {"scan", "rshutdown", "aborted"}
        /\ table' = table
    BY <1>6 DEF Scan, ScanSkip, ScanInvalid, StartExtension, StartFails,
                MinitAborts, Startable, Scanning
  <2> QED
    BY <2>1, <1>a DEF Accepting
<1>7. CASE ScanDone \/ ActivateStep \/ ActivateFails \/ ActivateDone \/ Rinit
           \/ RinitFails \/ RinitDone
  BY <1>7, <1>a DEF ScanDone, ActivateStep, ActivateFails, ActivateDone, Rinit,
                    RinitFails, RinitDone, Accepting
<1>8. CASE Rshutdown \/ RshutdownDone \/ DeactivateStep \/ DeactivateDone
           \/ Mshutdown \/ MshutdownDone \/ ShutdownCoreStep \/ ShutdownCoreDone
  BY <1>8, <1>t, <1>a DEF Rshutdown, RshutdownDone, DeactivateStep,
     DeactivateDone, Mshutdown, MshutdownDone, ShutdownCoreStep,
     ShutdownCoreDone, Accepting
<1>9. CASE UNCHANGED vars
  BY <1>9, <1>a DEF vars, Accepting
<1> QED
  BY <1>1, <1>2, <1>3, <1>4, <1>5, <1>6, <1>7, <1>8, <1>9 DEF Next, Host, Run

-----------------------------------------------------------------------------
(* An extension that started conflicts with nothing in the table and finds *)
(* what it depends on among the extensions started before it.  This is the *)
(* order that shows the table to be free of cycles.                        *)
Placed(k) ==
    \A d \in Elems(Deps[started[k]]) :
        IF d.type = "CONFLICTS"
        THEN \A m \in Elems(table) \union {CoreMod} : ~Resolves(m, d.name)
        ELSE \A m \in Elems(table) :
                Resolves(m, d.name) => \E j \in 1..(k - 1) : started[j] = m

PlacedInv == Accepting => \A k \in 1..Len(started) : Placed(k)

(* dependency_state's Ready is what Placed asks of the next extension.     *)
LEMMA ReadyIsPlaced ==
    ASSUME LifecycleInv, RegistryInv, ValidInv, Spelled(table),
           NEW e \in Ext, Startable(e), NEW d \in Elems(Deps[e])
    PROVE  IF d.type = "CONFLICTS"
           THEN \A m \in Elems(table) \union {CoreMod} : ~Resolves(m, d.name)
           ELSE \A m \in Elems(table) :
                   Resolves(m, d.name) => m \in Elems(started)
<1>1. /\ pc = "scan" /\ e \in Elems(table) /\ table \in Seq(Ext)
      /\ dependency_state(e) = "Ready"
  BY DEF Startable, Scanning, Elems, LifecycleInv, TypeInv, TypeOK
<1>2. /\ mstarted = minit /\ registered = minit /\ CoreMod \in minit
      /\ minit \ {CoreMod} = Elems(started)
      /\ Distinct(table)
  BY <1>1 DEF LifecycleInv, HookInv, HooksBalanced, CoreInv, TypeInv, CounterInv,
              RegistryInv, ValidInv, Accepting, Validated, Distinct
<1>3. DepVerdict(d) = "Ready"
  BY <1>1, StateFacts
<1>4. CASE d.type = "CONFLICTS"
  <2>1. Available(d.name) = {}
    BY <1>3, <1>4, VerdictFacts
  <2>2. (\A m \in Elems(table) : Name[m] # d.name) /\ RegistryFind(d.name) = {}
    BY <1>1, <2>1, AvailableFacts
  <2>3. ~Resolves(CoreMod, d.name)
    BY <1>2, <2>2 DEF RegistryFind, Resolves
  <2>4. \A m \in Elems(table) : ~Resolves(m, d.name)
    BY <1>1, <2>2 DEF Spelled
  <2> QED
    BY <1>4, <2>3, <2>4
<1>5. CASE d.type # "CONFLICTS"
  <2>1. Available(d.name) \subseteq mstarted
    BY <1>3, <1>5, VerdictFacts
  <2>2. ASSUME NEW m \in Elems(table), Resolves(m, d.name)
        PROVE  m \in Elems(started)
    <3>1. Name[m] = d.name
      BY <1>1, <2>2 DEF Spelled
    <3>2. m \in Available(d.name)
      BY <1>1, <1>2, <3>1, AvailableInTable
    <3>3. m \in Ext /\ m # CoreMod
      BY <1>1, CoreAssumption DEF Elems
    <3> QED
      BY <1>2, <2>1, <3>2, <3>3
  <2> QED
    BY <1>5, <2>2
<1> QED
  BY <1>4, <1>5

(* Every step keeps the started extensions in a legal order.               *)
LEMMA PlacedInvStep ==
    LifecycleInv /\ RegistryInv /\ ValidInv /\ Spelled(table) /\ PlacedInv
      /\ [Next]_vars => PlacedInv'
<1> SUFFICES ASSUME LifecycleInv, RegistryInv, ValidInv, Spelled(table), PlacedInv,
                    [Next]_vars
             PROVE  PlacedInv'
  OBVIOUS
<1> USE DEF Goto, FailStartup, core, hooks
<1>t. /\ PlacedInv /\ started \in Seq(Ext) /\ Len(started) \in Nat
      /\ DOMAIN started = 1..Len(started)
      /\ ret = "SUCCESS" => pc = "idle"
      /\ pc = "validate" => started = <<>>
  BY DEF LifecycleInv, TypeInv, TypeOK, CounterInv, TableInv
<1>a. ASSUME UNCHANGED <<table, started>>, Accepting' => Accepting
      PROVE  PlacedInv'
  BY <1>a, <1>t DEF PlacedInv, Placed, Elems, Resolves, Key
<1>b. ASSUME ~Accepting' PROVE PlacedInv'
  BY <1>b DEF PlacedInv
<1>1. ASSUME NEW t \in Tables, CallStartup(t) PROVE PlacedInv'
  BY <1>1, <1>b DEF CallStartup, Accepting
<1>2. CASE CallShutdown \/ StartupCoreStep \/ StartupCoreFails \/ StartupCoreDone
           \/ CheckNotStarted \/ ValidateEntry
  BY <1>2, <1>t, <1>b DEF CallShutdown, StartupCoreStep, StartupCoreFails,
     StartupCoreDone, CheckNotStarted, ValidateEntry, Accepting
<1>3. CASE ValidateDone
  <2>1. started' = <<>> /\ Len(started') = 0
    BY <1>3, <1>t DEF ValidateDone
  <2> QED
    BY <2>1 DEF PlacedInv
<1>4. ASSUME NEW e \in Ext, Scan(e) PROVE PlacedInv'
  <2>1. CASE StartExtension(e)
    <3>1. /\ Startable(e) /\ pc = "scan" /\ started' = Append(started, e)
          /\ table' = table
      BY <2>1 DEF StartExtension, Startable, Scanning
    <3> DEFINE n == Len(started)
    <3>2. /\ Len(started') = n + 1
          /\ \A i \in 1..n : started'[i] = started[i]
          /\ started'[n + 1] = e
      BY <1>t, <3>1, AppendFacts
    <3>3. \A k \in 1..n : Placed(k)
      BY <1>t, <3>1 DEF PlacedInv, Accepting
    <3>4. ASSUME NEW k \in 1..(n + 1), NEW d \in Elems(Deps[started'[k]])
          PROVE  IF d.type = "CONFLICTS"
                 THEN \A m \in Elems(table) \union {CoreMod} : ~Resolves(m, d.name)
                 ELSE \A m \in Elems(table) :
                         Resolves(m, d.name) => \E j \in 1..(k - 1) : started'[j] = m
      <4>1. CASE k \in 1..n
        <5>1. \A j \in 1..(k - 1) : started'[j] = started[j]
          BY <1>t, <3>2, <4>1
        <5>2. d \in Elems(Deps[started[k]])
          BY <3>2, <4>1
        <5>3. IF d.type = "CONFLICTS"
              THEN \A m \in Elems(table) \union {CoreMod} : ~Resolves(m, d.name)
              ELSE \A m \in Elems(table) :
                      Resolves(m, d.name) => \E j \in 1..(k - 1) : started[j] = m
          BY <3>3, <4>1, <5>2 DEF Placed
        <5> QED
          BY <5>1, <5>3
      <4>2. CASE k = n + 1
        <5>1. d \in Elems(Deps[e]) /\ k - 1 = n
          BY <1>t, <3>2, <4>2
        <5>2. IF d.type = "CONFLICTS"
              THEN \A m \in Elems(table) \union {CoreMod} : ~Resolves(m, d.name)
              ELSE \A m \in Elems(table) :
                      Resolves(m, d.name) => m \in Elems(started)
          BY <3>1, <5>1, ReadyIsPlaced
        <5>3. \A m \in Elems(started) : \E j \in 1..(k - 1) : started'[j] = m
          BY <1>t, <3>2, <5>1 DEF Elems
        <5> QED
          BY <5>2, <5>3
      <4> QED
        BY <1>t, <4>1, <4>2
    <3>5. \A k \in 1..(n + 1) : Placed(k)'
      BY <3>1, <3>4 DEF Placed
    <3> QED
      BY <3>2, <3>5 DEF PlacedInv
  <2>2. CASE ~StartExtension(e)
    <3>1. pc = "scan" /\ UNCHANGED <<table, started>>
      BY <1>4, <2>2 DEF Scan, ScanSkip, ScanInvalid, StartFails, MinitAborts,
                        Startable, Scanning
    <3> QED
      BY <3>1, <1>a DEF Accepting
  <2> QED
    BY <2>1, <2>2
<1>5. CASE ScanDone \/ ActivateStep \/ ActivateFails \/ ActivateDone \/ Rinit
           \/ RinitFails \/ RinitDone
  BY <1>5, <1>a DEF ScanDone, ActivateStep, ActivateFails, ActivateDone, Rinit,
                    RinitFails, RinitDone, Accepting
<1>6. CASE Rshutdown \/ RshutdownDone \/ DeactivateStep \/ DeactivateDone
           \/ Mshutdown \/ MshutdownDone \/ ShutdownCoreStep \/ ShutdownCoreDone
  BY <1>6, <1>t, <1>b DEF Rshutdown, RshutdownDone, DeactivateStep,
     DeactivateDone, Mshutdown, MshutdownDone, ShutdownCoreStep,
     ShutdownCoreDone, Accepting
<1>7. CASE UNCHANGED vars
  BY <1>7, <1>a DEF vars, Accepting
<1> QED
  BY <1>1, <1>2, <1>3, <1>4, <1>5, <1>6, <1>7 DEF Next, Host, Run

(* The elements of a list of S.                                            *)
LEMMA ElementOf ==
    ASSUME NEW S, NEW s \in Seq(S), NEW x \in Elems(s)
    PROVE  x \in S
BY DEF Elems

(* A list of distinct entries is no longer than a list it is contained in. *)
LEMMA NoMoreThan ==
    ASSUME NEW S, NEW s \in Seq(S), NEW t \in Seq(S),
           \A i, j \in DOMAIN s : s[i] = s[j] => i = j,
           Elems(s) \subseteq Elems(t)
    PROVE  Len(s) <= Len(t)
<1> SUFFICES ASSUME Len(s) > Len(t) PROVE FALSE
  OBVIOUS
<1>1. /\ Len(s) \in Nat /\ Len(t) \in Nat
      /\ DOMAIN s = 1..Len(s) /\ DOMAIN t = 1..Len(t)
  OBVIOUS
<1>2. /\ IsFiniteSet(1..Len(s)) /\ IsFiniteSet(1..Len(t))
      /\ Cardinality(1..Len(t)) < Cardinality(1..Len(s))
  BY <1>1, IntervalSize
<1> DEFINE f == [i \in 1..Len(s) |-> CHOOSE j \in 1..Len(t) : t[j] = s[i]]
<1>3. \A i \in 1..Len(s) : f[i] \in 1..Len(t) /\ t[f[i]] = s[i]
  <2> SUFFICES ASSUME NEW i \in 1..Len(s)
               PROVE  f[i] \in 1..Len(t) /\ t[f[i]] = s[i]
    OBVIOUS
  <2>1. \E j \in 1..Len(t) : t[j] = s[i]
    BY <1>1 DEF Elems
  <2> QED
    BY <2>1
<1>4. f \in [1..Len(s) -> 1..Len(t)]
  BY <1>3
<1> HIDE DEF f
<1>5. PICK x, y \in 1..Len(s) : x # y /\ f[x] = f[y]
  <2> DEFINE A == 1..Len(s)
             B == 1..Len(t)
  <2>1. /\ IsFiniteSet(A) /\ IsFiniteSet(B) /\ Cardinality(B) < Cardinality(A)
        /\ f \in [A -> B]
    BY <1>2, <1>4
  <2> HIDE DEF A, B
  <2>2. \E x, y \in A : x # y /\ f[x] = f[y]
    BY <2>1, FS_PigeonHole
  <2> QED
    BY <2>2 DEF A
<1> QED
  BY <1>1, <1>3, <1>5

-----------------------------------------------------------------------------
(* A scan that has started nothing so far has left behind only extensions  *)
(* that are started or wait for an entry of the table that is not.         *)
Blocked(e) ==
    \E d \in Elems(Deps[e]) :
        /\ d.type # "CONFLICTS"
        /\ \E m \in Elems(table) \ mstarted : Name[m] = d.name

ScanInv ==
    pc = "scan" /\ ~progressed =>
        /\ Len(started) < Len(table)
        /\ \A i \in 1..(idx - 1) : i \in 1..Len(table) =>
              table[i] \in mstarted \/ Blocked(table[i])

(* dependency_state's Waiting is always for an entry of the table: whatever *)
(* the registry holds is started.                                          *)
LEMMA WaitingIsBlocked ==
    ASSUME LifecycleInv, RegistryInv, pc = "scan", NEW e \in Ext,
           dependency_state(e) = "Waiting"
    PROVE  Blocked(e)
<1>1. table \in Seq(Ext) /\ mstarted = minit /\ registered = minit
  BY DEF LifecycleInv, TypeInv, TypeOK, CounterInv, HookInv, HooksBalanced, RegistryInv
<1>2. PICK d \in Elems(Deps[e]) : DepVerdict(d) = "Waiting"
  BY StateFacts
<1>3. d.type # "CONFLICTS" /\ ~(Available(d.name) \subseteq mstarted)
  BY <1>2, VerdictFacts
<1>4. PICK m \in Available(d.name) : m \notin mstarted
  BY <1>3
<1>5. m \in Elems(table) /\ Name[m] = d.name
  BY <1>1, <1>4, AvailableFacts DEF RegistryFind
<1> QED
  BY <1>2, <1>3, <1>4, <1>5 DEF Blocked

(* Every step keeps the account of the scan.                               *)
LEMMA ScanInvStep ==
    LifecycleInv /\ RegistryInv /\ ScanInv /\ [Next]_vars => ScanInv'
<1> SUFFICES ASSUME LifecycleInv, RegistryInv, ScanInv, [Next]_vars PROVE ScanInv'
  OBVIOUS
<1> USE DEF Goto, FailStartup, core, hooks
<1>t. /\ idx \in Nat \ {0} /\ progressed \in BOOLEAN /\ table \in Seq(Ext)
      /\ Len(table) \in Nat /\ Len(started) \in Nat /\ ScanInv
  BY DEF LifecycleInv, TypeInv, TypeOK
<1>a. ASSUME pc' # "scan" PROVE ScanInv'
  BY <1>a DEF ScanInv
<1>b. ASSUME pc' = "scan", idx' = 1, Len(started') < Len(table') PROVE ScanInv'
  <2>1. 1..(idx' - 1) = {}
    BY <1>b
  <2> QED
    BY <1>b, <2>1 DEF ScanInv
<1>1. CASE ValidateDone \/ ScanDone
  <2>1. idx' = 1 /\ (pc' = "scan" => Len(started') < Len(table'))
    BY <1>1, <1>t DEF ValidateDone, ScanDone
  <2> QED
    BY <2>1, <1>a, <1>b
<1>2. ASSUME NEW e \in Ext, Scan(e) PROVE ScanInv'
  <2>1. CASE ScanSkip(e)
    <3>1. /\ pc = "scan" /\ pc' = "scan" /\ idx <= Len(table) /\ idx' = idx + 1
          /\ e = table[idx] /\ (e \in mstarted \/ dependency_state(e) = "Waiting")
          /\ UNCHANGED <<table, progressed, started, mstarted>>
      BY <2>1 DEF ScanSkip, Scanning
    <3>2. e \in mstarted \/ Blocked(e)
      BY <3>1, WaitingIsBlocked
    <3>3. \A x : Blocked(x)' <=> Blocked(x)
      BY <3>1 DEF Blocked, Elems
    <3>4. \A i \in 1..(idx' - 1) : i \in 1..(idx - 1) \/ i = idx
      BY <1>t, <3>1
    <3> SUFFICES ASSUME ~progressed
                 PROVE  /\ Len(started) < Len(table)
                        /\ \A i \in 1..(idx' - 1) : i \in 1..Len(table) =>
                              table[i] \in mstarted \/ Blocked(table[i])
      BY <3>1, <3>3 DEF ScanInv, Blocked, Elems
    <3> QED
      BY <1>t, <3>1, <3>2, <3>4 DEF ScanInv
  <2>2. CASE StartExtension(e)
    <3>1. progressed' = TRUE
      BY <2>2 DEF StartExtension
    <3> QED
      BY <3>1 DEF ScanInv
  <2>3. CASE ScanInvalid(e) \/ StartFails(e) \/ MinitAborts(e)
    BY <2>3, <1>a DEF ScanInvalid, StartFails, MinitAborts
  <2> QED
    BY <1>2, <2>1, <2>2, <2>3 DEF Scan
<1>3. CASE UNCHANGED vars
  BY <1>3, <1>t DEF vars, ScanInv, Blocked, Elems
<1>4. ASSUME NEW t \in Tables, CallStartup(t) PROVE ScanInv'
  BY <1>4, <1>a DEF CallStartup
<1>5. CASE ~ValidateDone /\ ~ScanDone /\ (CallShutdown \/ Run)
           /\ ~(\E e \in Ext : Scan(e))
  <2>1. pc' # "scan"
    BY <1>5 DEF Run, CallShutdown, StartupCoreStep, StartupCoreFails,
     StartupCoreDone, CheckNotStarted, ValidateEntry, ActivateStep,
     ActivateFails, ActivateDone, Rinit, RinitFails, RinitDone, Rshutdown,
     RshutdownDone, DeactivateStep, DeactivateDone, Mshutdown, MshutdownDone,
     ShutdownCoreStep, ShutdownCoreDone
  <2> QED
    BY <2>1, <1>a
<1> QED
  BY <1>1, <1>2, <1>3, <1>4, <1>5 DEF Next, Host, Run

-----------------------------------------------------------------------------
(* What Legal says, part by part.                                          *)
LEMMA LegalParts ==
    ASSUME NEW t, Legal(t)
    PROVE  /\ Elems(t) \subseteq AbiOk
           /\ \A i, j \in DOMAIN t : Key(t[i]) = Key(t[j]) => i = j
           /\ \A e \in Elems(t) : Key(e) # Key(CoreMod)
           /\ \A e \in Elems(t) : \A d \in Elems(Deps[e]) :
                 /\ d.type = "REQUIRED" =>
                       \E m \in Elems(t) \union {CoreMod} : Resolves(m, d.name)
                 /\ d.type = "CONFLICTS" =>
                       \A m \in Elems(t) \union {CoreMod} : ~Resolves(m, d.name)
           /\ \E rank \in [Elems(t) -> 1..Len(t)] :
                 \A e, m \in Elems(t) : \A d \in Elems(Deps[e]) :
                     d.type \in {"REQUIRED", "OPTIONAL"} /\ Resolves(m, d.name)
                         => rank[m] < rank[e]
BY DEF Legal

(* The scan gives up only on a cycle: of the extensions that are left, the *)
(* one of least rank would have had nothing to wait for.                   *)
LEMMA StuckIsIllegal ==
    ASSUME LifecycleInv, ScanInv, pc = "scan", ~progressed, idx > Len(table)
    PROVE  ~Legal(table)
<1> SUFFICES ASSUME Legal(table) PROVE FALSE
  OBVIOUS
<1>t. /\ table \in Seq(Ext) /\ Len(table) \in Nat /\ DOMAIN table = 1..Len(table)
      /\ started \in Seq(Ext) /\ Len(started) \in Nat /\ idx \in Nat
      /\ mstarted = minit /\ minit \ {CoreMod} = Elems(started)
      /\ Elems(started) \subseteq Elems(table)
  BY DEF LifecycleInv, TypeInv, TypeOK, HookInv, HooksBalanced, TableInv
<1>1. PICK rank \in [Elems(table) -> 1..Len(table)] :
         \A e, m \in Elems(table) : \A d \in Elems(Deps[e]) :
             d.type \in {"REQUIRED", "OPTIONAL"} /\ Resolves(m, d.name)
                 => rank[m] < rank[e]
  BY LegalParts
<1>2. \A e \in Elems(table) : e \in Elems(started) \/ Blocked(e)
  <2> SUFFICES ASSUME NEW e \in Elems(table)
               PROVE  e \in Elems(started) \/ Blocked(e)
    OBVIOUS
  <2>1. PICK i \in 1..Len(table) : e = table[i]
    BY <1>t DEF Elems
  <2>2. i \in 1..(idx - 1)
    BY <1>t
  <2>3. e \in mstarted \/ Blocked(e)
    BY <2>1, <2>2 DEF ScanInv
  <2>4. e # CoreMod
    BY <1>t, <2>1, CoreAssumption
  <2> QED
    BY <1>t, <2>3, <2>4
<1> DEFINE Left == Elems(table) \ Elems(started)
           R == { rank[e] : e \in Left }
<1>3. Left # {}
  <2> SUFFICES ASSUME Elems(table) \subseteq Elems(started) PROVE FALSE
    OBVIOUS
  <2>1. \A i, j \in DOMAIN table : table[i] = table[j] => i = j
    BY LegalParts DEF Key
  <2>2. Len(started) < Len(table)
    BY DEF ScanInv
  <2>3. Len(table) <= Len(started)
    BY <1>t, <2>1, NoMoreThan
  <2> QED
    BY <1>t, <2>2, <2>3
<1>4. R \in SUBSET Nat /\ R # {}
  BY <1>t, <1>3
<1>5. PICK r \in R : \A q \in R : r <= q
  <2> HIDE DEF R
  <2> QED
    BY <1>4, LeastElement
<1>6. PICK e \in Left : r = rank[e]
  BY <1>5
<1>7. PICK d \in Elems(Deps[e]) :
         d.type # "CONFLICTS" /\ \E m \in Elems(table) \ mstarted : Name[m] = d.name
  BY <1>2, <1>6 DEF Blocked
<1>8. PICK m \in Elems(table) \ mstarted : Name[m] = d.name
  BY <1>7
<1>9. d.type \in {"REQUIRED", "OPTIONAL"}
  <2>1. e \in Ext
    BY <1>6, <1>t DEF Elems
  <2>2. d \in [type: DepTypes, name: Names]
    <3>1. Deps[e] \in Seq([type: DepTypes, name: Names])
      BY <2>1, DepsAssumption
    <3> QED
      BY <1>7, <3>1, ElementOf
  <2> QED
    BY <1>7, <2>2 DEF DepTypes
<1>10. rank[m] < rank[e]
  BY <1>1, <1>6, <1>8, <1>9 DEF Resolves, Key
<1>11. m \in Left /\ rank[m] \in R
  BY <1>t, <1>8
<1>12. rank[m] \in Nat /\ rank[e] \in Nat /\ rank[e] <= rank[m]
  BY <1>4, <1>5, <1>6, <1>11
<1> QED
  BY <1>10, <1>12

-----------------------------------------------------------------------------
(* A verdict Invalid condemns the table.                                   *)
LEMMA InvalidIsIllegal ==
    ASSUME LifecycleInv, RegistryInv, Spelled(table), pc = "scan",
           NEW e \in Elems(table), dependency_state(e) = "Invalid"
    PROVE  ~Legal(table)
<1> SUFFICES ASSUME Legal(table) PROVE FALSE
  OBVIOUS
<1>s. table \in Seq(Ext) /\ registered = minit /\ CoreMod \in minit
      /\ minit \ {CoreMod} \subseteq Elems(table)
  BY DEF LifecycleInv, TypeInv, TypeOK, CounterInv, HookInv, HooksBalanced, CoreInv,
         TableInv, RegistryInv
<1>t. /\ table \in Seq(Ext) /\ e \in Ext /\ registered = minit /\ CoreMod \in minit
      /\ minit \ {CoreMod} \subseteq Elems(table)
  BY <1>s, ElementOf
<1>1. PICK d \in Elems(Deps[e]) : DepVerdict(d) = "Invalid"
  BY <1>t, StateFacts
<1>2. CASE d.type = "CONFLICTS" /\ Available(d.name) # {}
  <2>1. PICK m \in Available(d.name) : TRUE
    BY <1>2
  <2>2. (m \in Elems(table) /\ Name[m] = d.name) \/ m \in RegistryFind(d.name)
    BY <1>t, <2>1, AvailableFacts
  <2>3. m \in Elems(table) \union {CoreMod} /\ Resolves(m, d.name)
    BY <1>t, <2>2 DEF RegistryFind, Resolves, Key
  <2> QED
    BY <1>1, <1>2, <2>3, LegalParts
<1>3. CASE d.type = "REQUIRED" /\ Available(d.name) = {}
  <2>1. (\A m \in Elems(table) : Name[m] # d.name) /\ RegistryFind(d.name) = {}
    BY <1>t, <1>3, AvailableFacts
  <2>2. PICK m \in Elems(table) \union {CoreMod} : Resolves(m, d.name)
    BY <1>1, <1>3, LegalParts
  <2>3. m # CoreMod
    BY <1>t, <2>1, <2>2 DEF RegistryFind, Resolves
  <2>4. Name[m] = d.name
    BY <1>1, <2>2, <2>3 DEF Spelled
  <2> QED
    BY <2>1, <2>2, <2>3, <2>4
<1> QED
  BY <1>1, <1>2, <1>3, VerdictFacts

(* What start_extension refuses by itself, although dependency_state found *)
(* it ready, condemns the table too: a conflict or a key already taken.    *)
(* The dependency check of zend_startup_module_ex never fails here.        *)
LEMMA RefusedIsIllegal ==
    ASSUME LifecycleInv, RegistryInv, NEW e \in Ext, Startable(e),
           ~(Registrable(e) /\ RequiredStarted(e))
    PROVE  ~Legal(table)
<1> SUFFICES ASSUME Legal(table) PROVE FALSE
  OBVIOUS
<1>1. /\ pc = "scan" /\ e \in Elems(table) /\ table \in Seq(Ext)
      /\ dependency_state(e) = "Ready" /\ e \notin mstarted
  BY DEF Startable, Scanning, Elems, LifecycleInv, TypeInv, TypeOK
<1>t. /\ registered = minit /\ mstarted = minit /\ CoreMod \in minit
      /\ minit \ {CoreMod} \subseteq Elems(table)
  BY <1>1 DEF LifecycleInv, TypeInv, TypeOK, CounterInv, HookInv, HooksBalanced, CoreInv,
         TableInv, RegistryInv
<1>2. Registrable(e)
  <2>1. ASSUME NEW i \in DOMAIN Deps[e], Deps[e][i].type = "CONFLICTS"
        PROVE  RegistryFind(Deps[e][i].name) = {}
    <3>1. Deps[e][i] \in Elems(Deps[e])
      BY DEF Elems
    <3>2. \A m \in Elems(table) \union {CoreMod} : ~Resolves(m, Deps[e][i].name)
      BY <1>1, <2>1, <3>1, LegalParts
    <3> QED
      BY <1>t, <3>2 DEF RegistryFind, Resolves
  <2>2. ASSUME NEW m \in registered, Key(m) = Key(e) PROVE FALSE
    <3>1. m # CoreMod
      BY <1>1, <2>2, LegalParts
    <3>2. m \in Elems(table)
      BY <1>t, <3>1
    <3>3. \A i, j \in DOMAIN table : Key(table[i]) = Key(table[j]) => i = j
      BY LegalParts
    <3>4. m = e
      BY <1>1, <2>2, <3>2, <3>3 DEF Elems
    <3> QED
      BY <1>1, <1>t, <3>4
  <2> QED
    BY <2>1, <2>2 DEF Registrable
<1>3. RequiredStarted(e)
  <2> SUFFICES ASSUME NEW i \in DOMAIN Deps[e], Deps[e][i].type = "REQUIRED"
               PROVE  \E m \in registered \union {e} :
                         /\ Key(m) = Lower[Deps[e][i].name]
                         /\ m \in mstarted \union {e}
    BY DEF RequiredStarted
  <2>1. DepVerdict(Deps[e][i]) = "Ready"
    BY <1>1, StateFacts DEF Elems
  <2>2. /\ Available(Deps[e][i].name) # {}
        /\ Available(Deps[e][i].name) \subseteq mstarted
    BY <2>1, VerdictFacts
  <2>3. PICK m \in Available(Deps[e][i].name) : TRUE
    BY <2>2
  <2>4. Key(m) = Lower[Deps[e][i].name]
    BY <1>1, <2>3, AvailableFacts DEF RegistryFind, Key
  <2> QED
    BY <1>t, <2>2, <2>3, <2>4
<1> QED
  BY <1>2, <1>3

(* A refusal is on record only for an illegal table, for a runtime that is *)
(* already up, or after a failure of something else.                       *)
RefuseInv ==
    /\ pc = "undo" => faults # 0
    /\ ret = "FAILURE" /\ faults = 0 => (pc = "idle" /\ core_started) \/ ~Legal(table)

(* Every step keeps it.                                                    *)
LEMMA RefuseInvStep ==
    LifecycleInv /\ RegistryInv /\ ValidInv /\ ScanInv /\ Spelled(table)
      /\ RefuseInv /\ [Next]_vars => RefuseInv'
<1> SUFFICES ASSUME LifecycleInv, RegistryInv, ValidInv, ScanInv, Spelled(table),
                    RefuseInv, [Next]_vars
             PROVE  RefuseInv'
  OBVIOUS
<1> USE DEF Goto, FailStartup, Fault, core, hooks
<1>t. /\ faults \in Nat /\ RefuseInv /\ progressed \in BOOLEAN
      /\ table \in Seq(Ext) /\ idx \in Nat \ {0}
      /\ DOMAIN table = 1..Len(table) /\ Len(table) \in Nat
      /\ pc = "check" => core_started
  BY BoundAssumption DEF LifecycleInv, TypeInv, TypeOK, CounterInv
<1>a. ASSUME faults' = faults, table' = table, pc # "idle", ret' \in {ret, "SUCCESS"},
             pc' # "undo" \/ pc = "undo"
      PROVE  RefuseInv'
  BY <1>a, <1>t DEF RefuseInv
<1>b. ASSUME table' = table, pc' # "undo", ~Legal(table) PROVE RefuseInv'
  BY <1>b DEF RefuseInv
<1>c. ASSUME faults' = faults + 1 PROVE RefuseInv'
  BY <1>c, <1>t DEF RefuseInv
<1>1. ASSUME NEW t \in Tables, CallStartup(t) PROVE RefuseInv'
  BY <1>1 DEF CallStartup, RefuseInv
<1>2. CASE CallShutdown
  BY <1>2 DEF CallShutdown, RefuseInv
<1>3. CASE StartupCoreFails \/ ActivateFails \/ RinitFails
  BY <1>3, <1>c DEF StartupCoreFails, ActivateFails, RinitFails
<1>4. CASE StartupCoreStep \/ StartupCoreDone \/ ValidateDone \/ ActivateStep
           \/ ActivateDone \/ Rinit \/ RinitDone
  BY <1>4, <1>a DEF StartupCoreStep, StartupCoreDone, ValidateDone, ActivateStep,
                    ActivateDone, Rinit, RinitDone
<1>5. CASE Rshutdown \/ RshutdownDone \/ DeactivateStep \/ Mshutdown
           \/ MshutdownDone \/ ShutdownCoreStep \/ ShutdownCoreDone
  BY <1>5, <1>a DEF Rshutdown, RshutdownDone, DeactivateStep, Mshutdown,
                    MshutdownDone, ShutdownCoreStep, ShutdownCoreDone
<1>6. CASE DeactivateDone
  <2>1. /\ table' = table /\ faults' = faults /\ pc' # "undo"
        /\ pc = "undo" \/ (pc = "deactivate" /\ ret' = ret)
    BY <1>6 DEF DeactivateDone
  <2>2. CASE pc = "undo"
    BY <1>t, <2>1, <2>2 DEF RefuseInv
  <2>3. CASE pc = "deactivate" /\ ret' = ret
    BY <2>1, <2>3, <1>a
  <2> QED
    BY <2>1, <2>2, <2>3
<1>7. CASE CheckNotStarted
  <2>1. /\ pc = "check" /\ table' = table /\ faults' = faults
        /\ core_started' = core_started
        /\ pc' = "idle" \/ (pc' = "validate" /\ ret' = ret)
    BY <1>7 DEF CheckNotStarted
  <2>2. CASE pc' = "idle"
    BY <1>t, <2>1, <2>2 DEF RefuseInv
  <2>3. CASE pc' = "validate" /\ ret' = ret
    BY <2>1, <2>3, <1>a
  <2> QED
    BY <2>1, <2>2, <2>3
<1>8. CASE ValidateEntry
  <2>1. /\ pc = "validate" /\ idx <= Len(table) /\ table' = table /\ faults' = faults
        /\ \/ pc' = pc /\ ret' = ret
           \/ /\ pc' = "rshutdown"
              /\ table[idx] \notin AbiOk \/ DuplicateName(idx)
    BY <1>8 DEF ValidateEntry
  <2>2. CASE pc' = pc /\ ret' = ret
    BY <2>1, <2>2, <1>a
  <2>3. CASE pc' = "rshutdown" /\ (table[idx] \notin AbiOk \/ DuplicateName(idx))
    <3>1. idx \in DOMAIN table
      BY <1>t, <2>1
    <3>2. CASE table[idx] \notin AbiOk
      <4>1. table[idx] \in Elems(table)
        BY <3>1 DEF Elems
      <4>2. ~Legal(table)
        BY <3>2, <4>1, LegalParts
      <4> QED
        BY <2>1, <2>3, <4>2, <1>b
    <3>3. CASE DuplicateName(idx)
      <4>1. PICK j \in 1..(idx - 1) : Name[table[j]] = Name[table[idx]]
        BY <3>3 DEF DuplicateName
      <4>2. j \in DOMAIN table /\ j # idx
        BY <1>t, <2>1
      <4>3. Key(table[j]) = Key(table[idx])
        BY <4>1 DEF Key
      <4>4. ~Legal(table)
        BY <3>1, <4>2, <4>3, LegalParts
      <4> QED
        BY <2>1, <2>3, <4>4, <1>b
    <3> QED
      BY <2>3, <3>2, <3>3
  <2> QED
    BY <2>1, <2>2, <2>3
<1>9. ASSUME NEW e \in Ext, Scan(e) PROVE RefuseInv'
  <2>1. CASE ScanSkip(e) \/ StartExtension(e)
    BY <2>1, <1>a DEF ScanSkip, StartExtension, Startable, Scanning
  <2>2. CASE ScanInvalid(e)
    <3>1. /\ pc = "scan" /\ e \in Elems(table) /\ dependency_state(e) = "Invalid"
          /\ table' = table /\ pc' = "rshutdown"
      BY <1>t, <2>2 DEF ScanInvalid, Scanning, Elems
    <3> QED
      BY <3>1, <1>b, InvalidIsIllegal
  <2>3. CASE StartFails(e)
    <3>1. Startable(e) /\ table' = table /\ pc' = "rshutdown"
      BY <2>3 DEF StartFails
    <3>2. CASE Registrable(e) /\ RequiredStarted(e)
      BY <2>3, <3>2, <1>c DEF StartFails
    <3>3. CASE ~(Registrable(e) /\ RequiredStarted(e))
      <4>1. ~Legal(table)
        BY <3>1, <3>3, RefusedIsIllegal
      <4> QED
        BY <3>1, <4>1, <1>b
    <3> QED
      BY <3>2, <3>3
  <2>4. CASE MinitAborts(e)
    BY <2>4, <1>c DEF MinitAborts
  <2> QED
    BY <1>9, <2>1, <2>2, <2>3, <2>4 DEF Scan
<1>10. CASE ScanDone
  <2>1. CASE progressed
    BY <1>10, <2>1, <1>a DEF ScanDone
  <2>2. CASE ~progressed
    <3>1. pc = "scan" /\ idx > Len(table) /\ table' = table /\ pc' = "rshutdown"
      BY <1>10, <2>2 DEF ScanDone
    <3> QED
      BY <2>2, <3>1, <1>b, StuckIsIllegal
  <2> QED
    BY <2>1, <2>2
<1>11. CASE UNCHANGED vars
  BY <1>11, <1>t DEF vars, RefuseInv
<1> QED
  BY <1>1, <1>2, <1>3, <1>4, <1>5, <1>6, <1>7, <1>8, <1>9, <1>10, <1>11
     DEF Next, Host, Run

-----------------------------------------------------------------------------
(* The invariants of this module hold in every reachable state.            *)
AcceptInv == RegistryInv /\ ValidInv /\ ScanInv /\ PlacedInv /\ RefuseInv

(* What the scan has placed, skipped and refused agrees with the table in  *)
(* every reachable state, if names are spelled alike.                      *)
THEOREM AcceptInvariant ==
    ASSUME SpelledAlike
    PROVE  Spec => [](LifecycleInv /\ Spelled(table) /\ AcceptInv)
<1>1. Init => Spelled(table) /\ AcceptInv
  <2> SUFFICES ASSUME Init PROVE Spelled(table) /\ AcceptInv
    OBVIOUS
  <2>1. /\ pc = "idle" /\ ~core_started /\ ret = "none" /\ minit = {}
        /\ table = <<>>
    BY DEF Init
  <2>2. Elems(table) = {}
    BY <2>1 DEF Elems
  <2> QED
    BY <2>1, <2>2 DEF AcceptInv, RegistryInv, ValidInv, ScanInv, PlacedInv, RefuseInv,
                      Accepting, Spelled
<1>2. Spelled(table) /\ [Next]_vars => Spelled(table)'
  <2> SUFFICES ASSUME Spelled(table), [Next]_vars PROVE Spelled(table)'
    OBVIOUS
  <2>1. table' = table \/ table' \in Tables
    BY DEF Next, Host, Run, vars, CallStartup, CallShutdown, StartupCoreStep,
      StartupCoreFails, StartupCoreDone, CheckNotStarted, ValidateEntry,
      ValidateDone, Scan, ScanSkip, ScanInvalid, StartExtension, StartFails,
      MinitAborts, ScanDone, ActivateStep, ActivateFails, ActivateDone, Rinit,
      RinitFails, RinitDone, Rshutdown, RshutdownDone, DeactivateStep,
      DeactivateDone, Mshutdown, MshutdownDone, ShutdownCoreStep,
      ShutdownCoreDone
  <2> QED
    BY <2>1 DEF SpelledAlike
<1>3. LifecycleInv /\ Spelled(table) /\ AcceptInv /\ [Next]_vars => AcceptInv'
  BY RegistryInvStep, ValidInvStep, ScanInvStep, PlacedInvStep, RefuseInvStep
     DEF AcceptInv
<1> QED
  BY <1>1, <1>2, <1>3, LifecycleInvariant, PTL DEF Spec

(* Whatever was accepted is legal: duplicate names, missing or cyclic      *)
(* dependencies, conflicts and ABI mismatches were refused.                *)
THEOREM IllegalIsRefused ==
    ASSUME SpelledAlike
    PROVE  Spec => []RefusesIllegal
<1>1. LifecycleInv /\ AcceptInv => RefusesIllegal
  <2> SUFFICES ASSUME LifecycleInv, AcceptInv, pc = "idle", ret = "SUCCESS"
               PROVE  Legal(table)
    BY DEF RefusesIllegal
  <2>t. /\ table \in Seq(Ext) /\ Len(table) \in Nat /\ DOMAIN table = 1..Len(table)
        /\ started \in Seq(Ext) /\ Len(started) \in Nat
        /\ DOMAIN started = 1..Len(started)
        /\ Elems(started) = Elems(table) /\ core_started /\ CoreMod \in minit
        /\ minit \ {CoreMod} = Elems(table)
        /\ \A i, j \in DOMAIN started : started[i] = started[j] => i = j
    BY DEF LifecycleInv, TypeInv, TypeOK, TableInv, HookInv, HooksBalanced, CoreInv
  <2>v. /\ Validated(table, Len(table))
        /\ \A k \in 1..Len(started) : Placed(k)
        /\ \A m, k \in minit : Key(m) = Key(k) => m = k
    BY DEF AcceptInv, ValidInv, PlacedInv, RegistryInv, Accepting
  <2>m. \A m \in Elems(table) : m \in minit /\ m \in Ext /\ m # CoreMod
    BY <2>t, CoreAssumption DEF Elems
  <2>1. Elems(table) \subseteq AbiOk
    BY <2>t, <2>v DEF Validated, Elems
  <2>2. ASSUME NEW i \in DOMAIN table, NEW j \in DOMAIN table,
               Key(table[i]) = Key(table[j]), i # j
        PROVE  FALSE
    <3>1. table[i] = table[j]
      BY <2>2, <2>m, <2>v DEF Elems
    <3>2. j \in 1..(i - 1) \/ i \in 1..(j - 1)
      BY <2>t, <2>2
    <3> QED
      BY <2>t, <2>v, <3>1, <3>2 DEF Validated
  <2>3. \A e \in Elems(table) : Key(e) # Key(CoreMod)
    BY <2>t, <2>v, <2>m
  <2>p. ASSUME NEW e \in Elems(table)
        PROVE  \E k \in 1..Len(started) : started[k] = e
    BY <2>t DEF Elems
  <2>4. ASSUME NEW e \in Elems(table), NEW d \in Elems(Deps[e]), d.type = "REQUIRED"
        PROVE  \E m \in Elems(table) \union {CoreMod} : Resolves(m, d.name)
    <3>1. PICK k \in 1..Len(started) : started[k] = e
      BY <2>p
    <3>2. Needs(e, Upto(started, k) \union {CoreMod})
      BY <3>1 DEF LifecycleInv, HookInv, OrderInv
    <3>3. Upto(started, k) \subseteq Elems(table)
      <4>1. \A i \in 1..k : i \in 1..Len(started)
        BY <2>t
      <4>2. Upto(started, k) \subseteq Elems(started)
        BY <2>t, <4>1 DEF Upto, Elems
      <4> QED
        BY <2>t, <4>2
    <3>4. PICK i \in DOMAIN Deps[e] : d = Deps[e][i]
      BY DEF Elems
    <3>5. \E m \in Upto(started, k) \union {CoreMod} : Key(m) = Lower[d.name]
      BY <2>m, <2>4, <3>2, <3>4 DEF Needs
    <3> QED
      BY <3>3, <3>5 DEF Resolves
  <2>5. ASSUME NEW e \in Elems(table), NEW d \in Elems(Deps[e]), d.type = "CONFLICTS"
        PROVE  \A m \in Elems(table) \union {CoreMod} : ~Resolves(m, d.name)
    <3>1. PICK k \in 1..Len(started) : started[k] = e
      BY <2>p
    <3> QED
      BY <2>v, <2>5, <3>1 DEF Placed
  <2> DEFINE rank == [e \in Elems(table) |->
                        CHOOSE k \in 1..Len(started) : started[k] = e]
  <2>6. \A e \in Elems(table) : rank[e] \in 1..Len(started) /\ started[rank[e]] = e
    <3> SUFFICES ASSUME NEW e \in Elems(table)
                 PROVE  rank[e] \in 1..Len(started) /\ started[rank[e]] = e
      OBVIOUS
    <3>1. \E k \in 1..Len(started) : started[k] = e
      BY <2>p
    <3> QED
      BY <3>1
  <2>7. rank \in [Elems(table) -> 1..Len(table)]
    <3>1. Len(started) <= Len(table)
      BY <2>t, NoMoreThan
    <3> QED
      BY <2>t, <2>6, <3>1
  <2>8. ASSUME NEW e \in Elems(table), NEW m \in Elems(table),
               NEW d \in Elems(Deps[e]), d.type \in {"REQUIRED", "OPTIONAL"},
               Resolves(m, d.name)
        PROVE  rank[m] < rank[e]
    <3> HIDE DEF rank
    <3>1. Placed(rank[e]) /\ started[rank[e]] = e /\ rank[e] \in 1..Len(started)
      BY <2>v, <2>6
    <3>2. PICK j \in 1..(rank[e] - 1) : started[j] = m
      BY <2>8, <3>1 DEF Placed
    <3>3. j \in 1..Len(started) /\ rank[m] \in 1..Len(started)
          /\ started[rank[m]] = started[j]
      BY <2>t, <2>6, <3>1, <3>2
    <3>4. rank[m] = j
      BY <2>t, <3>3
    <3> QED
      BY <2>t, <3>1, <3>2, <3>4
  <2> HIDE DEF rank
  <2> QED
    BY <2>1, <2>2, <2>3, <2>4, <2>5, <2>7, <2>8 DEF Legal
<1> QED
  BY <1>1, AcceptInvariant, PTL

(* Whatever is legal is accepted, in any order of the table, unless        *)
(* something else fails.                                                   *)
THEOREM LegalIsAccepted ==
    ASSUME SpelledAlike
    PROVE  Spec => []AcceptsLegal
<1>1. AcceptInv => AcceptsLegal
  BY DEF AcceptInv, RefuseInv, AcceptsLegal
<1> QED
  BY <1>1, AcceptInvariant, PTL
===============================================================================
