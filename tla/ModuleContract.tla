---------------------------- MODULE ModuleContract ----------------------------
(***************************************************************************)
(* What the extension registry promises every module, whatever order the  *)
(* host lists the modules in: a module is loaded (MINIT to MSHUTDOWN) and  *)
(* serving (RINIT to RSHUTDOWN) only while the modules it requires are,    *)
(* requests are served only by loaded modules, and nothing is loaded or    *)
(* unloaded while a request is being served.                               *)
(***************************************************************************)
CONSTANTS
    Mods,           \* every module, the core included
    Base,           \* modules that need no request hooks (the core)
    Needs(_, _)     \* Needs(m, S): the requirements of m are met within S

VARIABLES loaded, serving

cvars == <<loaded, serving>>

\* Every module of S finds its requirements in S, or in the base modules.
Closed(S) == \A m \in S : Needs(m, S \union Base)

Init == loaded = {} /\ serving = {}

Load(m) ==
    /\ serving = {} /\ m \notin loaded
    /\ Closed(loaded \union {m})
    /\ loaded' = loaded \union {m} /\ UNCHANGED serving

Unload(m) ==
    /\ serving = {} /\ m \in loaded
    /\ Closed(loaded \ {m}) /\ (m \in Base => loaded = {m})
    /\ loaded' = loaded \ {m} /\ UNCHANGED serving

Serve(m) ==
    /\ m \in loaded /\ m \notin serving
    /\ Closed(serving \union {m})
    /\ serving' = serving \union {m} /\ UNCHANGED loaded

Retire(m) ==
    /\ m \in serving
    /\ Closed(serving \ {m})
    /\ serving' = serving \ {m} /\ UNCHANGED loaded

Next == \E m \in Mods : Load(m) \/ Unload(m) \/ Serve(m) \/ Retire(m)

Spec == Init /\ [][Next]_cvars
===============================================================================
