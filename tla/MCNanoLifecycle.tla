--------------------------- MODULE MCNanoLifecycle ---------------------------
(***************************************************************************)
(* Instances of NanoLifecycle.  The entries stand for the extensions of    *)
(* the repository and for the faulty ones the registry has to refuse; each *)
(* run picks the tables the host may pass.                                 *)
(***************************************************************************)
EXTENDS NanoLifecycle

CONSTANT Scenario   \* which tables the host may pass

req(n) == [type |-> "REQUIRED", name |-> n]
opt(n) == [type |-> "OPTIONAL", name |-> n]
con(n) == [type |-> "CONFLICTS", name |-> n]

\* Each entry's name field and dependency list, in declaration order.
Entries ==
    [ lexbor   |-> [name |-> "lexbor",   deps |-> <<>>],
      uri      |-> [name |-> "uri",      deps |-> <<req("lexbor")>>],
      standard |-> [name |-> "standard", deps |-> <<req("uri"), opt("json")>>],
      ping     |-> [name |-> "ping",     deps |-> <<opt("json"), req("pong")>>],
      pong     |-> [name |-> "pong",     deps |-> <<opt("ping")>>],
      json     |-> [name |-> "json",     deps |-> <<req("core")>>],
      spl      |-> [name |-> "SPL",      deps |-> <<req("json")>>],
      iter     |-> [name |-> "iter",     deps |-> <<req("spl")>>],
      nouri    |-> [name |-> "nouri",    deps |-> <<con("uri")>>],
      json2    |-> [name |-> "json",     deps |-> <<>>],
      spl2     |-> [name |-> "spl",      deps |-> <<>>],
      orphan   |-> [name |-> "orphan",   deps |-> <<req("absent")>>],
      oldabi   |-> [name |-> "oldabi",   deps |-> <<>>],
      core     |-> [name |-> "Core",     deps |-> <<>>] ]

MCExt == DOMAIN Entries \ {"core"}
MCName == [m \in DOMAIN Entries |-> Entries[m].name]
MCNames == { Entries[m].name : m \in DOMAIN Entries }
           \union {"core", "absent"}
MCLower == [n \in MCNames |-> CASE n = "SPL"  -> "spl"
                                [] n = "Core" -> "core"
                                [] OTHER      -> n]
MCDeps == [e \in MCExt |-> Entries[e].deps]
MCAbiOk == MCExt \ {"oldabi"}

TablesOver(E, n) == UNION { [1..k -> E] : k \in 1..n }

\* Entries whose dependency lists spell every name as its module does.
SameCase == {"lexbor", "uri", "standard", "ping", "pong", "json", "spl", "nouri",
             "json2", "spl2", "orphan", "oldabi"}

\* Tables passed again and again, and around failures.
Restarted == { <<"uri", "lexbor">>,
               <<"json", "oldabi">>,
               <<"spl", "uri", "json", "lexbor">>,
               <<"uri", "lexbor", "nouri">>,
               <<"ping", "pong", "json">> }

MCTables ==
    CASE Scenario = "tables"   -> TablesOver(SameCase, 3) \union Restarted
      [] Scenario = "spelling" -> TablesOver({"json", "spl", "iter"}, 3)

\* Bound: the tables that are not in Restarted are passed once, in a first
\* call that nothing but the registry itself makes fail.
MCNext == Next /\ (table' \in Restarted \union {<<>>}
                    \/ (calls' = 1 /\ faults' = 0))

MCSpec == Init /\ [][MCNext]_vars /\ WF_vars(Run)
===============================================================================
