------------------------------ MODULE MCZendIni ------------------------------
(* A small instance of ZendIni: the core with error_reporting, and two      *)
(* modules that both register c, which only the host may modify.            *)
EXTENDS ZendIni, TLC

CONSTANTS core, m1, m2, a, b, c, d, v1, v2

TheTables == core :> {{a}} @@ m1 :> {{b, c, d}} @@ m2 :> {{c}}
TheDefaults == [n \in Name |-> v1]
TheModes == [n \in Name |-> IF n = c THEN {"system"} ELSE Modes]
==============================================================================
