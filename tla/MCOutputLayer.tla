---------------------------- MODULE MCOutputLayer ----------------------------
(* Small instances of OutputLayer: two addresses for handlers, which are   *)
(* interchangeable.                                                        *)
EXTENDS OutputLayer

CONSTANTS h1, h2

Addresses == Permutations(Handler)
==============================================================================
