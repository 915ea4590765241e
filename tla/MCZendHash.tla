----------------------------- MODULE MCZendHash -----------------------------
(* Instances of ZendHash: two tables, which are interchangeable.           *)
EXTENDS ZendHash

CONSTANTS t1, t2

Addresses == Permutations(Table)
=============================================================================
