-------------------------- MODULE MCZendObjectsStore --------------------------
(* Instances of ZendObjectsStore: objects with and without a destructor.   *)
EXTENDS ZendObjectsStore, TLC

CONSTANTS d1, d2, p1   \* two objects with a destructor and a plain one

MCObj == {d1, d2, p1}
MCDtor == {d1, d2}
MCStdFree == {p1}
Symm == Permutations(MCDtor)
===============================================================================
