------------------------------- MODULE MCZendGC -------------------------------
(* Instances of ZendGC: objects with and without a destructor, and arrays. *)
EXTENDS ZendGC

CONSTANTS d1, d2, p1, a1   \* two objects with a destructor, a plain one, an array
===============================================================================
