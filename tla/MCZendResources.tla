--------------------------- MODULE MCZendResources ---------------------------
(* Instances of ZendResources: the sizes a table starts with decide whether *)
(* it stays packed for all MaxRes handles, grows, or becomes a hash.        *)
EXTENDS ZendResources
=============================================================================
