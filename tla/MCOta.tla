------------------------------- MODULE MCOta --------------------------------
(* Ota with one web upload and one download, each of either type.          *)
EXTENDS Ota

CONSTANTS w1, d1, d2
=============================================================================
