--------------------------- MODULE MCConfigStore ----------------------------
(* ConfigStore on a small instance: partitions of two chunks, two images   *)
(* that load, one of the right size that does not, one too short and one  *)
(* too long.                                                               *)
EXTENDS ConfigStore

CONSTANTS v1, v2, junk, short, long

MCSize == [v \in {v1, v2, junk, short, long} |->
              IF v = short THEN 1 ELSE IF v = long THEN 3 ELSE 2]
=============================================================================
