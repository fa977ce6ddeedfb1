--------------------------- MODULE MCStoreBatches ---------------------------
(***************************************************************************)
(* Instances of StoreBatches for TLC, with a third key for the write that  *)
(* follows a failed batch of two.                                          *)
(***************************************************************************)
EXTENDS StoreBatches

MCKeys == 1..3
MCKeyBytes == [k \in MCKeys |-> 1]
MCValueBytes == [v \in Values |-> 1]

=============================================================================
