-------------------------- MODULE MCStoreDirectory --------------------------
(***************************************************************************)
(* Instances of StoreDirectory for TLC: two keys of one byte and values of *)
(* one byte, so that a put weighs 2 and a tombstone 1 against the budget.  *)
(***************************************************************************)
EXTENDS StoreDirectory

MCKeys == 1..2
MCKeyBytes == [k \in MCKeys |-> 1]
MCValueBytes == [v \in Values |-> 1]

=============================================================================
