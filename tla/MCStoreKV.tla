----------------------------- MODULE MCStoreKV -----------------------------
(***************************************************************************)
(* Instances of StoreRefinesKV for TLC.                                    *)
(***************************************************************************)
EXTENDS StoreRefinesKV, TLC

MCKeys == 1..2
MCKeyBytes == [k \in MCKeys |-> 1]
MCValueBytes == [v \in Values |-> 1]

\* No action looks into a value.
ValueSymmetry == Permutations(Values)

=============================================================================
