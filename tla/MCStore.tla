------------------------------ MODULE MCStore ------------------------------
(***************************************************************************)
(* Instances of Store for TLC: two keys of one byte and values of one      *)
(* byte, so that a put weighs 2 and a tombstone 1 against the budget.      *)
(***************************************************************************)
EXTENDS Store, TLC

MCKeys == 1..2
MCKeyBytes == [k \in MCKeys |-> 1]
MCValueBytes == [v \in Values |-> 1]

\* No action looks into a value.
ValueSymmetry == Permutations(Values)

=============================================================================
