---------------------------- MODULE MCWalFrames ----------------------------
(***************************************************************************)
(* Instances of WalFrames for TLC: one key, an empty value and one that is *)
(* longer than the frame of a DELETE or a COMMIT.                          *)
(***************************************************************************)
EXTENDS WalFrames

MCKeys == {<<7>>}
MCValues == {<< >>, [i \in 1..13 |-> 9]}

=============================================================================
