------------------------------ MODULE KVTable ------------------------------
(***************************************************************************)
(* What a table promises its caller (ferrumdb Table and Txn over Store): a *)
(* map from keys to values in which a write of one or more keys lands      *)
(* whole, at one instant of its call.  A write that returns Ok has landed. *)
(* One that returns an error or is cut off by a failure has landed whole   *)
(* or not at all, and what has not landed by then never does.              *)
(***************************************************************************)
EXTENDS Lsm

VARIABLES
    kv,       \* the value of every key, Absent if it has none
    call,     \* the entries the write in progress is to store
    landed,   \* whether it has taken effect
    outcome   \* how the last write returned

abstract == <<kv, call, landed, outcome>>

Landing == Live(Overlay(kv, call))

KVInit ==
    /\ kv = EmptyTable
    /\ call = EmptyTable
    /\ landed = FALSE
    /\ outcome = "none"

Submit ==
    /\ call = EmptyTable
    /\ call' # EmptyTable
    /\ call' \in Table
    /\ outcome' = "none"
    /\ UNCHANGED <<kv, landed>>

Land ==
    /\ call # EmptyTable
    /\ ~landed
    /\ landed' = TRUE
    /\ kv' = Landing
    /\ UNCHANGED <<call, outcome>>

Ok ==
    /\ landed
    /\ call' = EmptyTable
    /\ landed' = FALSE
    /\ outcome' = "ok"
    /\ UNCHANGED kv

Fail ==
    /\ call # EmptyTable
    /\ call' = EmptyTable
    /\ landed' = FALSE
    /\ outcome' = "err"
    /\ UNCHANGED kv

\* The process dies: a write that was not certain to last may have landed.
Interrupt ==
    /\ call' = EmptyTable
    /\ landed' = FALSE
    /\ outcome' = "none"
    /\ kv' = kv \/ (~landed /\ kv' = Landing)

\* Any other call of the table.
Other ==
    /\ call = EmptyTable
    /\ outcome' = "none"
    /\ UNCHANGED <<call, landed, kv>>

KVNext == Submit \/ Land \/ Ok \/ Fail \/ Interrupt \/ Other

KVSpec == KVInit /\ [][KVNext]_abstract

=============================================================================
