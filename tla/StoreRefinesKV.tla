-------------------------- MODULE StoreRefinesKV ---------------------------
(***************************************************************************)
(* The storage engine implements the abstract table.  A write lands when   *)
(* its COMMIT is certain to last: once it is fsynced if the machine may    *)
(* lose power, once it is written if only the process may die.             *)
(***************************************************************************)
EXTENDS Store

Calling == pc \notin {"closed", "idle", "txn"} /\ pending # EmptyTable

HasLanded ==
    /\ Calling
    /\ pc \notin {"append", "commit"}
    /\ "power_loss" \in Faults => pc # "sync"

KV == INSTANCE KVTable WITH
          kv <- Contents,
          call <- IF Calling THEN pending ELSE EmptyTable,
          landed <- HasLanded,
          outcome <- result

\* Store implements KVTable: reads, flushes, compactions, restarts and the
\* failures of the run are invisible except as calls that return or are cut
\* off, and each set_value, delete_value and Transaction::commit takes effect
\* whole, at one step, before it reports Ok.
RefinesKV == KV!KVSpec

=============================================================================
