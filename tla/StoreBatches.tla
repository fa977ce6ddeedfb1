---------------------------- MODULE StoreBatches ----------------------------
(***************************************************************************)
(* Store with a history variable: the batch of the one write call, if any, *)
(* that has returned an error.  At most one call fails (a bound), so that  *)
(* what lands later of that batch can be told from other writes.           *)
(***************************************************************************)
EXTENDS Store

VARIABLE failed

Fails == pc # "idle" /\ result' = "err"

HInit == Init /\ failed = EmptyTable

HNext ==
    /\ Next
    /\ failed' = IF Fails THEN pending ELSE failed
    /\ failed # EmptyTable => ~Fails

HSpec == HInit /\ [][HNext]_<<vars, failed>>

Landed(t, batch) == Live(Overlay(t, batch))

\* README.md:92 and table.rs:47 of a transaction or a batch: "Either all writes
\* land or none do".  The COMMIT marker that write_commit logs makes the whole
\* batch of the call in progress land; the batch of a call that failed before
\* it (Transaction::commit returned Err) may at most land whole with it.
AllOrNothing ==
    [][pc = "commit" /\ pc' = "sync" =>
          Contents' \in {Landed(Contents, pending),
                         Landed(Landed(Contents, failed), pending)}]_<<vars, failed>>

=============================================================================
