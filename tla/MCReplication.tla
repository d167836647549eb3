----------------------------- MODULE MCReplication -----------------------------
(* Replication with a few threads, keys and starts of the secondary. *)
EXTENDS Replication, TLC

\* The threads and the keys are interchangeable in the safety properties.
Symmetry == Permutations(Thread) \union Permutations(Key)

\* Constraint: all the runs of the secondary but the last end before anything else happens,
\* perhaps after a HELLO that the primary still has to read; the last one says no HELLO.
StaleHellos ==
  /\ alive /\ ~skipped /\ sec # "promoted"
  /\ starts < MaxStarts => /\ mpc = "poll" /\ priKeys = {}
                           /\ \A t \in Thread : pc[t] \in {"start", "unborn"}
  /\ starts = MaxStarts => sec # "hello"
=============================================================================
