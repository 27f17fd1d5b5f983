--------------------------- MODULE DurablePrefix ----------------------------
(***************************************************************************)
(* What one pipeline of the analytics store promises its framework, with   *)
(* batching, channels and workers abstracted away: checkpoints handed to   *)
(* commit_batch (below `frontier`) become durable as a growing prefix       *)
(* 0..durable-1 of the chain, and after a restart the framework resumes    *)
(* exactly at the end of that prefix: nothing durable is redone and         *)
(* nothing missing is skipped.                                             *)
(***************************************************************************)
EXTENDS Naturals

CONSTANT Limit   \* the stream ends before checkpoint Limit

VARIABLES
    frontier,   \* next checkpoint the framework will deliver
    durable     \* checkpoints 0..durable-1 are in the object store

Init == frontier = 0 /\ durable = 0

\* The framework delivers more checkpoints.
Deliver ==
    /\ frontier' \in frontier + 1..Limit
    /\ UNCHANGED durable

\* A file extends the durable prefix, never past what was delivered.
Persist ==
    /\ durable' \in durable + 1..frontier
    /\ UNCHANGED frontier

\* A restart: delivery resumes at the end of the durable prefix.
Rewind ==
    /\ frontier' = durable
    /\ UNCHANGED durable

Next == Deliver \/ Persist \/ Rewind

Spec == Init /\ [][Next]_<<frontier, durable>>
=============================================================================
