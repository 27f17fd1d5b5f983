--------------------------- MODULE BridgeTxPolling ---------------------------
(***************************************************************************)
(* start_rtd_tx_polling_task of the bridge indexer                         *)
(* (rtd-bridge-indexer/src/rtd_transaction_queries.rs) and the channel to *)
(* handle_rtd_transactions_loop.  The task pages queryTransactionBlocks    *)
(* for transactions that take the bridge object as input, from the cursor  *)
(* read from the progress store, forever: a failed query (after the retry  *)
(* macro gives up) or a failed conversion is retried with the same cursor, *)
(* an empty page means caught up, and a non-empty page is sent down the    *)
(* bounded channel with its next_cursor before the cursor moves.  Bridge   *)
(* transactions 1..NumTx appear on chain over time.                        *)
(***************************************************************************)
EXTENDS Naturals, Sequences, SequencesExt, CursorPage

CONSTANTS
    NumTx,        \* bridge transactions that reach the chain in the model
    Limit,        \* the server's page size (limit None in the call)
    ChanCap,      \* capacity of the processing channel (100 in main.rs)
    MaxFailures   \* failed polls, across both failure paths

ASSUME Limit \in Nat \ {0} /\ ChanCap \in Nat \ {0}

Txs == 1..NumTx

VARIABLES
    produced,  \* chain: bridge transactions 1..produced exist
    cursor,    \* the task's cursor
    pc,        \* "query" (top of the loop) or "send" (awaiting tx.send)
    batch,     \* the converted page being sent, with its next_cursor
    chan,      \* the channel: sequence of [txs, cursor]
    delivered, \* transactions the processing loop has taken, in order
    start,     \* (history) the cursor the task started from
    failures

vars == <<produced, cursor, pc, batch, chan, delivered, start, failures>>

\* Start of the task: the cursor comes from the progress store, None or a
\* transaction already on chain.
Init ==
    /\ produced \in 0..NumTx
    /\ cursor \in {None} \cup 1..produced
    /\ start = cursor
    /\ pc = "query" /\ batch = [txs |-> <<>>, cursor |-> None]
    /\ chan = <<>> /\ delivered = <<>> /\ failures = 0

\* Everything the task has handed on or holds for sending, in order.
Forwarded ==
    delivered \o FlattenSeq([k \in DOMAIN chan |-> chan[k].txs])
              \o (IF pc = "send" THEN batch.txs ELSE <<>>)

\* More than every transaction forwarded means repeats; the model follows
\* such a run no further (PagesInOrderOnce shows a correct one never gets
\* there).
WithinModel == Len(Forwarded) <= NumTx

\* A bridge transaction is executed on chain.
NewBridgeTx ==
    /\ produced < NumTx
    /\ produced' = produced + 1
    /\ UNCHANGED <<cursor, pc, batch, chan, delivered, start, failures>>

\* retry_with_max_elapsed_time! gives up on the query: log and `continue`
\* with the same cursor.
QueryFails ==
    /\ pc = "query" /\ failures < MaxFailures
    /\ failures' = failures + 1
    /\ UNCHANGED <<produced, cursor, pc, batch, chan, delivered, start>>

\* A transaction of the page does not convert to RetrievedTransaction (the
\* fullnode left out its checkpoint): sleep and `continue`, same cursor.
ConvertFails ==
    /\ pc = "query" /\ failures < MaxFailures
    /\ Page(1..produced, cursor, Limit).data # <<>>
    /\ failures' = failures + 1
    /\ UNCHANGED <<produced, cursor, pc, batch, chan, delivered, start>>

\* The query and the conversion succeed with a non-empty page; the task
\* goes on to send it.  (An empty page only sleeps and queries again: a
\* step that changes nothing.)
Poll ==
    /\ pc = "query" /\ WithinModel
    /\ LET p == Page(1..produced, cursor, Limit) IN
         /\ p.data # <<>>
         /\ batch' = [txs |-> p.data, cursor |-> p.nextCursor]
    /\ pc' = "send"
    /\ UNCHANGED <<produced, cursor, chan, delivered, start, failures>>

SendKeepCursor ==
    /\ pc = "send" /\ Len(chan) < ChanCap
    /\ chan' = Append(chan, batch)
    /\ pc' = "query"
    /\ UNCHANGED <<produced, cursor, batch, delivered, start, failures>>

\* tx.send((txes, next_cursor)).await, which waits while the channel is
\* full; then cursor = next_cursor.
Send ==
    /\ pc = "send" /\ Len(chan) < ChanCap
    /\ chan' = Append(chan, batch)
    /\ cursor' = batch.cursor
    /\ pc' = "query"
    /\ UNCHANGED <<produced, batch, delivered, start, failures>>

\* handle_rtd_transactions_loop (not in this repository) takes the oldest
\* batch off the channel.
Process ==
    /\ chan # <<>>
    /\ delivered' = delivered \o Head(chan).txs
    /\ chan' = Tail(chan)
    /\ UNCHANGED <<produced, cursor, pc, batch, start, failures>>

Next ==
    \/ NewBridgeTx \/ QueryFails \/ ConvertFails \/ Poll \/ Send \/ Process

Spec == Init /\ [][Next]_vars

\* The runtime keeps polling both tasks; the fullnode answers in the end
\* (failures are bounded by MaxFailures).
FairSpec == Spec /\ WF_vars(Poll) /\ WF_vars(Send) /\ WF_vars(Process)
-----------------------------------------------------------------------------
TypeOK ==
    /\ produced \in 0..NumTx
    /\ cursor \in Txs \cup {None} /\ start \in Txs \cup {None}
    /\ pc \in {"query", "send"}
    /\ batch \in [txs : Seq(Txs), cursor : Txs \cup {None}]
    /\ chan \in Seq([txs : Seq(Txs), cursor : Txs \cup {None}])
    /\ Len(chan) <= ChanCap
    /\ delivered \in Seq(Txs)
    /\ failures \in 0..MaxFailures

\* The first transaction after the progress-store cursor.
FirstAfterStart == IF start = None THEN 1 ELSE start + 1

(***************************************************************************)
(* The processing loop receives the bridge transactions after the stored   *)
(* cursor each exactly once and in chain order, although pages fail, come  *)
(* back empty and wait on a full channel; and every batch travels with     *)
(* the cursor of its own last transaction, the one the processing loop    *)
(* stores as progress.                                                     *)
(***************************************************************************)
PagesInOrderOnce ==
    /\ Forwarded = [k \in 1..Len(Forwarded) |-> FirstAfterStart + k - 1]
    /\ \A k \in DOMAIN chan : chan[k].cursor = Last(chan[k].txs)

\* The task seen as the feed it promises: what it has handed on or holds
\* for sending is what it has handed over.
Feed == INSTANCE BridgeFeed WITH from <- FirstAfterStart, handed <- Forwarded

(***************************************************************************)
(* Refinement: the polling task with its pages, cursors, failed queries    *)
(* and conversions, empty pages and bounded channel implements BridgeFeed: *)
(* each step either hands over the next transactions after the last ones   *)
(* handed (never one twice, never one skipped), passes the oldest to the   *)
(* processing loop, or changes nothing the feed shows; and under the       *)
(* runtime's fairness the feed's own fairness holds.                       *)
(***************************************************************************)
ImplementsBridgeFeed == Feed!Spec

(***************************************************************************)
(* Every bridge transaction that reaches the chain after the stored cursor *)
(* is in the end handed to the processing loop.                            *)
(***************************************************************************)
EveryTxProcessed ==
    \A t \in Txs :
        (t <= produced /\ t >= FirstAfterStart) ~> t \in ToSet(delivered)
=============================================================================
