----------------------------- MODULE BridgeFeed -----------------------------
(***************************************************************************)
(* What the bridge indexer's polling task promises its processing loop,   *)
(* without pages, cursors, retries or the channel: bridge transactions    *)
(* 1..produced appear on chain in order; the task hands over runs of the  *)
(* next transactions after the stored progress, and the processing loop   *)
(* takes what was handed over, in the order it was handed over.           *)
(***************************************************************************)
EXTENDS Naturals, Sequences, SequencesExt

CONSTANTS NumTx

VARIABLES
    produced,  \* bridge transactions 1..produced exist on chain
    from,      \* the first transaction after the stored progress cursor
    handed,    \* every transaction the task has handed over, in order
    delivered  \* what the processing loop has taken, a prefix of handed

avars == <<produced, from, handed, delivered>>

\* The next transaction the task owes the processing loop.
NextOwed == from + Len(handed)

Init ==
    /\ produced \in 0..NumTx
    /\ from \in 1..produced + 1
    /\ handed = <<>> /\ delivered = <<>>

NewTx ==
    /\ produced < NumTx
    /\ produced' = produced + 1
    /\ UNCHANGED <<from, handed, delivered>>

\* The task hands over the next transactions, as many as exist, none twice.
Hand ==
    \E last \in NextOwed..produced :
        /\ handed' = handed \o [k \in 1..last - NextOwed + 1 |-> NextOwed + k - 1]
        /\ UNCHANGED <<produced, from, delivered>>

\* The processing loop takes the oldest transactions handed over.
Take ==
    \E n \in Len(delivered) + 1..Len(handed) :
        /\ delivered' = SubSeq(handed, 1, n)
        /\ UNCHANGED <<produced, from, handed>>

Next == NewTx \/ Hand \/ Take

\* Whatever exists is handed over in the end, and whatever is handed over
\* is taken in the end.
Spec == Init /\ [][Next]_avars /\ WF_avars(Hand) /\ WF_avars(Take)
=============================================================================
