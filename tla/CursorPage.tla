----------------------------- MODULE CursorPage -----------------------------
(***************************************************************************)
(* One page of a cursor-paginated JSON-RPC read: getCheckpoints as         *)
(* ReadApi::get_checkpoints serves it (rtd-indexer/src/apis/read_api.rs), *)
(* and the same page contract of getOwnedObjects and queryTransactionBlocks *)
(* whose servers are not in this repository.  An item stands for its sort  *)
(* key (sequence number, object id, transaction order): a natural.         *)
(* Pages are read in ascending order, as every caller here reads them.     *)
(***************************************************************************)
EXTENDS Naturals, Sequences, SequencesExt

CONSTANT None

\* The store's query behind the handler (IndexerReader::get_checkpoints,
\* not in this repository): the items after the cursor, oldest first, at
\* most n of them; no cursor means from the first item.
InnerQuery(items, cursor, n) ==
    LET after == SetToSortSeq({i \in items : cursor = None \/ i > cursor}, <)
    IN  SubSeq(after, 1, Min({n, Len(after)}))

HasNextPageAtLimit(got, limit) == Len(got) >= limit

\* One more item than the limit came back: there is a next page.
HasNextPage(got, limit) == Len(got) > limit

NextCursorPastLast(got, data) == IF data = <<>> THEN None ELSE Last(data) + 1

NextCursorUntruncated(got, data) == IF got = <<>> THEN None ELSE Last(got)

\* The next cursor is the last item kept, or None for an empty page.
NextCursor(got, data) == IF data = <<>> THEN None ELSE Last(data)

\* ReadApi::get_checkpoints: ask for limit + 1, report whether the extra
\* item exists, keep limit items and point the cursor at the last one kept.
Page(items, cursor, limit) ==
    LET got  == InnerQuery(items, cursor, limit + 1)
        data == SubSeq(got, 1, Min({limit, Len(got)}))
    IN  [data |-> data,
         nextCursor |-> NextCursor(got, data),
         hasNextPage |-> HasNextPage(got, limit)]
=============================================================================
