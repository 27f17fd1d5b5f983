-------------------------- MODULE OwnedObjectsReader --------------------------
(***************************************************************************)
(* DataReader::get_owned_objects of the Rust SDK (rtd-sdk/src/lib.rs):     *)
(* it reads every object of a type owned by an address by following        *)
(* getOwnedObjects pages, cursor = next_cursor, while has_next_page.       *)
(* Between two pages the chain moves on: objects are transferred to and    *)
(* away from the owner (up to MaxChanges times).  The API's own doc says   *)
(* such a read is then not accurate; what it still owes is stated below.  *)
(***************************************************************************)
EXTENDS Naturals, FiniteSets, Sequences, SequencesExt, CursorPage

CONSTANTS
    Ids,         \* object ids that may be owned, as sort keys
    Limit,       \* page size the server applies (limit None in the call)
    MaxChanges   \* transfers to or from the owner during the model

ASSUME Limit \in Nat \ {0}

VARIABLES
    owned,    \* chain: ids the address owns now
    pc,       \* the call: "idle", "paging" (in the loop), "done", "failed"
    cursor,   \* the loop's cursor
    result,   \* the loop's result vector
    kept,     \* (history) ids owned from the start of the call until now
    seen,     \* (history) ids owned at some point since the call started
    changes

vars == <<owned, pc, cursor, result, kept, seen, changes>>

Init ==
    /\ owned \in SUBSET Ids
    /\ pc = "idle" /\ cursor = None /\ result = <<>>
    /\ kept = {} /\ seen = {} /\ changes = 0

\* A caller (gas selection in the transaction builder) calls the reader:
\* has_next = true, cursor = None, result empty.
GetOwnedObjects ==
    /\ pc \in {"idle", "done", "failed"}
    /\ pc' = "paging" /\ cursor' = None /\ result' = <<>>
    /\ kept' = owned /\ seen' = owned
    /\ UNCHANGED <<owned, changes>>

\* A result longer than the ids that exist can only hold repeats; the model
\* follows a call no further (no correct call gets there, as
\* ResultIsConsistentRead shows).
WithinModel == Len(result) <= Cardinality(Ids)

FetchPageStale ==
    /\ pc = "paging" /\ WithinModel
    /\ LET p == Page(owned, cursor, Limit) IN
         /\ result' = result \o p.data
         /\ pc' = IF p.hasNextPage THEN "paging" ELSE "done"
    /\ UNCHANGED <<owned, cursor, kept, seen, changes>>

\* One iteration of the while loop: fetch a page, extend the result with
\* its objects, cursor = next_cursor, has_next = has_next_page.
FetchPage ==
    /\ pc = "paging" /\ WithinModel
    /\ LET p == Page(owned, cursor, Limit) IN
         /\ result' = result \o p.data
         /\ cursor' = p.nextCursor
         /\ pc' = IF p.hasNextPage THEN "paging" ELSE "done"
    /\ UNCHANGED <<owned, kept, seen, changes>>

\* The RPC or the conversion to ObjectInfo fails: `?` returns the error and
\* drops the objects collected so far.
FetchFails ==
    /\ pc = "paging"
    /\ pc' = "failed"
    /\ UNCHANGED <<owned, cursor, result, kept, seen, changes>>

\* A transaction moves object i to or away from the owner.
Transfer(i) ==
    /\ changes < MaxChanges
    /\ owned' = IF i \in owned THEN owned \ {i} ELSE owned \cup {i}
    /\ kept' = kept \cap owned'
    /\ seen' = IF pc = "paging" THEN seen \cup owned' ELSE seen
    /\ changes' = changes + 1
    /\ UNCHANGED <<pc, cursor, result>>

Next ==
    \/ GetOwnedObjects \/ FetchPage \/ FetchFails
    \/ \E i \in Ids : Transfer(i)

Spec == Init /\ [][Next]_vars

\* The tokio task awaiting the call keeps being polled.
FairSpec == Spec /\ WF_vars(FetchPage)
-----------------------------------------------------------------------------
TypeOK ==
    /\ owned \subseteq Ids /\ kept \subseteq Ids /\ seen \subseteq Ids
    /\ pc \in {"idle", "paging", "done", "failed"}
    /\ cursor \in Ids \cup {None}
    /\ result \in Seq(Ids)
    /\ changes \in 0..MaxChanges

(***************************************************************************)
(* What the paged read owes its caller although pages are read at         *)
(* different times: a result that ends the loop holds every object the     *)
(* owner kept for the whole call, no object twice, in id order, and only   *)
(* objects the owner held at some point of the call.  A has_next_page      *)
(* that outlives the data sends the loop back to cursor None and repeats   *)
(* objects; a cursor past the last item kept skips one.                   *)
(***************************************************************************)
ResultIsConsistentRead ==
    pc = "done" =>
        /\ kept \subseteq ToSet(result)
        /\ IsSorted(result, <)
        /\ ToSet(result) \subseteq seen

(***************************************************************************)
(* A call that has started returns, with the objects or with an error:     *)
(* has_next_page turns false once the cursor passes the owner's last       *)
(* object.                                                                 *)
(***************************************************************************)
CallReturns == pc = "paging" ~> pc \in {"done", "failed"}
=============================================================================
