------------------------ MODULE MCOwnedObjectsReader ------------------------
EXTENDS OwnedObjectsReader

\* Four object ids, so that a page of two leaves a next page.
MCIds == 1..4
=============================================================================
