--------------------------- MODULE MCListSyncJob ---------------------------
(* Two loops are all there can be: the Stop of the second panics.          *)
EXTENDS ListSyncJob
=============================================================================
