---------------------- MODULE MCApplicationRepository ----------------------
(* Two users contending for ids, callers that pass any id and any version. *)
EXTENDS ApplicationRepository
=============================================================================
