--------------------- MODULE MCDBApplicationRepository ---------------------
(* One user, whose creations race; a creation may start one step from a    *)
(* decision, so that it can be decided within the version bound.           *)
EXTENDS DBApplicationRepository, TLC

StartedOrAlmostDecided == {"STARTED", "VENDOR_DECISION"}

IdSymmetry == Permutations(AppIds) \union Permutations(Callers)
=============================================================================
