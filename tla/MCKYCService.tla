---------------------------- MODULE MCKYCService ----------------------------
(* One user, one application after another, few requests of each kind.     *)
EXTENDS KYCService, TLC

CONSTANTS a1, a2, h1, h2

NoEvents == {}

Clear1 == [header |-> "h1", app |-> a1, outcome |-> "CLEAR", wellFormed |-> TRUE]
Clear2 == [Clear1 EXCEPT !.header = "h2"]

Refer2 == [Clear2 EXCEPT !.outcome = "CONSIDER"]

ClearAndRefer == {Clear1, Refer2}

Requests(create, upload, liveness, screening, disposition, rekyc) ==
  [create |-> create, upload |-> upload, liveness |-> liveness,
   screening |-> screening, disposition |-> disposition, rekyc |-> rekyc]

\* Two creations, two re-openings and two analysts around one review.
ContendedReKYC == Requests(2, 3, 1, 1, 2, 2)

\* A review that a restart interrupts, with one re-opening.
ReviewAndRestart == Requests(1, 2, 1, 1, 1, 1)

\* The two uploads of a complete set around one creation.
Documents == Requests(1, 2, 0, 0, 0, 0)

SlotSymmetry == Permutations(Slots)
=============================================================================
