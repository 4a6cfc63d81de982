---------------------------- MODULE KYCLifecycle ----------------------------
(***************************************************************************)
(* What the service promises about a user, independently of how it stores  *)
(* applications: a user has at most one KYC case, and its status moves     *)
(* among none, pending, review, pass and fail only as follows.             *)
(* ApplicationRepository is shown to implement this specification.         *)
(***************************************************************************)
CONSTANT Users

VARIABLE status

Statuses == {"none", "pending", "review", "pass", "fail"}

Decided == {"pass", "fail"}

Init == status = [u \in Users |-> "none"]

\* A first application, a replacement of a decided one, or a re-KYC.
Apply(u) ==
  /\ status[u] \in Decided \union {"none"}
  /\ status' = [status EXCEPT ![u] = "pending"]

Refer(u) ==
  /\ status[u] = "pending"
  /\ status' = [status EXCEPT ![u] = "review"]

Decide(u, outcome) ==
  /\ status[u] \in {"pending", "review"}
  /\ status' = [status EXCEPT ![u] = outcome]

\* A decided case may be forgotten; one in progress never is.
Forget(u) ==
  /\ status[u] \in Decided
  /\ status' = [status EXCEPT ![u] = "none"]

Next ==
  \E u \in Users :
    \/ Apply(u)
    \/ Refer(u)
    \/ \E outcome \in Decided : Decide(u, outcome)
    \/ Forget(u)

Spec == Init /\ [][Next]_status
=============================================================================
