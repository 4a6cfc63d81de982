----------------------- MODULE ApplicationRepository -----------------------
(***************************************************************************)
(* The application store (internal/repo.go).  Every method of the code     *)
(* holds r.mu from its first to its last line, so each is one atomic       *)
(* action here; the sink call made under the mutex is part of the action.  *)
(* A call that returns an error without touching the store is a stuttering *)
(* step; the one failing call that does touch it is CreateRefusedLate.     *)
(*                                                                         *)
(* The actions are used in two ways: by the modules that EXTEND this one,  *)
(* which call them as the handlers do, and by Spec below, where any caller *)
(* may call any method at any time, for any user and id, with any version, *)
(* target and actor.  Two arguments of Create are what its one caller      *)
(* passes: the state is STARTED and the version is left for Create to set  *)
(* (another caller could choose both), and an id that was once given to an *)
(* application is not given to a second one (newUUID).                     *)
(***************************************************************************)
EXTENDS Naturals, Sequences, StateMachine

CONSTANTS
  Users,        \* user ids
  AppIds,       \* application ids
  Actors,       \* who a transition is recorded for
  NoApp,        \* the absent application, and the absent id
  MaxVersion    \* bound on the version an application reaches in Spec

ASSUME MaxVersionAssumption == MaxVersion \in Nat \ {0}

VARIABLES
  apps,     \* id -> the application, or NoApp
  byUser,   \* user -> id of the user's application, or NoApp
  trail,    \* id -> the transitions handed to the sink
  issued    \* ids given to an application so far (newUUID never repeats one)

repoVars == <<apps, byUser, trail, issued>>

(* An application as the code stores it.  vendorApplicantID says whether   *)
(* the id is set.  reKYCDue stands for re_kyc_due_at (zero, in the future, *)
(* in the past); decided_at is set exactly when it is, by the same lines.  *)
Application ==
  [user : Users, state : States, version : Nat \ {0},
   vendorApplicantID : {"unset", "set"}, reKYCDue : {"unset", "future", "past"}]

ASSUME NoAppAssumption == NoApp \notin AppIds /\ NoApp \notin Application

Transition == [from : States, to : States, by : Actors]

Init ==
  /\ apps = [a \in AppIds |-> NoApp]
  /\ byUser = [u \in Users |-> NoApp]
  /\ trail = [a \in AppIds |-> <<>>]
  /\ issued = {}

-----------------------------------------------------------------------------
(* Reads.                                                                  *)

Exists(a) == a \in AppIds /\ apps[a] # NoApp

Live == {a \in AppIds : apps[a] # NoApp}

GetByUserID(u) == IF Exists(byUser[u]) THEN byUser[u] ELSE NoApp

ListDueForReKYC ==
  {[id |-> a, version |-> apps[a].version] :
     a \in {b \in Live : apps[b].reKYCDue = "past" /\ IsTerminal(apps[b].state)}}

-----------------------------------------------------------------------------
(* Writes.                                                                 *)

Blocked(u) == Exists(byUser[u]) /\ ~IsTerminal(apps[byUser[u]].state)

\* Mutant: the decided application stays in r.apps.
ClearedIndexOnly(u) == apps

\* The store after Create has dropped the application the user already has.
Cleared(u) ==
  IF byUser[u] \in AppIds THEN [apps EXCEPT ![byUser[u]] = NoApp] ELSE apps

\* Mutant: the version starts at Go's zero value.
NewApplicationUnversioned(u) ==
  [user |-> u, state |-> "STARTED", version |-> 0,
   vendorApplicantID |-> "unset", reKYCDue |-> "unset"]

NewApplication(u) ==
  [user |-> u, state |-> "STARTED", version |-> 1,
   vendorApplicantID |-> "unset", reKYCDue |-> "unset"]

Create(u, id) ==
  /\ ~Blocked(u)
  /\ id \notin issued
  /\ apps' = [Cleared(u) EXCEPT ![id] = NewApplication(u)]
  /\ byUser' = [byUser EXCEPT ![u] = id]
  /\ issued' = issued \union {id}
  /\ UNCHANGED trail

\* An id that is empty (ErrInvalidArgument) or in use (ErrDuplicate) is refused
\* only after the user's decided application was deleted; byUser keeps its id.
CreateRefusedLate(u) ==
  /\ ~Blocked(u)
  /\ apps' = Cleared(u)
  /\ UNCHANGED <<byUser, trail, issued>>

\* Mutant: the version of the caller's copy is not compared.
UpdateUnversioned(id, version, newState) ==
  Exists(id) /\ CanTransition(apps[id].state, newState)

UpdateAccepted(id, version, newState) ==
  /\ Exists(id)
  /\ apps[id].version = version
  /\ CanTransition(apps[id].state, newState)

\* Mutant: only a pass comes due again.
TransitionedPassOnly(app, newState) ==
  [app EXCEPT !.state = newState, !.version = @ + 1,
              !.reKYCDue = IF newState = "PASS" THEN "future" ELSE @]

Transitioned(app, newState) ==
  [app EXCEPT !.state = newState, !.version = @ + 1,
              !.reKYCDue = IF IsTerminal(newState) THEN "future" ELSE @]

\* Mutant: from is read after the state was assigned.
RecordAfterAssignment(id, newState, actor) ==
  trail' = [trail EXCEPT ![id] =
              Append(@, [from |-> newState, to |-> newState, by |-> actor])]

RecordTransition(id, newState, actor) ==
  trail' = [trail EXCEPT ![id] =
              Append(@, [from |-> apps[id].state, to |-> newState, by |-> actor])]

UpdateState(id, version, newState, actor) ==
  /\ UpdateAccepted(id, version, newState)
  /\ apps' = [apps EXCEPT ![id] = Transitioned(@, newState)]
  /\ RecordTransition(id, newState, actor)
  /\ UNCHANGED <<byUser, issued>>

\* Mutant: any application can be re-opened.
ReopenAnyState(id, version) == Exists(id) /\ apps[id].version = version

ReopenAccepted(id, version) ==
  /\ Exists(id)
  /\ apps[id].version = version
  /\ IsTerminal(apps[id].state)

\* Mutant: re-opening keeps the version.
ReopenedSameVersion(app) == [app EXCEPT !.state = "STARTED", !.reKYCDue = "unset"]

Reopened(app) ==
  [app EXCEPT !.state = "STARTED", !.version = @ + 1, !.reKYCDue = "unset"]

Reopen(id, version, actor) ==
  /\ ReopenAccepted(id, version)
  /\ apps' = [apps EXCEPT ![id] = Reopened(@)]
  /\ RecordTransition(id, "STARTED", actor)
  /\ UNCHANGED <<byUser, issued>>

\* Mutant: the vendor's id is stored under the old version.
RegisteredSameVersion(app) == [app EXCEPT !.vendorApplicantID = "set"]

Registered(app) == [app EXCEPT !.vendorApplicantID = "set", !.version = @ + 1]

\* No version check, but the version is bumped.
SetVendorApplicantID(id) ==
  /\ Exists(id)
  /\ apps' = [apps EXCEPT ![id] = Registered(@)]
  /\ UNCHANGED <<byUser, trail, issued>>

\* The environment: the 365 days after a decision pass.
Elapse(id) ==
  /\ Exists(id)
  /\ apps[id].reKYCDue = "future"
  /\ apps' = [apps EXCEPT ![id] = [@ EXCEPT !.reKYCDue = "past"]]
  /\ UNCHANGED <<byUser, trail, issued>>

-----------------------------------------------------------------------------
(* The package on its own, called in any order.                            *)

Bounded(id) == Exists(id) => apps[id].version < MaxVersion

Next ==
  \/ \E u \in Users : CreateRefusedLate(u) \/ \E id \in AppIds : Create(u, id)
  \/ \E id \in AppIds, version \in 1 .. MaxVersion, actor \in Actors :
       /\ Bounded(id)
       /\ \/ \E newState \in States : UpdateState(id, version, newState, actor)
          \/ Reopen(id, version, actor)
  \/ \E id \in AppIds : Bounded(id) /\ SetVendorApplicantID(id)
  \/ \E id \in AppIds : Elapse(id)

Spec == Init /\ [][Next]_repoVars

-----------------------------------------------------------------------------
(* Properties.                                                             *)

\* The type of the store: repo.go's Application struct and its two maps.
TypeOK ==
  /\ apps \in [AppIds -> Application \union {NoApp}]
  /\ byUser \in [Users -> AppIds \union {NoApp}]
  /\ trail \in [AppIds -> Seq(Transition)]
  /\ issued \subseteq AppIds

\* repo.go keeps two maps in step by hand.  Every stored application is the
\* one byUser gives for its owner, so a user never has two of them, and no
\* user is given another's, whatever sequence of creations, failed creations
\* (which leave a dangling entry behind) and replacements led here.
OwnerIndexed ==
  /\ \A a \in AppIds : apps[a] # NoApp => byUser[apps[a].user] = a
  /\ \A u \in Users : Exists(byUser[u]) => apps[byUser[u]].user = u

\* The events the sink receives (UpdateState and Reopen call it before they
\* unlock) replay to the stored state: they start at STARTED, each continues
\* where the one before ended, and each is in the transition table.
TrailReplays ==
  \A a \in AppIds : apps[a] # NoApp =>
    /\ apps[a].state = IF trail[a] = <<>> THEN "STARTED" ELSE trail[a][Len(trail[a])].to
    /\ trail[a] # <<>> => trail[a][1].from = "STARTED"
    /\ \A i \in 1 .. Len(trail[a]) : CanTransition(trail[a][i].from, trail[a][i].to)
    /\ \A i \in 1 .. Len(trail[a]) - 1 : trail[a][i + 1].from = trail[a][i].to

\* A decided application always carries the due date ListDueForReKYC selects
\* by: no path of UpdateState, Reopen and SetVendorApplicantID strands one
\* outside re-KYC.
DecidedIsScheduled ==
  \A a \in AppIds :
    (apps[a] # NoApp /\ IsTerminal(apps[a].state)) => apps[a].reKYCDue # "unset"

\* Optimistic concurrency rests on this: two different contents of an
\* application (state, vendor id) never share a version, whichever method
\* wrote them; the clock alone may change the due date under a version.
VersionNamesContent ==
  [][\A a \in AppIds :
       (apps[a] # NoApp /\ apps'[a] # NoApp) =>
         \/ apps'[a].version = apps[a].version + 1
         \/ apps'[a] = [apps[a] EXCEPT !.reKYCDue = apps'[a].reKYCDue]]_repoVars

-----------------------------------------------------------------------------
(* The store implements the lifecycle promised per user.                   *)

Coarse(state) ==
  CASE state = "PASS" -> "pass"
    [] state = "FAIL" -> "fail"
    [] state = "MANUAL_REVIEW" -> "review"
    [] OTHER -> "pending"

\* What the status endpoint answers for the user, at README granularity.
StatusOf(u) ==
  IF Exists(byUser[u])
    THEN Coarse(apps[byUser[u]].state)
    ELSE "none"

UserStatus == [u \in Users |-> StatusOf(u)]

Lifecycle == INSTANCE KYCLifecycle WITH status <- UserStatus

\* Every sequence of repository calls moves each user's status only as
\* KYCLifecycle allows: one case per user, never dropped while in progress,
\* never decided twice without a re-KYC or a replacement in between.
ImplementsLifecycle == Lifecycle!Spec
=============================================================================
