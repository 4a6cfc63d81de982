------------------- MODULE ApplicationRepository_proofs -------------------
(***************************************************************************)
(* Theorems about the application store, for every number of users, ids    *)
(* and actors and every version bound.  The inductive invariant is         *)
(* TypeOK /\ OwnerIndexed /\ EntriesIssued: OwnerIndexed alone is not      *)
(* inductive, since an entry of byUser left dangling by a failed creation  *)
(* would start to point at a stranger if its id were ever handed out again.*)
(* The other properties are proved on top of it: DecidedIsScheduled is     *)
(* inductive with it, VersionNamesContent follows from it step by step,    *)
(* and TrailReplays needs FreshTrail, that an id starts with no trail.     *)
(***************************************************************************)
EXTENDS ApplicationRepository, TLAPS

\* Every id held in either map of the repository was issued by a creation.
EntriesIssued ==
  /\ \A a \in AppIds : apps[a] # NoApp => a \in issued
  /\ \A u \in Users : byUser[u] # NoApp => byUser[u] \in issued

IInv == TypeOK /\ OwnerIndexed /\ EntriesIssued

\* One call of the package, with no bound on the versions: what a step of Spec
\* is, and what a step of any program built on the repository comes to.
StoreCall ==
  \/ \E u \in Users : CreateRefusedLate(u) \/ \E id \in AppIds : Create(u, id)
  \/ \E id \in AppIds, version \in Nat, actor \in Actors :
       \/ \E newState \in States : UpdateState(id, version, newState, actor)
       \/ Reopen(id, version, actor)
  \/ \E id \in AppIds : SetVendorApplicantID(id) \/ Elapse(id)

\* The bounds of Spec only leave calls out.
LEMMA NextIsStoreCall ==
  ASSUME [Next]_repoVars
  PROVE  [StoreCall]_repoVars
<1>1. 1 .. MaxVersion \subseteq Nat
  BY MaxVersionAssumption
<1> QED
  BY <1>1, Zenon DEF Next, StoreCall

-----------------------------------------------------------------------------
(* Lemmas about the operators the actions are built from.                  *)

\* What UpdateState stores is again an application, of the same user.
LEMMA TransitionedType ==
  ASSUME NEW app \in Application, NEW newState \in States
  PROVE  /\ Transitioned(app, newState) \in Application
         /\ Transitioned(app, newState).user = app.user
         /\ Transitioned(app, newState).state = newState
<1> DEFINE due == IF IsTerminal(newState) THEN "future" ELSE app.reKYCDue
<1>1. app.version + 1 \in Nat \ {0}
  BY DEF Application
<1>2. due \in {"unset", "future", "past"}
  BY DEF Application
<1>3. Transitioned(app, newState) \in Application
  BY <1>1, <1>2, Zenon DEF Application, Transitioned
<1>4. Transitioned(app, newState).user = app.user
  BY DEF Application, Transitioned
<1>5. Transitioned(app, newState).state = newState
  BY DEF Application, Transitioned
<1> QED
  BY <1>3, <1>4, <1>5

\* What Reopen stores is again an application, of the same user.
LEMMA ReopenedType ==
  ASSUME NEW app \in Application
  PROVE  /\ Reopened(app) \in Application
         /\ Reopened(app).user = app.user
         /\ Reopened(app).state = "STARTED"
<1>1. app.version + 1 \in Nat \ {0}
  BY DEF Application
<1>2. "STARTED" \in States
  BY DEF States
<1>3. Reopened(app) \in Application
  BY <1>1, <1>2, Zenon DEF Application, Reopened
<1>4. Reopened(app).user = app.user /\ Reopened(app).state = "STARTED"
  BY DEF Application, Reopened
<1> QED
  BY <1>3, <1>4

\* What SetVendorApplicantID stores is again an application, of the same user.
LEMMA RegisteredType ==
  ASSUME NEW app \in Application
  PROVE  /\ Registered(app) \in Application
         /\ Registered(app).user = app.user
         /\ Registered(app).state = app.state
<1>1. app.version + 1 \in Nat \ {0}
  BY DEF Application
<1>2. Registered(app) \in Application
  BY <1>1, Zenon DEF Application, Registered
<1>3. Registered(app).user = app.user /\ Registered(app).state = app.state
  BY DEF Application, Registered
<1> QED
  BY <1>2, <1>3

\* What Create stores is an application of the user it was called for.
LEMMA NewApplicationType ==
  ASSUME NEW u \in Users
  PROVE  NewApplication(u) \in Application /\ NewApplication(u).user = u
BY DEF NewApplication, Application, States

\* The deletion inside Create leaves the store well typed.
LEMMA ClearedType ==
  ASSUME TypeOK, NEW u \in Users
  PROVE  Cleared(u) \in [AppIds -> Application \union {NoApp}]
BY DEF Cleared, TypeOK

\* Appending to the trail keeps it a family of sequences of transitions.
LEMMA RecordType ==
  ASSUME TypeOK, NEW id \in AppIds, apps[id] # NoApp,
         NEW newState \in States, NEW actor \in Actors,
         RecordTransition(id, newState, actor)
  PROVE  trail' \in [AppIds -> Seq(Transition)]
<1> DEFINE entry == [from |-> apps[id].state, to |-> newState, by |-> actor]
<1>1. apps[id] \in Application
  BY DEF TypeOK
<1>2. entry \in Transition
  BY <1>1 DEF Application, Transition
<1>3. Append(trail[id], entry) \in Seq(Transition)
  BY <1>2 DEF TypeOK
<1>4. trail' = [trail EXCEPT ![id] = Append(trail[id], entry)]
  BY DEF RecordTransition, TypeOK
<1> QED
  BY <1>3, <1>4 DEF TypeOK

-----------------------------------------------------------------------------
(* The invariant.                                                          *)

\* The empty repository satisfies it.
LEMMA InitIInv == Init => IInv
BY NoAppAssumption
   DEF Init, IInv, TypeOK, OwnerIndexed, EntriesIssued, Exists

\* Create: the new application replaces whatever the user had.
LEMMA CreatePreserves ==
  ASSUME IInv, NEW u \in Users, NEW id \in AppIds, Create(u, id)
  PROVE  IInv'
<1> USE DEF IInv
<1>1. TypeOK'
  BY ClearedType, NewApplicationType DEF Create, TypeOK
<1>2. EntriesIssued'
  BY NoAppAssumption DEF Create, Cleared, TypeOK, EntriesIssued
<1>3. apps'[id] = NewApplication(u) /\ byUser'[u] = id
  BY ClearedType DEF Create, TypeOK
<1>4. \A a \in AppIds \ {id} : apps'[a] # NoApp => a # byUser[u] /\ apps'[a] = apps[a]
  BY ClearedType DEF Create, Cleared, TypeOK
<1>5. \A v \in Users \ {u} : byUser'[v] = byUser[v] /\ byUser[v] # id
  BY NoAppAssumption DEF Create, TypeOK, EntriesIssued
<1>6. ASSUME NEW a \in AppIds, apps'[a] # NoApp
      PROVE  byUser'[apps'[a].user] = a
  <2>1. CASE a = id
    BY <2>1, <1>3, NewApplicationType
  <2>2. CASE a # id
    <3>1. apps'[a] = apps[a] /\ byUser[u] # a /\ apps[a] # NoApp
      BY <2>2, <1>4, <1>6
    <3>2. apps[a].user \in Users /\ byUser[apps[a].user] = a
      BY <3>1 DEF TypeOK, Application, OwnerIndexed
    <3> QED
      BY <3>1, <3>2, <1>5
  <2> QED
    BY <2>1, <2>2
<1>7. ASSUME NEW v \in Users, Exists(byUser[v])'
      PROVE  apps'[byUser'[v]].user = v
  <2>1. CASE v = u
    BY <2>1, <1>3, NewApplicationType
  <2>2. CASE v # u
    BY <2>2, <1>4, <1>5, <1>7 DEF Exists, OwnerIndexed
  <2> QED
    BY <2>1, <2>2
<1>8. OwnerIndexed'
  BY <1>6, <1>7 DEF OwnerIndexed
<1> QED
  BY <1>1, <1>2, <1>8

\* The failed creation: the entry it leaves dangling is harmless.
LEMMA CreateRefusedLatePreserves ==
  ASSUME IInv, NEW u \in Users, CreateRefusedLate(u)
  PROVE  IInv'
<1> USE DEF IInv
<1>1. TypeOK'
  BY ClearedType DEF CreateRefusedLate, TypeOK
<1>2. EntriesIssued'
  BY NoAppAssumption DEF CreateRefusedLate, Cleared, TypeOK, EntriesIssued
<1>3. OwnerIndexed'
  BY NoAppAssumption DEF CreateRefusedLate, Cleared, TypeOK, OwnerIndexed, Exists
<1> QED
  BY <1>1, <1>2, <1>3

\* A write to an existing application that keeps its owner keeps the index.
LEMMA RewritePreserves ==
  ASSUME IInv, NEW id \in AppIds, apps[id] # NoApp,
         NEW app \in Application, app.user = apps[id].user,
         apps' = [apps EXCEPT ![id] = app],
         trail' \in [AppIds -> Seq(Transition)],
         UNCHANGED <<byUser, issued>>
  PROVE  IInv'
<1> USE DEF IInv
<1>1. TypeOK'
  BY DEF TypeOK
<1>2. EntriesIssued'
  BY NoAppAssumption DEF TypeOK, EntriesIssued
<1>3. OwnerIndexed'
  BY NoAppAssumption DEF TypeOK, OwnerIndexed, Exists
<1> QED
  BY <1>1, <1>2, <1>3

\* Every call of the package preserves the invariant.
LEMMA NextPreserves ==
  ASSUME IInv, [StoreCall]_repoVars
  PROVE  IInv'
<1>1. ASSUME NEW u \in Users, NEW id \in AppIds, Create(u, id)
      PROVE  IInv'
  BY <1>1, CreatePreserves
<1>2. ASSUME NEW u \in Users, CreateRefusedLate(u)
      PROVE  IInv'
  BY <1>2, CreateRefusedLatePreserves
<1>3. ASSUME NEW id \in AppIds, NEW version \in Nat,
             NEW newState \in States, NEW actor \in Actors,
             UpdateState(id, version, newState, actor)
      PROVE  IInv'
  <2>1. apps[id] \in Application /\ apps[id] # NoApp
    BY <1>3 DEF IInv, TypeOK, UpdateState, UpdateAccepted, Exists
  <2>2. trail' \in [AppIds -> Seq(Transition)]
    BY <1>3, <2>1, RecordType DEF IInv, UpdateState
  <2>3. apps' = [apps EXCEPT ![id] = Transitioned(apps[id], newState)]
    BY <1>3 DEF UpdateState
  <2> QED
    BY <1>3, <2>1, <2>2, <2>3, TransitionedType, RewritePreserves DEF UpdateState
<1>4. ASSUME NEW id \in AppIds, NEW version \in Nat,
             NEW actor \in Actors, Reopen(id, version, actor)
      PROVE  IInv'
  <2>1. apps[id] \in Application /\ apps[id] # NoApp
    BY <1>4 DEF IInv, TypeOK, Reopen, ReopenAccepted, Exists
  <2>2. trail' \in [AppIds -> Seq(Transition)]
    BY <1>4, <2>1, RecordType DEF IInv, Reopen, States
  <2>3. apps' = [apps EXCEPT ![id] = Reopened(apps[id])]
    BY <1>4 DEF Reopen
  <2> QED
    BY <1>4, <2>1, <2>2, <2>3, ReopenedType, RewritePreserves DEF Reopen
<1>5. ASSUME NEW id \in AppIds, SetVendorApplicantID(id)
      PROVE  IInv'
  <2>1. apps[id] \in Application /\ apps[id] # NoApp
    BY <1>5 DEF IInv, TypeOK, SetVendorApplicantID, Exists
  <2>2. apps' = [apps EXCEPT ![id] = Registered(apps[id])]
    BY <1>5 DEF SetVendorApplicantID
  <2>3. trail' \in [AppIds -> Seq(Transition)]
    BY <1>5 DEF SetVendorApplicantID, IInv, TypeOK
  <2> QED
    BY <1>5, <2>1, <2>2, <2>3, RegisteredType, RewritePreserves DEF SetVendorApplicantID
<1>6. ASSUME NEW id \in AppIds, Elapse(id)
      PROVE  IInv'
  <2> DEFINE app == [apps[id] EXCEPT !.reKYCDue = "past"]
  <2>1. apps[id] \in Application /\ apps[id] # NoApp
    BY <1>6 DEF IInv, TypeOK, Elapse, Exists
  <2>2. app \in Application /\ app.user = apps[id].user
    BY <2>1 DEF Application
  <2>3. apps' = [apps EXCEPT ![id] = app]
    BY <1>6 DEF Elapse
  <2>4. trail' \in [AppIds -> Seq(Transition)]
    BY <1>6 DEF Elapse, IInv, TypeOK
  <2> HIDE DEF app
  <2> QED
    BY <1>6, <2>1, <2>2, <2>3, <2>4, RewritePreserves DEF Elapse
<1>7. CASE UNCHANGED repoVars
  BY <1>7 DEF IInv, TypeOK, OwnerIndexed, EntriesIssued, Exists, repoVars
<1> QED
  BY <1>1, <1>2, <1>3, <1>4, <1>5, <1>6, <1>7 DEF StoreCall

\* The invariant holds in every reachable state of the package.
THEOREM InductiveInvariant == Spec => []IInv
<1>1. Init => IInv
  BY InitIInv
<1>2. IInv /\ [Next]_repoVars => IInv'
  BY NextPreserves, NextIsStoreCall
<1> QED
  BY <1>1, <1>2, PTL DEF Spec

\* Whatever calls are made with whatever arguments, the store stays well typed.
THEOREM TypeCorrect == Spec => []TypeOK
<1>1. IInv => TypeOK
  BY DEF IInv
<1> QED
  BY <1>1, InductiveInvariant, PTL

\* The two maps of the repository stay in step: a user never has two
\* applications and is never given another user's.
THEOREM OneApplicationPerUser == Spec => []OwnerIndexed
<1>1. IInv => OwnerIndexed
  BY DEF IInv
<1> QED
  BY <1>1, InductiveInvariant, PTL

-----------------------------------------------------------------------------
(* The store implements KYCLifecycle.                                      *)

\* How a legal transition looks at the granularity of the four statuses.
LEMMA CoarseStep ==
  ASSUME NEW from, NEW to, CanTransition(from, to)
  PROVE  \/ Coarse(to) = Coarse(from)
         \/ Coarse(from) = "pending" /\ Coarse(to) = "review"
         \/ Coarse(from) \in {"pending", "review"} /\ Coarse(to) \in {"pass", "fail"}
         \/ Coarse(from) \in {"pass", "fail"} /\ Coarse(to) = "pending"
BY DEF CanTransition, legalTransitions, Coarse

\* The step puts app, with the given state, in the place of an application.
Rewrites(id, app, state) ==
  /\ apps[id] # NoApp
  /\ app \in Application
  /\ app.user = apps[id].user
  /\ app.state = state
  /\ apps' = [apps EXCEPT ![id] = app]
  /\ UNCHANGED byUser

\* Rewriting one application changes the status of its owner and nobody else.
LEMMA RewriteStatus ==
  ASSUME IInv, NEW id \in AppIds, NEW app, NEW state, Rewrites(id, app, state)
  PROVE  /\ apps[id].user \in Users
         /\ UserStatus[apps[id].user] = Coarse(apps[id].state)
         /\ UserStatus' = [UserStatus EXCEPT ![apps[id].user] = Coarse(state)]
<1> DEFINE owner == apps[id].user
<1> USE DEF IInv, Rewrites
<1>1. owner \in Users /\ byUser[owner] = id
  BY DEF TypeOK, Application, OwnerIndexed
<1>2. UserStatus[owner] = Coarse(apps[id].state)
  BY <1>1 DEF UserStatus, StatusOf, Exists
<1>3. apps'[id] = app /\ app # NoApp
  BY NoAppAssumption DEF TypeOK
<1>4. StatusOf(owner)' = Coarse(state)
  BY <1>1, <1>3 DEF StatusOf, Exists
<1>5. ASSUME NEW v \in Users, v # owner
      PROVE  StatusOf(v)' = StatusOf(v)
  <2>1. byUser[v] # id
    BY <1>5 DEF OwnerIndexed, Exists
  <2>2. byUser[v] \in AppIds => apps'[byUser[v]] = apps[byUser[v]]
    BY <2>1 DEF TypeOK
  <2> QED
    BY <2>2 DEF StatusOf, Exists
<1> QED
  BY <1>1, <1>2, <1>4, <1>5 DEF UserStatus

\* A creation opens a case for its user, whose earlier one was decided.
LEMMA CreateStatus ==
  ASSUME IInv, NEW u \in Users, NEW id \in AppIds, Create(u, id)
  PROVE  Lifecycle!Apply(u)
<1> USE DEF IInv
<1>1. UserStatus[u] \in {"pass", "fail", "none"}
  BY DEF Create, Blocked, UserStatus, StatusOf, Coarse, IsTerminal, TerminalStates
<1>2. apps'[id] = NewApplication(u) /\ byUser'[u] = id
  BY ClearedType DEF Create, TypeOK
<1>3. apps'[id] # NoApp /\ apps'[id].state = "STARTED"
  BY <1>2, NewApplicationType, NoAppAssumption DEF NewApplication
<1>4. StatusOf(u)' = "pending"
  BY <1>2, <1>3 DEF StatusOf, Exists, Coarse
<1>5. ASSUME NEW v \in Users, v # u
      PROVE  StatusOf(v)' = StatusOf(v)
  <2>1. byUser'[v] = byUser[v] /\ byUser[v] # id
    BY <1>5, NoAppAssumption DEF Create, TypeOK, EntriesIssued
  <2>2. Exists(byUser[v]) => byUser[v] # byUser[u]
    BY <1>5 DEF OwnerIndexed, Exists
  <2>3. byUser[v] \in AppIds /\ byUser[v] # byUser[u] => apps'[byUser[v]] = apps[byUser[v]]
    BY <2>1, ClearedType DEF Create, Cleared, TypeOK
  <2>4. byUser[v] \in AppIds /\ byUser[v] = byUser[u] => apps'[byUser[v]] = NoApp
    BY <2>1, ClearedType DEF Create, Cleared, TypeOK
  <2> QED
    BY <2>1, <2>2, <2>3, <2>4 DEF StatusOf, Exists
<1>6. UserStatus' = [UserStatus EXCEPT ![u] = "pending"]
  BY <1>4, <1>5 DEF UserStatus
<1> QED
  BY <1>1, <1>6 DEF Lifecycle!Apply, Lifecycle!Decided

\* A failed creation may forget the decided case of its user, nothing else.
LEMMA CreateRefusedLateStatus ==
  ASSUME IInv, NEW u \in Users, CreateRefusedLate(u)
  PROVE  Lifecycle!Forget(u) \/ UNCHANGED UserStatus
<1> USE DEF IInv
<1>1. ASSUME NEW v \in Users, v # u
      PROVE  StatusOf(v)' = StatusOf(v)
  <2>1. Exists(byUser[v]) => byUser[v] # byUser[u]
    BY <1>1 DEF OwnerIndexed, Exists
  <2>2. byUser[v] \in AppIds /\ byUser[v] # byUser[u] => apps'[byUser[v]] = apps[byUser[v]]
    BY DEF CreateRefusedLate, Cleared, TypeOK
  <2>3. byUser[v] \in AppIds /\ byUser[v] = byUser[u] => apps'[byUser[v]] = NoApp
    BY DEF CreateRefusedLate, Cleared, TypeOK
  <2>4. byUser' = byUser
    BY DEF CreateRefusedLate
  <2> QED
    BY <2>1, <2>2, <2>3, <2>4 DEF StatusOf, Exists
<1>2. StatusOf(u)' = "none"
  BY DEF CreateRefusedLate, Cleared, TypeOK, StatusOf, Exists
<1>3. UserStatus' = [UserStatus EXCEPT ![u] = "none"]
  BY <1>1, <1>2 DEF UserStatus
<1>4. UserStatus[u] \in {"pass", "fail", "none"}
  BY DEF CreateRefusedLate, Blocked, UserStatus, StatusOf, Coarse, IsTerminal, TerminalStates
<1>5. CASE UserStatus[u] = "none"
  BY <1>3, <1>5 DEF UserStatus
<1>6. CASE UserStatus[u] # "none"
  BY <1>3, <1>4, <1>6 DEF Lifecycle!Forget, Lifecycle!Decided
<1> QED
  BY <1>5, <1>6

\* Writing back a user's status is no change.
LEMMA SameStatus ==
  ASSUME NEW u \in Users, UserStatus' = [UserStatus EXCEPT ![u] = UserStatus[u]]
  PROVE  UNCHANGED UserStatus
<1>1. UserStatus = [v \in Users |-> UserStatus[v]]
  BY DEF UserStatus
<1> QED
  BY <1>1

\* Every call of the package is a step of the lifecycle, or leaves it alone.
LEMMA StepSimulation ==
  ASSUME IInv, [StoreCall]_repoVars
  PROVE  [Lifecycle!Next]_UserStatus
<1>1. ASSUME NEW u \in Users, NEW id \in AppIds, Create(u, id)
      PROVE  Lifecycle!Next
  BY <1>1, CreateStatus DEF Lifecycle!Next
<1>2. ASSUME NEW u \in Users, CreateRefusedLate(u)
      PROVE  [Lifecycle!Next]_UserStatus
  BY <1>2, CreateRefusedLateStatus DEF Lifecycle!Next
<1>3. ASSUME NEW id \in AppIds, NEW version \in Nat,
             NEW newState \in States, NEW actor \in Actors,
             UpdateState(id, version, newState, actor)
      PROVE  [Lifecycle!Next]_UserStatus
  <2> DEFINE owner == apps[id].user
             from == Coarse(apps[id].state)
             to == Coarse(newState)
  <2>1. apps[id] \in Application /\ apps[id] # NoApp
    BY <1>3 DEF IInv, TypeOK, UpdateState, UpdateAccepted, Exists
  <2>2. apps' = [apps EXCEPT ![id] = Transitioned(apps[id], newState)]
    BY <1>3 DEF UpdateState
  <2>3. Rewrites(id, Transitioned(apps[id], newState), newState)
    BY <1>3, <2>1, <2>2, TransitionedType DEF UpdateState, Rewrites
  <2>4. /\ owner \in Users
        /\ UserStatus[owner] = from
        /\ UserStatus' = [UserStatus EXCEPT ![owner] = to]
    BY <2>3, RewriteStatus
  <2>5. \/ to = from
        \/ from = "pending" /\ to = "review"
        \/ from \in {"pending", "review"} /\ to \in {"pass", "fail"}
        \/ from \in {"pass", "fail"} /\ to = "pending"
    BY <1>3, CoarseStep DEF UpdateState, UpdateAccepted
  <2> HIDE DEF owner, from, to
  <2>6. CASE to = from
    BY <2>4, <2>6, SameStatus
  <2>7. CASE from = "pending" /\ to = "review"
    BY <2>4, <2>7 DEF Lifecycle!Next, Lifecycle!Refer
  <2>8. CASE from \in {"pending", "review"} /\ to \in {"pass", "fail"}
    BY <2>4, <2>8 DEF Lifecycle!Next, Lifecycle!Decide, Lifecycle!Decided
  <2>9. CASE from \in {"pass", "fail"} /\ to = "pending"
    BY <2>4, <2>9 DEF Lifecycle!Next, Lifecycle!Apply, Lifecycle!Decided
  <2> QED
    BY <2>5, <2>6, <2>7, <2>8, <2>9
<1>4. ASSUME NEW id \in AppIds, NEW version \in Nat,
             NEW actor \in Actors, Reopen(id, version, actor)
      PROVE  [Lifecycle!Next]_UserStatus
  <2>1. apps[id] \in Application /\ apps[id] # NoApp
    BY <1>4 DEF IInv, TypeOK, Reopen, ReopenAccepted, Exists
  <2>2. apps' = [apps EXCEPT ![id] = Reopened(apps[id])]
    BY <1>4 DEF Reopen
  <2>3. Rewrites(id, Reopened(apps[id]), "STARTED")
    BY <1>4, <2>1, <2>2, ReopenedType DEF Reopen, Rewrites
  <2>4. /\ apps[id].user \in Users
        /\ UserStatus[apps[id].user] = Coarse(apps[id].state)
        /\ UserStatus' = [UserStatus EXCEPT ![apps[id].user] = Coarse("STARTED")]
    BY <2>3, RewriteStatus
  <2>5. Coarse(apps[id].state) \in {"pass", "fail"} /\ Coarse("STARTED") = "pending"
    BY <1>4 DEF Reopen, ReopenAccepted, IsTerminal, TerminalStates, Coarse
  <2> QED
    BY <2>4, <2>5 DEF Lifecycle!Next, Lifecycle!Apply, Lifecycle!Decided
<1>5. ASSUME NEW id \in AppIds, SetVendorApplicantID(id)
      PROVE  UNCHANGED UserStatus
  <2>1. apps[id] \in Application /\ apps[id] # NoApp
    BY <1>5 DEF IInv, TypeOK, SetVendorApplicantID, Exists
  <2>2. apps' = [apps EXCEPT ![id] = Registered(apps[id])]
    BY <1>5 DEF SetVendorApplicantID
  <2>3. Rewrites(id, Registered(apps[id]), apps[id].state)
    BY <1>5, <2>1, <2>2, RegisteredType DEF SetVendorApplicantID, Rewrites
  <2>4. /\ apps[id].user \in Users
        /\ UserStatus[apps[id].user] = Coarse(apps[id].state)
        /\ UserStatus' = [UserStatus EXCEPT ![apps[id].user] = Coarse(apps[id].state)]
    BY <2>3, RewriteStatus
  <2> QED
    BY <2>4, SameStatus
<1>6. ASSUME NEW id \in AppIds, Elapse(id)
      PROVE  UNCHANGED UserStatus
  <2> DEFINE app == [apps[id] EXCEPT !.reKYCDue = "past"]
  <2>1. apps[id] \in Application /\ apps[id] # NoApp
    BY <1>6 DEF IInv, TypeOK, Elapse, Exists
  <2>2. app \in Application /\ app.user = apps[id].user /\ app.state = apps[id].state
    BY <2>1 DEF Application
  <2>3. apps' = [apps EXCEPT ![id] = app]
    BY <1>6 DEF Elapse
  <2>4. Rewrites(id, app, apps[id].state)
    BY <1>6, <2>1, <2>2, <2>3 DEF Elapse, Rewrites
  <2> HIDE DEF app
  <2>5. /\ apps[id].user \in Users
        /\ UserStatus[apps[id].user] = Coarse(apps[id].state)
        /\ UserStatus' = [UserStatus EXCEPT ![apps[id].user] = Coarse(apps[id].state)]
    BY <2>4, RewriteStatus
  <2> QED
    BY <2>5, SameStatus
<1>7. CASE UNCHANGED repoVars
  BY <1>7 DEF repoVars, UserStatus, StatusOf, Exists
<1> QED
  BY <1>1, <1>2, <1>3, <1>4, <1>5, <1>6, <1>7 DEF StoreCall

\* The package implements the lifecycle the service promises each user: one
\* case at a time, referred, decided, re-opened or replaced only as
\* KYCLifecycle allows.
THEOREM Refinement == Spec => ImplementsLifecycle
<1>1. Init => Lifecycle!Init
  BY NoAppAssumption
     DEF Init, Lifecycle!Init, UserStatus, StatusOf, Exists
<1>2. IInv /\ [Next]_repoVars => [Lifecycle!Next]_UserStatus
  BY StepSimulation, NextIsStoreCall
<1> QED
  BY <1>1, <1>2, InductiveInvariant, PTL DEF Spec, ImplementsLifecycle, Lifecycle!Spec

-----------------------------------------------------------------------------
(* Due dates.                                                              *)

\* A decided application has a due date.
Scheduled(app) == IsTerminal(app.state) => app.reKYCDue # "unset"

\* Each way of rewriting an application keeps decisions scheduled.
LEMMA RewriteScheduled ==
  ASSUME NEW app \in Application
  PROVE  /\ \A newState \in States : Scheduled(Transitioned(app, newState))
         /\ Scheduled(Reopened(app))
         /\ Scheduled(app) => Scheduled(Registered(app))
<1>1. ASSUME NEW newState \in States
      PROVE  Scheduled(Transitioned(app, newState))
  <2>1. Transitioned(app, newState).state = newState
    BY TransitionedType
  <2>2. IsTerminal(newState) => Transitioned(app, newState).reKYCDue = "future"
    BY DEF Application, Transitioned
  <2> QED
    BY <2>1, <2>2 DEF Scheduled
<1>2. Reopened(app).state = "STARTED"
  BY ReopenedType
<1>3. /\ Registered(app).state = app.state
      /\ Registered(app).reKYCDue = app.reKYCDue
  BY DEF Application, Registered
<1> QED
  BY <1>1, <1>2, <1>3 DEF Scheduled, IsTerminal, TerminalStates

\* A write of a scheduled application leaves all of them scheduled.
LEMMA OneScheduledMore ==
  ASSUME TypeOK, DecidedIsScheduled, NEW id \in AppIds, NEW app, Scheduled(app),
         apps' = [apps EXCEPT ![id] = app]
  PROVE  DecidedIsScheduled'
BY DEF DecidedIsScheduled, Scheduled, TypeOK

\* Every call of the package keeps decisions scheduled.
LEMMA ScheduledStep ==
  ASSUME IInv, DecidedIsScheduled, [StoreCall]_repoVars
  PROVE  DecidedIsScheduled'
<1> USE DEF IInv
<1>1. ASSUME NEW u \in Users, NEW id \in AppIds, Create(u, id)
      PROVE  DecidedIsScheduled'
  <2>1. \A a \in AppIds : Cleared(u)[a] # NoApp => Cleared(u)[a] = apps[a]
    BY DEF Cleared, TypeOK
  <2>2. ~IsTerminal(NewApplication(u).state)
    BY DEF NewApplication, IsTerminal, TerminalStates
  <2>3. \A a \in AppIds : apps'[a] = IF a = id THEN NewApplication(u) ELSE Cleared(u)[a]
    BY <1>1, ClearedType DEF Create
  <2> QED
    BY <2>1, <2>2, <2>3 DEF DecidedIsScheduled
<1>2. ASSUME NEW u \in Users, CreateRefusedLate(u)
      PROVE  DecidedIsScheduled'
  BY <1>2 DEF CreateRefusedLate, Cleared, DecidedIsScheduled, TypeOK
<1>3. ASSUME NEW id \in AppIds, NEW version \in Nat,
             NEW newState \in States, NEW actor \in Actors,
             UpdateState(id, version, newState, actor)
      PROVE  DecidedIsScheduled'
  <2>1. apps[id] \in Application
    BY <1>3 DEF TypeOK, UpdateState, UpdateAccepted, Exists
  <2>2. Scheduled(Transitioned(apps[id], newState))
    BY <2>1, RewriteScheduled
  <2> QED
    BY <1>3, <2>2, OneScheduledMore DEF UpdateState
<1>4. ASSUME NEW id \in AppIds, NEW version \in Nat,
             NEW actor \in Actors, Reopen(id, version, actor)
      PROVE  DecidedIsScheduled'
  <2>1. apps[id] \in Application
    BY <1>4 DEF TypeOK, Reopen, ReopenAccepted, Exists
  <2>2. Scheduled(Reopened(apps[id]))
    BY <2>1, RewriteScheduled
  <2> QED
    BY <1>4, <2>2, OneScheduledMore DEF Reopen
<1>5. ASSUME NEW id \in AppIds, SetVendorApplicantID(id)
      PROVE  DecidedIsScheduled'
  <2>1. apps[id] \in Application /\ Scheduled(apps[id])
    BY <1>5 DEF TypeOK, SetVendorApplicantID, Exists, DecidedIsScheduled, Scheduled
  <2>2. Scheduled(Registered(apps[id]))
    BY <2>1, RewriteScheduled
  <2> QED
    BY <1>5, <2>2, OneScheduledMore DEF SetVendorApplicantID
<1>6. ASSUME NEW id \in AppIds, Elapse(id)
      PROVE  DecidedIsScheduled'
  <2> DEFINE app == [apps[id] EXCEPT !.reKYCDue = "past"]
  <2>1. apps[id] \in Application
    BY <1>6 DEF TypeOK, Elapse, Exists
  <2>2. app.reKYCDue = "past"
    BY <2>1 DEF Application
  <2>3. Scheduled(app)
    BY <2>2 DEF Scheduled
  <2>4. apps' = [apps EXCEPT ![id] = app]
    BY <1>6 DEF Elapse
  <2> HIDE DEF app
  <2> QED
    BY <2>3, <2>4, OneScheduledMore
<1>7. CASE UNCHANGED repoVars
  BY <1>7 DEF repoVars, DecidedIsScheduled
<1> QED
  BY <1>1, <1>2, <1>3, <1>4, <1>5, <1>6, <1>7 DEF StoreCall

\* No sequence of decisions, re-openings and vendor registrations puts a
\* decided application out of ListDueForReKYC's sight.
THEOREM DecisionsStayScheduled == Spec => []DecidedIsScheduled
<1>1. Init => DecidedIsScheduled
  BY DEF Init, DecidedIsScheduled
<1>2. IInv /\ DecidedIsScheduled /\ [Next]_repoVars => DecidedIsScheduled'
  BY ScheduledStep, NextIsStoreCall
<1> QED
  BY <1>1, <1>2, InductiveInvariant, PTL DEF Spec

-----------------------------------------------------------------------------
(* Versions.                                                               *)

\* A write to app either bumps its version or changes its due date only.
Versioned(app, new) ==
  \/ new.version = app.version + 1
  \/ new = [app EXCEPT !.reKYCDue = new.reKYCDue]

\* Each way of rewriting an application is versioned.
LEMMA RewriteVersioned ==
  ASSUME NEW app \in Application
  PROVE  /\ \A newState \in States : Versioned(app, Transitioned(app, newState))
         /\ Versioned(app, Reopened(app))
         /\ Versioned(app, Registered(app))
         /\ Versioned(app, [app EXCEPT !.reKYCDue = "past"])
         /\ Versioned(app, app)
<1>1. \A newState \in States : Transitioned(app, newState).version = app.version + 1
  BY DEF Application, Transitioned
<1>2. Reopened(app).version = app.version + 1 /\ Registered(app).version = app.version + 1
  BY DEF Application, Reopened, Registered
<1>3. [app EXCEPT !.reKYCDue = "past"].reKYCDue = "past"
  BY DEF Application
<1>4. app = [app EXCEPT !.reKYCDue = app.reKYCDue]
  BY DEF Application
<1> QED
  BY <1>1, <1>2, <1>3, <1>4 DEF Versioned

\* The promise of VersionNamesContent for one step.
VersionedStep ==
  \A a \in AppIds :
    (apps[a] # NoApp /\ apps'[a] # NoApp) => Versioned(apps[a], apps'[a])

\* A versioned write of one application is a versioned step.
LEMMA OneVersioned ==
  ASSUME TypeOK, NEW id \in AppIds, NEW app,
         Versioned(apps[id], app),
         apps' = [apps EXCEPT ![id] = app]
  PROVE  VersionedStep
<1>1. SUFFICES ASSUME NEW a \in AppIds, apps[a] # NoApp, apps'[a] # NoApp
               PROVE  Versioned(apps[a], apps'[a])
  BY DEF VersionedStep
<1>2. CASE a = id
  BY <1>2 DEF TypeOK
<1>3. CASE a # id
  <2>1. apps'[a] = apps[a] /\ apps[a] \in Application
    BY <1>1, <1>3 DEF TypeOK
  <2> QED
    BY <2>1, RewriteVersioned
<1> QED
  BY <1>2, <1>3

\* A step that only drops applications, or adds one under a fresh id, is too.
LEMMA OnlyFreshOrGone ==
  ASSUME TypeOK,
         \A a \in AppIds : apps[a] = NoApp \/ apps'[a] = NoApp \/ apps'[a] = apps[a]
  PROVE  VersionedStep
<1>1. SUFFICES ASSUME NEW a \in AppIds, apps[a] # NoApp, apps'[a] # NoApp
               PROVE  Versioned(apps[a], apps'[a])
  BY DEF VersionedStep
<1>2. apps'[a] = apps[a] /\ apps[a] \in Application
  BY <1>1 DEF TypeOK
<1> QED
  BY <1>2, RewriteVersioned

\* Every call of the package is versioned.
LEMMA NextVersioned ==
  ASSUME IInv, [StoreCall]_repoVars
  PROVE  VersionedStep
<1> USE DEF IInv
<1>1. ASSUME NEW u \in Users, NEW id \in AppIds, Create(u, id)
      PROVE  VersionedStep
  <2>1. apps[id] = NoApp
    BY <1>1 DEF Create, EntriesIssued
  <2>2. \A a \in AppIds : Cleared(u)[a] = NoApp \/ Cleared(u)[a] = apps[a]
    BY DEF Cleared, TypeOK
  <2>3. \A a \in AppIds \ {id} : apps'[a] = Cleared(u)[a]
    BY <1>1, ClearedType DEF Create
  <2> QED
    BY <2>1, <2>2, <2>3, OnlyFreshOrGone
<1>2. ASSUME NEW u \in Users, CreateRefusedLate(u)
      PROVE  VersionedStep
  <2>1. \A a \in AppIds : apps'[a] = NoApp \/ apps'[a] = apps[a]
    BY <1>2 DEF CreateRefusedLate, Cleared, TypeOK
  <2> QED
    BY <2>1, OnlyFreshOrGone
<1>3. ASSUME NEW id \in AppIds, NEW version \in Nat,
             NEW newState \in States, NEW actor \in Actors,
             UpdateState(id, version, newState, actor)
      PROVE  VersionedStep
  <2>1. apps[id] \in Application
    BY <1>3 DEF TypeOK, UpdateState, UpdateAccepted, Exists
  <2>2. Versioned(apps[id], Transitioned(apps[id], newState))
    BY <2>1, RewriteVersioned
  <2> QED
    BY <1>3, <2>2, OneVersioned DEF UpdateState
<1>4. ASSUME NEW id \in AppIds, NEW version \in Nat,
             NEW actor \in Actors, Reopen(id, version, actor)
      PROVE  VersionedStep
  <2>1. apps[id] \in Application
    BY <1>4 DEF TypeOK, Reopen, ReopenAccepted, Exists
  <2>2. Versioned(apps[id], Reopened(apps[id]))
    BY <2>1, RewriteVersioned
  <2> QED
    BY <1>4, <2>2, OneVersioned DEF Reopen
<1>5. ASSUME NEW id \in AppIds, SetVendorApplicantID(id)
      PROVE  VersionedStep
  <2>1. apps[id] \in Application
    BY <1>5 DEF TypeOK, SetVendorApplicantID, Exists
  <2>2. Versioned(apps[id], Registered(apps[id]))
    BY <2>1, RewriteVersioned
  <2> QED
    BY <1>5, <2>2, OneVersioned DEF SetVendorApplicantID
<1>6. ASSUME NEW id \in AppIds, Elapse(id)
      PROVE  VersionedStep
  <2> DEFINE app == [apps[id] EXCEPT !.reKYCDue = "past"]
  <2>1. apps[id] \in Application
    BY <1>6 DEF TypeOK, Elapse, Exists
  <2>2. Versioned(apps[id], app)
    BY <2>1, RewriteVersioned
  <2>3. apps' = [apps EXCEPT ![id] = app]
    BY <1>6 DEF Elapse
  <2> HIDE DEF app
  <2> QED
    BY <2>2, <2>3, OneVersioned
<1>7. CASE UNCHANGED repoVars
  BY <1>7, OnlyFreshOrGone DEF repoVars
<1> QED
  BY <1>1, <1>2, <1>3, <1>4, <1>5, <1>6, <1>7 DEF StoreCall

\* The version a caller holds names the content it read: no method changes an
\* application's state or vendor id and leaves its version.
THEOREM VersionsNameContents == Spec => VersionNamesContent
<1>1. IInv /\ [Next]_repoVars =>
        \A a \in AppIds :
          (apps[a] # NoApp /\ apps'[a] # NoApp) =>
            \/ apps'[a].version = apps[a].version + 1
            \/ apps'[a] = [apps[a] EXCEPT !.reKYCDue = apps'[a].reKYCDue]
  BY NextVersioned, NextIsStoreCall DEF VersionedStep, Versioned
<1> QED
  BY <1>1, InductiveInvariant, PTL DEF Spec, VersionNamesContent

-----------------------------------------------------------------------------
(* The trail.                                                              *)

\* The entries lead from STARTED to the given state, each from the last.
Replays(entries, state) ==
  /\ state = IF entries = <<>> THEN "STARTED" ELSE entries[Len(entries)].to
  /\ entries # <<>> => entries[1].from = "STARTED"
  /\ \A i \in 1 .. Len(entries) : CanTransition(entries[i].from, entries[i].to)
  /\ \A i \in 1 .. Len(entries) - 1 : entries[i + 1].from = entries[i].to

\* An id not handed out yet has no trail: TrailReplays is not inductive
\* without it, since a new application starts at STARTED.
FreshTrail == \A a \in AppIds : a \notin issued => trail[a] = <<>>

TrailInv == FreshTrail /\ TrailReplays

\* A legal transition out of the state reached extends the trail to its target.
LEMMA AppendReplays ==
  ASSUME NEW entries \in Seq(Transition), NEW e \in Transition,
         Replays(entries, e.from), CanTransition(e.from, e.to)
  PROVE  Replays(Append(entries, e), e.to)
<1> DEFINE n == Len(entries)
           more == Append(entries, e)
<1>1. n \in Nat /\ (entries = <<>> <=> n = 0)
  OBVIOUS
<1>2. Len(more) = n + 1 /\ more[n + 1] = e /\ more # <<>>
  OBVIOUS
<1>3. \A i \in 1 .. n : more[i] = entries[i]
  OBVIOUS
<1> HIDE DEF n, more
<1>4. /\ e.from = IF n = 0 THEN "STARTED" ELSE entries[n].to
      /\ n # 0 => entries[1].from = "STARTED"
      /\ \A i \in 1 .. n : CanTransition(entries[i].from, entries[i].to)
      /\ \A i \in 1 .. n - 1 : entries[i + 1].from = entries[i].to
  BY <1>1 DEF Replays, n
<1>5. more[1].from = "STARTED"
  BY <1>1, <1>2, <1>3, <1>4
<1>6. \A i \in 1 .. n + 1 : CanTransition(more[i].from, more[i].to)
  BY <1>1, <1>2, <1>3, <1>4
<1>7. \A i \in 1 .. n : more[i + 1].from = more[i].to
  BY <1>1, <1>2, <1>3, <1>4
<1>8. \A i \in 1 .. (n + 1) - 1 : more[i + 1].from = more[i].to
  BY <1>1, <1>7
<1> QED
  BY <1>2, <1>5, <1>6, <1>8 DEF Replays, more

\* A transition that is stored and handed to the sink in one step.
LEMMA RecordReplays ==
  ASSUME IInv, TrailInv, NEW id \in AppIds, apps[id] # NoApp,
         NEW app, NEW newState \in States, app.state = newState,
         NEW actor \in Actors, CanTransition(apps[id].state, newState),
         apps' = [apps EXCEPT ![id] = app],
         RecordTransition(id, newState, actor), UNCHANGED issued
  PROVE  TrailInv'
<1> USE DEF IInv, TrailInv
<1> DEFINE e == [from |-> apps[id].state, to |-> newState, by |-> actor]
<1>1. trail[id] \in Seq(Transition) /\ e \in Transition
  BY DEF TypeOK, Application, Transition
<1>2. Replays(trail[id], e.from)
  BY DEF TrailReplays, Replays
<1>3. Replays(Append(trail[id], e), newState)
  BY <1>1, <1>2, AppendReplays
<1>4. trail' = [trail EXCEPT ![id] = Append(trail[id], e)]
  BY DEF RecordTransition
<1>5. id \in issued
  BY DEF EntriesIssued
<1> HIDE DEF e
<1>6. FreshTrail'
  BY <1>4, <1>5 DEF FreshTrail, TypeOK
<1>7. ASSUME NEW a \in AppIds, apps'[a] # NoApp
      PROVE  Replays(trail'[a], apps'[a].state)
  <2>1. CASE a = id
    BY <1>3, <1>4, <2>1 DEF TypeOK
  <2>2. CASE a # id
    <3>1. apps'[a] = apps[a] /\ trail'[a] = trail[a]
      BY <1>4, <2>2 DEF TypeOK
    <3> QED
      BY <1>7, <3>1 DEF TrailReplays, Replays
  <2> QED
    BY <2>1, <2>2
<1> QED
  BY <1>6, <1>7 DEF TrailReplays, Replays

\* A step that records nothing and changes no state of an application but
\* those it drops or creates under a fresh id.
LEMMA QuietReplays ==
  ASSUME TrailInv, UNCHANGED trail, issued \subseteq issued',
         \A a \in AppIds : apps'[a] # NoApp =>
           \/ apps[a] # NoApp /\ apps'[a].state = apps[a].state
           \/ a \notin issued /\ apps'[a].state = "STARTED"
  PROVE  TrailInv'
<1>1. FreshTrail'
  BY DEF TrailInv, FreshTrail
<1>2. ASSUME NEW a \in AppIds, apps'[a] # NoApp
      PROVE  Replays(trail[a], apps'[a].state)
  <2>1. CASE apps[a] # NoApp /\ apps'[a].state = apps[a].state
    BY <2>1 DEF TrailInv, TrailReplays, Replays
  <2>2. CASE a \notin issued /\ apps'[a].state = "STARTED"
    BY <2>2 DEF TrailInv, FreshTrail, Replays
  <2> QED
    BY <1>2, <2>1, <2>2
<1> QED
  BY <1>1, <1>2 DEF TrailInv, TrailReplays, Replays

\* Every call of the package keeps the trail in step with the store.
LEMMA NextReplays ==
  ASSUME IInv, TrailInv, [StoreCall]_repoVars
  PROVE  TrailInv'
<1> USE DEF IInv
<1>1. ASSUME NEW u \in Users, NEW id \in AppIds, Create(u, id)
      PROVE  TrailInv'
  <2>1. \A a \in AppIds : Cleared(u)[a] # NoApp => Cleared(u)[a] = apps[a]
    BY DEF Cleared, TypeOK
  <2>2. \A a \in AppIds : apps'[a] = IF a = id THEN NewApplication(u) ELSE Cleared(u)[a]
    BY <1>1, ClearedType DEF Create
  <2>3. id \notin issued /\ NewApplication(u).state = "STARTED"
    BY <1>1 DEF Create, NewApplication
  <2>4. UNCHANGED trail /\ issued \subseteq issued'
    BY <1>1 DEF Create
  <2> QED
    BY <2>1, <2>2, <2>3, <2>4, QuietReplays
<1>2. ASSUME NEW u \in Users, CreateRefusedLate(u)
      PROVE  TrailInv'
  <2>1. \A a \in AppIds : apps'[a] # NoApp => apps'[a] = apps[a]
    BY <1>2 DEF CreateRefusedLate, Cleared, TypeOK
  <2> QED
    BY <1>2, <2>1, QuietReplays DEF CreateRefusedLate
<1>3. ASSUME NEW id \in AppIds, NEW version \in Nat,
             NEW newState \in States, NEW actor \in Actors,
             UpdateState(id, version, newState, actor)
      PROVE  TrailInv'
  <2>1. apps[id] \in Application /\ apps[id] # NoApp
    BY <1>3 DEF TypeOK, UpdateState, UpdateAccepted, Exists
  <2>2. Transitioned(apps[id], newState).state = newState
    BY <2>1, TransitionedType
  <2>3. apps' = [apps EXCEPT ![id] = Transitioned(apps[id], newState)]
    BY <1>3 DEF UpdateState
  <2>4. /\ CanTransition(apps[id].state, newState)
        /\ RecordTransition(id, newState, actor)
        /\ UNCHANGED issued
    BY <1>3 DEF UpdateState, UpdateAccepted
  <2> QED
    BY <2>1, <2>2, <2>3, <2>4, RecordReplays
<1>4. ASSUME NEW id \in AppIds, NEW version \in Nat,
             NEW actor \in Actors, Reopen(id, version, actor)
      PROVE  TrailInv'
  <2>1. apps[id] \in Application /\ apps[id] # NoApp
    BY <1>4 DEF TypeOK, Reopen, ReopenAccepted, Exists
  <2>2. Reopened(apps[id]).state = "STARTED" /\ "STARTED" \in States
    BY <2>1, ReopenedType DEF States
  <2>3. CanTransition(apps[id].state, "STARTED")
    BY <1>4 DEF Reopen, ReopenAccepted, IsTerminal, TerminalStates,
                CanTransition, legalTransitions
  <2>4. apps' = [apps EXCEPT ![id] = Reopened(apps[id])]
    BY <1>4 DEF Reopen
  <2>5. RecordTransition(id, "STARTED", actor) /\ UNCHANGED issued
    BY <1>4 DEF Reopen
  <2> QED
    BY <2>1, <2>2, <2>3, <2>4, <2>5, RecordReplays
<1>5. ASSUME NEW id \in AppIds, SetVendorApplicantID(id)
      PROVE  TrailInv'
  <2>1. apps[id] \in Application /\ apps[id] # NoApp
    BY <1>5 DEF TypeOK, SetVendorApplicantID, Exists
  <2>2. Registered(apps[id]).state = apps[id].state
    BY <2>1, RegisteredType
  <2>3. \A a \in AppIds : apps'[a] = IF a = id THEN Registered(apps[id]) ELSE apps[a]
    BY <1>5 DEF SetVendorApplicantID, TypeOK
  <2> QED
    BY <1>5, <2>1, <2>2, <2>3, QuietReplays DEF SetVendorApplicantID
<1>6. ASSUME NEW id \in AppIds, Elapse(id)
      PROVE  TrailInv'
  <2> DEFINE app == [apps[id] EXCEPT !.reKYCDue = "past"]
  <2>1. apps[id] \in Application /\ apps[id] # NoApp
    BY <1>6 DEF TypeOK, Elapse, Exists
  <2>2. app.state = apps[id].state
    BY <2>1 DEF Application
  <2>3. \A a \in AppIds : apps'[a] = IF a = id THEN app ELSE apps[a]
    BY <1>6 DEF Elapse, TypeOK
  <2> HIDE DEF app
  <2> QED
    BY <1>6, <2>1, <2>2, <2>3, QuietReplays DEF Elapse
<1>7. CASE UNCHANGED repoVars
  BY <1>7 DEF repoVars, TrailInv, FreshTrail, TrailReplays
<1> QED
  BY <1>1, <1>2, <1>3, <1>4, <1>5, <1>6, <1>7 DEF StoreCall

\* What the sink was told replays to what the repository stores, however many
\* decisions and re-openings an application has been through.
THEOREM SinkSeesTheStore == Spec => []TrailReplays
<1>1. Init => TrailInv
  BY DEF Init, TrailInv, FreshTrail, TrailReplays
<1>2. IInv /\ TrailInv /\ [Next]_repoVars => TrailInv'
  BY NextReplays, NextIsStoreCall
<1>3. TrailInv => TrailReplays
  BY DEF TrailInv
<1> QED
  BY <1>1, <1>2, <1>3, InductiveInvariant, PTL DEF Spec
=============================================================================
