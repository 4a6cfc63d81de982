-------------------------- MODULE KYCService_proofs --------------------------
(***************************************************************************)
(* Theorems about the service as a whole, for any number of requests,      *)
(* deliveries and scheduler passes that interleave over the one store.     *)
(*                                                                         *)
(* SnapshotsCurrentOrRefused relates every copy taken earlier to the store *)
(* as it is now.  Its inductive form is SlotsInv and TickInv, with ReadInv *)
(* of the webhook service for the deliveries: copies are of applications   *)
(* that were issued, so that no later creation can be mistaken for them.   *)
(* What a step may do to the store is StoreMoves, whoever takes it.        *)
(*                                                                         *)
(* ProgressNeedsDocuments is proved on top of that, from who may still     *)
(* take an application out of STARTED (DocsInv).                           *)
(*                                                                         *)
(* WinnersAnnounceOnce and LivenessAuditAccounted compare the audit log    *)
(* with the trail: two accounts that every step of a request, a delivery   *)
(* or a scheduler pass keeps balanced, what is on its way included         *)
(* (AuditInv).  A restart empties the log, and ends the comparison.        *)
(*                                                                         *)
(* Three more properties say that something was left undone only because a *)
(* guarded update was refused.  Between what a request did and its update  *)
(* it owes the update (Owes), and each of its steps accounts for that      *)
(* (Accounted); StuckInv and CoverInv say what may then be owed or refused *)
(* (StuckByConflictOnly, BlockedPassRefused, UnreviewedPassAccounted).     *)
(* What the store promises by itself holds of the service because every    *)
(* step of the service is at most one call of it (ServiceCalls).           *)
(***************************************************************************)
EXTENDS KYCService, WebhookService_proofs

Pcs ==
  {"idle", "register", "store", "check", "challenge", "screen", "store_hits",
   "dispose", "advance", "reopen", "announce"}

Request ==
  [kind : Kinds \union {"none"}, pc : Pcs,
   app : AppIds \union {NoApp}, version : Nat, state : States \union {""},
   arg : DocTypes \union Dispositions \union {""}, left : 0 .. MaxHits,
   to : States \union {""}]

Due == [id : AppIds, version : Nat]

RequestsOK == request \in [Slots -> Request]

\* The version of a request's copy is not ahead of the application's, and
\* names the state of the copy.
SlotsInv ==
  \A h \in Slots : request[h].app \in AppIds =>
    LET a == request[h].app IN
    /\ a \in issued
    /\ apps[a] # NoApp =>
         /\ request[h].version <= apps[a].version
         /\ request[h].version = apps[a].version => apps[a].state = request[h].state

\* The same of what a scheduler pass has left to do: it was decided.
TickInv ==
  /\ tick \in [due : SUBSET Due, announce : AppIds \union {NoApp}]
  /\ \A d \in tick.due :
       /\ d.id \in issued
       /\ apps[d.id] # NoApp =>
            /\ d.version <= apps[d.id].version
            /\ d.version = apps[d.id].version => IsTerminal(apps[d.id].state)

ServiceInv == HookInv /\ RequestsOK /\ SlotsInv /\ TickInv

-----------------------------------------------------------------------------
(* The store under the handlers.                                           *)

\* What a write of a handler, the scheduler or the clock does to the store.
HandlerWrite ==
  IInv' /\ StoreMoves /\ \A key \in Keys : AdvancesBy(key)' = AdvancesBy(key)

\* A step that does not write.
LEMMA NoWrite ==
  ASSUME HookInv, UNCHANGED repoVars
  PROVE  HandlerWrite
BY SameStore, SameMoves, SameTrail DEF HandlerWrite, HookInv, repoVars

\* A creation.
LEMMA CreateWrite ==
  ASSUME HookInv, NEW u \in Users, NEW a \in AppIds, Create(u, a)
  PROVE  HandlerWrite
<1>1. UNCHANGED trail
  BY DEF Create
<1> QED
  BY <1>1, SameTrail, CreatePreserves, CreateMoves DEF HandlerWrite, HookInv

\* The registration of an applicant.
LEMMA RegisterWrite ==
  ASSUME HookInv, NEW a \in AppIds, SetVendorApplicantID(a)
  PROVE  HandlerWrite
<1>1. UNCHANGED trail
  BY DEF SetVendorApplicantID
<1> QED
  BY <1>1, SameTrail, RegisterPreserves, RegisterMoves DEF HandlerWrite, HookInv

\* A guarded update for a handler.
LEMMA UpdateWrite ==
  ASSUME HookInv, NEW a \in AppIds, NEW version, NEW to, NEW actor \in HandlerActors,
         UpdateState(a, version, to, actor)
  PROVE  HandlerWrite
<1>1. actor \in Actors /\ actor \notin Keys
  BY HandlersAssumption
<1>2. to \in States
  BY DEF UpdateState, UpdateAccepted, CanTransition, legalTransitions, States
<1>3. \A key \in Keys : AdvancesBy(key)' = AdvancesBy(key)
  BY <1>1, OneMoreEntry DEF UpdateState, HookInv
<1> QED
  BY <1>1, <1>2, <1>3, UpdatePreserves, UpdateMoves DEF HandlerWrite, HookInv

\* A re-opening for a handler or the scheduler.
LEMMA ReopenWrite ==
  ASSUME HookInv, NEW a \in AppIds, NEW version, NEW actor \in HandlerActors,
         Reopen(a, version, actor)
  PROVE  HandlerWrite
<1>1. actor \in Actors /\ actor \notin Keys
  BY HandlersAssumption
<1>2. \A key \in Keys : AdvancesBy(key)' = AdvancesBy(key)
  BY <1>1, OneMoreEntry DEF Reopen, HookInv
<1> QED
  BY <1>1, <1>2, ReopenPreserves, ReopenMoves DEF HandlerWrite, HookInv

\* The year after a decision, which changes neither version nor state.
LEMMA ElapseWrite ==
  ASSUME HookInv, NEW a \in AppIds, Elapse(a)
  PROVE  HandlerWrite
<1> DEFINE app == [apps[a] EXCEPT !.reKYCDue = "past"]
<1>1. /\ apps[a] \in Application /\ apps[a] # NoApp
      /\ apps' = [apps EXCEPT ![a] = app] /\ UNCHANGED <<byUser, trail, issued>>
  BY DEF Elapse, Exists, HookInv, IInv, TypeOK
<1>2. app \in Application
  BY <1>1, Zenon DEF Application
<1>3. app.user = apps[a].user /\ app.version = apps[a].version /\ app.state = apps[a].state
  BY <1>1 DEF Application
<1> HIDE DEF app
<1>4. IInv'
  <2>1. trail' \in [AppIds -> Seq(Transition)]
    BY <1>1 DEF HookInv, IInv, TypeOK
  <2> QED
    BY <1>1, <1>2, <1>3, <2>1, RewritePreserves DEF HookInv
<1>5. StoreMoves
  BY <1>1, <1>3 DEF StoreMoves, HookInv, IInv, TypeOK
<1> QED
  BY <1>1, <1>4, <1>5, SameTrail DEF HandlerWrite

-----------------------------------------------------------------------------
(* The requests.                                                           *)

\* A request keeps its copy, or lets go of it, or has just taken one.
SlotMoves ==
  \A h \in Slots :
    \/ /\ request'[h].app = request[h].app
       /\ request'[h].version = request[h].version /\ request'[h].state = request[h].state
    \/ request'[h].app \notin AppIds
    \/ LET a == request'[h].app IN
       a \in issued' /\ request'[h].version = apps'[a].version
                     /\ request'[h].state = apps'[a].state

\* Then all copies still name what they are copies of.
LEMMA SlotsAfter ==
  ASSUME HookInv, RequestsOK, SlotsInv, IInv', StoreMoves, SlotMoves
  PROVE  SlotsInv'
<1> SUFFICES ASSUME NEW h \in Slots, request'[h].app \in AppIds
             PROVE  LET a == request'[h].app IN
                    /\ a \in issued'
                    /\ apps'[a] # NoApp =>
                         /\ request'[h].version <= apps'[a].version
                         /\ request'[h].version = apps'[a].version
                              => apps'[a].state = request'[h].state
  BY DEF SlotsInv
<1>1. PICK a \in AppIds : a = request'[h].app
  OBVIOUS
<1>2. apps'[a] # NoApp => apps'[a].version \in Nat
  BY DEF IInv, TypeOK, Application
<1>3. CASE /\ request[h].app = a
           /\ request'[h].version = request[h].version /\ request'[h].state = request[h].state
  <2>1. /\ a \in issued
        /\ apps[a] # NoApp =>
             /\ request[h].version <= apps[a].version
             /\ request[h].version = apps[a].version => apps[a].state = request[h].state
    BY <1>3 DEF SlotsInv
  <2>2. request[h].version \in Nat /\ (apps[a] # NoApp => apps[a].version \in Nat)
    BY DEF RequestsOK, Request, HookInv, IInv, TypeOK, Application
  <2>3. a \in issued' /\ (apps'[a] # NoApp =>
                           /\ apps[a] # NoApp
                           /\ \/ /\ apps'[a].version = apps[a].version
                                 /\ apps'[a].state = apps[a].state
                              \/ apps'[a].version = apps[a].version + 1)
    BY <2>1 DEF StoreMoves
  <2> QED
    BY <1>1, <1>3, <2>1, <2>2, <2>3
<1>4. CASE a \in issued' /\ request'[h].version = apps'[a].version
                         /\ request'[h].state = apps'[a].state
  BY <1>1, <1>2, <1>4
<1> QED
  BY <1>1, <1>3, <1>4 DEF SlotMoves

\* One request changes, as such a move.
LEMMA OneSlotMoves ==
  ASSUME RequestsOK, NEW h \in Slots, NEW r \in Request, request' = [request EXCEPT ![h] = r],
         \/ /\ r.app = request[h].app
            /\ r.version = request[h].version /\ r.state = request[h].state
         \/ r.app \notin AppIds
         \/ /\ r.app \in issued'
            /\ r.version = apps'[r.app].version /\ r.state = apps'[r.app].state
  PROVE  RequestsOK' /\ SlotMoves
<1>1. request'[h] = r /\ \A x \in Slots : x # h => request'[x] = request[x]
  BY DEF RequestsOK
<1>2. RequestsOK'
  BY DEF RequestsOK
<1> QED
  BY <1>1, <1>2 DEF SlotMoves

\* The slot of no request.
LEMMA NoRequestType == NoRequest \in Request /\ NoRequest.app \notin AppIds
BY NoAppAssumption, BudgetAssumption DEF NoRequest, Request, Pcs

\* A request that lets go of its copy.
LEMMA AnswerMoves ==
  ASSUME RequestsOK, NEW h \in Slots, Answer(h)
  PROVE  RequestsOK' /\ SlotMoves
BY NoRequestType, OneSlotMoves DEF Answer

\* A request at its next step, with the same copy.
LEMMA GoToMoves ==
  ASSUME RequestsOK, NEW h \in Slots, NEW pc \in Pcs, GoTo(h, pc)
  PROVE  RequestsOK' /\ SlotMoves
<1> DEFINE r == [request[h] EXCEPT !.pc = pc]
<1>1. request[h] \in Request /\ request' = [request EXCEPT ![h] = r]
  BY DEF GoTo, RequestsOK
<1>2. r \in Request
  BY <1>1, Zenon DEF Request
<1>3. r.app = request[h].app /\ r.version = request[h].version /\ r.state = request[h].state
  BY <1>1 DEF Request
<1> HIDE DEF r
<1> QED
  BY <1>1, <1>2, <1>3, OneSlotMoves

\* A request that is about to update, with the same copy.
LEMMA AdvanceToMoves ==
  ASSUME RequestsOK, NEW h \in Slots, NEW to \in States, AdvanceTo(h, to)
  PROVE  RequestsOK' /\ SlotMoves
<1> DEFINE r == [request[h] EXCEPT !.pc = "advance", !.to = to]
<1>1. request[h] \in Request /\ request' = [request EXCEPT ![h] = r]
  BY DEF AdvanceTo, RequestsOK
<1>2. r \in Request
  BY <1>1, Zenon DEF Request, Pcs
<1>3. r.app = request[h].app /\ r.version = request[h].version /\ r.state = request[h].state
  BY <1>1 DEF Request
<1> HIDE DEF r
<1> QED
  BY <1>1, <1>2, <1>3, OneSlotMoves

\* A request that arrives takes its copy from the store as it is then.
LEMMA BeginMoves ==
  ASSUME RequestsOK, IInv', NEW h \in Slots, NEW kind \in Kinds, NEW pc \in Pcs,
         NEW a \in AppIds, apps'[a] # NoApp,
         NEW arg \in DocTypes \union Dispositions \union {""},
         Begin(h, kind, pc, a, arg)
  PROVE  RequestsOK' /\ SlotMoves
<1>1. apps'[a].version \in Nat /\ apps'[a].state \in States /\ a \in issued'
  BY DEF IInv, TypeOK, EntriesIssued, Application
<1>2. PICK version \in Nat : version = apps'[a].version
  BY <1>1
<1>3. PICK state \in States : state = apps'[a].state
  BY <1>1
<1>4. PICK r : r = [NoRequest EXCEPT !.kind = kind, !.pc = pc, !.app = a, !.arg = arg,
                                     !.version = version, !.state = state]
  OBVIOUS
<1>5. request' = [request EXCEPT ![h] = r]
  <2>1. request' =
          [request EXCEPT ![h] =
             [NoRequest EXCEPT !.kind = kind, !.pc = pc, !.app = a, !.arg = arg,
                               !.version = apps'[a].version, !.state = apps'[a].state]]
    BY Zenon DEF Begin
  <2>2. r = [NoRequest EXCEPT !.kind = kind, !.pc = pc, !.app = a, !.arg = arg,
                              !.version = apps'[a].version, !.state = apps'[a].state]
    BY <1>2, <1>3, <1>4, Zenon
  <2> QED
    BY <2>1, <2>2, Zenon
<1>6. r \in Request
  BY <1>4, NoRequestType, Zenon DEF Request
<1>7. r.app = a /\ r.version = version /\ r.state = state
  BY <1>4, NoRequestType DEF Request
<1> QED
  BY <1>1, <1>2, <1>3, <1>5, <1>6, <1>7, OneSlotMoves

\* What a step of a handler, the scheduler or the clock does in all.
HandlerStep == HandlerWrite /\ RequestsOK' /\ SlotMoves

\* Requests that begin with Repo.Get.
LEMMA BeginWithGetStep ==
  ASSUME HookInv, RequestsOK, NEW h \in Slots, NEW kind \in Kinds, NEW pc \in Pcs, NEW a,
         NEW arg \in DocTypes \union Dispositions \union {""},
         BeginWithGet(h, kind, pc, a, arg)
  PROVE  HandlerStep
<1>1. /\ a \in AppIds /\ apps[a] # NoApp /\ UNCHANGED repoVars
      /\ Begin(h, kind, pc, a, arg)
  BY DEF BeginWithGet, Exists
<1>2. HandlerWrite
  BY <1>1, NoWrite
<1>3. apps'[a] # NoApp
  BY <1>1 DEF repoVars
<1> QED
  BY <1>1, <1>2, <1>3, BeginMoves DEF HandlerStep, HandlerWrite

\* Every arrival is such a step.
LEMMA ArriveStep ==
  ASSUME HookInv, RequestsOK, NEW h \in Slots, Arrive(h)
  PROVE  HandlerStep
<1> USE DEF Kinds, Pcs
<1>1. ASSUME NEW u \in Users, TriggerReKYC(h, u)
      PROVE  HandlerStep
  <2>1. PICK a : a = GetByUserID(u)
    OBVIOUS
  <2>2. BeginWithGet(h, "rekyc", "reopen", a, "")
    BY <1>1, <2>1 DEF TriggerReKYC
  <2> QED
    BY <2>2, BeginWithGetStep
<1>2. ASSUME NEW u \in Users, NEW a \in AppIds, CreateApplication(h, u, a)
      PROVE  HandlerStep
  <2>1. Create(u, a) /\ Begin(h, "create", "register", a, "")
    BY <1>2 DEF CreateApplication
  <2>2. HandlerWrite
    BY <2>1, CreateWrite
  <2>3. apps'[a] # NoApp
    <3>1. apps'[a] = NewApplication(u)
      BY <2>1, ClearedType DEF Create, HookInv, IInv
    <3> QED
      BY <3>1, NewApplicationType, NoAppAssumption
  <2> QED
    BY <2>1, <2>2, <2>3, BeginMoves DEF HandlerStep, HandlerWrite
<1>3. ASSUME NEW a \in AppIds, NEW type \in DocTypes, UploadDocument(h, a, type)
      PROVE  HandlerStep
  BY <1>3, BeginWithGetStep DEF UploadDocument
<1>4. ASSUME NEW a \in AppIds, StartLiveness(h, a)
      PROVE  HandlerStep
  BY <1>4, BeginWithGetStep DEF StartLiveness
<1>5. ASSUME NEW a \in AppIds, RunScreening(h, a)
      PROVE  HandlerStep
  BY <1>5, BeginWithGetStep DEF RunScreening
<1>6. ASSUME NEW a \in AppIds, NEW disposition \in Dispositions,
             DisposeScreening(h, a, disposition)
      PROVE  HandlerStep
  BY <1>6, BeginWithGetStep DEF DisposeScreening
<1> QED
  BY <1>1, <1>2, <1>3, <1>4, <1>5, <1>6 DEF Arrive

\* A request that goes on without a write.
LEMMA QuietStep ==
  ASSUME HookInv, UNCHANGED repoVars, RequestsOK', SlotMoves
  PROVE  HandlerStep
BY NoWrite DEF HandlerStep

\* A screening that is stored is referred, or answered.
LEMMA RouteMoves ==
  ASSUME RequestsOK, NEW h \in Slots, NEW flagged, Route(h, flagged)
  PROVE  RequestsOK' /\ SlotMoves
<1>1. PICK to \in States : to = RouteTarget(flagged)
  BY DEF RouteTarget, States
<1>2. AdvanceTo(h, to) \/ Answer(h)
  BY <1>1 DEF Route
<1> QED
  BY <1>2, AdvanceToMoves, AnswerMoves

\* A screening with hits has them to store.
LEMMA HitsMoves ==
  ASSUME RequestsOK, NEW h \in Slots, NEW n \in 1 .. MaxHits, NEW to \in States,
         request' = [request EXCEPT ![h].pc = "store_hits", ![h].left = n, ![h].to = to]
  PROVE  RequestsOK' /\ SlotMoves
<1>1. PICK r : r = [request[h] EXCEPT !.pc = "store_hits", !.left = n, !.to = to]
  OBVIOUS
<1>2. request[h] \in Request /\ request' = [request EXCEPT ![h] = r]
  BY <1>1 DEF RequestsOK
<1>3. n \in 0 .. MaxHits
  BY BudgetAssumption
<1>4. r \in Request
  BY <1>1, <1>2, <1>3, Zenon DEF Request, Pcs
<1>5. r.app = request[h].app /\ r.version = request[h].version /\ r.state = request[h].state
  BY <1>1, <1>2 DEF Request
<1> QED
  BY <1>2, <1>4, <1>5, OneSlotMoves

\* One hit less is left to store.
LEMMA StoredMoves ==
  ASSUME RequestsOK, NEW h \in Slots, request[h].left > 1,
         request' = [request EXCEPT ![h].left = @ - 1]
  PROVE  RequestsOK' /\ SlotMoves
<1>1. PICK r : r = [request[h] EXCEPT !.left = request[h].left - 1]
  OBVIOUS
<1>2. request[h] \in Request /\ request' = [request EXCEPT ![h] = r]
  BY <1>1 DEF RequestsOK
<1>3. request[h].left - 1 \in 0 .. MaxHits
  <2>1. request[h].left \in 0 .. MaxHits
    BY <1>2 DEF Request
  <2> QED
    BY <2>1, BudgetAssumption
<1>4. r \in Request
  BY <1>1, <1>2, <1>3, Zenon DEF Request
<1>5. r.app = request[h].app /\ r.version = request[h].version /\ r.state = request[h].state
  BY <1>1, <1>2 DEF Request
<1> QED
  BY <1>2, <1>4, <1>5, OneSlotMoves

\* Steps of a request that leave the store alone.
LEMMA UnwrittenStep ==
  ASSUME HookInv, RequestsOK, NEW h \in Slots,
         \/ StoreDocument(h) \/ CheckDocuments(h) \/ Challenge(h)
         \/ Screen(h) \/ StoreHit(h) \/ SetDisposition(h) \/ Announce(h)
  PROVE  HandlerStep
<1>1. UNCHANGED repoVars
  BY DEF StoreDocument, CheckDocuments, Challenge, Screen, StoreHit, SetDisposition, Announce
<1>2. CASE StoreDocument(h)
  BY <1>1, <1>2, QuietStep, GoToMoves, AnswerMoves DEF StoreDocument, Pcs
<1>3. CASE CheckDocuments(h)
  BY <1>1, <1>3, QuietStep, AdvanceToMoves, AnswerMoves DEF CheckDocuments, States
<1>4. CASE Challenge(h)
  BY <1>1, <1>4, QuietStep, AdvanceToMoves, AnswerMoves DEF Challenge, States
<1>5. CASE Screen(h)
  <2>1. CASE Answer(h) \/ Route(h, 0 >= ScreeningThreshold)
    BY <1>1, <2>1, QuietStep, AnswerMoves, RouteMoves
  <2>2. ASSUME NEW n \in 1 .. MaxHits,
               request' = [request EXCEPT ![h].pc = "store_hits", ![h].left = n,
                             ![h].to = RouteTarget(n >= ScreeningThreshold)]
        PROVE  HandlerStep
    <3>1. PICK to \in States : to = RouteTarget(n >= ScreeningThreshold)
      BY DEF RouteTarget, States
    <3> QED
      BY <1>1, <2>2, <3>1, QuietStep, HitsMoves
  <2> QED
    BY <1>5, <2>1, <2>2 DEF Screen
<1>6. CASE StoreHit(h)
  BY <1>1, <1>6, QuietStep, StoredMoves, RouteMoves DEF StoreHit
<1>7. CASE SetDisposition(h)
  BY <1>1, <1>7, QuietStep, AdvanceToMoves DEF SetDisposition, States
<1>8. CASE Announce(h)
  BY <1>1, <1>8, QuietStep, AnswerMoves DEF Announce
<1> QED
  BY <1>2, <1>3, <1>4, <1>5, <1>6, <1>7, <1>8

\* The vendor's id is stored, or not, and the creation is answered.
LEMMA RegisterStep ==
  ASSUME HookInv, RequestsOK, NEW h \in Slots, RegisterApplicant(h)
  PROVE  HandlerStep
<1>1. RequestsOK' /\ SlotMoves
  BY AnswerMoves DEF RegisterApplicant
<1>2. CASE UNCHANGED repoVars
  BY <1>1, <1>2, QuietStep
<1>3. CASE SetVendorApplicantID(request[h].app)
  <2>1. PICK a \in AppIds : a = request[h].app
    BY <1>3 DEF SetVendorApplicantID, Exists
  <2> QED
    BY <1>1, <1>3, <2>1, RegisterWrite DEF HandlerStep
<1> QED
  BY <1>2, <1>3 DEF RegisterApplicant

\* The guarded update of a request that was accepted, or lost.
LEMMA AdvanceStep ==
  ASSUME HookInv, RequestsOK, NEW h \in Slots, Advance(h)
  PROVE  HandlerStep
<1>1. PICK a, version, to, actor :
        /\ a = request[h].app /\ version = request[h].version
        /\ to = request[h].to /\ actor = Actor(request[h].kind)
  OBVIOUS
<1>2. actor \in HandlerActors
  BY <1>1 DEF Actor, HandlerActors
<1>3. RequestsOK' /\ SlotMoves
  BY GoToMoves, AnswerMoves DEF Advance, AfterUpdate, Pcs
<1>4. CASE UpdateState(a, version, to, actor)
  <2>1. a \in AppIds
    BY <1>4 DEF UpdateState, UpdateAccepted, Exists
  <2> QED
    BY <1>2, <1>3, <1>4, <2>1, UpdateWrite DEF HandlerStep
<1>5. CASE UNCHANGED repoVars
  BY <1>3, <1>5, QuietStep
<1> QED
  BY <1>1, <1>4, <1>5 DEF Advance

\* The re-opening of a request that was accepted, or lost.
LEMMA ReopenStep ==
  ASSUME HookInv, RequestsOK, NEW h \in Slots, ReopenApplication(h)
  PROVE  HandlerStep
<1>1. PICK a, version : a = request[h].app /\ version = request[h].version
  OBVIOUS
<1>2. "internal" \in HandlerActors
  BY DEF HandlerActors
<1>3. RequestsOK' /\ SlotMoves
  BY GoToMoves, AnswerMoves DEF ReopenApplication, Pcs
<1>4. CASE Reopen(a, version, "internal")
  <2>1. a \in AppIds
    BY <1>4 DEF Reopen, ReopenAccepted, Exists
  <2> QED
    BY <1>2, <1>3, <1>4, <2>1, ReopenWrite DEF HandlerStep
<1>5. CASE UNCHANGED repoVars
  BY <1>3, <1>5, QuietStep
<1> QED
  BY <1>1, <1>4, <1>5 DEF ReopenApplication

\* Every step of a request is such a step, and none touches the deliveries
\* or the scheduler.
LEMMA RequestStep ==
  ASSUME HookInv, RequestsOK, NEW h \in Slots, Arrive(h) \/ Continue(h)
  PROVE  HandlerStep /\ UNCHANGED tick
<1>1. HandlerStep
  BY ArriveStep, UnwrittenStep, RegisterStep, AdvanceStep, ReopenStep DEF Continue
<1>2. ASSUME NEW kind, NEW pc, NEW a, NEW arg, BeginWithGet(h, kind, pc, a, arg)
      PROVE  UNCHANGED tick
  BY <1>2 DEF BeginWithGet
<1>3. CASE Arrive(h)
  BY <1>1, <1>2, <1>3 DEF Arrive, CreateApplication, UploadDocument, StartLiveness,
                          RunScreening, DisposeScreening, TriggerReKYC
<1>4. CASE Continue(h)
  <2>1. CASE RegisterApplicant(h)
    BY <1>1, <2>1 DEF RegisterApplicant
  <2>2. CASE StoreDocument(h)
    BY <1>1, <2>2 DEF StoreDocument
  <2>3. CASE CheckDocuments(h)
    BY <1>1, <2>3 DEF CheckDocuments
  <2>4. CASE Challenge(h)
    BY <1>1, <2>4 DEF Challenge
  <2>5. CASE Screen(h)
    BY <1>1, <2>5 DEF Screen
  <2>6. CASE StoreHit(h)
    BY <1>1, <2>6 DEF StoreHit
  <2>7. CASE SetDisposition(h)
    BY <1>1, <2>7 DEF SetDisposition
  <2>8. CASE Advance(h)
    BY <1>1, <2>8 DEF Advance
  <2>9. CASE ReopenApplication(h)
    BY <1>1, <2>9 DEF ReopenApplication
  <2>10. CASE Announce(h)
    BY <1>1, <2>10 DEF Announce
  <2> QED
    BY <1>4, <2>1, <2>2, <2>3, <2>4, <2>5, <2>6, <2>7, <2>8, <2>9, <2>10 DEF Continue
<1> QED
  BY <1>3, <1>4

-----------------------------------------------------------------------------
(* The scheduler.                                                          *)

\* What a pass has left still names what was decided, while it gets less.
LEMMA TickAfter ==
  ASSUME HookInv, TickInv, IInv', StoreMoves,
         tick' \in [due : SUBSET Due, announce : AppIds \union {NoApp}],
         tick'.due \subseteq tick.due
  PROVE  TickInv'
<1> SUFFICES ASSUME NEW d \in tick'.due
             PROVE  /\ d.id \in issued'
                    /\ apps'[d.id] # NoApp =>
                         /\ d.version <= apps'[d.id].version
                         /\ d.version = apps'[d.id].version => IsTerminal(apps'[d.id].state)
  BY DEF TickInv
<1>1. /\ d \in Due /\ d \in tick.due
      /\ tick.due \subseteq Due
  BY DEF TickInv
<1>2. PICK a \in AppIds, v \in Nat : a = d.id /\ v = d.version
  BY <1>1 DEF Due
<1>3. /\ a \in issued
      /\ apps[a] # NoApp => /\ v <= apps[a].version
                            /\ v = apps[a].version => IsTerminal(apps[a].state)
  BY <1>1, <1>2 DEF TickInv
<1>4. a \in issued' /\ (apps'[a] # NoApp =>
                         /\ apps[a] # NoApp
                         /\ \/ /\ apps'[a].version = apps[a].version
                               /\ apps'[a].state = apps[a].state
                            \/ apps'[a].version = apps[a].version + 1)
  BY <1>3 DEF StoreMoves
<1>5. apps[a] # NoApp => apps[a].version \in Nat
  BY DEF HookInv, IInv, TypeOK, Application
<1> QED
  BY <1>2, <1>3, <1>4, <1>5

\* ListDueForReKYC gives the applications as they are.
LEMMA ListInv ==
  ASSUME HookInv, TickInv, TickList
  PROVE  TickInv'
<1>1. /\ UNCHANGED repoVars
      /\ tick' = [tick EXCEPT !.due = ListDueForReKYC]
  BY DEF TickList
<1>2. \A d \in ListDueForReKYC :
        /\ d \in Due /\ d.id \in issued
        /\ d.version = apps[d.id].version /\ IsTerminal(apps[d.id].state)
  <2> SUFFICES ASSUME NEW a \in AppIds, apps[a] # NoApp, IsTerminal(apps[a].state)
               PROVE  apps[a].version \in Nat /\ a \in issued
    BY DEF ListDueForReKYC, Live, Due
  <2> QED
    BY DEF HookInv, IInv, TypeOK, EntriesIssued, Application
<1>3. tick' \in [due : SUBSET Due, announce : AppIds \union {NoApp}]
      /\ tick'.due = ListDueForReKYC
  BY <1>1, <1>2 DEF TickInv
<1>4. \A d \in ListDueForReKYC : d.version <= apps[d.id].version
  BY <1>2 DEF Due
<1> QED
  BY <1>1, <1>2, <1>3, <1>4 DEF TickInv, repoVars

\* Every step of a pass writes as the store allows and keeps TickInv.
LEMMA TickStep ==
  ASSUME HookInv, TickInv, Tick
  PROVE  HandlerWrite /\ TickInv' /\ UNCHANGED request
<1>1. CASE TickList
  BY <1>1, ListInv, NoWrite DEF TickList
<1>2. CASE TickReopen
  <2>1. PICK d \in tick.due :
          \/ /\ Reopen(d.id, d.version, "scheduler")
             /\ tick' = [due |-> tick.due \ {d}, announce |-> d.id]
          \/ /\ UNCHANGED repoVars
             /\ tick' = [tick EXCEPT !.due = tick.due \ {d}]
    BY <1>2 DEF TickReopen
  <2>2. PICK a \in AppIds, v \in Nat : a = d.id /\ v = d.version
    BY DEF TickInv, Due
  <2>3. HandlerWrite
    <3>1. "scheduler" \in HandlerActors
      BY DEF HandlerActors
    <3>2. Reopen(a, v, "scheduler") \/ UNCHANGED repoVars
      BY <2>1, <2>2
    <3> QED
      BY <3>1, <3>2, ReopenWrite, NoWrite
  <2>4. tick' \in [due : SUBSET Due, announce : AppIds \union {NoApp}]
        /\ tick'.due \subseteq tick.due
    BY <2>1, <2>2 DEF TickInv
  <2>5. TickInv'
    BY <2>3, <2>4, TickAfter DEF HandlerWrite
  <2> QED
    BY <1>2, <2>3, <2>5 DEF TickReopen
<1>3. CASE TickAnnounce
  <2>1. /\ UNCHANGED repoVars /\ UNCHANGED request
        /\ tick' = [tick EXCEPT !.announce = NoApp]
    BY <1>3 DEF TickAnnounce
  <2>2. tick' \in [due : SUBSET Due, announce : AppIds \union {NoApp}]
        /\ tick'.due \subseteq tick.due
    BY <2>1 DEF TickInv
  <2>3. HandlerWrite
    BY <2>1, NoWrite
  <2> QED
    BY <2>1, <2>2, <2>3, TickAfter DEF HandlerWrite
<1> QED
  BY <1>1, <1>2, <1>3 DEF Tick

-----------------------------------------------------------------------------
(* The service.                                                            *)

\* A step of a handler, the scheduler or the clock keeps the whole invariant.
LEMMA HandlersInv ==
  ASSUME ServiceInv, HandlerWrite, RequestsOK', SlotMoves, TickInv', UNCHANGED hookVars
  PROVE  ServiceInv'
<1>1. HookInv'
  BY OtherWriteInv DEF ServiceInv, HandlerWrite
<1>2. SlotsInv'
  BY SlotsAfter DEF ServiceInv, HandlerWrite
<1> QED
  BY <1>1, <1>2 DEF ServiceInv

\* Every step of the service keeps it.
LEMMA ServiceInvStep ==
  ASSUME ServiceInv, [ServiceNext]_vars
  PROVE  ServiceInv'
<1> USE DEF ServiceInv
<1>1. ASSUME UNCHANGED request
      PROVE  RequestsOK' /\ SlotMoves
  BY <1>1 DEF RequestsOK, SlotMoves
<1>2. ASSUME UNCHANGED tick, IInv', StoreMoves
      PROVE  TickInv'
  <2>1. tick' \in [due : SUBSET Due, announce : AppIds \union {NoApp}]
        /\ tick'.due \subseteq tick.due
    BY <1>2 DEF TickInv
  <2> QED
    BY <1>2, <2>1, TickAfter
<1>3. ASSUME NEW h \in Slots, Arrive(h) \/ Continue(h), UNCHANGED hookVars
      PROVE  ServiceInv'
  <2>1. HandlerStep /\ UNCHANGED tick
    BY <1>3, RequestStep
  <2>2. TickInv'
    BY <1>2, <2>1 DEF HandlerStep, HandlerWrite
  <2> QED
    BY <1>3, <2>1, <2>2, HandlersInv DEF HandlerStep
<1>4. ASSUME Tick, UNCHANGED hookVars
      PROVE  ServiceInv'
  BY <1>1, <1>4, TickStep, HandlersInv
<1>5. ASSUME NEW a \in AppIds, Elapse(a), UNCHANGED <<hookVars, handlerVars>>
      PROVE  ServiceInv'
  <2>1. HandlerWrite /\ UNCHANGED request /\ UNCHANGED tick
    BY <1>5, ElapseWrite DEF handlerVars
  <2>2. TickInv'
    BY <1>2, <2>1 DEF HandlerWrite
  <2> QED
    BY <1>1, <1>5, <2>1, <2>2, HandlersInv
<1>6. ASSUME NEW w \in Workers, Ingest(w), UNCHANGED handlerVars
      PROVE  ServiceInv'
  <2>1. HookInv' /\ StoreMoves /\ UNCHANGED request /\ UNCHANGED tick
    BY <1>6, IngestInv DEF handlerVars
  <2>2. IInv'
    BY <2>1 DEF HookInv
  <2>3. RequestsOK' /\ SlotMoves /\ TickInv'
    BY <1>1, <1>2, <2>1, <2>2
  <2>4. SlotsInv'
    BY <2>1, <2>2, <2>3, SlotsAfter
  <2> QED
    BY <2>1, <2>3, <2>4
<1>7. ASSUME ServiceRestart
      PROVE  ServiceInv'
  <2>1. HookInv'
    BY <1>7, RestartInv DEF ServiceRestart
  <2>2. request' = [h \in Slots |-> NoRequest] /\ tick' = NoPass
    BY <1>7 DEF ServiceRestart
  <2>3. RequestsOK' /\ SlotsInv'
    BY <2>2, NoRequestType DEF RequestsOK, SlotsInv
  <2>4. TickInv'
    BY <2>2 DEF TickInv, NoPass
  <2> QED
    BY <2>1, <2>3, <2>4
<1>8. ASSUME UNCHANGED vars
      PROVE  ServiceInv'
  <2>1. UNCHANGED repoVars /\ UNCHANGED hookVars /\ UNCHANGED request /\ UNCHANGED tick
    BY <1>8 DEF vars, handlerVars
  <2>2. HandlerWrite
    BY <2>1, NoWrite
  <2>3. TickInv'
    BY <1>2, <2>1, <2>2 DEF HandlerWrite
  <2> QED
    BY <1>1, <2>1, <2>2, <2>3, HandlersInv
<1> QED
  BY <1>3, <1>4, <1>5, <1>6, <1>7, <1>8 DEF ServiceNext

\* The service starts with no requests and no pass.
LEMMA ServiceInvInit ==
  ASSUME ServiceInit
  PROVE  ServiceInv
<1>1. HookInv
  BY HookInvInit DEF ServiceInit, HookSpecInit
<1>2. request = [h \in Slots |-> NoRequest] /\ tick = NoPass
  BY DEF ServiceInit, HandlerInit
<1>3. RequestsOK /\ SlotsInv
  BY <1>2, NoRequestType DEF RequestsOK, SlotsInv
<1>4. TickInv
  BY <1>2 DEF TickInv, NoPass
<1> QED
  BY <1>1, <1>3, <1>4 DEF ServiceInv

\* The service keeps its inductive invariant.
THEOREM ServiceInvariant == ServiceSpec => []ServiceInv
<1>1. ServiceInit => ServiceInv
  BY ServiceInvInit
<1>2. ServiceInv /\ [ServiceNext]_vars => ServiceInv'
  BY ServiceInvStep
<1> QED
  BY <1>1, <1>2, PTL DEF ServiceSpec

\* Every handler, delivery and scheduler pass that holds the version an
\* application has now holds its state, too; nobody is ahead of the store.
THEOREM SnapshotsCurrent == ServiceSpec => []SnapshotsCurrentOrRefused
<1>1. ASSUME ServiceInv
      PROVE  SnapshotsCurrentOrRefused
  <2> USE <1>1 DEF ServiceInv
  <2>1. ASSUME NEW h \in Slots, Exists(request[h].app)
        PROVE  LET r == request[h] IN
               /\ r.version <= apps[r.app].version
               /\ r.version = apps[r.app].version => r.state = apps[r.app].state
    BY <2>1 DEF SlotsInv, Exists
  <2>2. ASSUME NEW w \in Workers, worker[w].pc = "update", Exists(worker[w].event.app)
        PROVE  LET a == worker[w].event.app IN
               /\ worker[w].version <= apps[a].version
               /\ worker[w].version = apps[a].version => worker[w].from = apps[a].state
    <3>1. ApplicationID(worker[w].event) = worker[w].event.app
      BY <2>2, NoAppAssumption DEF HookInv, WorkersInv, ApplicationID
    <3> QED
      BY <2>2, <3>1 DEF HookInv, ReadInv, Exists
  <2>3. ASSUME NEW d \in tick.due, Exists(d.id)
        PROVE  /\ d.version <= apps[d.id].version
               /\ d.version = apps[d.id].version => IsTerminal(apps[d.id].state)
    BY <2>3 DEF TickInv, Exists
  <2> QED
    BY <2>1, <2>2, <2>3 DEF SnapshotsCurrentOrRefused
<1> QED
  BY <1>1, ServiceInvariant, PTL

\* An event advances an application at most once per life of the process in
\* the whole service, where the handlers themselves write between deliveries.
THEOREM ServiceAdvancesOnce == ServiceSpec => []AdvancesOncePerProcess
<1>1. ASSUME ServiceInv, NEW key \in Keys
      PROVE  Cardinality(AdvancesBy(key)) <= 1 + restarts
  <2>1. restarts \in Nat
    BY <1>1, RestartsType DEF ServiceInv, HookInv
  <2>2. Cardinality(AdvancesBy(key)) <= restarts + 1
    BY <1>1 DEF ServiceInv, HookInv, OnceInv
  <2> QED
    BY <2>1, <2>2
<1>2. ServiceInv => AdvancesOncePerProcess
  BY <1>1 DEF AdvancesOncePerProcess
<1> QED
  BY <1>2, ServiceInvariant, PTL

\* In the whole service, too, a first delivery of an event with an id of its own
\* is acknowledged only after the event was compared with its application.
THEOREM ServiceFirstDeliveryCompares ==
  VendorProvider # "onfido" => (ServiceSpec => []SkippedOnlyOnRetry)
<1> SUFFICES ASSUME VendorProvider # "onfido"
             PROVE  ServiceSpec => []SkippedOnlyOnRetry
  OBVIOUS
<1>1. ServiceInit => FirstInv
  BY FirstInit DEF ServiceInit, HookSpecInit
<1>2. ServiceInv /\ FirstInv /\ [ServiceNext]_vars => FirstInv'
  <2> SUFFICES ASSUME ServiceInv, FirstInv, [ServiceNext]_vars
               PROVE  FirstInv'
    OBVIOUS
  <2> USE DEF ServiceInv
  <2>1. ASSUME NEW h \in Slots, Arrive(h) \/ Continue(h), UNCHANGED hookVars
        PROVE  FirstInv'
    BY <2>1, RequestStep, FirstAside DEF HandlerStep, HandlerWrite
  <2>2. CASE Tick /\ UNCHANGED hookVars
    BY <2>2, TickStep, FirstAside DEF HandlerWrite
  <2>3. ASSUME NEW a \in AppIds, Elapse(a), UNCHANGED hookVars
        PROVE  FirstInv'
    BY <2>3, ElapseWrite, FirstAside DEF HandlerWrite
  <2>4. CASE ServiceRestart
    BY <2>4, FirstRestarted DEF ServiceRestart
  <2>5. CASE UNCHANGED vars
    BY <2>5, FirstAside, SameMoves DEF vars
  <2> QED
    BY <2>1, <2>2, <2>3, <2>4, <2>5, FirstIngest DEF ServiceNext
<1>3. ServiceInv /\ FirstInv => SkippedOnlyOnRetry
  BY FirstSkipsNothing DEF ServiceInv
<1> QED
  BY <1>1, <1>2, <1>3, ServiceInvariant, PTL DEF ServiceSpec

-----------------------------------------------------------------------------
(* The store in the service.  Whatever the handlers, the deliveries, the   *)
(* scheduler and the clock do to it is a call of the package, so that what *)
(* is proved of every call holds of the service.                           *)

\* A handler's guarded update is a call of the store.
LEMMA UpdateCalls ==
  ASSUME NEW a, NEW version \in Nat, NEW to, NEW actor \in HandlerActors,
         UpdateState(a, version, to, actor)
  PROVE  StoreCall
<1>1. a \in AppIds /\ to \in States
  BY DEF UpdateState, UpdateAccepted, Exists, CanTransition, legalTransitions, States
<1>2. actor \in Actors
  BY HandlersAssumption
<1> QED
  BY <1>1, <1>2, Zenon DEF StoreCall

\* So is a re-opening.
LEMMA ReopenCalls ==
  ASSUME NEW a, NEW version \in Nat, NEW actor \in HandlerActors, Reopen(a, version, actor)
  PROVE  StoreCall
<1>1. a \in AppIds
  BY DEF Reopen, ReopenAccepted, Exists
<1>2. actor \in Actors
  BY HandlersAssumption
<1> QED
  BY <1>1, <1>2, Zenon DEF StoreCall

\* A step of a request makes at most one call.
LEMMA RequestCalls ==
  ASSUME RequestsOK, NEW h \in Slots, Arrive(h) \/ Continue(h)
  PROVE  [StoreCall]_repoVars
<1>1. PICK a, version, to, actor :
        /\ a = request[h].app /\ version = request[h].version
        /\ to = request[h].to /\ actor = Actor(request[h].kind)
  OBVIOUS
<1>2. version \in Nat
  BY <1>1 DEF RequestsOK, Request
<1>3. actor \in HandlerActors /\ "internal" \in HandlerActors
  BY <1>1 DEF Actor, HandlerActors
<1>4. CASE Arrive(h)
  <2>1. ASSUME NEW u \in Users, NEW id \in AppIds, CreateApplication(h, u, id)
        PROVE  StoreCall
    BY <2>1, Zenon DEF CreateApplication, StoreCall
  <2>2. ASSUME NEW kind, NEW pc, NEW id, NEW arg, BeginWithGet(h, kind, pc, id, arg)
        PROVE  UNCHANGED repoVars
    BY <2>2 DEF BeginWithGet
  <2> QED
    BY <1>4, <2>1, <2>2 DEF Arrive, UploadDocument, StartLiveness,
                            RunScreening, DisposeScreening, TriggerReKYC
<1>5. CASE RegisterApplicant(h)
  <2>1. CASE SetVendorApplicantID(a)
    <3>1. a \in AppIds
      BY <2>1 DEF SetVendorApplicantID, Exists
    <3> QED
      BY <2>1, <3>1, Zenon DEF StoreCall
  <2> QED
    BY <1>1, <1>5, <2>1 DEF RegisterApplicant
<1>6. CASE Advance(h)
  <2>1. UpdateState(a, version, to, actor) \/ UNCHANGED repoVars
    BY <1>1, <1>6 DEF Advance
  <2> QED
    BY <1>2, <1>3, <2>1, UpdateCalls
<1>7. CASE ReopenApplication(h)
  <2>1. Reopen(a, version, "internal") \/ UNCHANGED repoVars
    BY <1>1, <1>7 DEF ReopenApplication
  <2> QED
    BY <1>2, <1>3, <2>1, ReopenCalls
<1>8. CASE \/ StoreDocument(h) \/ CheckDocuments(h) \/ Challenge(h) \/ Screen(h)
           \/ StoreHit(h) \/ SetDisposition(h) \/ Announce(h)
  BY <1>8 DEF StoreDocument, CheckDocuments, Challenge, Screen, StoreHit, SetDisposition,
              Announce
<1> QED
  BY <1>4, <1>5, <1>6, <1>7, <1>8 DEF Continue

\* So does a step of a scheduler pass.
LEMMA TickCalls ==
  ASSUME TickInv, Tick
  PROVE  [StoreCall]_repoVars
<1>1. CASE TickReopen
  <2>1. PICK d \in tick.due : Reopen(d.id, d.version, "scheduler") \/ UNCHANGED repoVars
    BY <1>1 DEF TickReopen
  <2>2. PICK a \in AppIds, v \in Nat : a = d.id /\ v = d.version
    BY DEF TickInv, Due
  <2>3. "scheduler" \in HandlerActors
    BY DEF HandlerActors
  <2> QED
    BY <2>1, <2>2, <2>3, ReopenCalls
<1>2. CASE TickList \/ TickAnnounce
  BY <1>2 DEF TickList, TickAnnounce
<1> QED
  BY <1>1, <1>2 DEF Tick

\* Every step of the service makes at most one call of the store.
LEMMA ServiceCalls ==
  ASSUME ServiceInv, [ServiceNext]_vars
  PROVE  [StoreCall]_repoVars
<1> USE DEF ServiceInv
<1>1. ASSUME NEW h \in Slots, Arrive(h) \/ Continue(h)
      PROVE  [StoreCall]_repoVars
  BY <1>1, RequestCalls
<1>2. ASSUME NEW w \in Workers, Ingest(w)
      PROVE  [StoreCall]_repoVars
  BY <1>2, IngestCalls
<1>3. ASSUME NEW a \in AppIds, Elapse(a)
      PROVE  StoreCall
  BY <1>3, Zenon DEF StoreCall
<1>4. ServiceRestart \/ UNCHANGED vars => UNCHANGED repoVars
  BY DEF ServiceRestart, Restart, vars
<1> QED
  BY <1>1, <1>2, <1>3, <1>4, TickCalls DEF ServiceNext

\* The status endpoint of the whole service answers as KYCLifecycle promises:
\* however requests, deliveries, scheduler passes and restarts interleave, a
\* user's case is decided once and re-opened or replaced only when decided.
THEOREM ServiceImplementsLifecycle == ServiceSpec => ImplementsLifecycle
<1>1. ServiceInit => Lifecycle!Init
  BY NoAppAssumption
     DEF ServiceInit, Init, Lifecycle!Init, UserStatus, StatusOf, Exists
<1>2. ServiceInv /\ [ServiceNext]_vars => [Lifecycle!Next]_UserStatus
  BY ServiceCalls, StepSimulation DEF ServiceInv, HookInv
<1> QED
  BY <1>1, <1>2, ServiceInvariant, PTL DEF ServiceSpec, ImplementsLifecycle, Lifecycle!Spec

\* The audit trail of the whole service replays to the states it stores, the
\* transitions of handlers, events and the scheduler in one order.
LEMMA TrailInvariant == ServiceSpec => []TrailInv
<1>1. ServiceInit => TrailInv
  BY DEF ServiceInit, Init, TrailInv, FreshTrail, TrailReplays
<1>2. ServiceInv /\ TrailInv /\ [ServiceNext]_vars => TrailInv'
  BY ServiceCalls, NextReplays DEF ServiceInv, HookInv
<1> QED
  BY <1>1, <1>2, ServiceInvariant, PTL DEF ServiceSpec

\* So what the sink was told is what the store holds, in the whole service.
THEOREM ServiceTrailReplays == ServiceSpec => []TrailReplays
<1>1. TrailInv => TrailReplays
  BY DEF TrailInv
<1> QED
  BY <1>1, TrailInvariant, PTL

\* No interleaving of the handlers, the deliveries and the scheduler takes a
\* decided application out of ListDueForReKYC's sight.
THEOREM ServiceStaysScheduled == ServiceSpec => []DecidedIsScheduled
<1>1. ServiceInit => DecidedIsScheduled
  BY DEF ServiceInit, Init, DecidedIsScheduled
<1>2. ServiceInv /\ DecidedIsScheduled /\ [ServiceNext]_vars => DecidedIsScheduled'
  BY ServiceCalls, ScheduledStep DEF ServiceInv, HookInv
<1> QED
  BY <1>1, <1>2, ServiceInvariant, PTL DEF ServiceSpec

\* A version a handler, a delivery or a scheduler pass holds names what it
\* read: no step of the service changes that under the same version.
THEOREM ServiceVersionsNameContents == ServiceSpec => VersionNamesContent
<1>1. ServiceInv /\ [ServiceNext]_vars =>
        [\A a \in AppIds :
           (apps[a] # NoApp /\ apps'[a] # NoApp) =>
             \/ apps'[a].version = apps[a].version + 1
             \/ apps'[a] = [apps[a] EXCEPT !.reKYCDue = apps'[a].reKYCDue]]_repoVars
  BY ServiceCalls, NextVersioned DEF ServiceInv, HookInv, VersionedStep, Versioned
<1> QED
  BY <1>1, ServiceInvariant, PTL DEF ServiceSpec, VersionNamesContent

-----------------------------------------------------------------------------
(* Progress needs documents.  Its inductive form adds who may still take   *)
(* an application out of STARTED: only a request that found the documents  *)
(* complete, which they stay, and no delivery.                             *)

AdvanceInv ==
  \A h \in Slots :
    (/\ request[h].pc = "advance" /\ request[h].to = "DOCUMENTS_UPLOADED"
     /\ request[h].app \in AppIds)
      => HasRequiredDocs(request[h].app)

AimsInv ==
  \A w \in Workers :
    worker[w].pc = "update" => worker[w].to \notin {"DOCUMENTS_UPLOADED", "STARTED"}

DocsInv ==
  /\ docs \in [AppIds -> SUBSET (DocTypes \union Dispositions \union {""})]
  /\ AdvanceInv
  /\ AimsInv
  /\ ProgressNeedsDocuments

DocsGrow ==
  /\ docs' \in [AppIds -> SUBSET (DocTypes \union Dispositions \union {""})]
  /\ \A a \in AppIds : docs[a] \subseteq docs'[a]

\* Whoever writes, what leaves STARTED has its documents.
ProgressMoves ==
  \A a \in AppIds :
    (apps'[a] # NoApp /\ apps'[a].state # "STARTED") =>
      \/ apps[a] # NoApp /\ apps[a].state # "STARTED"
      \/ HasRequiredDocs(a)

\* A write of one application.
LEMMA RewriteProgress ==
  ASSUME IInv, NEW id \in AppIds, apps[id] # NoApp, NEW app,
         apps' = [apps EXCEPT ![id] = app],
         \/ app.state \in {"STARTED", apps[id].state}
         \/ apps[id].state # "STARTED"
         \/ HasRequiredDocs(id)
  PROVE  ProgressMoves
BY DEF ProgressMoves, IInv, TypeOK

\* An update leaves STARTED for DOCUMENTS_UPLOADED only.
LEMMA UpdateProgress ==
  ASSUME IInv, NEW id \in AppIds, NEW version, NEW to, NEW actor,
         UpdateState(id, version, to, actor),
         to = "DOCUMENTS_UPLOADED" => HasRequiredDocs(id)
  PROVE  ProgressMoves
<1>1. apps[id] \in Application /\ apps[id] # NoApp /\ CanTransition(apps[id].state, to)
  BY DEF IInv, TypeOK, UpdateState, UpdateAccepted, Exists
<1>2. apps[id].state # "STARTED" \/ to = "DOCUMENTS_UPLOADED"
  BY <1>1 DEF CanTransition, legalTransitions
<1> QED
  BY <1>1, <1>2, RewriteProgress DEF UpdateState

\* A re-opening, a registration and the clock do not leave STARTED.
LEMMA ReopenProgress ==
  ASSUME IInv, NEW id \in AppIds, NEW version, NEW actor, Reopen(id, version, actor)
  PROVE  ProgressMoves
<1>1. apps[id] \in Application /\ apps[id] # NoApp
  BY DEF IInv, TypeOK, Reopen, ReopenAccepted, Exists
<1>2. Reopened(apps[id]).state = "STARTED"
  BY <1>1, ReopenedType
<1> QED
  BY <1>1, <1>2, RewriteProgress DEF Reopen

\* The registration of an applicant.
LEMMA RegisterProgress ==
  ASSUME IInv, NEW id \in AppIds, SetVendorApplicantID(id)
  PROVE  ProgressMoves
<1>1. apps[id] \in Application /\ apps[id] # NoApp
  BY DEF IInv, TypeOK, SetVendorApplicantID, Exists
<1>2. Registered(apps[id]).state = apps[id].state
  BY <1>1, RegisteredType
<1> QED
  BY <1>1, <1>2, RewriteProgress DEF SetVendorApplicantID

\* The clock.
LEMMA ElapseProgress ==
  ASSUME IInv, NEW id \in AppIds, Elapse(id)
  PROVE  ProgressMoves
<1>1. apps[id] \in Application /\ apps[id] # NoApp
  BY DEF IInv, TypeOK, Elapse, Exists
<1>2. PICK app : app = [apps[id] EXCEPT !.reKYCDue = "past"]
  OBVIOUS
<1>3. apps' = [apps EXCEPT ![id] = app] /\ app.state = apps[id].state
  BY <1>1, <1>2 DEF Elapse, Application
<1> QED
  BY <1>1, <1>3, RewriteProgress

\* A creation starts at STARTED.
LEMMA CreateProgress ==
  ASSUME IInv, NEW u \in Users, NEW id \in AppIds, Create(u, id)
  PROVE  ProgressMoves
<1>1. apps' = [Cleared(u) EXCEPT ![id] = NewApplication(u)]
      /\ Cleared(u) \in [AppIds -> Application \union {NoApp}]
  BY ClearedType DEF Create, IInv
<1>2. \A a \in AppIds : Cleared(u)[a] # NoApp => Cleared(u)[a] = apps[a]
  BY DEF Cleared, IInv, TypeOK
<1>3. NewApplication(u).state = "STARTED"
  BY DEF NewApplication
<1> QED
  BY <1>1, <1>2, <1>3 DEF ProgressMoves

\* No write.
LEMMA SameProgress ==
  ASSUME UNCHANGED apps
  PROVE  ProgressMoves
BY DEF ProgressMoves

\* What stays complete.
LEMMA StaysComplete ==
  ASSUME DocsGrow, NEW a \in AppIds, HasRequiredDocs(a)
  PROVE  HasRequiredDocs(a)'
BY DEF DocsGrow, HasRequiredDocs

\* Then progress needs documents after the step as well.
LEMMA ProgressAfter ==
  ASSUME ProgressNeedsDocuments, ProgressMoves, DocsGrow
  PROVE  ProgressNeedsDocuments'
BY DEF ProgressNeedsDocuments, ProgressMoves, DocsGrow, HasRequiredDocs, Exists

\* One request changes, and is not on its way out of STARTED unless the
\* documents are complete.
LEMMA AdvanceAfter ==
  ASSUME RequestsOK, AdvanceInv, DocsGrow, NEW h \in Slots,
         \A x \in Slots : x # h => request'[x] = request[x],
         (/\ request'[h].pc = "advance" /\ request'[h].to = "DOCUMENTS_UPLOADED"
          /\ request'[h].app \in AppIds) => HasRequiredDocs(request[h].app)
                                           /\ request'[h].app = request[h].app
  PROVE  AdvanceInv'
BY DEF AdvanceInv, DocsGrow, HasRequiredDocs

\* The same for a request that ends, begins or is elsewhere.
LEMMA ElsewhereAfter ==
  ASSUME RequestsOK, AdvanceInv, DocsGrow, NEW h \in Slots, NEW r,
         request' = [request EXCEPT ![h] = r], r.pc # "advance"
  PROVE  AdvanceInv'
BY AdvanceAfter DEF RequestsOK

\* A request that is answered.
LEMMA AnswerAfter ==
  ASSUME RequestsOK, AdvanceInv, DocsGrow, NEW h \in Slots, Answer(h)
  PROVE  AdvanceInv'
<1>1. NoRequest.pc # "advance"
  BY DEF NoRequest
<1> QED
  BY <1>1, ElsewhereAfter DEF Answer

\* A request at another step.
LEMMA GoToAfter ==
  ASSUME RequestsOK, AdvanceInv, DocsGrow, NEW h \in Slots, NEW pc, pc # "advance", GoTo(h, pc)
  PROVE  AdvanceInv'
<1>1. PICK r : r = [request[h] EXCEPT !.pc = pc]
  OBVIOUS
<1>2. request' = [request EXCEPT ![h] = r] /\ r.pc = pc
  BY <1>1 DEF GoTo, RequestsOK, Request
<1> QED
  BY <1>2, ElsewhereAfter

\* A request that is about to update.
LEMMA AdvanceToAfter ==
  ASSUME RequestsOK, AdvanceInv, DocsGrow, NEW h \in Slots, NEW to, AdvanceTo(h, to),
         to = "DOCUMENTS_UPLOADED" => HasRequiredDocs(request[h].app)
  PROVE  AdvanceInv'
<1>1. PICK r : r = [request[h] EXCEPT !.pc = "advance", !.to = to]
  OBVIOUS
<1>2. request' = [request EXCEPT ![h] = r] /\ r.to = to /\ r.app = request[h].app
  BY <1>1 DEF AdvanceTo, RequestsOK, Request
<1> QED
  BY <1>2, AdvanceAfter DEF RequestsOK

\* A request that arrives.
LEMMA BeginAfter ==
  ASSUME RequestsOK, AdvanceInv, DocsGrow, NEW h \in Slots, NEW kind, NEW pc, NEW a, NEW arg,
         pc # "advance", Begin(h, kind, pc, a, arg)
  PROVE  AdvanceInv'
<1>1. PICK r :
        r = [NoRequest EXCEPT !.kind = kind, !.pc = pc, !.app = a, !.arg = arg,
                              !.version = apps'[a].version, !.state = apps'[a].state]
  OBVIOUS
<1>2. request' = [request EXCEPT ![h] = r]
  BY <1>1, Zenon DEF Begin
<1>3. r.pc = pc
  BY <1>1 DEF NoRequest
<1> QED
  BY <1>2, <1>3, ElsewhereAfter

\* What a step of a request does to its documents and to the store.
DocsStep == ProgressMoves /\ DocsGrow /\ AdvanceInv'

\* The documents are left alone.
LEMMA SameDocs ==
  ASSUME DocsInv, UNCHANGED docs
  PROVE  DocsGrow
BY DEF DocsInv, DocsGrow

\* A request that begins with Repo.Get.
LEMMA GetDocs ==
  ASSUME ServiceInv, DocsInv, NEW h \in Slots, NEW kind, NEW pc, NEW a, NEW arg,
         pc # "advance", BeginWithGet(h, kind, pc, a, arg)
  PROVE  DocsStep
<1>1. UNCHANGED docs /\ UNCHANGED apps /\ Begin(h, kind, pc, a, arg)
  BY DEF BeginWithGet, repoVars
<1> QED
  BY <1>1, SameDocs, SameProgress, BeginAfter DEF DocsStep, ServiceInv, DocsInv

\* A request that arrives is not on its way yet.
LEMMA ArriveDocs ==
  ASSUME ServiceInv, DocsInv, NEW h \in Slots, Arrive(h)
  PROVE  DocsStep
<1>1. ASSUME NEW u \in Users, TriggerReKYC(h, u)
      PROVE  DocsStep
  <2>1. PICK a : a = GetByUserID(u)
    OBVIOUS
  <2>2. BeginWithGet(h, "rekyc", "reopen", a, "")
    BY <1>1, <2>1 DEF TriggerReKYC
  <2> QED
    BY <2>2, GetDocs
<1>2. ASSUME NEW u \in Users, NEW a \in AppIds, CreateApplication(h, u, a)
      PROVE  DocsStep
  <2>1. Create(u, a) /\ Begin(h, "create", "register", a, "") /\ UNCHANGED docs
    BY <1>2 DEF CreateApplication
  <2> QED
    BY <2>1, SameDocs, CreateProgress, BeginAfter DEF DocsStep, ServiceInv, HookInv, DocsInv
<1>3. ASSUME NEW a \in AppIds, NEW type \in DocTypes, UploadDocument(h, a, type)
      PROVE  DocsStep
  BY <1>3, GetDocs DEF UploadDocument
<1>4. ASSUME NEW a \in AppIds, StartLiveness(h, a)
      PROVE  DocsStep
  BY <1>4, GetDocs DEF StartLiveness
<1>5. ASSUME NEW a \in AppIds, RunScreening(h, a)
      PROVE  DocsStep
  BY <1>5, GetDocs DEF RunScreening
<1>6. ASSUME NEW a \in AppIds, NEW disposition \in Dispositions,
             DisposeScreening(h, a, disposition)
      PROVE  DocsStep
  BY <1>6, GetDocs DEF DisposeScreening
<1> QED
  BY <1>1, <1>2, <1>3, <1>4, <1>5, <1>6 DEF Arrive

\* A screening goes elsewhere than to DOCUMENTS_UPLOADED.
LEMMA RouteAfter ==
  ASSUME RequestsOK, AdvanceInv, DocsGrow, NEW h \in Slots, NEW flagged, Route(h, flagged)
  PROVE  AdvanceInv'
<1>1. PICK to : to = RouteTarget(flagged)
  OBVIOUS
<1>2. to # "DOCUMENTS_UPLOADED"
  BY <1>1 DEF RouteTarget
<1>3. AdvanceTo(h, to) \/ Answer(h)
  BY <1>1 DEF Route
<1> QED
  BY <1>2, <1>3, AdvanceToAfter, AnswerAfter

\* Steps of a request that leave the store alone: documents are only added,
\* and CheckDocuments alone sends an application to DOCUMENTS_UPLOADED.
LEMMA UnwrittenDocs ==
  ASSUME ServiceInv, DocsInv, NEW h \in Slots,
         \/ StoreDocument(h) \/ CheckDocuments(h) \/ Challenge(h)
         \/ Screen(h) \/ StoreHit(h) \/ SetDisposition(h) \/ Announce(h)
  PROVE  DocsStep
<1>1. ProgressMoves
  BY SameProgress DEF StoreDocument, CheckDocuments, Challenge, Screen, StoreHit,
                      SetDisposition, Announce, repoVars
<1> USE DEF ServiceInv, DocsInv, DocsStep
<1>2. CASE StoreDocument(h)
  <2>1. request[h] \in Request
        /\ docs' = [docs EXCEPT ![request[h].app] = docs[request[h].app] \union {request[h].arg}]
    BY <1>2 DEF StoreDocument, RequestsOK
  <2>2. request[h].arg \in DocTypes \union Dispositions \union {""}
    BY <2>1 DEF Request
  <2>3. DocsGrow
    BY <2>1, <2>2 DEF DocsGrow
  <2> QED
    BY <1>1, <1>2, <2>3, GoToAfter, AnswerAfter DEF StoreDocument
<1>3. CASE CheckDocuments(h)
  BY <1>1, <1>3, SameDocs, AdvanceToAfter, AnswerAfter DEF CheckDocuments
<1>4. CASE Challenge(h)
  BY <1>1, <1>4, SameDocs, AdvanceToAfter, AnswerAfter DEF Challenge
<1>5. CASE Screen(h)
  <2>1. DocsGrow
    BY <1>5, SameDocs DEF Screen
  <2>2. CASE Answer(h) \/ Route(h, 0 >= ScreeningThreshold)
    BY <1>1, <2>1, <2>2, AnswerAfter, RouteAfter
  <2>3. ASSUME NEW n \in 1 .. MaxHits,
               request' = [request EXCEPT ![h].pc = "store_hits", ![h].left = n,
                             ![h].to = RouteTarget(n >= ScreeningThreshold)]
        PROVE  AdvanceInv'
    <3>1. PICK r : r = [request[h] EXCEPT !.pc = "store_hits", !.left = n,
                          !.to = RouteTarget(n >= ScreeningThreshold)]
      OBVIOUS
    <3>2. request' = [request EXCEPT ![h] = r] /\ r.pc = "store_hits"
      BY <2>3, <3>1 DEF RequestsOK, Request
    <3> QED
      BY <2>1, <3>2, ElsewhereAfter
  <2> QED
    BY <1>1, <1>5, <2>1, <2>2, <2>3 DEF Screen
<1>6. CASE StoreHit(h)
  <2>1. DocsGrow
    BY <1>6, SameDocs DEF StoreHit
  <2>2. CASE request' = [request EXCEPT ![h].left = @ - 1]
    <3>1. PICK r : r = [request[h] EXCEPT !.left = request[h].left - 1]
      OBVIOUS
    <3>2. request' = [request EXCEPT ![h] = r] /\ r.pc = "store_hits"
      BY <1>6, <2>2, <3>1 DEF StoreHit, At, RequestsOK, Request
    <3> QED
      BY <1>1, <2>1, <3>2, ElsewhereAfter
  <2> QED
    BY <1>1, <1>6, <2>1, <2>2, RouteAfter DEF StoreHit
<1>7. CASE SetDisposition(h)
  BY <1>1, <1>7, SameDocs, AdvanceToAfter DEF SetDisposition
<1>8. CASE Announce(h)
  BY <1>1, <1>8, SameDocs, AnswerAfter DEF Announce
<1> QED
  BY <1>2, <1>3, <1>4, <1>5, <1>6, <1>7, <1>8

\* Steps of a request that may write.
LEMMA WrittenDocs ==
  ASSUME ServiceInv, DocsInv, NEW h \in Slots,
         RegisterApplicant(h) \/ Advance(h) \/ ReopenApplication(h)
  PROVE  DocsStep
<1> USE DEF ServiceInv, HookInv, DocsInv, DocsStep
<1>1. DocsGrow
  BY SameDocs DEF RegisterApplicant, Advance, ReopenApplication
<1>2. PICK a, version, to, actor :
        /\ a = request[h].app /\ version = request[h].version
        /\ to = request[h].to /\ actor = Actor(request[h].kind)
  OBVIOUS
<1>3. CASE RegisterApplicant(h)
  <2>1. SetVendorApplicantID(a) \/ UNCHANGED apps
    BY <1>2, <1>3 DEF RegisterApplicant, repoVars
  <2>2. ProgressMoves
    BY <2>1, RegisterProgress, SameProgress DEF SetVendorApplicantID, Exists
  <2> QED
    BY <1>1, <1>3, <2>2, AnswerAfter DEF RegisterApplicant
<1>4. CASE Advance(h)
  <2>1. UpdateState(a, version, to, actor) \/ UNCHANGED apps
    BY <1>2, <1>4 DEF Advance, repoVars
  <2>2. (to = "DOCUMENTS_UPLOADED" /\ a \in AppIds) => HasRequiredDocs(a)
    BY <1>2, <1>4 DEF Advance, At, AdvanceInv
  <2>3. ProgressMoves
    BY <2>1, <2>2, UpdateProgress, SameProgress DEF UpdateState, UpdateAccepted, Exists
  <2> QED
    BY <1>1, <1>4, <2>3, GoToAfter, AnswerAfter DEF Advance, AfterUpdate
<1>5. CASE ReopenApplication(h)
  <2>1. Reopen(a, version, "internal") \/ UNCHANGED apps
    BY <1>2, <1>5 DEF ReopenApplication, repoVars
  <2>2. ProgressMoves
    BY <2>1, ReopenProgress, SameProgress DEF Reopen, ReopenAccepted, Exists
  <2> QED
    BY <1>1, <1>5, <2>2, GoToAfter, AnswerAfter DEF ReopenApplication
<1> QED
  BY <1>3, <1>4, <1>5

\* Deliveries aim at neither STARTED nor DOCUMENTS_UPLOADED, and touch no document.
LEMMA IngestDocs ==
  ASSUME ServiceInv, DocsInv, NEW w \in Workers, Ingest(w)
  PROVE  ProgressMoves /\ AimsInv'
<1> USE DEF ServiceInv, HookInv, DocsInv
<1>1. worker \in [Workers -> Worker]
  BY DEF HookTypeOK, Worker
<1>2. CASE IngestGet(w)
  <2>1. UNCHANGED apps
    BY <1>2 DEF IngestGet, repoVars
  <2>2. \A outcome, state :
          reconcileOutcomeToState(outcome, state) \notin {"DOCUMENTS_UPLOADED", "STARTED"}
    BY DEF reconcileOutcomeToState
  <2>3. worker'[w].pc = "update" => worker'[w].to \notin {"DOCUMENTS_UPLOADED", "STARTED"}
    <3>1. PICK e, a : e = worker[w].event /\ a = ApplicationID(e)
      OBVIOUS
    <3>2. PICK target, version, from :
            /\ target = IF Exists(a) THEN reconcileOutcomeToState(e.outcome, apps[a].state)
                                     ELSE ""
            /\ version = apps[a].version /\ from = apps[a].state
      OBVIOUS
    <3>3. target \notin {"DOCUMENTS_UPLOADED", "STARTED"}
      BY <2>2, <3>2
    <3>4. \/ worker' = [worker EXCEPT ![w] = [worker[w] EXCEPT !.pc = "update", !.to = target,
                                                     !.version = version, !.from = from]]
          \/ worker' = [worker EXCEPT ![w] = [worker[w] EXCEPT !.pc = "reply"]]
      BY <1>2, <3>1, <3>2 DEF IngestGet
    <3> QED
      BY <1>1, <3>3, <3>4 DEF Worker
  <2>4. \A x \in Workers : x # w => worker'[x] = worker[x]
    BY <1>1, <1>2 DEF IngestGet
  <2> QED
    BY <2>1, <2>3, <2>4, SameProgress DEF AimsInv
<1>3. CASE IngestUpdate(w)
  <2>1. PICK a, version, to, key :
          /\ a = ApplicationID(worker[w].event) /\ version = worker[w].version
          /\ to = worker[w].to /\ key = Key(worker[w].event)
    OBVIOUS
  <2>2. to # "DOCUMENTS_UPLOADED"
    BY <1>3, <2>1 DEF IngestUpdate, AimsInv
  <2>3. UpdateState(a, version, to, key) \/ UNCHANGED apps
    BY <1>3, <2>1 DEF IngestUpdate, repoVars
  <2>4. ProgressMoves
    BY <2>2, <2>3, UpdateProgress, SameProgress DEF UpdateState, UpdateAccepted, Exists
  <2>5. AimsInv'
    BY <1>1, <1>3 DEF IngestUpdate, AimsInv, Worker
  <2> QED
    BY <2>4, <2>5
<1>4. CASE ~IngestGet(w) /\ ~IngestUpdate(w)
  <2>1. UNCHANGED apps
    BY <1>4 DEF Ingest, IngestRefused, IngestDuplicate, IngestUnparsable, IngestParsed,
                IngestReply, repoVars
  <2>2. CASE IngestReply(w)
    <3>1. worker' = [worker EXCEPT ![w] = Idle] /\ Idle.pc # "update"
      BY <2>2 DEF IngestReply, Idle
    <3> QED
      BY <1>1, <2>1, <3>1, SameProgress DEF AimsInv
  <2>3. ASSUME NEW e \in Events, IngestParsed(w, e)
        PROVE  ProgressMoves /\ AimsInv'
    <3>1. PICK r : r = [Idle EXCEPT !.pc = "get", !.event = e]
      OBVIOUS
    <3>2. worker' = [worker EXCEPT ![w] = r] /\ r.pc # "update"
      BY <2>3, <3>1 DEF IngestParsed, Idle
    <3> QED
      BY <1>1, <2>1, <3>2, SameProgress DEF AimsInv
  <2>4. ASSUME NEW e \in Events, IngestRefused(w, e) \/ IngestDuplicate(w, e)
                                 \/ IngestUnparsable(w, e)
        PROVE  ProgressMoves /\ AimsInv'
    BY <2>1, <2>4, SameProgress DEF IngestRefused, IngestDuplicate, IngestUnparsable,
                                    AimsInv
  <2> QED
    BY <1>4, <2>2, <2>3, <2>4 DEF Ingest
<1> QED
  BY <1>2, <1>3, <1>4

\* Every step of the service keeps it.
LEMMA DocsInvStep ==
  ASSUME ServiceInv, DocsInv, [ServiceNext]_vars
  PROVE  DocsInv'
<1> USE DEF ServiceInv, HookInv, DocsInv
<1>1. ASSUME UNCHANGED docs, UNCHANGED request
      PROVE  DocsGrow /\ AdvanceInv'
  BY <1>1, SameDocs DEF AdvanceInv, HasRequiredDocs
<1>2. ASSUME UNCHANGED hookVars
      PROVE  AimsInv'
  BY <1>2 DEF hookVars, AimsInv
<1>3. ASSUME NEW h \in Slots, Arrive(h) \/ Continue(h), UNCHANGED hookVars
      PROVE  DocsInv'
  <2>1. DocsStep
    BY <1>3, ArriveDocs, UnwrittenDocs, WrittenDocs DEF Continue
  <2> QED
    BY <1>2, <1>3, <2>1, ProgressAfter DEF DocsStep, DocsGrow
<1>4. ASSUME Tick, UNCHANGED hookVars
      PROVE  DocsInv'
  <2>1. UNCHANGED docs /\ UNCHANGED request
    BY <1>4 DEF Tick, TickList, TickReopen, TickAnnounce
  <2>2. ProgressMoves
    <3>1. CASE UNCHANGED apps
      BY <3>1, SameProgress
    <3>2. CASE TickReopen
      <4>1. PICK id, version : Reopen(id, version, "scheduler") \/ UNCHANGED apps
        BY <3>2 DEF TickReopen, repoVars
      <4> QED
        BY <4>1, ReopenProgress, SameProgress DEF Reopen, ReopenAccepted, Exists
    <3> QED
      BY <1>4, <3>1, <3>2 DEF Tick, TickList, TickAnnounce, repoVars
  <2> QED
    BY <1>1, <1>2, <1>4, <2>1, <2>2, ProgressAfter DEF DocsGrow
<1>5. ASSUME NEW a \in AppIds, Elapse(a), UNCHANGED <<hookVars, handlerVars>>
      PROVE  DocsInv'
  <2>1. UNCHANGED hookVars /\ UNCHANGED docs /\ UNCHANGED request
    BY <1>5 DEF handlerVars
  <2> QED
    BY <1>1, <1>2, <1>5, <2>1, ElapseProgress, ProgressAfter DEF DocsGrow
<1>6. ASSUME NEW w \in Workers, Ingest(w), UNCHANGED handlerVars
      PROVE  DocsInv'
  <2>1. UNCHANGED docs /\ UNCHANGED request
    BY <1>6 DEF handlerVars
  <2> QED
    BY <1>1, <1>6, <2>1, IngestDocs, ProgressAfter DEF DocsGrow
<1>7. ASSUME ServiceRestart
      PROVE  DocsInv'
  <2>1. /\ UNCHANGED docs /\ UNCHANGED apps
        /\ request' = [h \in Slots |-> NoRequest] /\ worker' = [w \in Workers |-> Idle]
    BY <1>7 DEF ServiceRestart, Restart, repoVars
  <2>2. AdvanceInv' /\ AimsInv'
    BY <2>1 DEF AdvanceInv, AimsInv, NoRequest, Idle
  <2> QED
    BY <2>1, <2>2, SameDocs, SameProgress, ProgressAfter DEF DocsGrow
<1>8. ASSUME UNCHANGED vars
      PROVE  DocsInv'
  <2>1. UNCHANGED hookVars /\ UNCHANGED docs /\ UNCHANGED request /\ UNCHANGED apps
    BY <1>8 DEF vars, handlerVars, repoVars
  <2> QED
    BY <1>1, <1>2, <2>1, SameProgress, ProgressAfter DEF DocsGrow
<1> QED
  BY <1>3, <1>4, <1>5, <1>6, <1>7, <1>8 DEF ServiceNext

\* Its inductive invariant.
LEMMA DocsInvariant == ServiceSpec => []DocsInv
<1>1. ASSUME ServiceInit
      PROVE  DocsInv
  <2>1. /\ docs = [a \in AppIds |-> {}] /\ apps = [a \in AppIds |-> NoApp]
        /\ request = [h \in Slots |-> NoRequest] /\ worker = [w \in Workers |-> Idle]
    BY <1>1 DEF ServiceInit, Init, HookInit, HandlerInit
  <2>2. AdvanceInv /\ AimsInv
    BY <2>1 DEF AdvanceInv, AimsInv, NoRequest, Idle
  <2>3. ProgressNeedsDocuments
    BY <2>1 DEF ProgressNeedsDocuments, Exists
  <2> QED
    BY <2>1, <2>2, <2>3 DEF DocsInv
<1>2. ServiceInv /\ DocsInv /\ [ServiceNext]_vars => DocsInv'
  BY DocsInvStep
<1> QED
  BY <1>1, <1>2, ServiceInvariant, PTL DEF ServiceSpec

\* An application leaves STARTED only with an ID front and a selfie on file:
\* the upload that sends it to DOCUMENTS_UPLOADED has counted them, documents
\* are never removed, and no webhook can send it there.
THEOREM ProgressIsDocumented == ServiceSpec => []ProgressNeedsDocuments
<1>1. DocsInv => ProgressNeedsDocuments
  BY DEF DocsInv
<1> QED
  BY <1>1, DocsInvariant, PTL

-----------------------------------------------------------------------------
(* The audit log against the trail, in the life of one process.  The       *)
(* announcements that are missing are on their way, in a request or in a   *)
(* scheduler pass.                                                         *)

Reopenings == {t \in Transition : t.to = "STARTED"}
Decisions == {t \in Transition : t.by = "analyst"}
Checks == {t \in Transition : t.to = "LIVENESS_PASSED" /\ t.by = "system"}

Marked(a, T) == {i \in 1 .. Len(trail[a]) : trail[a][i] \in T}
Recorded(a, T) == Cardinality(Marked(a, T))

\* What a request adds to PendingAnnouncements(a, kind).
Weight(r, a, kind) == IF r.pc = "announce" /\ r.app = a /\ r.kind = kind THEN 1 ELSE 0

\* One entry more in the trail counts where it belongs.
LEMMA RecordedAfter ==
  ASSUME IInv, NEW id \in AppIds, NEW newState, NEW actor,
         RecordTransition(id, newState, actor), NEW T, NEW a \in AppIds
  PROVE  /\ Recorded(a, T) \in Nat
         /\ Recorded(a, T)' =
              Recorded(a, T)
                + (IF a = id /\ [from |-> apps[id].state, to |-> newState, by |-> actor] \in T
                     THEN 1 ELSE 0)
<1> DEFINE e == [from |-> apps[id].state, to |-> newState, by |-> actor]
<1>1. trail' = [trail EXCEPT ![id] = Append(trail[id], e)]
  BY DEF RecordTransition
<1> HIDE DEF e
<1>2. trail \in [AppIds -> Seq(Transition)]
  BY DEF IInv, TypeOK
<1>3. Len(trail[a]) \in Nat
  BY <1>2
<1>4. IsFiniteSet(Marked(a, T)) /\ Recorded(a, T) \in Nat
  <2>1. IsFiniteSet(1 .. Len(trail[a])) /\ Marked(a, T) \in SUBSET (1 .. Len(trail[a]))
    BY <1>3, FS_Interval DEF Marked
  <2>2. IsFiniteSet(Marked(a, T))
    BY <2>1, FS_Subset
  <2> QED
    BY <2>2, FS_CardinalityType DEF Recorded
<1>5. CASE a # id
  <2>1. trail'[a] = trail[a]
    BY <1>1, <1>2, <1>5
  <2>2. Marked(a, T)' = Marked(a, T)
    BY <2>1 DEF Marked
  <2> QED
    BY <1>4, <1>5, <2>2 DEF Recorded
<1>6. CASE a = id
  <2>1. trail'[a] = Append(trail[a], e)
    BY <1>1, <1>2, <1>6
  <2>2. /\ Len(trail'[a]) = Len(trail[a]) + 1
        /\ \A i \in 1 .. Len(trail[a]) : trail'[a][i] = trail[a][i]
        /\ trail'[a][Len(trail[a]) + 1] = e
    BY <1>2, <2>1
  <2>3. Len(trail[a]) + 1 \notin Marked(a, T)
    BY <1>3 DEF Marked
  <2>4. CASE e \in T
    <3>1. Marked(a, T)' = Marked(a, T) \union {Len(trail[a]) + 1}
      BY <1>3, <2>2, <2>4 DEF Marked
    <3> QED
      BY <1>4, <1>6, <2>3, <2>4, <3>1, FS_AddElement DEF Recorded, e
  <2>5. CASE e \notin T
    <3>1. Marked(a, T)' = Marked(a, T)
      BY <1>3, <2>2, <2>5 DEF Marked
    <3> QED
      BY <1>4, <1>6, <2>5, <3>1 DEF Recorded, e
  <2> QED
    BY <2>4, <2>5
<1> QED
  BY <1>5, <1>6

\* What a write records for the three accounts.
LEMMA WriteRecords ==
  ASSUME IInv, NEW id \in AppIds, apps[id] # NoApp, NEW to \in States, NEW actor \in Actors,
         RecordTransition(id, to, actor), NEW a \in AppIds
  PROVE  /\ Recorded(a, Reopenings) \in Nat
         /\ Recorded(a, Decisions) \in Nat
         /\ Recorded(a, Checks) \in Nat
         /\ Recorded(a, Reopenings)' =
              Recorded(a, Reopenings) + (IF a = id /\ to = "STARTED" THEN 1 ELSE 0)
         /\ Recorded(a, Decisions)' =
              Recorded(a, Decisions) + (IF a = id /\ actor = "analyst" THEN 1 ELSE 0)
         /\ Recorded(a, Checks)' =
              Recorded(a, Checks)
                + (IF a = id /\ to = "LIVENESS_PASSED" /\ actor = "system" THEN 1 ELSE 0)
<1> DEFINE e == [from |-> apps[id].state, to |-> to, by |-> actor]
<1>1. e \in Transition /\ e.to = to /\ e.by = actor
  BY DEF IInv, TypeOK, Application, Transition
<1>2. /\ e \in Reopenings <=> to = "STARTED"
      /\ e \in Decisions <=> actor = "analyst"
      /\ e \in Checks <=> (to = "LIVENESS_PASSED" /\ actor = "system")
  BY <1>1 DEF Reopenings, Decisions, Checks
<1> QED
  BY <1>2, RecordedAfter

\* One request changes: so does what is on its way to be announced.
LEMMA PendingAfter ==
  ASSUME RequestsOK, NEW h \in Slots, NEW r, request' = [request EXCEPT ![h] = r],
         NEW a, NEW kind
  PROVE  /\ PendingAnnouncements(a, kind) \in Nat
         /\ PendingAnnouncements(a, kind)' \in Nat
         /\ PendingAnnouncements(a, kind)' + Weight(request[h], a, kind) =
              PendingAnnouncements(a, kind) + Weight(r, a, kind)
<1> DEFINE Waits(x) == x.pc = "announce" /\ x.app = a /\ x.kind = kind
           S == {x \in Slots : Waits(request[x])}
           S1 == {x \in Slots : Waits(request'[x])}
           R == {x \in Slots : x # h /\ Waits(request[x])}
<1>1. PendingAnnouncements(a, kind) = Cardinality(S)
      /\ PendingAnnouncements(a, kind)' = Cardinality(S1)
  BY DEF PendingAnnouncements, At
<1>2. request'[h] = r /\ \A x \in Slots : x # h => request'[x] = request[x]
  BY DEF RequestsOK
<1>3. IsFiniteSet(R) /\ Cardinality(R) \in Nat /\ h \notin R
  BY SlotsAssumption, FS_Subset, FS_CardinalityType
<1>4. /\ S = IF Waits(request[h]) THEN R \union {h} ELSE R
      /\ S1 = IF Waits(r) THEN R \union {h} ELSE R
  BY <1>2
<1>5. /\ Weight(request[h], a, kind) = IF Waits(request[h]) THEN 1 ELSE 0
      /\ Weight(r, a, kind) = IF Waits(r) THEN 1 ELSE 0
  BY DEF Weight
<1> HIDE DEF S, S1, R, Waits
<1>6. Cardinality(R \union {h}) = Cardinality(R) + 1
  BY <1>3, FS_AddElement
<1> QED
  BY <1>1, <1>3, <1>4, <1>5, <1>6
\* The step a request is at tells its kind and where it may move to.
Controlled(r) ==
  /\ r.pc # "idle" => r.app \in AppIds
  /\ r.pc \in {"store", "check"} => r.kind = "upload"
  /\ r.pc = "challenge" => r.kind = "liveness"
  /\ r.pc \in {"screen", "store_hits"} => r.kind = "screening"
  /\ r.pc = "dispose" => r.kind = "disposition"
  /\ r.pc = "reopen" => r.kind = "rekyc"
  /\ r.pc = "announce" => r.kind \in {"liveness", "disposition", "rekyc"}
  /\ r.pc = "advance" =>
       /\ r.to # "STARTED"
       /\ r.kind \in {"upload", "liveness", "screening", "disposition"}
       /\ r.to = "LIVENESS_PASSED" <=> r.kind = "liveness"

\* The first step of a request of each kind.
Opens(kind, pc) ==
  \/ kind = "create" /\ pc = "register"
  \/ kind = "upload" /\ pc = "store"
  \/ kind = "liveness" /\ pc = "challenge"
  \/ kind = "screening" /\ pc = "screen"
  \/ kind = "disposition" /\ pc = "dispose"
  \/ kind = "rekyc" /\ pc = "reopen"

ControlInv == \A h \in Slots : Controlled(request[h])

\* What an application's trail records is announced, or on its way there.
Balanced(a) ==
  /\ Recorded(a, Reopenings) =
       announced[a]["re_kyc"] + PendingAnnouncements(a, "rekyc")
         + (IF tick.announce = a THEN 1 ELSE 0)
  /\ Recorded(a, Decisions) =
       announced[a]["screening_disposition"] + PendingAnnouncements(a, "disposition")
  /\ Recorded(a, Checks) + refused[a]["liveness"] =
       announced[a]["liveness_passed"] + PendingAnnouncements(a, "liveness")

LedgerInv ==
  /\ announced \in [AppIds -> [Announcements -> Nat]]
  /\ refused \in [AppIds -> [Kinds -> Nat]]
  /\ \A a \in AppIds : Balanced(a)

AuditInv == ControlInv /\ LedgerInv

\* Nothing new to announce, and nothing announced.
Unheard ==
  /\ ControlInv'
  /\ \A a, kind : PendingAnnouncements(a, kind)' = PendingAnnouncements(a, kind)

\* One request changes, to one whose step and kind agree.
LEMMA ControlAfter ==
  ASSUME RequestsOK, ControlInv, NEW h \in Slots, NEW r, request' = [request EXCEPT ![h] = r],
         Controlled(r)
  PROVE  ControlInv'
BY DEF ControlInv, Controlled, RequestsOK

\* A request that goes on without announcing anything.
LEMMA SlideAfter ==
  ASSUME RequestsOK, ControlInv, NEW h \in Slots, NEW r, request' = [request EXCEPT ![h] = r],
         Controlled(r), request[h].pc # "announce", r.pc # "announce"
  PROVE  Unheard
<1>1. ASSUME NEW a, NEW kind
      PROVE  PendingAnnouncements(a, kind)' = PendingAnnouncements(a, kind)
  <2>1. Weight(request[h], a, kind) = 0 /\ Weight(r, a, kind) = 0
    BY DEF Weight
  <2>2. /\ PendingAnnouncements(a, kind) \in Nat
        /\ PendingAnnouncements(a, kind)' \in Nat
        /\ PendingAnnouncements(a, kind)' + Weight(request[h], a, kind) =
             PendingAnnouncements(a, kind) + Weight(r, a, kind)
    BY PendingAfter
  <2> QED
    BY <2>1, <2>2
<1> QED
  BY <1>1, ControlAfter DEF Unheard

\* A request that is answered.
LEMMA AnswerSlides ==
  ASSUME RequestsOK, ControlInv, NEW h \in Slots, request[h].pc # "announce", Answer(h)
  PROVE  Unheard
<1>1. Controlled(NoRequest) /\ NoRequest.pc # "announce"
  BY DEF Controlled, NoRequest
<1> QED
  BY <1>1, SlideAfter DEF Answer

\* An upload that is going to count the documents.
LEMMA CheckSlides ==
  ASSUME RequestsOK, ControlInv, NEW h \in Slots, request[h].pc = "store", GoTo(h, "check")
  PROVE  Unheard
<1>1. PICK r : r = [request[h] EXCEPT !.pc = "check"]
  OBVIOUS
<1>2. request' = [request EXCEPT ![h] = r]
  BY <1>1 DEF GoTo
<1>3. r.pc = "check" /\ r.kind = request[h].kind /\ r.app = request[h].app
  BY <1>1 DEF RequestsOK, Request
<1>4. Controlled(r)
  BY <1>3 DEF ControlInv, Controlled
<1> QED
  BY <1>2, <1>3, <1>4, SlideAfter

\* A request that is about to update.
LEMMA AdvanceToSlides ==
  ASSUME RequestsOK, ControlInv, NEW h \in Slots, NEW to, AdvanceTo(h, to),
         request[h].pc \in {"check", "challenge", "screen", "store_hits", "dispose"},
         to # "STARTED", to = "LIVENESS_PASSED" <=> request[h].pc = "challenge"
  PROVE  Unheard
<1>1. PICK r : r = [request[h] EXCEPT !.pc = "advance", !.to = to]
  OBVIOUS
<1>2. request' = [request EXCEPT ![h] = r]
  BY <1>1 DEF AdvanceTo
<1>3. r.pc = "advance" /\ r.kind = request[h].kind /\ r.app = request[h].app /\ r.to = to
  BY <1>1 DEF RequestsOK, Request
<1>4. Controlled(r)
  BY <1>3 DEF ControlInv, Controlled
<1> QED
  BY <1>2, <1>3, <1>4, SlideAfter

\* A request that arrives.
LEMMA BeginSlides ==
  ASSUME RequestsOK, ControlInv, NEW h \in Slots, NEW kind, NEW pc, NEW a \in AppIds, NEW arg,
         Opens(kind, pc),
         Begin(h, kind, pc, a, arg)
  PROVE  Unheard
<1>1. PICK r :
        r = [NoRequest EXCEPT !.kind = kind, !.pc = pc, !.app = a, !.arg = arg,
                              !.version = apps'[a].version, !.state = apps'[a].state]
  OBVIOUS
<1>2. request' = [request EXCEPT ![h] = r] /\ request[h].pc = "idle"
  BY <1>1, Zenon DEF Begin, At
<1>3. r.pc = pc /\ r.kind = kind /\ r.app = a
  BY <1>1 DEF NoRequest
<1>4. Controlled(r) /\ r.pc # "announce"
  BY <1>3 DEF Controlled, Opens
<1> QED
  BY <1>2, <1>4, SlideAfter
\* A step that neither records, announces nor refuses a liveness check.
LEMMA NeutralAfter ==
  ASSUME LedgerInv, UNCHANGED trail, UNCHANGED announced, tick'.announce = tick.announce,
         refused' \in [AppIds -> [Kinds -> Nat]],
         \A a \in AppIds : refused'[a]["liveness"] = refused[a]["liveness"],
         Unheard
  PROVE  AuditInv'
<1>1. \A a, T : Recorded(a, T)' = Recorded(a, T)
  BY DEF Recorded, Marked
<1> QED
  BY <1>1 DEF Unheard, AuditInv, LedgerInv, Balanced

\* One more move refused to a request.
LEMMA RefusedAfter ==
  ASSUME LedgerInv, NEW h \in Slots, request[h].app \in AppIds, request[h].kind \in Kinds,
         NoteRefused(h)
  PROVE  /\ refused' \in [AppIds -> [Kinds -> Nat]]
         /\ \A a \in AppIds :
              refused'[a]["liveness"] =
                refused[a]["liveness"]
                  + (IF a = request[h].app /\ request[h].kind = "liveness" THEN 1 ELSE 0)
<1>1. PICK id, kind : id = request[h].app /\ kind = request[h].kind
  OBVIOUS
<1>2. refused \in [AppIds -> [Kinds -> Nat]]
  BY DEF LedgerInv
<1>3. PICK row : row = [refused[id] EXCEPT ![kind] = refused[id][kind] + 1]
  OBVIOUS
<1>4. refused' = [refused EXCEPT ![id] = row]
  BY <1>1, <1>3, Zenon DEF NoteRefused
<1>5. row \in [Kinds -> Nat] /\ row[kind] = refused[id][kind] + 1
      /\ \A k \in Kinds : k # kind => row[k] = refused[id][k]
  BY <1>1, <1>2, <1>3
<1>6. "liveness" \in Kinds
  BY DEF Kinds
<1> QED
  BY <1>1, <1>2, <1>4, <1>5, <1>6

\* One more announcement.
LEMMA AnnouncedAfter ==
  ASSUME LedgerInv, NEW id \in AppIds, NEW title \in Announcements,
         announced' = [announced EXCEPT ![id][title] = announced[id][title] + 1]
  PROVE  /\ announced' \in [AppIds -> [Announcements -> Nat]]
         /\ \A a \in AppIds, t \in Announcements :
              announced'[a][t] = announced[a][t] + (IF a = id /\ t = title THEN 1 ELSE 0)
<1>1. announced \in [AppIds -> [Announcements -> Nat]]
  BY DEF LedgerInv
<1>2. PICK row : row = [announced[id] EXCEPT ![title] = announced[id][title] + 1]
  OBVIOUS
<1>3. announced' = [announced EXCEPT ![id] = row]
  BY <1>2, Zenon
<1>4. row \in [Announcements -> Nat] /\ row[title] = announced[id][title] + 1
      /\ \A t \in Announcements : t # title => row[t] = announced[id][t]
  BY <1>1, <1>2
<1> QED
  BY <1>1, <1>3, <1>4

\* A request that begins with Repo.Get.
LEMMA GetAudit ==
  ASSUME RequestsOK, AuditInv, NEW h \in Slots, NEW kind, NEW pc, NEW a, NEW arg,
         Opens(kind, pc),
         BeginWithGet(h, kind, pc, a, arg)
  PROVE  AuditInv'
<1>1. /\ UNCHANGED <<trail, announced, tick, refused>>
      /\ a \in AppIds /\ Begin(h, kind, pc, a, arg)
  BY DEF BeginWithGet, repoVars, Exists
<1>2. Unheard
  BY <1>1, BeginSlides DEF AuditInv
<1> QED
  BY <1>1, <1>2, NeutralAfter DEF AuditInv, LedgerInv

\* A request that arrives has nothing to announce yet.
LEMMA ArriveAudit ==
  ASSUME RequestsOK, AuditInv, NEW h \in Slots, Arrive(h)
  PROVE  AuditInv'
<1>1. ASSUME NEW u \in Users, TriggerReKYC(h, u)
      PROVE  AuditInv'
  <2>1. PICK a : a = GetByUserID(u)
    OBVIOUS
  <2>2. BeginWithGet(h, "rekyc", "reopen", a, "")
    BY <1>1, <2>1 DEF TriggerReKYC
  <2> QED
    BY <2>2, GetAudit DEF Opens
<1>2. ASSUME NEW u \in Users, NEW a \in AppIds, CreateApplication(h, u, a)
      PROVE  AuditInv'
  <2>1. /\ UNCHANGED <<trail, announced, tick, refused>>
        /\ Begin(h, "create", "register", a, "")
    BY <1>2 DEF CreateApplication, Create
  <2>2. Unheard
    BY <2>1, BeginSlides DEF AuditInv, Opens
  <2> QED
    BY <2>1, <2>2, NeutralAfter DEF AuditInv, LedgerInv
<1>3. ASSUME NEW a \in AppIds, NEW type \in DocTypes, UploadDocument(h, a, type)
      PROVE  AuditInv'
  BY <1>3, GetAudit DEF Opens, UploadDocument
<1>4. ASSUME NEW a \in AppIds, StartLiveness(h, a)
      PROVE  AuditInv'
  BY <1>4, GetAudit DEF Opens, StartLiveness
<1>5. ASSUME NEW a \in AppIds, RunScreening(h, a)
      PROVE  AuditInv'
  BY <1>5, GetAudit DEF Opens, RunScreening
<1>6. ASSUME NEW a \in AppIds, NEW disposition \in Dispositions,
             DisposeScreening(h, a, disposition)
      PROVE  AuditInv'
  BY <1>6, GetAudit DEF Opens, DisposeScreening
<1> QED
  BY <1>1, <1>2, <1>3, <1>4, <1>5, <1>6 DEF Arrive
\* A screening that is routed, or whose referral is refused.
LEMMA RouteAudit ==
  ASSUME RequestsOK, AuditInv, NEW h \in Slots, NEW flagged,
         request[h].pc \in {"screen", "store_hits"}, Route(h, flagged),
         UNCHANGED <<trail, announced, tick>>
  PROVE  AuditInv'
<1>1. request[h].kind = "screening" /\ request[h].app \in AppIds /\ "screening" \in Kinds
  BY DEF AuditInv, ControlInv, Controlled, Kinds
<1>2. PICK to : to = RouteTarget(flagged)
  OBVIOUS
<1>3. to \notin {"STARTED", "LIVENESS_PASSED"}
  BY <1>2 DEF RouteTarget
<1>4. CASE AdvanceTo(h, to) /\ UNCHANGED refused
  <2>1. Unheard
    BY <1>3, <1>4, AdvanceToSlides DEF AuditInv
  <2> QED
    BY <1>4, <2>1, NeutralAfter DEF AuditInv, LedgerInv
<1>5. CASE Answer(h) /\ NoteRefused(h)
  <2>1. Unheard
    BY <1>5, AnswerSlides DEF AuditInv
  <2>2. /\ refused' \in [AppIds -> [Kinds -> Nat]]
        /\ \A a \in AppIds :
             refused'[a]["liveness"] =
               refused[a]["liveness"]
                 + (IF a = request[h].app /\ request[h].kind = "liveness" THEN 1 ELSE 0)
    BY <1>1, <1>5, RefusedAfter DEF AuditInv
  <2>3. \A a \in AppIds : refused'[a]["liveness"] = refused[a]["liveness"]
    BY <1>1, <2>2 DEF AuditInv, LedgerInv, Kinds
  <2> QED
    BY <2>1, <2>2, <2>3, NeutralAfter DEF AuditInv
<1> QED
  BY <1>2, <1>4, <1>5 DEF Route

\* A screening that found hits goes on to store them.
LEMMA StoringSlides ==
  ASSUME RequestsOK, ControlInv, NEW h \in Slots, request[h].pc \in {"screen", "store_hits"},
         NEW r, request' = [request EXCEPT ![h] = r],
         r.pc = "store_hits", r.kind = request[h].kind, r.app = request[h].app
  PROVE  Unheard
<1>1. Controlled(r)
  BY DEF ControlInv, Controlled
<1> QED
  BY <1>1, SlideAfter

\* Steps of a request that leave the store and the audit log alone.
LEMMA UnheardAudit ==
  ASSUME RequestsOK, AuditInv, NEW h \in Slots,
         \/ RegisterApplicant(h) \/ StoreDocument(h) \/ CheckDocuments(h) \/ Challenge(h)
         \/ Screen(h) \/ StoreHit(h) \/ SetDisposition(h)
  PROVE  AuditInv'
<1>1. UNCHANGED <<trail, announced, tick>>
  BY DEF RegisterApplicant, StoreDocument, CheckDocuments, Challenge, Screen, StoreHit,
         SetDisposition, SetVendorApplicantID, repoVars
<1>2. ControlInv /\ LedgerInv
  BY DEF AuditInv
<1>3. ASSUME UNCHANGED refused, Unheard
      PROVE  AuditInv'
  BY <1>1, <1>2, <1>3, NeutralAfter DEF LedgerInv
<1>4. CASE RegisterApplicant(h)
  BY <1>2, <1>3, <1>4, AnswerSlides DEF RegisterApplicant, At
<1>5. CASE StoreDocument(h)
  BY <1>2, <1>3, <1>5, AnswerSlides, CheckSlides DEF StoreDocument, At
<1>6. CASE CheckDocuments(h)
  BY <1>2, <1>3, <1>6, AnswerSlides, AdvanceToSlides DEF CheckDocuments, At
<1>7. CASE Challenge(h)
  BY <1>2, <1>3, <1>7, AnswerSlides, AdvanceToSlides DEF Challenge, At
<1>8. CASE Screen(h)
  <2>1. request[h].pc = "screen"
    BY <1>8 DEF Screen, At
  <2>2. CASE Answer(h) /\ UNCHANGED refused
    BY <1>2, <1>3, <2>1, <2>2, AnswerSlides
  <2>3. CASE Route(h, 0 >= ScreeningThreshold)
    BY <1>1, <2>1, <2>3, RouteAudit
  <2>4. ASSUME NEW n \in 1 .. MaxHits, UNCHANGED refused,
               request' = [request EXCEPT ![h].pc = "store_hits", ![h].left = n,
                             ![h].to = RouteTarget(n >= ScreeningThreshold)]
        PROVE  AuditInv'
    <3>1. PICK r : r = [request[h] EXCEPT !.pc = "store_hits", !.left = n,
                          !.to = RouteTarget(n >= ScreeningThreshold)]
      OBVIOUS
    <3>2. /\ request' = [request EXCEPT ![h] = r]
          /\ r.pc = "store_hits" /\ r.kind = request[h].kind /\ r.app = request[h].app
      BY <2>4, <3>1 DEF RequestsOK, Request
    <3> QED
      BY <1>2, <1>3, <2>1, <2>4, <3>2, StoringSlides
  <2> QED
    BY <1>8, <2>2, <2>3, <2>4 DEF Screen
<1>9. CASE StoreHit(h)
  <2>1. request[h].pc = "store_hits"
    BY <1>9 DEF StoreHit, At
  <2>2. CASE request' = [request EXCEPT ![h].left = @ - 1] /\ UNCHANGED refused
    <3>1. PICK r : r = [request[h] EXCEPT !.left = request[h].left - 1]
      OBVIOUS
    <3>2. /\ request' = [request EXCEPT ![h] = r]
          /\ r.pc = "store_hits" /\ r.kind = request[h].kind /\ r.app = request[h].app
      BY <2>1, <2>2, <3>1 DEF RequestsOK, Request
    <3> QED
      BY <1>2, <1>3, <2>1, <2>2, <3>2, StoringSlides
  <2>3. CASE Route(h, request[h].to = "MANUAL_REVIEW")
    BY <1>1, <2>1, <2>3, RouteAudit
  <2> QED
    BY <1>9, <2>2, <2>3 DEF StoreHit
<1>10. CASE SetDisposition(h)
  <2>1. PICK to : to = IF request[h].arg = "CLEAR" THEN "PASS" ELSE "FAIL"
    OBVIOUS
  <2>2. AdvanceTo(h, to) /\ UNCHANGED refused /\ request[h].pc = "dispose"
    BY <1>10, <2>1 DEF SetDisposition, At
  <2>3. to \notin {"STARTED", "LIVENESS_PASSED"}
    BY <2>1
  <2> QED
    BY <1>2, <1>3, <2>2, <2>3, AdvanceToSlides
<1> QED
  BY <1>4, <1>5, <1>6, <1>7, <1>8, <1>9, <1>10
\* The requests are left alone.
LEMMA SamePending ==
  ASSUME UNCHANGED request, NEW a, NEW kind
  PROVE  PendingAnnouncements(a, kind)' = PendingAnnouncements(a, kind)
BY DEF PendingAnnouncements, At

\* Counts are naturals.
LEMMA PendingType ==
  ASSUME NEW a, NEW kind
  PROVE  PendingAnnouncements(a, kind) \in Nat
<1> DEFINE S == {h \in Slots : At(h, "announce") /\ request[h].app = a /\ request[h].kind = kind}
<1>1. IsFiniteSet(S)
  BY SlotsAssumption, FS_Subset
<1>2. Cardinality(S) \in Nat
  BY <1>1, FS_CardinalityType
<1> QED
  BY <1>2 DEF PendingAnnouncements

\* The announcement itself: what was on its way is in the log.
LEMMA AnnounceAudit ==
  ASSUME RequestsOK, AuditInv, IInv, NEW h \in Slots, Announce(h)
  PROVE  AuditInv'
<1>1. PICK id, kind : id = request[h].app /\ kind = request[h].kind
  OBVIOUS
<1>2. /\ id \in AppIds /\ kind \in {"liveness", "disposition", "rekyc"}
      /\ request[h].pc = "announce"
  BY <1>1 DEF Announce, At, AuditInv, ControlInv, Controlled
<1>3. PICK title : title = AnnouncementOf(kind)
  OBVIOUS
<1>4. /\ title \in Announcements
      /\ title = "liveness_passed" <=> kind = "liveness"
      /\ title = "screening_disposition" <=> kind = "disposition"
      /\ title = "re_kyc" <=> kind = "rekyc"
  BY <1>2, <1>3 DEF AnnouncementOf, Announcements
<1>5. announced' = [announced EXCEPT ![id][title] = announced[id][title] + 1]
  BY <1>1, <1>3 DEF Announce
<1>6. /\ announced' \in [AppIds -> [Announcements -> Nat]]
      /\ \A a \in AppIds, t \in Announcements :
           announced'[a][t] = announced[a][t] + (IF a = id /\ t = title THEN 1 ELSE 0)
  BY <1>2, <1>4, <1>5, AnnouncedAfter DEF AuditInv
<1>7. request' = [request EXCEPT ![h] = NoRequest] /\ UNCHANGED <<trail, tick, refused>>
  BY DEF Announce, Answer, repoVars
<1>8. ControlInv'
  <2>1. Controlled(NoRequest)
    BY DEF Controlled, NoRequest
  <2> QED
    BY <1>7, <2>1, ControlAfter DEF AuditInv
<1>9. ASSUME NEW a \in AppIds
      PROVE  Balanced(a)'
  <2>1. \A T : Recorded(a, T)' = Recorded(a, T)
    BY <1>7 DEF Recorded, Marked
  <2>2. ASSUME NEW k
        PROVE  /\ PendingAnnouncements(a, k) \in Nat
               /\ PendingAnnouncements(a, k)' \in Nat
               /\ PendingAnnouncements(a, k) =
                    PendingAnnouncements(a, k)' + (IF a = id /\ k = kind THEN 1 ELSE 0)
    <3>1. /\ PendingAnnouncements(a, k) \in Nat
          /\ PendingAnnouncements(a, k)' \in Nat
          /\ PendingAnnouncements(a, k)' + Weight(request[h], a, k) =
               PendingAnnouncements(a, k) + Weight(NoRequest, a, k)
      BY <1>7, PendingAfter
    <3>2. /\ Weight(request[h], a, k) = (IF a = id /\ k = kind THEN 1 ELSE 0)
          /\ Weight(NoRequest, a, k) = 0
      BY <1>1, <1>2 DEF Weight, NoRequest
    <3> QED
      BY <3>1, <3>2
  <2>3. /\ announced[a]["re_kyc"] \in Nat
        /\ announced[a]["screening_disposition"] \in Nat
        /\ announced[a]["liveness_passed"] \in Nat
        /\ refused[a]["liveness"] \in Nat
    BY DEF AuditInv, LedgerInv, Announcements, Kinds
  <2>4. /\ announced'[a]["re_kyc"] =
             announced[a]["re_kyc"] + (IF a = id /\ kind = "rekyc" THEN 1 ELSE 0)
        /\ announced'[a]["screening_disposition"] =
             announced[a]["screening_disposition"]
               + (IF a = id /\ kind = "disposition" THEN 1 ELSE 0)
        /\ announced'[a]["liveness_passed"] =
             announced[a]["liveness_passed"] + (IF a = id /\ kind = "liveness" THEN 1 ELSE 0)
    BY <1>4, <1>6 DEF Announcements
  <2>5. Balanced(a)
    BY DEF AuditInv, LedgerInv
  <2>6. Recorded(a, Reopenings)' =
          announced'[a]["re_kyc"] + PendingAnnouncements(a, "rekyc")'
            + (IF tick'.announce = a THEN 1 ELSE 0)
    <3>1. Recorded(a, Reopenings)' = Recorded(a, Reopenings) /\ tick' = tick
      BY <1>7, <2>1
    <3>2. /\ PendingAnnouncements(a, "rekyc") \in Nat
          /\ PendingAnnouncements(a, "rekyc")' \in Nat
          /\ PendingAnnouncements(a, "rekyc") =
               PendingAnnouncements(a, "rekyc")' + (IF a = id /\ "rekyc" = kind THEN 1 ELSE 0)
      BY <2>2
    <3> QED
      BY <2>3, <2>4, <2>5, <3>1, <3>2 DEF Balanced
  <2>7. Recorded(a, Decisions)' =
          announced'[a]["screening_disposition"] + PendingAnnouncements(a, "disposition")'
    <3>1. Recorded(a, Decisions)' = Recorded(a, Decisions)
      BY <2>1
    <3>2. /\ PendingAnnouncements(a, "disposition") \in Nat
          /\ PendingAnnouncements(a, "disposition")' \in Nat
          /\ PendingAnnouncements(a, "disposition") =
               PendingAnnouncements(a, "disposition")'
                 + (IF a = id /\ "disposition" = kind THEN 1 ELSE 0)
      BY <2>2
    <3> QED
      BY <2>3, <2>4, <2>5, <3>1, <3>2 DEF Balanced
  <2>8. Recorded(a, Checks)' + refused'[a]["liveness"] =
          announced'[a]["liveness_passed"] + PendingAnnouncements(a, "liveness")'
    <3>1. Recorded(a, Checks)' = Recorded(a, Checks) /\ refused' = refused
      BY <1>7, <2>1
    <3>2. /\ PendingAnnouncements(a, "liveness") \in Nat
          /\ PendingAnnouncements(a, "liveness")' \in Nat
          /\ PendingAnnouncements(a, "liveness") =
               PendingAnnouncements(a, "liveness")'
                 + (IF a = id /\ "liveness" = kind THEN 1 ELSE 0)
      BY <2>2
    <3> QED
      BY <2>3, <2>4, <2>5, <3>1, <3>2 DEF Balanced
  <2> QED
    BY <2>6, <2>7, <2>8 DEF Balanced
<1> QED
  BY <1>6, <1>7, <1>8, <1>9 DEF AuditInv, LedgerInv
\* Counts are naturals here as well.
LEMMA RecordedType ==
  ASSUME IInv, NEW a \in AppIds, NEW T
  PROVE  Recorded(a, T) \in Nat
<1>1. Len(trail[a]) \in Nat
  BY DEF IInv, TypeOK
<1>2. IsFiniteSet(1 .. Len(trail[a])) /\ Marked(a, T) \in SUBSET (1 .. Len(trail[a]))
  BY <1>1, FS_Interval DEF Marked
<1>3. IsFiniteSet(Marked(a, T))
  BY <1>2, FS_Subset
<1> QED
  BY <1>3, FS_CardinalityType DEF Recorded

\* What a step records is on its way to be announced.
LEMMA BalancedAfter ==
  ASSUME LedgerInv, NEW a \in AppIds, UNCHANGED announced, tick'.announce = tick.announce,
         NEW x \in Nat, NEW y \in Nat, NEW z \in Nat, NEW l \in Nat,
         Recorded(a, Reopenings) \in Nat, Recorded(a, Reopenings)' = Recorded(a, Reopenings) + x,
         Recorded(a, Decisions) \in Nat, Recorded(a, Decisions)' = Recorded(a, Decisions) + y,
         Recorded(a, Checks) \in Nat, Recorded(a, Checks)' = Recorded(a, Checks) + z,
         refused'[a]["liveness"] = refused[a]["liveness"] + l,
         PendingAnnouncements(a, "rekyc")' = PendingAnnouncements(a, "rekyc") + x,
         PendingAnnouncements(a, "disposition")' = PendingAnnouncements(a, "disposition") + y,
         PendingAnnouncements(a, "liveness")' = PendingAnnouncements(a, "liveness") + z + l
  PROVE  Balanced(a)'
<1>1. /\ announced[a]["re_kyc"] \in Nat
      /\ announced[a]["screening_disposition"] \in Nat
      /\ announced[a]["liveness_passed"] \in Nat
      /\ refused[a]["liveness"] \in Nat
  BY DEF LedgerInv, Announcements, Kinds
<1>2. /\ PendingAnnouncements(a, "rekyc") \in Nat
      /\ PendingAnnouncements(a, "disposition") \in Nat
      /\ PendingAnnouncements(a, "liveness") \in Nat
  BY PendingType
<1>3. Balanced(a)
  BY DEF LedgerInv
<1>4. Recorded(a, Reopenings)' =
        announced'[a]["re_kyc"] + PendingAnnouncements(a, "rekyc")'
          + (IF tick'.announce = a THEN 1 ELSE 0)
  BY <1>1, <1>2, <1>3 DEF Balanced
<1>5. Recorded(a, Decisions)' =
        announced'[a]["screening_disposition"] + PendingAnnouncements(a, "disposition")'
  BY <1>1, <1>2, <1>3 DEF Balanced
<1>6. Recorded(a, Checks)' + refused'[a]["liveness"] =
        announced'[a]["liveness_passed"] + PendingAnnouncements(a, "liveness")'
  <2>1. Recorded(a, Checks) + refused[a]["liveness"] =
          announced[a]["liveness_passed"] + PendingAnnouncements(a, "liveness")
    BY <1>3 DEF Balanced
  <2> QED
    BY <1>1, <1>2, <2>1
<1> QED
  BY <1>4, <1>5, <1>6 DEF Balanced

Speaks(r) == r.pc = "announce"

\* A request that is going to announce what it did.
LEMMA SpeakAfter ==
  ASSUME RequestsOK, NEW h \in Slots, NEW r, request' = [request EXCEPT ![h] = r],
         request[h].pc # "announce", Speaks(r), NEW a, NEW kind
  PROVE  PendingAnnouncements(a, kind)' =
           PendingAnnouncements(a, kind) + (IF a = r.app /\ kind = r.kind THEN 1 ELSE 0)
<1>1. PendingAnnouncements(a, kind)' + Weight(request[h], a, kind) =
        PendingAnnouncements(a, kind) + Weight(r, a, kind)
  BY PendingAfter
<1>2. PendingAnnouncements(a, kind) \in Nat /\ PendingAnnouncements(a, kind)' \in Nat
  BY PendingAfter
<1>3. /\ Weight(request[h], a, kind) = 0
      /\ Weight(r, a, kind) = (IF a = r.app /\ kind = r.kind THEN 1 ELSE 0)
  BY DEF Weight, Speaks
<1> QED
  BY <1>1, <1>2, <1>3

\* The same of the request that goes there.
LEMMA GoToAnnounce ==
  ASSUME RequestsOK, ControlInv, NEW h \in Slots, request[h].pc \notin {"idle", "announce"},
         request[h].kind \in {"liveness", "disposition", "rekyc"}, GoTo(h, "announce")
  PROVE  /\ ControlInv'
         /\ \A a, kind :
              PendingAnnouncements(a, kind)' =
                PendingAnnouncements(a, kind)
                  + (IF a = request[h].app /\ kind = request[h].kind THEN 1 ELSE 0)
<1>1. PICK r : r = [request[h] EXCEPT !.pc = "announce"]
  OBVIOUS
<1>2. request' = [request EXCEPT ![h] = r]
  BY <1>1 DEF GoTo
<1>3. r.pc = "announce" /\ r.kind = request[h].kind /\ r.app = request[h].app
  BY <1>1 DEF RequestsOK, Request
<1>4. Controlled(r)
  BY <1>3 DEF ControlInv, Controlled
<1>5. ControlInv'
  BY <1>2, <1>4, ControlAfter
<1>6. \A a, kind :
        PendingAnnouncements(a, kind)' =
          PendingAnnouncements(a, kind) + (IF a = r.app /\ kind = r.kind THEN 1 ELSE 0)
  BY <1>2, <1>3, SpeakAfter DEF Speaks
<1> QED
  BY <1>3, <1>5, <1>6
\* The guarded update of a request: a move made or refused is on its way to
\* be announced where the handler announces it.
LEMMA AdvanceAudit ==
  ASSUME RequestsOK, AuditInv, IInv, NEW h \in Slots, Advance(h)
  PROVE  AuditInv'
<1>1. PICK id, version, to, kind, actor :
        /\ id = request[h].app /\ version = request[h].version
        /\ to = request[h].to /\ kind = request[h].kind /\ actor = Actor(kind)
  OBVIOUS
<1>2. /\ id \in AppIds /\ to # "STARTED" /\ request[h].pc = "advance"
      /\ kind \in {"upload", "liveness", "screening", "disposition"}
      /\ to = "LIVENESS_PASSED" <=> kind = "liveness"
  BY <1>1 DEF Advance, At, AuditInv, ControlInv, Controlled
<1>3. actor \in Actors /\ (actor = "analyst" <=> kind = "disposition")
      /\ (actor = "system" <=> kind # "disposition")
  BY <1>1, HandlersAssumption DEF Actor, HandlerActors
<1>4. UNCHANGED announced /\ UNCHANGED tick /\ ControlInv /\ LedgerInv
  BY DEF Advance, AuditInv
<1>5. CASE UpdateState(id, version, to, actor) /\ UNCHANGED refused /\ AfterUpdate(h, TRUE)
  <2>1. PICK y, z : /\ y = IF kind = "disposition" THEN 1 ELSE 0
                    /\ z = IF kind = "liveness" THEN 1 ELSE 0
    OBVIOUS
  <2>2. /\ ControlInv'
        /\ \A a : /\ PendingAnnouncements(a, "rekyc")' = PendingAnnouncements(a, "rekyc")
                  /\ PendingAnnouncements(a, "disposition")' =
                       PendingAnnouncements(a, "disposition") + (IF a = id THEN y ELSE 0)
                  /\ PendingAnnouncements(a, "liveness")' =
                       PendingAnnouncements(a, "liveness") + (IF a = id THEN z ELSE 0)
    <3>1. CASE kind \in {"liveness", "disposition"}
      <4>1. GoTo(h, "announce")
        BY <1>1, <1>5, <3>1 DEF AfterUpdate, Announces
      <4>2. /\ ControlInv'
            /\ \A a, k : PendingAnnouncements(a, k)' =
                 PendingAnnouncements(a, k) + (IF a = id /\ k = kind THEN 1 ELSE 0)
        BY <1>1, <1>2, <1>4, <3>1, <4>1, GoToAnnounce
      <4> QED
        BY <2>1, <3>1, <4>2, PendingType
    <3>2. CASE kind \notin {"liveness", "disposition"}
      <4>1. Answer(h)
        BY <1>1, <1>5, <3>2 DEF AfterUpdate, Announces
      <4>2. Unheard
        BY <1>2, <1>4, <4>1, AnswerSlides
      <4> QED
        BY <2>1, <3>2, <4>2, PendingType DEF Unheard
    <3> QED
      BY <3>1, <3>2
  <2>3. /\ apps[id] # NoApp /\ to \in States /\ RecordTransition(id, to, actor)
    BY <1>5 DEF UpdateState, UpdateAccepted, Exists, CanTransition, legalTransitions, States
  <2>4. ASSUME NEW a \in AppIds
        PROVE  Balanced(a)'
    <3>1. /\ Recorded(a, Reopenings) \in Nat
          /\ Recorded(a, Decisions) \in Nat
          /\ Recorded(a, Checks) \in Nat
          /\ Recorded(a, Reopenings)' =
               Recorded(a, Reopenings) + (IF a = id /\ to = "STARTED" THEN 1 ELSE 0)
          /\ Recorded(a, Decisions)' =
               Recorded(a, Decisions) + (IF a = id /\ actor = "analyst" THEN 1 ELSE 0)
          /\ Recorded(a, Checks)' =
               Recorded(a, Checks)
                 + (IF a = id /\ to = "LIVENESS_PASSED" /\ actor = "system" THEN 1 ELSE 0)
      BY <1>2, <1>3, <2>3, WriteRecords
    <3>2. refused' = refused /\ refused[a]["liveness"] \in Nat
      BY <1>4, <1>5 DEF LedgerInv, Kinds
    <3>3. CASE a = id
      <4>1. /\ Recorded(a, Reopenings)' = Recorded(a, Reopenings) + 0
            /\ Recorded(a, Decisions)' = Recorded(a, Decisions) + y
            /\ Recorded(a, Checks)' = Recorded(a, Checks) + z
        BY <1>2, <1>3, <2>1, <3>1, <3>3
      <4>2. /\ PendingAnnouncements(a, "rekyc")' = PendingAnnouncements(a, "rekyc") + 0
            /\ PendingAnnouncements(a, "disposition")' =
                 PendingAnnouncements(a, "disposition") + y
            /\ PendingAnnouncements(a, "liveness")' =
                 PendingAnnouncements(a, "liveness") + z + 0
        BY <2>1, <2>2, <3>3, PendingType
      <4>3. y \in Nat /\ z \in Nat /\ 0 \in Nat
            /\ refused'[a]["liveness"] = refused[a]["liveness"] + 0
        BY <2>1, <3>2
      <4> QED
        BY <1>4, <3>1, <4>1, <4>2, <4>3, BalancedAfter
    <3>4. CASE a # id
      <4>1. /\ Recorded(a, Reopenings)' = Recorded(a, Reopenings) + 0
            /\ Recorded(a, Decisions)' = Recorded(a, Decisions) + 0
            /\ Recorded(a, Checks)' = Recorded(a, Checks) + 0
        BY <3>1, <3>4
      <4>2. /\ PendingAnnouncements(a, "rekyc")' = PendingAnnouncements(a, "rekyc") + 0
            /\ PendingAnnouncements(a, "disposition")' =
                 PendingAnnouncements(a, "disposition") + 0
            /\ PendingAnnouncements(a, "liveness")' =
                 PendingAnnouncements(a, "liveness") + 0 + 0
        BY <2>2, <3>4, PendingType
      <4>3. 0 \in Nat /\ refused'[a]["liveness"] = refused[a]["liveness"] + 0
        BY <3>2
      <4> QED
        BY <1>4, <3>1, <4>1, <4>2, <4>3, BalancedAfter
    <3> QED
      BY <3>3, <3>4
  <2> QED
    BY <1>4, <1>5, <2>2, <2>4 DEF AuditInv, LedgerInv
<1>6. CASE UNCHANGED repoVars /\ NoteRefused(h) /\ AfterUpdate(h, FALSE)
  <2>1. \A a, T : Recorded(a, T)' = Recorded(a, T)
    BY <1>6 DEF Recorded, Marked, repoVars
  <2>2. /\ refused' \in [AppIds -> [Kinds -> Nat]]
        /\ \A a \in AppIds :
             refused'[a]["liveness"] =
               refused[a]["liveness"] + (IF a = id /\ kind = "liveness" THEN 1 ELSE 0)
    BY <1>1, <1>2, <1>4, <1>6, RefusedAfter DEF Kinds
  <2>3. CASE kind = "liveness"
    <3>1. GoTo(h, "announce")
      BY <1>1, <1>6, <2>3 DEF AfterUpdate, Announces
    <3>2. /\ ControlInv'
          /\ \A a, k : PendingAnnouncements(a, k)' =
               PendingAnnouncements(a, k) + (IF a = id /\ k = kind THEN 1 ELSE 0)
      BY <1>1, <1>2, <1>4, <2>3, <3>1, GoToAnnounce
    <3>3. ASSUME NEW a \in AppIds
          PROVE  Balanced(a)'
      <4>1. /\ PendingAnnouncements(a, "rekyc")' = PendingAnnouncements(a, "rekyc")
            /\ PendingAnnouncements(a, "disposition")' = PendingAnnouncements(a, "disposition")
            /\ PendingAnnouncements(a, "liveness")' =
                 PendingAnnouncements(a, "liveness") + (IF a = id THEN 1 ELSE 0)
        BY <2>3, <3>2, PendingType
      <4>2. Balanced(a) /\ refused[a]["liveness"] \in Nat /\ announced[a]["liveness_passed"] \in Nat
        BY <1>4 DEF LedgerInv, Kinds, Announcements
      <4>3. refused'[a]["liveness"] = refused[a]["liveness"] + (IF a = id THEN 1 ELSE 0)
        BY <2>2, <2>3
      <4>4. PendingAnnouncements(a, "liveness") \in Nat
        BY PendingType
      <4>5. Recorded(a, Checks)' + refused'[a]["liveness"] =
              announced'[a]["liveness_passed"] + PendingAnnouncements(a, "liveness")'
        <5>1. Recorded(a, Checks) + refused[a]["liveness"] =
                announced[a]["liveness_passed"] + PendingAnnouncements(a, "liveness")
          BY <4>2 DEF Balanced
        <5>2. Recorded(a, Checks)' = Recorded(a, Checks) /\ announced' = announced
          BY <1>4, <2>1
        <5>3. Recorded(a, Checks) \in Nat
          BY RecordedType
        <5> QED
          BY <4>1, <4>2, <4>3, <4>4, <5>1, <5>2, <5>3
      <4> QED
        BY <1>4, <2>1, <4>1, <4>2, <4>5 DEF Balanced
    <3> QED
      BY <1>4, <2>2, <3>2, <3>3 DEF AuditInv, LedgerInv
  <2>4. CASE kind # "liveness"
    <3>1. Answer(h)
      BY <1>1, <1>6, <2>4 DEF AfterUpdate, Announces
    <3>2. Unheard
      BY <1>2, <1>4, <3>1, AnswerSlides
    <3>3. \A a \in AppIds : refused'[a]["liveness"] = refused[a]["liveness"]
      BY <1>4, <2>2, <2>4 DEF LedgerInv, Kinds
    <3> QED
      BY <1>4, <1>6, <2>2, <3>2, <3>3, NeutralAfter DEF repoVars
  <2> QED
    BY <2>3, <2>4
<1> QED
  BY <1>1, <1>5, <1>6 DEF Advance
\* A re-opening adds to one account only.
LEMMA ReopenRecords ==
  ASSUME IInv, NEW id \in AppIds, NEW version, NEW actor \in HandlerActors \ {"analyst"},
         Reopen(id, version, actor), NEW a \in AppIds
  PROVE  /\ Recorded(a, Reopenings) \in Nat
         /\ Recorded(a, Decisions) \in Nat
         /\ Recorded(a, Checks) \in Nat
         /\ Recorded(a, Reopenings)' = Recorded(a, Reopenings) + (IF a = id THEN 1 ELSE 0)
         /\ Recorded(a, Decisions)' = Recorded(a, Decisions)
         /\ Recorded(a, Checks)' = Recorded(a, Checks)
<1>1. apps[id] # NoApp /\ RecordTransition(id, "STARTED", actor) /\ "STARTED" \in States
  BY DEF Reopen, ReopenAccepted, Exists, States
<1>2. actor \in Actors /\ actor # "analyst"
  BY HandlersAssumption
<1>3. /\ Recorded(a, Reopenings) \in Nat
      /\ Recorded(a, Decisions) \in Nat
      /\ Recorded(a, Checks) \in Nat
      /\ Recorded(a, Reopenings)' =
           Recorded(a, Reopenings) + (IF a = id /\ "STARTED" = "STARTED" THEN 1 ELSE 0)
      /\ Recorded(a, Decisions)' =
           Recorded(a, Decisions) + (IF a = id /\ actor = "analyst" THEN 1 ELSE 0)
      /\ Recorded(a, Checks)' =
           Recorded(a, Checks)
             + (IF a = id /\ "STARTED" = "LIVENESS_PASSED" /\ actor = "system" THEN 1 ELSE 0)
  BY <1>1, <1>2, WriteRecords
<1> QED
  BY <1>2, <1>3

\* A trigger that re-opens announces it next.
LEMMA ReopenAudit ==
  ASSUME RequestsOK, AuditInv, IInv, NEW h \in Slots, ReopenApplication(h)
  PROVE  AuditInv'
<1>1. PICK id, version : id = request[h].app /\ version = request[h].version
  OBVIOUS
<1>2. /\ id \in AppIds /\ request[h].kind = "rekyc" /\ request[h].pc = "reopen"
      /\ UNCHANGED announced /\ UNCHANGED tick /\ UNCHANGED refused
      /\ ControlInv /\ LedgerInv
  BY <1>1 DEF ReopenApplication, At, AuditInv, ControlInv, Controlled
<1>3. CASE Reopen(id, version, "internal") /\ GoTo(h, "announce")
  <2>1. /\ ControlInv'
        /\ \A a, k : PendingAnnouncements(a, k)' =
             PendingAnnouncements(a, k)
               + (IF a = request[h].app /\ k = request[h].kind THEN 1 ELSE 0)
    BY <1>2, <1>3, GoToAnnounce
  <2>2. ASSUME NEW a \in AppIds
        PROVE  Balanced(a)'
    <3>1. PICK x \in Nat : x = IF a = id THEN 1 ELSE 0
      OBVIOUS
    <3>2. /\ Recorded(a, Reopenings) \in Nat
          /\ Recorded(a, Decisions) \in Nat
          /\ Recorded(a, Checks) \in Nat
          /\ Recorded(a, Reopenings)' = Recorded(a, Reopenings) + x
          /\ Recorded(a, Decisions)' = Recorded(a, Decisions) + 0
          /\ Recorded(a, Checks)' = Recorded(a, Checks) + 0
      <4>1. "internal" \in HandlerActors \ {"analyst"}
        BY DEF HandlerActors
      <4> QED
        BY <1>2, <1>3, <3>1, <4>1, ReopenRecords
    <3>3. /\ PendingAnnouncements(a, "rekyc")' = PendingAnnouncements(a, "rekyc") + x
          /\ PendingAnnouncements(a, "disposition")' = PendingAnnouncements(a, "disposition") + 0
          /\ PendingAnnouncements(a, "liveness")' = PendingAnnouncements(a, "liveness") + 0 + 0
      BY <1>1, <1>2, <2>1, <3>1, PendingType
    <3>4. 0 \in Nat /\ refused'[a]["liveness"] = refused[a]["liveness"] + 0
      BY <1>2 DEF LedgerInv, Kinds
    <3> QED
      BY <1>2, <3>2, <3>3, <3>4, BalancedAfter
  <2> QED
    BY <1>2, <2>1, <2>2 DEF AuditInv, LedgerInv
<1>4. CASE UNCHANGED repoVars /\ Answer(h)
  <2>1. Unheard
    BY <1>2, <1>4, AnswerSlides
  <2> QED
    BY <1>2, <1>4, <2>1, NeutralAfter DEF repoVars, LedgerInv
<1> QED
  BY <1>1, <1>3, <1>4 DEF ReopenApplication

\* A step that leaves the requests, the trail and the audit log alone.
LEMMA AsideAudit ==
  ASSUME AuditInv, UNCHANGED <<trail, request, announced, refused>>,
         tick'.announce = tick.announce
  PROVE  AuditInv'
<1>1. Unheard
  BY SamePending DEF Unheard, AuditInv, ControlInv, Controlled
<1> QED
  BY <1>1, NeutralAfter DEF AuditInv, LedgerInv

\* The scheduler: what a pass re-opened, it announces before the next.
LEMMA TickAudit ==
  ASSUME TickInv, AuditInv, IInv, Tick
  PROVE  AuditInv'
<1>1. /\ UNCHANGED request /\ UNCHANGED refused /\ ControlInv /\ LedgerInv
      /\ tick \in [due : SUBSET Due, announce : AppIds \union {NoApp}]
  BY DEF Tick, TickList, TickReopen, TickAnnounce, AuditInv, TickInv
<1>2. ControlInv' /\ \A a, k : PendingAnnouncements(a, k)' = PendingAnnouncements(a, k)
  BY <1>1, SamePending DEF ControlInv, Controlled
<1>3. CASE TickList
  BY <1>1, <1>3, AsideAudit DEF TickList, repoVars
<1>4. CASE TickReopen
  <2>1. PICK d \in tick.due :
          \/ /\ Reopen(d.id, d.version, "scheduler")
             /\ tick' = [due |-> tick.due \ {d}, announce |-> d.id]
          \/ UNCHANGED repoVars /\ tick' = [tick EXCEPT !.due = tick.due \ {d}]
    BY <1>4 DEF TickReopen
  <2>2. UNCHANGED announced /\ tick.announce = NoApp
    BY <1>4 DEF TickReopen
  <2>3. PICK id, version : id = d.id /\ version = d.version
    OBVIOUS
  <2>4. CASE /\ Reopen(id, version, "scheduler")
             /\ tick' = [due |-> tick.due \ {d}, announce |-> id]
    <3>1. id \in AppIds
      BY <2>4 DEF Reopen, ReopenAccepted, Exists
    <3>2. ASSUME NEW a \in AppIds
          PROVE  Balanced(a)'
      <4>1. "scheduler" \in HandlerActors \ {"analyst"}
        BY DEF HandlerActors
      <4>2. /\ Recorded(a, Reopenings)' = Recorded(a, Reopenings) + (IF a = id THEN 1 ELSE 0)
            /\ Recorded(a, Decisions)' = Recorded(a, Decisions)
            /\ Recorded(a, Checks)' = Recorded(a, Checks)
        BY <2>4, <3>1, <4>1, ReopenRecords
      <4>3. Balanced(a)
            /\ announced[a]["re_kyc"] \in Nat /\ PendingAnnouncements(a, "rekyc") \in Nat
        BY <1>1, PendingType DEF LedgerInv, Announcements
      <4>4. tick.announce # a /\ tick'.announce = id
        BY <2>2, <2>4, NoAppAssumption
      <4>5. Recorded(a, Reopenings) = announced[a]["re_kyc"] + PendingAnnouncements(a, "rekyc")
        BY <4>3, <4>4 DEF Balanced
      <4>6. Recorded(a, Reopenings)' =
              announced'[a]["re_kyc"] + PendingAnnouncements(a, "rekyc")'
                + (IF tick'.announce = a THEN 1 ELSE 0)
        BY <1>2, <2>2, <4>2, <4>3, <4>4, <4>5
      <4> QED
        BY <1>1, <1>2, <2>2, <4>2, <4>3, <4>6 DEF Balanced
    <3> QED
      BY <1>1, <1>2, <2>2, <3>2 DEF AuditInv, LedgerInv
  <2>5. CASE UNCHANGED repoVars /\ tick' = [tick EXCEPT !.due = tick.due \ {d}]
    BY <1>1, <2>2, <2>5, AsideAudit DEF repoVars
  <2> QED
    BY <2>1, <2>3, <2>4, <2>5
<1>5. CASE TickAnnounce
  <2>1. PICK id : id = tick.announce
    OBVIOUS
  <2>2. /\ id \in AppIds /\ "re_kyc" \in Announcements
        /\ announced' = [announced EXCEPT ![id]["re_kyc"] = announced[id]["re_kyc"] + 1]
        /\ tick'.announce = NoApp /\ UNCHANGED trail
    BY <1>1, <1>5, <2>1 DEF TickAnnounce, Announcements, repoVars
  <2>3. /\ announced' \in [AppIds -> [Announcements -> Nat]]
        /\ \A a \in AppIds, t \in Announcements :
             announced'[a][t] = announced[a][t] + (IF a = id /\ t = "re_kyc" THEN 1 ELSE 0)
    BY <1>1, <2>2, AnnouncedAfter
  <2>4. ASSUME NEW a \in AppIds
        PROVE  Balanced(a)'
    <3>1. \A T : Recorded(a, T)' = Recorded(a, T)
      BY <2>2 DEF Recorded, Marked
    <3>2. /\ announced'[a]["re_kyc"] = announced[a]["re_kyc"] + (IF a = id THEN 1 ELSE 0)
          /\ announced'[a]["screening_disposition"] = announced[a]["screening_disposition"]
          /\ announced'[a]["liveness_passed"] = announced[a]["liveness_passed"]
      BY <1>1, <2>3 DEF LedgerInv, Announcements
    <3>3. Balanced(a)
          /\ announced[a]["re_kyc"] \in Nat /\ PendingAnnouncements(a, "rekyc") \in Nat
      BY <1>1, PendingType DEF LedgerInv, Announcements
    <3>4. tick.announce = id /\ tick'.announce # a
      BY <2>1, <2>2, NoAppAssumption
    <3>5. Recorded(a, Reopenings)' =
            announced'[a]["re_kyc"] + PendingAnnouncements(a, "rekyc")'
              + (IF tick'.announce = a THEN 1 ELSE 0)
      <4>1. Recorded(a, Reopenings) =
              announced[a]["re_kyc"] + PendingAnnouncements(a, "rekyc")
                + (IF tick.announce = a THEN 1 ELSE 0)
        BY <3>3 DEF Balanced
      <4> QED
        BY <1>2, <3>1, <3>2, <3>3, <3>4, <4>1
    <3> QED
      BY <1>1, <1>2, <3>1, <3>2, <3>3, <3>5 DEF Balanced
  <2> QED
    BY <1>1, <1>2, <2>3, <2>4 DEF AuditInv, LedgerInv
<1> QED
  BY <1>3, <1>4, <1>5 DEF Tick
\* Deliveries re-open nothing, and record what they do as nobody's.
LEMMA IngestAudit ==
  ASSUME ServiceInv, DocsInv, AuditInv, NEW w \in Workers, Ingest(w), UNCHANGED handlerVars
  PROVE  AuditInv'
<1>1. UNCHANGED <<request, announced, tick, refused>> /\ IInv /\ ControlInv /\ LedgerInv
  BY DEF handlerVars, ServiceInv, HookInv, AuditInv
<1>2. CASE UNCHANGED trail
  BY <1>1, <1>2, AsideAudit
<1>3. CASE IngestUpdate(w)
  <2>1. PICK id, version, to, key :
          /\ id = ApplicationID(worker[w].event) /\ version = worker[w].version
          /\ to = worker[w].to /\ key = Key(worker[w].event)
    OBVIOUS
  <2>2. UpdateState(id, version, to, key) \/ UNCHANGED trail
    BY <1>3, <2>1 DEF IngestUpdate, repoVars
  <2>3. worker[w].pc = "update" /\ worker[w].event \in Events
    BY <1>3 DEF IngestUpdate, ServiceInv, HookInv, WorkersInv
  <2>4. /\ key \in Actors /\ key \notin HandlerActors /\ to # "STARTED"
    BY <2>1, <2>3, ActorsAssumption, HandlersAssumption DEF Keys, DocsInv, AimsInv
  <2>5. CASE UpdateState(id, version, to, key)
    <3>1. /\ id \in AppIds /\ apps[id] # NoApp /\ to \in States /\ RecordTransition(id, to, key)
      BY <2>5 DEF UpdateState, UpdateAccepted, Exists, CanTransition, legalTransitions, States
    <3>2. key \notin {"analyst", "system"}
      BY <2>4 DEF HandlerActors
    <3>3. \A a \in AppIds :
            /\ Recorded(a, Reopenings)' = Recorded(a, Reopenings)
            /\ Recorded(a, Decisions)' = Recorded(a, Decisions)
            /\ Recorded(a, Checks)' = Recorded(a, Checks)
      <4> SUFFICES ASSUME NEW a \in AppIds
                   PROVE  /\ Recorded(a, Reopenings)' = Recorded(a, Reopenings)
                          /\ Recorded(a, Decisions)' = Recorded(a, Decisions)
                          /\ Recorded(a, Checks)' = Recorded(a, Checks)
        OBVIOUS
      <4>1. /\ Recorded(a, Reopenings) \in Nat
            /\ Recorded(a, Decisions) \in Nat
            /\ Recorded(a, Checks) \in Nat
            /\ Recorded(a, Reopenings)' =
                 Recorded(a, Reopenings) + (IF a = id /\ to = "STARTED" THEN 1 ELSE 0)
            /\ Recorded(a, Decisions)' =
                 Recorded(a, Decisions) + (IF a = id /\ key = "analyst" THEN 1 ELSE 0)
            /\ Recorded(a, Checks)' =
                 Recorded(a, Checks)
                   + (IF a = id /\ to = "LIVENESS_PASSED" /\ key = "system" THEN 1 ELSE 0)
        BY <1>1, <2>4, <3>1, WriteRecords
      <4> QED
        BY <2>4, <3>2, <4>1
    <3>4. ControlInv' /\ \A a, kind : PendingAnnouncements(a, kind)' = PendingAnnouncements(a, kind)
      BY <1>1, SamePending DEF ControlInv, Controlled
    <3> QED
      BY <1>1, <3>3, <3>4 DEF AuditInv, LedgerInv, Balanced
  <2> QED
    BY <1>2, <2>2, <2>5
<1>4. CASE ~IngestUpdate(w)
  <2>1. UNCHANGED trail
    BY <1>4 DEF Ingest, IngestRefused, IngestDuplicate, IngestUnparsable, IngestParsed,
                IngestGet, IngestReply,
                repoVars
  <2> QED
    BY <1>2, <2>1
<1> QED
  BY <1>3, <1>4

\* Every step of the service but a restart keeps the accounts balanced.
LEMMA AuditInvStep ==
  ASSUME ServiceInv, DocsInv, AuditInv, [ServiceNext]_vars, restarts' = restarts
  PROVE  AuditInv'
<1>1. RequestsOK /\ IInv /\ TickInv /\ restarts \in Nat
  BY RestartsType DEF ServiceInv, HookInv
<1>2. ASSUME NEW h \in Slots, Arrive(h) \/ Continue(h)
      PROVE  AuditInv'
  BY <1>1, <1>2, ArriveAudit, UnheardAudit, AdvanceAudit, ReopenAudit, AnnounceAudit DEF Continue
<1>3. CASE Tick
  BY <1>1, <1>3, TickAudit
<1>4. ASSUME NEW a \in AppIds, Elapse(a), UNCHANGED handlerVars
      PROVE  AuditInv'
  BY <1>4, AsideAudit DEF Elapse, handlerVars
<1>5. ASSUME NEW w \in Workers, Ingest(w), UNCHANGED handlerVars
      PROVE  AuditInv'
  BY <1>5, IngestAudit
<1>6. CASE ServiceRestart
  BY <1>1, <1>6 DEF ServiceRestart, Restart
<1>7. CASE UNCHANGED vars
  BY <1>7, AsideAudit DEF vars, repoVars, handlerVars
<1> QED
  BY <1>2, <1>3, <1>4, <1>5, <1>6, <1>7 DEF ServiceNext

\* The accounts start at zero.
LEMMA AuditInvInit ==
  ASSUME ServiceInit
  PROVE  AuditInv
<1>1. /\ trail = [a \in AppIds |-> <<>>] /\ request = [h \in Slots |-> NoRequest]
      /\ announced = [a \in AppIds |-> [n \in Announcements |-> 0]]
      /\ refused = [a \in AppIds |-> [k \in Kinds |-> 0]] /\ tick = NoPass
  BY DEF ServiceInit, Init, HandlerInit
<1>2. ControlInv
  BY <1>1 DEF ControlInv, Controlled, NoRequest
<1>3. ASSUME NEW a \in AppIds
      PROVE  Balanced(a)
  <2>1. \A T : Recorded(a, T) = 0
    <3>1. \A T : Marked(a, T) = {}
      BY <1>1 DEF Marked
    <3> QED
      BY <3>1, FS_EmptySet DEF Recorded
  <2>2. \A kind : PendingAnnouncements(a, kind) = 0
    <3>1. \A h \in Slots : ~At(h, "announce")
      BY <1>1 DEF At, NoRequest
    <3>2. \A kind : {h \in Slots : At(h, "announce") /\ request[h].app = a
                                   /\ request[h].kind = kind} = {}
      BY <3>1
    <3> QED
      BY <3>2, FS_EmptySet DEF PendingAnnouncements
  <2>3. tick.announce # a
    BY <1>1, NoAppAssumption DEF NoPass
  <2>4. /\ announced[a]["re_kyc"] = 0
        /\ announced[a]["screening_disposition"] = 0
        /\ announced[a]["liveness_passed"] = 0
        /\ refused[a]["liveness"] = 0
    BY <1>1 DEF Announcements, Kinds
  <2> QED
    BY <2>1, <2>2, <2>3, <2>4 DEF Balanced
<1>4. LedgerInv
  BY <1>1, <1>3 DEF LedgerInv
<1> QED
  BY <1>2, <1>4 DEF AuditInv

\* The inductive invariant of the audit log, in the life of the first process.
LEMMA AuditInvariant == ServiceSpec => [](restarts = 0 => AuditInv)
<1>1. ServiceInit => AuditInv
  BY AuditInvInit
<1>2. ASSUME ServiceInv, DocsInv, restarts = 0 => AuditInv, [ServiceNext]_vars, restarts' = 0
      PROVE  AuditInv'
  <2>1. restarts \in Nat
    BY <1>2, RestartsType DEF ServiceInv, HookInv
  <2>2. CASE ServiceRestart
    BY <1>2, <2>1, <2>2 DEF ServiceRestart, Restart
  <2>3. CASE ~ServiceRestart
    <3>1. restarts' = restarts
      BY <1>2, <2>3 DEF ServiceNext, hookVars, vars, Ingest, IngestRefused, IngestDuplicate,
                        IngestUnparsable, IngestParsed, IngestGet, IngestUpdate, IngestReply
    <3> QED
      BY <1>2, <3>1, AuditInvStep
  <2> QED
    BY <2>2, <2>3
<1>3. /\ ServiceInv /\ DocsInv /\ (restarts = 0 => AuditInv) /\ [ServiceNext]_vars
      => (restarts = 0 => AuditInv)'
  BY <1>2
<1> QED
  BY <1>1, <1>3, ServiceInvariant, DocsInvariant, PTL DEF ServiceSpec

\* The entries of the trail that a property counts are those recorded.
LEMMA EntriesRecorded ==
  ASSUME IInv, NEW a \in AppIds
  PROVE  /\ Entries(a, LAMBDA t : t.to = "STARTED") = Recorded(a, Reopenings)
         /\ Entries(a, LAMBDA t : t.by = "analyst") = Recorded(a, Decisions)
         /\ Entries(a, LAMBDA t : t.to = "LIVENESS_PASSED" /\ t.by = "system") =
              Recorded(a, Checks)
<1>1. trail[a] \in Seq(Transition)
  BY DEF IInv, TypeOK
<1>2. \A i \in 1 .. Len(trail[a]) : trail[a][i] \in Transition
  BY <1>1
<1>3. /\ Marked(a, Reopenings) = {i \in 1 .. Len(trail[a]) : trail[a][i].to = "STARTED"}
      /\ Marked(a, Decisions) = {i \in 1 .. Len(trail[a]) : trail[a][i].by = "analyst"}
      /\ Marked(a, Checks) =
           {i \in 1 .. Len(trail[a]) :
              trail[a][i].to = "LIVENESS_PASSED" /\ trail[a][i].by = "system"}
  BY <1>2 DEF Marked, Reopenings, Decisions, Checks
<1> QED
  BY <1>3 DEF Entries, Recorded

\* Until the process restarts with an empty log, each re-opening and each
\* analyst decision is announced once: by the request or pass that won the
\* guarded write, and by nobody who lost it.
THEOREM WinnersAnnounced == ServiceSpec => [](restarts = 0 => WinnersAnnounceOnce)
<1>1. ServiceInv /\ AuditInv => WinnersAnnounceOnce
  BY EntriesRecorded DEF WinnersAnnounceOnce, AuditInv, LedgerInv, Balanced, ServiceInv, HookInv
<1> QED
  BY <1>1, AuditInvariant, ServiceInvariant, PTL

\* The log of liveness checks misses none that moved an application, and what
\* it has beyond them are checks whose move was refused.
THEOREM LivenessAudited == ServiceSpec => [](restarts = 0 => LivenessAuditAccounted)
<1>1. ASSUME ServiceInv, AuditInv, NEW a \in AppIds
      PROVE  LET moved == Entries(a, LAMBDA t : t.to = "LIVENESS_PASSED" /\ t.by = "system")
                 audited == announced[a]["liveness_passed"] + PendingAnnouncements(a, "liveness")
             IN  moved <= audited /\ audited <= moved + refused[a]["liveness"]
  <2>1. /\ Entries(a, LAMBDA t : t.to = "LIVENESS_PASSED" /\ t.by = "system") =
             Recorded(a, Checks)
        /\ Recorded(a, Checks) \in Nat
    BY <1>1, EntriesRecorded, RecordedType DEF ServiceInv, HookInv
  <2>2. /\ announced[a]["liveness_passed"] \in Nat /\ refused[a]["liveness"] \in Nat
        /\ PendingAnnouncements(a, "liveness") \in Nat
    BY <1>1, PendingType DEF AuditInv, LedgerInv, Announcements, Kinds
  <2>3. Recorded(a, Checks) + refused[a]["liveness"] =
          announced[a]["liveness_passed"] + PendingAnnouncements(a, "liveness")
    BY <1>1 DEF AuditInv, LedgerInv, Balanced
  <2> QED
    BY <2>1, <2>2, <2>3
<1>2. ServiceInv /\ AuditInv => LivenessAuditAccounted
  BY <1>1 DEF LivenessAuditAccounted
<1> QED
  BY <1>2, AuditInvariant, ServiceInvariant, PTL

-----------------------------------------------------------------------------
(* What requests owe.  Three properties say that something was left undone *)
(* only because a guarded update was refused: an upload that completed the *)
(* documents, a disposition that blocked the hits, a screening that stored *)
(* new ones.  Between what it did and its update the request owes the      *)
(* update, and every step of a request settles what it owes, or is refused *)
(* or writes (Accounted).  The types of the stores come with it.           *)

Owes(h, a, kind) ==
  /\ request[h].kind = kind /\ request[h].app = a
  /\ request[h].pc \in {"check", "store_hits", "advance"}

Has(a, mark) == \E i \in DOMAIN hits[a] : hits[a][i] = mark

\* What the step of a request says of its argument and its target.
Aimed(r) ==
  /\ r.pc = "store" => r.arg \in DocTypes
  /\ r.pc = "dispose" => r.arg \in Dispositions
  /\ r.pc = "advance" /\ r.to = "PASS" => r.kind = "disposition"

SoundInv == \A h \in Slots : Controlled(request[h]) /\ Aimed(request[h])

StoresOK ==
  /\ docs \in [AppIds -> SUBSET DocTypes]
  /\ sessions \in [AppIds -> Nat]
  /\ hits \in [AppIds -> Seq(Dispositions \union {"none"})]
  /\ announced \in [AppIds -> [Announcements -> Nat]]
  /\ refused \in [AppIds -> [Kinds -> Nat]]
  /\ budget \in [Kinds -> Nat]

\* The other requests are left alone.
Others(h) == \A x \in Slots : x # h => request'[x] = request[x]

\* The request is the one it was, at another step.
Kept(h) ==
  /\ request'[h].kind = request[h].kind /\ request'[h].app = request[h].app
  /\ request'[h].version = request[h].version /\ request'[h].state = request[h].state
  /\ request'[h].arg = request[h].arg

\* A request that lets go of its copy.
LEMMA AnswerTurn ==
  ASSUME RequestsOK, NEW h \in Slots, Answer(h)
  PROVE  Others(h) /\ request'[h] = NoRequest
BY DEF RequestsOK, Answer, Others

\* A request at its next step.
LEMMA GoToTurn ==
  ASSUME RequestsOK, NEW h \in Slots, NEW pc, GoTo(h, pc)
  PROVE  Others(h) /\ Kept(h) /\ request'[h].pc = pc /\ request'[h].to = request[h].to
<1>1. PICK r : r = [request[h] EXCEPT !.pc = pc]
  OBVIOUS
<1>2. request' = [request EXCEPT ![h] = r] /\ request[h] \in Request
  BY <1>1 DEF GoTo, RequestsOK
<1>3. request'[h] = r /\ Others(h)
  BY <1>2 DEF RequestsOK, Others
<1>4. /\ r.kind = request[h].kind /\ r.app = request[h].app
      /\ r.version = request[h].version /\ r.state = request[h].state
      /\ r.arg = request[h].arg
  BY <1>1, <1>2 DEF Request
<1>5. r.pc = pc /\ r.to = request[h].to
  BY <1>1, <1>2 DEF Request
<1> QED
  BY <1>3, <1>4, <1>5 DEF Kept

\* A request that is about to update.
LEMMA AdvanceToTurn ==
  ASSUME RequestsOK, NEW h \in Slots, NEW to, AdvanceTo(h, to)
  PROVE  Others(h) /\ Kept(h) /\ request'[h].pc = "advance" /\ request'[h].to = to
<1>1. PICK r : r = [request[h] EXCEPT !.pc = "advance", !.to = to]
  OBVIOUS
<1>2. request' = [request EXCEPT ![h] = r] /\ request[h] \in Request
  BY <1>1 DEF AdvanceTo, RequestsOK
<1>3. request'[h] = r /\ Others(h)
  BY <1>2 DEF RequestsOK, Others
<1>4. /\ r.kind = request[h].kind /\ r.app = request[h].app
      /\ r.version = request[h].version /\ r.state = request[h].state
      /\ r.arg = request[h].arg
  BY <1>1, <1>2 DEF Request
<1>5. r.pc = "advance" /\ r.to = to
  BY <1>1, <1>2 DEF Request
<1> QED
  BY <1>3, <1>4, <1>5 DEF Kept

\* A request that has hits to store, or one less of them.
LEMMA StoringTurn ==
  ASSUME RequestsOK, NEW h \in Slots, NEW left, NEW to,
         request' = [request EXCEPT ![h].pc = "store_hits", ![h].left = left, ![h].to = to]
  PROVE  Others(h) /\ Kept(h) /\ request'[h].pc = "store_hits" /\ request'[h].to = to
<1>1. PICK r : r = [request[h] EXCEPT !.pc = "store_hits", !.left = left, !.to = to]
  OBVIOUS
<1>2. request' = [request EXCEPT ![h] = r] /\ request[h] \in Request
  BY <1>1 DEF RequestsOK
<1>3. request'[h] = r /\ Others(h)
  BY <1>2 DEF RequestsOK, Others
<1>4. /\ r.kind = request[h].kind /\ r.app = request[h].app
      /\ r.version = request[h].version /\ r.state = request[h].state
      /\ r.arg = request[h].arg
  BY <1>1, <1>2 DEF Request
<1>5. r.pc = "store_hits" /\ r.to = to
  BY <1>1, <1>2 DEF Request
<1> QED
  BY <1>3, <1>4, <1>5 DEF Kept

\* A request that arrives.
LEMMA BeginTurn ==
  ASSUME RequestsOK, NEW h \in Slots, NEW kind, NEW pc, NEW a, NEW arg,
         Begin(h, kind, pc, a, arg)
  PROVE  /\ Others(h) /\ request[h].pc = "idle"
         /\ request'[h].kind = kind /\ request'[h].pc = pc /\ request'[h].app = a
         /\ request'[h].arg = arg /\ request'[h].to = ""
<1>1. PICK r :
        r = [NoRequest EXCEPT !.kind = kind, !.pc = pc, !.app = a, !.arg = arg,
                              !.version = apps'[a].version, !.state = apps'[a].state]
  OBVIOUS
<1>2. request' = [request EXCEPT ![h] = r] /\ request[h].pc = "idle"
  BY <1>1, Zenon DEF Begin, At
<1>3. /\ r.pc = pc /\ r.kind = kind /\ r.app = a /\ r.arg = arg /\ r.to = ""
  BY <1>1 DEF NoRequest
<1>4. request'[h] = r /\ Others(h)
  BY <1>2 DEF RequestsOK, Others
<1> QED
  BY <1>2, <1>3, <1>4

\* A move refused to a request of a kind shows in the count.
LEMMA RefusedTurn ==
  ASSUME StoresOK, NEW h \in Slots, request[h].app \in AppIds, request[h].kind \in Kinds,
         NoteRefused(h)
  PROVE  /\ refused' \in [AppIds -> [Kinds -> Nat]]
         /\ \A a \in AppIds, k \in Kinds : refused'[a][k] >= refused[a][k]
         /\ refused'[request[h].app][request[h].kind] > 0
<1>1. PICK id \in AppIds, kind \in Kinds : id = request[h].app /\ kind = request[h].kind
  OBVIOUS
<1>2. refused \in [AppIds -> [Kinds -> Nat]]
  BY DEF StoresOK
<1>3. PICK row : row = [refused[id] EXCEPT ![kind] = refused[id][kind] + 1]
  OBVIOUS
<1>4. refused' = [refused EXCEPT ![id] = row]
  BY <1>1, <1>3, Zenon DEF NoteRefused
<1>5. row \in [Kinds -> Nat] /\ row[kind] = refused[id][kind] + 1
      /\ \A k \in Kinds : k # kind => row[k] = refused[id][k]
  BY <1>2, <1>3
<1>6. refused' \in [AppIds -> [Kinds -> Nat]] /\ refused'[id] = row
      /\ \A a \in AppIds : a # id => refused'[a] = refused[a]
  BY <1>2, <1>4, <1>5
<1>7. ASSUME NEW a \in AppIds, NEW k \in Kinds
      PROVE  refused'[a][k] >= refused[a][k]
  <2>1. refused[a][k] \in Nat
    BY <1>2
  <2>2. CASE a = id /\ k = kind
    BY <1>5, <1>6, <2>1, <2>2
  <2>3. CASE ~(a = id /\ k = kind)
    BY <1>5, <1>6, <2>1, <2>3
  <2> QED
    BY <2>2, <2>3
<1>8. refused[id][kind] \in Nat
  BY <1>2
<1> QED
  BY <1>1, <1>5, <1>6, <1>7, <1>8

-----------------------------------------------------------------------------
(* The account of one step of a request.                                   *)

\* The application was written, by a transition.
Written(a) ==
  /\ apps'[a].version = apps[a].version + 1
  /\ trail'[a] # <<>> /\ trail'[a] # trail[a]

RefusalsStay == \A a \in AppIds, k \in Kinds : refused'[a][k] >= refused[a][k]

\* What the request owed it still owes, or it was refused, or it wrote; or the
\* documents are not complete.
Pays(h) ==
  \A a \in AppIds, k \in {"upload", "screening", "disposition"} : Owes(h, a, k) =>
    \/ Owes(h, a, k)'
    \/ refused'[a][k] > 0
    \/ Written(a)
    \/ k = "upload" /\ ~HasRequiredDocs(a)

\* Who marks or stores hits owes an update, or was refused it.
Marks(h) ==
  \A a \in AppIds :
    /\ Has(a, "BLOCK")' => Has(a, "BLOCK") \/ Owes(h, a, "disposition")'
    /\ Has(a, "none")' =>
         Has(a, "none") \/ Owes(h, a, "screening")' \/ refused'[a]["screening"] > 0

\* Who is about to pass an application has just cleared its hits.
Clears(h) ==
  \A a \in AppIds : Owes(h, a, "disposition")' /\ request'[h].to = "PASS" =>
    ~Has(a, "BLOCK")' /\ ~Has(a, "none")'

\* Who completes the documents of an application that had started, owes it.
Files(h) ==
  \A a \in AppIds :
    \/ docs'[a] = docs[a]
    \/ /\ request[h].app = a
       /\ HasRequiredDocs(a)' /\ request[h].state = "STARTED" => Owes(h, a, "upload")'

\* The application had passed, and nothing was recorded since.
StillPassed(a) == Exists(a) /\ apps[a].state = "PASS" /\ trail'[a] = trail[a]

\* The request is the one of an analyst who passes the application it read.
Decides(h, a) ==
  /\ Owes(h, a, "disposition") /\ request[h].to = "PASS"
  /\ Exists(a) /\ request[h].version = apps[a].version
  /\ UNCHANGED <<hits, refused>>

Passes(h) ==
  \A a \in AppIds : Exists(a)' /\ apps'[a].state = "PASS" => StillPassed(a) \/ Decides(h, a)

Accounted(h) ==
  /\ Others(h) /\ Controlled(request'[h]) /\ Aimed(request'[h])
  /\ StoresOK' /\ RefusalsStay
  /\ Pays(h) /\ Marks(h) /\ Clears(h) /\ Files(h) /\ Passes(h)

\* Nobody passes an application by doing nothing to the store.
LEMMA UnwrittenPasses ==
  ASSUME UNCHANGED repoVars, NEW h
  PROVE  Passes(h)
BY DEF Passes, StillPassed, Exists, repoVars

\* No application passes by a re-opening.
LEMMA ReopenPasses ==
  ASSUME HookInv, NEW id, NEW version, NEW actor, Reopen(id, version, actor)
  PROVE  \A a \in AppIds : Exists(a)' /\ apps'[a].state = "PASS" => StillPassed(a)
<1>1. id \in AppIds /\ apps[id] \in Application /\ apps[id] # NoApp
  BY DEF Reopen, ReopenAccepted, Exists, HookInv, IInv, TypeOK
<1>2. apps' = [apps EXCEPT ![id] = Reopened(apps[id])] /\ Reopened(apps[id]).state = "STARTED"
  BY <1>1, ReopenedType DEF Reopen
<1>3. \A a \in AppIds : a # id => trail'[a] = trail[a] /\ apps'[a] = apps[a]
  BY <1>1, <1>2 DEF Reopen, RecordTransition, HookInv, IInv, TypeOK
<1>4. apps'[id].state = "STARTED"
  BY <1>1, <1>2 DEF HookInv, IInv, TypeOK
<1> QED
  BY <1>3, <1>4 DEF StillPassed, Exists

\* A step that stores nothing and leaves no debt unpaid.
LEMMA PlainAccount ==
  ASSUME RequestsOK, NEW h \in Slots, StoresOK, StoresOK', UNCHANGED <<docs, hits, refused>>,
         Others(h), Controlled(request'[h]), Aimed(request'[h]), Passes(h),
         request'[h].pc # "advance" \/ request'[h].kind # "disposition",
         \/ request[h].pc \notin {"check", "store_hits", "advance"}
         \/ request[h].pc = "check" /\ ~HasRequiredDocs(request[h].app)
              /\ request[h].kind = "upload"
         \/ Kept(h) /\ request'[h].pc = "advance"
  PROVE  Accounted(h)
<1>1. RefusalsStay
  <2>1. \A a \in AppIds, k \in Kinds : refused[a][k] \in Nat
    BY DEF StoresOK
  <2> QED
    BY <2>1 DEF RefusalsStay
<1>2. Pays(h)
  BY DEF Pays, Owes, Kept
<1>3. Marks(h) /\ Files(h)
  BY DEF Marks, Files, Has
<1>4. Clears(h)
  BY DEF Clears, Owes, Controlled
<1> QED
  BY <1>1, <1>2, <1>3, <1>4 DEF Accounted

\* The slot of no request.
LEMMA NoRequestSound == Controlled(NoRequest) /\ Aimed(NoRequest) /\ NoRequest.pc = "idle"
BY DEF Controlled, Aimed, NoRequest

\* A request that arrives owes nothing yet.
LEMMA BeginAccount ==
  ASSUME RequestsOK, StoresOK, NEW h \in Slots, NEW kind \in Kinds, NEW pc,
         NEW a \in AppIds, NEW arg, Begin(h, kind, pc, a, arg), Opens(kind, pc),
         pc = "store" => arg \in DocTypes, pc = "dispose" => arg \in Dispositions,
         UNCHANGED <<docs, sessions, hits, announced, refused>>, Passes(h)
  PROVE  Accounted(h)
<1>1. /\ Others(h) /\ request[h].pc = "idle"
      /\ request'[h].kind = kind /\ request'[h].pc = pc /\ request'[h].app = a
      /\ request'[h].arg = arg
  BY BeginTurn
<1>2. Controlled(request'[h]) /\ Aimed(request'[h]) /\ pc # "advance"
  BY <1>1 DEF Controlled, Aimed, Opens
<1>3. StoresOK'
  <2>1. budget' = [budget EXCEPT ![kind] = budget[kind] - 1] /\ budget[kind] > 0
    BY DEF Begin
  <2>2. budget' \in [Kinds -> Nat]
    BY <2>1 DEF StoresOK
  <2> QED
    BY <2>2 DEF StoresOK
<1> QED
  BY <1>1, <1>2, <1>3, PlainAccount

\* So it is with every arrival.
LEMMA ArriveAccount ==
  ASSUME HookInv, RequestsOK, StoresOK, NEW h \in Slots, Arrive(h)
  PROVE  Accounted(h)
<1> USE DEF Opens, Kinds
<1>1. ASSUME NEW kind \in Kinds, NEW pc, NEW a, NEW arg, Opens(kind, pc),
             pc = "store" => arg \in DocTypes, pc = "dispose" => arg \in Dispositions,
             BeginWithGet(h, kind, pc, a, arg)
      PROVE  Accounted(h)
  BY <1>1, BeginAccount, UnwrittenPasses DEF BeginWithGet, Exists
<1>2. ASSUME NEW u \in Users, TriggerReKYC(h, u)
      PROVE  Accounted(h)
  <2>1. PICK a : a = GetByUserID(u)
    OBVIOUS
  <2>2. BeginWithGet(h, "rekyc", "reopen", a, "")
    BY <1>2, <2>1 DEF TriggerReKYC
  <2> QED
    BY <1>1, <2>2
<1>3. ASSUME NEW u \in Users, NEW a \in AppIds, CreateApplication(h, u, a)
      PROVE  Accounted(h)
  <2>1. /\ Create(u, a) /\ Begin(h, "create", "register", a, "")
        /\ UNCHANGED <<docs, sessions, hits, announced, refused>>
    BY <1>3 DEF CreateApplication
  <2>2. Passes(h)
    <3>1. Cleared(u) \in [AppIds -> Application \union {NoApp}]
      BY ClearedType DEF HookInv, IInv
    <3>2. apps'[a].state = "STARTED" /\ \A b \in AppIds : b # a => apps'[b] = Cleared(u)[b]
      BY <2>1, <3>1 DEF Create, NewApplication
    <3>3. \A b \in AppIds : Cleared(u)[b] # NoApp => Cleared(u)[b] = apps[b]
      BY DEF Cleared, HookInv, IInv, TypeOK
    <3>4. UNCHANGED trail
      BY <2>1 DEF Create
    <3> QED
      BY <3>2, <3>3, <3>4 DEF Passes, StillPassed, Exists
  <2> QED
    BY <2>1, <2>2, BeginAccount
<1>4. ASSUME NEW a \in AppIds, NEW type \in DocTypes, UploadDocument(h, a, type)
      PROVE  Accounted(h)
  BY <1>1, <1>4 DEF UploadDocument
<1>5. ASSUME NEW a \in AppIds, StartLiveness(h, a)
      PROVE  Accounted(h)
  BY <1>1, <1>5 DEF StartLiveness
<1>6. ASSUME NEW a \in AppIds, RunScreening(h, a)
      PROVE  Accounted(h)
  BY <1>1, <1>6 DEF RunScreening
<1>7. ASSUME NEW a \in AppIds, NEW disposition \in Dispositions,
             DisposeScreening(h, a, disposition)
      PROVE  Accounted(h)
  BY <1>1, <1>7 DEF DisposeScreening
<1> QED
  BY <1>2, <1>3, <1>4, <1>5, <1>6, <1>7 DEF Arrive

\* The stores of a step that changes at most the count of sessions.
LEMMA SessionStores ==
  ASSUME StoresOK, UNCHANGED <<docs, hits, announced, refused, budget>>,
         \/ UNCHANGED sessions
         \/ \E a : sessions' = [sessions EXCEPT ![a] = sessions[a] + 1]
  PROVE  StoresOK'
<1>1. sessions \in [AppIds -> Nat]
  BY DEF StoresOK
<1>2. ASSUME NEW a, sessions' = [sessions EXCEPT ![a] = sessions[a] + 1]
      PROVE  sessions' \in [AppIds -> Nat]
  <2>1. CASE a \in AppIds
    <3>1. sessions[a] \in Nat
      BY <1>1, <2>1
    <3> QED
      BY <1>1, <1>2, <2>1, <3>1
  <2>2. CASE a \notin AppIds
    BY <1>1, <1>2, <2>2
  <2> QED
    BY <2>1, <2>2
<1> QED
  BY <1>1, <1>2 DEF StoresOK

\* Steps of a request that store no hit or document, and are not refused.
LEMMA QuietAccount ==
  ASSUME RequestsOK, SoundInv, StoresOK, NEW h \in Slots, CheckDocuments(h) \/ Challenge(h)
  PROVE  Accounted(h)
<1>1. Controlled(request[h])
  BY DEF SoundInv
<1>2. Passes(h)
  BY UnwrittenPasses DEF CheckDocuments, Challenge
<1>3. StoresOK' /\ UNCHANGED <<docs, hits, refused>>
  BY SessionStores DEF CheckDocuments, Challenge
<1>4. CASE Answer(h) /\ ~(request[h].pc = "check" /\ HasRequiredDocs(request[h].app))
  <2>1. request[h].pc \in {"check", "challenge"}
    BY DEF CheckDocuments, Challenge, At
  <2>2. Others(h) /\ request'[h] = NoRequest
    BY <1>4, AnswerTurn
  <2>3. request[h].pc = "check" => request[h].kind = "upload"
    BY <1>1 DEF Controlled
  <2> QED
    BY <1>2, <1>3, <1>4, <2>1, <2>2, <2>3, NoRequestSound, PlainAccount
<1>5. ASSUME NEW to, AdvanceTo(h, to),
             \/ request[h].pc = "check" /\ to = "DOCUMENTS_UPLOADED"
             \/ request[h].pc = "challenge" /\ to = "LIVENESS_PASSED"
      PROVE  Accounted(h)
  <2>1. Others(h) /\ Kept(h) /\ request'[h].pc = "advance" /\ request'[h].to = to
    BY <1>5, AdvanceToTurn
  <2>2. Controlled(request'[h]) /\ Aimed(request'[h]) /\ request'[h].kind # "disposition"
    BY <1>1, <1>5, <2>1 DEF Controlled, Aimed, Kept
  <2> QED
    BY <1>2, <1>3, <2>1, <2>2, PlainAccount
<1>6. CASE CheckDocuments(h)
  <2>1. request[h].pc = "check"
    BY <1>6 DEF CheckDocuments, At
  <2>2. \/ AdvanceTo(h, "DOCUMENTS_UPLOADED")
        \/ Answer(h) /\ ~HasRequiredDocs(request[h].app)
    BY <1>6 DEF CheckDocuments
  <2>3. CASE AdvanceTo(h, "DOCUMENTS_UPLOADED")
    BY <1>5, <2>1, <2>3, Zenon
  <2>4. CASE Answer(h) /\ ~HasRequiredDocs(request[h].app)
    BY <1>4, <2>4
  <2> QED
    BY <2>2, <2>3, <2>4
<1>7. CASE Challenge(h)
  <2>1. request[h].pc = "challenge" /\ (AdvanceTo(h, "LIVENESS_PASSED") \/ Answer(h))
    BY <1>7 DEF Challenge, At
  <2> QED
    BY <1>4, <1>5, <2>1
<1> QED
  BY <1>6, <1>7

\* The vendor's id is stored, or not.
LEMMA RegisterAccount ==
  ASSUME HookInv, RequestsOK, SoundInv, StoresOK, NEW h \in Slots, RegisterApplicant(h)
  PROVE  Accounted(h)
<1>1. Others(h) /\ request'[h] = NoRequest
  BY AnswerTurn DEF RegisterApplicant
<1>2. Passes(h)
  <2>1. CASE UNCHANGED repoVars
    BY <2>1, UnwrittenPasses
  <2>2. CASE SetVendorApplicantID(request[h].app)
    <3>1. PICK id \in AppIds : id = request[h].app
      BY <2>2 DEF SetVendorApplicantID, Exists
    <3>2. apps[id] \in Application /\ apps[id] # NoApp /\ UNCHANGED trail
          /\ apps' = [apps EXCEPT ![id] = Registered(apps[id])]
      BY <2>2, <3>1 DEF SetVendorApplicantID, Exists, HookInv, IInv, TypeOK
    <3>3. Registered(apps[id]).state = apps[id].state
      BY <3>2, RegisteredType
    <3> QED
      BY <3>2, <3>3 DEF Passes, StillPassed, Exists, HookInv, IInv, TypeOK
  <2> QED
    BY <2>1, <2>2 DEF RegisterApplicant
<1>3. StoresOK' /\ UNCHANGED <<docs, hits, refused>> /\ request[h].pc = "register"
  BY SessionStores DEF RegisterApplicant, At
<1> QED
  BY <1>1, <1>2, <1>3, NoRequestSound, PlainAccount

\* A trigger re-opens, or loses: no application passes by it.
LEMMA ReopenAccount ==
  ASSUME HookInv, RequestsOK, SoundInv, StoresOK, NEW h \in Slots, ReopenApplication(h)
  PROVE  Accounted(h)
<1>1. PICK id, version : id = request[h].app /\ version = request[h].version
  OBVIOUS
<1>2. Controlled(request[h]) /\ request[h].pc = "reopen"
  BY DEF SoundInv, ReopenApplication, At
<1>3. Others(h) /\ Controlled(request'[h]) /\ Aimed(request'[h]) /\ request'[h].pc # "advance"
  <2>1. CASE GoTo(h, "announce")
    BY <1>2, <2>1, GoToTurn DEF Kept, Controlled, Aimed
  <2>2. CASE Answer(h)
    BY <2>2, AnswerTurn, NoRequestSound
  <2> QED
    BY <2>1, <2>2 DEF ReopenApplication
<1>4. Passes(h)
  <2>1. CASE UNCHANGED repoVars
    BY <2>1, UnwrittenPasses
  <2>2. CASE Reopen(id, version, "internal")
    BY <2>2, ReopenPasses DEF Passes
  <2> QED
    BY <1>1, <2>1, <2>2 DEF ReopenApplication
<1>5. StoresOK' /\ UNCHANGED <<docs, hits, refused>>
  BY SessionStores DEF ReopenApplication
<1> QED
  BY <1>2, <1>3, <1>4, <1>5, PlainAccount

\* The announcement.
LEMMA AnnounceAccount ==
  ASSUME RequestsOK, SoundInv, StoresOK, NEW h \in Slots, Announce(h)
  PROVE  Accounted(h)
<1>1. PICK id, title : id = request[h].app /\ title = AnnouncementOf(request[h].kind)
  OBVIOUS
<1>2. /\ Controlled(request[h]) /\ request[h].pc = "announce"
      /\ announced' = [announced EXCEPT ![id][title] = announced[id][title] + 1]
      /\ UNCHANGED <<repoVars, docs, sessions, hits, refused, budget>>
  BY <1>1 DEF SoundInv, Announce, At
<1>3. id \in AppIds /\ title \in Announcements
  BY <1>1, <1>2 DEF Controlled, AnnouncementOf, Announcements
<1>4. announced' \in [AppIds -> [Announcements -> Nat]]
  <2>1. PICK row : row = [announced[id] EXCEPT ![title] = announced[id][title] + 1]
    OBVIOUS
  <2>2. announced' = [announced EXCEPT ![id] = row]
    BY <1>2, <2>1, Zenon
  <2>3. announced \in [AppIds -> [Announcements -> Nat]]
    BY DEF StoresOK
  <2>4. row \in [Announcements -> Nat]
    BY <1>3, <2>1, <2>3
  <2> QED
    BY <1>3, <2>2, <2>3, <2>4
<1>5. StoresOK'
  BY <1>2, <1>4 DEF StoresOK
<1>6. Others(h) /\ request'[h] = NoRequest
  BY AnswerTurn DEF Announce
<1>7. Passes(h)
  BY <1>2, UnwrittenPasses
<1> QED
  BY <1>2, <1>5, <1>6, <1>7, NoRequestSound, PlainAccount

\* A step that is not refused leaves the counts of refusals alone.
LEMMA Unrefused ==
  ASSUME StoresOK, UNCHANGED refused
  PROVE  RefusalsStay
<1>1. \A a \in AppIds, k \in Kinds : refused[a][k] \in Nat
  BY DEF StoresOK
<1> QED
  BY <1>1 DEF RefusalsStay

\* An upload is stored, and goes on to the check if its copy had started.
LEMMA StoreAccount ==
  ASSUME RequestsOK, SoundInv, StoresOK, NEW h \in Slots, StoreDocument(h)
  PROVE  Accounted(h)
<1>1. PICK id, type : id = request[h].app /\ type = request[h].arg
  OBVIOUS
<1>2. /\ request[h].pc = "store" /\ request[h].kind = "upload"
      /\ id \in AppIds /\ type \in DocTypes
  BY <1>1 DEF SoundInv, Controlled, Aimed, StoreDocument, At
<1>3. /\ docs' = [docs EXCEPT ![id] = docs[id] \union {type}]
      /\ UNCHANGED <<repoVars, sessions, hits, announced, refused, budget>>
  BY <1>1 DEF StoreDocument
<1>4. StoresOK'
  <2>1. docs \in [AppIds -> SUBSET DocTypes]
    BY DEF StoresOK
  <2>2. docs' \in [AppIds -> SUBSET DocTypes]
    BY <1>2, <1>3, <2>1
  <2> QED
    BY <1>3, <2>2 DEF StoresOK
<1>5. \A a \in AppIds : a # id => docs'[a] = docs[a]
  BY <1>2, <1>3 DEF StoresOK
<1>6. RefusalsStay /\ Passes(h) /\ Marks(h) /\ Pays(h)
  BY <1>2, <1>3, Unrefused, UnwrittenPasses DEF Marks, Has, Pays, Owes
<1>7. CASE request[h].state = "STARTED"
  <2>1. Others(h) /\ Kept(h) /\ request'[h].pc = "check"
    BY <1>7, GoToTurn DEF StoreDocument
  <2>2. Controlled(request'[h]) /\ Aimed(request'[h]) /\ request'[h].kind = "upload"
    BY <1>1, <1>2, <2>1 DEF Kept, Controlled, Aimed
  <2>3. Owes(h, id, "upload")'
    BY <1>1, <1>2, <2>1 DEF Kept, Owes
  <2>4. Files(h) /\ Clears(h)
    BY <1>1, <1>5, <2>2, <2>3 DEF Files, Clears, Owes
  <2> QED
    BY <1>4, <1>6, <2>1, <2>2, <2>4 DEF Accounted
<1>8. CASE request[h].state # "STARTED"
  <2>1. Others(h) /\ request'[h] = NoRequest
    BY <1>8, AnswerTurn DEF StoreDocument
  <2>2. Files(h) /\ Clears(h)
    BY <1>1, <1>5, <1>8, <2>1, NoRequestSound DEF Files, Clears, Owes
  <2> QED
    BY <1>4, <1>6, <2>1, <2>2, NoRequestSound DEF Accounted
<1> QED
  BY <1>7, <1>8

\* A screening that is referred owes the move; one that is not was refused it.
LEMMA RouteTurn ==
  ASSUME RequestsOK, SoundInv, StoresOK, NEW h \in Slots, NEW flagged, NEW id,
         request[h].pc \in {"screen", "store_hits"}, id = request[h].app, Route(h, flagged)
  PROVE  /\ Others(h) /\ Controlled(request'[h]) /\ Aimed(request'[h])
         /\ request'[h].kind # "disposition"
         /\ refused' \in [AppIds -> [Kinds -> Nat]] /\ RefusalsStay
         /\ Owes(h, id, "screening")' \/ refused'[id]["screening"] > 0
<1>1. PICK to : to = RouteTarget(flagged)
  OBVIOUS
<1>2. to \in {"MANUAL_REVIEW", "SCREENING"}
  BY <1>1 DEF RouteTarget
<1>3. request[h].kind = "screening" /\ id \in AppIds /\ "screening" \in Kinds
  BY DEF SoundInv, Controlled, Kinds
<1>4. CASE AdvanceTo(h, to) /\ UNCHANGED refused
  <2>1. Others(h) /\ Kept(h) /\ request'[h].pc = "advance" /\ request'[h].to = to
    BY <1>4, AdvanceToTurn
  <2>2. request'[h].kind = "screening" /\ request'[h].app = id
    BY <1>3, <2>1 DEF Kept
  <2>3. Controlled(request'[h]) /\ Aimed(request'[h])
    BY <1>2, <1>3, <2>1, <2>2 DEF Controlled, Aimed
  <2>4. Owes(h, id, "screening")'
    BY <2>1, <2>2 DEF Owes
  <2>5. refused' \in [AppIds -> [Kinds -> Nat]] /\ RefusalsStay
    BY <1>4, Unrefused DEF StoresOK
  <2> QED
    BY <2>1, <2>2, <2>3, <2>4, <2>5
<1>5. CASE Answer(h) /\ NoteRefused(h)
  <2>1. Others(h) /\ request'[h] = NoRequest
    BY <1>5, AnswerTurn
  <2>2. /\ refused' \in [AppIds -> [Kinds -> Nat]] /\ RefusalsStay
        /\ refused'[id]["screening"] > 0
    BY <1>3, <1>5, RefusedTurn DEF RefusalsStay
  <2>3. NoRequest.kind # "disposition"
    BY DEF NoRequest
  <2> QED
    BY <2>1, <2>2, <2>3, NoRequestSound
<1> QED
  BY <1>1, <1>4, <1>5 DEF Route

\* The provider's answer: nothing is stored yet, and nothing was owed.
LEMMA ScreenAccount ==
  ASSUME RequestsOK, SoundInv, StoresOK, NEW h \in Slots, Screen(h)
  PROVE  Accounted(h)
<1>1. PICK id : id = request[h].app
  OBVIOUS
<1>2. /\ request[h].pc = "screen" /\ request[h].kind = "screening" /\ id \in AppIds
      /\ UNCHANGED <<repoVars, docs, sessions, hits, announced, budget>>
  BY <1>1 DEF SoundInv, Controlled, Screen, At
<1>3. SUFFICES /\ Others(h) /\ Controlled(request'[h]) /\ Aimed(request'[h])
               /\ request'[h].kind # "disposition"
               /\ refused' \in [AppIds -> [Kinds -> Nat]] /\ RefusalsStay
  <2>1. ASSUME refused' \in [AppIds -> [Kinds -> Nat]]
        PROVE  StoresOK'
    BY <1>2, <2>1 DEF StoresOK
  <2>2. Passes(h) /\ Pays(h) /\ Marks(h) /\ Files(h)
    BY <1>2, UnwrittenPasses DEF Pays, Owes, Marks, Has, Files
  <2>3. ASSUME request'[h].kind # "disposition"
        PROVE  Clears(h)
    BY <2>3 DEF Clears, Owes
  <2> QED
    BY <2>1, <2>2, <2>3 DEF Accounted
<1>4. ASSUME UNCHANGED refused
      PROVE  refused' \in [AppIds -> [Kinds -> Nat]] /\ RefusalsStay
  BY <1>4, Unrefused DEF StoresOK
<1>5. CASE Answer(h) /\ UNCHANGED refused
  <2>1. NoRequest.kind # "disposition"
    BY DEF NoRequest
  <2> QED
    BY <1>4, <1>5, <2>1, AnswerTurn, NoRequestSound
<1>6. CASE Route(h, 0 >= ScreeningThreshold)
  <2>1. PICK flagged : flagged = (0 >= ScreeningThreshold)
    OBVIOUS
  <2> QED
    BY <1>1, <1>2, <1>6, <2>1, RouteTurn
<1>7. ASSUME NEW n \in 1 .. MaxHits, UNCHANGED refused,
             request' = [request EXCEPT ![h].pc = "store_hits", ![h].left = n,
                           ![h].to = RouteTarget(n >= ScreeningThreshold)]
      PROVE  /\ Others(h) /\ Controlled(request'[h]) /\ Aimed(request'[h])
             /\ request'[h].kind # "disposition"
             /\ refused' \in [AppIds -> [Kinds -> Nat]] /\ RefusalsStay
  <2>1. PICK to : to = RouteTarget(n >= ScreeningThreshold)
    OBVIOUS
  <2>2. Others(h) /\ Kept(h) /\ request'[h].pc = "store_hits"
    BY <1>7, <2>1, StoringTurn
  <2>3. Controlled(request'[h]) /\ Aimed(request'[h]) /\ request'[h].kind # "disposition"
    BY <1>1, <1>2, <2>2 DEF Controlled, Aimed, Kept
  <2> QED
    BY <1>4, <1>7, <2>2, <2>3
<1> QED
  BY <1>5, <1>6, <1>7 DEF Screen

\* A request with one hit less to store.
LEMMA StoredTurn ==
  ASSUME RequestsOK, NEW h \in Slots, NEW left, request' = [request EXCEPT ![h].left = left]
  PROVE  Others(h) /\ Kept(h) /\ request'[h].pc = request[h].pc
<1>1. PICK r : r = [request[h] EXCEPT !.left = left]
  OBVIOUS
<1>2. request' = [request EXCEPT ![h] = r] /\ request[h] \in Request
  BY <1>1 DEF RequestsOK
<1>3. request'[h] = r /\ Others(h)
  BY <1>2 DEF RequestsOK, Others
<1>4. /\ r.kind = request[h].kind /\ r.app = request[h].app
      /\ r.version = request[h].version /\ r.state = request[h].state
      /\ r.arg = request[h].arg
  BY <1>1, <1>2 DEF Request
<1>5. r.pc = request[h].pc
  BY <1>1, <1>2 DEF Request
<1> QED
  BY <1>3, <1>4, <1>5 DEF Kept

\* A hit is stored by a request that has still to refer the application.
LEMMA StoreHitAccount ==
  ASSUME RequestsOK, SoundInv, StoresOK, NEW h \in Slots, StoreHit(h)
  PROVE  Accounted(h)
<1>1. PICK id, left : id = request[h].app /\ left = request[h].left - 1
  OBVIOUS
<1>2. /\ request[h].pc = "store_hits" /\ request[h].kind = "screening" /\ id \in AppIds
      /\ hits' = [hits EXCEPT ![id] = Append(hits[id], "none")]
      /\ UNCHANGED <<repoVars, docs, sessions, announced, budget>>
  BY <1>1 DEF SoundInv, Controlled, StoreHit, At
<1>3. /\ Others(h) /\ Controlled(request'[h]) /\ Aimed(request'[h])
      /\ request'[h].kind # "disposition"
      /\ refused' \in [AppIds -> [Kinds -> Nat]] /\ RefusalsStay
      /\ Owes(h, id, "screening")' \/ refused'[id]["screening"] > 0
  <2>1. CASE request' = [request EXCEPT ![h].left = left] /\ UNCHANGED refused
    <3>1. Others(h) /\ Kept(h) /\ request'[h].pc = "store_hits"
      BY <1>2, <2>1, StoredTurn
    <3>2. request'[h].kind = "screening" /\ request'[h].app = id
      BY <1>1, <1>2, <3>1 DEF Kept
    <3>3. Controlled(request'[h]) /\ Aimed(request'[h]) /\ Owes(h, id, "screening")'
      BY <1>2, <3>1, <3>2 DEF Controlled, Aimed, Owes
    <3>4. refused' \in [AppIds -> [Kinds -> Nat]] /\ RefusalsStay
      BY <2>1, Unrefused DEF StoresOK
    <3> QED
      BY <3>1, <3>2, <3>3, <3>4
  <2>2. PICK flagged : flagged = (request[h].to = "MANUAL_REVIEW")
    OBVIOUS
  <2>3. CASE Route(h, flagged)
    BY <1>1, <1>2, <2>3, RouteTurn
  <2> QED
    BY <1>1, <2>1, <2>2, <2>3 DEF StoreHit
<1>4. hits[id] \in Seq(Dispositions \union {"none"})
  BY <1>2 DEF StoresOK
<1>5. /\ hits' \in [AppIds -> Seq(Dispositions \union {"none"})]
      /\ hits'[id] = Append(hits[id], "none")
      /\ \A a \in AppIds : a # id => hits'[a] = hits[a]
  <2>1. Append(hits[id], "none") \in Seq(Dispositions \union {"none"})
    BY <1>4
  <2> QED
    BY <1>2, <2>1 DEF StoresOK
<1>6. StoresOK'
  BY <1>2, <1>3, <1>5 DEF StoresOK
<1>7. Has(id, "BLOCK")' => Has(id, "BLOCK")
  <2>1. \A i \in DOMAIN hits'[id] : hits'[id][i] = "BLOCK" => i \in DOMAIN hits[id]
                                                     /\ hits[id][i] = "BLOCK"
    BY <1>4, <1>5
  <2> QED
    BY <2>1 DEF Has
<1>8. Marks(h)
  BY <1>3, <1>5, <1>7 DEF Marks, Has
<1>9. Pays(h)
  BY <1>1, <1>2, <1>3 DEF Pays, Owes
<1>10. Clears(h) /\ Files(h) /\ Passes(h)
  BY <1>2, <1>3, UnwrittenPasses DEF Clears, Owes, Files
<1> QED
  BY <1>3, <1>6, <1>8, <1>9, <1>10 DEF Accounted

\* An analyst marks every hit alike, and owes the move.
LEMMA DispositionAccount ==
  ASSUME RequestsOK, SoundInv, StoresOK, NEW h \in Slots, SetDisposition(h)
  PROVE  Accounted(h)
<1>1. PICK id, arg, to :
        /\ id = request[h].app /\ arg = request[h].arg
        /\ to = IF arg = "CLEAR" THEN "PASS" ELSE "FAIL"
  OBVIOUS
<1>2. /\ request[h].pc = "dispose" /\ request[h].kind = "disposition"
      /\ id \in AppIds /\ arg \in Dispositions
  BY <1>1 DEF SoundInv, Controlled, Aimed, SetDisposition, At
<1>3. /\ hits' = [hits EXCEPT ![id] = [i \in DOMAIN hits[id] |-> arg]]
      /\ AdvanceTo(h, to)
      /\ UNCHANGED <<repoVars, docs, sessions, announced, refused, budget>>
  BY <1>1 DEF SetDisposition
<1>4. [i \in DOMAIN hits[id] |-> arg] \in Seq(Dispositions \union {"none"})
  <2>1. hits[id] \in Seq(Dispositions \union {"none"})
    BY <1>2 DEF StoresOK
  <2>2. PICK n \in Nat : DOMAIN hits[id] = 1 .. n
    BY <2>1
  <2> QED
    BY <1>2, <2>2
<1>5. /\ hits' \in [AppIds -> Seq(Dispositions \union {"none"})]
      /\ \A i \in DOMAIN hits'[id] : hits'[id][i] = arg
      /\ \A a \in AppIds : a # id => hits'[a] = hits[a]
  BY <1>2, <1>3, <1>4 DEF StoresOK
<1>6. Others(h) /\ Kept(h) /\ request'[h].pc = "advance" /\ request'[h].to = to
  BY <1>3, AdvanceToTurn
<1>7. request'[h].kind = "disposition" /\ request'[h].app = id
  BY <1>1, <1>2, <1>6 DEF Kept
<1>8. Controlled(request'[h]) /\ Aimed(request'[h]) /\ Owes(h, id, "disposition")'
  BY <1>1, <1>2, <1>6, <1>7 DEF Controlled, Aimed, Owes
<1>9. StoresOK' /\ RefusalsStay /\ Passes(h) /\ Files(h)
  BY <1>3, <1>5, Unrefused, UnwrittenPasses DEF StoresOK, Files
<1>10. Marks(h)
  <2>1. ~Has(id, "none")'
    BY <1>2, <1>5 DEF Has, Dispositions
  <2> QED
    BY <1>5, <1>8, <2>1 DEF Marks, Has
<1>11. Clears(h)
  <2>1. ASSUME to = "PASS"
        PROVE  ~Has(id, "BLOCK")' /\ ~Has(id, "none")'
    BY <1>1, <1>5, <2>1 DEF Has
  <2> QED
    BY <1>6, <1>7, <2>1 DEF Clears, Owes
<1>12. Pays(h)
  BY <1>2 DEF Pays, Owes
<1> QED
  BY <1>6, <1>8, <1>9, <1>10, <1>11, <1>12 DEF Accounted

\* The guarded update writes what was owed, or counts a refusal.
LEMMA AdvanceAccount ==
  ASSUME HookInv, RequestsOK, SoundInv, StoresOK, NEW h \in Slots, Advance(h)
  PROVE  Accounted(h)
<1>1. PICK id, version, to, kind, actor :
        /\ id = request[h].app /\ version = request[h].version
        /\ to = request[h].to /\ kind = request[h].kind /\ actor = Actor(kind)
  OBVIOUS
<1>2. /\ request[h].pc = "advance" /\ id \in AppIds /\ kind \in Kinds
      /\ Controlled(request[h]) /\ (to = "PASS" => kind = "disposition")
      /\ UNCHANGED <<docs, sessions, hits, announced, budget>>
  BY <1>1 DEF SoundInv, Controlled, Aimed, Advance, At, Kinds
<1>3. /\ Others(h) /\ Controlled(request'[h]) /\ Aimed(request'[h])
      /\ request'[h].pc \in {"announce", "idle"}
  <2>1. CASE Answer(h)
    BY <2>1, AnswerTurn, NoRequestSound
  <2>2. CASE GoTo(h, "announce") /\ kind \in {"liveness", "disposition"}
    <3>1. Others(h) /\ Kept(h) /\ request'[h].pc = "announce"
      BY <2>2, GoToTurn
    <3> QED
      BY <1>1, <1>2, <2>2, <3>1 DEF Kept, Controlled, Aimed
  <2>3. ASSUME NEW updated, AfterUpdate(h, updated)
        PROVE  Answer(h) \/ (GoTo(h, "announce") /\ kind \in {"liveness", "disposition"})
    BY <1>1, <2>3 DEF AfterUpdate, Announces
  <2> QED
    BY <2>1, <2>2, <2>3 DEF Advance
<1>4. Marks(h) /\ Files(h) /\ Clears(h)
  BY <1>2, <1>3 DEF Marks, Has, Files, Clears, Owes
<1>5. CASE UpdateState(id, version, to, actor) /\ UNCHANGED refused
  <2>1. StoresOK' /\ RefusalsStay
    BY <1>2, <1>5, Unrefused DEF StoresOK
  <2>2. to \in States /\ apps[id] \in Application /\ apps[id].version = version
    BY <1>2, <1>5 DEF UpdateState, UpdateAccepted, CanTransition, legalTransitions, States,
                      Exists, HookInv, IInv, TypeOK
  <2>3. PICK entry : entry = [from |-> apps[id].state, to |-> to, by |-> actor]
    OBVIOUS
  <2>4. /\ apps' = [apps EXCEPT ![id] = Transitioned(apps[id], to)]
        /\ trail' = [trail EXCEPT ![id] = Append(trail[id], entry)]
    BY <1>5, <2>3 DEF UpdateState, RecordTransition
  <2>5. Transitioned(apps[id], to).state = to
        /\ Transitioned(apps[id], to).version = apps[id].version + 1
    BY <2>2, TransitionedType DEF Transitioned, Application
  <2>6. apps \in [AppIds -> Application \union {NoApp}] /\ trail \in [AppIds -> Seq(Transition)]
    BY DEF HookInv, IInv, TypeOK
  <2>7. Written(id)
    <3>1. Append(trail[id], entry) # <<>> /\ Append(trail[id], entry) # trail[id]
      <4>1. trail[id] \in Seq(Transition) /\ Len(trail[id]) \in Nat
        BY <1>2, <2>6
      <4>2. Len(Append(trail[id], entry)) = Len(trail[id]) + 1
        BY <4>1
      <4> QED
        BY <4>1, <4>2
    <3> QED
      BY <1>2, <2>4, <2>5, <2>6, <3>1 DEF Written
  <2>8. Pays(h)
    BY <1>1, <2>7 DEF Pays, Owes
  <2>9. \A a \in AppIds : a # id => apps'[a] = apps[a] /\ trail'[a] = trail[a]
    BY <1>2, <2>4, <2>6
  <2>10. apps'[id].state = to /\ apps[id] # NoApp
    BY <1>2, <1>5, <2>4, <2>5, <2>6 DEF UpdateState, UpdateAccepted, Exists
  <2>11. to = "PASS" => Decides(h, id)
    BY <1>1, <1>2, <1>5, <2>2, <2>10 DEF Decides, Owes, Exists
  <2>12. Passes(h)
    BY <1>2, <2>9, <2>10, <2>11 DEF Passes, StillPassed, Exists
  <2> QED
    BY <1>3, <1>4, <2>1, <2>8, <2>12 DEF Accounted
<1>6. CASE UNCHANGED repoVars /\ NoteRefused(h)
  <2>1. /\ refused' \in [AppIds -> [Kinds -> Nat]] /\ RefusalsStay
        /\ refused'[id][kind] > 0
    BY <1>1, <1>2, <1>6, RefusedTurn DEF RefusalsStay
  <2>2. StoresOK'
    BY <1>2, <2>1 DEF StoresOK
  <2>3. Pays(h) /\ Passes(h)
    BY <1>1, <1>6, <2>1, UnwrittenPasses DEF Pays, Owes
  <2> QED
    BY <1>3, <1>4, <2>1, <2>2, <2>3 DEF Accounted
<1> QED
  BY <1>1, <1>5, <1>6 DEF Advance

\* Every step of a request keeps the account.
LEMMA RequestAccount ==
  ASSUME HookInv, RequestsOK, SoundInv, StoresOK, NEW h \in Slots, Arrive(h) \/ Continue(h)
  PROVE  Accounted(h)
BY ArriveAccount, RegisterAccount, StoreAccount, QuietAccount, ScreenAccount, StoreHitAccount,
   DispositionAccount, AdvanceAccount, ReopenAccount, AnnounceAccount DEF Continue

-----------------------------------------------------------------------------
(* Whoever else takes a step: the scheduler, a delivery, the clock.        *)

\* It leaves requests and their stores alone, and passes an application only
\* as a delivery does, under the key of an event.
Aside ==
  /\ UNCHANGED <<request, docs, hits, refused>>
  /\ \A a \in AppIds :
       Exists(a)' /\ apps'[a].state = "PASS" =>
         StillPassed(a) \/ trail'[a][Len(trail'[a])].by \in Keys

\* A step that writes nothing.
LEMMA UnwrittenAside ==
  ASSUME UNCHANGED repoVars, UNCHANGED <<request, docs, hits, refused>>
  PROVE  Aside
BY DEF Aside, StillPassed, Exists, repoVars

\* A scheduler pass re-opens.
LEMMA TickAside ==
  ASSUME HookInv, Tick
  PROVE  Aside
<1>1. CASE TickReopen
  <2>1. PICK d \in tick.due : Reopen(d.id, d.version, "scheduler") \/ UNCHANGED repoVars
    BY <1>1 DEF TickReopen
  <2>2. UNCHANGED <<request, docs, hits, refused>>
    BY <1>1 DEF TickReopen
  <2>3. PICK id, version : id = d.id /\ version = d.version
    OBVIOUS
  <2>4. CASE Reopen(id, version, "scheduler")
    BY <2>2, <2>4, ReopenPasses DEF Aside
  <2> QED
    BY <2>1, <2>2, <2>3, <2>4, UnwrittenAside
<1>2. CASE TickList \/ TickAnnounce
  BY <1>2, UnwrittenAside DEF TickList, TickAnnounce
<1> QED
  BY <1>1, <1>2 DEF Tick

\* A year passes.
LEMMA ElapseAside ==
  ASSUME HookInv, NEW id \in AppIds, Elapse(id), UNCHANGED handlerVars
  PROVE  Aside
<1>1. PICK app : app = [apps[id] EXCEPT !.reKYCDue = "past"]
  OBVIOUS
<1>2. apps[id] \in Application /\ apps[id] # NoApp /\ UNCHANGED trail
      /\ apps' = [apps EXCEPT ![id] = app]
  BY <1>1 DEF Elapse, Exists, HookInv, IInv, TypeOK
<1>3. app.state = apps[id].state
  BY <1>1, <1>2 DEF Application
<1> QED
  BY <1>2, <1>3 DEF Aside, StillPassed, Exists, HookInv, IInv, TypeOK, handlerVars

\* A delivery passes an application under the key of its event.
LEMMA IngestAside ==
  ASSUME HookInv, NEW w \in Workers, Ingest(w), UNCHANGED handlerVars
  PROVE  Aside
<1>1. UNCHANGED <<request, docs, hits, refused>>
  BY DEF handlerVars
<1>2. CASE IngestUpdate(w)
  <2>1. PICK id, version, to, key :
          /\ id = ApplicationID(worker[w].event) /\ version = worker[w].version
          /\ to = worker[w].to /\ key = Key(worker[w].event)
    OBVIOUS
  <2>2. worker[w].pc = "update" /\ worker[w].event \in Events
    BY <1>2 DEF IngestUpdate, HookInv, WorkersInv
  <2>3. key \in Keys
    BY <2>1, <2>2 DEF Keys
  <2>4. CASE UpdateState(id, version, to, key)
    <3>1. PICK entry : entry = [from |-> apps[id].state, to |-> to, by |-> key]
      OBVIOUS
    <3>2. /\ id \in AppIds /\ UNCHANGED <<request, docs, hits, refused>>
          /\ apps' = [apps EXCEPT ![id] = Transitioned(apps[id], to)]
          /\ trail' = [trail EXCEPT ![id] = Append(trail[id], entry)]
      BY <1>1, <2>4, <3>1 DEF UpdateState, UpdateAccepted, Exists, RecordTransition
    <3>3. apps \in [AppIds -> Application \union {NoApp}] /\ trail \in [AppIds -> Seq(Transition)]
      BY DEF HookInv, IInv, TypeOK
    <3>4. \A a \in AppIds : a # id => apps'[a] = apps[a] /\ trail'[a] = trail[a]
      BY <3>2, <3>3
    <3>5. entry.by = key
      BY <3>1
    <3>6. trail'[id][Len(trail'[id])] = entry
      <4>1. trail[id] \in Seq(Transition) /\ trail'[id] = Append(trail[id], entry)
        BY <3>2, <3>3
      <4>2. /\ Len(Append(trail[id], entry)) = Len(trail[id]) + 1
            /\ Append(trail[id], entry)[Len(trail[id]) + 1] = entry
        BY <4>1
      <4> QED
        BY <4>1, <4>2
    <3> QED
      BY <2>3, <3>2, <3>4, <3>5, <3>6 DEF Aside, StillPassed, Exists
  <2>5. UpdateState(id, version, to, key) \/ UNCHANGED repoVars
    BY <1>2, <2>1 DEF IngestUpdate
  <2> QED
    BY <1>1, <2>4, <2>5, UnwrittenAside
<1>3. CASE ~IngestUpdate(w)
  <2>1. UNCHANGED repoVars
    BY <1>3 DEF Ingest, IngestRefused, IngestDuplicate, IngestUnparsable, IngestParsed,
                IngestGet, IngestReply
  <2> QED
    BY <1>1, <2>1, UnwrittenAside
<1> QED
  BY <1>2, <1>3

\* A restart forgets the requests and their hits.
Forgotten ==
  /\ request' = [h \in Slots |-> NoRequest] /\ hits' = [a \in AppIds |-> <<>>]
  /\ UNCHANGED docs /\ restarts' # 0

\* Every step of the service is one of these, or the step of a request.
LEMMA ServiceSteps ==
  ASSUME ServiceInv, [ServiceNext]_vars
  PROVE  \/ \E h \in Slots : Arrive(h) \/ Continue(h)
         \/ Aside
         \/ Forgotten
<1> USE DEF ServiceInv
<1>1. CASE ServiceRestart
  <2>1. restarts \in Nat
    BY RestartsType DEF HookInv
  <2> QED
    BY <1>1, <2>1 DEF ServiceRestart, Restart, Forgotten
<1>2. CASE UNCHANGED vars
  BY <1>2, UnwrittenAside DEF vars, handlerVars
<1>3. ASSUME NEW a \in AppIds, Elapse(a), UNCHANGED <<hookVars, handlerVars>>
      PROVE  Aside
  BY <1>3, ElapseAside
<1> QED
  BY <1>1, <1>2, <1>3, TickAside, IngestAside DEF ServiceNext

\* What the requests are about, and the store, moves as SlotsAfter asks.
LEMMA ServiceMoves ==
  ASSUME ServiceInv, [ServiceNext]_vars
  PROVE  StoreMoves /\ SlotMoves
<1> USE DEF ServiceInv
<1>1. UNCHANGED request => SlotMoves
  BY DEF SlotMoves
<1>2. ASSUME NEW h \in Slots, Arrive(h) \/ Continue(h)
      PROVE  StoreMoves /\ SlotMoves
  BY <1>2, RequestStep DEF HandlerStep, HandlerWrite
<1>3. CASE Tick
  BY <1>1, <1>3, TickStep DEF HandlerWrite
<1>4. ASSUME NEW a \in AppIds, Elapse(a), UNCHANGED handlerVars
      PROVE  StoreMoves /\ SlotMoves
  BY <1>1, <1>4, ElapseWrite DEF HandlerWrite, handlerVars
<1>5. ASSUME NEW w \in Workers, Ingest(w), UNCHANGED handlerVars
      PROVE  StoreMoves /\ SlotMoves
  BY <1>1, <1>5, IngestInv DEF handlerVars
<1>6. CASE ServiceRestart
  <2>1. UNCHANGED repoVars /\ request' = [h \in Slots |-> NoRequest]
    BY <1>6 DEF ServiceRestart, Restart
  <2>2. \A h \in Slots : request'[h].app \notin AppIds
    BY <2>1, NoRequestType
  <2> QED
    BY <2>1, <2>2, SameMoves DEF SlotMoves
<1>7. CASE UNCHANGED vars
  BY <1>1, <1>7, SameMoves DEF vars, handlerVars
<1> QED
  BY <1>2, <1>3, <1>4, <1>5, <1>6, <1>7 DEF ServiceNext

\* No trail is emptied.
LEMMA TrailGrows ==
  ASSUME IInv, [StoreCall]_repoVars
  PROVE  \A a \in AppIds : trail'[a] = <<>> => trail[a] = <<>>
<1>1. ASSUME NEW id \in AppIds, NEW newState, NEW actor, RecordTransition(id, newState, actor)
      PROVE  \A a \in AppIds : trail'[a] = <<>> => trail[a] = <<>>
  <2>1. PICK entry : entry = [from |-> apps[id].state, to |-> newState, by |-> actor]
    OBVIOUS
  <2>2. trail' = [trail EXCEPT ![id] = Append(trail[id], entry)]
    BY <1>1, <2>1 DEF RecordTransition
  <2>3. trail \in [AppIds -> Seq(Transition)]
    BY DEF IInv, TypeOK
  <2>4. Append(trail[id], entry) # <<>>
    <3>1. trail[id] \in Seq(Transition)
      BY <2>3
    <3>2. Len(Append(trail[id], entry)) = Len(trail[id]) + 1 /\ Len(trail[id]) \in Nat
      BY <3>1
    <3> QED
      BY <3>2
  <2> QED
    BY <2>2, <2>3, <2>4
<1>2. \/ UNCHANGED trail
      \/ \E id \in AppIds : \E newState, actor : RecordTransition(id, newState, actor)
  <2>1. CASE StoreCall
    BY <2>1 DEF StoreCall, Create, CreateRefusedLate, UpdateState, Reopen, SetVendorApplicantID,
                Elapse
  <2> QED
    BY <2>1 DEF repoVars
<1> QED
  BY <1>1, <1>2

\* The requests stay sound, and the stores of their type.
LEMMA SoundStep ==
  ASSUME ServiceInv, SoundInv, StoresOK, [ServiceNext]_vars
  PROVE  SoundInv' /\ StoresOK'
<1> USE DEF ServiceInv
<1>1. ASSUME UNCHANGED handlerVars
      PROVE  SoundInv' /\ StoresOK'
  BY <1>1 DEF handlerVars, SoundInv, Controlled, Aimed, StoresOK
<1>2. ASSUME NEW h \in Slots, Arrive(h) \/ Continue(h)
      PROVE  SoundInv' /\ StoresOK'
  <2>1. Accounted(h)
    BY <1>2, RequestAccount
  <2>2. ASSUME NEW x \in Slots
        PROVE  Controlled(request'[x]) /\ Aimed(request'[x])
    BY <2>1 DEF Accounted, Others, SoundInv
  <2> QED
    BY <2>1, <2>2 DEF Accounted, SoundInv, Controlled, Aimed
<1>3. CASE Tick
  <2>1. UNCHANGED <<request, docs, sessions, hits, refused, budget>>
    BY <1>3 DEF Tick, TickList, TickReopen, TickAnnounce
  <2>2. announced' \in [AppIds -> [Announcements -> Nat]]
    <3>1. announced \in [AppIds -> [Announcements -> Nat]]
      BY DEF StoresOK
    <3>2. CASE TickAnnounce
      <4>1. PICK id : id = tick.announce
        OBVIOUS
      <4>2. /\ id \in AppIds /\ "re_kyc" \in Announcements
            /\ announced' = [announced EXCEPT ![id]["re_kyc"] = announced[id]["re_kyc"] + 1]
        BY <3>2, <4>1 DEF TickAnnounce, TickInv, Announcements
      <4> QED
        BY <3>1, <4>2, AnnouncedAfter
    <3> QED
      BY <1>3, <3>1, <3>2 DEF Tick, TickList, TickReopen
  <2> QED
    BY <2>1, <2>2 DEF SoundInv, Controlled, Aimed, StoresOK
<1>4. CASE ServiceRestart
  <2>1. /\ request' = [h \in Slots |-> NoRequest]
        /\ hits' = [a \in AppIds |-> <<>>]
        /\ announced' = [a \in AppIds |-> [n \in Announcements |-> 0]]
        /\ UNCHANGED <<docs, sessions, refused, budget>>
    BY <1>4 DEF ServiceRestart
  <2>2. SoundInv'
    <3>1. \A h \in Slots : request'[h] = NoRequest
      BY <2>1
    <3> QED
      BY <3>1, NoRequestSound DEF SoundInv, Controlled, Aimed
  <2> QED
    BY <2>1, <2>2 DEF StoresOK
<1>5. UNCHANGED vars => UNCHANGED handlerVars
  BY DEF vars
<1> QED
  BY <1>1, <1>2, <1>3, <1>4, <1>5 DEF ServiceNext

\* The service starts with no requests and with empty stores.
LEMMA SoundInit ==
  ASSUME ServiceInit
  PROVE  SoundInv /\ StoresOK
<1>1. HandlerInit
  BY DEF ServiceInit
<1>2. SoundInv
  BY <1>1, NoRequestSound DEF HandlerInit, SoundInv
<1>3. StoresOK
  BY <1>1, BudgetAssumption DEF HandlerInit, StoresOK
<1> QED
  BY <1>2, <1>3

\* The inductive invariant of the requests and their stores.
LEMMA SoundInvariant == ServiceSpec => [](SoundInv /\ StoresOK)
<1>1. ServiceInit => SoundInv /\ StoresOK
  BY SoundInit
<1>2. ServiceInv /\ (SoundInv /\ StoresOK) /\ [ServiceNext]_vars => (SoundInv /\ StoresOK)'
  BY SoundStep
<1> QED
  BY <1>1, <1>2, ServiceInvariant, PTL DEF ServiceSpec

\* The type of the service's state: its handlers store documents for the kinds
\* of document there are, sessions, hits and announcements, and nothing else.
THEOREM ServiceTypeCorrect == ServiceSpec => []ServiceTypeOK
<1>1. ServiceInv /\ (SoundInv /\ StoresOK) => ServiceTypeOK
  BY Zenon DEF ServiceInv, RequestsOK, Request, Pcs, StoresOK, ServiceTypeOK, TickInv, Due
<1> QED
  BY <1>1, ServiceInvariant, SoundInvariant, PTL

-----------------------------------------------------------------------------
(* Nothing is left undone but by a refusal.                                *)

\* A debt of a request is one after the step of another, or the request that
\* took the step has settled it.
LEMMA DebtStays ==
  ASSUME NEW h \in Slots, Others(h), Pays(h), NEW g \in Slots, NEW a \in AppIds,
         NEW kind \in {"upload", "screening", "disposition"}, Owes(g, a, kind)
  PROVE  \/ Owes(g, a, kind)'
         \/ refused'[a][kind] > 0
         \/ g = h /\ (Written(a) \/ (kind = "upload" /\ ~HasRequiredDocs(a)))
<1>1. CASE g = h
  BY <1>1, Zenon DEF Pays
<1>2. CASE g # h
  BY <1>2 DEF Others, Owes
<1> QED
  BY <1>1, <1>2

\* What was refused stays refused.
LEMMA RefusalStays ==
  ASSUME StoresOK, StoresOK', RefusalsStay, NEW a \in AppIds, NEW kind \in Kinds,
         refused[a][kind] > 0
  PROVE  refused'[a][kind] > 0
<1>1. refused[a][kind] \in Nat /\ refused'[a][kind] \in Nat
  BY DEF StoresOK
<1> QED
  BY <1>1 DEF RefusalsStay

\* A first application in STARTED with its documents complete has an upload
\* that is to move it, or was refused.  Its requests have read STARTED.
Unread(a) == Exists(a) /\ trail[a] = <<>>

StuckInv ==
  /\ \A a \in AppIds : a \notin issued => docs[a] = {}
  /\ \A h \in Slots, a \in AppIds : request[h].app = a /\ Unread(a) =>
       request[h].state = "STARTED"
  /\ restarts = 0 => \A a \in AppIds : Unread(a) /\ HasRequiredDocs(a) =>
       refused[a]["upload"] > 0 \/ \E h \in Slots : Owes(h, a, "upload")

\* Documents are of applications that were issued, and requests about one that
\* has no trail read it in STARTED.
LEMMA ReadStep ==
  ASSUME ServiceInv, ServiceInv', TrailInv, TrailInv', StuckInv, SoundInv, StoresOK,
         [ServiceNext]_vars
  PROVE  /\ \A a \in AppIds : a \notin issued' => docs'[a] = {}
         /\ \A h \in Slots, a \in AppIds : request'[h].app = a /\ Unread(a)' =>
              request'[h].state = "STARTED"
<1>1. StoreMoves /\ SlotMoves
  BY ServiceMoves
<1>2. \A a \in AppIds : trail'[a] = <<>> => trail[a] = <<>>
  BY ServiceCalls, TrailGrows DEF ServiceInv, HookInv
<1>3. ASSUME NEW a \in AppIds, a \notin issued'
      PROVE  docs'[a] = {}
  <2>1. a \notin issued /\ docs[a] = {}
    BY <1>1, <1>3 DEF StoreMoves, StuckInv
  <2>2. ASSUME NEW h \in Slots, Arrive(h) \/ Continue(h)
        PROVE  docs'[a] = docs[a]
    <3>1. Files(h)
      BY <2>2, RequestAccount DEF Accounted, ServiceInv
    <3>2. request[h].app # a
      BY <2>1 DEF ServiceInv, SlotsInv
    <3> QED
      BY <3>1, <3>2 DEF Files
  <2> QED
    BY <2>1, <2>2, ServiceSteps DEF Aside, Forgotten
<1>4. ASSUME NEW h \in Slots, NEW a \in AppIds, a = request'[h].app, Unread(a)'
      PROVE  request'[h].state = "STARTED"
  <2>1. apps'[a] # NoApp /\ trail'[a] = <<>> /\ trail[a] = <<>>
    BY <1>2, <1>4 DEF Unread, Exists
  <2>2. CASE request[h].app = a /\ request'[h].state = request[h].state
    <3>1. a \in issued
      BY <2>2 DEF ServiceInv, SlotsInv
    <3>2. Unread(a)
      BY <1>1, <2>1, <3>1 DEF StoreMoves, Unread, Exists
    <3> QED
      BY <2>2, <3>2 DEF StuckInv
  <2>3. CASE request'[h].state = apps'[a].state
    BY <2>1, <2>3 DEF TrailInv, TrailReplays
  <2> QED
    BY <1>1, <1>4, <2>2, <2>3 DEF SlotMoves
<1> QED
  BY <1>3, <1>4

\* So the upload that completes the documents re-evaluates what it should.
LEMMA StuckStep ==
  ASSUME ServiceInv, ServiceInv', TrailInv, TrailInv', StuckInv, SoundInv, StoresOK,
         StoresOK', [ServiceNext]_vars
  PROVE  StuckInv'
<1>1. StoreMoves
  BY ServiceMoves
<1>2. \A a \in AppIds : trail'[a] = <<>> => trail[a] = <<>>
  BY ServiceCalls, TrailGrows DEF ServiceInv, HookInv
<1>3. ASSUME restarts' = 0, NEW a \in AppIds, Unread(a)', HasRequiredDocs(a)'
      PROVE  refused'[a]["upload"] > 0 \/ \E h \in Slots : Owes(h, a, "upload")'
  <2>1. restarts = 0
    <3>1. restarts \in Nat
      BY RestartsType DEF ServiceInv, HookInv
    <3>2. restarts' = restarts \/ restarts' = restarts + 1
      BY DEF ServiceNext, ServiceRestart, Restart, hookVars, vars, Ingest, IngestRefused,
             IngestDuplicate,
             IngestUnparsable, IngestParsed, IngestGet, IngestUpdate, IngestReply
    <3> QED
      BY <1>3, <3>1, <3>2
  <2>2. a \in issued => Unread(a)
    BY <1>1, <1>2, <1>3 DEF StoreMoves, Unread, Exists
  <2>3. a \notin issued => ~HasRequiredDocs(a)
    BY DEF StuckInv, HasRequiredDocs
  <2>4. ASSUME HasRequiredDocs(a)
        PROVE  refused[a]["upload"] > 0 \/ \E h \in Slots : Owes(h, a, "upload")
    BY <2>1, <2>2, <2>3, <2>4 DEF StuckInv
  <2>5. ASSUME NEW h \in Slots, Arrive(h) \/ Continue(h)
        PROVE  refused'[a]["upload"] > 0 \/ \E g \in Slots : Owes(g, a, "upload")'
    <3>1. Accounted(h)
      BY <2>5, RequestAccount DEF ServiceInv
    <3>2. CASE docs'[a] = docs[a]
      <4>1. HasRequiredDocs(a)
        BY <1>3, <3>2 DEF HasRequiredDocs
      <4>2. CASE refused[a]["upload"] > 0
        BY <3>1, <4>2, RefusalStays DEF Accounted, Kinds
      <4>3. ASSUME NEW g \in Slots, Owes(g, a, "upload")
            PROVE  refused'[a]["upload"] > 0 \/ Owes(g, a, "upload")'
        <5>1. ~Written(a)
          BY <1>3 DEF Written, Unread
        <5> QED
          BY <3>1, <4>1, <4>3, <5>1, DebtStays DEF Accounted
      <4> QED
        BY <2>4, <4>1, <4>2, <4>3
    <3>3. CASE docs'[a] # docs[a]
      <4>1. /\ request[h].app = a
            /\ HasRequiredDocs(a)' /\ request[h].state = "STARTED" => Owes(h, a, "upload")'
        BY <3>1, <3>3 DEF Accounted, Files
      <4>2. Unread(a)
        BY <2>2, <4>1 DEF ServiceInv, SlotsInv
      <4>3. request[h].state = "STARTED"
        BY <4>1, <4>2 DEF StuckInv
      <4> QED
        BY <1>3, <4>1, <4>3
    <3> QED
      BY <3>2, <3>3
  <2>6. CASE Aside
    <3>1. UNCHANGED <<request, docs, refused>>
      BY <2>6 DEF Aside
    <3>2. HasRequiredDocs(a)
      BY <1>3, <3>1 DEF HasRequiredDocs
    <3> QED
      BY <2>4, <3>1, <3>2 DEF Owes
  <2> QED
    BY <1>3, <2>5, <2>6, ServiceSteps DEF Forgotten
<1>4. /\ \A a \in AppIds : a \notin issued' => docs'[a] = {}
      /\ \A h \in Slots, a \in AppIds : request'[h].app = a /\ Unread(a)' =>
           request'[h].state = "STARTED"
  BY ReadStep
<1> QED
  BY <1>3, <1>4 DEF StuckInv

\* The inductive invariant of the uploads.
LEMMA StuckInvariant == ServiceSpec => []StuckInv
<1>1. ServiceInit => StuckInv
  <2>1. ASSUME ServiceInit
        PROVE  /\ docs = [a \in AppIds |-> {}]
               /\ \A h \in Slots : request[h].app \notin AppIds
    BY <2>1, NoRequestType DEF ServiceInit, HandlerInit
  <2> QED
    BY <2>1 DEF StuckInv, HasRequiredDocs
<1>2. /\ ServiceInv /\ ServiceInv' /\ TrailInv /\ TrailInv' /\ StuckInv
      /\ (SoundInv /\ StoresOK) /\ (SoundInv /\ StoresOK)' /\ [ServiceNext]_vars
      => StuckInv'
  BY StuckStep
<1> QED
  BY <1>1, <1>2, ServiceInvariant, TrailInvariant, SoundInvariant, PTL DEF ServiceSpec

\* Two uploads that complete the documents at once cannot leave a first
\* application in STARTED: the later one sees both documents.  Only a request
\* that lost its guarded update to another write leaves it there.
THEOREM StuckByConflictOnly == ServiceSpec => []StuckOnlyByConflict
<1>1. StuckInv => StuckOnlyByConflict
  BY DEF StuckInv, StuckOnlyByConflict, Quiet, At, Owes, Unread, HasRequiredDocs
<1> QED
  BY <1>1, StuckInvariant, PTL

\* The marks of hits, and the request that owes the application a move for
\* leaving them.
Debt(mark, kind) ==
  \/ mark = "BLOCK" /\ kind = "disposition"
  \/ mark = "none" /\ kind = "screening"

\* It was no delivery that recorded the last transition.
Undelivered(a) == trail[a][Len(trail[a])].by \notin Keys

\* An application that passed with such hits is owed a move, or was refused it.
Covered(a, mark, kind) ==
  Exists(a) /\ apps[a].state = "PASS" /\ Undelivered(a) /\ Has(a, mark) =>
    refused[a][kind] > 0 \/ \E g \in Slots : Owes(g, a, kind)

\* So is one that an analyst is about to pass, by another request.
CoveredBefore(h, a, mark, kind) ==
  /\ Exists(a) /\ Owes(h, a, "disposition") /\ request[h].to = "PASS"
  /\ request[h].version = apps[a].version /\ Has(a, mark)
  => refused[a][kind] > 0 \/ \E g \in Slots \ {h} : Owes(g, a, kind)

CoverInv ==
  \A a \in AppIds : \A mark, kind : Debt(mark, kind) =>
    Covered(a, mark, kind) /\ \A h \in Slots : CoveredBefore(h, a, mark, kind)

\* A request's step: what passes, and what had passed.
LEMMA CoverRequest ==
  ASSUME NEW h \in Slots, Accounted(h), StoresOK, NEW a \in AppIds, NEW mark, NEW kind,
         Debt(mark, kind), Covered(a, mark, kind), CoveredBefore(h, a, mark, kind)
  PROVE  Covered(a, mark, kind)'
<1> SUFFICES ASSUME Exists(a)', apps'[a].state = "PASS", Undelivered(a)', Has(a, mark)'
             PROVE  refused'[a][kind] > 0 \/ \E g \in Slots : Owes(g, a, kind)'
  BY DEF Covered
<1>1. kind \in {"upload", "screening", "disposition"} /\ kind \in Kinds /\ kind # "upload"
  BY DEF Debt, Kinds
<1>2. refused[a][kind] > 0 => refused'[a][kind] > 0
  BY <1>1, RefusalStays DEF Accounted
<1>3. CASE StillPassed(a)
  <2>1. ~Written(a) /\ Exists(a) /\ apps[a].state = "PASS" /\ Undelivered(a)
    BY <1>3 DEF StillPassed, Written, Undelivered
  <2>2. CASE Has(a, mark)
    <3>1. refused[a][kind] > 0 \/ \E g \in Slots : Owes(g, a, kind)
      BY <2>1, <2>2 DEF Covered
    <3>2. ASSUME NEW g \in Slots, Owes(g, a, kind)
          PROVE  refused'[a][kind] > 0 \/ Owes(g, a, kind)'
      BY <1>1, <2>1, <3>2, DebtStays DEF Accounted
    <3> QED
      BY <1>2, <3>1, <3>2
  <2>3. CASE ~Has(a, mark)
    BY <2>3 DEF Accounted, Marks, Debt
  <2> QED
    BY <2>2, <2>3
<1>4. CASE Decides(h, a)
  <2>1. Has(a, mark) /\ UNCHANGED refused
    BY <1>4 DEF Decides, Has
  <2>2. refused[a][kind] > 0 \/ \E g \in Slots \ {h} : Owes(g, a, kind)
    BY <1>4, <2>1 DEF Decides, CoveredBefore
  <2>3. ASSUME NEW g \in Slots \ {h}, Owes(g, a, kind)
        PROVE  Owes(g, a, kind)'
    BY <2>3 DEF Accounted, Others, Owes
  <2> QED
    BY <1>2, <2>2, <2>3
<1> QED
  BY <1>3, <1>4 DEF Accounted, Passes

\* A copy that is still current was current before the step.
LEMMA CurrentBefore ==
  ASSUME ServiceInv, ServiceInv', StoreMoves, NEW x \in Slots, NEW a \in AppIds,
         request'[x] = request[x], request[x].app = a,
         Exists(a)', request'[x].version = apps'[a].version
  PROVE  /\ Exists(a) /\ request[x].version = apps[a].version
         /\ apps'[a].version = apps[a].version /\ apps[a].version # apps[a].version + 1
<1>1. a \in issued
      /\ (apps[a] # NoApp => request[x].version <= apps[a].version)
  BY DEF ServiceInv, SlotsInv
<1>2. /\ apps[a] # NoApp
      /\ apps'[a].version = apps[a].version \/ apps'[a].version = apps[a].version + 1
  BY <1>1 DEF StoreMoves, Exists
<1>3. apps[a].version \in Nat
  BY <1>2 DEF ServiceInv, HookInv, IInv, TypeOK, Application
<1> QED
  BY <1>1, <1>2, <1>3 DEF Exists

\* A request's step: whoever else is about to pass the application.
LEMMA CoverBeforeRequest ==
  ASSUME ServiceInv, ServiceInv', StoreMoves, NEW h \in Slots, Accounted(h), StoresOK,
         NEW a \in AppIds, NEW mark, NEW kind, Debt(mark, kind),
         NEW x \in Slots, CoveredBefore(x, a, mark, kind)
  PROVE  CoveredBefore(x, a, mark, kind)'
<1> SUFFICES ASSUME Exists(a)', Owes(x, a, "disposition")', request'[x].to = "PASS",
                    request'[x].version = apps'[a].version, Has(a, mark)'
             PROVE  refused'[a][kind] > 0 \/ \E g \in Slots \ {x} : Owes(g, a, kind)'
  BY DEF CoveredBefore
<1>1. kind \in {"upload", "screening", "disposition"} /\ kind \in Kinds /\ kind # "upload"
  BY DEF Debt, Kinds
<1>2. refused[a][kind] > 0 => refused'[a][kind] > 0
  BY <1>1, RefusalStays DEF Accounted
<1>3. x # h
  BY DEF Accounted, Clears, Debt
<1>4. request'[x] = request[x]
  BY <1>3 DEF Accounted, Others
<1>5. Owes(x, a, "disposition") /\ request[x].to = "PASS" /\ request[x].app = a
  BY <1>4 DEF Owes
<1>6. /\ Exists(a) /\ request[x].version = apps[a].version
      /\ apps'[a].version = apps[a].version /\ apps[a].version # apps[a].version + 1
  BY <1>4, <1>5, CurrentBefore
<1>7. ~Written(a)
  BY <1>6 DEF Written
<1>8. CASE Has(a, mark)
  <2>1. refused[a][kind] > 0 \/ \E g \in Slots \ {x} : Owes(g, a, kind)
    BY <1>5, <1>6, <1>8 DEF CoveredBefore
  <2>2. ASSUME NEW g \in Slots \ {x}, Owes(g, a, kind)
        PROVE  refused'[a][kind] > 0 \/ Owes(g, a, kind)'
    BY <1>1, <1>7, <2>2, DebtStays DEF Accounted
  <2> QED
    BY <1>2, <2>1, <2>2
<1>9. CASE ~Has(a, mark)
  <2>1. Owes(h, a, kind)' \/ refused'[a][kind] > 0
    BY <1>9 DEF Accounted, Marks, Debt
  <2> QED
    BY <1>3, <2>1
<1> QED
  BY <1>8, <1>9

\* Every step of the service keeps the hits covered.
LEMMA CoverStep ==
  ASSUME ServiceInv, ServiceInv', SoundInv, StoresOK, CoverInv, [ServiceNext]_vars
  PROVE  CoverInv'
<1>1. StoreMoves
  BY ServiceMoves
<1> SUFFICES ASSUME NEW a \in AppIds, NEW mark, NEW kind, Debt(mark, kind)
             PROVE  Covered(a, mark, kind)'
                    /\ \A x \in Slots : CoveredBefore(x, a, mark, kind)'
  BY DEF CoverInv
<1>2. Covered(a, mark, kind) /\ \A x \in Slots : CoveredBefore(x, a, mark, kind)
  BY DEF CoverInv
<1>3. ASSUME NEW h \in Slots, Arrive(h) \/ Continue(h)
      PROVE  Covered(a, mark, kind)'
             /\ \A x \in Slots : CoveredBefore(x, a, mark, kind)'
  <2>1. Accounted(h)
    BY <1>3, RequestAccount DEF ServiceInv
  <2> QED
    BY <1>1, <1>2, <2>1, CoverRequest, CoverBeforeRequest
<1>4. CASE Aside
  <2>1. /\ UNCHANGED <<request, hits, refused>>
        /\ Has(a, mark)' = Has(a, mark)
        /\ \A g, k : Owes(g, a, k)' = Owes(g, a, k)
    BY <1>4 DEF Aside, Has, Owes
  <2>2. Covered(a, mark, kind)'
    <3>1. ASSUME Exists(a)', apps'[a].state = "PASS", Undelivered(a)'
          PROVE  Exists(a) /\ apps[a].state = "PASS" /\ Undelivered(a)
      BY <1>4, <3>1 DEF Aside, StillPassed, Undelivered
    <3> QED
      BY <1>2, <2>1, <3>1 DEF Covered
  <2>3. ASSUME NEW x \in Slots
        PROVE  CoveredBefore(x, a, mark, kind)'
    <3> SUFFICES ASSUME Exists(a)', Owes(x, a, "disposition")', request'[x].to = "PASS",
                        request'[x].version = apps'[a].version, Has(a, mark)'
                 PROVE  refused'[a][kind] > 0 \/ \E g \in Slots \ {x} : Owes(g, a, kind)'
      BY DEF CoveredBefore
    <3>1. Owes(x, a, "disposition") /\ request[x].app = a /\ request[x].to = "PASS"
      BY <2>1 DEF Owes
    <3>2. Exists(a) /\ request[x].version = apps[a].version
      BY <1>1, <2>1, <3>1, CurrentBefore
    <3> QED
      BY <1>2, <2>1, <3>1, <3>2 DEF CoveredBefore
  <2> QED
    BY <2>2, <2>3
<1>5. CASE Forgotten
  <2>1. ~Has(a, mark)'
    BY <1>5 DEF Forgotten, Has
  <2> QED
    BY <2>1 DEF Covered, CoveredBefore
<1> QED
  BY <1>3, <1>4, <1>5, ServiceSteps

\* The inductive invariant of the hits.
LEMMA CoverInvariant == ServiceSpec => []CoverInv
<1>1. ServiceInit => CoverInv
  <2>1. ASSUME ServiceInit
        PROVE  \A a \in AppIds : \A mark : ~Has(a, mark)
    BY <2>1 DEF ServiceInit, HandlerInit, Has
  <2> QED
    BY <2>1 DEF CoverInv, Covered, CoveredBefore
<1>2. /\ ServiceInv /\ ServiceInv' /\ (SoundInv /\ StoresOK) /\ CoverInv /\ [ServiceNext]_vars
      => CoverInv'
  BY CoverStep
<1> QED
  BY <1>1, <1>2, ServiceInvariant, SoundInvariant, PTL DEF ServiceSpec

\* An application passes over blocked hits only past the analyst who blocked
\* them and was refused, or by a webhook: the marks are made before the guarded
\* update, and whoever passes the application has cleared them after.
THEOREM BlockedPassRefused == ServiceSpec => []BlockedPassesOnlyPastARefusal
<1>1. CoverInv => BlockedPassesOnlyPastARefusal
  <2> SUFFICES ASSUME CoverInv, NEW a \in AppIds, Quiet, Exists(a), apps[a].state = "PASS",
                      Has(a, "BLOCK")
               PROVE  refused[a]["disposition"] > 0 \/ trail[a][Len(trail[a])].by \in Keys
    BY DEF BlockedPassesOnlyPastARefusal, Has
  <2>1. Covered(a, "BLOCK", "disposition")
    BY DEF CoverInv, Debt
  <2>2. \A g \in Slots : ~Owes(g, a, "disposition")
    BY DEF Quiet, At, Owes
  <2> QED
    BY <2>1, <2>2 DEF Covered, Undelivered
<1> QED
  BY <1>1, CoverInvariant, PTL

\* It passes over hits nobody has looked at only if the screening that stored
\* them was refused its referral or has still to make it, or by a webhook.
THEOREM UnreviewedPassAccounted == ServiceSpec => []UnreviewedPassExplained
<1>1. CoverInv => UnreviewedPassExplained
  <2> SUFFICES ASSUME CoverInv, NEW a \in AppIds, Exists(a), apps[a].state = "PASS",
                      Has(a, "none")
               PROVE  \/ refused[a]["screening"] > 0
                      \/ \E h \in Slots : request[h].kind = "screening" /\ request[h].app = a
                      \/ trail[a][Len(trail[a])].by \in Keys
    BY DEF UnreviewedPassExplained, Has
  <2>1. Covered(a, "none", "screening")
    BY DEF CoverInv, Debt
  <2> QED
    BY <2>1 DEF Covered, Undelivered, Owes
<1> QED
  BY <1>1, CoverInvariant, PTL
=============================================================================
