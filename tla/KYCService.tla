----------------------------- MODULE KYCService -----------------------------
(***************************************************************************)
(* The HTTP handlers of internal/server.go with the screening service      *)
(* (internal/screening.go) and the re-KYC scheduler, composed with the     *)
(* webhook service over the shared application store.                      *)
(*                                                                         *)
(* A slot is the goroutine of one HTTP request.  Each critical section of  *)
(* a handler (a locked method of the repository, of DocumentStore,         *)
(* LivenessStore or ScreeningStore) and each vendor call is a step of its  *)
(* own; between them any other slot, webhook worker or scheduler pass may  *)
(* run.  What a handler keeps from Repo.Get is the version and the state   *)
(* of the copy.  A request refused before it changes anything is not a     *)
(* step.  Audit events that announce a state change are counted; the       *)
(* others (vendor calls, uploads, accepted creations) are left out.        *)
(***************************************************************************)
EXTENDS WebhookService

CONSTANTS
  Slots,               \* concurrent HTTP requests
  MaxHits,             \* most hits one screening returns
  ScreeningThreshold,  \* hits from which a screening asks for manual review
  SchedulerStarted,    \* whether anything calls ReKYCService.Start (Run does not)
  Budget               \* bound: how many requests of each kind arrive

VARIABLES
  request,    \* the requests in progress
  docs,       \* DocumentStore: the types of the documents of an application
  sessions,   \* LivenessStore: the number of sessions of an application
  hits,       \* ScreeningStore: the dispositions of an application's hits
  announced,  \* AuditLog: announcements of a state change, by action
  tick,       \* ReKYCService.Tick: what a pass has left to do
  refused,    \* history: moves a request wanted for an application and lost
  budget      \* requests of each kind that may still arrive

handlerVars == <<request, docs, sessions, hits, announced, tick, refused, budget>>

vars == <<repoVars, hookVars, handlerVars>>

Kinds == {"create", "upload", "liveness", "screening", "disposition", "rekyc"}

\* Two required types; ID_BACK and POA are stored alike and never required.
DocTypes == {"ID_FRONT", "SELFIE", "POA"}

Dispositions == {"CLEAR", "BLOCK"}

Announcements == {"liveness_passed", "screening_disposition", "re_kyc"}

ASSUME BudgetAssumption == Budget \in [Kinds -> Nat] /\ MaxHits \in Nat

ASSUME SlotsAssumption == IsFiniteSet(Slots)

\* The handlers record transitions for themselves, under no event's key.
HandlerActors == {"system", "analyst", "internal", "scheduler"}

ASSUME HandlersAssumption ==
  HandlerActors \subseteq Actors /\ HandlerActors \intersect Keys = {}

(* A request in progress: its kind, the step it is at, the application it  *)
(* is about, the version and state of its snapshot, the argument (document *)
(* type or disposition), the hits left to store and the state to move to.  *)
NoRequest ==
  [kind |-> "none", pc |-> "idle", app |-> NoApp, version |-> 0, state |-> "",
   arg |-> "", left |-> 0, to |-> ""]

NoPass == [due |-> {}, announce |-> NoApp]

HandlerInit ==
  /\ request = [h \in Slots |-> NoRequest]
  /\ docs = [a \in AppIds |-> {}]
  /\ sessions = [a \in AppIds |-> 0]
  /\ hits = [a \in AppIds |-> <<>>]
  /\ announced = [a \in AppIds |-> [n \in Announcements |-> 0]]
  /\ tick = NoPass
  /\ refused = [a \in AppIds |-> [k \in Kinds |-> 0]]
  /\ budget = Budget

-----------------------------------------------------------------------------
(* Steps of a request.                                                     *)

At(h, pc) == request[h].pc = pc

GoTo(h, pc) == request' = [request EXCEPT ![h].pc = pc]

Answer(h) == request' = [request EXCEPT ![h] = NoRequest]

NoteRefused(h) == refused' = [refused EXCEPT ![request[h].app][request[h].kind] = @ + 1]

\* The slot takes a request of this kind, at its first step, with a snapshot.
Begin(h, kind, pc, a, arg) ==
  /\ At(h, "idle")
  /\ budget[kind] > 0
  /\ budget' = [budget EXCEPT ![kind] = @ - 1]
  /\ request' =
       [request EXCEPT ![h] =
          [NoRequest EXCEPT !.kind = kind, !.pc = pc, !.app = a, !.arg = arg,
                            !.version = apps'[a].version, !.state = apps'[a].state]]

\* Most requests begin with Repo.Get and change nothing there.
BeginWithGet(h, kind, pc, a, arg) ==
  /\ Exists(a)
  /\ UNCHANGED repoVars
  /\ Begin(h, kind, pc, a, arg)
  /\ UNCHANGED <<docs, sessions, hits, announced, tick, refused>>

\* createApplicationHandler: Repo.Create with a new id.
CreateApplication(h, u, a) ==
  /\ Create(u, a)
  /\ Begin(h, "create", "register", a, "")
  /\ UNCHANGED <<docs, sessions, hits, announced, tick, refused>>

\* Vendor.CreateApplicant; its answer is stored, an error is ignored.
RegisterApplicant(h) ==
  /\ At(h, "register")
  /\ \/ SetVendorApplicantID(request[h].app)
     \/ UNCHANGED repoVars
  /\ Answer(h)
  /\ UNCHANGED <<docs, sessions, hits, announced, tick, refused, budget>>

\* uploadDocumentHandler.
UploadDocument(h, a, type) == BeginWithGet(h, "upload", "store", a, type)

StoreDocument(h) ==
  /\ At(h, "store")
  /\ docs' = [docs EXCEPT ![request[h].app] = @ \union {request[h].arg}]
  /\ IF request[h].state = "STARTED" THEN GoTo(h, "check") ELSE Answer(h)
  /\ UNCHANGED <<repoVars, sessions, hits, announced, tick, refused, budget>>

\* Mutant: the proof of address is required too.
HasAllDocTypes(a) == {"ID_FRONT", "SELFIE", "POA"} \subseteq docs[a]

\* Mutant: any required type is enough.
HasSomeRequiredDoc(a) == {"ID_FRONT", "SELFIE"} \intersect docs[a] # {}

HasRequiredDocs(a) == {"ID_FRONT", "SELFIE"} \subseteq docs[a]

AdvanceTo(h, to) == request' = [request EXCEPT ![h].pc = "advance", ![h].to = to]

CheckDocuments(h) ==
  /\ At(h, "check")
  /\ IF HasRequiredDocs(request[h].app) THEN AdvanceTo(h, "DOCUMENTS_UPLOADED")
                                        ELSE Answer(h)
  /\ UNCHANGED <<repoVars, docs, sessions, hits, announced, tick, refused, budget>>

\* startLivenessHandler.
StartLiveness(h, a) ==
  /\ Exists(a) /\ apps[a].state \in {"DOCUMENTS_UPLOADED", "STARTED"}
  /\ BeginWithGet(h, "liveness", "challenge", a, "")

\* Vendor.StartLiveness: 502, or a session recorded as passed.
Challenge(h) ==
  /\ At(h, "challenge")
  /\ \/ Answer(h) /\ UNCHANGED sessions
     \/ /\ sessions' = [sessions EXCEPT ![request[h].app] = @ + 1]
        /\ AdvanceTo(h, "LIVENESS_PASSED")
  /\ UNCHANGED <<repoVars, docs, hits, announced, tick, refused, budget>>

\* runScreeningHandler and ScreeningService.Run.
RunScreening(h, a) == BeginWithGet(h, "screening", "screen", a, "")

\* Where a finished screening wants the application to go, if it may.
RouteTarget(flagged) == IF flagged THEN "MANUAL_REVIEW" ELSE "SCREENING"

Route(h, flagged) ==
  IF CanTransition(request[h].state, RouteTarget(flagged))
    THEN AdvanceTo(h, RouteTarget(flagged)) /\ UNCHANGED refused
    ELSE Answer(h) /\ NoteRefused(h)

\* The provider fails (500), or returns a number of hits.
Screen(h) ==
  /\ At(h, "screen")
  /\ \/ Answer(h) /\ UNCHANGED refused
     \/ Route(h, 0 >= ScreeningThreshold)
     \/ \E n \in 1 .. MaxHits :
          /\ request' = [request EXCEPT ![h].pc = "store_hits", ![h].left = n,
                           ![h].to = RouteTarget(n >= ScreeningThreshold)]
          /\ UNCHANGED refused
  /\ UNCHANGED <<repoVars, docs, sessions, hits, announced, tick, budget>>

\* Each hit is stored in a critical section of its own.
StoreHit(h) ==
  /\ At(h, "store_hits")
  /\ hits' = [hits EXCEPT ![request[h].app] = Append(@, "none")]
  /\ IF request[h].left > 1
       THEN request' = [request EXCEPT ![h].left = @ - 1] /\ UNCHANGED refused
       ELSE Route(h, request[h].to = "MANUAL_REVIEW")
  /\ UNCHANGED <<repoVars, docs, sessions, announced, tick, budget>>

\* ScreeningService.Disposition.
MayDispose(state) == state = "MANUAL_REVIEW"

DisposeScreening(h, a, disposition) ==
  /\ Exists(a) /\ MayDispose(apps[a].state)
  /\ BeginWithGet(h, "disposition", "dispose", a, disposition)

\* Mutant: the hits are left unmarked.
SetDispositionNoMark(h) ==
  /\ At(h, "dispose")
  /\ AdvanceTo(h, IF request[h].arg = "CLEAR" THEN "PASS" ELSE "FAIL")
  /\ UNCHANGED <<repoVars, docs, sessions, hits, announced, tick, refused, budget>>

\* Mutant: a BLOCK takes the application to PASS as well.
SetDispositionAlwaysPasses(h) ==
  /\ At(h, "dispose")
  /\ hits' = [hits EXCEPT ![request[h].app] = [i \in DOMAIN @ |-> request[h].arg]]
  /\ AdvanceTo(h, "PASS")
  /\ UNCHANGED <<repoVars, docs, sessions, announced, tick, refused, budget>>

\* Every hit of the application is marked, before the guarded update.
SetDisposition(h) ==
  /\ At(h, "dispose")
  /\ hits' = [hits EXCEPT ![request[h].app] = [i \in DOMAIN @ |-> request[h].arg]]
  /\ AdvanceTo(h, IF request[h].arg = "CLEAR" THEN "PASS" ELSE "FAIL")
  /\ UNCHANGED <<repoVars, docs, sessions, announced, tick, refused, budget>>

Actor(kind) == IF kind = "disposition" THEN "analyst" ELSE "system"

\* Mutant: a liveness check is not announced.
AnnouncesDispositionsOnly(kind, updated) == kind = "disposition" /\ updated

\* Mutant: a disposition that lost the race is announced too.
AnnouncesAlways(kind, updated) == kind \in {"liveness", "disposition"}

\* After the update: liveness announces itself whatever came of it, a
\* disposition only when it succeeded; uploads and screenings just answer.
Announces(kind, updated) == kind = "liveness" \/ (kind = "disposition" /\ updated)

AfterUpdate(h, updated) ==
  IF Announces(request[h].kind, updated) THEN GoTo(h, "announce") ELSE Answer(h)

\* Repo.UpdateState with the version of the snapshot.
Advance(h) ==
  /\ At(h, "advance")
  /\ LET r == request[h]
     IN  \/ /\ UpdateState(r.app, r.version, r.to, Actor(r.kind))
            /\ AfterUpdate(h, TRUE)
            /\ UNCHANGED refused
         \/ /\ ~UpdateAccepted(r.app, r.version, r.to)
            /\ UNCHANGED repoVars
            /\ AfterUpdate(h, FALSE)
            /\ NoteRefused(h)
  /\ UNCHANGED <<docs, sessions, hits, announced, tick, budget>>

\* triggerReKYCHandler.
TriggerReKYC(h, u) ==
  /\ GetByUserID(u) # NoApp
  /\ BeginWithGet(h, "rekyc", "reopen", GetByUserID(u), "")

ReopenApplication(h) ==
  /\ At(h, "reopen")
  /\ LET r == request[h]
     IN  \/ Reopen(r.app, r.version, "internal") /\ GoTo(h, "announce")
         \/ ~ReopenAccepted(r.app, r.version) /\ UNCHANGED repoVars /\ Answer(h)
  /\ UNCHANGED <<docs, sessions, hits, announced, tick, refused, budget>>

AnnouncementOf(kind) ==
  CASE kind = "liveness" -> "liveness_passed"
    [] kind = "disposition" -> "screening_disposition"
    [] kind = "rekyc" -> "re_kyc"

Announce(h) ==
  /\ At(h, "announce")
  /\ announced' = [announced EXCEPT ![request[h].app][AnnouncementOf(request[h].kind)] = @ + 1]
  /\ Answer(h)
  /\ UNCHANGED <<repoVars, docs, sessions, hits, tick, refused, budget>>

Continue(h) ==
  \/ RegisterApplicant(h) \/ StoreDocument(h) \/ CheckDocuments(h) \/ Challenge(h)
  \/ Screen(h) \/ StoreHit(h) \/ SetDisposition(h) \/ Advance(h)
  \/ ReopenApplication(h) \/ Announce(h)

Arrive(h) ==
  \/ \E u \in Users : TriggerReKYC(h, u) \/ \E a \in AppIds : CreateApplication(h, u, a)
  \/ \E a \in AppIds :
       \/ \E type \in DocTypes : UploadDocument(h, a, type)
       \/ StartLiveness(h, a)
       \/ RunScreening(h, a)
       \/ \E disposition \in Dispositions : DisposeScreening(h, a, disposition)

-----------------------------------------------------------------------------
(* The scheduler: one goroutine, one pass at a time.  It runs if something *)
(* called Start, which the program as wired does not; its Stop, which      *)
(* nothing calls either, is left out.                                      *)

\* ListDueForReKYC; a pass over an empty list is a stuttering step.
TickList ==
  /\ SchedulerStarted
  /\ tick = NoPass
  /\ ListDueForReKYC # {}
  /\ tick' = [tick EXCEPT !.due = ListDueForReKYC]
  /\ UNCHANGED <<repoVars, request, docs, sessions, hits, announced, refused, budget>>

\* Reopen the next one; a conflict is skipped.
TickReopen ==
  /\ tick.announce = NoApp
  /\ \E d \in tick.due :
       \/ /\ Reopen(d.id, d.version, "scheduler")
          /\ tick' = [due |-> tick.due \ {d}, announce |-> d.id]
       \/ /\ ~ReopenAccepted(d.id, d.version)
          /\ UNCHANGED repoVars
          /\ tick' = [tick EXCEPT !.due = @ \ {d}]
  /\ UNCHANGED <<request, docs, sessions, hits, announced, refused, budget>>

TickAnnounce ==
  /\ tick.announce # NoApp
  /\ announced' = [announced EXCEPT ![tick.announce]["re_kyc"] = @ + 1]
  /\ tick' = [tick EXCEPT !.announce = NoApp]
  /\ UNCHANGED <<repoVars, request, docs, sessions, hits, refused, budget>>

Tick == TickList \/ TickReopen \/ TickAnnounce

-----------------------------------------------------------------------------
(* The service.  A restart with DB_URL set keeps applications, documents   *)
(* and sessions, and loses requests, hits and the in-memory audit log.     *)

ServiceRestart ==
  /\ Restart
  /\ request' = [h \in Slots |-> NoRequest]
  /\ hits' = [a \in AppIds |-> <<>>]
  /\ announced' = [a \in AppIds |-> [n \in Announcements |-> 0]]
  /\ tick' = NoPass
  /\ UNCHANGED <<docs, sessions, refused, budget>>

ServiceInit == Init /\ HookInit /\ HandlerInit

ServiceNext ==
  \/ \E h \in Slots : (Arrive(h) \/ Continue(h)) /\ UNCHANGED hookVars
  \/ Tick /\ UNCHANGED hookVars
  \/ (\E a \in AppIds : Elapse(a)) /\ UNCHANGED <<hookVars, handlerVars>>
  \/ (\E w \in Workers : Ingest(w)) /\ UNCHANGED handlerVars
  \/ ServiceRestart

ServiceSpec == ServiceInit /\ [][ServiceNext]_vars

\* A goroutine that can run is scheduled; a scheduler that was started ticks.
FairServiceSpec ==
  /\ ServiceSpec
  /\ \A h \in Slots : WF_vars(Continue(h) /\ UNCHANGED hookVars)
  /\ WF_vars(Tick /\ UNCHANGED hookVars)

-----------------------------------------------------------------------------
(* Properties.                                                             *)

\* The type of the requests, of the three stores, the audit counts and a pass.
ServiceTypeOK ==
  /\ request \in [Slots ->
       [kind : Kinds \union {"none"},
        pc : {"idle", "register", "store", "check", "challenge", "screen", "store_hits",
              "dispose", "advance", "reopen", "announce"},
        app : AppIds \union {NoApp}, version : Nat, state : States \union {""},
        arg : DocTypes \union Dispositions \union {""}, left : 0 .. MaxHits,
        to : States \union {""}]]
  /\ docs \in [AppIds -> SUBSET DocTypes]
  /\ sessions \in [AppIds -> Nat]
  /\ hits \in [AppIds -> Seq(Dispositions \union {"none"})]
  /\ announced \in [AppIds -> [Announcements -> Nat]]
  /\ tick.due \subseteq [id : AppIds, version : Nat] /\ tick.announce \in AppIds \union {NoApp}
  /\ refused \in [AppIds -> [Kinds -> Nat]]
  /\ budget \in [Kinds -> Nat]

\* Every handler, webhook worker and scheduler pass works on a copy taken
\* earlier.  Whoever still holds the current version holds the current state,
\* so a guarded write acts on what its caller saw; nobody is ahead of the store.
SnapshotsCurrentOrRefused ==
  /\ \A h \in Slots :
       LET r == request[h] IN
       Exists(r.app) =>
         /\ r.version <= apps[r.app].version
         /\ r.version = apps[r.app].version => r.state = apps[r.app].state
  /\ \A w \in Workers :
       LET a == worker[w].event.app IN
       worker[w].pc = "update" /\ Exists(a) =>
         /\ worker[w].version <= apps[a].version
         /\ worker[w].version = apps[a].version => worker[w].from = apps[a].state
  /\ \A d \in tick.due :
       Exists(d.id) =>
         /\ d.version <= apps[d.id].version
         /\ d.version = apps[d.id].version => IsTerminal(apps[d.id].state)

\* An application leaves STARTED only with an ID front and a selfie on file,
\* whichever uploads, re-openings and restarts overlap.
ProgressNeedsDocuments ==
  \A a \in AppIds :
    (Exists(a) /\ apps[a].state # "STARTED") => {"ID_FRONT", "SELFIE"} \subseteq docs[a]

Entries(a, Matches(_)) == Cardinality({i \in 1 .. Len(trail[a]) : Matches(trail[a][i])})

PendingAnnouncements(a, kind) ==
  Cardinality({h \in Slots : At(h, "announce") /\ request[h].app = a /\ request[h].kind = kind})

\* Triggers and scheduler passes contend for the same decided application, and
\* analysts for the same review.  Each re-opening and each analyst decision
\* is announced in the audit log exactly once: by the one that won, and by
\* nobody who lost.
WinnersAnnounceOnce ==
  \A a \in AppIds :
    /\ Entries(a, LAMBDA t : t.to = "STARTED") =
         announced[a]["re_kyc"] + PendingAnnouncements(a, "rekyc")
           + (IF tick.announce = a THEN 1 ELSE 0)
    /\ Entries(a, LAMBDA t : t.by = "analyst") =
         announced[a]["screening_disposition"] + PendingAnnouncements(a, "disposition")

Quiet == \A h \in Slots : At(h, "idle")

\* The upload that completes the set re-evaluates it on the state it read at
\* its start and swallows a conflict.  So a first application sits in STARTED
\* with its documents complete only if an upload lost its update to another
\* write (of the vendor's id): no overlap of uploads alone leaves it there.
StuckOnlyByConflict ==
  \A a \in AppIds :
    (/\ Quiet /\ restarts = 0
     /\ Exists(a) /\ apps[a].state = "STARTED" /\ trail[a] = <<>>
     /\ {"ID_FRONT", "SELFIE"} \subseteq docs[a])
      => refused[a]["upload"] > 0

\* Disposition marks the hits before its guarded update.  An application passes
\* with blocked hits only past an analyst who was refused, or if a webhook
\* decided: two analysts, or two rounds, that do not conflict never mix.
BlockedPassesOnlyPastARefusal ==
  \A a \in AppIds :
    (/\ Quiet /\ Exists(a) /\ apps[a].state = "PASS"
     /\ \E i \in DOMAIN hits[a] : hits[a][i] = "BLOCK") =>
      \/ refused[a]["disposition"] > 0
      \/ trail[a][Len(trail[a])].by \in Keys

\* Hits are stored one by one, then the application is referred on the state
\* read at the start.  It passes with hits nobody has looked at only if that
\* referral was refused or is still to come, or if a webhook decided: an
\* analyst never passes over them.
UnreviewedPassExplained ==
  \A a \in AppIds :
    (Exists(a) /\ apps[a].state = "PASS" /\ \E i \in DOMAIN hits[a] : hits[a][i] = "none") =>
      \/ refused[a]["screening"] > 0
      \/ \E h \in Slots : request[h].kind = "screening" /\ request[h].app = a
      \/ trail[a][Len(trail[a])].by \in Keys

\* startLivenessHandler audits liveness_passed whatever came of its update.
\* The audit log misses no liveness check that moved the application, and
\* what it holds beyond those are checks whose move was refused.
LivenessAuditAccounted ==
  \A a \in AppIds :
    LET moved == Entries(a, LAMBDA t : t.to = "LIVENESS_PASSED" /\ t.by = "system")
        audited == announced[a]["liveness_passed"] + PendingAnnouncements(a, "liveness")
    IN  moved <= audited /\ audited <= moved + refused[a]["liveness"]

-----------------------------------------------------------------------------
(* What documentation and comments say and the code does not do.           *)

\* README.md: re-KYC "also runs automatically via ReKYCService.Start on the
\* configured cadence", so what comes due is re-opened, whatever version
\* conflicts a pass meets, unless it is replaced first.  Nothing calls Start:
\* with SchedulerStarted = FALSE what is due stays so until it is triggered.
DueIsReopened ==
  \A a \in AppIds :
    (Exists(a) /\ IsTerminal(apps[a].state) /\ apps[a].reKYCDue = "past")
      ~> (~Exists(a) \/ apps[a].state = "STARTED")

\* screening.go: Disposition "records an analyst disposition on the
\* application's screening and transitions the application".
DispositionMatchesDecision ==
  \A a \in AppIds :
    (Quiet /\ Exists(a) /\ apps[a].state = "PASS") =>
      \A i \in DOMAIN hits[a] : hits[a][i] # "BLOCK"

\* PROJECT_PLAN.md: re-KYC records new hits "without clobbering prior
\* dispositions".
DispositionsPreserved ==
  [][\A a \in AppIds : \A i \in DOMAIN hits[a] :
       hits[a][i] # "none" /\ i \in DOMAIN hits'[a] => hits'[a][i] = hits[a][i]]_vars

\* PROJECT_PLAN.md: "mark application manual_review when hits exceed
\* threshold"; so nobody passes over hits no analyst has looked at.
HitsReviewedBeforePass ==
  \A a \in AppIds :
    (Exists(a) /\ apps[a].state = "PASS") => \A i \in DOMAIN hits[a] : hits[a][i] # "none"

\* PROJECT_PLAN.md: the application moves "started -> documents_uploaded once
\* required doc set is satisfied".
CompleteDocumentsAdvance ==
  \A a \in AppIds :
    (Quiet /\ Exists(a) /\ HasRequiredDocs(a)) => apps[a].state # "STARTED"

\* server.go: "On pass, transition documents_uploaded -> liveness_passed", from
\* started too; the audit log says liveness_passed for each.
LivenessPassedIsTransition ==
  \A a \in AppIds :
    announced[a]["liveness_passed"] <= Entries(a, LAMBDA t : t.to = "LIVENESS_PASSED")

\* README.md: "manual_review transitions to pass or fail after analyst action".
ReviewEndsByAnalyst ==
  \A a \in AppIds : \A i \in 1 .. Len(trail[a]) :
    trail[a][i].from = "MANUAL_REVIEW" => trail[a][i].by = "analyst"
=============================================================================
