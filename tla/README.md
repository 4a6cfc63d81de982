# Verification of onboarding-kyc

TLA+ models of the KYC onboarding service, checked with TLC, and theorems
about them, proved with TLAPS. Paths below are relative to `src/`.

## 1. The system

The service takes a user from `STARTED` through documents, liveness, screening
and a vendor's or an analyst's decision to `PASS` or `FAIL`, and re-opens
decided applications a year later (re-KYC). It is one Go process: every HTTP
request is a goroutine, stores are maps under a mutex (or PostgreSQL when
`DB_URL` is set), and a few background goroutines run beside the handlers.

| Component | Code | State | Operations |
|---|---|---|---|
| State machine | `internal/statemachine.go` | none | `CanTransition`, `IsTerminal`, `ReKYC` |
| Application repository | `internal/repo.go` | `apps`, `byUser`; version per application | `Create`, `Get`, `GetByUserID`, `UpdateState`, `Reopen`, `SetVendorApplicantID`, `ListDueForReKYC` |
| Repository on PostgreSQL | `internal/db_stores.go`, `0001_init.up.sql` | `kyc_applications` and its partial unique index | the same, in several statements |
| Webhook ingestion | `internal/webhooks.go` | `seen` (memory only) | `Ingest` |
| HTTP handlers | `internal/server.go` | none of their own | create, upload, liveness, screening, disposition, re-KYC trigger |
| Document and liveness stores | `internal/repo.go`, `server.go` | documents, sessions | `Add`, `HasRequiredDocs`, `SweepExpired` |
| Screening | `internal/screening.go` | hits and dispositions | `Run`, `Disposition` |
| Re-KYC scheduler | `internal/server.go` | a running pass | `Tick`, `Start`, `Stop` |
| Policy event sink | `internal/policy_sink.go` | bounded queue, drainer, stop channel | `RecordTransition`, `drain`, `Stop` |
| Audit log | `internal/audit.go` | records | `Record` |
| Retention sweeper | `internal/retention.go` | `running`, `stop` | `Sweep`, `Start`, `Stop` |
| List sync | `internal/list_sync.go` | as the sweeper; files, `lastSnap` | `SyncOnce`, `Start`, `Stop` |
| Vendor calls | `internal/retry.go`, `vendor_http.go`, `vendor_onfido.go` | attempts of a call | `doWithRetry`, `doRequest`, `doJSON` |
| Migrations | `db/db.go`, `cmd/migrate` | the schema, `schema_migrations` | `MigrateUp`, `MigrateDown` |
| Encryption, metrics, tracing, JSON, middleware | `db/crypto.go`, `internal/metrics.go`, ... | none that matters | |

**How they interact.** Handlers, the webhook ingester and the scheduler all
read a *copy* of an application (`Get`), do something slow (a vendor call, a
store, a screening), then write with the copy's version (`UpdateState`,
`Reopen`). The repository compares the version and the transition table under
its mutex and, still holding it, calls the sink; on PostgreSQL it compares them
under a row lock and calls the sink after the commit, with no lock at all. The
sink posts to the policy engine, falls back to its queue, and then records in
the audit log. At its start every instance runs the migrations.

**What is hard.** Copies that have gone stale when they are used; several
writes per request, or several statements per write, of which some fail or
never come; errors that are swallowed; redelivered webhooks, lost replies and
restarts, with half of the state in memory; a queue that is full while its
drainer backs off; goroutines that are stopped in the middle of their work and
started again; instances that migrate one database at the same time.

**What makes each part correct.**

- Repository: one application per user in both maps; versions that name
  contents; a trail that replays to the stored state; decisions always
  scheduled for re-KYC; the lifecycle of `KYCLifecycle` per user.
- Repository on PostgreSQL: the same under any interleaving of statements: one
  active application per user, nobody left without one, each committed
  transition announced once, the lifecycle unless a creation was raced.
- Webhooks: an event advances the state machine once per life of the process,
  from the state that was compared; every event is acknowledged in the end.
- Handlers, screening and scheduler: nobody's guarded write acts on a state it
  did not see; no progress without documents; the winner of a race, and nobody
  else, announces it; what goes wrong between two requests goes wrong by a
  refused write and nothing else.
- Sink: an event is lost without a log line only by `Stop`, and then no more than
  a queue and the one in hand; nothing blocks, repeats are bounded.
- Sweeper: each deletion of a document is recorded once; what expires goes.
- List sync: what is published is on disk; the job goes on until `Stop`, and
  `Stop` ends it.
- Vendor calls: passing failures end a call only at the cap, no response is
  leaked, and a call ends.
- Migrations: what is recorded is in effect and an instance serves on a full
  schema, unless a rollback works against it in one of the two ways section 2
  names; instances that collide or crash come up in the end.

## 2. The modules

```
StateMachine                         table, webhook outcomes (pure)
  ApplicationRepository              the store in memory; INSTANCEs KYCLifecycle
    ApplicationRepository_proofs
    WebhookService                   + deliveries, dedup store, restarts
      WebhookService_proofs          (and ApplicationRepository_proofs)
      KYCService                     + handlers, screening, scheduler
        KYCService_proofs            (and WebhookService_proofs)
  DBApplicationRepository            the store on PostgreSQL; INSTANCEs KYCLifecycle
    DBApplicationRepository_proofs
PolicyEventSink                      the sink behind the repository
  PolicyEventSink_proofs
RetentionSweeper                     the sweeper over two stores
  RetentionSweeper_proofs
ListSyncJob                          the sync loops over a directory
VendorCall                           one outbound call
  OutboundCalls_proofs               of both
Migrations                           instances and operators over one schema
  Migrations_proofs
```

Each `MC` module extends one of these and defines what its configurations give
the constants. `KYCService` is a composition: it has the variables of the
webhook service and of the repository, and its requests, deliveries and
scheduler passes interleave over the one store. The other modules stand alone.
The sink is called under the repository's mutex and changes nothing there, so
the repository sees it as the variable `trail`; that a call returns is
`EveryTransitionAudited`. Vendor calls appear in the handlers as a step with
the outcomes `VendorCall` ends in.

**ApplicationRepository.** Every method holds `r.mu` throughout, so each is one
action. A call that returns an error and changes nothing is no step; the one
failing call that changes something, `Create` with an id that is empty or in use,
is `CreateRefusedLate`. `Spec` lets any caller make any call at any time, for any
user, id, version, target and actor, but for two arguments of `Create`, which are
what its one caller passes: the application starts in `STARTED` with the version
left for `Create` to set, and `newUUID` gives no id twice. The modules above it
call the same actions as the handlers do. `reKYCDue` abstracts the due date to
unset, future or past; `Elapse` is the clock.

**DBApplicationRepository.** Nothing but the database serializes the callers,
so each SQL statement is an action: `Create` is a SELECT, a DELETE and an
INSERT, `UpdateState` and `Reopen` are one transaction under
`SELECT ... FOR UPDATE` and, in a second step, the call of the sink. The
partial unique index on active applications makes an INSERT or a re-opening
fail (`Activates`). A caller may crash between two of its steps. `commits`,
`lost`, `owed` and `raced` are history variables: they guard nothing.

**KYCLifecycle.** The abstract promise per user: none, pending, review, pass,
fail, and the moves among them. The repository in memory implements it
(`ImplementsLifecycle`); that on PostgreSQL does so for each user whose rows no
other call wrote while a `Create` of that user was in progress.

**WebhookService.** A worker is one delivery: verification and `Seen` (parsing
after it touches no shared state), `Get`, `UpdateState`, reply. Any delivery,
a first one or a redelivery, may be refused by `VerifyWebhook`, a stale timestamp
say (`IngestRefused`): it is spent, and nothing else changes. The vendor
redelivers until it sees a 2xx; a hang-up makes parsing fail (`IngestUnparsable`),
a lost reply is a branch of `IngestReply`. The last deliveries the bound leaves an
event (`Needed`) are not refused and not lost: that stands for a vendor that goes
on until one gets through. `Restart` is a restart with `DB_URL` set: applications
survive, `seen` and the workers do not.

**KYCService.** A slot is one HTTP request; each critical section and each
vendor call is a step, and a slot keeps the version and state of its copy.
Refused requests are no steps. Hits are the number the provider returned;
audit records that announce a state change are counted, others left out.
`refused` is a history variable: the moves a request wanted and did not get.
`SchedulerStarted` says whether anything calls `ReKYCService.Start`; `Run` does
not. It is TRUE in `service` and `service_hooks`, which check safety only, so that
whoever starts the scheduler finds its passes among the interleavings; with FALSE
there are fewer of them. No property of a run assumes that it ticks.

**PolicyEventSink.** `publish` (synchronous POST, then the queue, then a drop),
the audit record, `drain` with its attempts and backoff, and `Stop`. A POST may
fail after the engine took it. Where two cases of a `select` are ready, either
may be taken. A drainer that returns, from its `select` or from a backoff, leaves
everything behind (`Gone`): the event in hand goes to `abandoned`, a history
variable, and what is queued, or still put there by a publisher, is nobody's. An
event is `Held` only by a publisher at work or a drainer that runs; one that is
neither received, nor dropped with a log line, nor held is `Lost`. Nothing calls
`Stop` in the program as wired. A sink without an endpoint is not modelled.
`PublishDecision`, which nothing calls, is `publish` again.

**RetentionSweeper.** A sweep is three critical sections: documents, sessions,
audit record. There is one loop per `Start` and one stop channel for all.

**ListSyncJob.** The same `Start` and `Stop`; a sync is the fetch and the stamp,
the truncation of the file of the current second, the write, the publication.
A file holds nothing, a part, one snapshot or a mixture of two.

**VendorCall.** One call, its attempts and their answers, and the context that
may be cancelled at any time. Delays are a wait that ends.

**Migrations.** A migration file holds its own `BEGIN` and `COMMIT`, so it ends
the transaction `MigrateUp` began: the effect and the row that records it are
two commits, and two steps here (`Exec`, `RecordVersion`). No lock keeps two
runs apart. Every run first makes sure of `schema_migrations` (`Ensure`), and of
two that do so at once one may fail (`EnsureFails`). The properties except two
situations, each a history variable, in which the code does go wrong:

- `torn`: the record is wrong for good. A rollback was cut off between its file
  and its row; or its file dropped what another run had recorded since the
  rollback looked, or had executed and was about to record (`Undermines`).
- `undercut`, per instance: a rollback was at work beneath this very run. Its
  file took effect while the run was in progress, or before it began, with the
  row not deleted yet. The run may have passed that version as recorded, and the
  instance then serves on an incomplete schema (`AppliesAllPending`, section 6).

A rollback that overlaps other runs, or this one without touching its schema, is
no exception.

## 3. Runs

| Run | Instance | Checks |
|---|---|---|
| `repository` | 2 users, 3 ids, versions to 6 | `TypeOK`, `OwnerIndexed`, `TrailReplays`, `DecidedIsScheduled`, `VersionNamesContent`, `ImplementsLifecycle` |
| `webhook` | 3 events, 2 workers, 3 deliveries each, 1 restart, versions to 5 | `AdvancesOncePerProcess`, `SkippedOnlyOnRetry`, `AdvancesWhatItRead`, `EveryEventAcknowledged` |
| `service` | 2 requests at a time, 2 applications, a started scheduler, no vendor events | `SnapshotsCurrentOrRefused`, `WinnersAnnounceOnce`, `ProgressNeedsDocuments`, `StuckOnlyByConflict`, `BlockedPassesOnlyPastARefusal`, `LivenessAuditAccounted` |
| `service_hooks` | 1 request and 1 delivery at a time, 2 events, a started scheduler, 1 restart | `UnreviewedPassExplained` |
| `policy_sink` | 2 publishers, 3 events, queue of 1, 2 attempts | `OnlyStopLosesEvents`, `RepeatsBounded`, `EveryTransitionAudited`, `QueuedIsSettled`, `StopReturns` |
| `retention` | 2 documents, 2 sessions, 2 lives of the sweeper | `DeletedDocumentsCounted`, `ExpiredIsDeleted` |
| `vendor_call` | both clients, cap of 5 | `GivesUpAtTheCap`, `NoBodyLeaked`, `CallEnds` |
| `db_repository` | 1 user, 3 ids, 2 callers, versions to 3, 1 crash | `OneActivePerUser`, `DecidedRowIsScheduled`, `NoUserForgotten`, `AnnouncementsAccounted`, `CommitsReplay`, `RowVersionNamesContent`, `ImplementsLifecycleUnlessRaced` |
| `migrations` | 2 instances, 1 operator, 3 migrations, 2 crashes, 2 rollbacks | `RecordedIsInEffect`, `SucceedsOnFullSchema`, `EveryInstanceComesUp` |
| `list_sync` | 2 lives of the job, 2 seconds, 3 snapshots | `PublishedIsOnDisk`, `SyncsUntilStopped`, `StopEndsTheLoop` |
| `webhook_replay` | 1 event, 1 restart | refutes `ReplayNeverAdvancesTwice` |
| `service_documents` | 2 uploads around one creation | refutes `CompleteDocumentsAdvance` |

What each property says, and of which code, stands above its definition.

**Why the bounds are enough.** Two users and three ids let one user replace an
application while another holds one, and leave an id that is taken; six
versions are a walk to a decision and back. Three deliveries are the first that
fails or is refused, the one a restart interrupts and the one that is answered.
The three events are a clearance with an id, and a refusal and a malformed event
without one, which share the key `no-id`. Two requests
at a time are all a race on one version needs, since a guarded write races with
whatever came between its read and itself; the same goes for two callers of the
database, where three ids are a decided row, its re-opened rival and the new
one. `Budget` bounds how many requests of each kind arrive (in `service` 2
creations, 3 uploads, 1 liveness check, 1 screening, 2 dispositions and 2
triggers), enough for review, decision, re-KYC and replacement to happen and to
overlap. In `db_repository` versions end at 3, so creations may also start one
step before a decision (`FirstStates`): that is what makes decided rows, and
their re-opening against a creation, reachable within the bound; the
theorems hold for every version. A queue of one overflows with three events.
Two loops overlap when the first is stopped during its last sweep or sync; two
syncs fall into one second or into two. Three migrations have a first, a middle
and a last one to be cut off at. `MaxDeliveries`, `MaxRestarts`, `MaxCrashes`
and `MaxDowns` bound the environment, never the service. `MaxVersion` bounds
the repositories' own specifications; in the service `Budget` stops requests
first. `db_repository` and `service_documents` use symmetry of ids, callers and
slots, and check safety only.

**Deadlock** is checked in `migrations`, whose processes must be able to go on
until every instance serves. The other systems may stop: requests, deliveries,
events, versions or a call are used up.

## 4. Fairness

- A goroutine that can run is scheduled: `IngestGet`, `IngestUpdate` and
  `IngestReply` of a delivery, the steps of a publisher. Arrivals are not fair,
  nor are uploads, expiries or `Stop`.
- The vendor keeps redelivering an event until it is acknowledged: that is the
  vendor's contract README.md:43 relies on ("safe to retry"). Fairness asks for
  deliveries and leaves open how each ends, a refusal by `VerifyWebhook` included.
- Every POST and every vendor call ends, since both clients have timeouts, and
  so does every backoff (`WF` on `Drain` and on `doWithRetry`). Weak fairness
  on `Drain` never forces a POST to succeed: `QueuedIsSettled` counts an event
  given up as settled.
- A ticker keeps ticking (`WF` on each loop of the sweeper, and on
  `SyncOnce(l) \/ Tick(l)` of each loop of the list sync, whose clock `NextSecond`
  is not fair). A sync loop whose `select` finds both its
  ticker and the stop channel ready picks either, at random: the exit of a
  stopped loop has strong fairness, `SF` on `Exit(l)`, since Go's choice does
  not pass over a ready case for ever. `StopEndsTheLoop` rests on it.
- The service's runs state no fairness. `FairServiceSpec` (requests go on, a
  started scheduler ticks) serves to refute `DueIsReopened` (section 6).
- A migration run goes on (`WF` on its steps, unless it crashes) and an instance
  that is not up is started again by its supervisor (`WF` on its start).
  Rollbacks are never started by fairness, but one that runs goes on.

## 5. Proofs

Theorems hold for any users, ids, actors, events, workers, slots, callers,
loops, publishers and instances, and any bound, under the assumptions named in
the modules. These say that markers like `NoApp`, `NoRow`, `NoEvent` and
`NoTransition` are none of the values they stand beside, that bounds and caps
are naturals (positive where the module says so), that events are events
(`EventsAssumption`), that the actors include the keys of events and the
handlers' own names and that these differ (`ActorsAssumption`,
`HandlersAssumption`), and that finitely many requests run at a time
(`SlotsAssumption`). TLC evaluates each of them on the instances it runs.

**`ApplicationRepository_proofs`.** The inductive invariant is
`IInv == TypeOK /\ OwnerIndexed /\ EntriesIssued`. `OwnerIndexed` alone is not
inductive: a failed `Create` leaves `byUser` pointing at a deleted id, which is
harmless only because ids once issued are not issued again. There is a lemma
per way of rewriting an application and one (`RewritePreserves`) for any write
that keeps the owner. From it: `TypeCorrect`, `OneApplicationPerUser`,
`DecisionsStayScheduled`, `VersionsNameContents` (the fresh id of `Create` is
the case that needs `IInv`), `SinkSeesTheStore` (with `FreshTrail`: an id not
yet issued has no trail) and `Refinement`, that `Spec` implements
`KYCLifecycle`: every write changes the status of one user, by a move of the
transition table seen at the coarser granularity (`CoarseStep`).

**`DBApplicationRepository_proofs`.** `DBInv` adds to the types and the clock
what the control points of a caller imply: the id a `Create` in progress has
generated is nobody else's (`Fresh`), the row it is about to delete is its
user's (`ExistingOwned`), a row's commits are not above its version
(`CommitsBelow`) and no two calls owe the sink the same transition
(`PendingDistinct`). `OneActive` needs of all that the index only;
`NobodyForgotten` needs that a caller between its DELETE and its INSERT is still
there or was lost; `AnnouncedOnce` and `CommitsReplayToRow` need the last two.
`DecidedScheduled` and `VersionsNameContents` are as in memory, over rows.
`UnracedImplementsLifecycle` adds `UnracedRows`: a user outside `raced` has one
row at most, and a `Create` in progress for that user still has what its SELECT
saw, the decided row it is about to delete or none. Each step then keeps,
empties, fills or moves that row (`Follows`), and each of the four is a move of
`KYCLifecycle` or none (`FollowsLifecycle`). The theorem assumes that `Create` is
not called with `MANUAL_REVIEW` (the handlers pass `STARTED`, and in the
lifecycle no case starts in review).

**`WebhookService_proofs`.** `HookInv` is `IInv`, `HookTypeOK`, and three parts:
a busy worker has an event (`WorkersInv`); the version a delivery read is not
ahead of the application and names the state it read (`ReadInv`); and, for
`AdvancesOnce`, a key in hand is a seen one and in one worker's hands only, and
has advanced applications at most once per restart while it is unseen or still
in hand, once more after that (`OnceInv`). `AdvancesRead` follows from `ReadInv`
on the step that writes. What any step may do to the store is `StoreMoves`: a
version never goes down and, while it stays, so does the state.
`FirstDeliveryCompares` follows an event with an id of its own (`FirstInv`):
before its first delivery its key is unseen and in nobody's hands, and until a
second one starts, a worker past `Get` has compared it with its application or
found none, which stays true as ids are not issued twice. It is stated for `VendorProvider # "onfido"`: Onfido's adapter gives its own id for
ours, the lookup fails, and the event is acknowledged without a comparison.

**`KYCService_proofs`.** Everything again for the whole service. `ServiceInv` is
`HookInv`, the types of requests (`RequestsOK`) and what the copies of requests
and of a scheduler pass name (`SlotsInv`, `TickInv`): copies are of applications
that were issued, so a later creation is never mistaken for them. It gives
`SnapshotsCurrent`, and `ServiceAdvancesOnce` with the handlers' real writes in
place of `OtherHandlers`. `ProgressIsDocumented` adds `DocsInv`: a request on
its way to `DOCUMENTS_UPLOADED` has found the documents complete, which they
stay, and no delivery aims there. `WinnersAnnounced` and `LivenessAudited` add
`AuditInv`, two balances between the trail and the audit log that include what
is on its way in a request or in a pass; each step of a request, a delivery and
the scheduler is shown to keep them. They hold until the first restart, which
empties the log (`restarts = 0 => ...`), as in the run.

What the repository promises holds of the service because each step of the
service is at most one call of it (`ServiceCalls`, over
`ApplicationRepository_proofs!StoreCall`): `ServiceTrailReplays`,
`ServiceStaysScheduled`, `ServiceVersionsNameContents` and
`ServiceImplementsLifecycle`, the refinement for the composition.
`ServiceFirstDeliveryCompares` repeats that of the webhook service.

`StuckByConflictOnly`, `BlockedPassRefused` and `UnreviewedPassAccounted` are
about work left undone. Between what a request has done (the last document
stored, the hits stored, the hits marked) and its guarded update it *owes* the
update (`Owes`), and each of its steps keeps the debt, pays it by writing, or
counts a refusal (`Accounted`). `StuckInv`: a first application in `STARTED` with
its documents complete has an upload that owes, or one that was refused.
`CoverInv`: so has an application in `PASS` with a blocked or unseen hit, unless a
webhook passed it; and so it is before the write of an analyst who would pass
it, by another request than his, because the hits he marks are all of them
(`CoveredBefore`). `BlockedPassesOnlyPastARefusal` names the webhook among its
exceptions since this proof: a blocked application that fails, is re-opened and
is then cleared by a webhook passes without any refusal. That takes more steps
than the run has.

**`PolicyEventSink_proofs`.** `SinkInv` adds to the types what the control points
say about the event in hand and the attempt count; without it the attempt would
not stay below the cap. `LossNeedsStop` (`OnlyStopLosesEvents`): while the drainer
runs, each step that takes an event out of one place puts it into another, has it
received or drops it with a log line, so nothing is lost; the drainer returns only
once the channel is closed, and all that can be lost from then on is what is on
the queue and what was in its hand (`Kept`), no more than `QueueCap + 1`
events, since the queue never exceeds its capacity. `RepeatsAreBounded` needs
`OneLife` as well: an event is at one place at a time, so no second sender
counts its attempts from zero.

**`RetentionSweeper_proofs`.** `RetentionInv`: until the channel is closed one
loop is at work (`LoopsInv`, hence `OneLoop`), and a deleted document is counted
already, once, or in exactly one loop's hands (`DocumentsInv`);
`DocumentsCounted` follows.

**`OutboundCalls_proofs`.** Of a vendor call, `CallInv`: attempts made, the class
of the last answer and the bodies still open, per step of a call, and that every
answer before the last one may be retried. It gives `RefusalsAreFinal`,
`GivesUpAtTheCapOnly` and `BodiesClosed`, for every cap. Of the list sync,
`ListInv`, for any number of loops: snapshots are numbered as they were stamped
(`StampInv`); no two loops hold the same one and none holds the published one
(`HandInv`), so a file that is not what its loop wrote was rewritten by a loop
whose snapshot has the same second (`DiskInv`); until `Stop` there is one loop,
and what it holds is newer than what it published (`LoneInv`). It gives
`PublishedOnDisk`, and `SnapshotsMoveForward`: until `Stop`, `LastSnapshot` does
not go back.

**`Migrations_proofs`.** `MigrationsInv`: while the record is not wrong for good
(`torn`), what an instance is about to record is in effect, and what is recorded
and not in effect is what a rollback is about to unrecord (`RecordsWhatIs`,
`RecordedIsInEffect`); an instance with no rollback beneath its run is in progress
with no rollback half done (`UncutInv`), and every version it has passed is in
effect (`PassedInEffect`). `RecordIsTrue` and `FullSchemaOnSuccess` follow, for any
number of instances, operators and migrations, rollbacks that overlap included;
their only exceptions are `torn` and `undercut` as section 2 states them.

**Model-checked only.**

- Liveness (`EveryEventAcknowledged`, `EveryTransitionAudited`,
  `QueuedIsSettled`, `StopReturns`, `ExpiredIsDeleted`, `CallEnds`,
  `EveryInstanceComesUp`, `SyncsUntilStopped`, `StopEndsTheLoop`), which this
  prover does not do.
- The composition of `DBApplicationRepository` for a user whose creations are
  raced: `raced` exempts the user, and `InProgressIsKept` (section 6) shows why.

Every safety property of a run is stated by a theorem.

Type invariants other than `TypeOK` are no property of a run, being proved;
`ServiceTypeOK` and `ListTypeOK` hold on the instances of the service's and of
the list sync's configurations.

## 6. What the code does not keep

Two claims are refuted by a run each; PROJECT.json quotes the claim.

- `webhook_replay`: `seen` is in memory, so an event redelivered after a restart
  advances the application again.
- `service_documents`: creation stores the vendor's id after an upload has taken
  its copy. The version has moved, the upload swallows the conflict, both
  documents are on file and the application stays `STARTED`.
  `StuckOnlyByConflict` says that nothing else leaves it there.

The modules state further claims under "What documentation and comments say and
the code does not do". They are not among the runs; TLC refutes each of them
when it is added to the configuration named.

| Claim | Configuration | What happens |
|---|---|---|
| `AcknowledgedIsReconciled` | `MCWebhook` | `Seen` marks before parsing: a delivery that fails makes its retry a "duplicate" nobody processed. With `VendorProvider = "onfido"`, besides, the applicant's id is looked up as ours, and no event finds its application. README.md:37 |
| `DueIsReopened` | `MCService` with `SPECIFICATION FairServiceSpec` and `SchedulerStarted = FALSE` | The README says that re-KYC "also runs automatically via `ReKYCService.Start`", but nothing calls it, `Run` (`server.go:392`) included: what is due waits for a trigger. README.md:177 |
| `DispositionMatchesDecision` | `MCService` | Hits are marked before the guarded update: the analyst who loses leaves his disposition on the decision of the other. `screening.go` |
| `HitsReviewedBeforePass` | `MCServiceHooks` | Hits are stored although the referral to review then fails, and a vendor's clearance takes the application to `PASS`. PROJECT_PLAN.md |
| `ReviewEndsByAnalyst` | `MCServiceHooks` | `CLEAR` in `MANUAL_REVIEW` becomes `PASS`. README.md:88 |
| `LivenessPassedIsTransition` | `MCService` | `liveness_passed` is audited from `STARTED`, whence the update always fails. `server.go:683` |
| `DispositionsPreserved` | `MCService` | A later disposition rewrites the earlier ones of every hit. PROJECT_PLAN.md:138 |
| `InProgressIsKept` | `MCDBRepository` | `Create`'s DELETE names the id it selected, not the state: an application re-opened in between goes with it. `db_stores.go:81` against `:92` |
| `AppliesAllPending` | `MCMigrations` | `MigrateUp` skips what is recorded and gone: after a rollback that was cut off before its DELETE, and with no crash at all when `--down` overlaps an instance that starts, which then serves on an incomplete schema. `db.go:141` |
| `SyncsWheneverRunning`, `StopNeverPanics` | `MCListSync` | After Start, Stop, Start the loop ends after one sync, and the next Stop closes a closed channel |
| `SweepsWheneverRunning`, `StopNeverPanics` | `MCRetention` | The same of the sweeper. `retention.go:60`, `:88` |
| `DeletionsAudited` | `MCRetention` | A sweep of sessions alone is not recorded. PROJECT_PLAN.md:169 |
| `StopFlushes` | `MCPolicySink` | `drain` returns with an event in hand, or from its `select`, and leaves what is queued, without a log line. `policy_sink.go:179` |
| `EveryClientRetries` | `MCVendorCall` | `doJSON` makes one attempt. README.md:46, `vendor_onfido.go:235` |
| `AttemptsCarryTheBody`, `ReturnedBodyOpen` | `MCVendorCall` | Attempts share a reader that the first one drains; the response returned at the cap was closed. `vendor_http.go:56`, `:57` |

## 7. Not modelled

- `DBDocumentRepo` and `DBLivenessRepo`: single INSERT, SELECT and COUNT
  statements without a guard; `KYCService` takes each for a step, as it does
  the methods of the stores in memory. The service is modelled over the
  repository in memory, except that `Restart` keeps applications, documents and
  sessions as the database would; the statements of `DBApplicationRepo` are in a
  module of their own, since their interleavings with six handlers' steps are
  beyond TLC.
- `ReKYCService.Stop`: nothing calls it. The scheduler's passes, the sweeper and
  the list sync are modelled, although nothing in the program as wired starts
  them, and so is `Stop` of the policy sink, which nothing calls either: their
  properties say what holds for whoever does.
- The Kafka producer: best effort, errors discarded, without influence on the
  state. That it may block (`audit.go:141`) is a hazard without a property.
- The sanctions HTTP client, the wire format of the vendors, signatures and
  scores: data the properties do not tell apart; their outcomes are branches of
  `Screen`, `Challenge`, `IngestUnparsable`.
- Encryption (AES-GCM helpers, pure), metrics, tracing, JSON, middleware,
  read-only handlers, the connection pool and `migrate --status`: no influence
  on the state modelled here.
- The answer of `createApplicationHandler` reads a shared application outside
  the mutex (`server.go:480`). Only the response depends on it.

## 8. Plan

Done, the most important behaviour first: repository and lifecycle; webhooks;
handlers with screening and scheduler; sink; sweeper; vendor call; the
repository on PostgreSQL; migrations; list sync; proofs of the safety of all of
them, and of the refinement of `KYCLifecycle` by both stores and by the service.

Next, to model:

1. The sweeper composed with `KYCService`: what deleting documents does to
   `HasRequiredDocs` and to `ProgressNeedsDocuments`.
2. `KYCService` over the statements of `DBApplicationRepository`.
3. `ReKYCService.Stop`, and a run of its own that refutes `DueIsReopened`.

Next, to prove:

1. The safety that liveness rests on: that a delivery, a call or a sync that is
   not finished has a next step, as invariants without `ENABLED`.
2. `WinnersAnnounced` and `LivenessAudited` across a restart, counting from it.
3. What the compositions above promise.
