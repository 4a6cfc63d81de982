--------------------------- MODULE WebhookService ---------------------------
(***************************************************************************)
(* Ingestion of vendor webhooks (internal/webhooks.go, webhookHandler of   *)
(* internal/server.go) on top of the application store.                    *)
(*                                                                         *)
(* A worker is the goroutine of one HTTP delivery.  Its critical sections  *)
(* are separate steps: WebhookStore.Seen (with the verification before it, *)
(* which may refuse the delivery, and the parsing after it; neither        *)
(* touches shared state), Repo.Get, Repo.UpdateState with the version of   *)
(* the snapshot, and the reply.                                            *)
(* The vendor (external) redelivers an event until it gets a 2xx; it gives *)
(* up a delivery when the connection drops, which cancels the request's    *)
(* context.  Restart is a restart of the process with DB_URL set: stored   *)
(* applications survive it, the dedup store and the workers do not.        *)
(***************************************************************************)
EXTENDS ApplicationRepository, FiniteSets

CONSTANTS
  Workers,        \* concurrent webhook deliveries
  Events,         \* the vendor's events, records of type Event
  EventIds,       \* event ids the vendor puts in the header
  NoEvent,        \* no event in hand
  VendorProvider, \* "stub" or "onfido"
  MaxDeliveries,  \* bound on the deliveries of one event
  MaxRestarts     \* bound on process restarts

VARIABLES
  seen,        \* WebhookStore.seen: the keys marked as processed
  worker,      \* the deliveries in progress
  acked,       \* external: events the vendor got a 2xx for
  deliveries,  \* external: deliveries attempted, per event
  reconciled,  \* history: events that were compared with an application
  restarts     \* process restarts so far

hookVars == <<seen, worker, acked, deliveries, reconciled, restarts>>

(* An event: the X-Webhook-Id header ("" when absent), the application it  *)
(* is about (NoApp: none that was ever ours), its outcome, and whether the *)
(* body parses.                                                            *)
Event ==
  [header : EventIds \union {""}, app : AppIds \union {NoApp},
   outcome : Outcomes, wellFormed : BOOLEAN]

ASSUME EventsAssumption == Events \subseteq Event /\ NoEvent \notin Events

ASSUME BoundsAssumption == MaxDeliveries \in Nat /\ MaxRestarts \in Nat

\* The application id ParseWebhook extracts: the stub reads ours from the body,
\* Onfido's adapter takes the applicant id, which Onfido assigned.
ApplicationID(event) == IF VendorProvider = "onfido" THEN NoApp ELSE event.app

\* Mutant: the header is read under another name.
KeyNeverRead(event) == "no-id"

\* The key of the dedup store.
Key(event) == IF event.header = "" THEN "no-id" ELSE event.header

Keys == {Key(event) : event \in Events}

\* The trail tells the transitions of an event from those of other handlers.
ASSUME ActorsAssumption ==
  Keys \union {"handler"} \subseteq Actors /\ "handler" \notin Keys

(* A delivery in progress: the step it is at, its event, and what it took  *)
(* from the snapshot of the application: version and state, and the target.*)
Idle == [pc |-> "idle", event |-> NoEvent, version |-> 0, from |-> "", to |-> ""]

HookInit ==
  /\ seen = {}
  /\ worker = [w \in Workers |-> Idle]
  /\ acked = {}
  /\ deliveries = [e \in Events |-> 0]
  /\ reconciled = {}
  /\ restarts = 0

-----------------------------------------------------------------------------
(* One delivery.                                                           *)

CanRetry(e) == deliveries[e] < MaxDeliveries

Delivered(w, e) ==
  /\ worker[w].pc = "idle"
  /\ e \notin acked
  /\ e.app = NoApp \/ e.app \in issued
  /\ CanRetry(e)
  /\ deliveries' = [deliveries EXCEPT ![e] = @ + 1]

\* Seen tests and marks the key in one critical section.
Seen(key) == key \in seen

\* Mutant: Seen tests the key and never marks it.
MarkNothing(key) == UNCHANGED seen

MarkSeen(key) == seen' = seen \union {key}

\* Bound: the deliveries a refusal leaves.  One is answered at last; a body that
\* never parses must mark the key before, and again after each restart.
Needed(e) == IF e.wellFormed THEN 1 ELSE 2 + (MaxRestarts - restarts)

\* VerifyWebhook fails, say on a timestamp out of tolerance: 401, and the key
\* is not marked.
IngestRefused(w, e) ==
  /\ Delivered(w, e)
  /\ deliveries[e] + Needed(e) < MaxDeliveries
  /\ UNCHANGED <<repoVars, seen, worker, acked, reconciled, restarts>>

\* Mutant: a duplicate is refused.
IngestDuplicateRefused(w, e) ==
  /\ Delivered(w, e)
  /\ Seen(Key(e))
  /\ UNCHANGED <<repoVars, seen, worker, acked, reconciled, restarts>>

\* 200 "duplicate".
IngestDuplicate(w, e) ==
  /\ Delivered(w, e)
  /\ Seen(Key(e))
  /\ acked' = acked \union {e}
  /\ UNCHANGED <<repoVars, seen, worker, reconciled, restarts>>

\* ParseWebhook fails, because the vendor hung up meanwhile or on the body
\* (never accepted by IngestParsed): 401, with the key marked.
IngestUnparsable(w, e) ==
  /\ Delivered(w, e)
  /\ ~Seen(Key(e))
  /\ deliveries'[e] < MaxDeliveries
  /\ MarkSeen(Key(e))
  /\ UNCHANGED <<repoVars, worker, acked, reconciled, restarts>>

IngestParsed(w, e) ==
  /\ Delivered(w, e)
  /\ ~Seen(Key(e))
  /\ e.wellFormed
  /\ MarkSeen(Key(e))
  /\ worker' = [worker EXCEPT ![w] = [Idle EXCEPT !.pc = "get", !.event = e]]
  /\ UNCHANGED <<repoVars, acked, reconciled, restarts>>

\* Repo.Get, and the decision taken on the copy it returns.
IngestGet(w) ==
  /\ worker[w].pc = "get"
  /\ LET e == worker[w].event
         a == ApplicationID(e)
         target == IF Exists(a) THEN reconcileOutcomeToState(e.outcome, apps[a].state)
                                ELSE ""
     IN  /\ worker' =
              [worker EXCEPT ![w] =
                 IF target # "" /\ CanTransition(apps[a].state, target)
                   THEN [@ EXCEPT !.pc = "update", !.to = target,
                                  !.version = apps[a].version, !.from = apps[a].state]
                   ELSE [@ EXCEPT !.pc = "reply"]]
         /\ reconciled' = IF Exists(a) THEN reconciled \union {e} ELSE reconciled
  /\ UNCHANGED <<repoVars, seen, acked, deliveries, restarts>>

\* Repo.UpdateState; its error is swallowed and the event still accepted.
IngestUpdate(w) ==
  /\ worker[w].pc = "update"
  /\ LET e == worker[w].event
         a == ApplicationID(e)
     IN  \/ UpdateState(a, worker[w].version, worker[w].to, Key(e))
         \/ /\ ~UpdateAccepted(a, worker[w].version, worker[w].to)
            /\ UNCHANGED repoVars
  /\ worker' = [worker EXCEPT ![w].pc = "reply"]
  /\ UNCHANGED <<seen, acked, deliveries, reconciled, restarts>>

\* 200 "accepted", which reaches the vendor or is lost on the way.
IngestReply(w) ==
  /\ worker[w].pc = "reply"
  /\ \/ acked' = acked \union {worker[w].event}
     \/ CanRetry(worker[w].event) /\ UNCHANGED acked
  /\ worker' = [worker EXCEPT ![w] = Idle]
  /\ UNCHANGED <<repoVars, seen, deliveries, reconciled, restarts>>

Ingest(w) ==
  \/ \E e \in Events :
       \/ IngestRefused(w, e) \/ IngestDuplicate(w, e)
       \/ IngestUnparsable(w, e) \/ IngestParsed(w, e)
  \/ IngestGet(w)
  \/ IngestUpdate(w)
  \/ IngestReply(w)

\* The database keeps the applications; the dedup store starts empty again.
Restart ==
  /\ restarts < MaxRestarts
  /\ \A w \in Workers : worker[w].pc # "idle" => CanRetry(worker[w].event)
  /\ restarts' = restarts + 1
  /\ seen' = {}
  /\ worker' = [w \in Workers |-> Idle]
  /\ UNCHANGED <<repoVars, acked, deliveries, reconciled>>

-----------------------------------------------------------------------------
(* The service around it: the writes the other handlers make.  They reach  *)
(* every state except VENDOR_DECISION, and decide only from MANUAL_REVIEW; *)
(* the vendor's id is stored once, by the request that creates.            *)

OtherHandlerUpdate(a) ==
  /\ Exists(a) /\ Bounded(a)
  /\ \E to \in States \ {"VENDOR_DECISION", "STARTED"} :
       /\ IsTerminal(to) => apps[a].state = "MANUAL_REVIEW"
       /\ UpdateState(a, apps[a].version, to, "handler")

OtherHandlers ==
  /\ \/ \E u \in Users, a \in AppIds : Create(u, a)
     \/ \E a \in AppIds :
          \/ /\ Bounded(a) /\ Exists(a) /\ apps[a].vendorApplicantID = "unset"
             /\ SetVendorApplicantID(a)
          \/ OtherHandlerUpdate(a)
          \/ Bounded(a) /\ Exists(a) /\ Reopen(a, apps[a].version, "handler")
  /\ UNCHANGED hookVars

hookSpecVars == <<repoVars, hookVars>>

HookSpecInit == Init /\ HookInit

HookNext == (\E w \in Workers : Ingest(w)) \/ Restart \/ OtherHandlers

\* A goroutine that runs is scheduled, and the vendor keeps redelivering.
HookFairness ==
  /\ \A w \in Workers : WF_hookSpecVars(IngestGet(w) \/ IngestUpdate(w) \/ IngestReply(w))
  /\ \A e \in Events :
       WF_hookSpecVars(\E w \in Workers : IngestRefused(w, e) \/ IngestDuplicate(w, e)
                                           \/ IngestUnparsable(w, e) \/ IngestParsed(w, e))

HookSpec == HookSpecInit /\ [][HookNext]_hookSpecVars /\ HookFairness

-----------------------------------------------------------------------------
(* Properties.                                                             *)

\* The type of the dedup store, of the workers and of the vendor's side.
HookTypeOK ==
  /\ seen \subseteq EventIds \union {"no-id"}
  /\ worker \in [Workers ->
       [pc : {"idle", "get", "update", "reply"}, event : Events \union {NoEvent},
        version : Nat, from : States \union {""}, to : States \union {""}]]
  /\ acked \subseteq Events
  /\ deliveries \in [Events -> 0 .. MaxDeliveries]
  /\ reconciled \subseteq Events
  /\ restarts \in 0 .. MaxRestarts

AdvancesBy(key) ==
  {p \in AppIds \X (1 .. MaxVersion) :
     p[2] <= Len(trail[p[1]]) /\ trail[p[1]][p[2]].by = key}

\* Ingest dedups by event id in Seen: however deliveries of an event overlap,
\* fail and are retried, the event moves the state machine at most once in
\* the life of a process.
AdvancesOncePerProcess ==
  \A key \in Keys : Cardinality(AdvancesBy(key)) <= 1 + restarts

\* README.md: "replaying an event MUST not advance the state machine twice".
ReplayNeverAdvancesTwice ==
  \A key \in Keys : Cardinality(AdvancesBy(key)) <= 1

\* Ingest decides on a copy of the application and updates it later.  What it
\* then changes (and audits as from/to) is the state it decided on, never one
\* another handler wrote in between.
AdvancesWhatItRead ==
  [][\A w \in Workers :
       (worker[w].pc = "update" /\ worker'[w].pc = "reply" /\ trail' # trail) =>
         apps[worker[w].event.app].state = worker[w].from]_hookSpecVars

\* Two events the store cannot tell apart: no id is as good as the id "no-id".
SameId(e, f) == e.header = f.header \/ {e.header, f.header} = {"", "no-id"}

\* Seen marks an event before it is parsed and compared, so a later delivery may
\* be answered as a duplicate of one that came to nothing.  An event with an id
\* of its own is acknowledged without having been compared with the application
\* only then: not on its first delivery, whatever else was delivered before.
SkippedOnlyOnRetry ==
  \A e \in acked :
    (/\ e.wellFormed /\ Exists(e.app)
     /\ \A f \in Events : SameId(e, f) => f = e
     /\ deliveries[e] = 1)
      => e \in reconciled

\* A vendor that retries gets its 2xx for every event, the unparsable and the
\* conflicting ones included: no event is retried for ever.
EveryEventAcknowledged ==
  \A e \in Events : (e.app = NoApp \/ e.app \in issued) ~> (e \in acked)

\* README.md: webhook endpoints are "safe to retry".  An event acknowledged to
\* the vendor was compared with the application it names at least once.
AcknowledgedIsReconciled ==
  \A e \in acked : (e.wellFormed /\ Exists(e.app)) => e \in reconciled
=============================================================================
