----------------------- MODULE WebhookService_proofs -----------------------
(***************************************************************************)
(* Theorems about webhook ingestion, for any events, any number of         *)
(* deliveries that overlap, and any number of restarts.                    *)
(*                                                                         *)
(* AdvancesOncePerProcess counts entries of the trail.  Its inductive form *)
(* OnceInv adds who may still write one: at most one delivery per key is   *)
(* past Seen, only while its key is marked, and until the key is marked    *)
(* and that delivery is done the count is one lower.  The store underneath *)
(* keeps the invariant IInv of its own module, and AdvancesWhatItRead      *)
(* follows from what its versions say about its contents (ReadInv).        *)
(***************************************************************************)
EXTENDS WebhookService, ApplicationRepository_proofs, FiniteSetTheorems

Worker ==
  [pc : {"idle", "get", "update", "reply"}, event : Events \union {NoEvent},
   version : Nat, from : States \union {""}, to : States \union {""}]

\* A delivery in progress has an event, and one that updates is about an
\* application that was issued.
WorkersInv ==
  \A w \in Workers :
    /\ worker[w].pc # "idle" => worker[w].event \in Events
    /\ worker[w].pc = "update" => ApplicationID(worker[w].event) \in AppIds

\* The version a delivery has read is not ahead of the application's, and
\* names the state it has read.
ReadInv ==
  \A w \in Workers : worker[w].pc = "update" =>
    LET a == ApplicationID(worker[w].event) IN
    /\ a \in issued
    /\ apps[a] # NoApp =>
         /\ worker[w].version <= apps[a].version
         /\ worker[w].version = apps[a].version => apps[a].state = worker[w].from

OnIt(w, key) == worker[w].pc \in {"get", "update"} /\ Key(worker[w].event) = key

OnceInv ==
  \A key \in Keys :
    /\ IsFiniteSet(AdvancesBy(key))
    /\ Cardinality(AdvancesBy(key)) <= restarts + 1
    /\ (key \notin seen \/ \E w \in Workers : OnIt(w, key))
         => Cardinality(AdvancesBy(key)) <= restarts
    /\ \A w \in Workers : OnIt(w, key) => key \in seen
    /\ \A w, x \in Workers : OnIt(w, key) /\ OnIt(x, key) => w = x

HookInv == IInv /\ HookTypeOK /\ WorkersInv /\ ReadInv /\ OnceInv

-----------------------------------------------------------------------------
(* The store underneath.                                                   *)

\* UpdateState by an actor of the service keeps the store's invariant.
LEMMA UpdatePreserves ==
  ASSUME IInv, NEW id \in AppIds, NEW version, NEW newState \in States, NEW actor \in Actors,
         UpdateState(id, version, newState, actor)
  PROVE  IInv'
<1>1. apps[id] \in Application /\ apps[id] # NoApp
  BY DEF IInv, TypeOK, UpdateState, UpdateAccepted, Exists
<1>2. trail' \in [AppIds -> Seq(Transition)]
  BY <1>1, RecordType DEF IInv, UpdateState
<1>3. apps' = [apps EXCEPT ![id] = Transitioned(apps[id], newState)]
  BY DEF UpdateState
<1> QED
  BY <1>1, <1>2, <1>3, TransitionedType, RewritePreserves DEF UpdateState

\* So does re-opening.
LEMMA ReopenPreserves ==
  ASSUME IInv, NEW id \in AppIds, NEW version, NEW actor \in Actors,
         Reopen(id, version, actor)
  PROVE  IInv'
<1>1. apps[id] \in Application /\ apps[id] # NoApp
  BY DEF IInv, TypeOK, Reopen, ReopenAccepted, Exists
<1>2. trail' \in [AppIds -> Seq(Transition)]
  BY <1>1, RecordType DEF IInv, Reopen, States
<1>3. apps' = [apps EXCEPT ![id] = Reopened(apps[id])]
  BY DEF Reopen
<1> QED
  BY <1>1, <1>2, <1>3, ReopenedType, RewritePreserves DEF Reopen

\* And the registration of an applicant.
LEMMA RegisterPreserves ==
  ASSUME IInv, NEW id \in AppIds, SetVendorApplicantID(id)
  PROVE  IInv'
<1>1. apps[id] \in Application /\ apps[id] # NoApp
  BY DEF IInv, TypeOK, SetVendorApplicantID, Exists
<1>2. apps' = [apps EXCEPT ![id] = Registered(apps[id])]
  BY DEF SetVendorApplicantID
<1>3. trail' \in [AppIds -> Seq(Transition)]
  BY DEF SetVendorApplicantID, IInv, TypeOK
<1> QED
  BY <1>1, <1>2, <1>3, RegisteredType, RewritePreserves DEF SetVendorApplicantID

\* Whoever writes, an application keeps its version and state or gets a higher
\* version, and one that is new was not issued before.
StoreMoves ==
  /\ issued \subseteq issued'
  /\ \A a \in issued : apps'[a] # NoApp =>
       /\ apps[a] # NoApp
       /\ \/ apps'[a].version = apps[a].version /\ apps'[a].state = apps[a].state
          \/ apps'[a].version = apps[a].version + 1

\* No write is such a move.
LEMMA SameMoves ==
  ASSUME UNCHANGED repoVars
  PROVE  StoreMoves
BY DEF StoreMoves, repoVars

\* A write of one application under its next version is such a move.
LEMMA WriteMoves ==
  ASSUME IInv, NEW id \in AppIds, apps[id] # NoApp, NEW app,
         app.version = apps[id].version + 1, apps' = [apps EXCEPT ![id] = app],
         issued' = issued
  PROVE  StoreMoves
BY DEF StoreMoves, IInv, TypeOK

\* Each of the store's writes is.
LEMMA UpdateMoves ==
  ASSUME IInv, NEW id \in AppIds, NEW version, NEW newState \in States, NEW actor,
         UpdateState(id, version, newState, actor)
  PROVE  StoreMoves
<1>1. apps[id] \in Application /\ apps[id] # NoApp
  BY DEF IInv, TypeOK, UpdateState, UpdateAccepted, Exists
<1>2. Transitioned(apps[id], newState).version = apps[id].version + 1
  BY <1>1 DEF Transitioned, Application
<1> QED
  BY <1>1, <1>2, WriteMoves DEF UpdateState

\* So is a re-opening.
LEMMA ReopenMoves ==
  ASSUME IInv, NEW id \in AppIds, NEW version, NEW actor, Reopen(id, version, actor)
  PROVE  StoreMoves
<1>1. apps[id] \in Application /\ apps[id] # NoApp
  BY DEF IInv, TypeOK, Reopen, ReopenAccepted, Exists
<1>2. Reopened(apps[id]).version = apps[id].version + 1
  BY <1>1 DEF Reopened, Application
<1> QED
  BY <1>1, <1>2, WriteMoves DEF Reopen

\* So is the registration.
LEMMA RegisterMoves ==
  ASSUME IInv, NEW id \in AppIds, SetVendorApplicantID(id)
  PROVE  StoreMoves
<1>1. apps[id] \in Application /\ apps[id] # NoApp
  BY DEF IInv, TypeOK, SetVendorApplicantID, Exists
<1>2. Registered(apps[id]).version = apps[id].version + 1
  BY <1>1 DEF Registered, Application
<1> QED
  BY <1>1, <1>2, WriteMoves DEF SetVendorApplicantID

\* And a creation, which takes an id never used and drops a decided application.
LEMMA CreateMoves ==
  ASSUME IInv, NEW u \in Users, NEW id \in AppIds, Create(u, id)
  PROVE  StoreMoves
<1>1. id \notin issued /\ issued' = issued \union {id}
      /\ apps' = [Cleared(u) EXCEPT ![id] = NewApplication(u)]
  BY DEF Create
<1>2. Cleared(u) \in [AppIds -> Application \union {NoApp}]
  BY ClearedType DEF IInv
<1>3. \A a \in AppIds : Cleared(u)[a] # NoApp => Cleared(u)[a] = apps[a]
  BY DEF Cleared, IInv, TypeOK
<1>4. \A a \in issued : a \in AppIds /\ a # id
  BY <1>1 DEF IInv, TypeOK
<1>5. \A a \in issued : apps'[a] = Cleared(u)[a]
  BY <1>1, <1>2, <1>4
<1> QED
  BY <1>1, <1>3, <1>4, <1>5 DEF StoreMoves

-----------------------------------------------------------------------------
(* The trail.                                                              *)

\* One entry more, recorded for one actor, counts for that actor only.
LEMMA OneMoreEntry ==
  ASSUME IInv, NEW id \in AppIds, NEW newState, NEW actor,
         RecordTransition(id, newState, actor)
  PROVE  /\ \A key : key # actor => AdvancesBy(key)' = AdvancesBy(key)
         /\ AdvancesBy(actor)' \subseteq AdvancesBy(actor) \union {<<id, Len(trail[id]) + 1>>}
<1> DEFINE e == [from |-> apps[id].state, to |-> newState, by |-> actor]
<1>1. trail' = [trail EXCEPT ![id] = Append(trail[id], e)] /\ e.by = actor
  BY DEF RecordTransition
<1> HIDE DEF e
<1>2. trail \in [AppIds -> Seq(Transition)]
  BY DEF IInv, TypeOK
<1>3. /\ \A a \in AppIds : a # id => trail'[a] = trail[a]
      /\ trail'[id] = Append(trail[id], e)
  BY <1>1, <1>2
<1>4. /\ Len(trail[id]) \in Nat /\ Len(trail'[id]) = Len(trail[id]) + 1
      /\ \A i \in 1 .. Len(trail[id]) : trail'[id][i] = trail[id][i]
      /\ trail'[id][Len(trail[id]) + 1] = e
  BY <1>2, <1>3
<1>5. ASSUME NEW a \in AppIds, NEW i \in 1 .. MaxVersion
      PROVE  (i <= Len(trail'[a])) <=>
               (i <= Len(trail[a]) \/ (a = id /\ i = Len(trail[id]) + 1))
  <2>1. CASE a = id
    BY <1>4, <2>1
  <2>2. CASE a # id
    BY <1>3, <2>2
  <2> QED
    BY <2>1, <2>2
<1>6. ASSUME NEW a \in AppIds, NEW i \in 1 .. MaxVersion, i <= Len(trail[a])
      PROVE  trail'[a][i] = trail[a][i]
  <2>1. CASE a = id
    BY <1>4, <1>6, <2>1
  <2>2. CASE a # id
    BY <1>3, <2>2
  <2> QED
    BY <2>1, <2>2
<1>7. ASSUME NEW key, NEW a \in AppIds, NEW i \in 1 .. MaxVersion
      PROVE  /\ <<a, i>> \in AdvancesBy(key) <=> i <= Len(trail[a]) /\ trail[a][i].by = key
             /\ <<a, i>> \in AdvancesBy(key)' <=> i <= Len(trail'[a]) /\ trail'[a][i].by = key
  BY DEF AdvancesBy
<1>8. \A key : AdvancesBy(key) \subseteq AppIds \X (1 .. MaxVersion)
               /\ AdvancesBy(key)' \subseteq AppIds \X (1 .. MaxVersion)
  BY DEF AdvancesBy
<1>9. ASSUME NEW key, key # actor
      PROVE  AdvancesBy(key)' = AdvancesBy(key)
  <2>1. ASSUME NEW a \in AppIds, NEW i \in 1 .. MaxVersion
        PROVE  <<a, i>> \in AdvancesBy(key)' <=> <<a, i>> \in AdvancesBy(key)
    <3>1. CASE i <= Len(trail[a])
      BY <3>1, <1>5, <1>6, <1>7
    <3>2. CASE ~(i <= Len(trail[a])) /\ a = id /\ i = Len(trail[id]) + 1
      BY <3>2, <1>1, <1>4, <1>7, <1>9
    <3>3. CASE ~(i <= Len(trail[a])) /\ ~(a = id /\ i = Len(trail[id]) + 1)
      BY <3>3, <1>5, <1>7
    <3> QED
      BY <3>1, <3>2, <3>3
  <2> QED
    BY <2>1, <1>8
<1>10. AdvancesBy(actor)' \subseteq AdvancesBy(actor) \union {<<id, Len(trail[id]) + 1>>}
  <2>1. ASSUME NEW a \in AppIds, NEW i \in 1 .. MaxVersion, <<a, i>> \in AdvancesBy(actor)'
        PROVE  <<a, i>> \in AdvancesBy(actor) \/ <<a, i>> = <<id, Len(trail[id]) + 1>>
    <3>1. CASE i <= Len(trail[a])
      BY <2>1, <3>1, <1>6, <1>7
    <3>2. CASE ~(i <= Len(trail[a]))
      BY <2>1, <3>2, <1>5, <1>7
    <3> QED
      BY <3>1, <3>2
  <2> QED
    BY <2>1, <1>8
<1> QED
  BY <1>9, <1>10

\* A trail that stays the same counts the same.
LEMMA SameTrail ==
  ASSUME UNCHANGED trail
  PROVE  \A key : AdvancesBy(key)' = AdvancesBy(key)
BY DEF AdvancesBy

-----------------------------------------------------------------------------
(* The steps.                                                              *)

\* Deliveries that keep waiting to update still name what they have read.
LEMMA ReadAfter ==
  ASSUME IInv, HookTypeOK, ReadInv, StoreMoves,
         \A w \in Workers : worker'[w].pc = "update" => worker'[w] = worker[w]
  PROVE  ReadInv'
<1> SUFFICES ASSUME NEW w \in Workers, worker'[w].pc = "update"
             PROVE  LET a == ApplicationID(worker'[w].event) IN
                    /\ a \in issued'
                    /\ apps'[a] # NoApp =>
                         /\ worker'[w].version <= apps'[a].version
                         /\ worker'[w].version = apps'[a].version
                              => apps'[a].state = worker'[w].from
  BY DEF ReadInv, ApplicationID
<1> DEFINE a == ApplicationID(worker[w].event)
<1>1. worker'[w] = worker[w] /\ worker[w].pc = "update"
  OBVIOUS
<1>2. /\ a \in issued
      /\ apps[a] # NoApp =>
           /\ worker[w].version <= apps[a].version
           /\ worker[w].version = apps[a].version => apps[a].state = worker[w].from
  BY <1>1 DEF ReadInv
<1>3. a \in AppIds /\ (apps[a] # NoApp => apps[a].version \in Nat)
  BY <1>2 DEF IInv, TypeOK, Application
<1>4. worker[w].version \in Nat
  BY DEF HookTypeOK
<1> HIDE DEF a
<1>5. a \in issued' /\ (apps'[a] # NoApp =>
                         /\ apps[a] # NoApp
                         /\ \/ apps'[a].version = apps[a].version /\ apps'[a].state = apps[a].state
                            \/ apps'[a].version = apps[a].version + 1)
  BY <1>2 DEF StoreMoves
<1>6. apps'[a] # NoApp =>
        /\ worker[w].version <= apps'[a].version
        /\ worker[w].version = apps'[a].version => apps'[a].state = worker[w].from
  BY <1>2, <1>3, <1>4, <1>5
<1> QED
  BY <1>1, <1>5, <1>6 DEF a

\* Restarts are counted in natural numbers.
LEMMA RestartsType ==
  ASSUME HookTypeOK
  PROVE  restarts \in Nat
<1>1. restarts \in 0 .. MaxRestarts
  BY DEF HookTypeOK
<1> QED
  BY <1>1, BoundsAssumption

\* A delivery that leaves its event alone keeps OnceInv when nothing is
\* marked or written.
LEMMA OnceAfter ==
  ASSUME OnceInv, UNCHANGED <<trail, seen, restarts>>,
         \A w \in Workers : worker'[w].pc \in {"get", "update"} =>
           worker[w].pc \in {"get", "update"} /\ worker'[w].event = worker[w].event
  PROVE  OnceInv'
<1>1. \A key : \A w \in Workers : OnIt(w, key)' => OnIt(w, key)
  BY DEF OnIt, Key
<1>2. \A key : AdvancesBy(key)' = AdvancesBy(key)
  BY SameTrail
<1>3. Keys' = Keys
  BY DEF Keys, Key
<1> QED
  BY <1>1, <1>2, <1>3 DEF OnceInv

\* The dedup key of an event of the vendor is one of the keys.
LEMMA KeyType ==
  ASSUME NEW e \in Events
  PROVE  Key(e) \in Keys /\ Key(e) \in EventIds \union {"no-id"} /\ Key(e) \in Actors
BY EventsAssumption, ActorsAssumption DEF Keys, Key, Event

\* A delivery counts against the vendor's bound.
LEMMA DeliveredType ==
  ASSUME HookTypeOK, NEW w \in Workers, NEW e \in Events, Delivered(w, e)
  PROVE  deliveries' \in [Events -> 0 .. MaxDeliveries] /\ worker[w].pc = "idle"
<1>1. /\ deliveries \in [Events -> 0 .. MaxDeliveries]
      /\ deliveries[e] < MaxDeliveries
      /\ deliveries' = [deliveries EXCEPT ![e] = deliveries[e] + 1]
      /\ worker[w].pc = "idle"
  BY DEF HookTypeOK, Delivered, CanRetry
<1>2. deliveries[e] + 1 \in 0 .. MaxDeliveries
  BY <1>1, BoundsAssumption
<1> QED
  BY <1>1, <1>2

\* A step that leaves the store alone keeps its invariant.
LEMMA SameStore ==
  ASSUME IInv, UNCHANGED repoVars
  PROVE  IInv'
BY DEF IInv, TypeOK, OwnerIndexed, EntriesIssued, Exists, repoVars

\* A delivery that is answered or dropped before it is parsed.
LEMMA TurnedAwayInv ==
  ASSUME HookInv, NEW w \in Workers, NEW e \in Events,
         IngestRefused(w, e) \/ IngestDuplicate(w, e) \/ IngestUnparsable(w, e)
  PROVE  HookInv'
<1> USE DEF HookInv
<1>1. /\ UNCHANGED <<repoVars, worker, reconciled, restarts>>
      /\ deliveries' \in [Events -> 0 .. MaxDeliveries]
      /\ acked' \subseteq Events
      /\ seen' = seen \/ seen' = seen \union {Key(e)}
      /\ seen' # seen => Key(e) \notin seen
  <2>1. CASE IngestDuplicate(w, e)
    BY <2>1, DeliveredType DEF IngestDuplicate, HookTypeOK
  <2>2. CASE IngestUnparsable(w, e)
    BY <2>2, DeliveredType DEF IngestUnparsable, HookTypeOK, MarkSeen, Seen
  <2>3. CASE IngestRefused(w, e)
    BY <2>3, DeliveredType DEF IngestRefused, HookTypeOK
  <2> QED
    BY <2>1, <2>2, <2>3
<1>2. IInv'
  BY <1>1, SameStore
<1>3. HookTypeOK'
  BY <1>1, KeyType DEF HookTypeOK
<1>4. WorkersInv'
  BY <1>1 DEF WorkersInv, ApplicationID
<1>5. ReadInv'
  BY <1>1 DEF ReadInv, ApplicationID, repoVars
<1>6. OnceInv'
  <2>1. \A key : AdvancesBy(key)' = AdvancesBy(key)
    BY <1>1, SameTrail DEF repoVars
  <2>2. \A key : \A x \in Workers : OnIt(x, key)' <=> OnIt(x, key)
    BY <1>1 DEF OnIt, Key
  <2>3. Keys' = Keys /\ restarts' = restarts /\ seen \subseteq seen'
    BY <1>1 DEF Keys, Key
  <2> QED
    BY <2>1, <2>2, <2>3 DEF OnceInv
<1> QED
  BY <1>2, <1>3, <1>4, <1>5, <1>6

\* A delivery that marks its key and goes on to read.
LEMMA ParsedInv ==
  ASSUME HookInv, NEW w \in Workers, NEW e \in Events, IngestParsed(w, e)
  PROVE  HookInv'
<1> USE DEF HookInv
<1> DEFINE r == [Idle EXCEPT !.pc = "get", !.event = e]
<1>1. r \in Worker /\ r.pc = "get" /\ r.event = e
  BY DEF Idle, Worker
<1>2. /\ UNCHANGED <<repoVars, acked, reconciled, restarts>>
      /\ worker' = [worker EXCEPT ![w] = r]
      /\ deliveries' \in [Events -> 0 .. MaxDeliveries]
      /\ seen' = seen \union {Key(e)} /\ Key(e) \notin seen
      /\ worker[w].pc = "idle"
  BY DeliveredType DEF IngestParsed, MarkSeen, Seen
<1> HIDE DEF r
<1>3. /\ worker \in [Workers -> Worker] /\ worker' \in [Workers -> Worker]
      /\ worker'[w] = r /\ \A x \in Workers : x # w => worker'[x] = worker[x]
  BY <1>1, <1>2 DEF HookTypeOK, Worker
<1>4. IInv'
  BY <1>2, SameStore
<1>5. HookTypeOK'
  BY <1>2, <1>3, KeyType DEF HookTypeOK, Worker
<1>6. WorkersInv'
  BY <1>1, <1>3 DEF WorkersInv, ApplicationID
<1>7. ReadInv'
  BY <1>1, <1>2, <1>3 DEF ReadInv, ApplicationID, repoVars
<1>8. OnceInv'
  <2>1. \A key : AdvancesBy(key)' = AdvancesBy(key)
    BY <1>2, SameTrail DEF repoVars
  <2>2. \A key : \A x \in Workers : OnIt(x, key)' <=> (OnIt(x, key) \/ (x = w /\ key = Key(e)))
    BY <1>1, <1>2, <1>3 DEF OnIt, Key
  <2>3. Keys' = Keys
    BY DEF Keys, Key
  <2>4. ASSUME NEW key \in Keys, key # Key(e)
        PROVE  /\ key \in seen' <=> key \in seen
               /\ \A x \in Workers : OnIt(x, key)' <=> OnIt(x, key)
    BY <1>2, <2>2, <2>4
  <2>5. ASSUME NEW key \in Keys, key = Key(e)
        PROVE  /\ key \in seen' /\ key \notin seen
               /\ \A x \in Workers : OnIt(x, key)' <=> x = w
    BY <1>2, <2>2, <2>5 DEF OnceInv
  <2> QED
    BY <1>2, <2>1, <2>3, <2>4, <2>5 DEF OnceInv
<1> QED
  BY <1>4, <1>5, <1>6, <1>7, <1>8

\* A delivery that reads the application and decides.
LEMMA GetInv ==
  ASSUME HookInv, NEW w \in Workers, IngestGet(w)
  PROVE  HookInv'
<1> USE DEF HookInv
<1> DEFINE e == worker[w].event
           a == ApplicationID(e)
<1>1. /\ worker \in [Workers -> Worker] /\ worker[w] \in Worker
      /\ worker[w].pc = "get" /\ e \in Events
  BY DEF HookTypeOK, Worker, WorkersInv, IngestGet
<1>2. UNCHANGED <<repoVars, seen, acked, deliveries, restarts>>
  BY DEF IngestGet
<1>3. PICK r \in Worker :
        /\ worker' = [worker EXCEPT ![w] = r]
        /\ r.event = e
        /\ \/ r.pc = "reply"
           \/ /\ r.pc = "update" /\ Exists(a)
              /\ r.version = apps[a].version /\ r.from = apps[a].state
  <2> DEFINE target == IF Exists(a) THEN reconcileOutcomeToState(e.outcome, apps[a].state)
                                    ELSE ""
             moved == [worker[w] EXCEPT !.pc = "update", !.to = target,
                                        !.version = apps[a].version, !.from = apps[a].state]
             replied == [worker[w] EXCEPT !.pc = "reply"]
  <2>1. CASE target # "" /\ CanTransition(apps[a].state, target)
    <3>1. Exists(a)
      BY <2>1
    <3>2. apps[a].version \in Nat /\ apps[a].state \in States
      BY <3>1 DEF Exists, IInv, TypeOK, Application
    <3>3. target \in States
      BY <2>1 DEF CanTransition, legalTransitions, States
    <3> HIDE DEF target, a
    <3>4. moved \in Worker /\ moved.event = e /\ moved.pc = "update"
          /\ moved.version = apps[a].version /\ moved.from = apps[a].state
      BY <1>1, <3>2, <3>3 DEF Worker
    <3>5. worker' = [worker EXCEPT ![w] = moved]
      BY <2>1 DEF IngestGet, target, a
    <3> QED
      BY <3>1, <3>4, <3>5
  <2>2. CASE ~(target # "" /\ CanTransition(apps[a].state, target))
    <3>1. replied \in Worker /\ replied.event = e /\ replied.pc = "reply"
      BY <1>1 DEF Worker
    <3>2. worker' = [worker EXCEPT ![w] = replied]
      BY <2>2 DEF IngestGet
    <3> QED
      BY <3>1, <3>2
  <2> QED
    BY <2>1, <2>2
<1>4. /\ worker' \in [Workers -> Worker] /\ worker'[w] = r
      /\ \A x \in Workers : x # w => worker'[x] = worker[x]
  BY <1>1, <1>3
<1>5. IInv'
  BY <1>2, SameStore
<1>6. HookTypeOK'
  <2>1. reconciled' \subseteq Events
    BY <1>1 DEF IngestGet, HookTypeOK
  <2> QED
    BY <1>2, <1>4, <2>1 DEF HookTypeOK, Worker
<1>7. WorkersInv'
  BY <1>1, <1>3, <1>4 DEF WorkersInv, ApplicationID, Exists
<1>8. ReadInv'
  <2>1. r.pc = "update" => /\ a \in issued /\ apps[a].version \in Nat
                          /\ r.version = apps[a].version /\ r.from = apps[a].state
    BY <1>3 DEF Exists, IInv, EntriesIssued, TypeOK, Application
  <2>2. apps' = apps /\ issued' = issued
    BY <1>2 DEF repoVars
  <2>3. ASSUME NEW x \in Workers, worker'[x].pc = "update"
        PROVE  LET b == ApplicationID(worker'[x].event) IN
               /\ b \in issued
               /\ apps[b] # NoApp =>
                    /\ worker'[x].version <= apps[b].version
                    /\ worker'[x].version = apps[b].version => apps[b].state = worker'[x].from
    <3>1. CASE x = w
      BY <3>1, <1>3, <1>4, <2>1, <2>3
    <3>2. CASE x # w
      BY <3>2, <1>4, <2>3 DEF ReadInv
    <3> QED
      BY <3>1, <3>2
  <2> QED
    BY <2>2, <2>3 DEF ReadInv, ApplicationID
<1>9. OnceInv'
  <2>1. \A x \in Workers : worker'[x].pc \in {"get", "update"} =>
          worker[x].pc \in {"get", "update"} /\ worker'[x].event = worker[x].event
    BY <1>1, <1>3, <1>4
  <2> QED
    BY <1>2, <2>1, OnceAfter DEF repoVars
<1> QED
  BY <1>5, <1>6, <1>7, <1>8, <1>9

\* A delivery that is answered.
LEMMA ReplyInv ==
  ASSUME HookInv, NEW w \in Workers, IngestReply(w)
  PROVE  HookInv'
<1> USE DEF HookInv
<1>1. /\ UNCHANGED <<repoVars, seen, deliveries, reconciled, restarts>>
      /\ worker' = [worker EXCEPT ![w] = Idle]
      /\ worker[w].event \in Events /\ acked' \subseteq Events
  BY DEF IngestReply, WorkersInv, HookTypeOK
<1>2. Idle \in Worker /\ Idle.pc = "idle"
  BY DEF Idle, Worker
<1>3. /\ worker' \in [Workers -> Worker] /\ worker'[w] = Idle
      /\ \A x \in Workers : x # w => worker'[x] = worker[x]
  BY <1>1, <1>2 DEF HookTypeOK, Worker
<1>4. IInv'
  BY <1>1, SameStore
<1>5. HookTypeOK'
  BY <1>1, <1>3 DEF HookTypeOK, Worker
<1>6. WorkersInv'
  BY <1>2, <1>3 DEF WorkersInv, ApplicationID
<1>7. ReadInv'
  BY <1>1, <1>2, <1>3 DEF ReadInv, ApplicationID, repoVars
<1>8. OnceInv'
  <2>1. \A x \in Workers : worker'[x].pc \in {"get", "update"} =>
          worker[x].pc \in {"get", "update"} /\ worker'[x].event = worker[x].event
    BY <1>2, <1>3
  <2> QED
    BY <1>1, <2>1, OnceAfter DEF repoVars
<1> QED
  BY <1>4, <1>5, <1>6, <1>7, <1>8

\* A restart empties the dedup store, and ends every delivery with it.
LEMMA RestartInv ==
  ASSUME HookInv, Restart
  PROVE  HookInv'
<1> USE DEF HookInv
<1>1. /\ UNCHANGED <<repoVars, acked, deliveries, reconciled>>
      /\ worker' = [w \in Workers |-> Idle] /\ seen' = {}
      /\ restarts < MaxRestarts /\ restarts' = restarts + 1
      /\ restarts \in 0 .. MaxRestarts
  BY DEF Restart, HookTypeOK
<1>2. Idle \in Worker /\ \A w \in Workers : worker'[w].pc = "idle"
  BY <1>1 DEF Idle, Worker
<1>3. IInv'
  BY <1>1, SameStore
<1>4. HookTypeOK'
  <2>1. restarts' \in 0 .. MaxRestarts
    BY <1>1, BoundsAssumption
  <2>2. worker' \in [Workers -> Worker]
    BY <1>1, <1>2
  <2> QED
    BY <1>1, <2>1, <2>2 DEF HookTypeOK, Worker
<1>5. WorkersInv' /\ ReadInv'
  BY <1>2 DEF WorkersInv, ReadInv, ApplicationID
<1>6. OnceInv'
  <2>1. \A key : AdvancesBy(key)' = AdvancesBy(key)
    BY <1>1, SameTrail DEF repoVars
  <2>2. Keys' = Keys
    BY DEF Keys, Key
  <2>3. ASSUME NEW key \in Keys
        PROVE  /\ IsFiniteSet(AdvancesBy(key))
               /\ Cardinality(AdvancesBy(key)) <= restarts'
               /\ Cardinality(AdvancesBy(key)) <= restarts' + 1
    <3>1. /\ IsFiniteSet(AdvancesBy(key))
          /\ Cardinality(AdvancesBy(key)) <= restarts + 1
      BY DEF OnceInv
    <3>2. Cardinality(AdvancesBy(key)) \in Nat
      BY <3>1, FS_CardinalityType
    <3> QED
      BY <1>1, <3>1, <3>2
  <2>4. \A key : \A w \in Workers : ~OnIt(w, key)'
    BY <1>2 DEF OnIt
  <2> QED
    BY <2>1, <2>2, <2>3, <2>4 DEF OnceInv
<1> QED
  BY <1>3, <1>4, <1>5, <1>6

\* A delivery that updates: the one step that adds an entry for its event.
LEMMA UpdateInv ==
  ASSUME HookInv, NEW w \in Workers, IngestUpdate(w)
  PROVE  HookInv'
<1> USE DEF HookInv
<1> DEFINE e == worker[w].event
           a == ApplicationID(e)
           r == [worker[w] EXCEPT !.pc = "reply"]
<1>1. /\ worker \in [Workers -> Worker] /\ worker[w] \in Worker
      /\ worker[w].pc = "update" /\ e \in Events /\ a \in AppIds
  BY DEF HookTypeOK, Worker, WorkersInv, IngestUpdate
<1>2. /\ UNCHANGED <<seen, acked, deliveries, reconciled, restarts>>
      /\ worker' = [worker EXCEPT ![w] = r]
  BY DEF IngestUpdate
<1>3. r \in Worker /\ r.pc = "reply" /\ r.event = e
  BY <1>1 DEF Worker
<1> HIDE DEF r
<1>4. /\ worker' \in [Workers -> Worker] /\ worker'[w] = r
      /\ \A x \in Workers : x # w => worker'[x] = worker[x]
  BY <1>1, <1>2, <1>3
<1>5. HookTypeOK'
  BY <1>2, <1>4 DEF HookTypeOK, Worker
<1>6. WorkersInv'
  BY <1>1, <1>3, <1>4 DEF WorkersInv, ApplicationID
<1>7. CASE UpdateState(a, worker[w].version, worker[w].to, Key(e))
  <2>1. worker[w].to \in States
    BY <1>7 DEF UpdateState, UpdateAccepted, CanTransition, legalTransitions, States
  <2>2. IInv' /\ StoreMoves
    BY <1>1, <1>7, <2>1, KeyType, UpdatePreserves, UpdateMoves
  <2>3. ReadInv'
    <3>1. \A x \in Workers : worker'[x].pc = "update" => worker'[x] = worker[x]
      BY <1>3, <1>4
    <3> QED
      BY <2>2, <3>1, ReadAfter
  <2>4. OnceInv'
    <3>0. PICK id \in AppIds, k \in Keys : id = a /\ k = Key(e)
      BY <1>1, KeyType
    <3>1. PICK entry :
          /\ \A key : key # k => AdvancesBy(key)' = AdvancesBy(key)
          /\ AdvancesBy(k)' \subseteq AdvancesBy(k) \union {entry}
      <4>1. PICK version, to : version = worker[w].version /\ to = worker[w].to
        OBVIOUS
      <4>2. UpdateState(id, version, to, k)
        BY <1>7, <3>0, <4>1
      <4> QED
        BY <4>2, OneMoreEntry DEF UpdateState
    <3>2. OnIt(w, k)
      BY <1>1, <3>0 DEF OnIt
    <3>3. /\ k \in seen /\ restarts \in Nat
          /\ IsFiniteSet(AdvancesBy(k)) /\ Cardinality(AdvancesBy(k)) <= restarts
          /\ \A x \in Workers : OnIt(x, k) => x = w
      <4>1. restarts \in Nat
        BY RestartsType
      <4> QED
        BY <3>2, <4>1 DEF OnceInv
    <3>4. IsFiniteSet(AdvancesBy(k)') /\ Cardinality(AdvancesBy(k)') <= restarts + 1
      <4>1. /\ IsFiniteSet(AdvancesBy(k) \union {entry})
            /\ Cardinality(AdvancesBy(k) \union {entry}) \in
                 {Cardinality(AdvancesBy(k)), Cardinality(AdvancesBy(k)) + 1}
        BY <3>3, FS_AddElement
      <4>2. /\ IsFiniteSet(AdvancesBy(k)')
            /\ Cardinality(AdvancesBy(k)') <= Cardinality(AdvancesBy(k) \union {entry})
        BY <3>1, <4>1, FS_Subset
      <4>3. Cardinality(AdvancesBy(k)) \in Nat /\ Cardinality(AdvancesBy(k)') \in Nat
        BY <3>3, <4>2, FS_CardinalityType
      <4> QED
        BY <3>3, <4>1, <4>2, <4>3
    <3>5. \A key : \A x \in Workers : OnIt(x, key)' => OnIt(x, key) /\ x # w
      BY <1>3, <1>4 DEF OnIt, Key
    <3>6. ASSUME NEW x \in Workers
          PROVE  ~OnIt(x, k)'
      BY <3>3, <3>5
    <3>7. Keys' = Keys /\ seen' = seen /\ restarts' = restarts
      BY <1>2 DEF Keys, Key
    <3>8. ASSUME NEW key \in Keys, key = k
          PROVE  /\ IsFiniteSet(AdvancesBy(key)') /\ Cardinality(AdvancesBy(key)') <= restarts + 1
                 /\ key \in seen /\ \A x \in Workers : ~OnIt(x, key)'
      BY <3>3, <3>4, <3>6, <3>8
    <3>9. ASSUME NEW key \in Keys, key # k
          PROVE  /\ AdvancesBy(key)' = AdvancesBy(key)
                 /\ \A x \in Workers : OnIt(x, key)' => OnIt(x, key)
      BY <3>1, <3>5, <3>9
    <3> QED
      BY <3>7, <3>8, <3>9 DEF OnceInv
  <2> QED
    BY <1>5, <1>6, <2>2, <2>3, <2>4
<1>8. CASE UNCHANGED repoVars
  <2>1. IInv'
    BY <1>8, SameStore
  <2>2. ReadInv'
    BY <1>3, <1>4, <1>8 DEF ReadInv, ApplicationID, repoVars
  <2>3. OnceInv'
    <3>1. \A x \in Workers : worker'[x].pc \in {"get", "update"} =>
            worker[x].pc \in {"get", "update"} /\ worker'[x].event = worker[x].event
      BY <1>3, <1>4
    <3> QED
      BY <1>2, <1>8, <3>1, OnceAfter DEF repoVars
  <2> QED
    BY <1>5, <1>6, <2>1, <2>2, <2>3
<1> QED
  BY <1>7, <1>8 DEF IngestUpdate

\* A write of another handler: it moves the store, and no event's count.
LEMMA OtherWriteInv ==
  ASSUME HookInv, IInv', StoreMoves, UNCHANGED hookVars,
         \A key \in Keys : AdvancesBy(key)' = AdvancesBy(key)
  PROVE  HookInv'
<1> USE DEF HookInv
<1>1. UNCHANGED <<seen, worker, acked, deliveries, reconciled, restarts>>
  BY DEF hookVars
<1>2. HookTypeOK' /\ WorkersInv'
  BY <1>1 DEF HookTypeOK, WorkersInv, ApplicationID
<1>3. ReadInv'
  BY <1>1, ReadAfter
<1>4. OnceInv'
  <2>1. \A key : \A x \in Workers : OnIt(x, key)' <=> OnIt(x, key)
    BY <1>1 DEF OnIt, Key
  <2>2. Keys' = Keys
    BY DEF Keys, Key
  <2> QED
    BY <1>1, <2>1, <2>2 DEF OnceInv
<1> QED
  BY <1>2, <1>3, <1>4

\* The other handlers write for themselves, under an actor that is no event's key.
LEMMA OthersInv ==
  ASSUME HookInv, OtherHandlers
  PROVE  HookInv'
<1> USE DEF HookInv
<1>1. UNCHANGED hookVars /\ "handler" \in Actors /\ "handler" \notin Keys
  BY ActorsAssumption DEF OtherHandlers
<1>2. ASSUME NEW u \in Users, NEW a \in AppIds, Create(u, a)
      PROVE  HookInv'
  <2>1. \A key : AdvancesBy(key)' = AdvancesBy(key)
    BY <1>2, SameTrail DEF Create
  <2> QED
    BY <1>1, <1>2, <2>1, CreatePreserves, CreateMoves, OtherWriteInv
<1>3. ASSUME NEW a \in AppIds, SetVendorApplicantID(a)
      PROVE  HookInv'
  <2>1. \A key : AdvancesBy(key)' = AdvancesBy(key)
    BY <1>3, SameTrail DEF SetVendorApplicantID
  <2> QED
    BY <1>1, <1>3, <2>1, RegisterPreserves, RegisterMoves, OtherWriteInv
<1>4. ASSUME NEW a \in AppIds, OtherHandlerUpdate(a)
      PROVE  HookInv'
  <2>1. PICK to \in States : UpdateState(a, apps[a].version, to, "handler")
    BY <1>4 DEF OtherHandlerUpdate
  <2>2. PICK version : version = apps[a].version
    OBVIOUS
  <2>3. UpdateState(a, version, to, "handler")
    BY <2>1, <2>2
  <2>4. \A key \in Keys : AdvancesBy(key)' = AdvancesBy(key)
    BY <1>1, <2>3, OneMoreEntry DEF UpdateState
  <2> QED
    BY <1>1, <2>3, <2>4, UpdatePreserves, UpdateMoves, OtherWriteInv
<1>5. ASSUME NEW a \in AppIds, Reopen(a, apps[a].version, "handler")
      PROVE  HookInv'
  <2>1. PICK version : version = apps[a].version
    OBVIOUS
  <2>2. Reopen(a, version, "handler")
    BY <1>5, <2>1
  <2>3. \A key \in Keys : AdvancesBy(key)' = AdvancesBy(key)
    BY <1>1, <2>2, OneMoreEntry DEF Reopen
  <2> QED
    BY <1>1, <2>2, <2>3, ReopenPreserves, ReopenMoves, OtherWriteInv
<1> QED
  BY <1>2, <1>3, <1>4, <1>5 DEF OtherHandlers

\* What the other handlers do to the store is a move of it.
LEMMA OthersMove ==
  ASSUME HookInv, OtherHandlers
  PROVE  StoreMoves
<1>1. ASSUME NEW a \in AppIds, OtherHandlerUpdate(a)
      PROVE  StoreMoves
  <2>1. PICK to, version : to \in States /\ UpdateState(a, version, to, "handler")
    BY <1>1 DEF OtherHandlerUpdate
  <2> QED
    BY <2>1, UpdateMoves DEF HookInv
<1>2. ASSUME NEW a \in AppIds, Reopen(a, apps[a].version, "handler")
      PROVE  StoreMoves
  <2>1. PICK version : Reopen(a, version, "handler")
    BY <1>2
  <2> QED
    BY <2>1, ReopenMoves DEF HookInv
<1> QED
  BY <1>1, <1>2, CreateMoves, RegisterMoves DEF OtherHandlers, HookInv

-----------------------------------------------------------------------------
(* The theorems.                                                           *)

\* The invariant holds of the empty service.
LEMMA HookInvInit ==
  ASSUME HookSpecInit
  PROVE  HookInv
<1> USE DEF HookSpecInit, HookInit
<1>1. IInv
  BY InitIInv
<1>2. Idle \in Worker /\ Idle.pc = "idle"
  BY DEF Idle, Worker
<1>3. HookTypeOK
  <2>1. worker \in [Workers -> Worker]
    BY <1>2
  <2>2. deliveries \in [Events -> 0 .. MaxDeliveries] /\ restarts \in 0 .. MaxRestarts
    BY BoundsAssumption
  <2> QED
    BY <2>1, <2>2 DEF HookTypeOK, Worker
<1>4. WorkersInv /\ ReadInv
  BY <1>2 DEF WorkersInv, ReadInv
<1>5. OnceInv
  <2>1. \A key : AdvancesBy(key) = {}
    BY DEF AdvancesBy, Init
  <2>2. IsFiniteSet({}) /\ Cardinality({}) = 0
    BY FS_EmptySet
  <2>3. \A key : \A w \in Workers : ~OnIt(w, key)
    BY <1>2 DEF OnIt
  <2> QED
    BY <2>1, <2>2, <2>3 DEF OnceInv
<1> QED
  BY <1>1, <1>3, <1>4, <1>5 DEF HookInv

\* Every step of a delivery keeps it, and writes as the store allows.
LEMMA IngestInv ==
  ASSUME HookInv, NEW w \in Workers, Ingest(w)
  PROVE  HookInv' /\ StoreMoves
<1>1. HookInv'
  BY TurnedAwayInv, ParsedInv, GetInv, UpdateInv, ReplyInv DEF Ingest
<1>2. CASE IngestUpdate(w)
  <2>1. PICK a \in AppIds, k \in Keys :
          a = ApplicationID(worker[w].event) /\ k = Key(worker[w].event)
    BY <1>2, KeyType DEF IngestUpdate, HookInv, WorkersInv
  <2>2. PICK version, to : version = worker[w].version /\ to = worker[w].to
    OBVIOUS
  <2>3. CASE UpdateState(a, version, to, k)
    <3>1. to \in States
      BY <2>3 DEF UpdateState, UpdateAccepted, CanTransition, legalTransitions, States
    <3> QED
      BY <1>1, <2>3, <3>1, UpdateMoves DEF HookInv
  <2>4. CASE UNCHANGED repoVars
    BY <1>1, <2>4, SameMoves
  <2> QED
    BY <1>2, <2>1, <2>2, <2>3, <2>4 DEF IngestUpdate
<1>3. CASE ~IngestUpdate(w)
  <2>1. UNCHANGED repoVars
    BY <1>3 DEF Ingest, IngestRefused, IngestDuplicate, IngestUnparsable, IngestParsed,
                IngestGet, IngestReply
  <2> QED
    BY <1>1, <2>1, SameMoves
<1> QED
  BY <1>1, <1>2, <1>3

\* What a delivery does to the store is one call of it, or nothing.
LEMMA IngestCalls ==
  ASSUME HookInv, NEW w \in Workers, Ingest(w)
  PROVE  [StoreCall]_repoVars
<1>1. CASE IngestUpdate(w)
  <2>1. PICK a, version, to, k :
          /\ a = ApplicationID(worker[w].event) /\ version = worker[w].version
          /\ to = worker[w].to /\ k = Key(worker[w].event)
    OBVIOUS
  <2>2. k \in Actors /\ version \in Nat
    BY <1>1, <2>1, KeyType DEF IngestUpdate, HookInv, WorkersInv, HookTypeOK
  <2>3. CASE UpdateState(a, version, to, k)
    <3>1. a \in AppIds /\ to \in States
      BY <2>3 DEF UpdateState, UpdateAccepted, Exists, CanTransition, legalTransitions, States
    <3> QED
      BY <2>2, <2>3, <3>1, Zenon DEF StoreCall
  <2> QED
    BY <1>1, <2>1, <2>3 DEF IngestUpdate
<1>2. CASE ~IngestUpdate(w)
  BY <1>2 DEF Ingest, IngestRefused, IngestDuplicate, IngestUnparsable, IngestParsed, IngestGet,
              IngestReply
<1> QED
  BY <1>1, <1>2

\* Every step keeps it.
LEMMA HookInvStep ==
  ASSUME HookInv, [HookNext]_hookSpecVars
  PROVE  HookInv'
<1>1. ASSUME NEW w \in Workers, Ingest(w)
      PROVE  HookInv'
  BY <1>1, IngestInv
<1>2. CASE UNCHANGED hookSpecVars
  <2>1. UNCHANGED <<repoVars, hookVars>>
    BY <1>2 DEF hookSpecVars
  <2>2. IInv' /\ StoreMoves
    BY <2>1, SameStore, SameMoves DEF HookInv
  <2>3. \A key : AdvancesBy(key)' = AdvancesBy(key)
    BY <2>1, SameTrail DEF repoVars
  <2> QED
    BY <2>1, <2>2, <2>3, OtherWriteInv
<1> QED
  BY <1>1, <1>2, RestartInv, OthersInv DEF HookNext

\* Webhook ingestion keeps its inductive invariant.
THEOREM HookInvariant == HookSpec => []HookInv
<1>1. HookSpecInit => HookInv
  BY HookInvInit
<1>2. HookInv /\ [HookNext]_hookSpecVars => HookInv'
  BY HookInvStep
<1> QED
  BY <1>1, <1>2, PTL DEF HookSpec

\* The dedup store, the deliveries and the vendor's side are well typed.
THEOREM HookTypeCorrect == HookSpec => []HookTypeOK
<1>1. HookInv => HookTypeOK
  BY DEF HookInv
<1> QED
  BY <1>1, HookInvariant, PTL

\* However deliveries of an event overlap, fail and are retried, the event
\* moves the state machine at most once per life of the process (Seen marks
\* the key before the update, in one critical section with the test).
THEOREM AdvancesOnce == HookSpec => []AdvancesOncePerProcess
<1>1. HookInv => AdvancesOncePerProcess
  <2> SUFFICES ASSUME HookInv, NEW key \in Keys
               PROVE  Cardinality(AdvancesBy(key)) <= 1 + restarts
    BY DEF AdvancesOncePerProcess
  <2>1. restarts \in Nat
    BY RestartsType DEF HookInv
  <2>2. Cardinality(AdvancesBy(key)) <= restarts + 1
    BY DEF HookInv, OnceInv
  <2> QED
    BY <2>1, <2>2
<1> QED
  BY <1>1, HookInvariant, PTL

\* What a delivery changes is the state it decided on: the version it hands
\* to UpdateState is the application's only while the state it read is, too.
THEOREM AdvancesRead == HookSpec => AdvancesWhatItRead
<1>1. ASSUME HookInv, [HookNext]_hookSpecVars, NEW w \in Workers,
             worker[w].pc = "update", worker'[w].pc = "reply", trail' # trail
      PROVE  apps[worker[w].event.app].state = worker[w].from
  <2> DEFINE a == ApplicationID(worker[w].event)
  <2>1. worker \in [Workers -> Worker] /\ Idle.pc = "idle"
    BY <1>1 DEF HookInv, HookTypeOK, Worker, Idle
  <2>2. ~Restart /\ ~OtherHandlers /\ ~UNCHANGED hookSpecVars
    BY <1>1, <2>1 DEF Restart, OtherHandlers, hookVars, hookSpecVars
  <2>3. PICK v \in Workers : Ingest(v)
    BY <1>1, <2>2 DEF HookNext
  <2>4. IngestUpdate(v)
    BY <1>1, <2>3 DEF Ingest, IngestRefused, IngestDuplicate, IngestUnparsable, IngestParsed,
                      IngestGet,
                      IngestReply, repoVars
  <2>5. v = w
    BY <1>1, <2>1, <2>4 DEF IngestUpdate
  <2>6. UpdateAccepted(a, worker[w].version, worker[w].to)
    BY <1>1, <2>4, <2>5 DEF IngestUpdate, UpdateState, repoVars
  <2>7. apps[a].state = worker[w].from /\ a \in AppIds
    BY <1>1, <2>6 DEF HookInv, ReadInv, UpdateAccepted, Exists
  <2>8. a = worker[w].event.app
    BY <2>7, NoAppAssumption DEF ApplicationID
  <2> QED
    BY <2>7, <2>8
<1>2. HookInv /\ [HookNext]_hookSpecVars
        => [\A w \in Workers :
              (worker[w].pc = "update" /\ worker'[w].pc = "reply" /\ trail' # trail) =>
                apps[worker[w].event.app].state = worker[w].from]_hookSpecVars
  BY <1>1
<1> QED
  BY <1>2, HookInvariant, PTL DEF HookSpec, AdvancesWhatItRead

-----------------------------------------------------------------------------
(* First deliveries.  SkippedOnlyOnRetry speaks of the acknowledged events *)
(* that were delivered once.  Its inductive form FirstInv follows such an  *)
(* event from before its delivery, when nobody has marked its key, through *)
(* the delivery, which has compared it once it is past Get.  An event that *)
(* was delivered names an application that was issued, so that no later    *)
(* creation is what it should have been compared with.                     *)

\* The event does not share its key.
OwnsKey(e) == \A f \in Events : SameId(e, f) => f = e

\* The event was compared, or there was nothing to compare it with.
Settled(e) == e \in reconciled \/ ~Exists(e.app)

Followed(e) ==
  /\ deliveries[e] = 0 => /\ Key(e) \notin seen /\ e \notin acked
                          /\ \A w \in Workers : worker[w].event # e
  /\ deliveries[e] > 0 => e.app \in issued \/ e.app = NoApp
  /\ deliveries[e] = 1 =>
       /\ e \in acked => Settled(e)
       /\ \A w \in Workers : worker[w].event = e /\ worker[w].pc # "get" => Settled(e)

FirstInv == \A e \in Events : OwnsKey(e) => Followed(e)

\* Events with an id of their own have a key of their own.
LEMMA OwnKeys ==
  ASSUME NEW e \in Events, OwnsKey(e), NEW f \in Events, Key(f) = Key(e)
  PROVE  f = e
<1>1. e.header = f.header \/ {e.header, f.header} = {"", "no-id"}
  BY DEF Key
<1> QED
  BY <1>1 DEF OwnsKey, SameId

\* Deliveries are counted in natural numbers.
LEMMA DeliveriesType ==
  ASSUME HookInv, NEW e \in Events
  PROVE  deliveries[e] \in Nat
<1>1. deliveries[e] \in 0 .. MaxDeliveries
  BY DEF HookInv, HookTypeOK
<1> QED
  BY <1>1, BoundsAssumption

\* What is settled stays so: an issued id is not handed out again.
LEMMA SettledStays ==
  ASSUME IInv, StoreMoves, NEW e, e.app \in issued \/ e.app = NoApp,
         Settled(e), reconciled \subseteq reconciled'
  PROVE  Settled(e)'
BY NoAppAssumption DEF Settled, Exists, StoreMoves, IInv, TypeOK

\* A step that writes the store and leaves the deliveries alone.
LEMMA FirstAside ==
  ASSUME HookInv, FirstInv, StoreMoves, UNCHANGED hookVars
  PROVE  FirstInv'
<1> SUFFICES ASSUME NEW e \in Events, OwnsKey(e)
             PROVE  Followed(e)'
  BY DEF FirstInv, OwnsKey, SameId
<1>1. UNCHANGED <<seen, worker, acked, deliveries, reconciled>>
  BY DEF hookVars
<1>2. Followed(e) /\ deliveries[e] \in Nat
  BY DeliveriesType DEF FirstInv
<1>3. deliveries[e] > 0 => (e.app \in issued \/ e.app = NoApp)
  BY <1>2 DEF Followed
<1>4. deliveries[e] = 1 /\ Settled(e) => Settled(e)'
  BY <1>1, <1>3, SettledStays DEF HookInv
<1>5. issued \subseteq issued'
  BY DEF StoreMoves
<1>6. Key(e)' = Key(e)
  BY DEF Key
<1> QED
  BY <1>1, <1>2, <1>4, <1>5, <1>6 DEF Followed

\* An event that was about to be delivered is one delivery further.
LEMMA DeliveredOnce ==
  ASSUME HookInv, NEW w \in Workers, NEW f \in Events, Delivered(w, f)
  PROVE  /\ \A e \in Events : deliveries[e] \in Nat
         /\ deliveries'[f] = deliveries[f] + 1
         /\ \A e \in Events : e # f => deliveries'[e] = deliveries[e]
         /\ f.app \in issued \/ f.app = NoApp
         /\ worker[w].pc = "idle"
<1>1. deliveries \in [Events -> 0 .. MaxDeliveries]
  BY DEF HookInv, HookTypeOK
<1> QED
  BY <1>1, DeliveriesType DEF Delivered

\* A delivery that is turned away: the first one was not acknowledged.
LEMMA FirstTurnedAway ==
  ASSUME HookInv, FirstInv, NEW w \in Workers, NEW f \in Events,
         IngestRefused(w, f) \/ IngestDuplicate(w, f) \/ IngestUnparsable(w, f)
  PROVE  FirstInv'
<1> SUFFICES ASSUME NEW e \in Events, OwnsKey(e)
             PROVE  Followed(e)'
  BY DEF FirstInv, OwnsKey, SameId
<1>1. /\ Delivered(w, f) /\ UNCHANGED <<repoVars, worker, reconciled>>
      /\ \/ Key(f) \in seen /\ UNCHANGED seen /\ acked' = acked \union {f}
         \/ Key(f) \notin seen /\ seen' = seen \union {Key(f)} /\ UNCHANGED acked
         \/ UNCHANGED <<seen, acked>>
  BY DEF IngestRefused, IngestDuplicate, IngestUnparsable, Seen, MarkSeen
<1>2. Followed(e) /\ (f # e => Key(f) # Key(e))
  BY OwnKeys DEF FirstInv
<1>3. Key(e)' = Key(e) /\ Settled(e)' = Settled(e) /\ UNCHANGED issued
  BY <1>1 DEF Key, Settled, Exists, repoVars
<1>4. CASE f = e
  BY <1>1, <1>2, <1>3, <1>4, DeliveredOnce DEF Followed
<1>5. CASE f # e
  BY <1>1, <1>2, <1>3, <1>5, DeliveredOnce DEF Followed
<1> QED
  BY <1>4, <1>5

\* A delivery that is parsed marks the key, and has compared nothing yet.
LEMMA FirstParsed ==
  ASSUME HookInv, FirstInv, NEW w \in Workers, NEW f \in Events, IngestParsed(w, f)
  PROVE  FirstInv'
<1> SUFFICES ASSUME NEW e \in Events, OwnsKey(e)
             PROVE  Followed(e)'
  BY DEF FirstInv, OwnsKey, SameId
<1>1. PICK r : r = [Idle EXCEPT !.pc = "get", !.event = f]
  OBVIOUS
<1>2. /\ Delivered(w, f) /\ UNCHANGED <<repoVars, acked, reconciled>>
      /\ Key(f) \notin seen /\ seen' = seen \union {Key(f)}
      /\ worker' = [worker EXCEPT ![w] = r]
  BY <1>1 DEF IngestParsed, Seen, MarkSeen
<1>3. r.pc = "get" /\ r.event = f
  BY <1>1 DEF Idle
<1>4. worker'[w] = r /\ \A x \in Workers : x # w => worker'[x] = worker[x]
  BY <1>2 DEF HookInv, HookTypeOK
<1>5. Followed(e) /\ (f # e => Key(f) # Key(e))
  BY OwnKeys DEF FirstInv
<1>6. Key(e)' = Key(e) /\ Settled(e)' = Settled(e) /\ UNCHANGED issued
  BY <1>2 DEF Key, Settled, Exists, repoVars
<1>7. CASE f = e
  BY <1>2, <1>3, <1>4, <1>5, <1>6, <1>7, DeliveredOnce DEF Followed
<1>8. CASE f # e
  BY <1>2, <1>3, <1>4, <1>5, <1>6, <1>8, DeliveredOnce DEF Followed
<1> QED
  BY <1>7, <1>8

\* A delivery that reads the application compares the event with it.
LEMMA FirstCompared ==
  ASSUME VendorProvider # "onfido", HookInv, FirstInv, NEW w \in Workers, IngestGet(w)
  PROVE  FirstInv'
<1> SUFFICES ASSUME NEW e \in Events, OwnsKey(e)
             PROVE  Followed(e)'
  BY DEF FirstInv, OwnsKey, SameId
<1>1. PICK f \in Events : f = worker[w].event
  BY DEF IngestGet, HookInv, WorkersInv
<1>2. /\ UNCHANGED <<repoVars, seen, acked, deliveries>>
      /\ reconciled' = IF Exists(f.app) THEN reconciled \union {f} ELSE reconciled
  BY <1>1 DEF IngestGet, ApplicationID
<1>3. \A x \in Workers : worker'[x].event = worker[x].event
                         /\ (x # w => worker'[x] = worker[x])
  <2>1. worker \in [Workers -> Worker] /\ worker[w] \in Worker
    BY DEF HookInv, HookTypeOK, Worker
  <2>2. PICK r : worker' = [worker EXCEPT ![w] = r] /\ r.event = worker[w].event
    <3>1. CASE \E to, version, from :
                 worker' = [worker EXCEPT ![w] =
                              [worker[w] EXCEPT !.pc = "update", !.to = to,
                                                !.version = version, !.from = from]]
      <4>1. PICK to, version, from, r :
              /\ r = [worker[w] EXCEPT !.pc = "update", !.to = to,
                                       !.version = version, !.from = from]
              /\ worker' = [worker EXCEPT ![w] = r]
        BY <3>1
      <4>2. r.event = worker[w].event
        BY <2>1, <4>1 DEF Worker
      <4> QED
        BY <4>1, <4>2
    <3>2. CASE worker' = [worker EXCEPT ![w] = [worker[w] EXCEPT !.pc = "reply"]]
      <4>1. PICK r : r = [worker[w] EXCEPT !.pc = "reply"]
        OBVIOUS
      <4>2. r.event = worker[w].event
        BY <2>1, <4>1 DEF Worker
      <4> QED
        BY <3>2, <4>1, <4>2, Zenon
    <3> QED
      BY <3>1, <3>2, Zenon DEF IngestGet
  <2> QED
    BY <2>1, <2>2
<1>4. Followed(e) /\ Key(e)' = Key(e) /\ UNCHANGED issued
  BY <1>2 DEF FirstInv, Key, repoVars
<1>5. Settled(e) => Settled(e)'
  BY <1>2 DEF Settled, Exists, repoVars
<1>6. f = e => Settled(e)'
  BY <1>2 DEF Settled, Exists, repoVars
<1>7. \A x \in Workers : worker'[x].event = e /\ worker'[x].pc # "get" =>
        \/ worker[x].event = e /\ worker[x].pc # "get"
        \/ f = e
  BY <1>1, <1>3
<1> QED
  BY <1>2, <1>3, <1>4, <1>5, <1>6, <1>7 DEF Followed

\* The rest of a delivery acknowledges what it has compared.
LEMMA FirstFinished ==
  ASSUME HookInv, FirstInv, StoreMoves, NEW w \in Workers, IngestUpdate(w) \/ IngestReply(w)
  PROVE  FirstInv'
<1> SUFFICES ASSUME NEW e \in Events, OwnsKey(e)
             PROVE  Followed(e)'
  BY DEF FirstInv, OwnsKey, SameId
<1>1. PICK f \in Events : f = worker[w].event
  BY DEF IngestUpdate, IngestReply, HookInv, WorkersInv
<1>2. /\ UNCHANGED <<seen, deliveries, reconciled>> /\ worker[w].pc # "get"
      /\ acked' \subseteq acked \union {f}
  BY <1>1 DEF IngestUpdate, IngestReply
<1>3. \A x \in Workers : worker'[x].event \in {worker[x].event, NoEvent}
                         /\ (x # w => worker'[x] = worker[x])
  <2>1. worker \in [Workers -> Worker] /\ Idle.event = NoEvent
    BY DEF HookInv, HookTypeOK, Worker, Idle
  <2>2. CASE IngestUpdate(w)
    BY <2>1, <2>2 DEF IngestUpdate, Worker
  <2>3. CASE IngestReply(w)
    BY <2>1, <2>3 DEF IngestReply
  <2> QED
    BY <2>2, <2>3
<1>4. Followed(e) /\ Key(e)' = Key(e) /\ issued \subseteq issued' /\ e # NoEvent
      /\ deliveries[e] \in Nat
  BY DeliveriesType, EventsAssumption DEF FirstInv, Key, StoreMoves
<1>5. deliveries[e] = 1 => e.app \in issued \/ e.app = NoApp
  BY <1>4 DEF Followed
<1>6. deliveries[e] = 1 /\ Settled(e) => Settled(e)'
  BY <1>2, <1>5, SettledStays DEF HookInv
<1>7. \A x \in Workers : worker'[x].event = e /\ worker'[x].pc # "get" =>
        worker[x].event = e /\ worker[x].pc # "get"
  BY <1>2, <1>3, <1>4
<1>8. deliveries[e] = 0 => f # e
  BY <1>1, <1>4 DEF Followed
<1>9. deliveries[e] = 1 /\ f = e => Settled(e)
  BY <1>1, <1>2, <1>4 DEF Followed
<1>10. CASE deliveries[e] = 0
  BY <1>2, <1>3, <1>4, <1>8, <1>10 DEF Followed
<1>11. CASE deliveries[e] = 1
  BY <1>2, <1>4, <1>6, <1>7, <1>9, <1>11 DEF Followed
<1>12. CASE deliveries[e] > 1
  BY <1>2, <1>4, <1>12 DEF Followed
<1> QED
  BY <1>4, <1>10, <1>11, <1>12

\* A restart forgets keys and deliveries, and acknowledges nothing.
LEMMA FirstRestarted ==
  ASSUME HookInv, FirstInv, Restart
  PROVE  FirstInv'
<1> SUFFICES ASSUME NEW e \in Events, OwnsKey(e)
             PROVE  Followed(e)'
  BY DEF FirstInv, OwnsKey, SameId
<1>1. /\ UNCHANGED <<repoVars, acked, deliveries, reconciled>> /\ seen' = {}
      /\ \A w \in Workers : worker'[w].event = NoEvent
  BY DEF Restart, Idle
<1>2. Followed(e) /\ Settled(e)' = Settled(e) /\ UNCHANGED issued /\ e # NoEvent
  BY <1>1, EventsAssumption DEF FirstInv, Settled, Exists, repoVars
<1> QED
  BY <1>1, <1>2 DEF Followed

\* Every step of a delivery follows first deliveries.
LEMMA FirstIngest ==
  ASSUME VendorProvider # "onfido", HookInv, FirstInv, NEW w \in Workers, Ingest(w)
  PROVE  FirstInv'
BY FirstTurnedAway, FirstParsed, FirstCompared, FirstFinished, IngestInv DEF Ingest

\* Nothing is delivered at the start.
LEMMA FirstInit ==
  ASSUME HookSpecInit
  PROVE  FirstInv
<1>1. \A e \in Events : /\ deliveries[e] = 0 /\ Key(e) \notin seen /\ e \notin acked
                        /\ \A w \in Workers : worker[w].event # e
  BY EventsAssumption DEF HookSpecInit, HookInit, Idle
<1> QED
  BY <1>1 DEF FirstInv, Followed

\* What follows first deliveries gives the property.
LEMMA FirstSkipsNothing ==
  ASSUME HookInv, FirstInv
  PROVE  SkippedOnlyOnRetry
<1> SUFFICES ASSUME NEW e \in acked, Exists(e.app), OwnsKey(e), deliveries[e] = 1
             PROVE  e \in reconciled
  BY DEF SkippedOnlyOnRetry, OwnsKey
<1>1. Followed(e)
  BY DEF FirstInv, HookInv, HookTypeOK
<1> QED
  BY <1>1 DEF Followed, Settled

\* With an adapter that knows our application ids (the stub's; Onfido's takes
\* its own id for ours), an event with an id of its own that is acknowledged on
\* its first delivery was compared with its application, however that delivery
\* overlaps others, other handlers' writes and restarts.
THEOREM FirstDeliveryCompares ==
  VendorProvider # "onfido" => (HookSpec => []SkippedOnlyOnRetry)
<1> SUFFICES ASSUME VendorProvider # "onfido"
             PROVE  HookSpec => []SkippedOnlyOnRetry
  OBVIOUS
<1>1. HookSpecInit => FirstInv
  BY FirstInit
<1>2. HookInv /\ FirstInv /\ [HookNext]_hookSpecVars => FirstInv'
  <2> SUFFICES ASSUME HookInv, FirstInv, [HookNext]_hookSpecVars
               PROVE  FirstInv'
    OBVIOUS
  <2>1. CASE OtherHandlers
    BY <2>1, FirstAside, OthersMove DEF OtherHandlers
  <2>2. CASE UNCHANGED hookSpecVars
    BY <2>2, FirstAside, SameMoves DEF hookSpecVars
  <2> QED
    BY <2>1, <2>2, FirstIngest, FirstRestarted DEF HookNext
<1>3. HookInv /\ FirstInv => SkippedOnlyOnRetry
  BY FirstSkipsNothing
<1> QED
  BY <1>1, <1>2, <1>3, HookInvariant, PTL DEF HookSpec
=============================================================================
