--------------------------- MODULE PolicyEventSink ---------------------------
(***************************************************************************)
(* Delivery of state transitions to the Policy/Risk Engine                 *)
(* (internal/policy_sink.go): a synchronous POST, a bounded queue for what *)
(* it could not deliver, and one goroutine that drains the queue; behind   *)
(* compositeEventSink, which passes each transition to the audit log when  *)
(* the sink has returned.                                                  *)
(*                                                                         *)
(* A publisher is a goroutine inside RecordTransition: one at a time under *)
(* the mutex of the in-memory repository, several at a time with the       *)
(* database, which calls the sink after the commit.  Events are distinct   *)
(* transitions.  The engine is external: a POST it took may still fail for *)
(* the sender, which then sends the event again.                           *)
(***************************************************************************)
EXTENDS Naturals, Sequences, FiniteSets

CONSTANTS
  Publishers,   \* goroutines that record transitions
  Transitions,  \* the transitions they record
  NoTransition, \* nothing in hand
  QueueCap,     \* capacity of the queue (POLICY_EVENT_QUEUE_CAP)
  MaxAttempts   \* attempts of the drainer for one event (5 in the code)

ASSUME QueueCapAssumption == QueueCap \in Nat \ {0}
ASSUME MaxAttemptsAssumption == MaxAttempts \in Nat \ {0}
ASSUME NoTransitionAssumption == NoTransition \notin Transitions

VARIABLES
  publisher,  \* the calls of RecordTransition in progress
  queue,      \* events waiting for the drainer
  drainer,    \* the goroutine of drain: its step, event and attempt
  stopping,   \* whether the stop channel is closed
  handed,     \* transitions that were given to the sink
  received,   \* external: how often the engine took each event
  dropped,    \* events given up, with a log line
  abandoned,  \* history: the event drain had in hand when it returned
  audited     \* AuditLog: the transitions recorded there

sinkVars ==
  <<publisher, queue, drainer, stopping, handed, received, dropped, abandoned, audited>>

Ready == [pc |-> "idle", event |-> NoTransition]

Waiting == [pc |-> "select", event |-> NoTransition, attempt |-> 0]

\* drain has returned: nothing reads the queue any more.
Gone == [pc |-> "gone", event |-> NoTransition, attempt |-> 0]

SinkInit ==
  /\ publisher = [p \in Publishers |-> Ready]
  /\ queue = <<>>
  /\ drainer = Waiting
  /\ stopping = FALSE
  /\ handed = {}
  /\ received = [e \in Transitions |-> 0]
  /\ dropped = {}
  /\ abandoned = NoTransition
  /\ audited = {}

-----------------------------------------------------------------------------
(* One call of RecordTransition.                                           *)

\* The engine took the event, or did not, whatever the sender learns of it.
Taken(e) == received' = [received EXCEPT ![e] = @ + 1]

RecordTransition(p, e) ==
  /\ publisher[p].pc = "idle"
  /\ e \notin handed
  /\ handed' = handed \union {e}
  /\ publisher' = [publisher EXCEPT ![p] = [pc |-> "post", event |-> e]]
  /\ UNCHANGED <<queue, drainer, stopping, received, dropped, abandoned, audited>>

\* The synchronous POST.
Publish(p) ==
  /\ publisher[p].pc = "post"
  /\ \/ Taken(publisher[p].event) /\ publisher' = [publisher EXCEPT ![p].pc = "audit"]
     \/ /\ Taken(publisher[p].event) \/ UNCHANGED received
        /\ publisher' = [publisher EXCEPT ![p].pc = "enqueue"]
  /\ UNCHANGED <<queue, drainer, stopping, handed, dropped, abandoned, audited>>

\* Mutant: the send on the channel has no default branch.
EnqueueBlocking(p) ==
  /\ publisher[p].pc = "enqueue"
  /\ Len(queue) < QueueCap
  /\ queue' = Append(queue, publisher[p].event)
  /\ publisher' = [publisher EXCEPT ![p].pc = "audit"]
  /\ UNCHANGED <<drainer, stopping, handed, received, dropped, abandoned, audited>>

\* The fallback: onto the queue, or dropped when it is full.
Enqueue(p) ==
  /\ publisher[p].pc = "enqueue"
  /\ \/ /\ Len(queue) < QueueCap
        /\ queue' = Append(queue, publisher[p].event)
        /\ UNCHANGED dropped
     \/ /\ Len(queue) = QueueCap
        /\ dropped' = dropped \union {publisher[p].event}
        /\ UNCHANGED queue
  /\ publisher' = [publisher EXCEPT ![p].pc = "audit"]
  /\ UNCHANGED <<drainer, stopping, handed, received, abandoned, audited>>

\* compositeEventSink: the audit log comes second.
Audit(p) ==
  /\ publisher[p].pc = "audit"
  /\ audited' = audited \union {publisher[p].event}
  /\ publisher' = [publisher EXCEPT ![p] = Ready]
  /\ UNCHANGED <<queue, drainer, stopping, handed, received, dropped, abandoned>>

-----------------------------------------------------------------------------
(* The drainer.  Between two ready cases of a select Go picks either.      *)

\* Mutant: drain only looks at the queue.
DrainQueueOnly ==
  /\ drainer.pc = "select"
  /\ queue # <<>>
  /\ drainer' = [pc |-> "post", event |-> Head(queue), attempt |-> 1]
  /\ queue' = Tail(queue)
  /\ UNCHANGED <<publisher, stopping, handed, received, dropped, abandoned, audited>>

DrainSelect ==
  /\ drainer.pc = "select"
  /\ \/ /\ stopping
        /\ drainer' = Gone
        /\ UNCHANGED queue
     \/ /\ queue # <<>>
        /\ drainer' = [pc |-> "post", event |-> Head(queue), attempt |-> 1]
        /\ queue' = Tail(queue)
  /\ UNCHANGED <<publisher, stopping, handed, received, dropped, abandoned, audited>>

DrainDelivered ==
  /\ drainer.pc = "post"
  /\ Taken(drainer.event)
  /\ drainer' = Waiting
  /\ UNCHANGED <<publisher, queue, stopping, handed, dropped, abandoned, audited>>

\* Mutant: giving up on an event returns from drain.
DrainFailedReturns ==
  /\ drainer.pc = "post"
  /\ Taken(drainer.event) \/ UNCHANGED received
  /\ IF drainer.attempt = MaxAttempts
       THEN /\ dropped' = dropped \union {drainer.event}
            /\ drainer' = Gone
       ELSE drainer' = [drainer EXCEPT !.pc = "backoff"] /\ UNCHANGED dropped
  /\ UNCHANGED <<publisher, queue, stopping, handed, abandoned, audited>>

\* Mutant: one attempt too many.
DrainFailedLate ==
  /\ drainer.pc = "post"
  /\ Taken(drainer.event) \/ UNCHANGED received
  /\ IF drainer.attempt > MaxAttempts
       THEN dropped' = dropped \union {drainer.event} /\ drainer' = Waiting
       ELSE drainer' = [drainer EXCEPT !.pc = "backoff"] /\ UNCHANGED dropped
  /\ UNCHANGED <<publisher, queue, stopping, handed, abandoned, audited>>

DrainFailed ==
  /\ drainer.pc = "post"
  /\ Taken(drainer.event) \/ UNCHANGED received
  /\ IF drainer.attempt = MaxAttempts
       THEN dropped' = dropped \union {drainer.event} /\ drainer' = Waiting
       ELSE drainer' = [drainer EXCEPT !.pc = "backoff"] /\ UNCHANGED dropped
  /\ UNCHANGED <<publisher, queue, stopping, handed, abandoned, audited>>

\* Mutant: the backoff goes on to the next event.
DrainBackoffForgets ==
  /\ drainer.pc = "backoff"
  /\ drainer' = Waiting
  /\ UNCHANGED <<publisher, queue, stopping, handed, received, dropped, abandoned, audited>>

\* Stopped during the backoff, drain returns: the event in hand and whatever
\* is still queued are lost, and no line is logged.
DrainBackoff ==
  /\ drainer.pc = "backoff"
  /\ \/ stopping /\ drainer' = Gone /\ abandoned' = drainer.event
     \/ /\ drainer' = [drainer EXCEPT !.pc = "post", !.attempt = @ + 1]
        /\ UNCHANGED abandoned
  /\ UNCHANGED <<publisher, queue, stopping, handed, received, dropped, audited>>

Drain == DrainSelect \/ DrainDelivered \/ DrainFailed \/ DrainBackoff

\* Stop closes the channel and waits for the drainer.
Stop ==
  /\ ~stopping
  /\ stopping' = TRUE
  /\ UNCHANGED <<publisher, queue, drainer, handed, received, dropped, abandoned, audited>>

-----------------------------------------------------------------------------
PublisherStep(p) == Publish(p) \/ Enqueue(p) \/ Audit(p)

SinkNext ==
  \/ \E p \in Publishers :
       PublisherStep(p) \/ \E e \in Transitions : RecordTransition(p, e)
  \/ Drain
  \/ Stop

SinkSpec == SinkInit /\ [][SinkNext]_sinkVars

\* Every POST ends (both clients have a timeout), and so does every backoff.
FairSinkSpec ==
  /\ SinkSpec
  /\ \A p \in Publishers : WF_sinkVars(PublisherStep(p))
  /\ WF_sinkVars(Drain)

-----------------------------------------------------------------------------
(* Properties.                                                             *)

\* The type of the calls, the channel, the drainer and the two logs.
SinkTypeOK ==
  /\ publisher \in [Publishers ->
       [pc : {"idle", "post", "enqueue", "audit"}, event : Transitions \union {NoTransition}]]
  /\ queue \in Seq(Transitions)
  /\ Len(queue) <= QueueCap
  /\ drainer \in
       [pc : {"select", "post", "backoff", "gone"},
        event : Transitions \union {NoTransition}, attempt : 0 .. MaxAttempts]
  /\ stopping \in BOOLEAN
  /\ handed \subseteq Transitions
  /\ received \in [Transitions -> Nat]
  /\ dropped \subseteq Transitions
  /\ abandoned \in Transitions \union {NoTransition}
  /\ audited \subseteq Transitions

Queued(e) == \E i \in 1 .. Len(queue) : queue[i] = e

\* Somebody still has the event to deliver: a publisher at its POST or at the
\* queue, or a drainer that runs, with it in hand or on the queue before it.
Held(e) ==
  \/ \E p \in Publishers : publisher[p].event = e /\ publisher[p].pc \in {"post", "enqueue"}
  \/ drainer.pc # "gone" /\ (drainer.event = e \/ Queued(e))

\* Neither received, nor given up with a log line, nor anybody's to deliver.
Lost == {e \in handed : received[e] = 0 /\ e \notin dropped /\ ~Held(e)}

\* publish, drain and Stop hand an event from one to the other without any
\* record of it.  No error path forgets one while the drainer runs: an event
\* vanishes without a log line only when drain has returned on Stop, which
\* costs no more than the event in its hand and a full queue (what publishers
\* put there afterwards included).
OnlyStopLosesEvents ==
  /\ Lost # {} => stopping /\ drainer.pc = "gone"
  /\ Cardinality(Lost) <= QueueCap + 1

\* An error after delivery makes the sender repeat itself, first in publish
\* and then in drain: the engine sees one event at most once per attempt of
\* each, however the errors fall.
RepeatsBounded == \A e \in Transitions : received[e] <= 1 + MaxAttempts

\* "non-blocking; drop if full": RecordTransition returns whatever state the
\* engine, the queue and the drainer are in, so the audit log gets every
\* transition (and the repository, which calls the sink with its mutex held,
\* is released).
EveryTransitionAudited == \A e \in Transitions : (e \in handed) ~> (e \in audited)

\* "drained by a background worker with retry": an event on the queue is
\* delivered or given up, even when every other POST fails, unless Stop comes.
QueuedIsSettled ==
  \A e \in Transitions : Queued(e) ~> (received[e] > 0 \/ e \in dropped \/ stopping)

\* Stop waits for the drainer, which leaves its loop from wherever it is.
StopReturns == stopping ~> (drainer.pc = "gone")

-----------------------------------------------------------------------------
(* What documentation and comments say and the code does not do.           *)

\* Stop's comment: it shuts down the drainer, "flushing queued events
\* best-effort".  So nothing is lost without a log line, with Stop either.
StopFlushes == Lost = {}
=============================================================================
