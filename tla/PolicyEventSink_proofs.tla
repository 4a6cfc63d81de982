----------------------- MODULE PolicyEventSink_proofs -----------------------
(***************************************************************************)
(* Theorems about PolicyEventSink: the types, that only a drainer stopped  *)
(* by Stop loses events without a trace, and how many, and that no event   *)
(* is repeated without bound, for any number of publishers, any queue      *)
(* capacity and any number of attempts.                                    *)
(***************************************************************************)
EXTENDS PolicyEventSink, SequenceTheorems, FiniteSetTheorems, TLAPS

(* What ties the step of a goroutine to what it holds: OnlyStopLosesEvents *)
(* is not inductive without it, because DrainSelect overwrites the event   *)
(* in the drainer's hand.                                                  *)
PublishersOK ==
  /\ publisher \in [Publishers ->
       [pc : {"idle", "post", "enqueue", "audit"}, event : Transitions \union {NoTransition}]]
  /\ \A p \in Publishers : publisher[p].pc # "idle" => publisher[p].event \in Transitions

QueueOK == queue \in Seq(Transitions) /\ Len(queue) <= QueueCap

Step(d) ==
  \/ d.pc = "select" /\ d.event = NoTransition
  \/ d.pc = "post" /\ d.event \in Transitions /\ d.attempt \in 1 .. MaxAttempts
  \/ d.pc = "backoff" /\ d.event \in Transitions /\ d.attempt \in 1 .. (MaxAttempts - 1)
  \/ d.pc = "gone" /\ d.event = NoTransition

\* The drainer's record, and why it returned: only Stop makes it.
DrainerOK ==
  /\ drainer \in
       [pc : {"select", "post", "backoff", "gone"},
        event : Transitions \union {NoTransition}, attempt : 0 .. MaxAttempts]
  /\ Step(drainer)
  /\ drainer.pc = "gone" => stopping
  /\ drainer.pc # "gone" => abandoned = NoTransition

RecordsOK ==
  /\ stopping \in BOOLEAN
  /\ handed \subseteq Transitions
  /\ received \in [Transitions -> Nat]
  /\ dropped \subseteq Transitions
  /\ abandoned \in Transitions \union {NoTransition}
  /\ audited \subseteq Transitions

SinkInv == PublishersOK /\ QueueOK /\ DrainerOK /\ RecordsOK

\* SinkInv holds of the empty sink, its drainer waiting.
LEMMA SinkInvInit == SinkInit => SinkInv
<1> SUFFICES ASSUME SinkInit
             PROVE  SinkInv
  OBVIOUS
<1>1. PublishersOK
  BY DEF SinkInit, PublishersOK, Ready
<1>2. QueueOK
  BY QueueCapAssumption DEF SinkInit, QueueOK
<1>3. DrainerOK
  BY MaxAttemptsAssumption DEF SinkInit, DrainerOK, Waiting, Step
<1>4. RecordsOK
  BY DEF SinkInit, RecordsOK
<1> QED
  BY <1>1, <1>2, <1>3, <1>4 DEF SinkInv

\* A publisher moves on with its event, or lets go of it.
LEMMA PublisherMoves ==
  ASSUME PublishersOK, NEW p \in Publishers, NEW next \in {"post", "enqueue", "audit"},
         publisher[p].pc # "idle", publisher' = [publisher EXCEPT ![p].pc = next]
  PROVE  PublishersOK'
  BY DEF PublishersOK

\* A POST the engine took counts for its event, and uncounts no other.
LEMMA EventTaken ==
  ASSUME received \in [Transitions -> Nat], NEW e \in Transitions, Taken(e)
  PROVE  /\ received' \in [Transitions -> Nat]
         /\ received'[e] > 0
         /\ \A f \in Transitions : received[f] > 0 => received'[f] > 0
  BY DEF Taken

\* After a backoff the drainer is gone or at its next attempt, within the cap.
LEMMA BackoffEnds == ASSUME DrainerOK, DrainBackoff PROVE DrainerOK'
<1>1. /\ drainer.attempt \in 1 .. (MaxAttempts - 1)
      /\ drainer.attempt + 1 \in 1 .. MaxAttempts
      /\ drainer.event \in Transitions
  BY MaxAttemptsAssumption DEF DrainBackoff, DrainerOK, Step
<1>2. CASE stopping /\ drainer' = Gone
  BY <1>2, MaxAttemptsAssumption DEF DrainBackoff, DrainerOK, Step, Gone
<1>3. CASE drainer' = [drainer EXCEPT !.pc = "post", !.attempt = @ + 1] /\ UNCHANGED abandoned
  <2>1. 1 .. MaxAttempts \subseteq 0 .. MaxAttempts
    BY MaxAttemptsAssumption
  <2>2. /\ drainer'.pc = "post"
        /\ drainer'.event = drainer.event
        /\ drainer'.attempt = drainer.attempt + 1
    BY <1>3 DEF DrainerOK
  <2>3. drainer' = [pc |-> "post", event |-> drainer.event, attempt |-> drainer.attempt + 1]
    BY <1>3 DEF DrainerOK
  <2> QED
    BY <1>1, <1>3, <2>1, <2>2, <2>3 DEF DrainerOK, Step, DrainBackoff
<1> QED
  BY <1>2, <1>3 DEF DrainBackoff

\* What DrainSelect takes from the queue, and what it leaves there.
LEMMA TailFits ==
  ASSUME QueueOK, queue # <<>>
  PROVE  /\ Head(queue) \in Transitions
         /\ Tail(queue) \in Seq(Transitions)
         /\ Len(Tail(queue)) <= QueueCap
<1>1. queue \in Seq(Transitions) /\ Len(queue) \in Nat /\ Len(queue) <= QueueCap
  BY DEF QueueOK
<1>2. Head(queue) \in Transitions /\ Tail(queue) \in Seq(Transitions)
      /\ Len(Tail(queue)) = Len(queue) - 1
  BY <1>1, HeadTailProperties
<1>3. Len(Tail(queue)) <= QueueCap
  BY <1>1, <1>2, QueueCapAssumption
<1> QED
  BY <1>2, <1>3

\* Whether the drainer takes an event or not, the queue stays within its capacity.
LEMMA QueueMoves ==
  ASSUME QueueOK, queue' = queue \/ (queue # <<>> /\ queue' = Tail(queue))
  PROVE  QueueOK'
<1>1. CASE queue' = queue
  BY <1>1 DEF QueueOK
<1>2. CASE queue # <<>> /\ queue' = Tail(queue)
  BY <1>2, TailFits DEF QueueOK
<1> QED
  BY <1>1, <1>2

\* Every step of publishers, drainer and Stop keeps SinkInv.
LEMMA SinkInvStep == SinkInv /\ [SinkNext]_sinkVars => SinkInv'
<1> SUFFICES ASSUME SinkInv, [SinkNext]_sinkVars
             PROVE  SinkInv'
  OBVIOUS
<1>0. PublishersOK /\ QueueOK /\ DrainerOK /\ RecordsOK
  BY DEF SinkInv
<1>1. ASSUME NEW p \in Publishers, NEW e \in Transitions, RecordTransition(p, e)
      PROVE  SinkInv'
  <2>1. PublishersOK'
    BY <1>0, <1>1 DEF RecordTransition, PublishersOK
  <2>2. QueueOK'
    BY <1>0, <1>1 DEF RecordTransition, QueueOK
  <2>3. DrainerOK'
    BY <1>0, <1>1 DEF RecordTransition, DrainerOK
  <2>4. RecordsOK'
    BY <1>0, <1>1 DEF RecordTransition, RecordsOK
  <2> QED
    BY <2>1, <2>2, <2>3, <2>4 DEF SinkInv
<1>2. ASSUME NEW p \in Publishers, Publish(p)
      PROVE  SinkInv'
  <2>1. PublishersOK'
    BY <1>0, <1>2, PublisherMoves DEF Publish
  <2>2. QueueOK'
    BY <1>0, <1>2 DEF Publish, QueueOK
  <2>3. DrainerOK'
    BY <1>0, <1>2 DEF Publish, DrainerOK
  <2>4. RecordsOK'
    BY <1>0, <1>2, EventTaken DEF Publish, RecordsOK, PublishersOK
  <2> QED
    BY <2>1, <2>2, <2>3, <2>4 DEF SinkInv
<1>3. ASSUME NEW p \in Publishers, Enqueue(p)
      PROVE  SinkInv'
  <2>1. PublishersOK'
    BY <1>0, <1>3, PublisherMoves DEF Enqueue
  <2>2. QueueOK'
    BY <1>0, <1>3, QueueCapAssumption DEF Enqueue, QueueOK, PublishersOK
  <2>3. DrainerOK'
    BY <1>0, <1>3 DEF Enqueue, DrainerOK
  <2>4. RecordsOK'
    BY <1>0, <1>3 DEF Enqueue, RecordsOK, PublishersOK
  <2> QED
    BY <2>1, <2>2, <2>3, <2>4 DEF SinkInv
<1>4. ASSUME NEW p \in Publishers, Audit(p)
      PROVE  SinkInv'
  <2>1. PublishersOK'
    BY <1>0, <1>4 DEF Audit, PublishersOK, Ready
  <2>2. QueueOK'
    BY <1>0, <1>4 DEF Audit, QueueOK
  <2>3. DrainerOK'
    BY <1>0, <1>4 DEF Audit, DrainerOK
  <2>4. RecordsOK'
    BY <1>0, <1>4 DEF Audit, RecordsOK, PublishersOK
  <2> QED
    BY <2>1, <2>2, <2>3, <2>4 DEF SinkInv
<1>5. CASE DrainSelect
  <2>1. PublishersOK'
    BY <1>0, <1>5 DEF DrainSelect, PublishersOK
  <2>2. QueueOK'
    BY <1>0, <1>5, QueueMoves DEF DrainSelect
  <2>3. DrainerOK'
    BY <1>0, <1>5, TailFits, MaxAttemptsAssumption
       DEF DrainSelect, DrainerOK, Step, Gone
  <2>4. RecordsOK'
    BY <1>0, <1>5 DEF DrainSelect, RecordsOK
  <2> QED
    BY <2>1, <2>2, <2>3, <2>4 DEF SinkInv
<1>6. CASE DrainDelivered
  <2>1. PublishersOK'
    BY <1>0, <1>6 DEF DrainDelivered, PublishersOK
  <2>2. QueueOK'
    BY <1>0, <1>6 DEF DrainDelivered, QueueOK
  <2>3. DrainerOK'
    BY <1>0, <1>6, MaxAttemptsAssumption DEF DrainDelivered, DrainerOK, Step, Waiting
  <2>4. RecordsOK'
    BY <1>0, <1>6, EventTaken DEF DrainDelivered, RecordsOK, DrainerOK, Step
  <2> QED
    BY <2>1, <2>2, <2>3, <2>4 DEF SinkInv
<1>7. CASE DrainFailed
  <2>1. PublishersOK'
    BY <1>0, <1>7 DEF DrainFailed, PublishersOK
  <2>2. QueueOK'
    BY <1>0, <1>7 DEF DrainFailed, QueueOK
  <2>3. DrainerOK'
    BY <1>0, <1>7, MaxAttemptsAssumption DEF DrainFailed, DrainerOK, Step, Waiting
  <2>4. RecordsOK'
    BY <1>0, <1>7, EventTaken DEF DrainFailed, RecordsOK, DrainerOK, Step
  <2> QED
    BY <2>1, <2>2, <2>3, <2>4 DEF SinkInv
<1>8. CASE DrainBackoff
  <2>1. PublishersOK'
    BY <1>0, <1>8 DEF DrainBackoff, PublishersOK
  <2>2. QueueOK'
    BY <1>0, <1>8 DEF DrainBackoff, QueueOK
  <2>3. DrainerOK'
    BY <1>0, <1>8, BackoffEnds
  <2>4. RecordsOK'
    BY <1>0, <1>8 DEF DrainBackoff, RecordsOK, DrainerOK
  <2> QED
    BY <2>1, <2>2, <2>3, <2>4 DEF SinkInv
<1>9. CASE Stop
  BY <1>0, <1>9 DEF Stop, SinkInv, PublishersOK, QueueOK, DrainerOK, RecordsOK
<1>10. CASE UNCHANGED sinkVars
  BY <1>0, <1>10 DEF sinkVars, SinkInv, PublishersOK, QueueOK, DrainerOK, RecordsOK
<1> QED
  BY <1>1, <1>2, <1>3, <1>4, <1>5, <1>6, <1>7, <1>8, <1>9, <1>10
  DEF SinkNext, PublisherStep, Drain

\* Every reachable state of the sink (policy_sink.go) is well typed, its queue
\* within QueueCap and its drainer within MaxAttempts.
THEOREM SinkTypeCorrect == SinkSpec => []SinkTypeOK
<1>1. SinkInit => SinkInv
  BY SinkInvInit
<1>2. SinkInv /\ [SinkNext]_sinkVars => SinkInv'
  BY SinkInvStep
<1>3. SinkInv => SinkTypeOK
  BY DEF SinkInv, SinkTypeOK, PublishersOK, QueueOK, DrainerOK, RecordsOK
<1> QED
  BY <1>1, <1>2, <1>3, PTL DEF SinkSpec

-----------------------------------------------------------------------------
(* Only Stop loses events without a trace.                                 *)

\* Where an event handed to the sink can be, the drainer's leftovers included.
Kept(e) ==
  \/ \E p \in Publishers : publisher[p].event = e /\ publisher[p].pc \in {"post", "enqueue"}
  \/ received[e] > 0
  \/ Queued(e)
  \/ drainer.event = e
  \/ e \in dropped
  \/ abandoned = e

\* An event that is somewhere stays somewhere, whoever takes a step.
LEMMA KeptStep ==
  ASSUME SinkInv, [SinkNext]_sinkVars, NEW e \in Transitions, Kept(e)
  PROVE  Kept(e)'
<1>0. PublishersOK /\ QueueOK /\ DrainerOK /\ RecordsOK
  BY DEF SinkInv
<1>1. ASSUME NEW p \in Publishers, NEW f \in Transitions, RecordTransition(p, f)
      PROVE  Kept(e)'
  BY <1>0, <1>1 DEF RecordTransition, Kept, Queued, PublishersOK
<1>2. ASSUME NEW p \in Publishers, Publish(p)
      PROVE  Kept(e)'
  <2>1. CASE publisher[p].event = e
    <3>1. CASE Taken(e)
      BY <1>0, <3>1, EventTaken DEF Kept, RecordsOK
    <3>2. CASE publisher' = [publisher EXCEPT ![p].pc = "enqueue"]
      BY <1>0, <2>1, <3>2 DEF Kept, PublishersOK
    <3> QED
      BY <1>2, <2>1, <3>1, <3>2 DEF Publish
  <2>2. CASE publisher[p].event # e
    <3>1. received[e] > 0 => received'[e] > 0
      BY <1>0, <1>2, EventTaken DEF Publish, PublishersOK, RecordsOK
    <3>2. \A q \in Publishers :
            (publisher[q].event = e /\ publisher[q].pc \in {"post", "enqueue"}) =>
              (publisher'[q].event = e /\ publisher'[q].pc \in {"post", "enqueue"})
      BY <1>0, <1>2, <2>2 DEF Publish, PublishersOK
    <3> QED
      BY <1>2, <3>1, <3>2 DEF Publish, Kept, Queued
  <2> QED
    BY <2>1, <2>2
<1>3. ASSUME NEW p \in Publishers, Enqueue(p)
      PROVE  Kept(e)'
  <2>1. CASE publisher[p].event = e
    <3>1. CASE queue' = Append(queue, e)
      <4>1. queue'[Len(queue) + 1] = e /\ Len(queue) + 1 \in 1 .. Len(queue')
        BY <1>0, <3>1 DEF QueueOK
      <4> QED
        BY <4>1 DEF Kept, Queued
    <3>2. CASE dropped' = dropped \union {e}
      BY <3>2 DEF Kept
    <3> QED
      BY <1>3, <2>1, <3>1, <3>2 DEF Enqueue
  <2>2. CASE publisher[p].event # e
    <3>1. Queued(e) => Queued(e)'
      BY <1>0, <1>3 DEF Enqueue, Queued, QueueOK, PublishersOK
    <3>2. e \in dropped => e \in dropped'
      BY <1>3 DEF Enqueue
    <3>3. \A q \in Publishers :
            (publisher[q].event = e /\ publisher[q].pc \in {"post", "enqueue"}) =>
              (publisher'[q].event = e /\ publisher'[q].pc \in {"post", "enqueue"})
      BY <1>0, <1>3, <2>2 DEF Enqueue, PublishersOK
    <3> QED
      BY <1>3, <3>1, <3>2, <3>3 DEF Enqueue, Kept
  <2> QED
    BY <2>1, <2>2
<1>4. ASSUME NEW p \in Publishers, Audit(p)
      PROVE  Kept(e)'
  BY <1>0, <1>4 DEF Audit, Ready, Kept, Queued, PublishersOK
<1>5. CASE DrainSelect
  <2>1. CASE queue' = queue /\ drainer' = Gone
    BY <1>0, <1>5, <2>1, NoTransitionAssumption DEF DrainSelect, Kept, Queued, DrainerOK, Step
  <2>2. CASE /\ queue # <<>> /\ queue' = Tail(queue)
             /\ drainer' = [pc |-> "post", event |-> Head(queue), attempt |-> 1]
    <3>1. drainer.event # e
      BY <1>0, <1>5, NoTransitionAssumption DEF DrainSelect, DrainerOK, Step
    <3>2. ASSUME Queued(e)
          PROVE  Queued(e)' \/ drainer'.event = e
      <4>1. PICK i \in 1 .. Len(queue) : queue[i] = e
        BY <3>2 DEF Queued
      <4>2. CASE i = 1
        BY <2>2, <4>1, <4>2 DEF QueueOK
      <4>3. CASE i # 1
        <5>1. /\ Len(Tail(queue)) = Len(queue) - 1
              /\ \A j \in 1 .. Len(Tail(queue)) : Tail(queue)[j] = queue[j + 1]
          BY <1>0, <2>2, HeadTailProperties DEF QueueOK
        <5>2. i - 1 \in 1 .. Len(Tail(queue)) /\ (i - 1) + 1 = i
          BY <1>0, <4>3, <5>1 DEF QueueOK
        <5>3. Tail(queue)[i - 1] = e
          BY <4>1, <5>1, <5>2
        <5> QED
          BY <2>2, <5>2, <5>3 DEF Queued
      <4> QED
        BY <4>2, <4>3
    <3> QED
      BY <1>5, <2>2, <3>1, <3>2 DEF DrainSelect, Kept
  <2> QED
    BY <1>5, <2>1, <2>2 DEF DrainSelect
<1>6. CASE DrainDelivered
  <2>1. drainer.event \in Transitions
    BY <1>0, <1>6 DEF DrainDelivered, DrainerOK, Step
  <2>2. received'[drainer.event] > 0 /\ (received[e] > 0 => received'[e] > 0)
    BY <1>0, <1>6, <2>1, EventTaken DEF DrainDelivered, RecordsOK
  <2> QED
    BY <1>6, <2>2 DEF DrainDelivered, Kept, Queued
<1>7. CASE DrainFailed
  <2>1. drainer.event \in Transitions
    BY <1>0, <1>7 DEF DrainFailed, DrainerOK, Step
  <2>2. received[e] > 0 => received'[e] > 0
    BY <1>0, <1>7, <2>1, EventTaken DEF DrainFailed, RecordsOK
  <2>3. drainer.event = e => drainer'.event = e \/ e \in dropped'
    BY <1>0, <1>7 DEF DrainFailed, DrainerOK
  <2>4. e \in dropped => e \in dropped'
    BY <1>7 DEF DrainFailed
  <2> QED
    BY <1>7, <2>2, <2>3, <2>4 DEF DrainFailed, Kept, Queued
<1>8. CASE DrainBackoff
  <2>1. drainer.event = e => drainer'.event = e \/ abandoned' = e
    BY <1>0, <1>8 DEF DrainBackoff, DrainerOK
  <2>2. abandoned # e
    BY <1>0, <1>8, NoTransitionAssumption DEF DrainBackoff, DrainerOK
  <2> QED
    BY <1>8, <2>1, <2>2 DEF DrainBackoff, Kept, Queued
<1>9. CASE Stop
  BY <1>9 DEF Stop, Kept, Queued
<1>10. CASE UNCHANGED sinkVars
  BY <1>10 DEF sinkVars, Kept, Queued
<1> QED
  BY <1>1, <1>2, <1>3, <1>4, <1>5, <1>6, <1>7, <1>8, <1>9, <1>10
  DEF SinkNext, PublisherStep, Drain

\* A transition enters the sink with its publisher at the POST.
LEMMA HandedIsKept ==
  ASSUME SinkInv, [SinkNext]_sinkVars, NEW e \in handed', e \notin handed
  PROVE  Kept(e)'
<1>1. PICK p \in Publishers : RecordTransition(p, e)
  BY DEF SinkNext, PublisherStep, Drain, RecordTransition, Publish, Enqueue, Audit,
         DrainSelect, DrainDelivered, DrainFailed, DrainBackoff, Stop, sinkVars
<1> QED
  BY <1>1 DEF RecordTransition, Kept, SinkInv, PublishersOK

\* What a queue of some length holds is not more than its length.
LEMMA QueueContents ==
  ASSUME QueueOK
  PROVE  LET S == {queue[i] : i \in 1 .. Len(queue)}
         IN  IsFiniteSet(S) /\ Cardinality(S) \in Nat /\ Cardinality(S) <= QueueCap
<1> DEFINE I == 1 .. Len(queue)
           S == {queue[i] : i \in I}
<1>1. Len(queue) \in Nat /\ Len(queue) <= QueueCap
  BY DEF QueueOK
<1>2. IsFiniteSet(I) /\ Cardinality(I) = Len(queue)
  BY <1>1, FS_Interval
<1>3. IsFiniteSet(S) /\ Cardinality(S) <= Cardinality(I)
  <2> DEFINE f == [i \in I |-> queue[i]]
  <2>1. f \in Surjection(I, S)
    BY DEF Surjection
  <2> QED
    BY <1>2, <2>1, FS_Surjection
<1>4. Cardinality(S) \in Nat
  BY <1>3, FS_CardinalityType
<1> QED
  BY <1>1, <1>2, <1>3, <1>4, QueueCapAssumption

\* What is lost was in the hand of the drainer that returned, or is queued.
LEMMA LostIsLeftBehind ==
  ASSUME SinkInv, \A e \in handed : Kept(e)
  PROVE  /\ Lost # {} => stopping /\ drainer.pc = "gone"
         /\ Lost \subseteq {queue[i] : i \in 1 .. Len(queue)} \union {abandoned}
<1>1. ASSUME NEW e \in Lost
      PROVE  /\ stopping /\ drainer.pc = "gone"
             /\ e \in {queue[i] : i \in 1 .. Len(queue)} \union {abandoned}
  <2>1. /\ e \in Transitions /\ Kept(e) /\ ~Held(e)
        /\ ~(received[e] > 0) /\ e \notin dropped
    BY DEF Lost, SinkInv, RecordsOK
  <2>2. \A p \in Publishers :
          ~(publisher[p].event = e /\ publisher[p].pc \in {"post", "enqueue"})
    BY <2>1 DEF Held
  <2>3. drainer.pc = "gone" => drainer.event # e
    BY <2>1, NoTransitionAssumption DEF SinkInv, DrainerOK, Step
  <2>4. Queued(e) \/ abandoned = e
    BY <2>1, <2>2, <2>3 DEF Kept, Held
  <2>5. drainer.pc = "gone"
    BY <2>1, <2>4, NoTransitionAssumption DEF Held, SinkInv, DrainerOK
  <2> QED
    BY <2>4, <2>5 DEF Queued, SinkInv, DrainerOK
<1> QED
  BY <1>1

\* publish, drain and Stop together forget no event while the drainer runs; a
\* drainer that returns on Stop (policy_sink.go:148-150, 168-170) loses the one
\* in its hand and a queue's worth without a log line, and never more.
THEOREM LossNeedsStop == SinkSpec => []OnlyStopLosesEvents
<1> DEFINE Inv == SinkInv /\ \A e \in handed : Kept(e)
<1>1. SinkInit => Inv
  BY SinkInvInit DEF SinkInit
<1>2. Inv /\ [SinkNext]_sinkVars => Inv'
  <2> SUFFICES ASSUME Inv, [SinkNext]_sinkVars
               PROVE  Inv'
    OBVIOUS
  <2>1. SinkInv'
    BY SinkInvStep
  <2>2. ASSUME NEW e \in handed'
        PROVE  Kept(e)'
    <3>1. CASE e \in handed
      BY <3>1, KeptStep DEF SinkInv, RecordsOK
    <3>2. CASE e \notin handed
      BY <3>2, <2>2, HandedIsKept
    <3> QED
      BY <3>1, <3>2
  <2> QED
    BY <2>1, <2>2
<1>3. Inv => OnlyStopLosesEvents
  <2> SUFFICES ASSUME Inv
               PROVE  OnlyStopLosesEvents
    OBVIOUS
  <2> DEFINE S == {queue[i] : i \in 1 .. Len(queue)}
  <2>1. IsFiniteSet(S) /\ Cardinality(S) \in Nat /\ Cardinality(S) <= QueueCap
    BY QueueContents DEF SinkInv
  <2>2. /\ Lost # {} => stopping /\ drainer.pc = "gone"
        /\ Lost \subseteq S \union {abandoned}
    BY LostIsLeftBehind
  <2> HIDE DEF S
  <2>3. /\ IsFiniteSet(S \union {abandoned})
        /\ Cardinality(S \union {abandoned}) \in Nat
        /\ Cardinality(S \union {abandoned}) <= Cardinality(S) + 1
    <3>1. IsFiniteSet(S \union {abandoned})
      BY <2>1, FS_AddElement
    <3>2. Cardinality(S \union {abandoned}) \in {Cardinality(S), Cardinality(S) + 1}
      BY <2>1, FS_AddElement
    <3> QED
      BY <2>1, <3>1, <3>2
  <2>4. IsFiniteSet(Lost) /\ Cardinality(Lost) <= Cardinality(S \union {abandoned})
    BY <2>2, <2>3, FS_Subset
  <2>5. Cardinality(Lost) \in Nat
    BY <2>4, FS_CardinalityType
  <2>6. Cardinality(Lost) <= QueueCap + 1
    BY <2>1, <2>3, <2>4, <2>5, QueueCapAssumption
  <2> QED
    BY <2>2, <2>6 DEF OnlyStopLosesEvents
<1> QED
  BY <1>1, <1>2, <1>3, PTL DEF SinkSpec

-----------------------------------------------------------------------------
(* No event is repeated without bound.                                     *)

Holds(p, e) == publisher[p].event = e /\ publisher[p].pc \in {"post", "enqueue"}

\* An event is in one place at a time, from its publisher to the queue to the
\* drainer, and has cost the engine no more than the attempts made so far.
OneLife(e) ==
  /\ e \notin handed =>
       received[e] = 0 /\ ~Queued(e) /\ drainer.event # e /\ \A p \in Publishers : ~Holds(p, e)
  /\ \A p, q \in Publishers : Holds(p, e) /\ Holds(q, e) => p = q
  /\ \A p \in Publishers : Holds(p, e) =>
       /\ ~Queued(e) /\ drainer.event # e /\ received[e] <= 1
       /\ publisher[p].pc = "post" => received[e] = 0
  /\ Queued(e) => drainer.event # e /\ received[e] <= 1
  /\ \A i, j \in 1 .. Len(queue) : queue[i] = e /\ queue[j] = e => i = j
  /\ drainer.event = e =>
       /\ drainer.pc = "post" => received[e] <= drainer.attempt
       /\ drainer.pc = "backoff" => received[e] <= drainer.attempt + 1
  /\ received[e] <= 1 + MaxAttempts

\* A POST counts at most one for its event, and nothing for the others.
LEMMA PostCounts ==
  ASSUME received \in [Transitions -> Nat], NEW f \in Transitions,
         Taken(f) \/ UNCHANGED received, NEW e \in Transitions
  PROVE  /\ received'[e] \in Nat /\ received[e] \in Nat
         /\ received'[e] <= received[e] + 1
         /\ e # f => received'[e] = received[e]
BY DEF Taken

\* Where a publisher that moves on holds its event, and where the others do.
LEMMA HoldersAfter ==
  ASSUME PublishersOK, NEW p \in Publishers, NEW next \in {"enqueue", "audit"},
         publisher' = [publisher EXCEPT ![p].pc = next], NEW e
  PROVE  /\ Holds(p, e)' <=> (publisher[p].event = e /\ next = "enqueue")
         /\ publisher'[p].pc = next
         /\ \A q \in Publishers : q # p => publisher'[q] = publisher[q]
         /\ \A q \in Publishers : q # p => (Holds(q, e)' <=> Holds(q, e))
<1>1. publisher \in [Publishers ->
        [pc : {"idle", "post", "enqueue", "audit"}, event : Transitions \union {NoTransition}]]
  BY DEF PublishersOK
<1>2. publisher'[p].pc = next /\ publisher'[p].event = publisher[p].event
  BY <1>1
<1>3. \A q \in Publishers : q # p => publisher'[q] = publisher[q]
  BY <1>1
<1> QED
  BY <1>2, <1>3 DEF Holds

\* A new call is the only place of its event.
LEMMA OneLifeRecord ==
  ASSUME SinkInv, NEW e \in Transitions, OneLife(e),
         NEW p \in Publishers, NEW f \in Transitions, RecordTransition(p, f)
  PROVE  OneLife(e)'
<1>1. /\ UNCHANGED <<queue, drainer, received>> /\ handed' = handed \union {f} /\ f \notin handed
      /\ publisher[p].pc = "idle"
      /\ publisher' = [publisher EXCEPT ![p] = [pc |-> "post", event |-> f]]
  BY DEF RecordTransition
<1>2. /\ publisher'[p] = [pc |-> "post", event |-> f]
      /\ \A q \in Publishers : q # p => publisher'[q] = publisher[q]
  BY <1>1 DEF SinkInv, PublishersOK
<1>3. /\ \A q \in Publishers : q # p => (Holds(q, e)' <=> Holds(q, e))
      /\ Holds(p, e)' <=> e = f
  BY <1>2 DEF Holds
<1>4. Queued(e)' <=> Queued(e)
  BY <1>1 DEF Queued
<1>5. received[e] \in Nat
  BY DEF SinkInv, RecordsOK
<1>6. CASE e = f
  BY <1>1, <1>2, <1>3, <1>4, <1>5, <1>6 DEF OneLife
<1>7. CASE e # f
  <2>1. ~Holds(p, e) /\ ~Holds(p, e)'
    BY <1>1, <1>3, <1>7 DEF Holds
  <2> QED
    BY <1>1, <1>2, <1>3, <1>4, <1>5, <1>7, <2>1 DEF OneLife
<1> QED
  BY <1>6, <1>7

\* The synchronous POST is the first attempt.
LEMMA OneLifePublish ==
  ASSUME SinkInv, NEW e \in Transitions, OneLife(e), NEW p \in Publishers, Publish(p)
  PROVE  OneLife(e)'
<1>1. /\ UNCHANGED <<queue, drainer, handed>> /\ publisher[p].pc = "post"
      /\ publisher[p].event \in Transitions
      /\ Taken(publisher[p].event) \/ UNCHANGED received
  BY DEF Publish, SinkInv, PublishersOK
<1>2. PICK next \in {"enqueue", "audit"} : publisher' = [publisher EXCEPT ![p].pc = next]
  BY DEF Publish
<1>3. /\ Holds(p, e)' => publisher[p].event = e
      /\ publisher'[p].pc # "post"
      /\ \A q \in Publishers : q # p => publisher'[q] = publisher[q]
      /\ \A q \in Publishers : q # p => (Holds(q, e)' <=> Holds(q, e))
  BY <1>2, HoldersAfter DEF SinkInv
<1>4. /\ received'[e] \in Nat /\ received[e] \in Nat /\ received'[e] <= received[e] + 1
      /\ e # publisher[p].event => received'[e] = received[e]
  <2>1. PICK f \in Transitions : f = publisher[p].event
    BY <1>1
  <2>2. Taken(f) \/ UNCHANGED received
    BY <1>1, <2>1
  <2> QED
    BY <2>1, <2>2, PostCounts DEF SinkInv, RecordsOK
<1>5. Queued(e)' <=> Queued(e)
  BY <1>1 DEF Queued
<1>6. Holds(p, e) <=> publisher[p].event = e
  BY <1>1 DEF Holds
<1>7. CASE publisher[p].event = e
  BY <1>1, <1>3, <1>4, <1>5, <1>6, <1>7, MaxAttemptsAssumption DEF OneLife
<1>8. CASE publisher[p].event # e
  BY <1>1, <1>3, <1>4, <1>5, <1>6, <1>8 DEF OneLife
<1> QED
  BY <1>7, <1>8

\* The fallback moves the event from its publisher to the queue, or drops it.
LEMMA OneLifeEnqueue ==
  ASSUME SinkInv, NEW e \in Transitions, OneLife(e), NEW p \in Publishers, Enqueue(p)
  PROVE  OneLife(e)'
<1>1. /\ UNCHANGED <<drainer, handed, received>> /\ publisher[p].pc = "enqueue"
      /\ publisher' = [publisher EXCEPT ![p].pc = "audit"]
      /\ queue \in Seq(Transitions) /\ publisher[p].event \in Transitions
      /\ queue' = queue \/ queue' = Append(queue, publisher[p].event)
  BY DEF Enqueue, SinkInv, QueueOK, PublishersOK
<1>2. /\ ~Holds(p, e)'
      /\ publisher'[p].pc # "post"
      /\ \A q \in Publishers : q # p => publisher'[q] = publisher[q]
      /\ \A q \in Publishers : q # p => (Holds(q, e)' <=> Holds(q, e))
  BY <1>1, HoldersAfter DEF SinkInv
<1>3. Holds(p, e) <=> publisher[p].event = e
  BY <1>1 DEF Holds
<1>4. CASE queue' = queue
  <2>1. Queued(e)' <=> Queued(e)
    BY <1>4 DEF Queued
  <2> QED
    BY <1>1, <1>2, <1>4, <2>1 DEF OneLife
<1>5. CASE queue' = Append(queue, publisher[p].event)
  <2>1. /\ Len(queue) \in Nat /\ Len(queue') = Len(queue) + 1
        /\ \A i \in 1 .. Len(queue) : queue'[i] = queue[i]
        /\ queue'[Len(queue) + 1] = publisher[p].event
    BY <1>1, <1>5
  <2>2. CASE publisher[p].event = e
    <3>1. ~Queued(e) /\ drainer.event # e /\ received[e] <= 1 /\ e \in handed
          /\ \A q \in Publishers : Holds(q, e) => q = p
      BY <1>3, <2>2 DEF OneLife
    <3>2. \A i \in 1 .. Len(queue') : queue'[i] = e => i = Len(queue) + 1
      BY <2>1, <3>1 DEF Queued
    <3>3. \A q \in Publishers : ~Holds(q, e)'
      BY <1>2, <3>1
    <3> QED
      BY <1>1, <3>1, <3>2, <3>3 DEF OneLife
  <2>3. CASE publisher[p].event # e
    <3>1. \A i \in 1 .. Len(queue') : queue'[i] = e => i \in 1 .. Len(queue) /\ queue[i] = e
      BY <2>1, <2>3
    <3>2. Queued(e)' => Queued(e)
      BY <3>1 DEF Queued
    <3> QED
      BY <1>1, <1>2, <3>1, <3>2 DEF OneLife
  <2> QED
    BY <2>2, <2>3
<1> QED
  BY <1>1, <1>4, <1>5

\* The audit record comes after the event has left its publisher.
LEMMA OneLifeAudit ==
  ASSUME SinkInv, NEW e \in Transitions, OneLife(e), NEW p \in Publishers, Audit(p)
  PROVE  OneLife(e)'
<1>1. /\ UNCHANGED <<queue, drainer, handed, received>>
      /\ publisher' = [publisher EXCEPT ![p] = Ready]
  BY DEF Audit
<1>2. /\ publisher'[p] = Ready
      /\ \A q \in Publishers : q # p => publisher'[q] = publisher[q]
  BY <1>1 DEF SinkInv, PublishersOK
<1>3. ~Holds(p, e)' /\ \A q \in Publishers : q # p => (Holds(q, e)' <=> Holds(q, e))
  BY <1>2 DEF Holds, Ready
<1>4. Queued(e)' <=> Queued(e)
  BY <1>1 DEF Queued
<1> QED
  BY <1>1, <1>2, <1>3, <1>4 DEF OneLife

\* What Tail leaves of a queue.
LEMMA TailShifts ==
  ASSUME QueueOK, queue # <<>>
  PROVE  /\ Len(queue) \in Nat /\ Len(queue) >= 1
         /\ Head(queue) = queue[1] /\ Len(Tail(queue)) = Len(queue) - 1
         /\ \A i \in 1 .. Len(Tail(queue)) :
              i + 1 \in 1 .. Len(queue) /\ Tail(queue)[i] = queue[i + 1]
BY HeadTailProperties DEF QueueOK

\* The drainer takes the event from the head of the queue, or leaves.
LEMMA OneLifeSelect ==
  ASSUME SinkInv, NEW e \in Transitions, OneLife(e), DrainSelect
  PROVE  OneLife(e)'
<1>1. UNCHANGED <<publisher, handed, received>> /\ drainer.event # e
  BY NoTransitionAssumption DEF DrainSelect, SinkInv, DrainerOK, Step
<1>2. \A p \in Publishers : Holds(p, e)' <=> Holds(p, e)
  BY <1>1 DEF Holds
<1>3. CASE queue' = queue /\ drainer' = Gone
  <2>1. drainer'.event # e /\ (Queued(e)' <=> Queued(e))
    BY <1>3, NoTransitionAssumption DEF Queued, Gone
  <2> QED
    BY <1>1, <1>2, <1>3, <2>1 DEF OneLife
<1>4. CASE /\ queue # <<>> /\ queue' = Tail(queue)
           /\ drainer' = [pc |-> "post", event |-> Head(queue), attempt |-> 1]
  <2>1. /\ Len(queue) \in Nat /\ Len(queue) >= 1
        /\ Head(queue) = queue[1] /\ Len(queue') = Len(queue) - 1
        /\ \A i \in 1 .. Len(queue') : i + 1 \in 1 .. Len(queue) /\ queue'[i] = queue[i + 1]
    BY <1>4, TailShifts DEF SinkInv
  <2>2. \A i, j \in 1 .. Len(queue') : queue'[i] = e /\ queue'[j] = e => i = j
    <3>1. ASSUME NEW i \in 1 .. Len(queue'), NEW j \in 1 .. Len(queue'),
                 queue'[i] = e, queue'[j] = e
          PROVE  i = j
      <4>1. i + 1 = j + 1
        BY <2>1, <3>1 DEF OneLife
      <4> QED
        BY <4>1
    <3> QED
      BY <3>1
  <2>3. Queued(e)' => Queued(e)
    BY <2>1 DEF Queued
  <2>4. CASE Head(queue) = e
    <3>1. Queued(e) /\ 1 \in 1 .. Len(queue) /\ queue[1] = e
      BY <2>1, <2>4 DEF Queued
    <3>2. ~Queued(e)'
      <4>1. ASSUME NEW i \in 1 .. Len(queue'), queue'[i] = e
            PROVE  FALSE
        <5>1. i + 1 = 1
          BY <2>1, <3>1, <4>1 DEF OneLife
        <5> QED
          BY <5>1
      <4> QED
        BY <4>1 DEF Queued
    <3>3. e \in handed /\ received[e] <= 1 /\ \A p \in Publishers : ~Holds(p, e)
      BY <3>1 DEF OneLife
    <3> QED
      BY <1>1, <1>2, <1>4, <2>2, <3>2, <3>3 DEF OneLife
  <2>5. CASE Head(queue) # e
    BY <1>1, <1>2, <1>4, <2>2, <2>3, <2>5 DEF OneLife
  <2> QED
    BY <2>4, <2>5
<1> QED
  BY <1>3, <1>4 DEF DrainSelect

\* What the drainer's POSTs leave alone.
LEMMA OneLifeDrained ==
  ASSUME NEW e \in Transitions, OneLife(e), UNCHANGED <<publisher, queue, handed>>,
         drainer'.event = drainer.event \/ drainer'.event \notin Transitions,
         drainer.event # e => received'[e] = received[e],
         drainer.event = e =>
           /\ received'[e] <= 1 + MaxAttempts
           /\ drainer'.event = e =>
                /\ drainer'.pc = "post" => received'[e] <= drainer'.attempt
                /\ drainer'.pc = "backoff" => received'[e] <= drainer'.attempt + 1
  PROVE  OneLife(e)'
<1>1. /\ \A p \in Publishers : Holds(p, e)' <=> Holds(p, e)
      /\ Queued(e)' <=> Queued(e)
  BY DEF Holds, Queued
<1>2. CASE drainer.event = e
  BY <1>1, <1>2 DEF OneLife
<1>3. CASE drainer.event # e
  <2>1. drainer'.event # e
    BY <1>3
  <2> QED
    BY <1>1, <1>3, <2>1 DEF OneLife
<1> QED
  BY <1>2, <1>3

\* Each attempt of the drainer is paid for by its attempt counter.
LEMMA OneLifeDrain ==
  ASSUME SinkInv, NEW e \in Transitions, OneLife(e),
         DrainDelivered \/ DrainFailed \/ DrainBackoff
  PROVE  OneLife(e)'
<1>1. UNCHANGED <<publisher, queue, handed>>
  BY DEF DrainDelivered, DrainFailed, DrainBackoff
<1>2. received \in [Transitions -> Nat] /\ received[e] \in Nat
  BY DEF SinkInv, RecordsOK
<1>3. ASSUME DrainDelivered \/ DrainFailed
      PROVE  /\ drainer.event \in Transitions /\ drainer.attempt \in 1 .. MaxAttempts
             /\ received'[e] \in Nat /\ received'[e] <= received[e] + 1
             /\ e # drainer.event => received'[e] = received[e]
             /\ drainer.event = e => received[e] <= drainer.attempt
  <2>1. /\ drainer.event \in Transitions /\ drainer.attempt \in 1 .. MaxAttempts
        /\ drainer.pc = "post" /\ (Taken(drainer.event) \/ UNCHANGED received)
    BY <1>3 DEF DrainDelivered, DrainFailed, SinkInv, DrainerOK, Step
  <2>2. PICK f \in Transitions : f = drainer.event
    BY <2>1
  <2>3. Taken(f) \/ UNCHANGED received
    BY <2>1, <2>2
  <2> QED
    BY <1>2, <2>1, <2>2, <2>3, PostCounts DEF OneLife
<1>4. CASE DrainDelivered
  <2>1. drainer'.event \notin Transitions
    BY <1>4, NoTransitionAssumption DEF DrainDelivered, Waiting
  <2>2. drainer.event = e => received'[e] <= 1 + MaxAttempts
    BY <1>2, <1>3, <1>4, MaxAttemptsAssumption
  <2> QED
    BY <1>1, <1>3, <1>4, <2>1, <2>2, OneLifeDrained
<1>5. CASE DrainFailed
  <2>1. \/ drainer' = Waiting
        \/ /\ drainer'.pc = "backoff" /\ drainer'.event = drainer.event
           /\ drainer'.attempt = drainer.attempt
    BY <1>5 DEF DrainFailed, SinkInv, DrainerOK
  <2>2. drainer.event = e =>
          received'[e] <= 1 + MaxAttempts /\ received'[e] <= drainer.attempt + 1
    BY <1>2, <1>3, <1>5, MaxAttemptsAssumption
  <2>3. Waiting.event \notin Transitions
    BY NoTransitionAssumption DEF Waiting
  <2> QED
    BY <1>1, <1>3, <1>5, <2>1, <2>2, <2>3, OneLifeDrained
<1>6. CASE DrainBackoff
  <2>1. /\ received' = received /\ drainer.pc = "backoff"
        /\ \/ drainer'.event = NoTransition
           \/ /\ drainer'.event = drainer.event
              /\ drainer'.pc = "post" /\ drainer'.attempt = drainer.attempt + 1
    <3>1. CASE drainer' = Gone
      BY <1>6, <3>1 DEF DrainBackoff, Gone
    <3>2. CASE drainer' = [drainer EXCEPT !.pc = "post", !.attempt = @ + 1]
      BY <1>6, <3>2 DEF DrainBackoff, SinkInv, DrainerOK
    <3> QED
      BY <1>6, <3>1, <3>2 DEF DrainBackoff
  <2> QED
    BY <1>1, <2>1, OneLifeDrained, NoTransitionAssumption DEF OneLife
<1> QED
  BY <1>4, <1>5, <1>6

\* Every step keeps an event in one place and within its attempts.
LEMMA OneLifeStep ==
  ASSUME SinkInv, [SinkNext]_sinkVars, NEW e \in Transitions, OneLife(e)
  PROVE  OneLife(e)'
<1>1. ASSUME NEW p \in Publishers, PublisherStep(p)
      PROVE  OneLife(e)'
  BY <1>1, OneLifePublish, OneLifeEnqueue, OneLifeAudit DEF PublisherStep
<1>2. CASE Drain
  BY <1>2, OneLifeSelect, OneLifeDrain DEF Drain
<1>3. CASE Stop \/ UNCHANGED sinkVars
  <2>1. UNCHANGED <<publisher, queue, drainer, handed, received>>
    BY <1>3 DEF Stop, sinkVars
  <2> QED
    BY <2>1 DEF OneLife, Holds, Queued
<1> QED
  BY <1>1, <1>2, <1>3, OneLifeRecord DEF SinkNext

\* publish and drain both send an event again when an answer is lost: the
\* engine sees it at most once per attempt of each, whatever fails.
THEOREM RepeatsAreBounded == SinkSpec => []RepeatsBounded
<1> DEFINE Inv == SinkInv /\ \A e \in Transitions : OneLife(e)
<1>1. SinkInit => Inv
  BY SinkInvInit, NoTransitionAssumption, MaxAttemptsAssumption
  DEF SinkInit, OneLife, Holds, Queued, Ready, Waiting
<1>2. Inv /\ [SinkNext]_sinkVars => Inv'
  BY SinkInvStep, OneLifeStep
<1>3. Inv => RepeatsBounded
  BY DEF OneLife, RepeatsBounded
<1> QED
  BY <1>1, <1>2, <1>3, PTL DEF SinkSpec
=============================================================================
