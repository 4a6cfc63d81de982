------------------------ MODULE OutboundCalls_proofs ------------------------
(***************************************************************************)
(* Theorems about the two components that fetch from a third party: one    *)
(* call to the vendor, for every cap on the attempts, and the job that     *)
(* syncs the sanctions lists, for any number of loops that were started.   *)
(*                                                                         *)
(* CallInv ties the step of the call to its answers: an answer is looked   *)
(* at once, at "inspect", and every one passed on the way to another       *)
(* attempt may be retried and left no body open.                           *)
(*                                                                         *)
(* ListInv follows a snapshot from its stamp to the file and to            *)
(* LastSnapshot.  No two loops hold the same one, so whoever touches the   *)
(* file of its second has another snapshot stamped in that second; and a   *)
(* job that was never stopped has one loop, whose snapshot is the newest.  *)
(***************************************************************************)
EXTENDS VendorCall, ListSyncJob, FiniteSetTheorems, TLAPS

-----------------------------------------------------------------------------
(* The retry loop of a vendor client.                                      *)

\* The answers that a later attempt follows.
Earlier == 1 .. Len(answers) - 1

\* Where the call may be, given what it has been answered.
StepInv ==
  /\ pc \in {"check", "backoff"} =>
       /\ client = "http" /\ result = "pending" /\ respBody # "open"
       /\ Len(answers) < maxAttempts
       /\ answers # <<>> => MayRetry(Last)
  /\ pc = "send" =>
       /\ result = "pending" /\ respBody # "open" /\ Len(answers) < maxAttempts
       /\ answers # <<>> => client = "http" /\ MayRetry(Last)
  /\ pc = "inspect" => result = "pending" /\ answers # <<>>
  /\ pc = "done" => result # "pending"
  /\ client = "onfido" /\ pc = "inspect" => Len(answers) = 1

\* With what the call returns, and after what.
ResultInv ==
  pc = "done" =>
    /\ respBody = "open" => result = "response"
    /\ client = "http" /\ answers # <<>> /\ MayRetry(Last)
         => Len(answers) = maxAttempts \/ cancelled

CallInv ==
  /\ CallTypeOK /\ StepInv /\ ResultInv
  /\ \A i \in Earlier : MayRetry(answers[i])

-----------------------------------------------------------------------------
\* A call starts unanswered.
LEMMA InitInv == CallInit => CallInv
<1> SUFFICES ASSUME CallInit PROVE CallInv
  OBVIOUS
<1> USE AttemptsAssumption, ClientsAssumption DEF CallInit
<1>1. Len(answers) = 0 /\ Len(sent) = 0 /\ answers = <<>>
  OBVIOUS
<1>2. CallTypeOK
  <2>1. answers \in Seq(Answers) /\ sent \in Seq({"none", "full", "drained"})
    OBVIOUS
  <2>2. Len(answers) <= maxAttempts /\ Len(sent) = Len(answers)
    BY <1>1
  <2> QED
    BY <2>1, <2>2 DEF CallTypeOK
<1>3. StepInv /\ ResultInv
  BY <1>1 DEF StepInv, ResultInv
<1>4. Earlier = {}
  BY <1>1 DEF Earlier
<1> QED
  BY <1>2, <1>3, <1>4 DEF CallInv

\* An attempt adds one answer after those that may be retried.
LEMMA SendInv ==
  ASSUME CallInv, Send
  PROVE  CallInv'
<1> USE AttemptsAssumption DEF CallInv
<1>1. PICK answer \in Answers :
        /\ answers' = Append(answers, answer) /\ sent' = Append(sent, reader)
        /\ reader' \in {reader, "none", "drained"}
        /\ respBody' \in {"none", "open"}
        /\ pc = "send" /\ pc' = "inspect"
        /\ UNCHANGED <<client, cancelled, result>>
  <2>1. PICK answer \in Answers :
          /\ answers' = Append(answers, answer)
          /\ \/ answer = "error" /\ UNCHANGED reader
             \/ reader' = IF reader = "none" THEN "none" ELSE "drained"
          /\ respBody' = IF answer = "error" THEN "none" ELSE "open"
    BY DEF Send
  <2>2. sent' = Append(sent, reader) /\ pc = "send" /\ pc' = "inspect"
        /\ UNCHANGED <<client, cancelled, result>>
    BY DEF Send
  <2> QED
    BY <2>1, <2>2
<1>2. /\ answers \in Seq(Answers) /\ Len(answers) \in Nat
      /\ sent \in Seq({"none", "full", "drained"}) /\ Len(sent) = Len(answers)
      /\ reader \in {"none", "full", "drained"}
  BY DEF CallTypeOK
<1>3. /\ answers' \in Seq(Answers) /\ Len(answers') = Len(answers) + 1
      /\ \A i \in 1 .. Len(answers) : answers'[i] = answers[i]
      /\ answers'[Len(answers')] = answer
      /\ answers' # <<>>
  BY <1>1, <1>2
<1>4. sent' \in Seq({"none", "full", "drained"}) /\ Len(sent') = Len(answers')
  BY <1>1, <1>2, <1>3
<1>5. Len(answers) < maxAttempts /\ result = "pending"
      /\ (answers # <<>> => client = "http" /\ MayRetry(Last))
  BY <1>1 DEF StepInv
<1>6. CallTypeOK'
  <2>1. Len(answers') <= maxAttempts
    BY <1>2, <1>3, <1>5
  <2> QED
    BY <1>1, <1>2, <1>3, <1>4, <2>1 DEF CallTypeOK
<1>7. client = "onfido" => Len(answers') = 1
  <2>1. client = "onfido" => answers = <<>>
    BY <1>5
  <2> QED
    BY <1>3, <2>1
<1>8. StepInv' /\ ResultInv'
  BY <1>1, <1>3, <1>5, <1>7 DEF StepInv, ResultInv
<1>9. ASSUME NEW i \in Earlier'
      PROVE  MayRetry(answers'[i])
  <2>1. i \in 1 .. Len(answers) /\ answers'[i] = answers[i]
    BY <1>2, <1>3, <1>9 DEF Earlier
  <2>2. CASE i = Len(answers)
    <3>1. answers # <<>>
      BY <1>2, <2>1
    <3> QED
      BY <1>5, <2>1, <2>2, <3>1 DEF Last
  <2>3. CASE i # Len(answers)
    BY <1>2, <2>1, <2>3 DEF Earlier
  <2> QED
    BY <2>2, <2>3
<1>10. \A i \in Earlier' : MayRetry(answers[i])'
  BY <1>9 DEF MayRetry
<1> QED
  BY <1>6, <1>8, <1>10

\* The steps that look at the last answer, or wait, leave the answers alone.
LEMMA OtherInv ==
  ASSUME CallInv,
         CheckContext \/ InspectFinal \/ InspectRetry \/ InspectOnfido \/ Backoff \/ Cancel
  PROVE  CallInv'
<1> USE AttemptsAssumption, ClientsAssumption DEF CallInv, Return
<1>1. UNCHANGED <<client, reader, answers, sent>> /\ (cancelled => cancelled')
  BY DEF CheckContext, InspectFinal, InspectRetry, InspectOnfido, Backoff, Cancel, CallTypeOK
<1>2. /\ Len(answers) \in Nat /\ Len(answers) <= maxAttempts
      /\ answers # <<>> => Last \in Answers
  BY DEF CallTypeOK, Last
<1>3. /\ Earlier' = Earlier /\ Last' = Last /\ Capped' = Capped
      /\ \A i \in Earlier : MayRetry(answers[i])'
  BY <1>1 DEF Earlier, Last, MayRetry, Capped
<1>4. CASE CheckContext
  BY <1>1, <1>2, <1>3, <1>4 DEF CheckContext, CallTypeOK, StepInv, ResultInv, MayRetry
<1>5. CASE InspectFinal
  BY <1>1, <1>2, <1>3, <1>5 DEF InspectFinal, CallTypeOK, StepInv, ResultInv, MayRetry
<1>6. CASE InspectRetry
  <2>1. ~Capped => Len(answers) < maxAttempts
    BY <1>2 DEF Capped
  <2> QED
    BY <1>1, <1>2, <1>3, <1>6, <2>1
       DEF InspectRetry, CallTypeOK, StepInv, ResultInv, MayRetry, Capped
<1>7. CASE InspectOnfido
  BY <1>1, <1>2, <1>3, <1>7 DEF InspectOnfido, CallTypeOK, StepInv, ResultInv, MayRetry
<1>8. CASE Backoff
  BY <1>1, <1>2, <1>3, <1>8 DEF Backoff, CallTypeOK, StepInv, ResultInv, MayRetry
<1>9. CASE Cancel
  BY <1>1, <1>2, <1>3, <1>9 DEF Cancel, CallTypeOK, StepInv, ResultInv, MayRetry
<1> QED
  BY <1>4, <1>5, <1>6, <1>7, <1>8, <1>9

\* The invariant of every call.
THEOREM CallInvariant == CallSpec => []CallInv
<1>1. CallInv /\ UNCHANGED callVars => CallInv'
  BY DEF CallInv, CallTypeOK, StepInv, ResultInv, Earlier, Last, MayRetry, callVars
<1>2. CallInv /\ [CallNext]_callVars => CallInv'
  BY <1>1, SendInv, OtherInv DEF CallNext, doWithRetry
<1> QED
  BY InitInv, <1>2, PTL DEF CallSpec

\* At most maxAttempts attempts, each with a body of its own on record.
THEOREM CallTypeCorrect == CallSpec => []CallTypeOK
<1>1. CallInv => CallTypeOK
  BY DEF CallInv
<1> QED
  BY <1>1, CallInvariant, PTL

\* doWithRetry never follows a final answer with another attempt.
THEOREM RefusalsAreFinal == CallSpec => []FinalAnswersNotRetried
<1>1. CallInv => FinalAnswersNotRetried
  BY DEF CallInv, FinalAnswersNotRetried, Earlier, MayRetry
<1> QED
  BY <1>1, CallInvariant, PTL

\* doWithRetry gives up on what may pass only at the cap, or when cancelled.
THEOREM GivesUpAtTheCapOnly == CallSpec => []GivesUpAtTheCap
<1>1. CallInv => GivesUpAtTheCap
  BY DEF CallInv, GivesUpAtTheCap, CallTypeOK, StepInv, ResultInv, MayRetry
<1> QED
  BY <1>1, CallInvariant, PTL

\* No path of doWithRetry or doJSON drops a response with its body open.
THEOREM BodiesClosed == CallSpec => []NoBodyLeaked
<1>1. CallInv => NoBodyLeaked
  BY DEF CallInv, NoBodyLeaked, CallTypeOK, StepInv, ResultInv
<1> QED
  BY <1>1, CallInvariant, PTL

-----------------------------------------------------------------------------
(* The sync job of the sanctions lists.                                    *)

Steps == {"none", "fetch", "open", "write", "publish", "select", "exited"}

LoopsOK == loop \in [Loops -> [pc : Steps, snap : Snapshot \union {NoSnapshot}]]

InHand(l) == loop[l].pc \in {"open", "write", "publish"}

Whole(snap) == [holds |-> "snapshot", at |-> snap.at]

\* Another snapshot was stamped in the same second.
Shared(snap) == \E other \in generated : other.second = snap.second /\ other # snap

\* The snapshots are numbered in the order they were stamped.
StampInv ==
  /\ IsFiniteSet(generated)
  /\ \A snap \in generated : snap.at <= Cardinality(generated)
  /\ lastSnap \in generated \union {NoSnapshot}

\* A loop in the middle of a sync holds one that is not published, and that no
\* other loop holds.
HandInv(l) ==
  IF InHand(l)
    THEN /\ loop[l].snap \in generated \ {lastSnap}
         /\ \A m \in Loops \ {l} : loop[m].snap # loop[l].snap
    ELSE loop[l].snap = NoSnapshot

\* What it has written is there, but for a snapshot of the same second.
DiskInv(l) ==
  /\ At(l, "write") =>
       files[loop[l].snap.second].holds = "part" \/ Shared(loop[l].snap)
  /\ At(l, "publish") =>
       files[loop[l].snap.second] = Whole(loop[l].snap) \/ Shared(loop[l].snap)

\* Until Stop there is one loop, and what it holds is newer than what it
\* published.
LoneInv ==
  ~stopped =>
    \A l \in Loops : ~At(l, "none") =>
      /\ running
      /\ \A m \in Loops \ {l} : At(m, "none")
      /\ InHand(l) => loop[l].snap.at > lastSnap.at

ListInv ==
  /\ ListTypeOK /\ StampInv
  /\ \A l \in Loops : HandInv(l) /\ DiskInv(l)
  /\ LoneInv /\ PublishedIsOnDisk

\* The job starts with nothing in hand and nothing on disk.
LEMMA ListInitInv == ListInit => ListInv
<1> SUFFICES ASSUME ListInit PROVE ListInv
  OBVIOUS
<1>1. /\ loop = [l \in Loops |-> NotStarted]
      /\ files = [s \in Seconds |-> Holding("nothing")]
      /\ lastSnap = NoSnapshot /\ second = 1 /\ generated = {}
      /\ running = FALSE /\ stopped = FALSE /\ panicked = FALSE
  BY DEF ListInit
<1>2. /\ NotStarted.pc = "none" /\ NotStarted.snap = NoSnapshot
      /\ NotStarted \in
           [pc : {"none", "fetch", "open", "write", "publish", "select", "exited"},
            snap : Snapshot \union {NoSnapshot}]
  BY DEF NotStarted
<1>3. Holding("nothing") \in File /\ 1 \in Seconds
  BY ListConstants DEF Holding, File, Seconds
<1>4. ListTypeOK
  BY <1>1, <1>2, <1>3 DEF ListTypeOK
<1>5. StampInv
  BY <1>1, FS_EmptySet DEF StampInv
<1>6. \A l \in Loops : HandInv(l) /\ DiskInv(l) /\ At(l, "none")
  BY <1>1, <1>2 DEF HandInv, DiskInv, InHand, At
<1> QED
  BY <1>1, <1>4, <1>5, <1>6 DEF ListInv, LoneInv, PublishedIsOnDisk

\* The goroutine of a loop at its next step, with the snapshot in hand.
LEMMA LoopGoesTo ==
  ASSUME ListTypeOK, NEW l \in Loops, NEW step, GoTo(l, step)
  PROVE  /\ loop'[l].pc = step /\ loop'[l].snap = loop[l].snap
         /\ \A m \in Loops \ {l} : loop'[m] = loop[m]
         /\ step \in Steps => LoopsOK'
<1> DEFINE Snaps == Snapshot \union {NoSnapshot}
<1>1. PICK r : r = [loop[l] EXCEPT !.pc = step]
  OBVIOUS
<1>2. loop' = [loop EXCEPT ![l] = r] /\ loop \in [Loops -> [pc : Steps, snap : Snaps]]
  BY <1>1 DEF GoTo, ListTypeOK, Steps
<1> HIDE DEF Snaps
<1>3. r.pc = step /\ r.snap = loop[l].snap /\ (step \in Steps => r \in [pc : Steps, snap : Snaps])
  BY <1>1, <1>2
<1>4. loop'[l] = r /\ \A m \in Loops \ {l} : loop'[m] = loop[m]
  BY <1>2
<1>5. step \in Steps => loop' \in [Loops -> [pc : Steps, snap : Snaps]]
  BY <1>2, <1>3
<1> QED
  BY <1>3, <1>4, <1>5 DEF Snaps, LoopsOK

\* The end of a sync, whatever came of it.
LEMMA SyncEnds ==
  ASSUME ListTypeOK, NEW l \in Loops, EndSync(l)
  PROVE  /\ loop'[l].pc = "select" /\ loop'[l].snap = NoSnapshot
         /\ \A m \in Loops \ {l} : loop'[m] = loop[m]
         /\ LoopsOK'
<1>1. PICK r : r = [pc |-> "select", snap |-> NoSnapshot]
  OBVIOUS
<1>2. loop' = [loop EXCEPT ![l] = r]
  BY <1>1, Zenon DEF EndSync
<1>3. r \in [pc : {"none", "fetch", "open", "write", "publish", "select", "exited"},
             snap : Snapshot \union {NoSnapshot}]
      /\ r.pc = "select" /\ r.snap = NoSnapshot
  BY <1>1
<1> QED
  BY <1>2, <1>3 DEF ListTypeOK, LoopsOK, Steps

\* No stamped snapshot is the one of a job that has none.
LEMMA StampedIsSnapshot ==
  ASSUME ListTypeOK, NEW snap \in generated
  PROVE  snap # NoSnapshot /\ snap.at \in Nat \ {0} /\ snap.second \in Seconds
<1>1. snap \in Snapshot
  BY DEF ListTypeOK
<1>2. snap.at \in 1 .. MaxSnapshots /\ snap.second \in Seconds
  BY <1>1 DEF Snapshot
<1>3. NoSnapshot.at = 0
  BY DEF NoSnapshot
<1> QED
  BY <1>2, <1>3, ListConstants

\* A step that takes a loop between two syncs, or starts one.
LEMMA BetweenSyncs ==
  ASSUME ListInv, NEW l \in Loops, ~InHand(l), ListTypeOK',
         loop'[l].pc \in {"fetch", "select", "exited"}, loop'[l].snap = loop[l].snap,
         \A m \in Loops \ {l} : loop'[m] = loop[m],
         UNCHANGED <<files, lastSnap, generated, stopped>>,
         ~stopped => running' /\ \A m \in Loops \ {l} : At(m, "none")
  PROVE  ListInv'
<1>1. StampInv' /\ PublishedIsOnDisk'
  BY DEF ListInv, StampInv, PublishedIsOnDisk
<1>2. ASSUME NEW m \in Loops
      PROVE  HandInv(m)' /\ DiskInv(m)'
  <2>1. \A k \in Loops : loop'[k].snap = loop[k].snap
    OBVIOUS
  <2>2. CASE m = l
    BY <2>1, <2>2 DEF ListInv, HandInv, DiskInv, InHand, At
  <2>3. CASE m # l
    BY <2>1, <2>3 DEF ListInv, HandInv, DiskInv, InHand, At, Shared
  <2> QED
    BY <2>2, <2>3
<1>3. LoneInv'
  BY DEF LoneInv, At, InHand
<1> QED
  BY <1>1, <1>2, <1>3 DEF ListInv

\* A loop stamps a snapshot that nobody has.
LEMMA FetchInv ==
  ASSUME ListInv, NEW l \in Loops, Fetch(l)
  PROVE  ListInv'
<1> USE ListConstants
<1>1. ListTypeOK /\ StampInv /\ HandInv(l) /\ Cardinality(generated) \in Nat
  BY FS_CardinalityType DEF ListInv, StampInv
<1>2. PICK snap : snap = [at |-> Cardinality(generated) + 1, second |-> second]
  OBVIOUS
<1>3. PICK r : r = [pc |-> "open", snap |-> snap]
  OBVIOUS
<1>4. /\ loop[l].pc = "fetch" /\ Cardinality(generated) < MaxSnapshots
      /\ generated' = generated \union {snap} /\ loop' = [loop EXCEPT ![l] = r]
      /\ UNCHANGED <<files, lastSnap, second, lifeVars>>
  BY <1>2, <1>3 DEF Fetch, At
<1>5. snap \in Snapshot /\ snap.at = Cardinality(generated) + 1
  <2>1. Cardinality(generated) + 1 \in 1 .. MaxSnapshots /\ second \in Seconds
    BY <1>1, <1>4 DEF ListTypeOK
  <2> QED
    BY <1>2, <2>1 DEF Snapshot
<1>6. \A other \in generated \union {NoSnapshot} : other # snap /\ other.at < snap.at
  <2>1. \A other \in generated : other.at \in Nat /\ other.at <= Cardinality(generated)
    BY <1>1, StampedIsSnapshot DEF StampInv
  <2>2. NoSnapshot.at = 0
    BY DEF NoSnapshot
  <2> QED
    BY <1>1, <1>5, <2>1, <2>2
<1>7. /\ r.pc = "open" /\ r.snap = snap
      /\ r \in [pc : {"none", "fetch", "open", "write", "publish", "select", "exited"},
                snap : Snapshot \union {NoSnapshot}]
  BY <1>3, <1>5
<1>8. loop'[l] = r /\ \A m \in Loops \ {l} : loop'[m] = loop[m]
  BY <1>1, <1>4 DEF ListTypeOK
<1>9. ListTypeOK'
  BY <1>1, <1>4, <1>5, <1>7 DEF ListTypeOK, LoopsOK, Steps, lifeVars
<1>10. StampInv'
  <2>1. IsFiniteSet(generated') /\ Cardinality(generated') = Cardinality(generated) + 1
    BY <1>1, <1>4, <1>6, FS_AddElement DEF StampInv
  <2>2. \A other \in generated : other.at \in Nat /\ other.at <= Cardinality(generated)
    BY <1>1, StampedIsSnapshot DEF StampInv
  <2>3. \A other \in generated' : other.at <= Cardinality(generated')
    BY <1>1, <1>4, <1>5, <2>1, <2>2
  <2> QED
    BY <1>1, <1>4, <2>1, <2>3 DEF StampInv
<1>11. \A s : Shared(s) => Shared(s)'
  BY <1>4 DEF Shared
<1>12. lastSnap \in generated \union {NoSnapshot}
       /\ \A m \in Loops : loop[m].snap \in generated \union {NoSnapshot}
  BY <1>1 DEF StampInv, ListInv, HandInv
<1>13. ASSUME NEW m \in Loops
       PROVE  HandInv(m)' /\ DiskInv(m)'
  <2>1. CASE m = l
    <3>1. \A k \in Loops \ {l} : loop'[k].snap # snap
      BY <1>6, <1>8, <1>12
    <3>2. snap \in generated' \ {lastSnap'}
      BY <1>4, <1>6, <1>12
    <3> QED
      BY <1>7, <1>8, <2>1, <3>1, <3>2 DEF HandInv, DiskInv, InHand, At
  <2>2. CASE m # l
    <3>1. HandInv(m) /\ DiskInv(m) /\ loop'[m] = loop[m] /\ loop'[l].snap # loop[m].snap
      BY <1>6, <1>7, <1>8, <1>12, <2>2 DEF ListInv
    <3>2. \A k \in Loops \ {m} : loop'[k].snap = loop[k].snap \/ k = l
      BY <1>8
    <3>3. HandInv(m)'
      BY <1>4, <3>1, <3>2 DEF HandInv, InHand
    <3>4. DiskInv(m)'
      BY <1>4, <1>11, <3>1 DEF DiskInv, At
    <3> QED
      BY <3>3, <3>4
  <2> QED
    BY <2>1, <2>2
<1>14. LoneInv'
  BY <1>4, <1>6, <1>7, <1>8, <1>12 DEF ListInv, LoneInv, At, InHand, lifeVars
<1>15. PublishedIsOnDisk'
  BY <1>4 DEF ListInv, PublishedIsOnDisk
<1> QED
  BY <1>9, <1>10, <1>13, <1>14, <1>15 DEF ListInv

\* A loop opens or writes the file of its snapshot, or fails to: whatever that
\* overwrites is of another snapshot of the same second.
LEMMA FileInv ==
  ASSUME ListInv, NEW l \in Loops, InHand(l), NEW snap, snap = loop[l].snap,
         NEW file, files' = [files EXCEPT ![snap.second] = file], ListTypeOK',
         UNCHANGED <<lastSnap, generated, lifeVars>>,
         \A m \in Loops \ {l} : loop'[m] = loop[m],
         \/ loop'[l].pc = "write" /\ loop'[l].snap = snap /\ file.holds = "part"
         \/ /\ loop'[l].pc = "publish" /\ loop'[l].snap = snap
            /\ file = Whole(snap) \/ Shared(snap)
         \/ loop'[l].pc = "select" /\ loop'[l].snap = NoSnapshot
  PROVE  ListInv'
<1>1. /\ ListTypeOK /\ snap \in generated \ {lastSnap}
      /\ \A m \in Loops \ {l} : loop[m].snap # snap
  BY DEF ListInv, HandInv
<1>2. snap # NoSnapshot /\ snap.second \in Seconds
  BY <1>1, StampedIsSnapshot
<1>3. files'[snap.second] = file
      /\ \A t \in Seconds : t # snap.second => files'[t] = files[t]
  BY <1>1, <1>2 DEF ListTypeOK
<1>4. \A other \in generated \ {snap} :
        other.second \in Seconds
        /\ (Shared(other)' \/ (~Shared(other) /\ files'[other.second] = files[other.second]))
  <2> SUFFICES ASSUME NEW other \in generated \ {snap}
               PROVE  /\ other.second \in Seconds
                      /\ \/ Shared(other)'
                         \/ ~Shared(other) /\ files'[other.second] = files[other.second]
    OBVIOUS
  <2>1. other.second \in Seconds
    BY <1>1, StampedIsSnapshot
  <2>2. Shared(other) => Shared(other)'
    BY DEF Shared
  <2>3. other.second = snap.second => Shared(other)
    BY <1>1 DEF Shared
  <2> QED
    BY <1>3, <2>1, <2>2, <2>3
<1>5. ASSUME NEW m \in Loops
      PROVE  HandInv(m)' /\ DiskInv(m)'
  <2>1. CASE m = l
    <3>1. HandInv(l)'
      <4>1. \A k \in Loops \ {l} : loop'[k].snap # snap
        BY <1>1
      <4> QED
        BY <1>1, <4>1 DEF HandInv, InHand
    <3>2. Shared(snap) => Shared(snap)'
      BY DEF Shared
    <3>3. DiskInv(l)'
      <4>1. CASE loop'[l].pc = "write" /\ loop'[l].snap = snap /\ file.holds = "part"
        BY <1>3, <4>1 DEF DiskInv, At
      <4>2. CASE /\ loop'[l].pc = "publish" /\ loop'[l].snap = snap
                 /\ file = Whole(snap) \/ Shared(snap)
        BY <1>3, <3>2, <4>2 DEF DiskInv, At
      <4>3. CASE loop'[l].pc = "select"
        BY <4>3 DEF DiskInv, At
      <4> QED
        BY <4>1, <4>2, <4>3
    <3> QED
      BY <2>1, <3>1, <3>3
  <2>2. CASE m # l
    <3>1. HandInv(m) /\ DiskInv(m) /\ loop'[m] = loop[m]
      BY <2>2 DEF ListInv
    <3>2. HandInv(m)'
      <4>1. CASE InHand(m)
        <5>1. loop[m].snap \in generated
          BY <3>1, <4>1 DEF HandInv
        <5>2. loop[m].snap # NoSnapshot /\ loop[m].snap # snap
          BY <1>1, <2>2, <5>1, StampedIsSnapshot
        <5>3. loop'[l].snap # loop[m].snap
          BY <5>2
        <5>4. \A k \in Loops \ {m} : loop'[k].snap # loop[m].snap
          BY <3>1, <4>1, <5>3 DEF HandInv
        <5> QED
          BY <3>1, <4>1, <5>4 DEF HandInv, InHand
      <4>2. CASE ~InHand(m)
        BY <3>1, <4>2 DEF HandInv, InHand
      <4> QED
        BY <4>1, <4>2
    <3>3. DiskInv(m)'
      <4>1. CASE At(m, "write") \/ At(m, "publish")
        <5>1. loop[m].snap \in generated \ {snap}
          BY <1>1, <2>2, <3>1, <4>1 DEF HandInv, InHand, At
        <5> QED
          BY <1>4, <3>1, <5>1 DEF DiskInv, At
      <4>2. CASE ~(At(m, "write") \/ At(m, "publish"))
        BY <3>1, <4>2 DEF DiskInv, At
      <4> QED
        BY <4>1, <4>2
    <3> QED
      BY <3>2, <3>3
  <2> QED
    BY <2>1, <2>2
<1>6. PublishedIsOnDisk'
  <2>1. CASE lastSnap \in generated
    <3>1. lastSnap \in generated \ {snap}
      BY <1>1, <2>1
    <3> QED
      BY <1>4, <3>1 DEF ListInv, PublishedIsOnDisk, Shared
  <2>2. CASE lastSnap = NoSnapshot
    BY <2>2 DEF PublishedIsOnDisk
  <2> QED
    BY <2>1, <2>2 DEF ListInv, StampInv
<1>7. LoneInv'
  BY DEF ListInv, LoneInv, At, InHand, lifeVars
<1>8. StampInv'
  BY DEF ListInv, StampInv
<1> QED
  BY <1>5, <1>6, <1>7, <1>8 DEF ListInv

\* What is opened or written is a file.
LEMMA OpenInv ==
  ASSUME ListInv, NEW l \in Loops, PersistOpen(l)
  PROVE  ListInv'
<1>1. PICK snap, file : snap = loop[l].snap /\ file = Holding("part")
  OBVIOUS
<1>2. /\ ListTypeOK /\ InHand(l) /\ At(l, "open")
      /\ UNCHANGED <<lastSnap, second, generated, lifeVars>>
  BY DEF ListInv, PersistOpen, InHand, At
<1>3. file \in File /\ file.holds = "part"
  BY <1>1, ListConstants DEF Holding, File
<1>4. CASE files' = [files EXCEPT ![snap.second] = file] /\ GoTo(l, "write")
  <2>1. /\ loop'[l].pc = "write" /\ loop'[l].snap = snap
        /\ \A m \in Loops \ {l} : loop'[m] = loop[m]
        /\ LoopsOK'
    BY <1>1, <1>2, <1>4, LoopGoesTo DEF Steps
  <2>2. ListTypeOK'
    BY <1>2, <1>3, <1>4, <2>1 DEF ListTypeOK, LoopsOK, Steps, lifeVars
  <2> QED
    BY <1>1, <1>2, <1>3, <1>4, <2>1, <2>2, FileInv
<1>5. CASE EndSync(l) /\ UNCHANGED files
  <2>1. /\ loop'[l].pc = "select" /\ loop'[l].snap = NoSnapshot
        /\ \A m \in Loops \ {l} : loop'[m] = loop[m]
        /\ LoopsOK'
    BY <1>2, <1>5, SyncEnds
  <2>2. ListTypeOK'
    BY <1>2, <1>5, <2>1 DEF ListTypeOK, LoopsOK, Steps, lifeVars
  <2>3. PICK same : same = files[snap.second]
    OBVIOUS
  <2>4. files' = [files EXCEPT ![snap.second] = same]
    BY <1>2, <1>5, <2>3 DEF ListTypeOK
  <2> QED
    BY <1>1, <1>2, <2>1, <2>2, <2>4, FileInv
<1> QED
  BY <1>1, <1>4, <1>5 DEF PersistOpen

\* A write leaves the whole snapshot, or a mixture with one of its second.
LEMMA WriteInv ==
  ASSUME ListInv, NEW l \in Loops, PersistWrite(l)
  PROVE  ListInv'
<1>1. PICK snap : snap = loop[l].snap
  OBVIOUS
<1>2. /\ ListTypeOK /\ InHand(l) /\ At(l, "write")
      /\ UNCHANGED <<lastSnap, second, generated, lifeVars>>
  BY DEF ListInv, PersistWrite, InHand, At
<1>3. snap \in generated /\ snap.at \in 0 .. MaxSnapshots
      /\ (files[snap.second].holds = "part" \/ Shared(snap))
  <2>1. snap \in generated
    BY <1>1, <1>2 DEF ListInv, HandInv
  <2>2. snap \in Snapshot
    BY <1>2, <2>1 DEF ListTypeOK
  <2>3. snap.at \in 1 .. MaxSnapshots
    BY <2>2 DEF Snapshot
  <2>4. snap.at \in 0 .. MaxSnapshots
    BY <2>3, ListConstants
  <2> QED
    BY <1>1, <1>2, <2>1, <2>4 DEF ListInv, DiskInv
<1>4. ASSUME NEW file \in Written(files[snap.second], snap.at),
             files' = [files EXCEPT ![snap.second] = file], GoTo(l, "publish")
      PROVE  ListInv'
  <2>1. /\ loop'[l].pc = "publish" /\ loop'[l].snap = snap
        /\ \A m \in Loops \ {l} : loop'[m] = loop[m]
        /\ LoopsOK'
    BY <1>1, <1>2, <1>4, LoopGoesTo DEF Steps
  <2>2. file = Whole(snap) \/ (file = Holding("mixture") /\ Shared(snap))
    BY <1>3, <1>4 DEF Written, Whole
  <2>3. file \in File
    <3>1. Whole(snap) \in File
      BY <1>3 DEF Whole, File
    <3>2. Holding("mixture") \in File
      BY ListConstants DEF Holding, File
    <3> QED
      BY <2>2, <3>1, <3>2
  <2>4. ListTypeOK'
    BY <1>2, <1>4, <2>1, <2>3 DEF ListTypeOK, LoopsOK, Steps, lifeVars
  <2> QED
    BY <1>1, <1>2, <1>4, <2>1, <2>2, <2>4, FileInv
<1>5. ASSUME NEW file, file = Holding("part"),
             files' = [files EXCEPT ![snap.second] = file], EndSync(l)
      PROVE  ListInv'
  <2>1. /\ loop'[l].pc = "select" /\ loop'[l].snap = NoSnapshot
        /\ \A m \in Loops \ {l} : loop'[m] = loop[m]
        /\ LoopsOK'
    BY <1>2, <1>5, SyncEnds
  <2>2. file \in File
    BY <1>5, ListConstants DEF Holding, File
  <2>3. ListTypeOK'
    BY <1>2, <1>5, <2>1, <2>2 DEF ListTypeOK, LoopsOK, Steps, lifeVars
  <2> QED
    BY <1>1, <1>2, <1>5, <2>1, <2>3, FileInv
<1> QED
  BY <1>1, <1>4, <1>5 DEF PersistWrite

\* What is published is in its file, and in nobody's hand any more.
LEMMA PublishInv ==
  ASSUME ListInv, NEW l \in Loops, Publish(l)
  PROVE  ListInv' /\ (lastSnap'.at >= lastSnap.at \/ stopped)
<1>1. PICK snap : snap = loop[l].snap
  OBVIOUS
<1>2. /\ ListTypeOK /\ InHand(l) /\ At(l, "publish") /\ lastSnap' = snap /\ EndSync(l)
      /\ UNCHANGED <<files, second, generated, lifeVars>>
  BY <1>1 DEF ListInv, Publish, InHand, At
<1>3. /\ snap \in generated \ {lastSnap}
      /\ \A m \in Loops \ {l} : loop[m].snap # snap
      /\ files[snap.second] = Whole(snap) \/ Shared(snap)
  BY <1>1, <1>2 DEF ListInv, HandInv, DiskInv
<1>4. /\ loop'[l].pc = "select" /\ loop'[l].snap = NoSnapshot
      /\ \A m \in Loops \ {l} : loop'[m] = loop[m]
      /\ LoopsOK'
  BY <1>2, SyncEnds
<1>5. ListTypeOK'
  BY <1>2, <1>3, <1>4 DEF ListTypeOK, LoopsOK, Steps, lifeVars
<1>6. StampInv'
  BY <1>2, <1>3 DEF ListInv, StampInv
<1>7. ASSUME NEW m \in Loops
      PROVE  HandInv(m)' /\ DiskInv(m)'
  <2>1. CASE m = l
    BY <1>4, <2>1 DEF HandInv, DiskInv, InHand, At
  <2>2. CASE m # l
    <3>1. HandInv(m) /\ DiskInv(m) /\ loop'[m] = loop[m] /\ loop[m].snap # snap
      BY <1>3, <1>4, <2>2 DEF ListInv
    <3>2. DiskInv(m)'
      BY <1>2, <3>1 DEF DiskInv, At, Shared
    <3>3. HandInv(m)'
      <4>1. CASE InHand(m)
        <5>1. loop[m].snap \in generated /\ loop[m].snap # NoSnapshot
          BY <1>2, <3>1, <4>1, StampedIsSnapshot DEF HandInv
        <5>2. \A k \in Loops \ {m} : loop'[k].snap # loop[m].snap
          BY <1>4, <3>1, <4>1, <5>1 DEF HandInv
        <5> QED
          BY <1>2, <3>1, <4>1, <5>1, <5>2 DEF HandInv, InHand
      <4>2. CASE ~InHand(m)
        BY <3>1, <4>2 DEF HandInv, InHand
      <4> QED
        BY <4>1, <4>2
    <3> QED
      BY <3>2, <3>3
  <2> QED
    BY <2>1, <2>2
<1>8. PublishedIsOnDisk'
  BY <1>2, <1>3 DEF PublishedIsOnDisk, Shared, Whole
<1>9. ~stopped => /\ running /\ snap.at > lastSnap.at
                  /\ \A m \in Loops \ {l} : At(m, "none")
  BY <1>1, <1>2 DEF ListInv, LoneInv, At
<1>10. LoneInv'
  BY <1>2, <1>4, <1>9 DEF LoneInv, At, InHand, lifeVars
<1>11. lastSnap.at \in Nat /\ snap.at \in Nat
  <2>1. snap.at \in Nat /\ \A other \in generated : other.at \in Nat
    BY <1>2, <1>3, StampedIsSnapshot
  <2>2. NoSnapshot.at = 0
    BY DEF NoSnapshot
  <2> QED
    BY <2>1, <2>2 DEF ListInv, StampInv
<1> QED
  BY <1>2, <1>5, <1>6, <1>7, <1>8, <1>9, <1>10, <1>11 DEF ListInv

\* The steps of a loop between two syncs, and the first.
LEMMA LoopInv ==
  ASSUME ListInv, NEW l \in Loops, FetchFails(l) \/ Exit(l) \/ Tick(l) \/ Start(l)
  PROVE  ListInv'
<1>1. ListTypeOK /\ ~InHand(l) /\ loop[l].snap = NoSnapshot
      /\ UNCHANGED <<files, lastSnap, second, generated, stopped, panicked>>
  BY DEF ListInv, HandInv, FetchFails, Exit, Tick, Start, InHand, At, lifeVars
<1>2. ASSUME NEW step \in {"fetch", "exited"}, GoTo(l, step), running' \in BOOLEAN,
             ~stopped => running' /\ \A m \in Loops \ {l} : At(m, "none")
      PROVE  ListInv'
  <2>1. /\ loop'[l].pc = step /\ loop'[l].snap = loop[l].snap
        /\ \A m \in Loops \ {l} : loop'[m] = loop[m]
        /\ LoopsOK'
    BY <1>1, <1>2, LoopGoesTo DEF Steps
  <2>2. ListTypeOK'
    BY <1>1, <1>2, <2>1 DEF ListTypeOK, LoopsOK, Steps
  <2> QED
    BY <1>1, <1>2, <2>1, <2>2, BetweenSyncs
<1>3. ASSUME ~At(l, "none"), UNCHANGED running
      PROVE  /\ running' \in BOOLEAN
             /\ ~stopped => running' /\ \A m \in Loops \ {l} : At(m, "none")
  BY <1>1, <1>3 DEF ListInv, LoneInv, ListTypeOK
<1>4. CASE FetchFails(l)
  <2>1. ~At(l, "none") /\ UNCHANGED running /\ EndSync(l)
    BY <1>4 DEF FetchFails, At, lifeVars
  <2>2. /\ loop'[l].pc = "select" /\ loop'[l].snap = NoSnapshot
        /\ \A m \in Loops \ {l} : loop'[m] = loop[m]
        /\ LoopsOK'
    BY <1>1, <2>1, SyncEnds
  <2>3. ListTypeOK'
    BY <1>1, <2>1, <2>2 DEF ListTypeOK, LoopsOK, Steps
  <2> QED
    BY <1>1, <1>3, <2>1, <2>2, <2>3, BetweenSyncs
<1>5. CASE Exit(l) \/ Tick(l)
  <2>1. ~At(l, "none") /\ UNCHANGED running /\ (GoTo(l, "exited") \/ GoTo(l, "fetch"))
    BY <1>5 DEF Exit, Tick, At, lifeVars
  <2> QED
    BY <1>2, <1>3, <2>1
<1>6. CASE Start(l)
  <2>1. ~running /\ running' = TRUE /\ GoTo(l, "fetch")
    BY <1>6 DEF Start
  <2>2. ~stopped => \A m \in Loops : At(m, "none")
    BY <2>1 DEF ListInv, LoneInv
  <2> QED
    BY <1>2, <2>1, <2>2
<1> QED
  BY <1>4, <1>5, <1>6

\* Stop, the clock, and no step at all.
LEMMA LifeInv ==
  ASSUME ListInv, Stop \/ NextSecond \/ UNCHANGED listVars
  PROVE  ListInv'
<1>1. /\ ListTypeOK /\ UNCHANGED <<loop, files, lastSnap, generated>>
      /\ second' \in Seconds /\ running' \in BOOLEAN /\ stopped' \in BOOLEAN
      /\ panicked' \in BOOLEAN /\ (stopped' \/ (~stopped /\ running' = running))
  <2>1. /\ second \in Seconds /\ running \in BOOLEAN /\ stopped \in BOOLEAN
        /\ panicked \in BOOLEAN /\ ListTypeOK
    BY DEF ListInv, ListTypeOK
  <2>2. CASE Stop
    BY <2>1, <2>2, Zenon DEF Stop
  <2>3. CASE NextSecond
    <3>1. second' \in Seconds
      BY <2>1, <2>3, ListConstants DEF NextSecond, Seconds
    <3> QED
      BY <2>1, <2>3, <3>1, Zenon DEF NextSecond, lifeVars
  <2>4. CASE UNCHANGED listVars
    BY <2>1, <2>4, Zenon DEF listVars, lifeVars
  <2> QED
    BY <2>2, <2>3, <2>4
<1>2. ListTypeOK' /\ StampInv' /\ PublishedIsOnDisk'
  BY <1>1 DEF ListInv, ListTypeOK, StampInv, PublishedIsOnDisk
<1>3. \A l \in Loops : HandInv(l)' /\ DiskInv(l)'
  BY <1>1 DEF ListInv, HandInv, DiskInv, InHand, At, Shared
<1>4. LoneInv'
  BY <1>1 DEF ListInv, LoneInv, InHand, At
<1> QED
  BY <1>2, <1>3, <1>4 DEF ListInv

\* The invariant of every sync.
LEMMA ListInvStep ==
  ASSUME ListInv, [ListNext]_listVars
  PROVE  ListInv'
BY FetchInv, OpenInv, WriteInv, PublishInv, LoopInv, LifeInv DEF ListNext, SyncOnce

THEOREM ListInvariant == ListSpec => []ListInv
<1>1. ListInv /\ [ListNext]_listVars => ListInv'
  BY ListInvStep
<1> QED
  BY ListInitInv, <1>1, PTL DEF ListSpec

\* The type of the job's state.
THEOREM ListTypeCorrect == ListSpec => []ListTypeOK
<1>1. ListInv => ListTypeOK
  BY DEF ListInv
<1> QED
  BY <1>1, ListInvariant, PTL

\* However writes fail and loops overlap, the file of the snapshot that
\* LastSnapshot returns holds all of it, unless a second one was stamped in
\* the same second.
THEOREM PublishedOnDisk == ListSpec => []PublishedIsOnDisk
<1>1. ListInv => PublishedIsOnDisk
  BY DEF ListInv
<1> QED
  BY <1>1, ListInvariant, PTL

\* Until the job is stopped, LastSnapshot never goes back to an older one.
THEOREM SnapshotsMoveForward == ListSpec => LastSnapshotMovesForward
<1>1. ListInv /\ [ListNext]_listVars => [lastSnap'.at >= lastSnap.at \/ stopped]_listVars
  <2> SUFFICES ASSUME ListInv, ListNext
               PROVE  lastSnap'.at >= lastSnap.at \/ stopped
    OBVIOUS
  <2>1. lastSnap.at \in Nat
    <3>1. \A other \in generated : other.at \in Nat
      BY StampedIsSnapshot DEF ListInv
    <3>2. NoSnapshot.at = 0
      BY DEF NoSnapshot
    <3> QED
      BY <3>1, <3>2 DEF ListInv, StampInv
  <2>2. (\E l \in Loops : Publish(l)) \/ UNCHANGED lastSnap
    BY DEF ListNext, SyncOnce, FetchFails, Fetch, PersistOpen, PersistWrite, Exit, Tick, Start,
           Stop, NextSecond
  <2> QED
    BY <2>1, <2>2, PublishInv
<1> QED
  BY <1>1, ListInvariant, PTL DEF ListSpec, LastSnapshotMovesForward
=============================================================================
