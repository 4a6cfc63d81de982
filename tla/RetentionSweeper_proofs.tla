---------------------- MODULE RetentionSweeper_proofs ----------------------
(***************************************************************************)
(* Theorems about the retention sweeper, for any evidence and any number   *)
(* of goroutines.                                                          *)
(*                                                                         *)
(* DeletedDocumentsCounted counts the audit records and the sweeps on      *)
(* their way to one.  Its inductive form is DocumentsInv, without numbers: *)
(* a document that was deleted is either counted or in the hands of one    *)
(* sweep, and one that was not is neither.                                 *)
(***************************************************************************)
EXTENDS RetentionSweeper, FiniteSetTheorems, TLAPS

Steps == {"none", "select", "documents", "sessions", "audit", "exited"}

Loop == [pc : Steps, removed : SUBSET Evidence]

\* Loop l has deleted d and not recorded it yet.
Holding(l, d) == d \in loop[l].removed

\* A document in the hands of a loop is deleted and not counted, one that is
\* counted is deleted, and no two loops have deleted the same one.
DocumentsInv ==
  \A d \in Documents :
    /\ \A l \in Loops : Holding(l, d) => evidence[d] = "deleted" /\ counted[d] = 0
    /\ \A l, m \in Loops : Holding(l, d) /\ Holding(m, d) => l = m
    /\ counted[d] = 1 => evidence[d] = "deleted"
    /\ evidence[d] = "deleted" => counted[d] = 1 \/ \E l \in Loops : Holding(l, d)

\* A sweep has something in its hands only until it records it, and until the
\* channel is closed the loop at work is the one that running speaks of.
LoopsInv ==
  /\ \A l \in Loops : loop[l].removed # {} => loop[l].pc \in {"sessions", "audit"}
  /\ \A l, m \in Loops :
       (/\ ~stopped
        /\ loop[l].pc \notin {"none", "exited"} /\ loop[m].pc \notin {"none", "exited"})
         => l = m /\ running

\* Sessions are counted only together with documents, and once, too.
SessionsInv ==
  \A x \in Sessions :
    /\ counted[x] \in {0, 1}
    /\ counted[x] = 1 => evidence[x] = "deleted"
    /\ \A l \in Loops : Holding(l, x) => evidence[x] = "deleted" /\ counted[x] = 0
    /\ \A l, m \in Loops : Holding(l, x) /\ Holding(m, x) => l = m

RetentionInv == RetentionTypeOK /\ LoopsInv /\ DocumentsInv /\ SessionsInv

-----------------------------------------------------------------------------
\* The sweeper starts with nothing kept, nothing at work and nothing counted.
LEMMA InitInv == RetentionInit => RetentionInv
<1> SUFFICES ASSUME RetentionInit PROVE RetentionInv
  OBVIOUS
<1> USE DEF RetentionInit, NotStarted
<1>1. RetentionTypeOK
  <2>1. NotStarted \in Loop
    BY DEF Loop, Steps
  <2>2. loop \in [Loops -> Loop]
    BY <2>1
  <2>3. evidence \in [Evidence -> {"absent", "kept", "expired", "deleted"}]
    OBVIOUS
  <2>4. counted \in [Evidence -> 0 .. 1]
    <3>1. 0 \in 0 .. 1
      OBVIOUS
    <3> QED
      BY <3>1
  <2> QED
    BY <2>2, <2>3, <2>4 DEF RetentionTypeOK, Loop, Steps
<1>2. LoopsInv /\ DocumentsInv /\ SessionsInv
  BY DEF LoopsInv, DocumentsInv, SessionsInv, Holding, Evidence
<1> QED
  BY <1>1, <1>2 DEF RetentionInv

\* One loop's step leaves the others alone.
LEMMA LoopAfter ==
  ASSUME RetentionTypeOK, NEW l \in Loops, NEW pc \in Steps, NEW removed \in SUBSET Evidence,
         loop' = [loop EXCEPT ![l] = [pc |-> pc, removed |-> removed]]
  PROVE  /\ loop' \in [Loops -> Loop]
         /\ loop'[l].pc = pc /\ loop'[l].removed = removed
         /\ \A m \in Loops : m # l => loop'[m] = loop[m]
<1> DEFINE r == [pc |-> pc, removed |-> removed]
<1>1. r \in Loop /\ r.pc = pc /\ r.removed = removed
  BY DEF Loop
<1>2. loop \in [Loops -> Loop] /\ loop' = [loop EXCEPT ![l] = r]
  BY DEF RetentionTypeOK, Loop, Steps
<1> HIDE DEF r
<1> QED
  BY <1>1, <1>2

\* Moving on changes only the step.
LEMMA PcMoves ==
  ASSUME RetentionTypeOK, NEW l \in Loops, NEW pc,
         loop' = [loop EXCEPT ![l].pc = pc]
  PROVE  loop' = [loop EXCEPT ![l] = [pc |-> pc, removed |-> loop[l].removed]]
<1>1. loop[l] \in Loop
  BY DEF RetentionTypeOK, Loop, Steps
<1>2. [loop[l] EXCEPT !.pc = pc] = [pc |-> pc, removed |-> loop[l].removed]
  BY <1>1 DEF Loop
<1> QED
  BY <1>2

\* The steps of the ticker and of Start touch no evidence and no count.
LEMMA IdleMoves ==
  ASSUME RetentionInv, NEW l \in Loops, Tick(l) \/ Start(l)
  PROVE  RetentionInv'
<1> USE DEF RetentionInv
<1>1. PICK pc \in {"select", "documents", "exited"} :
        /\ loop' = [loop EXCEPT ![l].pc = pc]
        /\ \/ loop[l].pc = "select" /\ running' = running
           \/ loop[l] = NotStarted /\ ~running /\ running'
  BY DEF Tick, Start
<1>2. UNCHANGED <<evidence, counted, stopped, panicked>> /\ running' \in BOOLEAN
  BY DEF Tick, Start, RetentionTypeOK
<1>3. loop[l].removed = {}
  <2>1. loop[l].pc \notin {"sessions", "audit"}
    BY <1>1 DEF NotStarted
  <2> QED
    BY <2>1 DEF LoopsInv
<1>4. loop' = [loop EXCEPT ![l] = [pc |-> pc, removed |-> {}]]
  BY <1>1, <1>3, PcMoves
<1>5. /\ loop' \in [Loops -> Loop]
      /\ loop'[l].pc = pc /\ loop'[l].removed = {}
      /\ \A m \in Loops : m # l => loop'[m] = loop[m]
  <2>1. pc \in Steps /\ {} \in SUBSET Evidence
    BY DEF Steps
  <2> QED
    BY <1>4, <2>1, LoopAfter
<1>6. RetentionTypeOK'
  BY <1>2, <1>5 DEF RetentionTypeOK, Loop, Steps
<1>7. LoopsInv'
  BY <1>1, <1>2, <1>5 DEF LoopsInv, NotStarted
<1>8. \A m \in Loops, x \in Evidence : Holding(m, x)' <=> Holding(m, x)
  BY <1>3, <1>5 DEF Holding
<1>9. DocumentsInv' /\ SessionsInv'
  BY <1>2, <1>8 DEF DocumentsInv, SessionsInv, Evidence
<1> QED
  BY <1>6, <1>7, <1>9

\* A sweep of one store takes what it deletes in its hands.
LEMMA Sweeps ==
  ASSUME RetentionInv, NEW l \in Loops, NEW S \in SUBSET Evidence,
         \A x \in S : evidence[x] = "expired",
         NEW kept \in SUBSET Evidence, kept = loop[l].removed,
         NEW pc \in {"sessions", "audit"},
         loop[l].pc \in {"documents", "sessions"},
         Delete(S),
         loop' = [loop EXCEPT ![l] = [pc |-> pc, removed |-> kept \union S]],
         UNCHANGED <<counted, running, stopped, panicked>>
  PROVE  RetentionInv'
<1> USE DEF RetentionInv
<1>1. /\ loop' \in [Loops -> Loop]
      /\ loop'[l].pc = pc /\ loop'[l].removed = kept \union S
      /\ \A m \in Loops : m # l => loop'[m] = loop[m]
  <2>1. pc \in Steps /\ kept \union S \in SUBSET Evidence
    BY DEF Steps
  <2> QED
    BY <2>1, LoopAfter
<1>2. \A x \in Evidence : evidence'[x] = IF x \in S THEN "deleted" ELSE evidence[x]
  BY DEF Delete
<1>3. RetentionTypeOK'
  BY <1>1 DEF RetentionTypeOK, Delete, Loop, Steps
<1>4. LoopsInv'
  BY <1>1 DEF LoopsInv
<1>5. \A m \in Loops, x \in Evidence :
        Holding(m, x)' <=> Holding(m, x) \/ (m = l /\ x \in S)
  BY <1>1 DEF Holding
<1>6. ASSUME NEW x \in S
      PROVE  /\ evidence[x] = "expired" /\ evidence'[x] = "deleted" /\ counted'[x] = 0
             /\ \A m \in Loops : Holding(m, x)' <=> m = l
  <2>1. evidence[x] = "expired" /\ evidence'[x] = "deleted" /\ x \in Evidence
    BY <1>2
  <2>2. counted[x] \in {0, 1}
    BY <2>1 DEF RetentionTypeOK
  <2>3. counted[x] = 0 /\ \A m \in Loops : ~Holding(m, x)
    BY <2>1, <2>2 DEF DocumentsInv, SessionsInv, Evidence
  <2> QED
    BY <2>1, <2>3, <1>5
<1>7. ASSUME NEW x \in Evidence \ S
      PROVE  /\ evidence'[x] = evidence[x] /\ counted'[x] = counted[x]
             /\ \A m \in Loops : Holding(m, x)' <=> Holding(m, x)
  BY <1>2, <1>5
<1>8. DocumentsInv'
  BY <1>6, <1>7 DEF DocumentsInv, Evidence
<1>9. SessionsInv'
  BY <1>6, <1>7 DEF SessionsInv, Evidence
<1> QED
  BY <1>3, <1>4, <1>8, <1>9

\* The audit record lets go of what it counts.
LEMMA Records ==
  ASSUME RetentionInv, NEW l \in Loops, RecordSweep(l)
  PROVE  RetentionInv'
<1> USE DEF RetentionInv
<1>1. /\ loop' \in [Loops -> Loop]
      /\ loop'[l].pc = "select" /\ loop'[l].removed = {}
      /\ \A m \in Loops : m # l => loop'[m] = loop[m]
  <2>1. "select" \in Steps /\ {} \in SUBSET Evidence
    BY DEF Steps
  <2> QED
    BY <2>1, LoopAfter DEF RecordSweep
<1>2. UNCHANGED <<evidence, running, stopped, panicked>> /\ loop[l].pc = "audit"
  BY DEF RecordSweep
<1>3. \A m \in Loops, x \in Evidence : Holding(m, x)' <=> Holding(m, x) /\ m # l
  BY <1>1 DEF Holding
<1>4. \A x \in Evidence : counted[x] \in {0, 1}
  BY DEF RetentionTypeOK
<1>5. \A x \in Evidence : Holding(l, x) => counted[x] = 0
  BY DEF DocumentsInv, SessionsInv, Evidence
<1>6. CASE WorthRecording(loop[l].removed)
  <2>1. counted' = [x \in Evidence |-> counted[x] + (IF x \in loop[l].removed THEN 1 ELSE 0)]
    BY <1>6 DEF RecordSweep
  <2>2. \A x \in Evidence : counted'[x] = IF Holding(l, x) THEN 1 ELSE counted[x]
    BY <2>1, <1>4, <1>5 DEF Holding
  <2>3. counted' \in [Evidence -> 0 .. 1]
    BY <2>1, <2>2, <1>4
  <2>4. RetentionTypeOK' /\ LoopsInv'
    BY <1>1, <1>2, <2>3 DEF RetentionTypeOK, LoopsInv, Loop, Steps
  <2>5. DocumentsInv'
    BY <1>2, <1>3, <2>2 DEF DocumentsInv, Evidence
  <2>6. SessionsInv'
    BY <1>2, <1>3, <1>4, <2>2 DEF SessionsInv, Evidence
  <2> QED
    BY <2>4, <2>5, <2>6
<1>7. CASE ~WorthRecording(loop[l].removed)
  <2>1. counted' = counted
    BY <1>7 DEF RecordSweep
  <2>2. \A d \in Documents : ~Holding(l, d)
    BY <1>7 DEF WorthRecording, Holding
  <2>3. RetentionTypeOK' /\ LoopsInv'
    BY <1>1, <1>2, <2>1 DEF RetentionTypeOK, LoopsInv, Loop, Steps
  <2>4. DocumentsInv'
    BY <1>2, <1>3, <2>1, <2>2 DEF DocumentsInv, Evidence
  <2>5. SessionsInv'
    BY <1>2, <1>3, <2>1 DEF SessionsInv, Evidence
  <2> QED
    BY <2>3, <2>4, <2>5
<1> QED
  BY <1>6, <1>7

\* Every step of the sweeper and of what surrounds it keeps the invariant.
LEMMA StepInv ==
  ASSUME RetentionInv, RetentionNext
  PROVE  RetentionInv'
<1> USE DEF RetentionInv
<1>1. ASSUME NEW x \in Evidence, Record(x) \/ Expire(x)
      PROVE  RetentionInv'
  <2>1. /\ evidence[x] # "deleted"
        /\ \E e \in {"kept", "expired"} : evidence' = [evidence EXCEPT ![x] = e]
        /\ UNCHANGED <<loop, counted, running, stopped, panicked>>
    BY <1>1 DEF Record, Expire
  <2>2. RetentionTypeOK' /\ LoopsInv'
    BY <2>1 DEF RetentionTypeOK, LoopsInv
  <2>3. \A y \in Evidence :
          /\ evidence'[y] = "deleted" <=> evidence[y] = "deleted"
          /\ \A l \in Loops : Holding(l, y)' <=> Holding(l, y)
    BY <2>1 DEF RetentionTypeOK, Holding
  <2>4. DocumentsInv' /\ SessionsInv'
    BY <2>1, <2>3 DEF DocumentsInv, SessionsInv, Evidence
  <2> QED
    BY <2>2, <2>4
<1>2. ASSUME NEW l \in Loops, SweepDocuments(l)
      PROVE  RetentionInv'
  <2>1. loop[l].removed = {} /\ Expired(Documents) \in SUBSET Evidence
    BY <1>2 DEF SweepDocuments, LoopsInv, Expired, Evidence
  <2> QED
    BY <1>2, <2>1, Sweeps DEF SweepDocuments, Expired
<1>3. ASSUME NEW l \in Loops, SweepSessions(l)
      PROVE  RetentionInv'
  <2>1. loop[l].removed \in SUBSET Evidence /\ Expired(Sessions) \in SUBSET Evidence
    BY DEF RetentionTypeOK, Expired, Evidence
  <2>2. loop' = [loop EXCEPT ![l] =
                   [pc |-> "audit", removed |-> loop[l].removed \union Expired(Sessions)]]
    BY <1>3 DEF SweepSessions
  <2> QED
    BY <1>3, <2>1, <2>2, Sweeps DEF SweepSessions, Expired
<1>4. CASE Stop
  <2>1. UNCHANGED <<evidence, loop, counted>> /\ (stopped' \/ running' = running)
        /\ (stopped => stopped')
        /\ running' \in BOOLEAN /\ stopped' \in BOOLEAN /\ panicked' \in BOOLEAN
    BY <1>4 DEF Stop, RetentionTypeOK
  <2>2. RetentionTypeOK' /\ LoopsInv'
    BY <2>1 DEF RetentionTypeOK, LoopsInv
  <2>3. DocumentsInv' /\ SessionsInv'
    BY <2>1 DEF DocumentsInv, SessionsInv, Holding
  <2> QED
    BY <2>2, <2>3
<1> QED
  BY <1>1, <1>2, <1>3, <1>4, IdleMoves, Records DEF RetentionNext, Sweeping

\* The invariant of every sweeper.
THEOREM RetentionInvariant == RetentionSpec => []RetentionInv
<1>1. RetentionInv /\ UNCHANGED retentionVars => RetentionInv'
  BY DEF RetentionInv, RetentionTypeOK, LoopsInv, DocumentsInv, SessionsInv, Holding,
         retentionVars
<1>2. RetentionInv /\ [RetentionNext]_retentionVars => RetentionInv'
  BY <1>1, StepInv
<1> QED
  BY InitInv, <1>2, PTL DEF RetentionSpec

\* Whatever sweeps overlap, at most one audit record counts a piece of
\* evidence, and the rest of the state keeps its type.
THEOREM RetentionTypeCorrect == RetentionSpec => []RetentionTypeOK
<1>1. RetentionInv => RetentionTypeOK
  BY DEF RetentionInv
<1> QED
  BY <1>1, RetentionInvariant, PTL

\* Start's guard keeps a second loop out until Stop.
THEOREM OneLoop == RetentionSpec => []OneLoopAtWork
<1>1. RetentionInv => OneLoopAtWork
  <2> DEFINE S == {l \in Loops : loop[l].pc \notin {"none", "exited"}}
  <2> SUFFICES ASSUME RetentionInv, ~stopped
               PROVE  ~(Cardinality(S) > 1)
    BY DEF OneLoopAtWork
  <2>1. \A l, m \in S : l = m
    BY DEF RetentionInv, LoopsInv
  <2> HIDE DEF S
  <2>2. CASE S = {}
    BY <2>2, FS_EmptySet
  <2>3. CASE S # {}
    <3>1. PICK l \in S : TRUE
      BY <2>3
    <3>2. S = {l}
      BY <2>1, <3>1
    <3> QED
      BY <3>2, FS_Singleton
  <2> QED
    BY <2>2, <2>3
<1> QED
  BY <1>1, RetentionInvariant, PTL

\* Every deleted document is counted by one audit record, or about to be, and
\* nothing that exists is: deleting and recording are critical sections apart.
THEOREM DocumentsCounted == RetentionSpec => []DeletedDocumentsCounted
<1>1. RetentionInv => DeletedDocumentsCounted
  <2> SUFFICES ASSUME RetentionInv, NEW d \in Documents
               PROVE  counted[d] + Holders(d) = IF evidence[d] = "deleted" THEN 1 ELSE 0
    BY DEF DeletedDocumentsCounted
  <2> DEFINE S == {l \in Loops : Holding(l, d)}
  <2>1. Holders(d) = Cardinality(S)
    BY DEF Holders, Holding
  <2>2. counted[d] \in {0, 1}
    BY DEF RetentionInv, RetentionTypeOK, Evidence
  <2>3. CASE S = {}
    <3>1. Holders(d) = 0
      BY <2>1, <2>3, FS_EmptySet
    <3>2. \A l \in Loops : ~Holding(l, d)
      BY <2>3
    <3> QED
      BY <2>2, <3>1, <3>2 DEF RetentionInv, DocumentsInv
  <2>4. CASE S # {}
    <3>1. PICK l \in Loops : Holding(l, d)
      BY <2>4
    <3>2. S = {l} /\ evidence[d] = "deleted" /\ counted[d] = 0
      BY <3>1 DEF RetentionInv, DocumentsInv
    <3>3. Holders(d) = 1
      BY <2>1, <3>2, FS_Singleton
    <3> QED
      BY <3>2, <3>3
  <2> QED
    BY <2>3, <2>4
<1> QED
  BY <1>1, RetentionInvariant, PTL
=============================================================================
