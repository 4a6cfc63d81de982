------------------------- MODULE Migrations_proofs -------------------------
(***************************************************************************)
(* Theorems about the migration runner, for every number of migrations and *)
(* of processes that run it.                                               *)
(*                                                                         *)
(* MigrationsInv says what a run may rely on while the record is not wrong *)
(* for good: an instance records only what is in effect, and one that was  *)
(* not undercut has the versions it has passed in effect, because no       *)
(* rollback stands between its file and its row while that instance runs.  *)
(***************************************************************************)
EXTENDS Migrations, WellFoundedInduction, TLAPS

\* A non-empty set of numbers with an upper bound has a greatest element: what
\* MAX(version) rests on.
LEMMA Greatest ==
  ASSUME NEW S \in SUBSET Nat, S # {}, NEW m \in Nat, \A x \in S : x <= m
  PROVE  \E x \in S : \A y \in S : y <= x
<1> DEFINE T == {m - x : x \in S}
<1>1. \A x \in S : m - x \in Nat
  OBVIOUS
<1>2. T \subseteq Nat /\ T # {}
  <2> HIDE DEF T
  <2>1. T \subseteq Nat
    BY <1>1 DEF T
  <2>2. T # {}
    BY DEF T
  <2> QED
    BY <2>1, <2>2
<1>3. \E t \in T : \A v \in T : ~ (<<v, t>> \in OpToRel(<, Nat))
  BY <1>2, WFMin, NatLessThanWellFounded, Zenon
<1>4. \A v, w \in Nat : <<v, w>> \in OpToRel(<, Nat) <=> v < w
  BY DEF OpToRel
<1>5. PICK t \in T : \A v \in T : ~(v < t)
  BY <1>2, <1>3, <1>4
<1>6. PICK x \in S : t = m - x
  OBVIOUS
<1>7. ASSUME NEW y \in S PROVE y <= x
  <2>1. m - y \in T /\ ~(m - y < t)
    BY <1>5
  <2> QED
    BY <2>1, <1>6
<1> QED
  BY <1>7

Run ==
  [pc : {"off", "ensure", "check", "exec", "record", "latest", "undo", "unrecord",
         "failed", "done"},
   version : 0 .. N + 1, unapplied : BOOLEAN]

\* Instances run MigrateUp and operators MigrateDown, on versions there are.
StepsInv ==
  /\ \A p \in Instances : InProgress(p) =>
       /\ run[p].pc \in {"ensure", "check", "exec", "record"}
       /\ At(p, "check") => run[p].version # 0
  /\ \A o \in Operators : InProgress(o) =>
       run[o].pc \in {"ensure", "latest", "undo", "unrecord"}
  /\ \A p \in Processes :
       run[p].pc \in {"exec", "record", "undo", "unrecord"} => run[p].version \in Versions

\* What an instance is about to record is in effect.
RecordsWhatIs ==
  ~torn => \A p \in Instances : At(p, "record") => run[p].version \in schema

\* No rollback stands between its file and its row beneath such an instance.
UncutInv ==
  \A p \in Instances : InProgress(p) /\ p \notin undercut => ~RollbackHalfDone

\* The versions such an instance has passed are in effect.
PassedInEffect ==
  ~torn =>
    \A p \in Instances :
      (run[p].pc \in {"check", "exec", "record"} /\ p \notin undercut) =>
        \A w \in Versions : w < run[p].version => w \in schema

MigrationsInv ==
  /\ MigrationsTypeOK /\ StepsInv
  /\ RecordsWhatIs /\ UncutInv /\ PassedInEffect
  /\ RecordedIsInEffect

-----------------------------------------------------------------------------
\* Nothing runs and nothing is recorded at first.
LEMMA InitInv == MigrationsInit => MigrationsInv
<1> SUFFICES ASSUME MigrationsInit PROVE MigrationsInv
  OBVIOUS
<1> USE MigrationConstants DEF MigrationsInit
<1>1. Off \in Run /\ Off.pc = "off"
  BY DEF Off, Run
<1>2. run \in [Processes -> Run] /\ \A p \in Processes : run[p].pc = "off"
  BY <1>1
<1>3. MigrationsTypeOK
  <2>1. 0 \in 0 .. MaxCrashes /\ 0 \in 0 .. MaxDowns
    OBVIOUS
  <2> QED
    BY <1>2, <2>1 DEF MigrationsTypeOK, Run
<1>4. \A p \in Processes : ~InProgress(p)
  BY <1>2 DEF InProgress
<1>5. StepsInv /\ RecordsWhatIs /\ UncutInv /\ PassedInEffect
  BY <1>2, <1>4 DEF StepsInv, RecordsWhatIs, UncutInv, PassedInEffect, At, Processes
<1>6. RecordedIsInEffect
  BY DEF RecordedIsInEffect
<1> QED
  BY <1>3, <1>5, <1>6 DEF MigrationsInv

\* A process that goes somewhere leaves the others where they are.
LEMMA RunAfter ==
  ASSUME MigrationsTypeOK, NEW p \in Processes, NEW r \in Run,
         run' = [run EXCEPT ![p] = r]
  PROVE  /\ run' \in [Processes -> Run] /\ run'[p] = r
         /\ \A q \in Processes : q # p => run'[q] = run[q]
BY DEF MigrationsTypeOK, Run

\* GotoCreate is such a step.
LEMMA GotoCreateAfter ==
  ASSUME MigrationsTypeOK, NEW p \in Processes, NEW version \in 0 .. N + 1,
         NEW needed \in BOOLEAN,
         NEW pc \in {"off", "ensure", "check", "exec", "record", "latest", "undo",
                     "unrecord", "failed", "done"},
         GotoCreate(p, pc, version, needed)
  PROVE  /\ run' \in [Processes -> Run]
         /\ run'[p].pc = pc /\ run'[p].version = version
         /\ \A q \in Processes : q # p => run'[q] = run[q]
<1> DEFINE r == [pc |-> pc, version |-> version, unapplied |-> needed]
<1>1. r \in Run /\ r.pc = pc /\ r.version = version
  BY DEF Run
<1>2. run' = [run EXCEPT ![p] = r]
  BY DEF GotoCreate
<1> HIDE DEF r
<1> QED
  BY <1>1, <1>2, RunAfter

\* So is Goto.
LEMMA GotoAfter ==
  ASSUME MigrationsTypeOK, NEW p \in Processes, NEW version \in 0 .. N + 1,
         NEW pc \in {"off", "ensure", "check", "exec", "record", "latest", "undo",
                     "unrecord", "failed", "done"},
         Goto(p, pc, version)
  PROVE  /\ run' \in [Processes -> Run]
         /\ run'[p].pc = pc /\ run'[p].version = version
         /\ \A q \in Processes : q # p => run'[q] = run[q]
<1>1. GotoCreate(p, pc, version, FALSE)
  BY DEF Goto, GotoCreate
<1> QED
  BY <1>1, GotoCreateAfter

-----------------------------------------------------------------------------
\* What the steps of an instance have in common, its start included: no
\* rollback moves, nothing goes out of effect, and the instance may pass a
\* version or come to record one only if it is in effect.
LEMMA UpStepsInv ==
  ASSUME MigrationsInv, NEW p \in Instances,
         run' \in [Processes -> Run], \A q \in Processes : q # p => run'[q] = run[q],
         run'[p].pc \in {"ensure", "check", "exec", "record", "failed", "done"},
         run'[p].pc = "check" => run'[p].version # 0,
         run'[p].pc \in {"exec", "record"} => run'[p].version \in Versions,
         schema \subseteq schema', schema' \subseteq Versions,
         recorded' \subseteq Versions, tracked' \in BOOLEAN,
         UNCHANGED <<crashes, downs, torn>>,
         undercut' \subseteq Instances,
         \A q \in Instances : q # p => (q \in undercut' <=> q \in undercut),
         InProgress(p)' /\ p \notin undercut' => ~RollbackHalfDone,
         ~torn =>
           /\ recorded' \subseteq recorded \union schema'
           /\ At(p, "record")' => run'[p].version \in schema'
           /\ (run'[p].pc \in {"check", "exec", "record"} /\ p \notin undercut') =>
                \A w \in Versions : w < run'[p].version => w \in schema'
  PROVE  MigrationsInv'
<1> USE MigrationConstants DEF MigrationsInv
<1>1. \A q \in Instances : q # p => run'[q] = run[q]
  BY DEF Processes
<1>2. \A o \in Operators : o # p /\ run'[o] = run[o]
  BY DEF Processes
<1>3. RollbackHalfDone' <=> RollbackHalfDone
  BY <1>2 DEF RollbackHalfDone, At
<1>4. MigrationsTypeOK'
  BY DEF MigrationsTypeOK, Run
<1>5. StepsInv'
  BY <1>1, <1>2 DEF StepsInv, InProgress, At, Processes
<1>6. RecordsWhatIs'
  BY <1>1 DEF RecordsWhatIs, At
<1>7. UncutInv'
  <2>1. ASSUME NEW q \in Instances, q # p, InProgress(q)', q \notin undercut'
        PROVE  ~RollbackHalfDone
    BY <1>1, <2>1 DEF UncutInv, InProgress
  <2> QED
    BY <1>3, <2>1 DEF UncutInv
<1>8. PassedInEffect'
  <2>1. ASSUME ~torn, NEW q \in Instances, q # p, q \notin undercut',
               run'[q].pc \in {"check", "exec", "record"}
        PROVE  \A w \in Versions : w < run'[q].version => w \in schema'
    BY <1>1, <2>1 DEF PassedInEffect
  <2> QED
    BY <2>1 DEF PassedInEffect
<1>9. RecordedIsInEffect'
  <2>1. ASSUME ~torn, NEW v \in recorded' \ schema'
        PROVE  \E o \in Operators : At(o, "unrecord")' /\ run'[o].version = v
    <3>1. v \in recorded \ schema
      BY <2>1
    <3>2. PICK o \in Operators : At(o, "unrecord") /\ run[o].version = v
      BY <2>1, <3>1 DEF RecordedIsInEffect
    <3> QED
      BY <1>2, <3>2 DEF At
  <2> QED
    BY <2>1 DEF RecordedIsInEffect
<1> QED
  BY <1>4, <1>5, <1>6, <1>7, <1>8, <1>9

\* An instance starts, undercut if a rollback is between its file and its row.
LEMMA StartInv ==
  ASSUME MigrationsInv, NEW p \in Instances, Start(p)
  PROVE  MigrationsInv'
<1> USE MigrationConstants
<1>1. /\ MigrationsTypeOK /\ p \in Processes /\ 0 \in 0 .. N + 1
      /\ tracked \in BOOLEAN /\ undercut \subseteq Instances
      /\ schema \subseteq Versions /\ recorded \subseteq Versions
  BY DEF MigrationsInv, MigrationsTypeOK, Processes
<1>2. /\ GotoCreate(p, "ensure", 0, ~tracked)
      /\ undercut' = IF RollbackHalfDone THEN undercut \union {p} ELSE undercut \ {p}
      /\ UNCHANGED <<schema, tracked, recorded, crashes, downs, torn>>
  BY DEF Start
<1>3. (~tracked) \in BOOLEAN
  OBVIOUS
<1>4. /\ run' \in [Processes -> Run] /\ run'[p].pc = "ensure"
      /\ \A q \in Processes : q # p => run'[q] = run[q]
  BY <1>1, <1>2, <1>3, GotoCreateAfter
<1>5. ~At(p, "record")'
  BY <1>4 DEF At
<1> QED
  BY <1>1, <1>2, <1>4, <1>5, UpStepsInv

\* What an instance in progress knows before its step.
LEMMA UpKnows ==
  ASSUME MigrationsInv, NEW p \in Instances, InProgress(p)
  PROVE  /\ p \in Processes /\ MigrationsTypeOK
         /\ run[p].pc \in {"exec", "record"} => run[p].version \in Versions
         /\ At(p, "check") => run[p].version \in 1 .. N + 1
         /\ schema \subseteq Versions /\ recorded \subseteq Versions
         /\ tracked \in BOOLEAN /\ undercut \subseteq Instances
         /\ p \notin undercut => ~RollbackHalfDone
         /\ ~torn /\ At(p, "record") => run[p].version \in schema
         /\ ~torn /\ p \notin undercut => recorded \subseteq schema
         /\ ~torn /\ p \notin undercut /\ run[p].pc \in {"check", "exec", "record"} =>
              \A w \in Versions : w < run[p].version => w \in schema
<1> USE MigrationConstants DEF MigrationsInv
<1>1. p \in Processes /\ run[p] \in Run
  BY DEF MigrationsTypeOK, Run, Processes
<1>2. run[p].pc \in {"exec", "record"} => run[p].version \in Versions
  BY <1>1 DEF StepsInv
<1>3. At(p, "check") => run[p].version \in 1 .. N + 1
  <2>1. run[p].version \in 0 .. N + 1
    BY <1>1 DEF Run
  <2>2. At(p, "check") => run[p].version # 0
    BY DEF StepsInv
  <2> QED
    BY <2>1, <2>2
<1>4. /\ schema \subseteq Versions /\ recorded \subseteq Versions
      /\ tracked \in BOOLEAN /\ undercut \subseteq Instances
  BY DEF MigrationsTypeOK
<1>5. p \notin undercut => ~RollbackHalfDone
  BY DEF UncutInv
<1>6. ~torn /\ At(p, "record") => run[p].version \in schema
  BY DEF RecordsWhatIs
<1>7. ~torn /\ p \notin undercut => recorded \subseteq schema
  BY <1>5 DEF RecordedIsInEffect, RollbackHalfDone
<1>8. ~torn /\ p \notin undercut /\ run[p].pc \in {"check", "exec", "record"} =>
        \A w \in Versions : w < run[p].version => w \in schema
  BY DEF PassedInEffect
<1> QED
  BY <1>1, <1>2, <1>3, <1>4, <1>5, <1>6, <1>7, <1>8

\* The tracking table, and the SELECT of the next version.
LEMMA CheckInv ==
  ASSUME MigrationsInv, NEW p \in Instances, Ensure(p) \/ EnsureFails(p) \/ Check(p)
  PROVE  MigrationsInv'
<1> USE MigrationConstants
<1> DEFINE v == run[p].version
<1>1. InProgress(p)
  BY DEF Ensure, EnsureFails, Check, At, InProgress
<1>2. /\ UNCHANGED <<schema, recorded, crashes, downs, torn, undercut>>
      /\ tracked' \in BOOLEAN
  BY <1>1, UpKnows DEF Ensure, EnsureFails, Check, histVars
<1>3. ASSUME NEW pc \in {"check", "failed", "done"}, NEW w \in 0 .. N + 1, Goto(p, pc, w),
             pc = "check" => w # 0,
             ~torn /\ p \notin undercut /\ pc = "check" =>
               \A x \in Versions : x < w => x \in schema
      PROVE  MigrationsInv'
  <2>1. /\ run' \in [Processes -> Run] /\ run'[p].pc = pc /\ run'[p].version = w
        /\ \A q \in Processes : q # p => run'[q] = run[q]
    BY <1>1, <1>3, UpKnows, GotoAfter
  <2>2. ~At(p, "record")'
    BY <2>1 DEF At
  <2> QED
    BY <1>1, <1>2, <1>3, <2>1, <2>2, UpKnows, UpStepsInv
<1>4. CASE Ensure(p)
  <2>1. Goto(p, "check", 1) /\ 1 \in 0 .. N + 1 /\ \A x \in Versions : ~(x < 1)
    BY <1>4 DEF Ensure, Versions
  <2> QED
    BY <1>3, <2>1
<1>5. CASE EnsureFails(p)
  <2>1. Goto(p, "failed", 0) /\ 0 \in 0 .. N + 1
    BY <1>5 DEF EnsureFails
  <2> QED
    BY <1>3, <2>1
<1>6. CASE Check(p) /\ v \notin Versions
  <2>1. Goto(p, "done", 0) /\ 0 \in 0 .. N + 1
    BY <1>6 DEF Check
  <2> QED
    BY <1>3, <2>1
<1>7. CASE Check(p) /\ v \in Versions /\ IsRecorded(v)
  <2>1. Goto(p, "check", v + 1) /\ v + 1 \in 0 .. N + 1 /\ v + 1 # 0
    BY <1>7 DEF Check, Versions
  <2>2. run[p].pc = "check"
    BY <1>7 DEF Check, At
  <2>3. ~torn /\ p \notin undercut => \A x \in Versions : x < v + 1 => x \in schema
    <3>1. ~torn /\ p \notin undercut => v \in schema /\ \A x \in Versions : x < v => x \in schema
      BY <1>1, <1>7, <2>2, UpKnows DEF IsRecorded
    <3> QED
      BY <1>7, <3>1 DEF Versions
  <2> QED
    BY <1>3, <2>1, <2>3
<1>8. CASE Check(p) /\ v \in Versions /\ ~IsRecorded(v)
  <2>1. GotoCreate(p, "exec", v, v \notin schema)
    BY <1>8 DEF Check
  <2>2. /\ run' \in [Processes -> Run] /\ run'[p].pc = "exec" /\ run'[p].version = v
        /\ \A q \in Processes : q # p => run'[q] = run[q]
    <3>1. v \in 0 .. N + 1 /\ (v \notin schema) \in BOOLEAN
      BY <1>8 DEF Versions
    <3> QED
      BY <1>1, <2>1, <3>1, UpKnows, GotoCreateAfter
  <2>3. ~At(p, "record")' /\ run[p].pc = "check"
    BY <1>8, <2>2 DEF Check, At
  <2> QED
    BY <1>1, <1>2, <1>8, <2>2, <2>3, UpKnows, UpStepsInv
<1> QED
  BY <1>4, <1>5, <1>6, <1>7, <1>8

\* The file takes effect, or fails and leaves nothing behind.
LEMMA ExecInv ==
  ASSUME MigrationsInv, NEW p \in Instances, Exec(p) \/ ExecFails(p)
  PROVE  MigrationsInv'
<1> USE MigrationConstants
<1> DEFINE v == run[p].version
<1>1. InProgress(p) /\ v \in Versions /\ run[p].pc = "exec"
  BY UpKnows DEF Exec, ExecFails, At, InProgress
<1>2. CASE Exec(p)
  <2>1. Goto(p, "record", v) /\ v \in 0 .. N + 1 /\ schema' = schema \union {v}
        /\ UNCHANGED <<tracked, recorded, crashes, downs, torn, undercut>>
    BY <1>1, <1>2 DEF Exec, Versions, histVars
  <2>2. /\ run' \in [Processes -> Run] /\ run'[p].pc = "record" /\ run'[p].version = v
        /\ \A q \in Processes : q # p => run'[q] = run[q]
    BY <1>1, <2>1, UpKnows, GotoAfter
  <2> QED
    BY <1>1, <2>1, <2>2, UpKnows, UpStepsInv
<1>3. CASE ExecFails(p)
  <2>1. Goto(p, "failed", 0) /\ 0 \in 0 .. N + 1
        /\ UNCHANGED <<schema, tracked, recorded, crashes, downs, torn, undercut>>
    BY <1>3 DEF ExecFails, histVars
  <2>2. /\ run' \in [Processes -> Run] /\ run'[p].pc = "failed"
        /\ \A q \in Processes : q # p => run'[q] = run[q]
    BY <1>1, <2>1, UpKnows, GotoAfter
  <2>3. ~InProgress(p)' /\ ~At(p, "record")'
    BY <2>2 DEF InProgress, At
  <2> QED
    BY <1>1, <2>1, <2>2, <2>3, UpKnows, UpStepsInv
<1> QED
  BY <1>2, <1>3

\* The INSERT, or its refusal by the primary key.
LEMMA RecordInv ==
  ASSUME MigrationsInv, NEW p \in Instances, RecordVersion(p)
  PROVE  MigrationsInv'
<1> USE MigrationConstants
<1> DEFINE v == run[p].version
<1>1. InProgress(p) /\ v \in Versions /\ run[p].pc = "record" /\ At(p, "record")
  BY UpKnows DEF RecordVersion, At, InProgress
<1>2. UNCHANGED <<schema, tracked, crashes, downs, torn, undercut>>
  BY DEF RecordVersion, histVars
<1>3. CASE v \in recorded
  <2>1. Goto(p, "failed", 0) /\ 0 \in 0 .. N + 1 /\ recorded' = recorded
    BY <1>3 DEF RecordVersion
  <2>2. /\ run' \in [Processes -> Run] /\ run'[p].pc = "failed"
        /\ \A q \in Processes : q # p => run'[q] = run[q]
    BY <1>1, <2>1, UpKnows, GotoAfter
  <2>3. ~InProgress(p)' /\ ~At(p, "record")'
    BY <2>2 DEF InProgress, At
  <2> QED
    BY <1>1, <1>2, <2>1, <2>2, <2>3, UpKnows, UpStepsInv
<1>4. CASE v \notin recorded
  <2>1. Goto(p, "check", v + 1) /\ v + 1 \in 0 .. N + 1 /\ v + 1 # 0
        /\ recorded' = recorded \union {v}
    BY <1>1, <1>4 DEF RecordVersion, Versions
  <2>2. /\ run' \in [Processes -> Run] /\ run'[p].pc = "check" /\ run'[p].version = v + 1
        /\ \A q \in Processes : q # p => run'[q] = run[q]
    BY <1>1, <2>1, UpKnows, GotoAfter
  <2>3. ~torn => v \in schema
    BY <1>1, UpKnows
  <2>4. ~torn /\ p \notin undercut => \A w \in Versions : w < v + 1 => w \in schema
    <3>1. ~torn /\ p \notin undercut => \A w \in Versions : w < v => w \in schema
      BY <1>1, UpKnows
    <3> QED
      BY <1>1, <2>3, <3>1 DEF Versions
  <2>5. ~At(p, "record")'
    BY <2>2 DEF At
  <2> QED
    BY <1>1, <1>2, <2>1, <2>2, <2>3, <2>4, <2>5, UpKnows, UpStepsInv
<1> QED
  BY <1>3, <1>4

-----------------------------------------------------------------------------
\* MAX(version) of what is recorded, or nothing.
LEMMA LatestCases ==
  ASSUME MigrationsTypeOK
  PROVE  \/ recorded = {} /\ Latest = 0
         \/ /\ Latest \in recorded /\ Latest # 0 /\ Latest \in Versions
            /\ \A v \in recorded : v <= Latest
<1> USE MigrationConstants
<1>1. recorded \subseteq Nat /\ (\A v \in recorded : v <= N) /\ recorded \subseteq Versions
      /\ 0 \notin recorded
  BY DEF MigrationsTypeOK, Versions
<1>2. CASE recorded # {}
  <2>1. \E v \in recorded : \A w \in recorded : w <= v
    BY <1>1, <1>2, Greatest
  <2>2. Latest = CHOOSE v \in recorded : \A w \in recorded : w <= v
    BY <1>2 DEF Latest
  <2>3. Latest \in recorded /\ \A v \in recorded : v <= Latest
    BY <2>1, <2>2
  <2> QED
    BY <1>1, <2>3
<1> QED
  BY <1>2 DEF Latest

\* What the steps of an operator have in common.  Only the down file takes
\* anything out of effect, and then it notes whom it undercuts.
LEMMA DownStepsInv ==
  ASSUME MigrationsInv, NEW o \in Operators,
         run' \in [Processes -> Run], \A q \in Processes : q # o => run'[q] = run[q],
         run'[o].pc \in {"ensure", "latest", "undo", "unrecord", "failed", "done"},
         run'[o].pc \in {"undo", "unrecord"} => run'[o].version \in Versions,
         UNCHANGED <<schema, crashes, histVars>>,
         recorded' \subseteq recorded, tracked' \in BOOLEAN, downs' \in 0 .. MaxDowns,
         At(o, "unrecord")' => At(o, "unrecord"),
         At(o, "unrecord") => run[o].version \notin recorded'
  PROVE  MigrationsInv'
<1> USE MigrationConstants DEF MigrationsInv, histVars
<1>1. \A q \in Instances : q # o /\ run'[q] = run[q]
  BY DEF Processes
<1>2. \A q \in Operators : q # o => run'[q] = run[q]
  BY DEF Processes
<1>3. RollbackHalfDone' => RollbackHalfDone
  BY <1>2 DEF RollbackHalfDone, At
<1>4. MigrationsTypeOK'
  BY DEF MigrationsTypeOK, Run
<1>5. StepsInv'
  BY <1>1, <1>2 DEF StepsInv, InProgress, At, Processes
<1>6. RecordsWhatIs' /\ UncutInv' /\ PassedInEffect'
  BY <1>1, <1>3 DEF RecordsWhatIs, UncutInv, PassedInEffect, At, InProgress
<1>7. RecordedIsInEffect'
  <2>1. ASSUME ~torn, NEW v \in recorded' \ schema
        PROVE  \E q \in Operators : At(q, "unrecord")' /\ run'[q].version = v
    <3>1. PICK q \in Operators : At(q, "unrecord") /\ run[q].version = v
      BY <2>1 DEF RecordedIsInEffect
    <3>2. q # o
      BY <3>1
    <3> QED
      BY <1>2, <3>1, <3>2 DEF At
  <2> QED
    BY <2>1 DEF RecordedIsInEffect
<1> QED
  BY <1>4, <1>5, <1>6, <1>7

\* An operator looks for what was recorded last, gives up, or has done.
LEMMA DownInv ==
  ASSUME MigrationsInv, NEW o \in Operators,
         \/ StartDown(o) \/ Ensure(o) \/ EnsureFails(o)
         \/ FindLatest(o) \/ UndoFails(o) \/ Unrecord(o)
  PROVE  MigrationsInv'
<1> USE MigrationConstants
<1>1. /\ MigrationsTypeOK /\ o \in Processes /\ o \notin Instances /\ 0 \in 0 .. N + 1
      /\ tracked \in BOOLEAN /\ downs \in 0 .. MaxDowns
  BY DEF MigrationsInv, MigrationsTypeOK, Processes
<1>2. CASE StartDown(o)
  <2>1. GotoCreate(o, "ensure", 0, ~tracked) /\ (~tracked) \in BOOLEAN
    BY <1>2 DEF StartDown
  <2>2. /\ run' \in [Processes -> Run] /\ run'[o].pc = "ensure"
        /\ \A q \in Processes : q # o => run'[q] = run[q]
    BY <1>1, <2>1, GotoCreateAfter
  <2>3. ~At(o, "unrecord")' /\ ~At(o, "unrecord")
    BY <1>2, <2>2 DEF StartDown, At, InProgress
  <2>4. /\ UNCHANGED <<schema, tracked, recorded, crashes, histVars>>
        /\ downs' \in 0 .. MaxDowns
    BY <1>1, <1>2 DEF StartDown
  <2> QED
    BY <1>1, <2>2, <2>3, <2>4, DownStepsInv
<1>3. ASSUME NEW pc \in {"latest", "undo", "failed", "done"}, NEW v \in 0 .. N + 1,
             Goto(o, pc, v), pc = "undo" => v \in Versions,
             UNCHANGED <<schema, crashes, downs, histVars>>,
             recorded' \subseteq recorded, tracked' \in BOOLEAN,
             At(o, "unrecord") => run[o].version \notin recorded'
      PROVE  MigrationsInv'
  <2>1. /\ run' \in [Processes -> Run] /\ run'[o].pc = pc /\ run'[o].version = v
        /\ \A q \in Processes : q # o => run'[q] = run[q]
    BY <1>1, <1>3, GotoAfter
  <2>2. ~At(o, "unrecord")'
    BY <2>1 DEF At
  <2> QED
    BY <1>1, <1>3, <2>1, <2>2, DownStepsInv
<1>4. CASE Ensure(o)
  <2>1. /\ Goto(o, "latest", 0) /\ ~At(o, "unrecord") /\ tracked' = TRUE
        /\ UNCHANGED <<schema, recorded, crashes, downs, histVars>>
    BY <1>1, <1>4 DEF Ensure, At
  <2> QED
    BY <1>1, <1>3, <2>1
<1>5. CASE EnsureFails(o) \/ UndoFails(o)
  <2>1. /\ Goto(o, "failed", 0) /\ ~At(o, "unrecord")
        /\ UNCHANGED <<schema, tracked, recorded, crashes, downs, histVars>>
    BY <1>5 DEF EnsureFails, UndoFails, At
  <2> QED
    BY <1>1, <1>3, <2>1
<1>6. CASE FindLatest(o)
  <2>1. /\ ~At(o, "unrecord")
        /\ UNCHANGED <<schema, tracked, recorded, crashes, downs, histVars>>
    BY <1>6 DEF FindLatest, At
  <2>2. CASE Latest = 0
    <3>1. Goto(o, "done", 0)
      BY <1>6, <2>2 DEF FindLatest
    <3> QED
      BY <1>1, <1>3, <2>1, <3>1
  <2>3. CASE Latest # 0
    <3>1. Goto(o, "undo", Latest)
      BY <1>6, <2>3 DEF FindLatest
    <3>2. Latest \in Versions /\ Latest \in 0 .. N + 1
      BY <1>1, <2>3, LatestCases DEF Versions
    <3> QED
      BY <1>1, <1>3, <2>1, <3>1, <3>2
  <2> QED
    BY <2>2, <2>3
<1>7. CASE Unrecord(o)
  <2>1. /\ Goto(o, "done", 0) /\ recorded' = recorded \ {run[o].version}
        /\ UNCHANGED <<schema, tracked, crashes, downs, histVars>>
    BY <1>7 DEF Unrecord
  <2> QED
    BY <1>1, <1>3, <2>1
<1> QED
  BY <1>2, <1>4, <1>5, <1>6, <1>7

\* The down file takes its version out of effect.  Unless it undermines the
\* record, that version is the last one recorded and nobody is to record it.
LEMMA UndoInv ==
  ASSUME MigrationsInv, NEW o \in Operators, Undo(o)
  PROVE  MigrationsInv'
<1> USE MigrationConstants DEF MigrationsInv
<1> DEFINE v == run[o].version
<1>1. /\ MigrationsTypeOK /\ o \in Processes /\ o \notin Instances /\ At(o, "undo")
      /\ v \in Versions /\ v \in 0 .. N + 1
  BY DEF Undo, Processes, At, StepsInv, Versions
<1>2. /\ Goto(o, "unrecord", v) /\ schema' = Undone(v)
      /\ torn' = (torn \/ Undermines(v))
      /\ undercut' = undercut \union {p \in Instances : InProgress(p)}
      /\ UNCHANGED <<tracked, recorded, crashes, downs>>
  BY DEF Undo
<1>3. /\ run' \in [Processes -> Run] /\ run'[o].pc = "unrecord" /\ run'[o].version = v
      /\ \A q \in Processes : q # o => run'[q] = run[q]
  BY <1>1, <1>2, GotoAfter
<1>4. \A q \in Instances : q # o /\ run'[q] = run[q]
  BY <1>1, <1>3 DEF Processes
<1>5. MigrationsTypeOK'
  <2>1. schema' \subseteq Versions /\ torn' \in BOOLEAN /\ undercut' \subseteq Instances
    BY <1>2 DEF MigrationsTypeOK, Undone, Undermines
  <2> QED
    BY <1>2, <1>3, <2>1 DEF MigrationsTypeOK, Run
<1>6. StepsInv'
  BY <1>1, <1>3, <1>4 DEF StepsInv, InProgress, At, Processes
<1>7. UncutInv' /\ PassedInEffect'
  <2>1. \A p \in Instances : InProgress(p)' => p \in undercut'
    BY <1>2, <1>4 DEF InProgress
  <2> QED
    BY <2>1 DEF UncutInv, PassedInEffect, InProgress
<1>8. ASSUME ~torn'
      PROVE  RecordsWhatIs' /\ RecordedIsInEffect'
  <2>1. /\ ~torn /\ \A w \in recorded : ~(w > v)
        /\ \A p \in Instances : At(p, "record") => ~(run[p].version >= v)
    BY <1>2, <1>8 DEF Undermines
  <2>2. \A w \in Versions : w \in schema /\ w < v => w \in schema'
    BY <1>2 DEF Undone
  <2>3. RecordsWhatIs'
    <3>1. ASSUME NEW p \in Instances, At(p, "record")
          PROVE  run[p].version \in schema'
      <4>1. run[p].version \in Versions /\ run[p].version \in schema
        BY <2>1, <3>1 DEF RecordsWhatIs, StepsInv, At, Processes
      <4>2. run[p].version < v
        BY <1>1, <2>1, <3>1, <4>1 DEF Versions
      <4> QED
        BY <2>2, <4>1, <4>2
    <3> QED
      BY <1>4, <3>1 DEF RecordsWhatIs, At
  <2>4. ASSUME NEW w \in recorded, w \notin schema'
        PROVE  \E q \in Operators : At(q, "unrecord")' /\ run'[q].version = w
    <3>1. CASE w = v
      BY <1>3, <3>1 DEF At
    <3>2. CASE w # v
      <4>1. w \in Versions /\ w < v
        BY <1>1, <2>1, <2>4, <3>2 DEF Versions, MigrationsTypeOK
      <4>2. w \notin schema
        BY <2>2, <2>4, <4>1
      <4>3. PICK q \in Operators : At(q, "unrecord") /\ run[q].version = w
        BY <2>1, <2>4, <4>2 DEF RecordedIsInEffect
      <4>4. q # o /\ q \in Processes
        BY <1>1, <4>3 DEF At, Processes
      <4> QED
        BY <1>3, <4>3, <4>4 DEF At
    <3> QED
      BY <3>1, <3>2
  <2> QED
    BY <1>2, <2>3, <2>4 DEF RecordedIsInEffect
<1> QED
  BY <1>5, <1>6, <1>7, <1>8 DEF RecordsWhatIs, RecordedIsInEffect

\* A run that is cut off.
LEMMA CutOffInv ==
  ASSUME MigrationsInv, NEW p \in Processes, CutOff(p)
  PROVE  MigrationsInv'
<1> USE MigrationConstants DEF MigrationsInv
<1>1. /\ UNCHANGED <<schema, tracked, recorded, downs, undercut>>
      /\ torn' = (torn \/ At(p, "unrecord"))
      /\ crashes' \in 0 .. MaxCrashes /\ MigrationsTypeOK
  BY DEF CutOff, MigrationsTypeOK
<1>2. Goto(p, "failed", 0) /\ 0 \in 0 .. N + 1
  BY DEF CutOff
<1>3. /\ run' \in [Processes -> Run] /\ run'[p].pc = "failed"
      /\ \A q \in Processes : q # p => run'[q] = run[q]
  BY <1>1, <1>2, GotoAfter
<1>4. MigrationsTypeOK'
  <2>1. torn' \in BOOLEAN
    BY <1>1 DEF MigrationsTypeOK, At
  <2> QED
    BY <1>1, <1>3, <2>1 DEF MigrationsTypeOK, Run
<1>5. \A q \in Processes : q = p \/ run'[q] = run[q]
  BY <1>3
<1>6. StepsInv'
  BY <1>3, <1>5 DEF StepsInv, InProgress, At, Processes
<1>7. RollbackHalfDone' => RollbackHalfDone
  BY <1>3, <1>5 DEF RollbackHalfDone, At, Processes
<1>8. UncutInv'
  BY <1>1, <1>3, <1>5, <1>7 DEF UncutInv, InProgress, Processes
<1>9. ASSUME ~torn'
      PROVE  RecordsWhatIs' /\ PassedInEffect' /\ RecordedIsInEffect'
  <2>1. ~torn /\ ~At(p, "unrecord")
    BY <1>1, <1>9
  <2>2. RecordsWhatIs' /\ PassedInEffect'
    BY <1>1, <1>3, <1>5, <2>1 DEF RecordsWhatIs, PassedInEffect, At, Processes
  <2>3. ASSUME NEW v \in recorded \ schema
        PROVE  \E o \in Operators : At(o, "unrecord")' /\ run'[o].version = v
    <3>1. PICK o \in Operators : At(o, "unrecord") /\ run[o].version = v
      BY <2>1, <2>3 DEF RecordedIsInEffect
    <3>2. o # p /\ o \in Processes
      BY <2>1, <3>1 DEF Processes
    <3> QED
      BY <1>5, <3>1, <3>2 DEF At
  <2> QED
    BY <1>1, <2>2, <2>3 DEF RecordedIsInEffect
<1> QED
  BY <1>4, <1>6, <1>8, <1>9 DEF RecordsWhatIs, PassedInEffect, RecordedIsInEffect

-----------------------------------------------------------------------------
\* The invariant of every set of runs.
THEOREM MigrationsInvariant == MigrationsSpec => []MigrationsInv
<1>1. MigrationsInv /\ UNCHANGED migrationVars => MigrationsInv'
  BY DEF MigrationsInv, MigrationsTypeOK, StepsInv, RecordsWhatIs, UncutInv, PassedInEffect,
         RollbackHalfDone, RecordedIsInEffect, At, InProgress, migrationVars, histVars
<1>2. MigrationsInv /\ MigrationsNext => MigrationsInv'
  BY StartInv, CheckInv, ExecInv, RecordInv, DownInv, UndoInv, CutOffInv
     DEF MigrationsNext, UpStep, DownStep
<1> QED
  BY InitInv, <1>1, <1>2, PTL DEF MigrationsSpec

\* The schema, its record and the runs keep their types.
THEOREM MigrationsTypeCorrect == MigrationsSpec => []MigrationsTypeOK
<1>1. MigrationsInv => MigrationsTypeOK
  BY DEF MigrationsInv
<1> QED
  BY <1>1, MigrationsInvariant, PTL

\* Although a file and the row that records it are committed separately,
\* nothing is recorded that is not in effect, until a rollback is cut off
\* between the two or drops what another run recorded or is about to.
THEOREM RecordIsTrue == MigrationsSpec => []RecordedIsInEffect
<1>1. MigrationsInv => RecordedIsInEffect
  BY DEF MigrationsInv
<1> QED
  BY <1>1, MigrationsInvariant, PTL

\* A MigrateUp that returns nil (db.go:141) leaves the schema complete, unless
\* the record was wrong for good or a rollback's file took effect beneath it.
THEOREM FullSchemaOnSuccess == MigrationsSpec => SucceedsOnFullSchema
<1> DEFINE Full == \A p \in Instances :
                    (At(p, "check") /\ At(p, "done")') =>
                      (torn \/ p \in undercut \/ schema' = Versions)
<1>1. ASSUME MigrationsInv, MigrationsNext, NEW p \in Instances,
             At(p, "check"), At(p, "done")', ~torn, p \notin undercut
      PROVE  schema' = Versions
  <2>1. InProgress(p) /\ p \in Processes /\ run' # run /\ run[p].pc = "check"
        /\ run'[p].pc = "done" /\ MigrationsTypeOK
    BY <1>1 DEF At, InProgress, Processes, MigrationsInv
  <2>2. ASSUME NEW q \in Processes, NEW pc, NEW v, NEW c, GotoCreate(q, pc, v, c)
        PROVE  q = p /\ pc = "done"
    BY <2>1, <2>2 DEF GotoCreate, MigrationsTypeOK
  <2>3. ASSUME NEW q \in Processes, NEW pc, NEW v, Goto(q, pc, v)
        PROVE  q = p /\ pc = "done"
    BY <2>1, <2>3 DEF Goto, MigrationsTypeOK
  <2>4. p \notin Operators
    BY MigrationConstants
  <2>5. Check(p) /\ run[p].version \notin Versions
    <3>1. ASSUME NEW q \in Instances, Start(q) \/ UpStep(q)
          PROVE  Check(p) /\ run[p].version \notin Versions
      <4>1. Check(q)
        BY <2>1, <2>2, <2>3, <3>1
           DEF Start, UpStep, Ensure, EnsureFails, Exec, ExecFails, RecordVersion, Processes
      <4> QED
        BY <2>1, <2>2, <2>3, <4>1 DEF Check, Processes
    <3>2. ASSUME NEW q \in Operators
          PROVE  ~(StartDown(q) \/ DownStep(q))
      BY <2>1, <2>2, <2>3, <2>4
         DEF StartDown, DownStep, Ensure, EnsureFails, FindLatest, Undo, UndoFails, Unrecord,
             Processes
    <3>3. ASSUME NEW q \in Processes
          PROVE  ~CutOff(q)
      BY <2>3 DEF CutOff
    <3> QED
      BY <1>1, <3>1, <3>2, <3>3 DEF MigrationsNext
  <2>6. \A v \in Versions : v < run[p].version
    BY <1>1, <2>1, <2>5, UpKnows, MigrationConstants DEF Versions
  <2>7. Versions \subseteq schema /\ schema \subseteq Versions
    BY <1>1, <2>1, <2>6, UpKnows
  <2> QED
    BY <2>5, <2>7 DEF Check
<1>2. MigrationsInv /\ [MigrationsNext]_migrationVars => [Full]_migrationVars
  BY <1>1
<1> QED
  BY <1>2, MigrationsInvariant, PTL DEF MigrationsSpec, SucceedsOnFullSchema
=============================================================================
