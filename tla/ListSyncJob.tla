----------------------------- MODULE ListSyncJob -----------------------------
(***************************************************************************)
(* The sanctions list sync job (internal/list_sync.go).  A loop is the     *)
(* goroutine of one Start: it syncs at once and then at every tick.  Stop  *)
(* closes the one channel the job ever has, so the last sync of a stopped  *)
(* loop may overlap with the first of the next.                            *)
(*                                                                         *)
(* A sync fetches the names, stamps the snapshot, truncates the file of    *)
(* the current second, writes it, and publishes the snapshot as the last   *)
(* one.  "at" numbers the snapshots in the order of their GeneratedAt.     *)
(***************************************************************************)
EXTENDS Naturals, FiniteSets

CONSTANTS
  Loops,         \* bound: the goroutines Start may launch
  MaxSeconds,    \* bound on the seconds that pass
  MaxSnapshots   \* bound on the snapshots generated

ASSUME ListConstants == MaxSeconds \in Nat \ {0} /\ MaxSnapshots \in Nat

VARIABLES
  loop,       \* the goroutines: step and snapshot in hand
  files,      \* LIST_SYNC_DIR: second -> what snapshot-<second>.json holds
  lastSnap,   \* ListSyncJob.lastSnap
  second,     \* the clock, as Unix() reads it
  generated,  \* history: the snapshots stamped so far
  running,    \* ListSyncJob.running
  stopped,    \* whether ListSyncJob.stop is closed
  panicked    \* close of a closed channel

lifeVars == <<running, stopped, panicked>>
listVars == <<loop, files, lastSnap, second, generated, lifeVars>>

Seconds == 1 .. MaxSeconds

Snapshot == [at : 1 .. MaxSnapshots, second : Seconds]

NoSnapshot == [at |-> 0, second |-> 0]

NotStarted == [pc |-> "none", snap |-> NoSnapshot]

\* holds: nothing yet, an opened or half-written file, the bytes of two
\* snapshots, or all of the snapshot numbered at.
File == [holds : {"nothing", "part", "mixture", "snapshot"}, at : 0 .. MaxSnapshots]

Holding(kind) == [holds |-> kind, at |-> 0]

ListInit ==
  /\ loop = [l \in Loops |-> NotStarted]
  /\ files = [s \in Seconds |-> Holding("nothing")]
  /\ lastSnap = NoSnapshot
  /\ second = 1
  /\ generated = {}
  /\ running = FALSE /\ stopped = FALSE /\ panicked = FALSE

At(l, pc) == loop[l].pc = pc

GoTo(l, pc) == loop' = [loop EXCEPT ![l].pc = pc]

EndSync(l) == loop' = [loop EXCEPT ![l] = [pc |-> "select", snap |-> NoSnapshot]]

-----------------------------------------------------------------------------
(* SyncOnce.                                                               *)

\* Mutant: the loop returns when a fetch fails.
FetchFailsReturns(l) ==
  /\ At(l, "fetch")
  /\ GoTo(l, "exited")
  /\ UNCHANGED <<files, lastSnap, second, generated, lifeVars>>

\* The provider fails: the error is logged, the last snapshot stays.
FetchFails(l) ==
  /\ At(l, "fetch")
  /\ EndSync(l)
  /\ UNCHANGED <<files, lastSnap, second, generated, lifeVars>>

\* fetchNames, then GeneratedAt: j.now().
Fetch(l) ==
  /\ At(l, "fetch")
  /\ Cardinality(generated) < MaxSnapshots
  /\ LET snap == [at |-> Cardinality(generated) + 1, second |-> second] IN
       /\ generated' = generated \union {snap}
       /\ loop' = [loop EXCEPT ![l] = [pc |-> "open", snap |-> snap]]
  /\ UNCHANGED <<files, lastSnap, second, lifeVars>>

\* MkdirAll and the opening of the file, which truncates it, or an error.
PersistOpen(l) ==
  /\ At(l, "open")
  /\ \/ /\ files' = [files EXCEPT ![loop[l].snap.second] = Holding("part")]
        /\ GoTo(l, "write")
     \/ EndSync(l) /\ UNCHANGED files
  /\ UNCHANGED <<lastSnap, second, generated, lifeVars>>

\* The bytes go over whatever another writer put there since the opening.
Written(file, at) ==
  IF file.holds = "part" THEN {[holds |-> "snapshot", at |-> at]}
  ELSE {[holds |-> "snapshot", at |-> at], Holding("mixture")}

\* Mutant: the error of the write is not looked at.
PersistWriteUnchecked(l) ==
  /\ At(l, "write")
  /\ LET snap == loop[l].snap IN
       \E file \in Written(files[snap.second], snap.at) \union {Holding("part")} :
         files' = [files EXCEPT ![snap.second] = file]
  /\ GoTo(l, "publish")
  /\ UNCHANGED <<lastSnap, second, generated, lifeVars>>

\* The write, which an error may cut short.
PersistWrite(l) ==
  /\ At(l, "write")
  /\ LET snap == loop[l].snap IN
       \/ /\ \E file \in Written(files[snap.second], snap.at) :
               files' = [files EXCEPT ![snap.second] = file]
          /\ GoTo(l, "publish")
       \/ /\ files' = [files EXCEPT ![snap.second] = Holding("part")]
          /\ EndSync(l)
  /\ UNCHANGED <<lastSnap, second, generated, lifeVars>>

Publish(l) ==
  /\ At(l, "publish")
  /\ lastSnap' = loop[l].snap
  /\ EndSync(l)
  /\ UNCHANGED <<files, second, generated, lifeVars>>

SyncOnce(l) ==
  FetchFails(l) \/ Fetch(l) \/ PersistOpen(l) \/ PersistWrite(l) \/ Publish(l)

-----------------------------------------------------------------------------
(* The loop and its life.                                                  *)

Exit(l) ==
  /\ At(l, "select") /\ stopped
  /\ GoTo(l, "exited")
  /\ UNCHANGED <<files, lastSnap, second, generated, lifeVars>>

\* When stop is closed and a tick is due, Go picks either.
Tick(l) ==
  /\ At(l, "select")
  /\ GoTo(l, "fetch")
  /\ UNCHANGED <<files, lastSnap, second, generated, lifeVars>>

\* A Start while running, or without an interval, returns at once.
Start(l) ==
  /\ ~running
  /\ At(l, "none")
  /\ running' = TRUE
  /\ GoTo(l, "fetch")
  /\ UNCHANGED <<files, lastSnap, second, generated, stopped, panicked>>

\* Mutant: only the flag is reset.
StopFlagOnly ==
  /\ running
  /\ running' = FALSE
  /\ UNCHANGED <<loop, files, lastSnap, second, generated, stopped, panicked>>

\* close(j.stop), which panics when the channel is closed already.
Stop ==
  /\ running
  /\ IF stopped
       THEN panicked' = TRUE /\ UNCHANGED <<running, stopped>>
       ELSE running' = FALSE /\ stopped' = TRUE /\ UNCHANGED panicked
  /\ UNCHANGED <<loop, files, lastSnap, second, generated>>

\* The clock.
NextSecond ==
  /\ second < MaxSeconds
  /\ second' = second + 1
  /\ UNCHANGED <<loop, files, lastSnap, generated, lifeVars>>

ListNext ==
  /\ ~panicked
  /\ \/ \E l \in Loops : SyncOnce(l) \/ Exit(l) \/ Tick(l) \/ Start(l)
     \/ Stop
     \/ NextSecond

ListSpec == ListInit /\ [][ListNext]_listVars

\* Goroutines are scheduled, the provider answers, the ticker ticks, and a
\* select that finds stop closed again and again, beside a tick or not, takes
\* it at some time (Go chooses among the ready cases at random).
FairListSpec ==
  /\ ListSpec
  /\ \A l \in Loops :
       /\ WF_listVars(~panicked /\ (SyncOnce(l) \/ Tick(l)))
       /\ SF_listVars(~panicked /\ Exit(l))

-----------------------------------------------------------------------------
(* Properties.                                                             *)

\* The type of the loops, the directory and the last snapshot.
ListTypeOK ==
  /\ loop \in [Loops ->
       [pc : {"none", "fetch", "open", "write", "publish", "select", "exited"},
        snap : Snapshot \union {NoSnapshot}]]
  /\ files \in [Seconds -> File]
  /\ lastSnap \in Snapshot \union {NoSnapshot}
  /\ second \in Seconds
  /\ generated \subseteq Snapshot
  /\ running \in BOOLEAN /\ stopped \in BOOLEAN /\ panicked \in BOOLEAN

\* persist truncates and rewrites a file named after the second.  The
\* snapshot LastSnapshot returns is in its file, whole, unless another one was
\* stamped in the same second: writes that fail and loops that overlap do not
\* reach it.
PublishedIsOnDisk ==
  lastSnap # NoSnapshot =>
    \/ files[lastSnap.second] = [holds |-> "snapshot", at |-> lastSnap.at]
    \/ \E snap \in generated : snap.second = lastSnap.second /\ snap # lastSnap

\* SyncOnce publishes whatever it has, without a look at what is there.  That
\* LastSnapshot never goes back to an older snapshot rests on the guard of
\* Start: until Stop there is one loop.
LastSnapshotMovesForward ==
  [][lastSnap'.at >= lastSnap.at \/ stopped]_listVars

\* A failing provider or a full disk ends a sync, not the job: until it is
\* stopped, the job comes to its next fetch.
SyncsUntilStopped == (running /\ ~stopped) ~> (stopped \/ \E l \in Loops : At(l, "fetch"))

\* Stop "terminates the background sync loop": the loop it finds in the middle of
\* a sync, or with a tick due, ends too, even when the job is started again at
\* once, which sets running before the loop has looked at the channel.
StopEndsTheLoop ==
  \A l \in Loops : (~running /\ ~At(l, "none")) ~> (At(l, "exited") \/ panicked)

-----------------------------------------------------------------------------
(* What documentation and comments say and the code does not do.           *)

\* Start "launches the background sync loop", the second Start too.
SyncsWheneverRunning ==
  running ~> (~running \/ panicked \/ \E l \in Loops : At(l, "fetch"))

\* Stop "terminates the background sync loop", whenever it is running.
StopNeverPanics == ~panicked
=============================================================================
