-------------------------- MODULE RetentionSweeper --------------------------
(***************************************************************************)
(* The retention sweeper (internal/retention.go) over DocumentStore and    *)
(* LivenessStore.  A sweep is three critical sections: the expired         *)
(* documents, the expired liveness sessions, the audit record.  A loop is  *)
(* the goroutine of one Start; Stop closes the one channel the sweeper     *)
(* ever has, so a loop that is stopped may still be in its last sweep when *)
(* another is started.  Uploads and expiries go on meanwhile.              *)
(***************************************************************************)
EXTENDS Naturals, FiniteSets

CONSTANTS
  Documents,  \* documents that may be uploaded
  Sessions,   \* liveness sessions that may be recorded
  Loops       \* bound: the goroutines Start may launch

Evidence == Documents \union Sessions

ASSUME KindsAssumption == Documents \intersect Sessions = {}

VARIABLES
  evidence,   \* what became of each piece of evidence
  loop,       \* the goroutines: step and what the sweep in progress removed
  counted,    \* AuditLog: audit records that count a removal
  running,    \* RetentionSweeper.running
  stopped,    \* whether RetentionSweeper.stop is closed
  panicked    \* close of a closed channel

retentionVars == <<evidence, loop, counted, running, stopped, panicked>>

NotStarted == [pc |-> "none", removed |-> {}]

RetentionInit ==
  /\ evidence = [x \in Evidence |-> "absent"]
  /\ loop = [l \in Loops |-> NotStarted]
  /\ counted = [x \in Evidence |-> 0]
  /\ running = FALSE
  /\ stopped = FALSE
  /\ panicked = FALSE

-----------------------------------------------------------------------------
(* The stores.                                                             *)

\* DocumentStore.Add, LivenessStore.Add: kept for 365 days.
Record(x) ==
  /\ evidence[x] = "absent"
  /\ evidence' = [evidence EXCEPT ![x] = "kept"]
  /\ UNCHANGED <<loop, counted, running, stopped, panicked>>

\* The environment: retention_until passes.
Expire(x) ==
  /\ evidence[x] = "kept"
  /\ evidence' = [evidence EXCEPT ![x] = "expired"]
  /\ UNCHANGED <<loop, counted, running, stopped, panicked>>

Expired(kind) == {x \in kind : evidence[x] = "expired"}

\* Mutant: what is kept is not stored back.
DeleteNothing(removed) == UNCHANGED evidence

Delete(removed) ==
  evidence' = [x \in Evidence |-> IF x \in removed THEN "deleted" ELSE evidence[x]]

-----------------------------------------------------------------------------
(* A loop.                                                                 *)

\* When stop is closed and a tick is due, Go picks either.
Tick(l) ==
  /\ loop[l].pc = "select"
  /\ \/ stopped /\ loop' = [loop EXCEPT ![l].pc = "exited"]
     \/ loop' = [loop EXCEPT ![l].pc = "documents"]
  /\ UNCHANGED <<evidence, counted, running, stopped, panicked>>

SweepDocuments(l) ==
  /\ loop[l].pc = "documents"
  /\ Delete(Expired(Documents))
  /\ loop' = [loop EXCEPT ![l] = [pc |-> "sessions", removed |-> Expired(Documents)]]
  /\ UNCHANGED <<counted, running, stopped, panicked>>

SweepSessions(l) ==
  /\ loop[l].pc = "sessions"
  /\ Delete(Expired(Sessions))
  /\ loop' = [loop EXCEPT ![l] = [pc |-> "audit", removed |-> @.removed \union Expired(Sessions)]]
  /\ UNCHANGED <<counted, running, stopped, panicked>>

\* Mutant: a sweep that removed no session is not recorded.
WorthRecordingBoth(removed) ==
  removed \intersect Documents # {} /\ removed \intersect Sessions # {}

\* Only a sweep that removed a document is recorded.
WorthRecording(removed) == removed \intersect Documents # {}

RecordSweep(l) ==
  /\ loop[l].pc = "audit"
  /\ counted' = IF WorthRecording(loop[l].removed)
                  THEN [x \in Evidence |-> counted[x] + (IF x \in loop[l].removed THEN 1 ELSE 0)]
                  ELSE counted
  /\ loop' = [loop EXCEPT ![l] = [pc |-> "select", removed |-> {}]]
  /\ UNCHANGED <<evidence, running, stopped, panicked>>

Sweeping(l) == SweepDocuments(l) \/ SweepSessions(l) \/ RecordSweep(l)

-----------------------------------------------------------------------------
(* Its life.                                                               *)

\* A Start while running returns at once and is not a step.
Start(l) ==
  /\ ~running
  /\ loop[l] = NotStarted
  /\ running' = TRUE
  /\ loop' = [loop EXCEPT ![l].pc = "select"]
  /\ UNCHANGED <<evidence, counted, stopped, panicked>>

\* close(r.stop), which panics when the channel is closed already.
Stop ==
  /\ running
  /\ IF stopped
       THEN panicked' = TRUE /\ UNCHANGED <<running, stopped>>
       ELSE running' = FALSE /\ stopped' = TRUE /\ UNCHANGED panicked
  /\ UNCHANGED <<evidence, loop, counted>>

RetentionNext ==
  /\ ~panicked
  /\ \/ \E x \in Evidence : Record(x) \/ Expire(x)
     \/ \E l \in Loops : Tick(l) \/ Sweeping(l) \/ Start(l)
     \/ Stop

RetentionSpec == RetentionInit /\ [][RetentionNext]_retentionVars

\* The ticker keeps ticking and a goroutine that can run is scheduled.
FairRetentionSpec ==
  /\ RetentionSpec
  /\ \A l \in Loops : WF_retentionVars(~panicked /\ (Tick(l) \/ Sweeping(l)))

-----------------------------------------------------------------------------
(* Properties.                                                             *)

\* The type of the evidence, the loops and the audit counts.
RetentionTypeOK ==
  /\ evidence \in [Evidence -> {"absent", "kept", "expired", "deleted"}]
  /\ loop \in [Loops -> [pc : {"none", "select", "documents", "sessions", "audit", "exited"},
                         removed : SUBSET Evidence]]
  /\ counted \in [Evidence -> 0 .. 1]
  /\ running \in BOOLEAN /\ stopped \in BOOLEAN /\ panicked \in BOOLEAN

Holders(x) == Cardinality({l \in Loops : x \in loop[l].removed})

\* Sweep deletes in one critical section and records in another, and the last
\* sweep of a stopped loop overlaps with the first of its successor.  Still
\* each deleted document is counted by exactly one audit record, or about to
\* be, and nothing that exists is counted.
DeletedDocumentsCounted ==
  \A d \in Documents :
    counted[d] + Holders(d) = IF evidence[d] = "deleted" THEN 1 ELSE 0

\* Evidence keeps arriving and expiring while sweeps are on their way, one
\* store after the other.  What has expired is deleted, by this sweep or a
\* later one, as long as the sweeper is not stopped.
ExpiredIsDeleted ==
  \A x \in Evidence :
    (running /\ ~stopped /\ evidence[x] = "expired")
      ~> (evidence[x] = "deleted" \/ stopped)

\* Start is guarded by running so that at most one loop is at work; the others
\* are stopped and on their way out.
OneLoopAtWork ==
  Cardinality({l \in Loops : loop[l].pc \notin {"none", "exited"}}) > 1 => stopped

-----------------------------------------------------------------------------
(* What documentation and comments say and the code does not do.           *)

\* PROJECT_PLAN.md: "Audit event on ... each retention deletion".
DeletionsAudited ==
  \A x \in Evidence : evidence[x] = "deleted" => counted[x] + Holders(x) > 0

\* Start "launches a background goroutine that sweeps", the second Start too.
SweepsWheneverRunning ==
  \A x \in Evidence :
    (running /\ evidence[x] = "expired") ~> (evidence[x] = "deleted" \/ ~running)

\* Stop "terminates the background sweeper", whenever it is running.
StopNeverPanics == ~panicked
=============================================================================
