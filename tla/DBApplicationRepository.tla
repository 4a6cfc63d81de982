---------------------- MODULE DBApplicationRepository ----------------------
(***************************************************************************)
(* The application store over PostgreSQL (internal/db_stores.go).  Nothing *)
(* but the database serializes the callers: each SQL statement is one      *)
(* atomic action, and so is each transaction that takes the row's lock     *)
(* with SELECT ... FOR UPDATE and holds it until it commits.  What a call  *)
(* does before and after in separate statements, and its sink call after   *)
(* the commit, are actions of their own.  The callers may be requests of   *)
(* one process or of several; a crash loses a call between two of them.    *)
(*                                                                         *)
(* A call that returns an error without touching the table is a stuttering *)
(* step.  createdAt is the order of created_at, which the clock of the     *)
(* caller gives at the start of Create.                                    *)
(***************************************************************************)
EXTENDS Naturals, Sequences, FiniteSets, StateMachine

CONSTANTS
  Users,        \* user ids
  AppIds,       \* application ids
  Callers,      \* calls that may be in progress at the same time
  NoApp,        \* the absent row, and the absent id
  FirstStates,  \* states Create is called with (STARTED by the handlers)
  MaxVersion,   \* bound on the version an application reaches
  MaxCrashes    \* bound on the calls lost in a crash

ASSUME DBConstants ==
  /\ MaxVersion \in Nat /\ MaxCrashes \in Nat
  /\ FirstStates \subseteq States \ TerminalStates

VARIABLES
  rows,     \* kyc_applications: id -> the row, or NoApp
  call,     \* the calls between two of their statements
  trail,    \* id -> the transitions the sink received, in order
  issued,   \* ids given to a creation so far (newUUID never repeats one)
  clock,    \* creations begun, for createdAt
  crashes   \* calls lost so far

\* What the table and the trail do not show, kept for the properties.
VARIABLES
  commits,  \* id -> the transitions committed
  lost,     \* id -> those whose caller crashed before the sink was called
  owed,     \* users who have been given an application and lost it to no crash
  raced     \* users for whom a call wrote while a Create was in progress

tableVars == <<rows, call, trail, issued, clock, crashes>>
historyVars == <<commits, lost, owed, raced>>
dbVars == <<tableVars, historyVars>>

Row ==
  [user : Users, state : States, version : Nat \ {0}, createdAt : Nat,
   vendorApplicantID : {"unset", "set"}, reKYCDue : {"unset", "future", "past"}]

ASSUME NoRowAssumption == NoApp \notin AppIds /\ NoApp \notin Row

Transition == [version : Nat \ {0}, from : States, to : States]

Idle == [pc |-> "idle"]

Creation ==
  [pc : {"delete", "insert"}, user : Users, id : AppIds,
   existing : AppIds \union {NoApp}, createdAt : Nat, state : FirstStates]

Announcement == [pc : {"announce"}, id : AppIds, transition : Transition]

DBInit ==
  /\ rows = [a \in AppIds |-> NoApp]
  /\ call = [c \in Callers |-> Idle]
  /\ trail = [a \in AppIds |-> <<>>]
  /\ issued = {} /\ clock = 0 /\ crashes = 0
  /\ commits = [a \in AppIds |-> {}]
  /\ lost = [a \in AppIds |-> {}]
  /\ owed = {} /\ raced = {}

-----------------------------------------------------------------------------
(* Reads.                                                                  *)

Stored == {a \in AppIds : rows[a] # NoApp}

RowsOf(u) == {a \in Stored : rows[a].user = u}

\* SELECT ... WHERE user_id=$1 ORDER BY created_at DESC LIMIT 1.
GetByUserID(u) ==
  IF RowsOf(u) = {} THEN NoApp
  ELSE CHOOSE a \in RowsOf(u) : \A b \in RowsOf(u) : rows[b].createdAt <= rows[a].createdAt

\* The partial unique index idx_kyc_apps_user_active.
Active(u) == {a \in RowsOf(u) : ~IsTerminal(rows[a].state)}

ListDueForReKYC ==
  {a \in Stored : rows[a].reKYCDue = "past" /\ IsTerminal(rows[a].state)}

-----------------------------------------------------------------------------
(* History.                                                                *)

Creating(c) == call[c].pc \in {"delete", "insert"}

\* Caller c writes a row of u.
NoteWrite(c, u) ==
  raced' = IF \E d \in Callers \ {c} : Creating(d) /\ call[d].user = u
             THEN raced \union {u} ELSE raced

-----------------------------------------------------------------------------
(* Create: a SELECT, a DELETE when it found a decided row, an INSERT.      *)

\* Mutant: the row found is not looked at.
AnyRow(existing) == TRUE

MayReplace(existing) == existing # NoApp => IsTerminal(rows[existing].state)

CreateSelect(c, u, id, state) ==
  /\ call[c] = Idle
  /\ id \notin issued
  /\ MayReplace(GetByUserID(u))
  /\ call' = [call EXCEPT ![c] =
       [pc |-> IF GetByUserID(u) = NoApp THEN "insert" ELSE "delete",
        user |-> u, id |-> id, existing |-> GetByUserID(u),
        createdAt |-> clock + 1, state |-> state]]
  /\ issued' = issued \union {id}
  /\ clock' = clock + 1
  /\ UNCHANGED <<rows, trail, crashes, historyVars>>

\* Mutant: the test of the DELETE's error is inverted.
CreateDeleteReturns(c) ==
  /\ call[c].pc = "delete"
  /\ rows' = [rows EXCEPT ![call[c].existing] = NoApp]
  /\ call' = [call EXCEPT ![c] = Idle]
  /\ NoteWrite(c, call[c].user)
  /\ UNCHANGED <<trail, issued, clock, crashes, commits, lost, owed>>

\* DELETE ... WHERE id=$1, whatever the row has become since the SELECT.
CreateDelete(c) ==
  /\ call[c].pc = "delete"
  /\ rows' = [rows EXCEPT ![call[c].existing] = NoApp]
  /\ call' = [call EXCEPT ![c].pc = "insert"]
  /\ NoteWrite(c, call[c].user)
  /\ UNCHANGED <<trail, issued, clock, crashes, commits, lost, owed>>

NewRow(creation) ==
  [user |-> creation.user, state |-> creation.state, version |-> 1,
   createdAt |-> creation.createdAt,
   vendorApplicantID |-> "unset", reKYCDue |-> "unset"]

IndexAllows(u) == Active(u) = {}

CreateInsert(c) ==
  /\ call[c].pc = "insert"
  /\ IndexAllows(call[c].user)
  /\ rows' = [rows EXCEPT ![call[c].id] = NewRow(call[c])]
  /\ call' = [call EXCEPT ![c] = Idle]
  /\ owed' = owed \union {call[c].user}
  /\ NoteWrite(c, call[c].user)
  /\ UNCHANGED <<trail, issued, clock, crashes, commits, lost>>

\* ErrDuplicate from the index: the decided row is gone all the same.
CreateRefused(c) ==
  /\ call[c].pc = "insert"
  /\ ~IndexAllows(call[c].user)
  /\ call' = [call EXCEPT ![c] = Idle]
  /\ UNCHANGED <<rows, trail, issued, clock, crashes, historyVars>>

-----------------------------------------------------------------------------
(* UpdateState and Reopen: one transaction under the row's lock, then the  *)
(* sink.                                                                   *)

Has(id, version) == rows[id] # NoApp /\ rows[id].version = version

\* Mutant: nothing keeps a second active row out.
ActivatesAnyway(id, newState) == TRUE

\* The UPDATE violates the index when it makes the row active beside another.
Activates(id, newState) ==
  ~IsTerminal(newState) => Active(rows[id].user) \subseteq {id}

\* Mutant: decided_at and re_kyc_due_at are overwritten, not COALESCEd.
TransitionedOverwriting(row, newState) ==
  [row EXCEPT !.state = newState, !.version = @ + 1,
              !.reKYCDue = IF newState = "PASS" THEN "future" ELSE "unset"]

\* COALESCE keeps the due date when the new state is not terminal.
Transitioned(row, newState) ==
  [row EXCEPT !.state = newState, !.version = @ + 1,
              !.reKYCDue = IF IsTerminal(newState) THEN "future" ELSE @]

\* Mutant: the event is built from the state after the update.
TransitionToItself(row, newState) ==
  [version |-> row.version + 1, from |-> newState, to |-> newState]

TransitionOf(row, newState) ==
  [version |-> row.version + 1, from |-> row.state, to |-> newState]

Commit(c, id, newRow, newState) ==
  /\ rows' = [rows EXCEPT ![id] = newRow]
  /\ call' = [call EXCEPT ![c] =
       [pc |-> "announce", id |-> id, transition |-> TransitionOf(rows[id], newState)]]
  /\ commits' = [commits EXCEPT ![id] = @ \union {TransitionOf(rows[id], newState)}]
  /\ NoteWrite(c, rows[id].user)
  /\ UNCHANGED <<trail, issued, clock, crashes, lost, owed>>

UpdateState(c, id, version, newState) ==
  /\ call[c] = Idle
  /\ Has(id, version)
  /\ CanTransition(rows[id].state, newState)
  /\ Activates(id, newState)
  /\ Commit(c, id, Transitioned(rows[id], newState), newState)

\* Mutant: re-opening keeps the version.
ReopenedSameVersion(row) == [row EXCEPT !.state = "STARTED", !.reKYCDue = "unset"]

Reopened(row) ==
  [row EXCEPT !.state = "STARTED", !.version = @ + 1, !.reKYCDue = "unset"]

Reopen(c, id, version) ==
  /\ call[c] = Idle
  /\ Has(id, version)
  /\ IsTerminal(rows[id].state)
  /\ Activates(id, "STARTED")
  /\ Commit(c, id, Reopened(rows[id]), "STARTED")

\* Mutant: the sink is called in a deferred function, and again on success.
AnnounceTwice(c) ==
  /\ call[c].pc = "announce"
  /\ trail' = [trail EXCEPT ![call[c].id] = @ \o <<call[c].transition, call[c].transition>>]
  /\ call' = [call EXCEPT ![c] = Idle]
  /\ UNCHANGED <<rows, issued, clock, crashes, historyVars>>

\* r.sink.RecordTransition, after the commit and outside any lock.
Announce(c) ==
  /\ call[c].pc = "announce"
  /\ trail' = [trail EXCEPT ![call[c].id] = Append(@, call[c].transition)]
  /\ call' = [call EXCEPT ![c] = Idle]
  /\ UNCHANGED <<rows, issued, clock, crashes, historyVars>>

\* UPDATE ... SET version=version+1 WHERE id=$1, without a version check.
Registered(row) == [row EXCEPT !.vendorApplicantID = "set", !.version = @ + 1]

SetVendorApplicantID(id) ==
  /\ rows[id] # NoApp
  /\ rows' = [rows EXCEPT ![id] = Registered(rows[id])]
  /\ UNCHANGED <<call, trail, issued, clock, crashes, historyVars>>

-----------------------------------------------------------------------------
(* The environment.                                                        *)

\* The 365 days after a decision pass.
Elapse(id) ==
  /\ rows[id] # NoApp
  /\ rows[id].reKYCDue = "future"
  /\ rows' = [rows EXCEPT ![id] = [@ EXCEPT !.reKYCDue = "past"]]
  /\ UNCHANGED <<call, trail, issued, clock, crashes, historyVars>>

\* The process of a call dies, or its connection does, between two statements.
Crash(c) ==
  /\ call[c] # Idle
  /\ crashes < MaxCrashes
  /\ call' = [call EXCEPT ![c] = Idle]
  /\ crashes' = crashes + 1
  /\ owed' = IF Creating(c) THEN owed \ {call[c].user} ELSE owed
  /\ lost' = IF call[c].pc = "announce"
               THEN [lost EXCEPT ![call[c].id] = @ \union {call[c].transition}]
               ELSE lost
  /\ UNCHANGED <<rows, trail, issued, clock, commits, raced>>

-----------------------------------------------------------------------------
Bounded(id) == rows[id] # NoApp => rows[id].version < MaxVersion

CreateStep(c) == CreateDelete(c) \/ CreateInsert(c) \/ CreateRefused(c)

DBNext ==
  \/ \E c \in Callers :
       \/ \E u \in Users, id \in AppIds, state \in FirstStates : CreateSelect(c, u, id, state)
       \/ CreateStep(c)
       \/ \E id \in AppIds, version \in 1 .. MaxVersion :
            /\ Bounded(id)
            /\ \/ \E newState \in States : UpdateState(c, id, version, newState)
               \/ Reopen(c, id, version)
       \/ Announce(c)
       \/ Crash(c)
  \/ \E id \in AppIds : Bounded(id) /\ SetVendorApplicantID(id)
  \/ \E id \in AppIds : Elapse(id)

DBSpec == DBInit /\ [][DBNext]_dbVars

-----------------------------------------------------------------------------
(* Properties.                                                             *)

\* The type of the table, the calls and the trail.
DBTypeOK ==
  /\ rows \in [AppIds -> Row \union {NoApp}]
  /\ call \in [Callers -> {Idle} \union Creation \union Announcement]
  /\ trail \in [AppIds -> Seq(Transition)]
  /\ issued \subseteq AppIds /\ clock \in Nat /\ crashes \in 0 .. MaxCrashes
  /\ commits \in [AppIds -> SUBSET Transition]
  /\ lost \in [AppIds -> SUBSET Transition]
  /\ owed \subseteq Users /\ raced \subseteq Users

\* Create checks, deletes and inserts in three statements, and UpdateState and
\* Reopen make decided rows active again.  Whatever they interleave with, a
\* user never has two applications in progress.
OneActivePerUser ==
  \A a, b \in Stored :
    (rows[a].user = rows[b].user /\ ~IsTerminal(rows[a].state) /\ ~IsTerminal(rows[b].state))
      => a = b

\* COALESCE in UpdateState, NULL in Reopen: no path strands a decided row.
\* The query of the re-KYC scheduler finds it once its year has passed.
DecidedRowIsScheduled ==
  \A a \in Stored :
    (IsTerminal(rows[a].state) /\ rows[a].reKYCDue # "future") => a \in ListDueForReKYC

\* A Create that is refused has deleted the decided application already.
\* Still, a user who had one and lost none to a crash has one now, or has a
\* Create in progress that will insert one or be refused because of one.
NoUserForgotten ==
  \A u \in owed :
    RowsOf(u) # {} \/ \E c \in Callers : call[c].pc = "insert" /\ call[c].user = u

Pending(a) ==
  {call[c].transition : c \in {d \in Callers : call[d].pc = "announce" /\ call[d].id = a}}

Announced(a) == {trail[a][i] : i \in 1 .. Len(trail[a])}

\* The sink is called after the commit, by whichever caller gets there first.
\* Out of order or not, it hears of every committed transition once, except
\* those of a call still on its way to it or lost in a crash, and of no other.
AnnouncementsAccounted ==
  \A a \in AppIds :
    /\ commits[a] = Announced(a) \union Pending(a) \union lost[a]
    /\ Announced(a) \intersect (Pending(a) \union lost[a]) = {}
    /\ \A i, j \in 1 .. Len(trail[a]) : trail[a][i] = trail[a][j] => i = j

\* The transition committed next after t.
Succeeds(a, t, t2) ==
  /\ t.version < t2.version
  /\ \A s \in commits[a] : ~(t.version < s.version /\ s.version < t2.version)

\* In the order of their versions the committed transitions replay to the
\* row: they form one chain, each in the table and from where the one before
\* ended, and the last one ends in the stored state.
CommitsReplay ==
  \A a \in AppIds : \A t \in commits[a] :
    /\ CanTransition(t.from, t.to)
    /\ \A t2 \in commits[a] :
         /\ t2.version = t.version => t2 = t
         /\ Succeeds(a, t, t2) => t2.from = t.to
    /\ (rows[a] # NoApp /\ \A s \in commits[a] : s.version <= t.version)
         => rows[a].state = t.to

\* Optimistic concurrency rests on this: no two contents of a row (state,
\* vendor id) share a version, whichever statement wrote them.
RowVersionNamesContent ==
  [][\A a \in AppIds :
       (rows[a] # NoApp /\ rows'[a] # NoApp) =>
         \/ rows'[a].version = rows[a].version + 1
         \/ rows'[a] = [rows[a] EXCEPT !.reKYCDue = rows'[a].reKYCDue]]_dbVars

-----------------------------------------------------------------------------
(* The lifecycle promised per user.                                        *)

Coarse(state) ==
  CASE state = "PASS" -> "pass"
    [] state = "FAIL" -> "fail"
    [] state = "MANUAL_REVIEW" -> "review"
    [] OTHER -> "pending"

\* What the status endpoint answers for the user, at README granularity.
StatusOf(u) ==
  IF GetByUserID(u) = NoApp THEN "none" ELSE Coarse(rows[GetByUserID(u)].state)

LifecycleOf(u) == INSTANCE KYCLifecycle WITH Users <- {u}, status <- [v \in {u} |-> StatusOf(v)]

\* As long as no call has written a user's rows while a Create for the user
\* was in progress, the three statements of Create and everything else move
\* the user as KYCLifecycle allows, whatever goes on for other users.
ImplementsLifecycleUnlessRaced ==
  [][\A u \in Users :
       \/ u \in raced'
       \/ StatusOf(u)' = StatusOf(u)
       \/ LifecycleOf(u)!Next]_dbVars

-----------------------------------------------------------------------------
(* What a comment says and the code does not do.                           *)

\* Create: "if the user has a non-terminal app, reject; if they have a
\* terminal app, delete it first".  It deletes no application in progress.
InProgressIsKept ==
  [][\A a \in AppIds :
       (rows[a] # NoApp /\ ~IsTerminal(rows[a].state)) => rows'[a] # NoApp]_dbVars
=============================================================================
