------------------ MODULE DBApplicationRepository_proofs ------------------
(***************************************************************************)
(* Theorems about the application store over PostgreSQL, for every number  *)
(* of users, ids and overlapping calls, and every bound.                   *)
(*                                                                         *)
(* The inductive invariant is DBInv.  OneActivePerUser and                 *)
(* DecidedRowIsScheduled are inductive with the types alone.  For          *)
(* NoUserForgotten one must know that the DELETE of a Create removes a row *)
(* of its own user, which is so because an id is inserted once (Fresh).    *)
(* AnnouncementsAccounted and CommitsReplay rest on CommitsBelow: a new    *)
(* transition has a version no committed one has.                          *)
(*                                                                         *)
(* The last part proves the lifecycle of the users whose creations nothing *)
(* raced, from DBInv and UnracedRows: such a user has one row at most.     *)
(***************************************************************************)
EXTENDS DBApplicationRepository, WellFoundedInduction, TLAPS

\* A non-empty set of numbers with an upper bound has a greatest element: what
\* ORDER BY created_at DESC LIMIT 1 rests on.
LEMMA Greatest ==
  ASSUME NEW S \in SUBSET Nat, S # {}, NEW m \in Nat, \A x \in S : x <= m
  PROVE  \E x \in S : \A y \in S : y <= x
<1> DEFINE T == {m - x : x \in S}
<1>1. \A x \in S : m - x \in Nat
  OBVIOUS
<1>2. T \subseteq Nat /\ T # {}
  <2> HIDE DEF T
  <2>1. T \subseteq Nat
    BY <1>1 DEF T
  <2>2. T # {}
    BY DEF T
  <2> QED
    BY <2>1, <2>2
<1>3. \E t \in T : \A v \in T : ~ (<<v, t>> \in OpToRel(<, Nat))
  BY <1>2, WFMin, NatLessThanWellFounded, Zenon
<1>4. \A v, w \in Nat : <<v, w>> \in OpToRel(<, Nat) <=> v < w
  BY DEF OpToRel
<1>5. PICK t \in T : \A v \in T : ~(v < t)
  BY <1>2, <1>3, <1>4
<1>6. PICK x \in S : t = m - x
  OBVIOUS
<1>7. ASSUME NEW y \in S PROVE y <= x
  <2>1. m - y \in T /\ ~(m - y < t)
    BY <1>5
  <2> QED
    BY <2>1, <1>6
<1> QED
  BY <1>7

\* No row, and no row about to be inserted, was created after the present.
Clocked ==
  /\ \A a \in AppIds : rows[a] # NoApp => rows[a].createdAt <= clock
  /\ \A c \in Callers : Creating(c) => call[c].createdAt <= clock

\* Ids in use were issued, a Create in progress holds an id nobody else holds,
\* and the row it is about to delete, if it still exists, is its user's.
Fresh ==
  /\ \A a \in AppIds : rows[a] # NoApp => a \in issued
  /\ \A c \in Callers : Creating(c) =>
       /\ call[c].id \in issued
       /\ rows[call[c].id] = NoApp
       /\ call[c].existing # NoApp => call[c].existing \in issued
       /\ \A d \in Callers : Creating(d) =>
            /\ call[d].existing # call[c].id
            /\ call[d].id = call[c].id => d = c

ExistingOwned ==
  \A c \in Callers : call[c].pc = "delete" =>
    /\ call[c].existing \in AppIds
    /\ rows[call[c].existing] # NoApp => rows[call[c].existing].user = call[c].user

\* The versions committed for an id are not above the version of its row, and
\* an id without a row yet has none.
CommitsBelow ==
  /\ \A a \in AppIds : rows[a] # NoApp => \A t \in commits[a] : t.version <= rows[a].version
  /\ \A a \in AppIds \ issued : commits[a] = {}
  /\ \A c \in Callers : Creating(c) => commits[call[c].id] = {}

\* No two calls are on their way to the sink with the same transition, and
\* none with one that was lost.
PendingDistinct ==
  \A c \in Callers : call[c].pc = "announce" =>
    /\ call[c].transition \notin lost[call[c].id]
    /\ \A d \in Callers :
         (/\ call[d].pc = "announce" /\ call[d].id = call[c].id
          /\ call[d].transition = call[c].transition) => d = c

DBInv ==
  /\ DBTypeOK /\ Clocked /\ OneActivePerUser /\ DecidedRowIsScheduled
  /\ Fresh /\ ExistingOwned /\ NoUserForgotten
  /\ CommitsBelow /\ PendingDistinct /\ AnnouncementsAccounted /\ CommitsReplay

-----------------------------------------------------------------------------
(* The steps, by what they do to the table.                                *)

\* What UpdateState and Reopen have in common.
Moves(c, id, newRow, newState) ==
  /\ call[c] = Idle
  /\ rows[id] # NoApp
  /\ newRow \in Row
  /\ newRow.user = rows[id].user /\ newRow.state = newState
  /\ newRow.version = rows[id].version + 1 /\ newRow.createdAt = rows[id].createdAt
  /\ IsTerminal(newState) => newRow.reKYCDue = "future"
  /\ CanTransition(rows[id].state, newState)
  /\ Activates(id, newState)
  /\ Commit(c, id, newRow, newState)

\* What SetVendorApplicantID and the clock have in common.
Rewrites(id, newRow) ==
  /\ rows[id] # NoApp
  /\ newRow \in Row
  /\ newRow.user = rows[id].user /\ newRow.state = rows[id].state
  /\ newRow.version >= rows[id].version /\ newRow.createdAt = rows[id].createdAt
  /\ newRow.reKYCDue # rows[id].reKYCDue => newRow.reKYCDue = "past"
  /\ rows' = [rows EXCEPT ![id] = newRow]
  /\ UNCHANGED <<call, trail, issued, clock, crashes, historyVars>>

\* A stored row has the type of a row.
LEMMA RowOf ==
  ASSUME DBTypeOK, NEW id \in AppIds, rows[id] # NoApp
  PROVE  /\ rows[id] \in Row
         /\ rows[id].user \in Users /\ rows[id].state \in States
         /\ rows[id].version \in Nat \ {0}
         /\ rows[id].reKYCDue \in {"unset", "future", "past"}
BY DEF DBTypeOK, Row

\* UpdateState is a move.
LEMMA UpdateStateMoves ==
  ASSUME DBTypeOK, NEW c \in Callers, NEW id \in AppIds, NEW version, NEW newState \in States,
         UpdateState(c, id, version, newState)
  PROVE  Moves(c, id, Transitioned(rows[id], newState), newState)
<1> DEFINE row == rows[id]
           due == IF IsTerminal(newState) THEN "future" ELSE row.reKYCDue
<1>1. row # NoApp /\ call[c] = Idle /\ Activates(id, newState)
      /\ CanTransition(row.state, newState) /\ Commit(c, id, Transitioned(row, newState), newState)
  BY DEF UpdateState, Has
<1>2. row \in Row /\ row.version \in Nat
  BY <1>1, RowOf
<1>3. row.version + 1 \in Nat \ {0} /\ due \in {"unset", "future", "past"}
  BY <1>1, <1>2, RowOf
<1>4. Transitioned(row, newState) \in Row
  BY <1>2, <1>3, Zenon DEF Row, Transitioned
<1>5. /\ Transitioned(row, newState).user = row.user
      /\ Transitioned(row, newState).state = newState
      /\ Transitioned(row, newState).version = row.version + 1
      /\ Transitioned(row, newState).createdAt = row.createdAt
      /\ IsTerminal(newState) => Transitioned(row, newState).reKYCDue = "future"
  BY <1>2 DEF Row, Transitioned
<1> QED
  BY <1>1, <1>4, <1>5 DEF Moves

\* Reopen is a move.
LEMMA ReopenMoves ==
  ASSUME DBTypeOK, NEW c \in Callers, NEW id \in AppIds, NEW version,
         Reopen(c, id, version)
  PROVE  Moves(c, id, Reopened(rows[id]), "STARTED")
<1> DEFINE row == rows[id]
<1>1. row # NoApp /\ call[c] = Idle /\ Activates(id, "STARTED") /\ IsTerminal(row.state)
      /\ Commit(c, id, Reopened(row), "STARTED")
  BY DEF Reopen, Has
<1>2. row \in Row /\ row.version + 1 \in Nat \ {0} /\ "STARTED" \in States
  BY <1>1, RowOf DEF States
<1>3. Reopened(row) \in Row
  BY <1>2, Zenon DEF Row, Reopened
<1>4. Reopened(row).user = row.user /\ Reopened(row).state = "STARTED"
      /\ Reopened(row).version = row.version + 1 /\ Reopened(row).createdAt = row.createdAt
  BY <1>2 DEF Row, Reopened
<1>5. ~IsTerminal("STARTED") /\ CanTransition(row.state, "STARTED")
  BY <1>1 DEF IsTerminal, TerminalStates, CanTransition, legalTransitions
<1> QED
  BY <1>1, <1>3, <1>4, <1>5 DEF Moves

\* SetVendorApplicantID rewrites a row and leaves its user and state alone.
LEMMA SetVendorRewrites ==
  ASSUME DBTypeOK, NEW id \in AppIds, SetVendorApplicantID(id)
  PROVE  \E newRow : Rewrites(id, newRow)
<1> DEFINE row == rows[id]
           newRow == Registered(row)
<1>1. row # NoApp /\ row \in Row /\ row.version \in Nat \ {0} /\ row.version + 1 \in Nat \ {0}
  BY RowOf DEF SetVendorApplicantID
<1>2. newRow \in Row
  BY <1>1, Zenon DEF Row, Registered
<1>3. newRow.user = row.user /\ newRow.state = row.state /\ newRow.version = row.version + 1
      /\ newRow.reKYCDue = row.reKYCDue /\ newRow.createdAt = row.createdAt
  BY <1>1 DEF Row, Registered
<1>4. rows' = [rows EXCEPT ![id] = newRow]
  BY DEF SetVendorApplicantID
<1>5. newRow.version >= row.version
  BY <1>1, <1>3
<1>6. Rewrites(id, newRow)
  BY <1>1, <1>2, <1>3, <1>4, <1>5 DEF Rewrites, SetVendorApplicantID
<1> QED
  BY <1>6

\* So does the passing of its year.
LEMMA ElapseRewrites ==
  ASSUME DBTypeOK, NEW id \in AppIds, Elapse(id)
  PROVE  \E newRow : Rewrites(id, newRow)
<1> DEFINE row == rows[id]
           newRow == [row EXCEPT !.reKYCDue = "past"]
<1>1. row # NoApp /\ row \in Row /\ row.version \in Nat
  BY RowOf DEF Elapse
<1>2. newRow \in Row
  BY <1>1, Zenon DEF Row
<1>3. newRow.user = row.user /\ newRow.state = row.state /\ newRow.version = row.version
      /\ newRow.reKYCDue = "past" /\ newRow.createdAt = row.createdAt
  BY <1>1 DEF Row
<1>4. rows' = [rows EXCEPT ![id] = newRow]
  BY DEF Elapse
<1>5. Rewrites(id, newRow)
  BY <1>1, <1>2, <1>3, <1>4 DEF Rewrites, Elapse
<1> QED
  BY <1>5

\* Every step is one of these.
LEMMA StepCases ==
  ASSUME DBTypeOK, DBNext
  PROVE  \/ \E c \in Callers, u \in Users, id \in AppIds, state \in FirstStates :
              CreateSelect(c, u, id, state)
         \/ \E c \in Callers :
              CreateDelete(c) \/ CreateInsert(c) \/ CreateRefused(c) \/ Announce(c) \/ Crash(c)
         \/ \E c \in Callers, id \in AppIds, newState \in States : \E newRow :
              Moves(c, id, newRow, newState)
         \/ \E id \in AppIds : \E newRow : Rewrites(id, newRow)
<1>1. "STARTED" \in States
  BY DEF States
<1> QED
  BY <1>1, UpdateStateMoves, ReopenMoves, SetVendorRewrites, ElapseRewrites
     DEF DBNext, CreateStep

-----------------------------------------------------------------------------
(* Types.                                                                  *)

\* A write on behalf of a user races creations of that user only.
LEMMA NoteWriteType ==
  ASSUME raced \subseteq Users, NEW c, NEW u \in Users, NoteWrite(c, u)
  PROVE  raced' \subseteq Users
BY DEF NoteWrite

\* The transition a move commits is one.
LEMMA TransitionOfType ==
  ASSUME NEW row \in Row, NEW newState \in States
  PROVE  /\ TransitionOf(row, newState) \in Transition
         /\ TransitionOf(row, newState).version = row.version + 1
         /\ TransitionOf(row, newState).from = row.state
         /\ TransitionOf(row, newState).to = newState
<1>1. row.version + 1 \in Nat \ {0} /\ row.state \in States
  BY DEF Row
<1> QED
  BY <1>1 DEF TransitionOf, Transition

\* What a move leaves behind, variable by variable.
LEMMA MovesEffect ==
  ASSUME DBTypeOK, NEW c \in Callers, NEW id \in AppIds, NEW newState \in States, NEW newRow,
         Moves(c, id, newRow, newState)
  PROVE  LET t == TransitionOf(rows[id], newState) IN
         /\ rows' = [rows EXCEPT ![id] = newRow]
         /\ call' = [call EXCEPT ![c] = [pc |-> "announce", id |-> id, transition |-> t]]
         /\ commits' = [commits EXCEPT ![id] = commits[id] \union {t}]
         /\ NoteWrite(c, rows[id].user)
         /\ UNCHANGED <<trail, issued, clock, crashes, lost, owed>>
BY DEF Moves, Commit

\* A move keeps the types.
LEMMA MovesType ==
  ASSUME DBTypeOK, NEW c \in Callers, NEW id \in AppIds, NEW newState \in States, NEW newRow,
         Moves(c, id, newRow, newState)
  PROVE  DBTypeOK'
<1> DEFINE t == TransitionOf(rows[id], newState)
           r == [pc |-> "announce", id |-> id, transition |-> t]
<1>1. t \in Transition
  BY RowOf, TransitionOfType DEF Moves
<1>2. r \in Announcement
  BY <1>1 DEF Announcement
<1>3. /\ rows' = [rows EXCEPT ![id] = newRow] /\ newRow \in Row
      /\ call' = [call EXCEPT ![c] = r]
      /\ commits' = [commits EXCEPT ![id] = commits[id] \union {t}]
      /\ UNCHANGED <<trail, issued, clock, crashes, lost, owed>>
  BY MovesEffect DEF Moves
<1>4. raced' \subseteq Users
  BY MovesEffect, RowOf, NoteWriteType DEF Moves, DBTypeOK
<1>5. rows' \in [AppIds -> Row \union {NoApp}]
  BY <1>3 DEF DBTypeOK
<1>6. call' \in [Callers -> {Idle} \union Creation \union Announcement]
  BY <1>2, <1>3, Zenon DEF DBTypeOK
<1>7. commits' \in [AppIds -> SUBSET Transition]
  BY <1>1, <1>3 DEF DBTypeOK
<1> QED
  BY <1>3, <1>4, <1>5, <1>6, <1>7 DEF DBTypeOK

\* A rewriting keeps the types.
LEMMA RewritesType ==
  ASSUME DBTypeOK, NEW id \in AppIds, NEW newRow, Rewrites(id, newRow)
  PROVE  DBTypeOK'
BY DEF DBTypeOK, Rewrites, historyVars

\* GetByUserID answers a row of the user if the user has one.
LEMMA GetByUserIDCases ==
  ASSUME DBTypeOK, Clocked, NEW u \in Users
  PROVE  \/ RowsOf(u) = {} /\ GetByUserID(u) = NoApp
         \/ GetByUserID(u) \in RowsOf(u)
<1>1. CASE RowsOf(u) = {}
  BY <1>1 DEF GetByUserID
<1>2. CASE RowsOf(u) # {}
  <2> DEFINE S == {rows[a].createdAt : a \in RowsOf(u)}
  <2>1. \A a \in RowsOf(u) : rows[a].createdAt \in Nat /\ rows[a].createdAt <= clock
    BY DEF RowsOf, Stored, DBTypeOK, Row, Clocked
  <2>2. S \subseteq Nat /\ S # {} /\ \A x \in S : x <= clock
    BY <1>2, <2>1
  <2>3. clock \in Nat
    BY DEF DBTypeOK
  <2>4. \E x \in S : \A y \in S : y <= x
    BY <2>2, <2>3, Greatest
  <2>5. \E a \in RowsOf(u) : \A b \in RowsOf(u) : rows[b].createdAt <= rows[a].createdAt
    BY <2>4
  <2>6. GetByUserID(u) =
          CHOOSE a \in RowsOf(u) : \A b \in RowsOf(u) : rows[b].createdAt <= rows[a].createdAt
    BY <1>2 DEF GetByUserID
  <2> QED
    BY <2>5, <2>6
<1> QED
  BY <1>1, <1>2

\* A Create in progress, and a call on its way to the sink, have these fields.
LEMMA CallFields ==
  ASSUME DBTypeOK, NEW c \in Callers
  PROVE  /\ Creating(c) =>
              /\ call[c].user \in Users /\ call[c].id \in AppIds
              /\ call[c].existing \in AppIds \union {NoApp}
              /\ call[c].createdAt \in Nat /\ call[c].state \in FirstStates
              /\ call[c] \in Creation
         /\ call[c].pc = "announce" =>
              call[c].id \in AppIds /\ call[c].transition \in Transition
         /\ call[c].pc \in {"idle", "delete", "insert", "announce"}
<1>1. call[c] \in {Idle} \union Creation \union Announcement
  BY DEF DBTypeOK
<1>2. CASE call[c] = Idle
  BY <1>2 DEF Idle, Creating
<1>3. CASE call[c] \in Creation
  BY <1>3 DEF Creation, Creating
<1>4. CASE call[c] \in Announcement
  BY <1>4 DEF Announcement, Creating
<1> QED
  BY <1>1, <1>2, <1>3, <1>4

\* An idle call is neither creating nor announcing.
LEMMA IdlePc == Idle.pc = "idle"
BY DEF Idle

\* The row Create inserts.
LEMMA NewRowType ==
  ASSUME DBTypeOK, NEW c \in Callers, Creating(c)
  PROVE  /\ NewRow(call[c]) \in Row
         /\ NewRow(call[c]).user = call[c].user
         /\ NewRow(call[c]).state = call[c].state
         /\ NewRow(call[c]).version = 1
         /\ ~IsTerminal(NewRow(call[c]).state)
<1>1. call[c].user \in Users /\ call[c].createdAt \in Nat /\ call[c].state \in FirstStates
  BY CallFields
<1>2. call[c].state \in States /\ call[c].state \notin TerminalStates
  BY <1>1, DBConstants
<1> QED
  BY <1>1, <1>2 DEF NewRow, Row, IsTerminal

-----------------------------------------------------------------------------
(* The steps of a Create.                                                  *)

\* What CreateSelect leaves behind.
LEMMA CreateSelectEffect ==
  ASSUME DBTypeOK, Clocked,
         NEW c \in Callers, NEW u \in Users, NEW id \in AppIds, NEW state \in FirstStates,
         CreateSelect(c, u, id, state)
  PROVE  \E creation \in Creation :
           /\ call' = [call EXCEPT ![c] = creation]
           /\ creation.user = u /\ creation.id = id /\ creation.createdAt = clock + 1
           /\ creation.existing # NoApp => creation.existing \in RowsOf(u)
           /\ creation.pc = "delete" => creation.existing \in RowsOf(u)
           /\ id \notin issued /\ issued' = issued \union {id}
           /\ clock' = clock + 1
           /\ UNCHANGED <<rows, trail, crashes, historyVars>>
<1> DEFINE creation == [pc |-> IF GetByUserID(u) = NoApp THEN "insert" ELSE "delete",
                        user |-> u, id |-> id, existing |-> GetByUserID(u),
                        createdAt |-> clock + 1, state |-> state]
<1>1. GetByUserID(u) = NoApp \/ GetByUserID(u) \in RowsOf(u)
  BY GetByUserIDCases
<1>2. RowsOf(u) \subseteq AppIds /\ clock + 1 \in Nat
  BY DEF RowsOf, Stored, DBTypeOK
<1>3. creation \in Creation
  BY <1>1, <1>2 DEF Creation
<1>4. /\ creation.user = u /\ creation.id = id /\ creation.createdAt = clock + 1
      /\ creation.existing # NoApp => creation.existing \in RowsOf(u)
      /\ creation.pc = "delete" => creation.existing \in RowsOf(u)
  BY <1>1
<1>5. call' = [call EXCEPT ![c] = creation]
  BY DEF CreateSelect
<1> QED
  BY <1>3, <1>4, <1>5 DEF CreateSelect

\* What CreateDelete leaves behind.
LEMMA CreateDeleteEffect ==
  ASSUME DBTypeOK, NEW c \in Callers, CreateDelete(c)
  PROVE  \E creation \in Creation :
           /\ creation.pc = "insert"
           /\ creation.user = call[c].user /\ creation.id = call[c].id
           /\ creation.createdAt = call[c].createdAt /\ creation.existing = call[c].existing
           /\ call' = [call EXCEPT ![c] = creation]
<1> DEFINE creation == [call[c] EXCEPT !.pc = "insert"]
<1>1. call[c] \in Creation
  BY CallFields DEF CreateDelete, Creating
<1>2. creation \in Creation
  BY <1>1, Zenon DEF Creation
<1>3. /\ creation.pc = "insert"
      /\ creation.user = call[c].user /\ creation.id = call[c].id
      /\ creation.createdAt = call[c].createdAt /\ creation.existing = call[c].existing
  BY <1>1 DEF Creation
<1>4. call' = [call EXCEPT ![c] = creation]
  BY DEF CreateDelete
<1> QED
  BY <1>2, <1>3, <1>4

\* Every step keeps the types.
LEMMA TypeStep ==
  ASSUME DBTypeOK, Clocked, DBNext
  PROVE  DBTypeOK'
<1>1. ASSUME NEW c \in Callers, NEW u \in Users, NEW id \in AppIds, NEW state \in FirstStates,
             CreateSelect(c, u, id, state)
      PROVE  DBTypeOK'
  <2>1. PICK creation \in Creation :
          /\ call' = [call EXCEPT ![c] = creation]
          /\ issued' = issued \union {id} /\ clock' = clock + 1
          /\ UNCHANGED <<rows, trail, crashes, historyVars>>
    BY <1>1, CreateSelectEffect, Zenon
  <2>2. call' \in [Callers -> {Idle} \union Creation \union Announcement]
    BY <2>1, Zenon DEF DBTypeOK
  <2> QED
    BY <2>1, <2>2 DEF DBTypeOK, historyVars
<1>2. ASSUME NEW c \in Callers, CreateDelete(c)
      PROVE  DBTypeOK'
  <2>1. PICK creation \in Creation : call' = [call EXCEPT ![c] = creation]
    BY <1>2, CreateDeleteEffect
  <2>2. call' \in [Callers -> {Idle} \union Creation \union Announcement]
    BY <2>1, Zenon DEF DBTypeOK
  <2>3. raced' \subseteq Users
    BY <1>2, CallFields, NoteWriteType DEF CreateDelete, Creating, DBTypeOK
  <2> QED
    BY <1>2, <2>2, <2>3 DEF CreateDelete, DBTypeOK
<1>3. ASSUME NEW c \in Callers, CreateInsert(c)
      PROVE  DBTypeOK'
  <2>1. Creating(c) /\ call[c].user \in Users
    BY <1>3, CallFields DEF CreateInsert, Creating
  <2>2. rows' \in [AppIds -> Row \union {NoApp}]
    BY <1>3, <2>1, NewRowType DEF CreateInsert, DBTypeOK
  <2>3. call' \in [Callers -> {Idle} \union Creation \union Announcement]
    BY <1>3, Zenon DEF CreateInsert, DBTypeOK
  <2>4. raced' \subseteq Users /\ owed' \subseteq Users
    BY <1>3, <2>1, NoteWriteType DEF CreateInsert, DBTypeOK
  <2> QED
    BY <1>3, <2>2, <2>3, <2>4 DEF CreateInsert, DBTypeOK
<1>4. ASSUME NEW c \in Callers, CreateRefused(c)
      PROVE  DBTypeOK'
  <2>1. call' \in [Callers -> {Idle} \union Creation \union Announcement]
    BY <1>4, Zenon DEF CreateRefused, DBTypeOK
  <2> QED
    BY <1>4, <2>1 DEF CreateRefused, DBTypeOK, historyVars
<1>5. ASSUME NEW c \in Callers, Announce(c)
      PROVE  DBTypeOK'
  <2>1. call' \in [Callers -> {Idle} \union Creation \union Announcement]
    BY <1>5, Zenon DEF Announce, DBTypeOK
  <2>2. call[c].id \in AppIds /\ call[c].transition \in Transition
    BY <1>5, CallFields DEF Announce
  <2>3. trail' \in [AppIds -> Seq(Transition)]
    BY <1>5, <2>2 DEF Announce, DBTypeOK
  <2> QED
    BY <1>5, <2>1, <2>3 DEF Announce, DBTypeOK, historyVars
<1>6. ASSUME NEW c \in Callers, Crash(c)
      PROVE  DBTypeOK'
  <2>1. call' \in [Callers -> {Idle} \union Creation \union Announcement]
    BY <1>6, Zenon DEF Crash, DBTypeOK
  <2>2. crashes' \in 0 .. MaxCrashes
    BY <1>6, DBConstants DEF Crash, DBTypeOK
  <2>3. owed' \subseteq Users
    BY <1>6 DEF Crash, DBTypeOK
  <2>4. lost' \in [AppIds -> SUBSET Transition]
    BY <1>6, CallFields DEF Crash, DBTypeOK
  <2> QED
    BY <1>6, <2>1, <2>2, <2>3, <2>4 DEF Crash, DBTypeOK
<1> QED
  BY <1>1, <1>2, <1>3, <1>4, <1>5, <1>6, StepCases, MovesType, RewritesType

-----------------------------------------------------------------------------
(* The table.                                                              *)

\* The clock is never behind a row.
LEMMA ClockedStep ==
  ASSUME DBTypeOK, Clocked, DBNext
  PROVE  Clocked'
<1>0. clock \in Nat
  BY DEF DBTypeOK
<1>1. ASSUME NEW c \in Callers, NEW u \in Users, NEW id \in AppIds, NEW state \in FirstStates,
             CreateSelect(c, u, id, state)
      PROVE  Clocked'
  <2>1. PICK creation \in Creation :
          /\ call' = [call EXCEPT ![c] = creation] /\ creation.createdAt = clock + 1
          /\ clock' = clock + 1 /\ rows' = rows
    BY <1>1, CreateSelectEffect, Zenon
  <2>2. \A a \in AppIds : rows[a] # NoApp => rows[a].createdAt \in Nat
    BY DEF DBTypeOK, Row
  <2>3. \A d \in Callers : Creating(d) => call[d].createdAt \in Nat
    BY CallFields
  <2> QED
    BY <1>0, <2>1, <2>2, <2>3 DEF Clocked, Creating, DBTypeOK
<1>2. ASSUME NEW c \in Callers, CreateDelete(c)
      PROVE  Clocked'
  <2>1. PICK creation \in Creation :
          creation.createdAt = call[c].createdAt /\ call' = [call EXCEPT ![c] = creation]
    BY <1>2, CreateDeleteEffect
  <2> QED
    BY <1>2, <2>1 DEF Clocked, Creating, DBTypeOK, CreateDelete
<1>3. ASSUME NEW c \in Callers, CreateInsert(c)
      PROVE  Clocked'
  BY <1>3, IdlePc DEF Clocked, Creating, DBTypeOK, CreateInsert, NewRow
<1>4. ASSUME NEW c \in Callers, CreateRefused(c) \/ Announce(c) \/ Crash(c)
      PROVE  Clocked'
  <2>1. call' = [call EXCEPT ![c] = Idle] /\ UNCHANGED <<rows, clock>>
    BY <1>4 DEF CreateRefused, Announce, Crash
  <2> QED
    BY <2>1, IdlePc DEF Clocked, Creating, DBTypeOK
<1>5. ASSUME NEW c \in Callers, NEW id \in AppIds, NEW newState \in States, NEW newRow,
             Moves(c, id, newRow, newState)
      PROVE  Clocked'
  <2> DEFINE r == [pc |-> "announce", id |-> id,
                   transition |-> TransitionOf(rows[id], newState)]
  <2>1. /\ rows' = [rows EXCEPT ![id] = newRow] /\ clock' = clock
        /\ r.pc = "announce" /\ call' = [call EXCEPT ![c] = r]
    BY <1>5, MovesEffect
  <2> HIDE DEF r
  <2>2. newRow.createdAt = rows[id].createdAt /\ rows[id] # NoApp
    BY <1>5 DEF Moves
  <2>3. \A a \in AppIds : rows'[a] # NoApp => rows'[a].createdAt <= clock'
    BY <2>1, <2>2 DEF Clocked, DBTypeOK
  <2>4. \A d \in Callers : Creating(d)' => Creating(d) /\ call'[d] = call[d]
    BY <2>1 DEF Creating, DBTypeOK
  <2> QED
    BY <2>1, <2>3, <2>4 DEF Clocked
<1>6. ASSUME NEW id \in AppIds, NEW newRow, Rewrites(id, newRow)
      PROVE  Clocked'
  BY <1>6 DEF Clocked, Creating, DBTypeOK, Rewrites
<1> QED
  BY <1>1, <1>2, <1>3, <1>4, <1>5, <1>6, StepCases

\* What a step does to the rows: nothing, it deletes one, inserts one that is
\* active into a user's empty active set, moves one, or rewrites one.
Deletes == \E a : rows' = [rows EXCEPT ![a] = NoApp]

Inserts ==
  \E id \in AppIds, row \in Row :
    /\ rows' = [rows EXCEPT ![id] = row]
    /\ ~IsTerminal(row.state) /\ Active(row.user) = {}

MovesOne ==
  \E id \in AppIds, row \in Row :
    /\ rows[id] # NoApp
    /\ rows' = [rows EXCEPT ![id] = row]
    /\ row.user = rows[id].user
    /\ ~IsTerminal(row.state) => Active(row.user) \subseteq {id}
    /\ IsTerminal(row.state) => row.reKYCDue = "future"

RewritesOne ==
  \E id \in AppIds, row \in Row :
    /\ rows[id] # NoApp
    /\ rows' = [rows EXCEPT ![id] = row]
    /\ row.user = rows[id].user /\ row.state = rows[id].state
    /\ row.reKYCDue # rows[id].reKYCDue => row.reKYCDue = "past"

\* Every step is one of these.
LEMMA RowsStep ==
  ASSUME DBTypeOK, Clocked, DBNext
  PROVE  rows' = rows \/ Deletes \/ Inserts \/ MovesOne \/ RewritesOne
<1>1. ASSUME NEW c \in Callers, CreateInsert(c)
      PROVE  Inserts
  <2>1. Creating(c) /\ call[c].id \in AppIds
    BY <1>1, CallFields DEF CreateInsert, Creating
  <2> QED
    BY <1>1, <2>1, NewRowType DEF CreateInsert, IndexAllows, Inserts
<1>2. ASSUME NEW c \in Callers, CreateDelete(c)
      PROVE  Deletes
  BY <1>2 DEF CreateDelete, Deletes
<1>3. ASSUME NEW c \in Callers, CreateRefused(c) \/ Announce(c) \/ Crash(c)
      PROVE  rows' = rows
  BY <1>3 DEF CreateRefused, Announce, Crash
<1>4. ASSUME NEW c \in Callers, NEW u \in Users, NEW id \in AppIds, NEW state \in FirstStates,
             CreateSelect(c, u, id, state)
      PROVE  rows' = rows
  BY <1>4 DEF CreateSelect
<1>5. ASSUME NEW c \in Callers, NEW id \in AppIds, NEW newState \in States, NEW newRow,
             Moves(c, id, newRow, newState)
      PROVE  MovesOne
  <2>1. rows' = [rows EXCEPT ![id] = newRow]
    BY <1>5, MovesEffect
  <2>2. /\ newRow \in Row /\ rows[id] # NoApp /\ newRow.user = rows[id].user
        /\ ~IsTerminal(newRow.state) => Active(newRow.user) \subseteq {id}
        /\ IsTerminal(newRow.state) => newRow.reKYCDue = "future"
    BY <1>5 DEF Moves, Activates
  <2> QED
    BY <2>1, <2>2 DEF MovesOne
<1>6. ASSUME NEW id \in AppIds, NEW newRow, Rewrites(id, newRow)
      PROVE  RewritesOne
  BY <1>6 DEF Rewrites, RewritesOne
<1> QED
  BY <1>1, <1>2, <1>3, <1>4, <1>5, <1>6, StepCases

\* No step gives a user a second application in progress.
LEMMA OneActiveStep ==
  ASSUME DBTypeOK, Clocked, OneActivePerUser, DBNext
  PROVE  OneActivePerUser'
<1> USE NoRowAssumption DEF DBTypeOK, OneActivePerUser, Stored
<1>1. CASE rows' = rows
  BY <1>1
<1>2. CASE Deletes
  BY <1>2 DEF Deletes
<1>3. CASE Inserts
  BY <1>3 DEF Inserts, Active, RowsOf
<1>4. CASE MovesOne
  BY <1>4 DEF MovesOne, Active, RowsOf
<1>5. CASE RewritesOne
  BY <1>5 DEF RewritesOne
<1> QED
  BY <1>1, <1>2, <1>3, <1>4, <1>5, RowsStep

\* What "terminal rows have a due date" comes down to.
LEMMA ScheduledMeansDue ==
  ASSUME DBTypeOK
  PROVE  DecidedRowIsScheduled <=>
           \A a \in AppIds : rows[a] # NoApp /\ IsTerminal(rows[a].state)
                               => rows[a].reKYCDue \in {"future", "past"}
BY DEF DBTypeOK, DecidedRowIsScheduled, ListDueForReKYC, Stored, Row

\* No step strands a decided row.
LEMMA ScheduledStep ==
  ASSUME DBTypeOK, DBTypeOK', Clocked, DecidedRowIsScheduled, DBNext
  PROVE  DecidedRowIsScheduled'
<1> DEFINE Due(r) == \A a \in AppIds : r[a] # NoApp /\ IsTerminal(r[a].state)
                                        => r[a].reKYCDue \in {"future", "past"}
<1>1. Due(rows)
  BY ScheduledMeansDue
<1>2. Due(rows')
  <2> USE <1>1, NoRowAssumption DEF DBTypeOK
  <2>1. CASE rows' = rows
    BY <2>1
  <2>2. CASE Deletes
    BY <2>2 DEF Deletes
  <2>3. CASE Inserts
    BY <2>3 DEF Inserts
  <2>4. CASE MovesOne
    BY <2>4 DEF MovesOne
  <2>5. CASE RewritesOne
    BY <2>5 DEF RewritesOne
  <2> QED
    BY <2>1, <2>2, <2>3, <2>4, <2>5, RowsStep
<1>3. DecidedRowIsScheduled' <=> Due(rows')
  BY DEF DBTypeOK, DecidedRowIsScheduled, ListDueForReKYC, Stored, Row
<1> QED
  BY <1>2, <1>3

-----------------------------------------------------------------------------
(* Creations in progress.                                                  *)

\* A step that ends a call, or starts an announcement, creates nothing.
LEMMA CreatingAfter ==
  ASSUME DBTypeOK, NEW c \in Callers, NEW r, r.pc \notin {"delete", "insert"},
         call' = [call EXCEPT ![c] = r]
  PROVE  \A d \in Callers : /\ Creating(d)' => d # c /\ Creating(d)
                            /\ d # c => call'[d] = call[d]
                            /\ d = c => call'[d] = r
BY DEF DBTypeOK, Creating

\* Ids are handed out once, and a Create in progress holds one of its own.
LEMMA FreshStep ==
  ASSUME DBTypeOK, Clocked, Fresh, DBNext
  PROVE  Fresh'
<1> USE NoRowAssumption
<1>1. ASSUME NEW c \in Callers, NEW u \in Users, NEW id \in AppIds, NEW state \in FirstStates,
             CreateSelect(c, u, id, state)
      PROVE  Fresh'
  <2>1. PICK creation \in Creation :
          /\ call' = [call EXCEPT ![c] = creation] /\ creation.id = id
          /\ creation.existing # NoApp => creation.existing \in RowsOf(u)
          /\ id \notin issued /\ issued' = issued \union {id} /\ rows' = rows
    BY <1>1, CreateSelectEffect
  <2>2. rows[id] = NoApp
    BY <2>1 DEF Fresh
  <2>3. creation.existing # NoApp =>
          creation.existing \in issued /\ rows[creation.existing] # NoApp
    BY <2>1 DEF RowsOf, Stored, Fresh
  <2>4. call'[c] = creation /\ \A d \in Callers \ {c} : call'[d] = call[d]
    BY <2>1 DEF DBTypeOK
  <2>5. \A d \in Callers \ {c} : Creating(d)' => Creating(d)
    BY <2>4 DEF Creating
  <2>6. ASSUME NEW d \in Callers, Creating(d)'
        PROVE  /\ call'[d].id \in issued' /\ rows'[call'[d].id] = NoApp
               /\ call'[d].existing # NoApp => call'[d].existing \in issued'
    BY <2>1, <2>2, <2>3, <2>4, <2>5, <2>6 DEF Fresh
  <2>7. ASSUME NEW d \in Callers, NEW e \in Callers, Creating(d)', Creating(e)'
        PROVE  /\ call'[e].existing # call'[d].id
               /\ call'[e].id = call'[d].id => e = d
    <3>1. CASE d = c /\ e = c
      BY <3>1, <2>1, <2>2, <2>3, <2>4
    <3>2. CASE d = c /\ e # c
      BY <3>2, <2>1, <2>4, <2>5, <2>7 DEF Fresh
    <3>3. CASE d # c /\ e = c
      BY <3>3, <2>1, <2>3, <2>4, <2>5, <2>7, CallFields DEF Fresh
    <3>4. CASE d # c /\ e # c
      BY <3>4, <2>4, <2>5, <2>7 DEF Fresh
    <3> QED
      BY <3>1, <3>2, <3>3, <3>4
  <2>8. \A a \in AppIds : rows'[a] # NoApp => a \in issued'
    BY <2>1 DEF Fresh
  <2> QED
    BY <2>6, <2>7, <2>8 DEF Fresh
<1>2. ASSUME NEW c \in Callers, CreateDelete(c)
      PROVE  Fresh'
  <2>1. PICK creation \in Creation :
          /\ creation.id = call[c].id /\ creation.existing = call[c].existing
          /\ call' = [call EXCEPT ![c] = creation]
    BY <1>2, CreateDeleteEffect
  <2>2. \A d \in Callers : /\ Creating(d)' => Creating(d)
                           /\ Creating(d) => /\ call'[d].id = call[d].id
                                             /\ call'[d].existing = call[d].existing
    BY <1>2, <2>1 DEF Creating, CreateDelete, DBTypeOK
  <2>3. issued' = issued /\ \A a \in AppIds : rows'[a] # NoApp => rows[a] # NoApp
    BY <1>2 DEF CreateDelete, DBTypeOK
  <2>4. \A d \in Callers : Creating(d) => call[d].id \in AppIds
    BY CallFields
  <2> QED
    BY <2>2, <2>3, <2>4 DEF Fresh
<1>3. ASSUME NEW c \in Callers, CreateInsert(c)
      PROVE  Fresh'
  <2>1. Creating(c)
    BY <1>3 DEF CreateInsert, Creating
  <2>2. \A d \in Callers : Creating(d)' => d # c /\ Creating(d) /\ call'[d] = call[d]
    BY <1>3, IdlePc, CreatingAfter DEF CreateInsert
  <2>3. issued' = issued /\ rows' = [rows EXCEPT ![call[c].id] = NewRow(call[c])]
    BY <1>3 DEF CreateInsert
  <2> QED
    BY <2>1, <2>2, <2>3 DEF Fresh, DBTypeOK
<1>4. ASSUME NEW c \in Callers, CreateRefused(c) \/ Announce(c) \/ Crash(c)
      PROVE  Fresh'
  <2>1. call' = [call EXCEPT ![c] = Idle] /\ UNCHANGED <<rows, issued>>
    BY <1>4 DEF CreateRefused, Announce, Crash
  <2>2. \A d \in Callers : Creating(d)' => Creating(d) /\ call'[d] = call[d]
    BY <2>1, IdlePc, CreatingAfter
  <2> QED
    BY <2>1, <2>2 DEF Fresh
<1>5. ASSUME NEW c \in Callers, NEW id \in AppIds, NEW newState \in States, NEW newRow,
             Moves(c, id, newRow, newState)
      PROVE  Fresh'
  <2> DEFINE r == [pc |-> "announce", id |-> id,
                   transition |-> TransitionOf(rows[id], newState)]
  <2>1. /\ rows' = [rows EXCEPT ![id] = newRow] /\ issued' = issued
        /\ r.pc = "announce" /\ call' = [call EXCEPT ![c] = r]
    BY <1>5, MovesEffect
  <2> HIDE DEF r
  <2>2. \A d \in Callers : Creating(d)' => Creating(d) /\ call'[d] = call[d]
    BY <2>1, CreatingAfter
  <2>3. rows[id] # NoApp
    BY <1>5 DEF Moves
  <2> QED
    BY <2>1, <2>2, <2>3 DEF Fresh, DBTypeOK
<1>6. ASSUME NEW id \in AppIds, NEW newRow, Rewrites(id, newRow)
      PROVE  Fresh'
  BY <1>6 DEF Fresh, Creating, Rewrites, DBTypeOK
<1> QED
  BY <1>1, <1>2, <1>3, <1>4, <1>5, <1>6, StepCases

\* The row a Create is about to delete stays its user's.
LEMMA ExistingOwnedStep ==
  ASSUME DBTypeOK, Clocked, Fresh, ExistingOwned, DBNext
  PROVE  ExistingOwned'
<1> USE NoRowAssumption
<1>1. ASSUME NEW c \in Callers, NEW u \in Users, NEW id \in AppIds, NEW state \in FirstStates,
             CreateSelect(c, u, id, state)
      PROVE  ExistingOwned'
  <2>1. PICK creation \in Creation :
          /\ call' = [call EXCEPT ![c] = creation] /\ creation.user = u
          /\ creation.pc = "delete" => creation.existing \in RowsOf(u)
          /\ rows' = rows
    BY <1>1, CreateSelectEffect
  <2> QED
    BY <2>1 DEF ExistingOwned, RowsOf, Stored, DBTypeOK
<1>2. ASSUME NEW c \in Callers, CreateDelete(c)
      PROVE  ExistingOwned'
  <2>1. PICK creation \in Creation :
          creation.pc = "insert" /\ call' = [call EXCEPT ![c] = creation]
    BY <1>2, CreateDeleteEffect
  <2>2. \A d \in Callers : call'[d].pc = "delete" => call[d].pc = "delete" /\ call'[d] = call[d]
    BY <2>1 DEF DBTypeOK
  <2>3. \A a \in AppIds : rows'[a] # NoApp => rows'[a] = rows[a]
    BY <1>2 DEF CreateDelete, DBTypeOK
  <2> QED
    BY <2>2, <2>3 DEF ExistingOwned
<1>3. ASSUME NEW c \in Callers, CreateInsert(c)
      PROVE  ExistingOwned'
  <2>1. Creating(c)
    BY <1>3 DEF CreateInsert, Creating
  <2>2. \A d \in Callers : call'[d].pc = "delete" =>
          Creating(d) /\ call[d].pc = "delete" /\ call'[d] = call[d]
    BY <1>3, IdlePc DEF CreateInsert, Creating, DBTypeOK
  <2>3. rows' = [rows EXCEPT ![call[c].id] = NewRow(call[c])]
    BY <1>3 DEF CreateInsert
  <2>4. \A d \in Callers : Creating(d) => call[d].existing # call[c].id
    BY <2>1 DEF Fresh
  <2> QED
    BY <2>2, <2>3, <2>4 DEF ExistingOwned, DBTypeOK
<1>4. ASSUME NEW c \in Callers, CreateRefused(c) \/ Announce(c) \/ Crash(c)
      PROVE  ExistingOwned'
  <2>1. call' = [call EXCEPT ![c] = Idle] /\ rows' = rows
    BY <1>4 DEF CreateRefused, Announce, Crash
  <2> QED
    BY <2>1, IdlePc DEF ExistingOwned, DBTypeOK
<1>5. ASSUME NEW c \in Callers, NEW id \in AppIds, NEW newState \in States, NEW newRow,
             Moves(c, id, newRow, newState)
      PROVE  ExistingOwned'
  <2> DEFINE r == [pc |-> "announce", id |-> id,
                   transition |-> TransitionOf(rows[id], newState)]
  <2>1. /\ rows' = [rows EXCEPT ![id] = newRow]
        /\ r.pc = "announce" /\ call' = [call EXCEPT ![c] = r]
    BY <1>5, MovesEffect
  <2> HIDE DEF r
  <2>2. rows[id] # NoApp /\ newRow.user = rows[id].user
    BY <1>5 DEF Moves
  <2> QED
    BY <2>1, <2>2 DEF ExistingOwned, DBTypeOK
<1>6. ASSUME NEW id \in AppIds, NEW newRow, Rewrites(id, newRow)
      PROVE  ExistingOwned'
  BY <1>6 DEF ExistingOwned, Rewrites, DBTypeOK
<1> QED
  BY <1>1, <1>2, <1>3, <1>4, <1>5, <1>6, StepCases

\* User u has a row, or an insertion on its way.
Provided(u) ==
  RowsOf(u) # {} \/ \E c \in Callers : call[c].pc = "insert" /\ call[c].user = u

\* Nobody who is owed an application is left without a row and without an
\* insertion on its way.
LEMMA NotForgottenStep ==
  ASSUME DBTypeOK, Clocked, Fresh, ExistingOwned, NoUserForgotten, DBNext
  PROVE  NoUserForgotten'
<1> USE NoRowAssumption
<1>0. \A u \in owed : Provided(u)
  BY DEF NoUserForgotten, Provided
<1>1. ASSUME NEW c \in Callers, NEW u \in Users, NEW id \in AppIds, NEW state \in FirstStates,
             CreateSelect(c, u, id, state)
      PROVE  NoUserForgotten'
  <2>1. rows' = rows /\ owed' = owed /\ call[c] = Idle
        /\ \A d \in Callers \ {c} : call'[d] = call[d]
    BY <1>1 DEF CreateSelect, historyVars, DBTypeOK
  <2> QED
    BY <1>0, <2>1, IdlePc DEF NoUserForgotten, Provided, RowsOf, Stored
<1>2. ASSUME NEW c \in Callers, CreateDelete(c)
      PROVE  NoUserForgotten'
  <2>1. PICK creation \in Creation :
          /\ creation.pc = "insert" /\ creation.user = call[c].user
          /\ call' = [call EXCEPT ![c] = creation]
    BY <1>2, CreateDeleteEffect
  <2>2. /\ call[c].pc = "delete" /\ owed' = owed
        /\ rows' = [rows EXCEPT ![call[c].existing] = NoApp]
    BY <1>2 DEF CreateDelete
  <2>3. call'[c] = creation /\ \A d \in Callers \ {c} : call'[d] = call[d]
    BY <2>1 DEF DBTypeOK
  <2>4. \A a \in AppIds : rows[a] # NoApp /\ rows[a].user # call[c].user => rows'[a] = rows[a]
    BY <2>2 DEF ExistingOwned, DBTypeOK
  <2>5. ASSUME NEW u \in owed
        PROVE  Provided(u)'
    <3>1. CASE u = call[c].user
      BY <3>1, <2>1, <2>3 DEF Provided
    <3>2. CASE u # call[c].user
      BY <3>2, <1>0, <2>2, <2>3, <2>4 DEF Provided, RowsOf, Stored
    <3> QED
      BY <3>1, <3>2
  <2> QED
    BY <2>2, <2>5 DEF NoUserForgotten, Provided
<1>3. ASSUME NEW c \in Callers, CreateInsert(c)
      PROVE  NoUserForgotten'
  <2>1. Creating(c) /\ call[c].id \in AppIds
    BY <1>3, CallFields DEF CreateInsert, Creating
  <2>2. rows[call[c].id] = NoApp
    BY <2>1 DEF Fresh
  <2>3. PICK owner, id, row : owner = call[c].user /\ id = call[c].id /\ row = NewRow(call[c])
    OBVIOUS
  <2>4. /\ rows' = [rows EXCEPT ![id] = row]
        /\ call' = [call EXCEPT ![c] = Idle]
        /\ owed' = owed \union {owner}
    BY <1>3, <2>3 DEF CreateInsert
  <2>5. row.user = owner /\ row # NoApp
    BY <2>1, <2>3, NewRowType
  <2>6. rows'[id] = row /\ id \in AppIds
    BY <2>1, <2>3, <2>4 DEF DBTypeOK
  <2>7. id \in RowsOf(owner)'
    BY <2>5, <2>6 DEF RowsOf, Stored
  <2>8. \A a \in AppIds : rows[a] # NoApp => rows'[a] = rows[a]
    BY <2>2, <2>3, <2>4 DEF DBTypeOK
  <2>9. \A d \in Callers \ {c} : call'[d] = call[d]
    BY <2>4 DEF DBTypeOK
  <2>10. ASSUME NEW u \in owed'
        PROVE  Provided(u)'
    <3>1. CASE u = owner
      BY <3>1, <2>7 DEF Provided
    <3>2. CASE u # owner
      BY <3>2, <1>0, <2>3, <2>4, <2>8, <2>9 DEF Provided, RowsOf, Stored
    <3> QED
      BY <3>1, <3>2
  <2> QED
    BY <2>10 DEF NoUserForgotten, Provided
<1>4. ASSUME NEW c \in Callers, CreateRefused(c)
      PROVE  NoUserForgotten'
  <2>1. /\ call[c].pc = "insert" /\ Active(call[c].user) # {}
        /\ call' = [call EXCEPT ![c] = Idle] /\ rows' = rows /\ owed' = owed
    BY <1>4 DEF CreateRefused, IndexAllows, historyVars
  <2>2. RowsOf(call[c].user) # {}
    BY <2>1 DEF Active
  <2>3. \A d \in Callers \ {c} : call'[d] = call[d]
    BY <2>1 DEF DBTypeOK
  <2> QED
    BY <1>0, <2>1, <2>2, <2>3 DEF NoUserForgotten, Provided, RowsOf, Stored
<1>5. ASSUME NEW c \in Callers, Announce(c)
      PROVE  NoUserForgotten'
  <2>1. /\ call[c].pc = "announce" /\ rows' = rows /\ owed' = owed
        /\ \A d \in Callers \ {c} : call'[d] = call[d]
    BY <1>5 DEF Announce, historyVars, DBTypeOK
  <2> QED
    BY <1>0, <2>1 DEF NoUserForgotten, Provided, RowsOf, Stored
<1>6. ASSUME NEW c \in Callers, Crash(c)
      PROVE  NoUserForgotten'
  <2>1. /\ owed' = IF Creating(c) THEN owed \ {call[c].user} ELSE owed
        /\ rows' = rows /\ \A d \in Callers \ {c} : call'[d] = call[d]
    BY <1>6 DEF Crash, DBTypeOK
  <2> QED
    BY <1>0, <2>1 DEF NoUserForgotten, Provided, RowsOf, Stored, Creating
<1>7. ASSUME NEW c \in Callers, NEW id \in AppIds, NEW newState \in States, NEW newRow,
             Moves(c, id, newRow, newState)
      PROVE  NoUserForgotten'
  <2>1. /\ rows' = [rows EXCEPT ![id] = newRow] /\ owed' = owed
        /\ \A d \in Callers \ {c} : call'[d] = call[d]
    BY <1>7, MovesEffect DEF DBTypeOK
  <2>2. rows[id] # NoApp /\ newRow \in Row /\ newRow.user = rows[id].user /\ call[c] = Idle
    BY <1>7 DEF Moves
  <2>3. \A u : RowsOf(u) \subseteq RowsOf(u)'
    BY <2>1, <2>2 DEF RowsOf, Stored, DBTypeOK
  <2> QED
    BY <1>0, <2>1, <2>2, <2>3, IdlePc DEF NoUserForgotten, Provided
<1>8. ASSUME NEW id \in AppIds, NEW newRow, Rewrites(id, newRow)
      PROVE  NoUserForgotten'
  <2>1. \A u : RowsOf(u) \subseteq RowsOf(u)'
    BY <1>8 DEF RowsOf, Stored, DBTypeOK, Rewrites
  <2> QED
    BY <1>0, <1>8, <2>1 DEF NoUserForgotten, Provided, Rewrites, historyVars
<1> QED
  BY <1>1, <1>2, <1>3, <1>4, <1>5, <1>6, <1>7, <1>8, StepCases

-----------------------------------------------------------------------------
(* Commits.                                                                *)

\* A step commits nothing and leaves every row with a past its state, or it
\* is a move.
CommitsNothing ==
  /\ commits' = commits
  /\ \A a \in AppIds : rows'[a] # NoApp =>
       \/ commits[a] = {}
       \/ /\ rows[a] # NoApp /\ rows'[a].state = rows[a].state
          /\ rows'[a].version >= rows[a].version
  /\ issued \subseteq issued'
  /\ \A c \in Callers : Creating(c)' =>
       \/ call'[c].id \in AppIds \ issued
       \/ Creating(c) /\ call'[c].id = call[c].id

\* Every step is one or the other.
LEMMA CommitsStep ==
  ASSUME DBTypeOK, Clocked, Fresh, CommitsBelow, DBNext
  PROVE  \/ CommitsNothing
         \/ \E c \in Callers, id \in AppIds, newState \in States : \E newRow :
              Moves(c, id, newRow, newState)
<1> USE NoRowAssumption
<1>0. \A a \in AppIds : rows[a] # NoApp => rows[a].version \in Nat
  BY DEF DBTypeOK, Row
<1>1. ASSUME NEW c \in Callers, NEW u \in Users, NEW id \in AppIds, NEW state \in FirstStates,
             CreateSelect(c, u, id, state)
      PROVE  CommitsNothing
  <2>1. PICK creation \in Creation :
          /\ call' = [call EXCEPT ![c] = creation] /\ creation.id = id
          /\ id \notin issued /\ issued' = issued \union {id}
          /\ UNCHANGED <<rows, trail, crashes, historyVars>>
    BY <1>1, CreateSelectEffect
  <2>2. \A d \in Callers : d # c => call'[d] = call[d]
    BY <2>1 DEF DBTypeOK
  <2>3. call'[c] = creation
    BY <2>1 DEF DBTypeOK
  <2>4. ASSUME NEW d \in Callers, Creating(d)'
        PROVE  call'[d].id \in AppIds \ issued \/ (Creating(d) /\ call'[d].id = call[d].id)
    <3>1. CASE d = c
      BY <3>1, <2>1, <2>3
    <3>2. CASE d # c
      BY <3>2, <2>2, <2>4 DEF Creating
    <3> QED
      BY <3>1, <3>2
  <2>5. \A a \in AppIds : rows'[a] # NoApp => rows'[a].version >= rows[a].version
    BY <1>0, <2>1
  <2> QED
    BY <2>1, <2>4, <2>5 DEF CommitsNothing, historyVars
<1>2. ASSUME NEW c \in Callers, CreateDelete(c)
      PROVE  CommitsNothing
  <2>1. PICK creation \in Creation :
          creation.id = call[c].id /\ call' = [call EXCEPT ![c] = creation]
    BY <1>2, CreateDeleteEffect
  <2>2. \A d \in Callers : Creating(d)' => Creating(d) /\ call'[d].id = call[d].id
    BY <1>2, <2>1 DEF CreateDelete, Creating, DBTypeOK
  <2>3. commits' = commits /\ issued' = issued
        /\ \A a \in AppIds : rows'[a] # NoApp => rows'[a] = rows[a]
    BY <1>2 DEF CreateDelete, DBTypeOK
  <2> QED
    BY <1>0, <2>2, <2>3 DEF CommitsNothing
<1>3. ASSUME NEW c \in Callers, CreateInsert(c)
      PROVE  CommitsNothing
  <2>1. Creating(c)
    BY <1>3 DEF CreateInsert, Creating
  <2>2. commits[call[c].id] = {}
    BY <2>1 DEF CommitsBelow
  <2>3. \A d \in Callers : Creating(d)' => Creating(d) /\ call'[d] = call[d]
    BY <1>3, IdlePc, CreatingAfter DEF CreateInsert
  <2>4. commits' = commits /\ issued' = issued
        /\ \A a \in AppIds : a # call[c].id => rows'[a] = rows[a]
    BY <1>3 DEF CreateInsert, DBTypeOK
  <2> QED
    BY <1>0, <2>2, <2>3, <2>4 DEF CommitsNothing
<1>4. ASSUME NEW c \in Callers, CreateRefused(c) \/ Announce(c) \/ Crash(c)
      PROVE  CommitsNothing
  <2>1. call' = [call EXCEPT ![c] = Idle] /\ UNCHANGED <<rows, issued, commits>>
    BY <1>4 DEF CreateRefused, Announce, Crash, historyVars
  <2>2. \A d \in Callers : Creating(d)' => Creating(d) /\ call'[d] = call[d]
    BY <2>1, IdlePc, CreatingAfter
  <2> QED
    BY <1>0, <2>1, <2>2 DEF CommitsNothing
<1>5. ASSUME NEW id \in AppIds, NEW newRow, Rewrites(id, newRow)
      PROVE  CommitsNothing
  <2>1. \A a \in AppIds : rows'[a] # NoApp =>
          /\ rows[a] # NoApp /\ rows'[a].state = rows[a].state
          /\ rows'[a].version >= rows[a].version
    BY <1>0, <1>5 DEF Rewrites, DBTypeOK
  <2> QED
    BY <1>5, <2>1 DEF Rewrites, historyVars, CommitsNothing, Creating
<1> QED
  BY <1>1, <1>2, <1>3, <1>4, <1>5, StepCases

\* What a move adds is above what was committed for the row.
LEMMA NewTransition ==
  ASSUME DBTypeOK, CommitsBelow, NEW c \in Callers, NEW id \in AppIds,
         NEW newState \in States, NEW newRow, Moves(c, id, newRow, newState)
  PROVE  \E t \in Transition :
           /\ t = TransitionOf(rows[id], newState)
           /\ t.from = rows[id].state /\ t.to = newState
           /\ t.version = newRow.version
           /\ \A s \in commits[id] : s.version < t.version
           /\ t \notin commits[id]
           /\ commits' = [commits EXCEPT ![id] = commits[id] \union {t}]
           /\ call' = [call EXCEPT ![c] = [pc |-> "announce", id |-> id, transition |-> t]]
<1> DEFINE t == TransitionOf(rows[id], newState)
<1>1. /\ rows[id] # NoApp /\ rows[id] \in Row /\ rows[id].version \in Nat
      /\ newRow.version = rows[id].version + 1
  BY RowOf DEF Moves
<1>2. /\ t \in Transition /\ t.version = newRow.version
      /\ t.from = rows[id].state /\ t.to = newState
  BY <1>1, TransitionOfType
<1>3. /\ commits' = [commits EXCEPT ![id] = commits[id] \union {t}]
      /\ call' = [call EXCEPT ![c] = [pc |-> "announce", id |-> id, transition |-> t]]
  BY MovesEffect
<1> HIDE DEF t
<1>4. \A s \in commits[id] : s.version \in Nat /\ s.version <= rows[id].version
  BY <1>1 DEF CommitsBelow, DBTypeOK, Transition
<1>5. \A s \in commits[id] : s.version < t.version
  BY <1>1, <1>2, <1>4
<1>6. t \notin commits[id]
  BY <1>4, <1>5
<1> QED
  BY <1>2, <1>3, <1>5, <1>6 DEF t

\* No committed version is above its row's.
LEMMA CommitsBelowStep ==
  ASSUME DBTypeOK, Clocked, Fresh, CommitsBelow, DBNext
  PROVE  CommitsBelow'
<1> USE NoRowAssumption
<1>a. DBTypeOK'
  BY TypeStep
<1>b. \A a \in AppIds : \A s \in commits[a] : s.version \in Nat
  BY DEF DBTypeOK, Transition
<1>c. \A a \in AppIds : rows[a] # NoApp => rows[a].version \in Nat
  BY DEF DBTypeOK, Row
<1>d. \A a \in AppIds : rows'[a] # NoApp => rows'[a].version \in Nat
  BY <1>a DEF DBTypeOK, Row
<1>0. \A a \in AppIds :
        /\ rows[a] # NoApp => rows[a].version \in Nat
        /\ rows'[a] # NoApp => rows'[a].version \in Nat
        /\ \A s \in commits[a] : s.version \in Nat
  BY <1>b, <1>c, <1>d
<1>1. CASE CommitsNothing
  <2>1. \A a \in AppIds : rows'[a] # NoApp =>
          \A t \in commits'[a] : t.version <= rows'[a].version
    BY <1>0, <1>1 DEF CommitsNothing, CommitsBelow
  <2>2. \A a \in AppIds \ issued' : commits'[a] = {}
    BY <1>1 DEF CommitsNothing, CommitsBelow
  <2>3. \A d \in Callers : Creating(d)' => commits'[call'[d].id] = {}
    BY <1>1 DEF CommitsNothing, CommitsBelow
  <2> QED
    BY <2>1, <2>2, <2>3 DEF CommitsBelow
<1>2. ASSUME NEW c \in Callers, NEW id \in AppIds, NEW newState \in States, NEW newRow,
             Moves(c, id, newRow, newState)
      PROVE  CommitsBelow'
  <2>1. PICK t \in Transition :
          /\ t.version = newRow.version
          /\ \A s \in commits[id] : s.version < t.version
          /\ commits' = [commits EXCEPT ![id] = commits[id] \union {t}]
          /\ call' = [call EXCEPT ![c] = [pc |-> "announce", id |-> id, transition |-> t]]
    BY <1>2, NewTransition
  <2> DEFINE r == [pc |-> "announce", id |-> id, transition |-> t]
  <2>2. r.pc = "announce" /\ call' = [call EXCEPT ![c] = r]
    BY <2>1
  <2> HIDE DEF r
  <2>3. \A d \in Callers : Creating(d)' => Creating(d) /\ call'[d] = call[d]
    BY <2>2, CreatingAfter
  <2>4. rows[id] # NoApp /\ rows' = [rows EXCEPT ![id] = newRow] /\ issued' = issued
        /\ newRow.version \in Nat
    BY <1>2, MovesEffect DEF Moves, Row
  <2>5. \A d \in Callers : Creating(d)' => commits'[call'[d].id] = {}
    BY <2>1, <2>3, <2>4, CallFields DEF Fresh, CommitsBelow, DBTypeOK
  <2>6. \A a \in AppIds \ issued' : commits'[a] = {}
    BY <2>1, <2>4 DEF Fresh, CommitsBelow, DBTypeOK
  <2>7. \A a \in AppIds : rows'[a] # NoApp =>
          \A s \in commits'[a] : s.version <= rows'[a].version
    BY <1>0, <2>1, <2>4 DEF CommitsBelow, DBTypeOK
  <2> QED
    BY <2>5, <2>6, <2>7 DEF CommitsBelow
<1> QED
  BY <1>1, <1>2, CommitsStep

\* The committed transitions keep forming one chain that ends in the row.
LEMMA CommitsReplayStep ==
  ASSUME DBTypeOK, Clocked, Fresh, CommitsBelow, CommitsReplay, DBNext
  PROVE  CommitsReplay'
<1> USE NoRowAssumption
<1>0. \A a \in AppIds : \A s \in commits[a] : s.version \in Nat
  BY DEF DBTypeOK, Transition
<1>1. CASE CommitsNothing
  BY <1>1 DEF CommitsNothing, CommitsReplay, Succeeds
<1>2. ASSUME NEW c \in Callers, NEW id \in AppIds, NEW newState \in States, NEW newRow,
             Moves(c, id, newRow, newState)
      PROVE  CommitsReplay'
  <2>1. PICK t \in Transition :
          /\ t.from = rows[id].state /\ t.to = newState
          /\ \A s \in commits[id] : s.version < t.version
          /\ commits' = [commits EXCEPT ![id] = commits[id] \union {t}]
    BY <1>2, NewTransition
  <2>2. /\ rows[id] # NoApp /\ CanTransition(rows[id].state, newState)
        /\ newRow.state = newState /\ rows' = [rows EXCEPT ![id] = newRow]
    BY <1>2, MovesEffect DEF Moves
  <2>3. t.version \in Nat
    BY DEF Transition
  <2>4. commits'[id] = commits[id] \union {t} /\ rows'[id] = newRow
        /\ \A a \in AppIds : a # id => commits'[a] = commits[a] /\ rows'[a] = rows[a]
    BY <2>1, <2>2 DEF DBTypeOK
  <2>5. ASSUME NEW a \in AppIds, a # id, NEW x \in commits'[a]
        PROVE  /\ CanTransition(x.from, x.to)
               /\ \A y \in commits'[a] : /\ y.version = x.version => y = x
                                         /\ Succeeds(a, x, y)' => y.from = x.to
               /\ (rows'[a] # NoApp /\ \A s \in commits'[a] : s.version <= x.version)
                    => rows'[a].state = x.to
    BY <2>4, <2>5 DEF CommitsReplay, Succeeds
  <2>6. ASSUME NEW x \in commits'[id], NEW y \in commits'[id]
        PROVE  /\ CanTransition(x.from, x.to)
               /\ y.version = x.version => y = x
               /\ Succeeds(id, x, y)' => y.from = x.to
    <3>1. CASE x \in commits[id] /\ y \in commits[id]
      BY <3>1, <2>4 DEF CommitsReplay, Succeeds
    <3>2. CASE x \in commits[id] /\ y = t
      <4>1. CanTransition(x.from, x.to) /\ y.version # x.version
        BY <3>2, <1>0, <2>1, <2>3 DEF CommitsReplay
      <4>2. ASSUME Succeeds(id, x, y)'
            PROVE  y.from = x.to
        <5>1. \A s \in commits[id] : ~(x.version < s.version /\ s.version < t.version)
          BY <3>2, <4>2, <2>4 DEF Succeeds
        <5>2. \A s \in commits[id] : s.version <= x.version
          BY <3>2, <5>1, <1>0, <2>1
        <5> QED
          BY <3>2, <5>2, <2>1, <2>2 DEF CommitsReplay
      <4> QED
        BY <4>1, <4>2
    <3>3. CASE x = t
      <4>1. ~(x.version < y.version) /\ (y.version = x.version => y = x)
        BY <3>3, <1>0, <2>1, <2>3, <2>4
      <4> QED
        BY <3>3, <4>1, <2>1, <2>2 DEF Succeeds
    <3> QED
      BY <3>1, <3>2, <3>3, <2>4
  <2>7. ASSUME NEW x \in commits'[id], \A s \in commits'[id] : s.version <= x.version
        PROVE  rows'[id].state = x.to
    BY <2>7, <1>0, <2>1, <2>2, <2>3, <2>4
  <2> QED
    BY <2>5, <2>6, <2>7 DEF CommitsReplay
<1> QED
  BY <1>1, <1>2, CommitsStep

-----------------------------------------------------------------------------
(* Announcements.                                                          *)

\* Membership in the set of transitions on their way to the sink.
LEMMA InPending ==
  ASSUME NEW a, NEW t
  PROVE  t \in Pending(a) <=>
           \E d \in Callers :
             call[d].pc = "announce" /\ call[d].id = a /\ call[d].transition = t
BY DEF Pending

\* What the sink has heard after one more call.
LEMMA AnnouncedAppend ==
  ASSUME NEW s \in Seq(Transition), NEW t \in Transition,
         \A i, j \in 1 .. Len(s) : s[i] = s[j] => i = j,
         t \notin {s[i] : i \in 1 .. Len(s)}
  PROVE  LET s2 == Append(s, t) IN
         /\ {s2[i] : i \in 1 .. Len(s2)} = {s[i] : i \in 1 .. Len(s)} \union {t}
         /\ \A i, j \in 1 .. Len(s2) : s2[i] = s2[j] => i = j
<1> DEFINE s2 == Append(s, t)
<1>1. /\ Len(s) \in Nat /\ Len(s2) = Len(s) + 1
      /\ \A i \in 1 .. Len(s) : s2[i] = s[i]
      /\ s2[Len(s) + 1] = t
  OBVIOUS
<1> HIDE DEF s2
<1>2. \A i \in 1 .. Len(s2) : i \in 1 .. Len(s) \/ i = Len(s) + 1
  BY <1>1
<1>3. \A i \in 1 .. Len(s) : i \in 1 .. Len(s2)
  BY <1>1
<1>4. Len(s) + 1 \in 1 .. Len(s2)
  BY <1>1
<1>5. {s2[i] : i \in 1 .. Len(s2)} = {s[i] : i \in 1 .. Len(s)} \union {t}
  BY <1>1, <1>2, <1>3, <1>4
<1>6. ASSUME NEW i \in 1 .. Len(s2), NEW j \in 1 .. Len(s2), s2[i] = s2[j]
      PROVE  i = j
  BY <1>1, <1>2, <1>6
<1> QED
  BY <1>5, <1>6 DEF s2

\* A step that leaves the calls on their way to the sink as they are, and the
\* sink, the commits and the losses.
AnnouncesNothing ==
  /\ UNCHANGED <<trail, commits, lost>>
  /\ \A d \in Callers : (call'[d].pc = "announce" \/ call[d].pc = "announce")
                          => call'[d] = call[d]

\* The steps that concern the sink, and all the others.
LEMMA AnnounceCases ==
  ASSUME DBTypeOK, Clocked, DBNext
  PROVE  \/ AnnouncesNothing
         \/ \E c \in Callers : Announce(c)
         \/ \E c \in Callers : Crash(c) /\ call[c].pc = "announce"
         \/ \E c \in Callers, id \in AppIds, newState \in States : \E newRow :
              Moves(c, id, newRow, newState)
<1>1. ASSUME NEW c \in Callers, NEW u \in Users, NEW id \in AppIds, NEW state \in FirstStates,
             CreateSelect(c, u, id, state)
      PROVE  AnnouncesNothing
  <2>1. PICK creation \in Creation :
          /\ call' = [call EXCEPT ![c] = creation]
          /\ UNCHANGED <<rows, trail, crashes, historyVars>>
    BY <1>1, CreateSelectEffect
  <2>2. creation.pc # "announce" /\ call[c].pc # "announce"
    BY <1>1, IdlePc DEF Creation, CreateSelect
  <2> QED
    BY <2>1, <2>2 DEF AnnouncesNothing, historyVars, DBTypeOK
<1>2. ASSUME NEW c \in Callers, CreateDelete(c)
      PROVE  AnnouncesNothing
  <2>1. PICK creation \in Creation :
          creation.pc = "insert" /\ call' = [call EXCEPT ![c] = creation]
    BY <1>2, CreateDeleteEffect
  <2> QED
    BY <1>2, <2>1 DEF AnnouncesNothing, CreateDelete, DBTypeOK
<1>3. ASSUME NEW c \in Callers, CreateInsert(c) \/ CreateRefused(c)
      PROVE  AnnouncesNothing
  BY <1>3, IdlePc DEF AnnouncesNothing, CreateInsert, CreateRefused, historyVars, DBTypeOK
<1>4. ASSUME NEW c \in Callers, Crash(c), call[c].pc # "announce"
      PROVE  AnnouncesNothing
  BY <1>4, IdlePc DEF AnnouncesNothing, Crash, DBTypeOK
<1>5. ASSUME NEW id \in AppIds, NEW newRow, Rewrites(id, newRow)
      PROVE  AnnouncesNothing
  BY <1>5 DEF AnnouncesNothing, Rewrites, historyVars
<1> QED
  BY <1>1, <1>2, <1>3, <1>4, <1>5, StepCases

\* Such a step keeps both parts.
LEMMA AnnouncesNothingStep ==
  ASSUME AnnouncesNothing, PendingDistinct, AnnouncementsAccounted
  PROVE  PendingDistinct' /\ AnnouncementsAccounted'
<1>1. \A a \in AppIds : Pending(a)' = Pending(a)
  BY DEF AnnouncesNothing, Pending
<1>2. \A a \in AppIds : Announced(a)' = Announced(a)
  BY DEF AnnouncesNothing, Announced
<1> QED
  BY <1>1, <1>2 DEF AnnouncesNothing, PendingDistinct, AnnouncementsAccounted

\* A move puts a transition on its way that is not among the committed ones.
LEMMA MovesAnnouncements ==
  ASSUME DBTypeOK, CommitsBelow, PendingDistinct, AnnouncementsAccounted,
         NEW c \in Callers, NEW id \in AppIds, NEW newState \in States, NEW newRow,
         Moves(c, id, newRow, newState)
  PROVE  PendingDistinct' /\ AnnouncementsAccounted'
<1>1. PICK t \in Transition :
        /\ t \notin commits[id]
        /\ commits' = [commits EXCEPT ![id] = commits[id] \union {t}]
        /\ call' = [call EXCEPT ![c] = [pc |-> "announce", id |-> id, transition |-> t]]
  BY NewTransition
<1> DEFINE r == [pc |-> "announce", id |-> id, transition |-> t]
<1>2. r.pc = "announce" /\ r.id = id /\ r.transition = t
  OBVIOUS
<1>3. call'[c] = r /\ \A d \in Callers \ {c} : call'[d] = call[d]
  BY <1>1 DEF DBTypeOK
<1> HIDE DEF r
<1>4. call[c].pc # "announce" /\ trail' = trail /\ lost' = lost
  BY MovesEffect, IdlePc DEF Moves
<1>5. /\ commits'[id] = commits[id] \union {t}
      /\ \A a \in AppIds : a # id => commits'[a] = commits[a]
  BY <1>1 DEF DBTypeOK
<1>6. t \notin Announced(id) /\ t \notin Pending(id) /\ t \notin lost[id]
  BY <1>1 DEF AnnouncementsAccounted
<1>7. \A d \in Callers : call[d].pc = "announce" /\ call[d].id = id => call[d].transition # t
  BY <1>6, InPending
<1>8. PendingDistinct'
  BY <1>2, <1>3, <1>4, <1>6, <1>7 DEF PendingDistinct
<1>9. Pending(id)' = Pending(id) \union {t}
  BY <1>2, <1>3, <1>4 DEF Pending
<1>10. \A a \in AppIds : a # id => Pending(a)' = Pending(a)
  BY <1>2, <1>3, <1>4 DEF Pending
<1>11. \A a \in AppIds : Announced(a)' = Announced(a)
  BY <1>4 DEF Announced
<1>12. ASSUME NEW a \in AppIds
       PROVE  /\ commits'[a] = Announced(a)' \union Pending(a)' \union lost'[a]
              /\ Announced(a)' \intersect (Pending(a)' \union lost'[a]) = {}
              /\ \A i, j \in 1 .. Len(trail'[a]) : trail'[a][i] = trail'[a][j] => i = j
  <2>1. CASE a = id
    BY <2>1, <1>4, <1>5, <1>6, <1>9, <1>11 DEF AnnouncementsAccounted
  <2>2. CASE a # id
    BY <2>2, <1>4, <1>5, <1>10, <1>11 DEF AnnouncementsAccounted
  <2> QED
    BY <2>1, <2>2
<1> QED
  BY <1>8, <1>12 DEF AnnouncementsAccounted

\* A call to the sink takes one transition off its way and adds it to the trail.
LEMMA AnnounceStep ==
  ASSUME DBTypeOK, PendingDistinct, AnnouncementsAccounted,
         NEW c \in Callers, Announce(c)
  PROVE  PendingDistinct' /\ AnnouncementsAccounted'
<1>1. PICK id \in AppIds, t \in Transition :
        id = call[c].id /\ t = call[c].transition /\ call[c].pc = "announce"
  BY CallFields DEF Announce
<1>2. /\ trail' = [trail EXCEPT ![id] = Append(trail[id], t)]
      /\ call' = [call EXCEPT ![c] = Idle]
      /\ commits' = commits /\ lost' = lost
  BY <1>1 DEF Announce, historyVars
<1>3. call'[c].pc # "announce" /\ \A d \in Callers \ {c} : call'[d] = call[d]
  BY <1>2, IdlePc DEF DBTypeOK
<1>4. trail'[id] = Append(trail[id], t) /\ \A a \in AppIds : a # id => trail'[a] = trail[a]
  BY <1>2 DEF DBTypeOK
<1>5. PendingDistinct'
  BY <1>2, <1>3 DEF PendingDistinct
<1>6. t \in Pending(id) /\ t \notin lost[id]
  BY <1>1, InPending DEF PendingDistinct
<1>7. Pending(id)' = Pending(id) \ {t}
  BY <1>1, <1>3 DEF Pending, PendingDistinct
<1>8. \A a \in AppIds : a # id => Pending(a)' = Pending(a)
  BY <1>1, <1>3 DEF Pending
<1>9. t \notin Announced(id)
  BY <1>6 DEF AnnouncementsAccounted
<1>10. /\ Announced(id)' = Announced(id) \union {t}
       /\ \A i, j \in 1 .. Len(trail'[id]) : trail'[id][i] = trail'[id][j] => i = j
  <2>1. trail[id] \in Seq(Transition)
    BY DEF DBTypeOK
  <2>2. \A i, j \in 1 .. Len(trail[id]) : trail[id][i] = trail[id][j] => i = j
    BY DEF AnnouncementsAccounted
  <2> QED
    BY <1>4, <1>9, <2>1, <2>2, AnnouncedAppend DEF Announced
<1>11. \A a \in AppIds : a # id => Announced(a)' = Announced(a)
  BY <1>4 DEF Announced
<1>12. ASSUME NEW a \in AppIds
       PROVE  /\ commits'[a] = Announced(a)' \union Pending(a)' \union lost'[a]
              /\ Announced(a)' \intersect (Pending(a)' \union lost'[a]) = {}
              /\ \A i, j \in 1 .. Len(trail'[a]) : trail'[a][i] = trail'[a][j] => i = j
  <2>1. CASE a = id
    BY <2>1, <1>2, <1>6, <1>7, <1>10 DEF AnnouncementsAccounted
  <2>2. CASE a # id
    BY <2>2, <1>2, <1>4, <1>8, <1>11 DEF AnnouncementsAccounted
  <2> QED
    BY <2>1, <2>2
<1> QED
  BY <1>5, <1>12 DEF AnnouncementsAccounted

\* A crash before that call moves the transition to the lost ones.
LEMMA CrashAnnouncements ==
  ASSUME DBTypeOK, PendingDistinct, AnnouncementsAccounted,
         NEW c \in Callers, Crash(c), call[c].pc = "announce"
  PROVE  PendingDistinct' /\ AnnouncementsAccounted'
<1>1. PICK id \in AppIds, t \in Transition :
        id = call[c].id /\ t = call[c].transition /\ call[c].pc = "announce"
  BY CallFields
<1>2. /\ lost' = [lost EXCEPT ![id] = lost[id] \union {t}]
      /\ call' = [call EXCEPT ![c] = Idle]
      /\ commits' = commits /\ trail' = trail
  BY <1>1 DEF Crash
<1>3. call'[c].pc # "announce" /\ \A d \in Callers \ {c} : call'[d] = call[d]
  BY <1>2, IdlePc DEF DBTypeOK
<1>4. lost'[id] = lost[id] \union {t} /\ \A a \in AppIds : a # id => lost'[a] = lost[a]
  BY <1>2 DEF DBTypeOK
<1>5. \A d \in Callers : call[d].pc = "announce" => call[d].id \in AppIds
  BY CallFields
<1>6. PendingDistinct'
  BY <1>1, <1>3, <1>4, <1>5 DEF PendingDistinct
<1>7. t \in Pending(id)
  BY <1>1, InPending
<1>8. Pending(id)' = Pending(id) \ {t}
  BY <1>1, <1>3 DEF Pending, PendingDistinct
<1>9. \A a \in AppIds : a # id => Pending(a)' = Pending(a)
  BY <1>1, <1>3 DEF Pending
<1>10. \A a \in AppIds : Announced(a)' = Announced(a)
  BY <1>2 DEF Announced
<1>11. ASSUME NEW a \in AppIds
       PROVE  /\ commits'[a] = Announced(a)' \union Pending(a)' \union lost'[a]
              /\ Announced(a)' \intersect (Pending(a)' \union lost'[a]) = {}
              /\ \A i, j \in 1 .. Len(trail'[a]) : trail'[a][i] = trail'[a][j] => i = j
  <2>1. CASE a = id
    BY <2>1, <1>2, <1>4, <1>7, <1>8, <1>10 DEF AnnouncementsAccounted
  <2>2. CASE a # id
    BY <2>2, <1>2, <1>4, <1>9, <1>10 DEF AnnouncementsAccounted
  <2> QED
    BY <2>1, <2>2
<1> QED
  BY <1>6, <1>11 DEF AnnouncementsAccounted

\* No step loses or repeats an announcement.
LEMMA AnnouncementsStep ==
  ASSUME DBTypeOK, Clocked, CommitsBelow, PendingDistinct, AnnouncementsAccounted, DBNext
  PROVE  PendingDistinct' /\ AnnouncementsAccounted'
BY AnnounceCases, AnnouncesNothingStep, MovesAnnouncements, AnnounceStep, CrashAnnouncements

-----------------------------------------------------------------------------
(* The theorems.                                                           *)

\* The empty table satisfies the invariant.
LEMMA InitInv ==
  ASSUME DBInit
  PROVE  DBInv
<1> USE NoRowAssumption DEF DBInit
<1>1. \A c \in Callers : call[c].pc = "idle"
  BY IdlePc
<1>2. \A a \in AppIds : rows[a] = NoApp /\ trail[a] = <<>> /\ commits[a] = {} /\ lost[a] = {}
  OBVIOUS
<1>3. DBTypeOK
  <2>1. call \in [Callers -> {Idle} \union Creation \union Announcement]
    BY Zenon
  <2>2. 0 \in 0 .. MaxCrashes
    BY DBConstants
  <2> QED
    BY <2>1, <2>2 DEF DBTypeOK
<1>4. Clocked /\ Fresh /\ ExistingOwned /\ CommitsBelow /\ PendingDistinct
  BY <1>1, <1>2 DEF Clocked, Fresh, ExistingOwned, CommitsBelow, PendingDistinct, Creating
<1>5. OneActivePerUser /\ DecidedRowIsScheduled /\ NoUserForgotten
  BY <1>2 DEF OneActivePerUser, DecidedRowIsScheduled, Stored, NoUserForgotten
<1>6. AnnouncementsAccounted
  <2>1. ASSUME NEW a \in AppIds
        PROVE  Announced(a) = {} /\ Pending(a) = {}
    BY <1>1, <1>2 DEF Announced, Pending
  <2> QED
    BY <1>2, <2>1 DEF AnnouncementsAccounted
<1>7. CommitsReplay
  BY <1>2 DEF CommitsReplay
<1> QED
  BY <1>3, <1>4, <1>5, <1>6, <1>7 DEF DBInv

\* A step that changes nothing keeps it.
LEMMA StutterInv ==
  ASSUME DBInv, UNCHANGED dbVars
  PROVE  DBInv'
<1> USE DEF dbVars, tableVars, historyVars
<1>1. /\ DBTypeOK' /\ Clocked' /\ Fresh' /\ ExistingOwned'
      /\ CommitsBelow' /\ PendingDistinct'
  <2>1. DBTypeOK'
    BY DEF DBInv, DBTypeOK
  <2>2. Clocked' /\ Fresh' /\ ExistingOwned'
    BY DEF DBInv, Clocked, Fresh, ExistingOwned, Creating
  <2>3. CommitsBelow' /\ PendingDistinct'
    BY DEF DBInv, CommitsBelow, PendingDistinct, Creating
  <2> QED
    BY <2>1, <2>2, <2>3
<1>2. OneActivePerUser' /\ DecidedRowIsScheduled' /\ NoUserForgotten'
  BY DEF DBInv, OneActivePerUser, DecidedRowIsScheduled, ListDueForReKYC, Stored,
         NoUserForgotten, RowsOf
<1>3. AnnouncementsAccounted'
  <2>1. AnnouncesNothing
    BY DEF AnnouncesNothing
  <2> QED
    BY <2>1, AnnouncesNothingStep DEF DBInv
<1>4. CommitsReplay'
  <2>1. CommitsReplay /\ rows' = rows /\ commits' = commits
    BY DEF DBInv
  <2> QED
    BY <2>1 DEF CommitsReplay, Succeeds
<1> QED
  BY <1>1, <1>2, <1>3, <1>4 DEF DBInv

\* Every step of the store keeps it.
LEMMA StepInv ==
  ASSUME DBInv, DBNext
  PROVE  DBInv'
<1> USE DEF DBInv
<1>1. DBTypeOK' /\ Clocked'
  BY TypeStep, ClockedStep
<1>2. OneActivePerUser' /\ DecidedRowIsScheduled'
  BY <1>1, OneActiveStep, ScheduledStep
<1>3. Fresh' /\ ExistingOwned' /\ NoUserForgotten'
  BY FreshStep, ExistingOwnedStep, NotForgottenStep
<1>4. CommitsBelow' /\ CommitsReplay'
  BY CommitsBelowStep, CommitsReplayStep
<1>5. PendingDistinct' /\ AnnouncementsAccounted'
  BY AnnouncementsStep
<1> QED
  BY <1>1, <1>2, <1>3, <1>4, <1>5

\* The invariant the theorems are read off: whatever statements of whatever
\* calls interleave, and wherever calls are lost.
THEOREM DBInvariant == DBSpec => []DBInv
<1>1. DBInit => DBInv
  BY InitInv
<1>2. DBInv /\ [DBNext]_dbVars => DBInv'
  BY StepInv, StutterInv
<1> QED
  BY <1>1, <1>2, PTL DEF DBSpec

\* The table, the calls and the trail keep their types.
THEOREM DBTypeCorrect == DBSpec => []DBTypeOK
<1>1. DBInv => DBTypeOK
  BY DEF DBInv
<1> QED
  BY <1>1, DBInvariant, PTL

\* Create's three statements and the index keep a user's second application
\* in progress out.
THEOREM OneActive == DBSpec => []OneActivePerUser
<1>1. DBInv => OneActivePerUser
  BY DEF DBInv
<1> QED
  BY <1>1, DBInvariant, PTL

\* UpdateState's COALESCE and Reopen's NULL strand no decided row: the query
\* of the re-KYC scheduler finds it once it is due.
THEOREM DecidedScheduled == DBSpec => []DecidedRowIsScheduled
<1>1. DBInv => DecidedRowIsScheduled
  BY DEF DBInv
<1> QED
  BY <1>1, DBInvariant, PTL

\* Between Create's DELETE and its INSERT, and after a refused INSERT, nobody
\* has lost an application for good, unless to a crash.
THEOREM NobodyForgotten == DBSpec => []NoUserForgotten
<1>1. DBInv => NoUserForgotten
  BY DEF DBInv
<1> QED
  BY <1>1, DBInvariant, PTL

\* The sink, called after the commit and outside any lock, hears of every
\* committed transition once, or of those a crash lost, never.
THEOREM AnnouncedOnce == DBSpec => []AnnouncementsAccounted
<1>1. DBInv => AnnouncementsAccounted
  BY DEF DBInv
<1> QED
  BY <1>1, DBInvariant, PTL

\* Ordered by version, what was committed replays to the row.
THEOREM CommitsReplayToRow == DBSpec => []CommitsReplay
<1>1. DBInv => CommitsReplay
  BY DEF DBInv
<1> QED
  BY <1>1, DBInvariant, PTL

\* Rewriting a field of a row with the value it has changes nothing.
LEMMA SameDue ==
  ASSUME NEW row \in Row
  PROVE  row = [row EXCEPT !.reKYCDue = row.reKYCDue]
BY DEF Row

\* A step gives a row that stays a new version, or the content it had.
LEMMA ContentStep ==
  ASSUME DBInv, DBNext, NEW a \in AppIds, rows[a] # NoApp, rows'[a] # NoApp
  PROVE  \/ rows'[a].version = rows[a].version + 1
         \/ rows'[a] = [rows[a] EXCEPT !.reKYCDue = rows'[a].reKYCDue]
<1> USE NoRowAssumption
<1>0. DBTypeOK /\ Clocked /\ Fresh /\ rows[a] \in Row /\ rows \in [AppIds -> Row \union {NoApp}]
  BY RowOf DEF DBInv, DBTypeOK
<1>1. CASE rows'[a] = rows[a]
  BY <1>0, <1>1, SameDue
<1>2. ASSUME NEW c \in Callers, CreateDelete(c)
      PROVE  rows'[a] = rows[a]
  BY <1>0, <1>2 DEF CreateDelete
<1>3. ASSUME NEW c \in Callers, CreateInsert(c)
      PROVE  rows'[a] = rows[a]
  <2>1. rows[call[c].id] = NoApp
    BY <1>0, <1>3 DEF CreateInsert, Creating, Fresh
  <2> QED
    BY <1>0, <1>3, <2>1 DEF CreateInsert
<1>4. ASSUME NEW c \in Callers, NEW id \in AppIds, NEW newState \in States, NEW newRow,
             Moves(c, id, newRow, newState)
      PROVE  rows'[a] = rows[a] \/ rows'[a].version = rows[a].version + 1
  <2>1. rows' = [rows EXCEPT ![id] = newRow] /\ newRow.version = rows[id].version + 1
    BY <1>0, <1>4, MovesEffect DEF Moves
  <2> QED
    BY <1>0, <2>1
<1>5. ASSUME NEW id \in AppIds, SetVendorApplicantID(id)
      PROVE  rows'[a] = rows[a] \/ rows'[a].version = rows[a].version + 1
  <2>1. rows' = [rows EXCEPT ![id] = Registered(rows[id])] /\ rows[id] # NoApp
    BY <1>5 DEF SetVendorApplicantID
  <2>2. Registered(rows[id]).version = rows[id].version + 1
    BY <1>0, <2>1, RowOf DEF Registered, Row
  <2> QED
    BY <1>0, <2>1, <2>2
<1>6. ASSUME NEW id \in AppIds, Elapse(id)
      PROVE  \/ rows'[a] = rows[a]
             \/ rows'[a] = [rows[a] EXCEPT !.reKYCDue = rows'[a].reKYCDue]
  <2> DEFINE newRow == [rows[id] EXCEPT !.reKYCDue = "past"]
  <2>1. rows' = [rows EXCEPT ![id] = newRow] /\ rows[id] \in Row
    BY <1>0, <1>6, RowOf DEF Elapse
  <2>2. newRow.reKYCDue = "past"
    BY <2>1 DEF Row
  <2>3. CASE a = id
    <3>1. rows'[a] = newRow
      BY <1>0, <2>1, <2>3
    <3> QED
      BY <2>2, <2>3, <3>1
  <2>4. CASE a # id
    BY <1>0, <2>1, <2>4
  <2> QED
    BY <2>3, <2>4
<1>7. \/ rows' = rows
      \/ \E c \in Callers : CreateDelete(c) \/ CreateInsert(c)
      \/ \E c \in Callers, id \in AppIds, newState \in States : \E newRow :
           Moves(c, id, newRow, newState)
      \/ \E id \in AppIds : SetVendorApplicantID(id) \/ Elapse(id)
  <2>1. "STARTED" \in States
    BY DEF States
  <2> QED
    BY <1>0, <2>1, UpdateStateMoves, ReopenMoves
       DEF DBNext, CreateStep, CreateSelect, CreateRefused, Announce, Crash
<1> QED
  BY <1>1, <1>2, <1>3, <1>4, <1>5, <1>6, <1>7

\* The optimistic version check of UpdateState and Reopen is sound: a version
\* names one content of the row, SetVendorApplicantID's unchecked write included.
THEOREM VersionsNameContents == DBSpec => RowVersionNamesContent
<1> DEFINE Content ==
      \A a \in AppIds :
        (rows[a] # NoApp /\ rows'[a] # NoApp) =>
          \/ rows'[a].version = rows[a].version + 1
          \/ rows'[a] = [rows[a] EXCEPT !.reKYCDue = rows'[a].reKYCDue]
<1>1. DBInv /\ [DBNext]_dbVars => [Content]_dbVars
  BY ContentStep
<1> QED
  BY <1>1, DBInvariant, PTL DEF DBSpec, RowVersionNamesContent

-----------------------------------------------------------------------------
(* The lifecycle of a user whose creations nothing races.  A user without  *)
(* a raced creation has at most one row, and a Create in progress for the  *)
(* user still has what its SELECT saw: the decided row it is about to      *)
(* delete, or none.                                                        *)

Unraced(u) ==
  /\ \A a, b \in RowsOf(u) : a = b
  /\ \A c \in Callers : Creating(c) /\ call[c].user = u =>
       /\ call[c].pc = "insert" => RowsOf(u) = {}
       /\ call[c].pc = "delete" =>
            RowsOf(u) = {call[c].existing} /\ IsTerminal(rows[call[c].existing].state)

UnracedRows == \A u \in Users \ raced : Unraced(u)

\* A write leaves a user unraced only if no other caller has a Create for that
\* user in progress.
LEMMA UnracedWrite ==
  ASSUME NEW c \in Callers, NEW u, NoteWrite(c, u)
  PROVE  /\ raced \subseteq raced'
         /\ u \notin raced' => \A d \in Callers : Creating(d) /\ call[d].user = u => d = c
BY DEF NoteWrite

\* What a step does to the rows of a user: it leaves the status of each alone,
\* deletes the only one, which is decided, inserts the only one, or moves it.
Keeps(u) ==
  /\ RowsOf(u)' = RowsOf(u)
  /\ \A a \in RowsOf(u) : rows'[a].state = rows[a].state

Empties(u) ==
  \E a \in AppIds : RowsOf(u) = {a} /\ IsTerminal(rows[a].state) /\ RowsOf(u)' = {}

Fills(u) ==
  \E a \in AppIds : RowsOf(u) = {} /\ RowsOf(u)' = {a} /\ rows'[a].state \in FirstStates

MovesOnly(u) ==
  \E a \in AppIds : /\ RowsOf(u) = {a} /\ RowsOf(u)' = {a}
                    /\ CanTransition(rows[a].state, rows'[a].state)

\* The rows of a user after one row has been written.
LEMMA RowsOfAfter ==
  ASSUME DBTypeOK, NEW id \in AppIds, NEW row, rows' = [rows EXCEPT ![id] = row], NEW u
  PROVE  /\ row = NoApp => RowsOf(u)' = RowsOf(u) \ {id}
         /\ row # NoApp /\ row.user = u => RowsOf(u)' = RowsOf(u) \union {id}
         /\ row # NoApp /\ row.user # u => RowsOf(u)' = RowsOf(u) \ {id}
         /\ \A a \in RowsOf(u) : a # id => rows'[a] = rows[a]
         /\ rows'[id] = row
BY DEF DBTypeOK, RowsOf, Stored

\* Writing a row of another user, or over no row, keeps the rows of this one.
LEMMA OthersKept ==
  ASSUME DBTypeOK, NEW id \in AppIds, NEW row, rows' = [rows EXCEPT ![id] = row], NEW u,
         rows[id] # NoApp => rows[id].user # u, row # NoApp => row.user # u
  PROVE  Keeps(u)
<1>1. id \notin RowsOf(u)
  BY DEF RowsOf, Stored
<1>2. \A a \in RowsOf(u) : rows'[a] = rows[a]
  BY <1>1 DEF DBTypeOK, RowsOf, Stored
<1>3. RowsOf(u)' = RowsOf(u)
  BY <1>1 DEF DBTypeOK, RowsOf, Stored
<1> QED
  BY <1>2, <1>3 DEF Keeps

\* CreateSelect reads the one row of the user, or that there is none.
LEMMA SelectUnraced ==
  ASSUME DBInv, UnracedRows, NEW c \in Callers, NEW u \in Users, NEW id \in AppIds,
         NEW state \in FirstStates, CreateSelect(c, u, id, state)
  PROVE  UnracedRows' /\ \A v \in Users : Keeps(v)
<1> DEFINE found == GetByUserID(u)
           creation == [pc |-> IF found = NoApp THEN "insert" ELSE "delete",
                        user |-> u, id |-> id, existing |-> found,
                        createdAt |-> clock + 1, state |-> state]
<1>1. /\ call' = [call EXCEPT ![c] = creation]
      /\ rows' = rows /\ raced' = raced
  BY DEF CreateSelect, historyVars
<1>2. \/ RowsOf(u) = {} /\ found = NoApp
      \/ found \in RowsOf(u)
  BY GetByUserIDCases DEF DBInv
<1>3. found # NoApp => IsTerminal(rows[found].state)
  BY DEF CreateSelect, MayReplace
<1>4. \A a \in AppIds : a # NoApp
  BY NoRowAssumption
<1>5. /\ creation.user = u /\ creation.existing = found
      /\ creation.pc = "insert" => found = NoApp
      /\ creation.pc = "delete" => found # NoApp
  OBVIOUS
<1> HIDE DEF found, creation
<1>6. call'[c] = creation /\ \A d \in Callers \ {c} : call'[d] = call[d]
  BY <1>1 DEF DBInv, DBTypeOK
<1>7. \A v \in Users : RowsOf(v)' = RowsOf(v)
  BY <1>1 DEF RowsOf, Stored
<1>8. \A v \in Users : Keeps(v)
  BY <1>1, <1>7 DEF Keeps
<1>9. ASSUME NEW v \in Users \ raced, NEW d \in Callers,
             Creating(d)', call'[d].user = v
      PROVE  /\ call'[d].pc = "insert" => RowsOf(v) = {}
             /\ call'[d].pc = "delete" =>
                  RowsOf(v) = {call'[d].existing} /\ IsTerminal(rows[call'[d].existing].state)
  <2>1. CASE d = c
    <3>1. v = u /\ call'[d] = creation
      BY <1>5, <1>6, <1>9, <2>1
    <3>2. \A a, b \in RowsOf(u) : a = b
      BY <3>1 DEF UnracedRows, Unraced
    <3>3. found = NoApp => RowsOf(u) = {}
      BY <1>2, <1>4 DEF RowsOf, Stored
    <3>4. found # NoApp => RowsOf(u) = {found}
      BY <1>2, <3>2
    <3> QED
      BY <1>3, <1>5, <3>1, <3>3, <3>4
  <2>2. CASE d # c
    <3>1. call'[d] = call[d] /\ Creating(d)
      BY <1>6, <1>9, <2>2 DEF Creating
    <3> QED
      BY <1>9, <3>1 DEF UnracedRows, Unraced
  <2> QED
    BY <2>1, <2>2
<1>10. UnracedRows'
  <2>1. \A v \in Users \ raced : \A a, b \in RowsOf(v)' : a = b
    BY <1>7 DEF UnracedRows, Unraced
  <2> QED
    BY <1>1, <1>7, <1>9, <2>1 DEF UnracedRows, Unraced
<1> QED
  BY <1>8, <1>10

\* A step that keeps a user's rows, and starts no Create and moves none on,
\* keeps the claim for that user.
LEMMA KeptUnraced ==
  ASSUME NEW u, Unraced(u), Keeps(u),
         \A d \in Callers : Creating(d)' /\ call'[d].user = u =>
           Creating(d) /\ call'[d] = call[d]
  PROVE  Unraced(u)'
<1>1. \A a, b \in RowsOf(u)' : a = b
  BY DEF Unraced, Keeps
<1>2. ASSUME NEW d \in Callers, Creating(d)', call'[d].user = u
      PROVE  /\ call'[d].pc = "insert" => RowsOf(u)' = {}
             /\ call'[d].pc = "delete" => /\ RowsOf(u)' = {call'[d].existing}
                                          /\ IsTerminal(rows'[call'[d].existing].state)
  <2>1. Creating(d) /\ call'[d] = call[d] /\ call[d].user = u
    BY <1>2
  <2>2. call[d].pc = "delete" => call[d].existing \in RowsOf(u)
    BY <2>1 DEF Unraced
  <2> QED
    BY <2>1, <2>2 DEF Unraced, Keeps
<1> QED
  BY <1>1, <1>2 DEF Unraced

\* What is to be shown of a step for every user it leaves unraced.
Follows(u) == Unraced(u)' /\ (Keeps(u) \/ Empties(u) \/ Fills(u) \/ MovesOnly(u))

\* CreateDelete removes the one row of its user, which is decided.
LEMMA DeleteUnraced ==
  ASSUME DBInv, UnracedRows, NEW c \in Callers, CreateDelete(c), NEW v \in Users \ raced'
  PROVE  Follows(v)
<1> USE NoRowAssumption
<1>1. PICK creation \in Creation :
        /\ creation.pc = "insert" /\ creation.user = call[c].user
        /\ call' = [call EXCEPT ![c] = creation]
  BY CreateDeleteEffect DEF DBInv
<1>2. PICK id \in AppIds : id = call[c].existing
  BY DEF CreateDelete, DBInv, ExistingOwned
<1>3. /\ call[c].pc = "delete" /\ Creating(c) /\ NoteWrite(c, call[c].user)
      /\ rows' = [rows EXCEPT ![id] = NoApp]
  BY <1>2 DEF CreateDelete, Creating
<1>4. v \notin raced /\ Unraced(v)
  BY <1>3, UnracedWrite DEF UnracedRows
<1>5. call'[c] = creation /\ \A d \in Callers \ {c} : call'[d] = call[d]
  BY <1>1 DEF DBInv, DBTypeOK
<1>6. CASE v = call[c].user
  <2>1. RowsOf(v) = {id} /\ IsTerminal(rows[id].state)
    BY <1>2, <1>3, <1>4, <1>6 DEF Unraced
  <2>2. RowsOf(v)' = RowsOf(v) \ {id}
    BY <1>3, RowsOfAfter DEF DBInv
  <2>3. RowsOf(v)' = {}
    BY <2>1, <2>2
  <2>4. \A d \in Callers : Creating(d)' /\ call'[d].user = v => d = c
    BY <1>3, <1>5, <1>6, UnracedWrite DEF Creating
  <2>5. Unraced(v)'
    BY <1>1, <1>5, <2>3, <2>4 DEF Unraced
  <2>6. Empties(v)
    BY <2>1, <2>3 DEF Empties
  <2> QED
    BY <2>5, <2>6 DEF Follows
<1>7. CASE v # call[c].user
  <2>1. rows[id] # NoApp => rows[id].user # v
    BY <1>2, <1>3, <1>7 DEF DBInv, ExistingOwned
  <2>2. Keeps(v)
    BY <1>3, <2>1, OthersKept DEF DBInv
  <2>3. \A d \in Callers : Creating(d)' /\ call'[d].user = v =>
          Creating(d) /\ call'[d] = call[d]
    BY <1>1, <1>5, <1>7 DEF Creating
  <2>4. Unraced(v)'
    BY <1>4, <2>2, <2>3, KeptUnraced
  <2> QED
    BY <2>2, <2>4 DEF Follows
<1> QED
  BY <1>6, <1>7

\* CreateInsert inserts the first row of its user.
LEMMA InsertUnraced ==
  ASSUME DBInv, UnracedRows, NEW c \in Callers, CreateInsert(c), NEW v \in Users \ raced'
  PROVE  Follows(v)
<1> USE NoRowAssumption
<1>1. /\ call[c].pc = "insert" /\ Creating(c) /\ NoteWrite(c, call[c].user)
      /\ call' = [call EXCEPT ![c] = Idle]
      /\ rows' = [rows EXCEPT ![call[c].id] = NewRow(call[c])]
  BY DEF CreateInsert, Creating
<1>2. PICK id \in AppIds, row \in Row :
        /\ rows' = [rows EXCEPT ![id] = row] /\ rows[id] = NoApp
        /\ row.user = call[c].user /\ row.state \in FirstStates
  <2>1. call[c].id \in AppIds /\ call[c].state \in FirstStates
    BY <1>1, CallFields DEF DBInv
  <2>2. rows[call[c].id] = NoApp
    BY <1>1 DEF DBInv, Fresh
  <2> QED
    BY <1>1, <2>1, <2>2, NewRowType DEF DBInv
<1>3. v \notin raced /\ Unraced(v)
  BY <1>1, UnracedWrite DEF UnracedRows
<1>4. \A d \in Callers : Creating(d)' => d # c /\ Creating(d) /\ call'[d] = call[d]
  BY <1>1, IdlePc DEF DBInv, DBTypeOK, Creating
<1>5. CASE v = call[c].user
  <2>1. RowsOf(v) = {}
    BY <1>1, <1>3, <1>5 DEF Unraced
  <2>2. RowsOf(v)' = {id} /\ rows'[id] = row
    BY <1>2, <1>5, <2>1, RowsOfAfter DEF DBInv
  <2>3. \A d \in Callers : ~(Creating(d)' /\ call'[d].user = v)
    BY <1>1, <1>4, <1>5, UnracedWrite
  <2>4. Unraced(v)'
    BY <2>2, <2>3 DEF Unraced
  <2>5. Fills(v)
    BY <1>2, <2>1, <2>2 DEF Fills
  <2> QED
    BY <2>4, <2>5 DEF Follows
<1>6. CASE v # call[c].user
  <2>1. Keeps(v)
    BY <1>2, <1>6, OthersKept DEF DBInv
  <2>2. Unraced(v)'
    BY <1>3, <1>4, <2>1, KeptUnraced
  <2> QED
    BY <2>1, <2>2 DEF Follows
<1> QED
  BY <1>5, <1>6

\* A move changes the state of the one row of its user, along the table.
LEMMA MovesUnraced ==
  ASSUME DBInv, UnracedRows, NEW c \in Callers, NEW id \in AppIds, NEW newState \in States,
         NEW newRow, Moves(c, id, newRow, newState), NEW v \in Users \ raced'
  PROVE  Follows(v)
<1> USE NoRowAssumption
<1> DEFINE r == [pc |-> "announce", id |-> id,
                 transition |-> TransitionOf(rows[id], newState)]
<1>1. /\ rows' = [rows EXCEPT ![id] = newRow] /\ call' = [call EXCEPT ![c] = r]
      /\ r.pc \notin {"delete", "insert"} /\ NoteWrite(c, rows[id].user)
  BY MovesEffect DEF DBInv
<1> HIDE DEF r
<1>2. /\ rows[id] # NoApp /\ newRow \in Row /\ newRow # NoApp /\ newRow.user = rows[id].user
      /\ CanTransition(rows[id].state, newRow.state)
      /\ call[c] = Idle
  BY DEF Moves
<1>3. v \notin raced /\ Unraced(v)
  BY <1>1, UnracedWrite DEF UnracedRows
<1>4. \A d \in Callers : Creating(d)' => d # c /\ Creating(d) /\ call'[d] = call[d]
  BY <1>1, CreatingAfter DEF DBInv
<1>5. CASE v = rows[id].user
  <2>1. RowsOf(v) = {id}
    BY <1>2, <1>3, <1>5 DEF Unraced, RowsOf, Stored
  <2>2. RowsOf(v)' = RowsOf(v) \union {id} /\ rows'[id] = newRow
    <3>1. /\ DBTypeOK /\ rows' = [rows EXCEPT ![id] = newRow]
          /\ newRow # NoApp /\ newRow.user = v
      BY <1>1, <1>2, <1>5 DEF DBInv
    <3> QED
      BY <3>1, RowsOfAfter, Zenon
  <2>3. RowsOf(v)' = {id} /\ rows'[id] = newRow
    BY <2>1, <2>2
  <2>4. \A d \in Callers : ~(Creating(d)' /\ call'[d].user = v)
    BY <1>1, <1>4, <1>5, UnracedWrite
  <2>5. Unraced(v)'
    BY <2>3, <2>4 DEF Unraced
  <2>6. MovesOnly(v)
    BY <1>2, <2>1, <2>3 DEF MovesOnly
  <2> QED
    BY <2>5, <2>6 DEF Follows
<1>6. CASE v # rows[id].user
  <2>1. Keeps(v)
    BY <1>1, <1>2, <1>6, OthersKept DEF DBInv
  <2>2. Unraced(v)'
    BY <1>3, <1>4, <2>1, KeptUnraced
  <2> QED
    BY <2>1, <2>2 DEF Follows
<1> QED
  BY <1>5, <1>6

\* A rewriting keeps every user's rows in their states.
LEMMA RewritesUnraced ==
  ASSUME DBInv, UnracedRows, NEW id \in AppIds, NEW newRow, Rewrites(id, newRow),
         NEW v \in Users \ raced'
  PROVE  Follows(v)
<1> USE NoRowAssumption
<1>1. /\ rows[id] # NoApp /\ newRow # NoApp
      /\ newRow.user = rows[id].user /\ newRow.state = rows[id].state
      /\ rows' = [rows EXCEPT ![id] = newRow] /\ call' = call /\ raced' = raced
  BY DEF Rewrites, historyVars
<1>2. Unraced(v)
  BY <1>1 DEF UnracedRows
<1>3. RowsOf(v)' = RowsOf(v)
  BY <1>1 DEF DBInv, DBTypeOK, RowsOf, Stored
<1>4. \A a \in RowsOf(v) : rows'[a].state = rows[a].state
  BY <1>1 DEF DBInv, DBTypeOK, RowsOf, Stored
<1>5. Keeps(v)
  BY <1>3, <1>4 DEF Keeps
<1>6. \A d \in Callers : Creating(d)' => Creating(d) /\ call'[d] = call[d]
  BY <1>1 DEF Creating
<1>7. Unraced(v)'
  BY <1>2, <1>5, <1>6, KeptUnraced
<1> QED
  BY <1>5, <1>7 DEF Follows

\* A call that ends without touching the table keeps them too.
LEMMA EndsUnraced ==
  ASSUME DBInv, UnracedRows, NEW c \in Callers, CreateRefused(c) \/ Announce(c) \/ Crash(c),
         NEW v \in Users \ raced'
  PROVE  Follows(v)
<1>1. rows' = rows /\ call' = [call EXCEPT ![c] = Idle] /\ raced' = raced
  BY DEF CreateRefused, Announce, Crash, historyVars
<1>2. Unraced(v)
  BY <1>1 DEF UnracedRows
<1>3. RowsOf(v)' = RowsOf(v)
  BY <1>1 DEF RowsOf, Stored
<1>4. Keeps(v)
  BY <1>1, <1>3 DEF Keeps
<1>5. \A d \in Callers : Creating(d)' => Creating(d) /\ call'[d] = call[d]
  BY <1>1, IdlePc DEF DBInv, DBTypeOK, Creating
<1>6. Unraced(v)'
  BY <1>2, <1>4, <1>5, KeptUnraced
<1> QED
  BY <1>4, <1>6 DEF Follows

\* So every step follows, for every user it leaves unraced.
LEMMA StepFollows ==
  ASSUME DBInv, UnracedRows, DBNext, NEW v \in Users \ raced'
  PROVE  Follows(v)
<1>1. ASSUME NEW c \in Callers, NEW u \in Users, NEW id \in AppIds, NEW state \in FirstStates,
             CreateSelect(c, u, id, state)
      PROVE  Follows(v)
  BY <1>1, SelectUnraced DEF Follows, UnracedRows
<1> QED
  BY <1>1, DeleteUnraced, InsertUnraced, MovesUnraced, RewritesUnraced, EndsUnraced, StepCases
     DEF DBInv

-----------------------------------------------------------------------------
(* What such a step does to the status of the user.                        *)

\* The status of a user with one row is its state's, and without one, none.
LEMMA StatusNow ==
  ASSUME DBTypeOK, NEW u
  PROVE  /\ RowsOf(u) = {} => StatusOf(u) = "none"
         /\ \A a \in AppIds : RowsOf(u) = {a} => StatusOf(u) = Coarse(rows[a].state)
<1>1. RowsOf(u) = {} => StatusOf(u) = "none"
  BY DEF StatusOf, GetByUserID
<1>2. ASSUME NEW a \in AppIds, RowsOf(u) = {a}
      PROVE  StatusOf(u) = Coarse(rows[a].state)
  <2>1. rows[a].createdAt \in Nat
    BY <1>2, RowOf DEF RowsOf, Stored, Row
  <2>2. GetByUserID(u) = a
    BY <1>2, <2>1 DEF GetByUserID
  <2> QED
    BY <2>2, NoRowAssumption DEF StatusOf
<1> QED
  BY <1>1, <1>2

\* So is the status the user has after a step.
LEMMA StatusThen ==
  ASSUME DBTypeOK', NEW u
  PROVE  /\ RowsOf(u)' = {} => StatusOf(u)' = "none"
         /\ \A a \in AppIds : RowsOf(u)' = {a} => StatusOf(u)' = Coarse(rows'[a].state)
<1>1. RowsOf(u)' = {} => StatusOf(u)' = "none"
  BY DEF StatusOf, GetByUserID
<1>2. ASSUME NEW a \in AppIds, RowsOf(u)' = {a}
      PROVE  StatusOf(u)' = Coarse(rows'[a].state)
  <2>1. rows'[a].createdAt \in Nat
    BY <1>2 DEF RowsOf, Stored, Row, DBTypeOK
  <2>2. GetByUserID(u)' = a
    BY <1>2, <2>1 DEF GetByUserID
  <2> QED
    BY <2>2, NoRowAssumption DEF StatusOf
<1> QED
  BY <1>1, <1>2

\* The transition table at the granularity of the status.
LEMMA CoarseTransitions ==
  ASSUME NEW s, NEW t, CanTransition(s, t)
  PROVE  \/ Coarse(s) = Coarse(t)
         \/ Coarse(s) = "pending" /\ Coarse(t) \in {"review", "pass", "fail"}
         \/ Coarse(s) = "review" /\ Coarse(t) \in {"pass", "fail"}
         \/ Coarse(s) \in {"pass", "fail"} /\ Coarse(t) = "pending"
BY DEF CanTransition, legalTransitions, Coarse

\* A change of the status along it is a step of KYCLifecycle.
LEMMA LifecycleStep ==
  ASSUME NEW u \in Users,
         \/ StatusOf(u) \in {"none", "pass", "fail"} /\ StatusOf(u)' = "pending"
         \/ StatusOf(u) = "pending" /\ StatusOf(u)' = "review"
         \/ StatusOf(u) \in {"pending", "review"} /\ StatusOf(u)' \in {"pass", "fail"}
         \/ StatusOf(u) \in {"pass", "fail"} /\ StatusOf(u)' = "none"
  PROVE  LifecycleOf(u)!Next
<1>1. CASE StatusOf(u) \in {"none", "pass", "fail"} /\ StatusOf(u)' = "pending"
  <2>1. LifecycleOf(u)!Apply(u)
    BY <1>1 DEF LifecycleOf!Apply, LifecycleOf!Decided
  <2> QED
    BY <2>1 DEF LifecycleOf!Next
<1>2. CASE StatusOf(u) = "pending" /\ StatusOf(u)' = "review"
  <2>1. LifecycleOf(u)!Refer(u)
    BY <1>2 DEF LifecycleOf!Refer
  <2> QED
    BY <2>1 DEF LifecycleOf!Next
<1>3. CASE StatusOf(u) \in {"pending", "review"} /\ StatusOf(u)' \in {"pass", "fail"}
  <2>1. StatusOf(u)' \in LifecycleOf(u)!Decided
    BY <1>3 DEF LifecycleOf!Decided
  <2>2. LifecycleOf(u)!Decide(u, StatusOf(u)')
    BY <1>3 DEF LifecycleOf!Decide
  <2> QED
    BY <2>1, <2>2 DEF LifecycleOf!Next
<1>4. CASE StatusOf(u) \in {"pass", "fail"} /\ StatusOf(u)' = "none"
  <2>1. LifecycleOf(u)!Forget(u)
    BY <1>4 DEF LifecycleOf!Forget, LifecycleOf!Decided
  <2> QED
    BY <2>1 DEF LifecycleOf!Next
<1> QED
  BY <1>1, <1>2, <1>3, <1>4

\* A step that follows moves the status as KYCLifecycle allows, if Create is
\* not called with a state that needs a review.
LEMMA FollowsLifecycle ==
  ASSUME DBTypeOK, DBTypeOK', "MANUAL_REVIEW" \notin FirstStates,
         NEW u \in Users, Follows(u)
  PROVE  StatusOf(u)' = StatusOf(u) \/ LifecycleOf(u)!Next
<1>1. CASE Keeps(u)
  <2>1. RowsOf(u)' = RowsOf(u) /\ \A a, b \in RowsOf(u) : a = b
    BY <1>1 DEF Keeps, Follows, Unraced
  <2>2. CASE RowsOf(u) = {}
    BY <2>1, <2>2, StatusNow, StatusThen
  <2>3. CASE RowsOf(u) # {}
    <3>1. PICK a \in AppIds : RowsOf(u) = {a}
      BY <2>1, <2>3 DEF RowsOf, Stored
    <3>2. rows'[a].state = rows[a].state
      BY <1>1, <3>1 DEF Keeps
    <3> QED
      BY <2>1, <3>1, <3>2, StatusNow, StatusThen
  <2> QED
    BY <2>2, <2>3
<1>2. CASE Empties(u)
  <2>1. PICK a \in AppIds : RowsOf(u) = {a} /\ IsTerminal(rows[a].state) /\ RowsOf(u)' = {}
    BY <1>2 DEF Empties
  <2>2. Coarse(rows[a].state) \in {"pass", "fail"}
    BY <2>1 DEF IsTerminal, TerminalStates, Coarse
  <2>3. StatusOf(u) \in {"pass", "fail"} /\ StatusOf(u)' = "none"
    BY <2>1, <2>2, StatusNow, StatusThen
  <2> QED
    BY <2>3, LifecycleStep
<1>3. CASE Fills(u)
  <2>1. PICK a \in AppIds :
          RowsOf(u) = {} /\ RowsOf(u)' = {a} /\ rows'[a].state \in FirstStates
    BY <1>3 DEF Fills
  <2>2. rows'[a].state \notin {"PASS", "FAIL", "MANUAL_REVIEW"}
    BY <2>1, DBConstants DEF TerminalStates
  <2>3. Coarse(rows'[a].state) = "pending"
    BY <2>2 DEF Coarse
  <2>4. StatusOf(u) = "none" /\ StatusOf(u)' = "pending"
    BY <2>1, <2>3, StatusNow, StatusThen
  <2> QED
    BY <2>4, LifecycleStep
<1>4. CASE MovesOnly(u)
  <2>1. PICK a \in AppIds : /\ RowsOf(u) = {a} /\ RowsOf(u)' = {a}
                            /\ CanTransition(rows[a].state, rows'[a].state)
    BY <1>4 DEF MovesOnly
  <2>2. StatusOf(u) = Coarse(rows[a].state) /\ StatusOf(u)' = Coarse(rows'[a].state)
    BY <2>1, StatusNow, StatusThen
  <2> QED
    BY <2>1, <2>2, CoarseTransitions, LifecycleStep
<1> QED
  BY <1>1, <1>2, <1>3, <1>4 DEF Follows

\* A user whose creations no write has raced has one application at most, and
\* a Create in progress for the user still knows which.
LEMMA UnracedInvariant == DBSpec => []UnracedRows
<1>1. DBInit => UnracedRows
  BY IdlePc DEF DBInit, UnracedRows, Unraced, RowsOf, Stored, Creating
<1>2. ASSUME DBInv, UnracedRows, DBNext PROVE UnracedRows'
  BY <1>2, StepFollows DEF Follows, UnracedRows
<1>3. ASSUME UnracedRows, UNCHANGED dbVars PROVE UnracedRows'
  BY <1>3 DEF dbVars, tableVars, historyVars, UnracedRows, Unraced, RowsOf, Stored, Creating
<1>4. DBInv /\ UnracedRows /\ [DBNext]_dbVars => UnracedRows'
  BY <1>2, <1>3
<1> QED
  BY <1>1, <1>4, DBInvariant, PTL DEF DBSpec

\* Create's three statements, UpdateState and Reopen implement KYCLifecycle
\* for every user whose rows no call wrote while a Create for that user was
\* under way, if applications are not created in review (the handlers create
\* them in STARTED).
THEOREM UnracedImplementsLifecycle ==
  "MANUAL_REVIEW" \notin FirstStates => (DBSpec => ImplementsLifecycleUnlessRaced)
<1> SUFFICES ASSUME "MANUAL_REVIEW" \notin FirstStates
             PROVE  DBSpec => ImplementsLifecycleUnlessRaced
  OBVIOUS
<1> DEFINE Allowed ==
      \A u \in Users :
        \/ u \in raced'
        \/ StatusOf(u)' = StatusOf(u)
        \/ LifecycleOf(u)!Next
<1>1. ASSUME DBInv, UnracedRows, DBNext PROVE Allowed
  <2>1. DBTypeOK /\ DBTypeOK'
    BY <1>1, StepInv DEF DBInv
  <2>2. ASSUME NEW u \in Users, u \notin raced'
        PROVE  StatusOf(u)' = StatusOf(u) \/ LifecycleOf(u)!Next
    BY <1>1, <2>1, <2>2, StepFollows, FollowsLifecycle
  <2> QED
    BY <2>2
<1>2. DBInv /\ UnracedRows /\ [DBNext]_dbVars => [Allowed]_dbVars
  BY <1>1
<1> QED
  BY <1>2, DBInvariant, UnracedInvariant, PTL DEF DBSpec, ImplementsLifecycleUnlessRaced
=============================================================================
