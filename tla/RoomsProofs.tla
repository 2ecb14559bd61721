---------------------------- MODULE RoomsProofs ----------------------------
(***************************************************************************)
(* Rooms, for any users, any size of the room and any number of failures:  *)
(* the types, the seats, the single game, the roles on record, and that    *)
(* the recorded events give back the room.  And EventLog, which numbers    *)
(* those events, for any number of overlapping transactions.               *)
(***************************************************************************)
EXTENDS Rooms, EventLog, FiniteSetTheorems, TLAPS

-----------------------------------------------------------------------------
(* Types. *)

\* Adding a participant where there is a place left, and taking one away, keeps
\* a room within its maxPlayers: joinRoom's check is enough.
LEMMA PlacesAreKept ==
  ASSUME NEW S \in SUBSET Users, Cardinality(S) <= MaxPlayers, NEW u \in Users
  PROVE  /\ IsFiniteSet(S) /\ Cardinality(S) \in Nat
         /\ Cardinality(S \ {u}) <= MaxPlayers
         /\ (u \in S \/ Cardinality(S) < MaxPlayers) => Cardinality(S \cup {u}) <= MaxPlayers
<1>1. IsFiniteSet(S)
  BY UsersAssumption, FS_Subset
<1>2. Cardinality(S) \in Nat
  BY <1>1, FS_CardinalityType
<1>3. Cardinality(S \ {u}) = IF u \in S THEN Cardinality(S) - 1 ELSE Cardinality(S)
  BY <1>1, FS_RemoveElement
<1>4. Cardinality(S \cup {u}) = IF u \in S THEN Cardinality(S) ELSE Cardinality(S) + 1
  BY <1>1, FS_AddElement
<1> QED
  BY <1>1, <1>2, <1>3, <1>4, BoundsAssumption

\* POST /rooms makes a room of the right type.
LEMMA InitType == Init => TypeOK
<1> SUFFICES ASSUME Init PROVE TypeOK
  OBVIOUS
<1>1. Cardinality({Host}) = 1
  BY FS_Singleton
<1>2. participants \in SUBSET Users /\ Cardinality(participants) <= MaxPlayers
  BY <1>1, UsersAssumption, BoundsAssumption DEF Init
<1> QED
  BY <1>2, UsersAssumption, BoundsAssumption DEF Init, TypeOK, Answer

\* Every handler step keeps the types.
LEMMA NextType == TypeOK /\ [Next]_vars => TypeOK'
<1> SUFFICES ASSUME TypeOK, [Next]_vars PROVE TypeOK'
  OBVIOUS
<1> USE DEF TypeOK, Commands, Results, Job, NoJob, Answer
<1>1. ASSUME NEW u \in Users, JoinRoom(u) PROVE TypeOK'
  BY <1>1, PlacesAreKept DEF JoinRoom, CanJoin
<1>2. ASSUME NEW u \in Users, LeaveRoom(u) PROVE TypeOK'
  BY <1>2, PlacesAreKept DEF LeaveRoom
<1>3. ASSUME NEW u \in Users, NEW isReady \in BOOLEAN, ChangeReady(u, isReady) PROVE TypeOK'
  BY <1>3 DEF ChangeReady, CanChangeReady
<1>4. ASSUME NEW u \in Users, StartGame(u) PROVE TypeOK'
  BY <1>4 DEF StartGame
<1>5. ASSUME NEW u \in Users, Refuse(u) PROVE TypeOK'
  BY <1>5 DEF Refuse, room, JoinRefusal, ReadyRefusal, StartRefusal
<1>6. ASSUME NEW u \in Users, RecordRole(u) PROVE TypeOK'
  BY <1>6 DEF RecordRole, room
<1>7. CASE RecordRoomEvent
  <2>1. job.user \in Users /\ job.command \in {"JOIN_ROOM", "LEAVE_ROOM", "CHANGE_READY"}
    BY <1>7 DEF RecordRoomEvent
  <2>2. timeline' \in [members : SUBSET Users, ready : SUBSET Users,
                       started : BOOLEAN, roles : SUBSET Users]
    <3>1. CASE timeline' = [timeline EXCEPT !.members = @ \cup {job.user}]
      BY <2>1, <3>1
    <3>2. CASE timeline' = [timeline EXCEPT !.members = @ \ {job.user}, !.ready = @ \ {job.user}]
      BY <2>1, <3>2
    <3>3. CASE timeline' = [timeline EXCEPT !.ready = @ \cup {job.user}]
      BY <2>1, <3>3
    <3>4. CASE timeline' = [timeline EXCEPT !.ready = @ \ {job.user}]
      BY <2>1, <3>4
    <3> QED
      BY <1>7, <3>1, <3>2, <3>3, <3>4 DEF RecordRoomEvent
  <2>3. answer' \in [command : Commands, user : Users, result : Results]
    BY <1>7, <2>1 DEF RecordRoomEvent, Accept
  <2> QED
    BY <1>7, <2>2, <2>3 DEF RecordRoomEvent, Accept, room
<1>8. CASE StartGameSession
  BY <1>8 DEF StartGameSession, room
<1>9. CASE RecordGameStarted
  <2>1. job \in [command : Commands, user : Users, step : {"session", "record", "roles"},
                isReady : BOOLEAN]
    BY <1>9 DEF RecordGameStarted
  <2>2. job' \in [command : Commands, user : Users, step : {"session", "record", "roles"},
                 isReady : BOOLEAN]
    BY <1>9, <2>1 DEF RecordGameStarted
  <2>3. timeline' \in [members : SUBSET Users, ready : SUBSET Users,
                       started : BOOLEAN, roles : SUBSET Users]
    BY <1>9 DEF RecordGameStarted
  <2> QED
    BY <1>9, <2>2, <2>3 DEF RecordGameStarted, room
<1>10. CASE AcceptStart
  BY <1>10 DEF AcceptStart, Accept, room
<1>11. CASE HandlerFails
  BY <1>11, BoundsAssumption DEF HandlerFails, room
<1>12. CASE Crash
  BY <1>12, BoundsAssumption DEF Crash, room
<1>13. CASE UNCHANGED vars
  BY <1>13 DEF vars
<1> QED
  BY <1>1, <1>2, <1>3, <1>4, <1>5, <1>6, <1>7, <1>8, <1>9, <1>10, <1>11, <1>12, <1>13 DEF Next

\* The room, its seats and its handler are of their types in every state.
THEOREM RoomTypeCorrect == Spec => []TypeOK
<1>1. Init => TypeOK
  BY InitType
<1>2. TypeOK /\ [Next]_vars => TypeOK'
  BY NextType
<1> QED
  BY <1>1, <1>2, PTL DEF Spec
-----------------------------------------------------------------------------
(* The inductive invariant: what each step of START_GAME has behind it, and *)
(* how far the timeline is behind the room.                                 *)

StartInv ==
  /\ job.step = "session" =>
       /\ job.command = "START_GAME" /\ status = "IN_PROGRESS" /\ seats = None
       /\ participants \subseteq ready
       /\ Cardinality(participants) \in MinPlayers..MaxPlayers
  /\ job.step = "roles" => job.command = "START_GAME" /\ timeline.started
  /\ job.step \in {"record", "roles"} /\ job.command = "START_GAME" => seats # None
  /\ status = "WAITING" => job.command # "START_GAME"
  /\ seats = None => timeline.roles = {} /\ ~timeline.started
  /\ seats # None => timeline.roles \subseteq seats

SeatsInv == StartInv /\ SeatsHoldTheRoom /\ RolesAreOnRecord

\* Nothing is started, told or seated before the room is.
LEMMA SeatsInvInit == Init => SeatsInv
<1> SUFFICES ASSUME Init PROVE SeatsInv
  OBVIOUS
<1> QED
  BY UsersAssumption
     DEF Init, SeatsInv, StartInv, SeatsHoldTheRoom, RolesAreOnRecord, NoJob, Job, Answer

\* Every handler step keeps the seats and what START_GAME has behind it.
LEMMA SeatsInvNext == TypeOK /\ SeatsInv /\ [Next]_vars => SeatsInv'
<1> SUFFICES ASSUME TypeOK, SeatsInv, [Next]_vars PROVE SeatsInv'
  OBVIOUS
<1> USE DEF SeatsInv, StartInv, SeatsHoldTheRoom, RolesAreOnRecord
<1>0. /\ job \in [command : Commands, user : Users, step : {"session", "record", "roles"},
                   isReady : BOOLEAN] \/ job = NoJob
      /\ timeline \in [members : SUBSET Users, ready : SUBSET Users,
                       started : BOOLEAN, roles : SUBSET Users]
      /\ status \in {"WAITING", "IN_PROGRESS"}
      /\ participants \subseteq Users /\ ready \subseteq participants
  BY DEF TypeOK
<1>1. ASSUME NEW u \in Users, JoinRoom(u) PROVE SeatsInv'
  BY <1>1 DEF JoinRoom, CanJoin, Job
<1>2. ASSUME NEW u \in Users, LeaveRoom(u) PROVE SeatsInv'
  BY <1>2 DEF LeaveRoom, Job
<1>3. ASSUME NEW u \in Users, NEW isReady \in BOOLEAN, ChangeReady(u, isReady) PROVE SeatsInv'
  BY <1>3 DEF ChangeReady, CanChangeReady, Job
<1>4. ASSUME NEW u \in Users, StartGame(u) PROVE SeatsInv'
  <2>1. Cardinality(participants) \in MinPlayers..MaxPlayers
    <3>1. Cardinality(participants) <= MaxPlayers
      BY DEF TypeOK
    <3>2. Cardinality(participants) \in Nat
      BY <1>0, <3>1, PlacesAreKept, UsersAssumption
    <3>3. Cardinality(participants) >= MinPlayers
      BY <1>4 DEF StartGame, CanStart
    <3> QED
      BY <3>1, <3>2, <3>3, BoundsAssumption DEF MinPlayers
  <2>2. seats = None /\ status = "WAITING" /\ participants \subseteq ready
    BY <1>4 DEF StartGame, CanStart
  <2> QED
    BY <1>4, <2>1, <2>2 DEF StartGame, Job
<1>5. ASSUME NEW u \in Users, Refuse(u) PROVE SeatsInv'
  BY <1>5 DEF Refuse, room
<1>6. ASSUME NEW u \in Users, RecordRole(u) PROVE SeatsInv'
  <2>1. /\ job.command = "START_GAME" /\ timeline.started /\ seats # None /\ u \in seats
        /\ job' = job /\ seats' = seats /\ told' = told
    BY <1>6 DEF RecordRole
  <2>2. timeline'.roles = timeline.roles \cup {u} /\ timeline'.started = timeline.started
    BY <1>0, <1>6 DEF RecordRole
  <2> QED
    BY <1>6, <2>1, <2>2 DEF RecordRole, room
<1>7. CASE RecordRoomEvent
  <2>1. timeline'.roles = timeline.roles /\ timeline'.started = timeline.started
    <3>1. CASE timeline' = [timeline EXCEPT !.members = @ \cup {job.user}]
      BY <1>0, <3>1
    <3>2. CASE timeline' = [timeline EXCEPT !.members = @ \ {job.user}, !.ready = @ \ {job.user}]
      BY <1>0, <3>2
    <3>3. CASE timeline' = [timeline EXCEPT !.ready = @ \cup {job.user}]
      BY <1>0, <3>3
    <3>4. CASE timeline' = [timeline EXCEPT !.ready = @ \ {job.user}]
      BY <1>0, <3>4
    <3> QED
      BY <1>7, <3>1, <3>2, <3>3, <3>4 DEF RecordRoomEvent
  <2>2. job' = NoJob /\ told' = told /\ room' = room /\ seats' = seats
    BY <1>7 DEF RecordRoomEvent, Accept, room
  <2> QED
    BY <2>1, <2>2 DEF NoJob, Job, room
<1>8. CASE StartGameSession
  <2>1. seats' = participants /\ participants # None /\ status = "IN_PROGRESS"
    BY <1>0, <1>8, UsersAssumption DEF StartGameSession
  <2>2. job'.step = "record" /\ job'.command = "START_GAME"
    BY <1>0, <1>8 DEF StartGameSession, NoJob, Job
  <2> QED
    BY <1>8, <2>1, <2>2 DEF StartGameSession, room
<1>9. CASE RecordGameStarted
  <2>1. job'.step = "roles" /\ job'.command = "START_GAME" /\ seats # None
    BY <1>0, <1>9 DEF RecordGameStarted, NoJob, Job
  <2>2. timeline'.roles = timeline.roles /\ timeline'.started
    BY <1>0, <1>9 DEF RecordGameStarted
  <2>3. status = "IN_PROGRESS"
    BY <1>0, <1>9 DEF RecordGameStarted
  <2> QED
    BY <1>9, <2>1, <2>2, <2>3 DEF RecordGameStarted, room
<1>10. CASE AcceptStart
  <2>1. seats # None /\ timeline.started /\ told' = seats /\ timeline.roles = seats
    BY <1>10 DEF AcceptStart, Accept
  <2> QED
    BY <1>10, <2>1 DEF AcceptStart, Accept, room, NoJob, Job
<1>11. CASE HandlerFails \/ Crash
  BY <1>11 DEF HandlerFails, Crash, room, NoJob, Job
<1>12. CASE UNCHANGED vars
  BY <1>12 DEF vars
<1> QED
  BY <1>1, <1>2, <1>3, <1>4, <1>5, <1>6, <1>7, <1>8, <1>9, <1>10, <1>11, <1>12 DEF Next

\* The types and the seats together.
LEMMA SeatsInvariant == Spec => [](TypeOK /\ SeatsInv)
<1>1. Init => TypeOK /\ SeatsInv
  BY InitType, SeatsInvInit
<1>2. (TypeOK /\ SeatsInv) /\ [Next]_vars => (TypeOK /\ SeatsInv)'
  BY NextType, SeatsInvNext
<1> QED
  BY <1>1, <1>2, PTL DEF Spec

\* Whoever is in the room of a game has a seat in it, whatever failed on the way.
THEOREM SeatsStay == Spec => []SeatsHoldTheRoom
<1>1. SeatsInv => SeatsHoldTheRoom
  BY DEF SeatsInv
<1> QED
  BY <1>1, SeatsInvariant, PTL

\* Nobody is told a role that is not on record.
THEOREM RolesAreRecordedFirst == Spec => []RolesAreOnRecord
<1>1. SeatsInv => RolesAreOnRecord
  BY DEF SeatsInv
<1> QED
  BY <1>1, SeatsInvariant, PTL

\* A second START_GAME never stores a second session.
THEOREM GameIsDealtOnce == Spec => GameIsStoredOnce
<1>1. ASSUME TypeOK, SeatsInv, [Next]_vars, seats # None
      PROVE seats' = seats /\ job'.step # "session"
  <2> USE <1>1 DEF SeatsInv, StartInv, SeatsHoldTheRoom
  <2>0. job \in [command : Commands, user : Users, step : {"session", "record", "roles"},
                 isReady : BOOLEAN] \/ job = NoJob
    BY DEF TypeOK
  <2>1. ASSUME NEW u \in Users, JoinRoom(u) \/ LeaveRoom(u) \/ StartGame(u)
        PROVE seats' = seats /\ job'.step # "session"
    BY <2>1 DEF JoinRoom, LeaveRoom, StartGame, CanStart, Job
  <2>2. ASSUME NEW u \in Users, NEW isReady \in BOOLEAN, ChangeReady(u, isReady)
        PROVE seats' = seats /\ job'.step # "session"
    BY <2>2 DEF ChangeReady, Job
  <2>3. ASSUME NEW u \in Users, Refuse(u) \/ RecordRole(u)
        PROVE seats' = seats /\ job'.step # "session"
    BY <2>3 DEF Refuse, RecordRole
  <2>4. CASE RecordRoomEvent \/ AcceptStart \/ HandlerFails \/ Crash
    BY <2>4 DEF RecordRoomEvent, AcceptStart, Accept, HandlerFails, Crash, NoJob, Job
  <2>5. CASE StartGameSession
    BY <2>5 DEF StartGameSession
  <2>6. CASE RecordGameStarted
    BY <2>0, <2>6 DEF RecordGameStarted, NoJob, Job
  <2>7. CASE UNCHANGED vars
    BY <2>7 DEF vars
  <2> QED
    BY <2>1, <2>2, <2>3, <2>4, <2>5, <2>6, <2>7 DEF Next
<1>2. (TypeOK /\ SeatsInv) /\ [Next]_vars
        => [seats # None => seats' = seats /\ job'.step # "session"]_vars
  BY <1>1
<1> QED
  BY <1>2, SeatsInvariant, PTL DEF Spec, GameIsStoredOnce
-----------------------------------------------------------------------------
(* How far the timeline is behind the room while a handler has still to     *)
(* record, as long as nothing has failed.                                   *)

Unrecorded ==
  /\ job.command = "JOIN_ROOM" => timeline.members \cup {job.user} = participants
  /\ job.command = "LEAVE_ROOM" =>
       timeline.members \ {job.user} = participants /\ timeline.ready \ {job.user} = ready
  /\ job.command = "CHANGE_READY" =>
       (job.isReady /\ timeline.ready \cup {job.user} = ready)
         \/ (~job.isReady /\ timeline.ready \ {job.user} = ready)
  /\ job.command \in {"CHANGE_READY", "START_GAME", "none"} => timeline.members = participants
  /\ job.command \in {"JOIN_ROOM", "START_GAME", "none"} => timeline.ready = ready

Dealt ==
  job.command # "START_GAME" /\ status = "IN_PROGRESS" =>
    timeline.started /\ seats # None /\ timeline.roles = seats /\ told = seats

TimelineInv == failures = 0 => Unrecorded /\ Dealt

\* A new room is what its empty timeline says: its host, not ready.
LEMMA TimelineInvInit == Init => TimelineInv
BY DEF Init, TimelineInv, Unrecorded, Dealt, NoJob, Job

\* A handler leaves behind what it saved, or has its own event still to record.
LEMMA TimelineInvNext == TypeOK /\ SeatsInv /\ TimelineInv /\ [Next]_vars => TimelineInv'
<1> SUFFICES ASSUME TypeOK, SeatsInv, TimelineInv, [Next]_vars, failures' = 0
             PROVE (Unrecorded /\ Dealt)'
  BY DEF TimelineInv
<1>0. /\ job \in [command : Commands, user : Users, step : {"session", "record", "roles"},
                   isReady : BOOLEAN] \/ job = NoJob
      /\ timeline \in [members : SUBSET Users, ready : SUBSET Users,
                       started : BOOLEAN, roles : SUBSET Users]
      /\ status \in {"WAITING", "IN_PROGRESS"}
      /\ participants \subseteq Users /\ ready \subseteq participants
      /\ failures \in Nat
  BY BoundsAssumption DEF TypeOK
<1>a. CASE HandlerFails \/ Crash
  BY <1>0, <1>a DEF HandlerFails, Crash
<1>b. CASE UNCHANGED vars
  <2>1. Unrecorded /\ Dealt
    BY <1>b DEF vars, TimelineInv
  <2> QED
    BY <1>b, <2>1 DEF vars, Unrecorded, Dealt
<1>c. ASSUME Next, ~HandlerFails, ~Crash PROVE (Unrecorded /\ Dealt)'
  <2>0. failures = 0
    BY <1>c DEF Next, JoinRoom, LeaveRoom, ChangeReady, StartGame, Refuse, RecordRole,
                RecordRoomEvent, StartGameSession, RecordGameStarted, AcceptStart
  <2> USE <2>0 DEF TimelineInv, Unrecorded, Dealt
  <2>1. ASSUME NEW u \in Users, JoinRoom(u) PROVE (Unrecorded /\ Dealt)'
    <3>1. timeline.members = participants /\ timeline.ready = ready /\ status = "WAITING"
      BY <2>1 DEF JoinRoom, CanJoin, NoJob, Job
    <3>2. ready' = ready
      BY <1>0, <2>1 DEF JoinRoom
    <3> QED
      BY <2>1, <3>1, <3>2 DEF JoinRoom, Job
  <2>2. ASSUME NEW u \in Users, LeaveRoom(u) PROVE (Unrecorded /\ Dealt)'
    BY <2>2 DEF LeaveRoom, NoJob, Job
  <2>3. ASSUME NEW u \in Users, NEW isReady \in BOOLEAN, ChangeReady(u, isReady)
        PROVE (Unrecorded /\ Dealt)'
    <3>1. timeline.members = participants /\ timeline.ready = ready /\ status = "WAITING"
      BY <2>3 DEF ChangeReady, CanChangeReady, NoJob, Job
    <3>2. CASE isReady
      BY <2>3, <3>1, <3>2 DEF ChangeReady, Job
    <3>3. CASE ~isReady
      BY <2>3, <3>1, <3>3 DEF ChangeReady, Job
    <3> QED
      BY <3>2, <3>3
  <2>4. ASSUME NEW u \in Users, StartGame(u) PROVE (Unrecorded /\ Dealt)'
    BY <2>4 DEF StartGame, NoJob, Job
  <2>5. ASSUME NEW u \in Users, Refuse(u) PROVE (Unrecorded /\ Dealt)'
    BY <2>5 DEF Refuse, room
  <2>6. ASSUME NEW u \in Users, RecordRole(u) PROVE (Unrecorded /\ Dealt)'
    <3>1. job.command = "START_GAME" /\ job' = job
      BY <2>6 DEF RecordRole, SeatsInv, StartInv
    <3>2. timeline'.members = timeline.members /\ timeline'.ready = timeline.ready
      BY <1>0, <2>6 DEF RecordRole
    <3> QED
      BY <2>6, <3>1, <3>2 DEF RecordRole, room
  <2>7. CASE RecordRoomEvent
    <3>0. /\ job' = NoJob /\ NoJob.command = "none"
          /\ UNCHANGED <<status, participants, ready, seats, told>>
      BY <2>7 DEF RecordRoomEvent, Accept, room, NoJob, Job
    <3>1. /\ timeline'.members = participants /\ timeline'.ready = ready
          /\ timeline'.started = timeline.started /\ timeline'.roles = timeline.roles
      <4>1. CASE job.command = "JOIN_ROOM" /\ timeline' = [timeline EXCEPT !.members = @ \cup {job.user}]
        BY <1>0, <4>1
      <4>2. CASE job.command = "LEAVE_ROOM" /\ timeline' = [timeline EXCEPT !.members = @ \ {job.user}, !.ready = @ \ {job.user}]
        BY <1>0, <4>2
      <4>3. CASE job.command = "CHANGE_READY" /\ job.isReady /\ timeline' = [timeline EXCEPT !.ready = @ \cup {job.user}]
        BY <1>0, <4>3
      <4>4. CASE job.command = "CHANGE_READY" /\ ~job.isReady /\ timeline' = [timeline EXCEPT !.ready = @ \ {job.user}]
        BY <1>0, <4>4
      <4> QED
        BY <2>7, <4>1, <4>2, <4>3, <4>4 DEF RecordRoomEvent
    <3>2. job.command # "START_GAME"
      BY <2>7 DEF RecordRoomEvent
    <3> QED
      BY <3>0, <3>1, <3>2
  <2>8. CASE StartGameSession
    <3>1. job.command = "START_GAME" /\ job'.command = "START_GAME"
      BY <1>0, <2>8 DEF StartGameSession, SeatsInv, StartInv, NoJob, Job
    <3> QED
      BY <2>8, <3>1 DEF StartGameSession, room
  <2>9. CASE RecordGameStarted
    <3>1. job.command = "START_GAME" /\ job'.command = "START_GAME"
      BY <1>0, <2>9 DEF RecordGameStarted, NoJob, Job
    <3>2. timeline'.members = timeline.members /\ timeline'.ready = timeline.ready
      BY <1>0, <2>9 DEF RecordGameStarted
    <3> QED
      BY <2>9, <3>1, <3>2 DEF RecordGameStarted, room
  <2>10. CASE AcceptStart
    <3>1. /\ job.command = "START_GAME" /\ timeline.started /\ seats # None
          /\ timeline.roles = seats /\ told' = seats
      BY <2>10 DEF AcceptStart, Accept, SeatsInv, StartInv
    <3> QED
      BY <2>10, <3>1 DEF AcceptStart, Accept, room, NoJob, Job
  <2> QED
    BY <1>c, <2>1, <2>2, <2>3, <2>4, <2>5, <2>6, <2>7, <2>8, <2>9, <2>10 DEF Next
<1> QED
  BY <1>a, <1>b, <1>c

\* Types, seats and timeline together.
LEMMA TimelineInvariant == Spec => [](TypeOK /\ SeatsInv /\ TimelineInv)
<1>1. Init => TypeOK /\ SeatsInv /\ TimelineInv
  BY InitType, SeatsInvInit, TimelineInvInit
<1>2. (TypeOK /\ SeatsInv /\ TimelineInv) /\ [Next]_vars => (TypeOK /\ SeatsInv /\ TimelineInv)'
  BY NextType, SeatsInvNext, TimelineInvNext
<1> QED
  BY <1>1, <1>2, PTL DEF Spec

\* Unless something failed, the recorded events give back the room.
THEOREM TimelineTellsTheRoom == Spec => []RoomIsItsTimeline
<1>1. TypeOK /\ SeatsInv /\ TimelineInv => RoomIsItsTimeline
  BY DEF TypeOK, SeatsInv, StartInv, SeatsHoldTheRoom, TimelineInv, Unrecorded, Dealt,
         RoomIsItsTimeline, NoJob, Job
<1> QED
  BY <1>1, TimelineInvariant, PTL

\* Unless something failed, everybody in a started game was told his role.
THEOREM StartedGameIsDealt == Spec => []StartedRoomIsDealt
<1>1. TimelineInv => StartedRoomIsDealt
  BY DEF TimelineInv, Dealt, StartedRoomIsDealt, NoJob, Job
<1> QED
  BY <1>1, TimelineInvariant, PTL

-----------------------------------------------------------------------------
(* The numbers of the timeline. *)


\* The strengthening: a transaction that has inserted holds the next number,
\* and no other has.
InsertInv ==
  /\ \A w \in Writers : writing[w] # "idle" => seq[w] \in 1..(MaxSeq + 1)
  /\ \A w \in Writers : writing[w] = "inserted" => seq[w] = MaxSeq + 1
  /\ \A v, w \in Writers :
       writing[v] = "inserted" /\ writing[w] = "inserted" => v = w

LogInv == LogTypeOK /\ TimelineIsGapless /\ InsertInv

\* max(seq) of rows numbered 1..n is n, and 0 when there is none.
LEMMA MaxOfGapless ==
  ASSUME NEW n \in 0..MaxEvents, Seqs = 1..n
  PROVE  MaxSeq = n
BY MaxEventsAssumption DEF MaxSeq

\* A step keeps the numbering whole and appends to it.
LEMMA LogStep ==
  ASSUME LogInv, [LogNext]_logVars
  PROVE  LogInv' /\ AppendStep
<1> USE MaxEventsAssumption DEF LogInv, LogTypeOK, InsertInv, Goto
<1>1. PICK n \in 0..MaxEvents : Seqs = 1..n
  BY DEF TimelineIsGapless
<1>2. MaxSeq = n
  BY <1>1, MaxOfGapless
<1>3. ASSUME rows' = rows
      PROVE  MaxSeq' = n /\ TimelineIsGapless' /\ AppendStep
  BY <1>2, <1>3 DEF MaxSeq, Seqs, TimelineIsGapless, AppendStep
<1>4. ASSUME NEW w \in Writers, ReadMax(w) PROVE LogInv' /\ AppendStep
  BY <1>2, <1>3, <1>4 DEF ReadMax
<1>5. ASSUME NEW w \in Writers, Insert(w) PROVE LogInv' /\ AppendStep
  <2>1. seq[w] \notin Seqs => seq[w] = n + 1
    BY <1>1, <1>2, <1>5 DEF Insert
  <2>2. \A v \in Writers : writing[v] = "inserted" => seq[v] = n + 1
    BY <1>2
  <2>3. CASE seq[w] \in Seqs
    BY <1>2, <1>3, <1>5, <2>3 DEF Insert
  <2>4. CASE seq[w] \notin Seqs
    <3>1. \A v \in Writers : writing[v] # "inserted"
      BY <1>5, <2>1, <2>2, <2>4 DEF Insert
    <3>2. /\ rows' = rows /\ seq' = seq
          /\ writing' = [writing EXCEPT ![w] = "inserted"]
      BY <1>5, <2>4 DEF Insert
    <3>3. InsertInv'
      BY <1>2, <1>3, <2>1, <2>4, <3>1, <3>2
    <3>4. QED
      BY <1>3, <3>2, <3>3
  <2>5. QED
    BY <2>3, <2>4
<1>6. ASSUME NEW w \in Writers, Commit(w) PROVE LogInv' /\ AppendStep
  <2>1. seq[w] = n + 1 /\ n + 1 \in 1..MaxEvents
    BY <1>2, <1>6 DEF Commit
  <2>2. rows' = rows \cup {<<n + 1, w>>}
    BY <1>6, <2>1 DEF Commit
  <2>3. Seqs' = 1..(n + 1)
    <3>1. Seqs' = Seqs \cup {n + 1}
      <4>1. <<n + 1, w>>[1] = n + 1
        OBVIOUS
      <4>2. \A m : m \in Seqs' <=> \E r \in rows' : m = r[1]
        BY DEF Seqs
      <4>3. \A m : m \in Seqs <=> \E r \in rows : m = r[1]
        BY DEF Seqs
      <4>4. ASSUME NEW m, m \in Seqs' PROVE m \in Seqs \cup {n + 1}
        <5>1. PICK r \in rows' : m = r[1]
          BY <4>2, <4>4
        <5>2. r \in rows \/ r = <<n + 1, w>>
          BY <2>2
        <5>3. CASE r \in rows
          BY <4>3, <5>1, <5>3
        <5>4. CASE r = <<n + 1, w>>
          BY <4>1, <5>1, <5>4
        <5>5. QED
          BY <5>2, <5>3, <5>4
      <4>5. Seqs \subseteq Seqs'
        BY <2>2, <4>2, <4>3
      <4>6. n + 1 \in Seqs'
        <5>1. <<n + 1, w>> \in rows'
          BY <2>2
        <5>2. QED
          BY <4>1, <4>2, <5>1
      <4>7. QED
        BY <4>4, <4>5, <4>6
    <3>2. 1..(n + 1) = (1..n) \cup {n + 1}
      OBVIOUS
    <3>3. QED
      BY <1>1, <3>1, <3>2
  <2>4. MaxSeq' = n + 1
    BY <2>1, <2>3 DEF MaxSeq
  <2>5. \A r \in rows : r[1] \in 1..n
    BY <1>1 DEF Seqs
  <2>6. TimelineIsGapless' /\ AppendStep
    BY <2>1, <2>2, <2>3, <2>5 DEF TimelineIsGapless, AppendStep
  <2>7. LogTypeOK' /\ InsertInv'
    BY <1>2, <1>6, <2>1, <2>2, <2>4 DEF Commit
  <2>8. QED
    BY <2>6, <2>7
<1>7. ASSUME NEW w \in Writers, RollBack(w) PROVE LogInv' /\ AppendStep
  BY <1>2, <1>3, <1>7 DEF RollBack
<1>8. CASE UNCHANGED logVars
  BY <1>2, <1>3, <1>8 DEF logVars
<1>9. QED
  BY <1>4, <1>5, <1>6, <1>7, <1>8 DEF LogNext

\* The empty log is gapless.
LEMMA LogStarts == LogInit => LogInv
<1> SUFFICES ASSUME LogInit PROVE LogInv
  OBVIOUS
<1>1. Seqs = 1..0
  BY DEF LogInit, Seqs
<1>2. MaxSeq = 0
  BY <1>1, MaxOfGapless, MaxEventsAssumption
<1>3. QED
  BY <1>1, <1>2, MaxEventsAssumption
  DEF LogInit, LogInv, LogTypeOK, TimelineIsGapless, InsertInv

\* The induction, once for the theorems below.
LEMMA LogInvariant == LogSpec => []LogInv
BY LogStarts, LogStep, PTL DEF LogSpec

\* The rows and the transactions keep their shape.
THEOREM LogTypeCorrect == LogSpec => []LogTypeOK
<1>1. LogInv => LogTypeOK
  BY DEF LogInv
<1>2. QED
  BY <1>1, LogInvariant, PTL

\* Without a retry or a lock, max(seq) + 1 and the unique index number the
\* events of a game 1, 2, ..., n, whatever overlaps and rolls back.
THEOREM NumberingHasNoGap == LogSpec => []TimelineIsGapless
<1>1. LogInv => TimelineIsGapless
  BY DEF LogInv
<1>2. QED
  BY <1>1, LogInvariant, PTL

\* A committed event keeps its place: later ones come after it.
THEOREM LogOnlyGrows == LogSpec => TimelineIsAppended
<1>1. LogInv /\ [LogNext]_logVars => [AppendStep]_logVars
  BY LogStep
<1>2. QED
  BY <1>1, LogInvariant, PTL DEF LogSpec, TimelineIsAppended
=============================================================================
