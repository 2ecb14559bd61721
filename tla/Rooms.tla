------------------------------- MODULE Rooms -------------------------------
(***************************************************************************)
(* One room, from its creation to the start of its game: rooms.service.ts  *)
(* and the handlers JOIN_ROOM, LEAVE_ROOM, CHANGE_READY and START_GAME of  *)
(* game-command.service.ts.  A handler holds the game's lock from its read *)
(* of the room to its answer, so "job" is both the handler under way and   *)
(* the lock; between two of its awaited calls it can fail or die.  A       *)
(* handler that runs without the lock is left out.                         *)
(*                                                                         *)
(* A room is its status, the users in it and those of them who are ready.  *)
(* The recorded events are kept as what a reader of the timeline would     *)
(* make of them: who is in the room, who is ready, who was given a role.   *)
(* Left out: nicknames and times, malformed payloads and missing users     *)
(* (refused before anything is read), and the 24 hours a room is kept.     *)
(***************************************************************************)
EXTENDS Naturals, FiniteSets

CONSTANTS
  Users,        \* users who may send commands for the room
  Host,         \* the hostUserId of the room
  None,         \* no game session, or nobody
  MaxPlayers,   \* the room's maxPlayers
  MaxFailures   \* bound: how many calls may fail or handlers die

ASSUME UsersAssumption ==
  /\ IsFiniteSet(Users) /\ Host \in Users
  /\ None \notin Users /\ \A s \in SUBSET Users : s # None
ASSUME BoundsAssumption == MaxPlayers \in Nat \ {0, 1} /\ MaxFailures \in Nat

MinPlayers == 4

VARIABLES
  status,         \* room.status
  participants,   \* the userIds of room.participants
  ready,          \* those with isReady
  seats,          \* the players of the stored GameSession, None before it is stored
  timeline,       \* what the recorded events say: members, ready, started, roles
  told,           \* the users whom role:assigned has reached
  job,            \* the handler that holds the lock, NoJob when nobody does
  answer,         \* the last answer sent: to which command of whom
  failures        \* calls failed and handlers died so far

room == <<status, participants, ready>>
vars == <<status, participants, ready, seats, timeline, told, job, answer, failures>>

Commands == {"JOIN_ROOM", "LEAVE_ROOM", "CHANGE_READY", "START_GAME"}
Results == {"accepted", "ROOM_FULL", "ROOM_NOT_JOINABLE", "PARTICIPANT_NOT_FOUND",
            "ROOM_NOT_STARTABLE", "NOT_ROOM_HOST", "ROOM_TOO_SMALL", "ROOM_NOT_READY",
            "ROOM_COMMAND_FAILED"}

\* step: what the handler does next; isReady: the payload of CHANGE_READY.
Job(command, user, step, isReady) ==
  [command |-> command, user |-> user, step |-> step, isReady |-> isReady]
NoJob == Job("none", None, "none", FALSE)
Answer(command, user, result) == [command |-> command, user |-> user, result |-> result]

\* The room, its players, the events and the handler keep their types, and the
\* room its size.
TypeOK ==
  /\ status \in {"WAITING", "IN_PROGRESS"}
  /\ participants \in SUBSET Users /\ Cardinality(participants) <= MaxPlayers
  /\ ready \in SUBSET participants
  /\ seats \in (SUBSET Users) \cup {None}
  /\ timeline \in [members : SUBSET Users, ready : SUBSET Users,
                   started : BOOLEAN, roles : SUBSET Users]
  /\ told \in SUBSET Users
  /\ job \in [command : Commands, user : Users, step : {"session", "record", "roles"},
              isReady : BOOLEAN] \cup {NoJob}
  /\ answer \in [command : Commands, user : Users, result : Results]
                  \cup {Answer("none", None, "none")}
  /\ failures \in 0..MaxFailures

\* POST /rooms puts its host in the room and records nothing.
Init ==
  /\ status = "WAITING"
  /\ participants = {Host} /\ ready = {}
  /\ seats = None
  /\ timeline = [members |-> {Host}, ready |-> {}, started |-> FALSE, roles |-> {}]
  /\ told = {}
  /\ job = NoJob
  /\ answer = Answer("none", None, "none")
  /\ failures = 0

-----------------------------------------------------------------------------
(* The room is read, checked, changed and saved; then its handler records. *)

\* The room is not looked at for whoever is new in it.
CanJoinAnytime(u) ==
  u \in participants \/ Cardinality(participants) < MaxPlayers

\* `>' for `>=' in the check of the full room.
CanJoinFull(u) ==
  /\ status = "WAITING"
  /\ u \in participants \/ Cardinality(participants) <= MaxPlayers

CanJoin(u) ==
  /\ status = "WAITING"
  /\ u \in participants \/ Cardinality(participants) < MaxPlayers

\* A participant who joins again is put in anew, not ready.
JoinRoomAnew(u) ==
  /\ job = NoJob /\ CanJoin(u)
  /\ participants' = participants \cup {u}
  /\ ready' = ready \ {u}
  /\ job' = Job("JOIN_ROOM", u, "record", FALSE)
  /\ UNCHANGED <<status, seats, timeline, told, answer, failures>>

\* Who is in the room already keeps isReady and is only given his new nickname.
JoinRoom(u) ==
  /\ job = NoJob /\ CanJoin(u)
  /\ participants' = participants \cup {u}
  /\ ready' = IF u \in participants THEN ready ELSE ready \ {u}
  /\ job' = Job("JOIN_ROOM", u, "record", FALSE)
  /\ UNCHANGED <<status, seats, timeline, told, answer, failures>>

\* Leaving is possible in every status, for the host too; hostUserId stays.
LeaveRoom(u) ==
  /\ job = NoJob /\ u \in participants
  /\ participants' = participants \ {u}
  /\ ready' = ready \ {u}
  /\ job' = Job("LEAVE_ROOM", u, "record", FALSE)
  /\ UNCHANGED <<status, seats, timeline, told, answer, failures>>

CanChangeReady(u) == status = "WAITING" /\ u \in participants

ChangeReady(u, isReady) ==
  /\ job = NoJob /\ CanChangeReady(u)
  /\ ready' = IF isReady THEN ready \cup {u} ELSE ready \ {u}
  /\ job' = Job("CHANGE_READY", u, "record", isReady)
  /\ UNCHANGED <<status, participants, seats, timeline, told, answer, failures>>

\* The host need not be among the participants.
CanStart(u) ==
  /\ status = "WAITING" /\ u = Host
  /\ Cardinality(participants) >= MinPlayers
  /\ participants \subseteq ready

StartGame(u) ==
  /\ job = NoJob /\ CanStart(u)
  /\ status' = "IN_PROGRESS"
  /\ job' = Job("START_GAME", u, "session", FALSE)
  /\ UNCHANGED <<participants, ready, seats, timeline, told, answer, failures>>

\* The checks in the order the service makes them: the first that fails answers.
JoinRefusal == IF status # "WAITING" THEN "ROOM_NOT_JOINABLE" ELSE "ROOM_FULL"
ReadyRefusal == IF status # "WAITING" THEN "ROOM_NOT_JOINABLE" ELSE "PARTICIPANT_NOT_FOUND"
StartRefusal(u) ==
  CASE status # "WAITING" -> "ROOM_NOT_STARTABLE"
    [] status = "WAITING" /\ u # Host -> "NOT_ROOM_HOST"
    [] status = "WAITING" /\ u = Host /\ Cardinality(participants) < MinPlayers -> "ROOM_TOO_SMALL"
    [] OTHER -> "ROOM_NOT_READY"

Refuse(u) ==
  /\ job = NoJob
  /\ \/ ~CanJoin(u) /\ answer' = Answer("JOIN_ROOM", u, JoinRefusal)
     \/ u \notin participants /\ answer' = Answer("LEAVE_ROOM", u, "PARTICIPANT_NOT_FOUND")
     \/ ~CanChangeReady(u) /\ answer' = Answer("CHANGE_READY", u, ReadyRefusal)
     \/ ~CanStart(u) /\ answer' = Answer("START_GAME", u, StartRefusal(u))
  /\ UNCHANGED <<room, seats, timeline, told, job, failures>>

-----------------------------------------------------------------------------
(* The rest of a handler that has saved the room. *)

Accept(told2) ==
  /\ job' = NoJob
  /\ answer' = Answer(job.command, job.user, "accepted")
  /\ told' = told2

RecordRoomEvent ==
  /\ job.step = "record"
  /\ \/ /\ job.command = "JOIN_ROOM"
        /\ timeline' = [timeline EXCEPT !.members = @ \cup {job.user}]
     \/ /\ job.command = "LEAVE_ROOM"
        /\ timeline' = [timeline EXCEPT !.members = @ \ {job.user}, !.ready = @ \ {job.user}]
     \/ /\ job.command = "CHANGE_READY" /\ job.isReady
        /\ timeline' = [timeline EXCEPT !.ready = @ \cup {job.user}]
     \/ /\ job.command = "CHANGE_READY" /\ ~job.isReady
        /\ timeline' = [timeline EXCEPT !.ready = @ \ {job.user}]
  /\ Accept(told)
  /\ UNCHANGED <<room, seats, failures>>

\* The players of the session are the participants of the room just saved.
StartGameSession ==
  /\ job.step = "session"
  /\ seats' = participants
  /\ job' = [job EXCEPT !.step = "record"]
  /\ UNCHANGED <<room, timeline, told, answer, failures>>

RecordGameStarted ==
  /\ job.step = "record" /\ job.command = "START_GAME"
  /\ timeline' = [timeline EXCEPT !.started = TRUE]
  /\ job' = [job EXCEPT !.step = "roles"]
  /\ UNCHANGED <<room, seats, told, answer, failures>>

\* One RoleAssigned event after the other, in the shuffled order of the roles.
RecordRole(u) ==
  /\ job.step = "roles" /\ u \in seats \ timeline.roles
  /\ timeline' = [timeline EXCEPT !.roles = @ \cup {u}]
  /\ UNCHANGED <<room, seats, told, job, answer, failures>>

\* role:assigned is addressed to the user of the command.
AcceptStartToHost ==
  /\ job.step = "roles" /\ seats \subseteq timeline.roles
  /\ Accept({job.user})
  /\ UNCHANGED <<room, seats, timeline, failures>>

\* The acceptance does not wait for the RoleAssigned events.
AcceptStartAtOnce ==
  /\ job.step = "roles"
  /\ Accept(seats)
  /\ UNCHANGED <<room, seats, timeline, failures>>

\* game:started and every role:assigned go out only with the acceptance.
AcceptStart ==
  /\ job.step = "roles" /\ seats \subseteq timeline.roles
  /\ Accept(seats)
  /\ UNCHANGED <<room, seats, timeline, failures>>

\* A call of the handler throws: what was saved stays saved.
HandlerFails ==
  /\ job # NoJob /\ failures < MaxFailures
  /\ job' = NoJob
  /\ answer' = Answer(job.command, job.user, "ROOM_COMMAND_FAILED")
  /\ failures' = failures + 1
  /\ UNCHANGED <<room, seats, timeline, told>>

\* The instance dies and the lock expires: nobody is answered.
Crash ==
  /\ job # NoJob /\ failures < MaxFailures
  /\ job' = NoJob
  /\ failures' = failures + 1
  /\ UNCHANGED <<room, seats, timeline, told, answer>>

Next ==
  \/ \E u \in Users :
       \/ JoinRoom(u)
       \/ LeaveRoom(u)
       \/ \E isReady \in BOOLEAN : ChangeReady(u, isReady)
       \/ StartGame(u)
       \/ Refuse(u)
       \/ RecordRole(u)
  \/ RecordRoomEvent
  \/ StartGameSession
  \/ RecordGameStarted
  \/ AcceptStart
  \/ HandlerFails
  \/ Crash

Spec == Init /\ [][Next]_vars

-----------------------------------------------------------------------------
(* Properties. *)

\* Once the game is stored nobody comes in any more and nobody loses his
\* isReady: who is in the room has a seat in the game and was ready for it,
\* and the game has as many seats as the rules and the room allow.
SeatsHoldTheRoom ==
  seats # None =>
    /\ status = "IN_PROGRESS"
    /\ participants \subseteq seats \cap ready
    /\ Cardinality(seats) \in MinPlayers..MaxPlayers

\* The game of a room is stored once: no later START_GAME comes as far as
\* storing a session, with new roles, over the game under way.
GameIsStoredOnce == [][seats # None => seats' = seats /\ job'.step # "session"]_vars

\* While nothing has failed and no handler is under way, the recorded events
\* give back the room, and the roles that were given are on record.
RoomIsItsTimeline ==
  job = NoJob /\ failures = 0 =>
    /\ timeline.members = participants
    /\ timeline.ready = ready
    /\ timeline.started <=> status = "IN_PROGRESS"
    /\ seats # None => timeline.roles = seats

\* While nothing has failed and no handler is under way, a started room has a
\* game, and everybody in that game was told his role.
StartedRoomIsDealt ==
  job = NoJob /\ failures = 0 /\ status = "IN_PROGRESS" =>
    seats # None /\ told = seats

\* Nobody is told a role that is not on record, whatever fails: the timeline
\* is never behind what the players know.
RolesAreOnRecord == told \subseteq timeline.roles /\ (told # {} => timeline.started)

=============================================================================
