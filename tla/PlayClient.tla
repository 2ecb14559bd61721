------------------------------ MODULE PlayClient ------------------------------
(***************************************************************************)
(* The play page of one user, `me`: the room and the game as it shows them *)
(* against the room and the session the server has.  The page is fed from  *)
(* four sides that nobody puts in order: events of the room, the snapshot  *)
(* of reconnect:state, the answers of GET /rooms/:id, and its own optimism *)
(* about CHANGE_READY.                                                     *)
(*                                                                         *)
(* The server's handlers hold the lock of the game: a save is a step, then *)
(* each effect is one.  What the server sends to a socket comes in order;  *)
(* HTTP answers come whenever they do.  React renders before the next      *)
(* event.  Rules are those of GameSession, chat is Chat, the user's record *)
(* and connectionStatus are Connections; deadlines and names are left out. *)
(***************************************************************************)
EXTENDS Naturals, FiniteSets, Sequences

CONSTANTS
  Others,          \* the other users
  me, None,
  MaxMoves,        \* bound: joins and leaves of the others
  MaxTransitions,  \* bound: phases of the game
  MaxDrops,        \* bound: connections lost
  MaxCommands,     \* bound: CHANGE_READY commands of me
  MaxFailures      \* bound: handlers that fail after a save

ASSUME UsersAssumption ==
  IsFiniteSet(Others) /\ me # None /\ {me, None} \cap Others = {}
ASSUME BoundsAssumption ==
  {MaxMoves, MaxTransitions, MaxDrops, MaxCommands, MaxFailures} \subseteq Nat

VARIABLES
  room,         \* the room in Redis: members, is me ready?
  session,      \* the game session in Redis
  outbox,       \* the effects the handler under way has still to emit
  work,         \* the save it has still to make first: none, resolve, finish
  moves, transitions, failures,
  pc,           \* the next step of me's connect handler
  snapshot,     \* the session it has read
  drops,        \* connections lost, and the number of the present one
  inbox,        \* what is on its way to the live socket
  fetches,      \* the GET /rooms/:id of each connection
  viewRoom, viewSession, isReady,  \* room, session and isReady of the page
  commands,     \* each CHANGE_READY
  races         \* history: what has happened that may leave the page behind

server == <<room, session, outbox, work, moves, transitions, failures>>
connecting == <<pc, snapshot, drops>>
page == <<viewRoom, viewSession, isReady>>
vars == <<server, connecting, inbox, fetches, page, commands, races>>

Users == Others \cup {me}
Rooms == [members : SUBSET Users, ready : BOOLEAN]
NoRoom == [members |-> {}, ready |-> FALSE]

\* A session, and the page's copy of one: `role` says whether me's role is known.
Phases == {"NONE", "WAITING", "NIGHT", "DAY_DISCUSSION", "VOTING", "RESULT", "FINISHED"}
Sessions == [phase : Phases, turn : Nat, players : SUBSET Users, dead : SUBSET Users,
             role : BOOLEAN]
NoSession == [phase |-> "NONE", turn |-> 0, players |-> {}, dead |-> {}, role |-> FALSE]
InGame == session.phase # "NONE"

Connections == 0..MaxDrops
NoFetch == [step |-> "none", room |-> NoRoom]
NoCommand == [step |-> "unsent", ready |-> FALSE, waits |-> FALSE, socket |-> 0]
Ids == 1..MaxCommands

HearsUser == pc # "down"
HearsRoom == pc \notin {"down", "joinedUser"}
Idle == outbox = <<>> /\ work = "none"

\* The copies keep their types, and nobody dies who does not play.
TypeOK ==
  /\ room \in Rooms /\ viewRoom \in Rooms
  /\ \A s \in {session, snapshot, viewSession} : s \in Sessions /\ s.dead \subseteq s.players
  /\ work \in {"none", "resolve", "finish"}
  /\ moves \in 0..MaxMoves /\ transitions \in 0..MaxTransitions /\ drops \in Connections
  /\ failures \in 0..MaxFailures
  /\ pc \in {"down", "joinedUser", "joinedRoom", "reading", "up"}
  /\ fetches \in [Connections -> [step : {"none", "asked", "answered"}, room : Rooms]]
  /\ isReady \in BOOLEAN
  /\ commands \in [Ids -> [step : {"unsent", "sent", "answered"}, ready : BOOLEAN,
                           waits : BOOLEAN, socket : Connections]]
  /\ races \subseteq {"overtaken", "unseated", "fetch", "rollback", "unbuilt", "unsent"}

\* me sits in the room, alone, and the page shows it.
Init ==
  /\ room = [members |-> {me}, ready |-> FALSE] /\ viewRoom = room
  /\ session = NoSession /\ snapshot = NoSession /\ viewSession = NoSession
  /\ outbox = <<>> /\ work = "none" /\ moves = 0 /\ transitions = 0 /\ failures = 0
  /\ pc = "up" /\ drops = 0 /\ inbox = <<>>
  /\ fetches = [n \in Connections |-> NoFetch]
  /\ isReady = FALSE
  /\ commands = [i \in Ids |-> NoCommand]
  /\ races = {}

-----------------------------------------------------------------------------
(* The server: saves, then effects, in handlers that may fail in between.  *)

RoomUpdated(r) == [type |-> "room:updated", room |-> r]
GameStarted == [type |-> "game:started"]
RoleAssigned == [type |-> "role:assigned"]
PhaseChanged(phase, turn) == [type |-> "phase:changed", phase |-> phase, turn |-> turn]
Resolved(attacked, dead) == [type |-> "resolved", attacked |-> attacked, dead |-> dead]
GameFinished == [type |-> "game:finished"]
Answer(i, accepted) == [type |-> "answer", id |-> i, accepted |-> accepted]
ReconnectState(s, built) == [type |-> "state", session |-> s, built |-> built]

\* JOIN_ROOM and LEAVE_ROOM of the others.
OthersMove(u) ==
  /\ Idle /\ ~InGame
  /\ moves < MaxMoves
  /\ moves' = moves + 1
  /\ room' = [room EXCEPT !.members = IF u \in @ THEN @ \ {u} ELSE @ \cup {u}]
  /\ outbox' = <<RoomUpdated(room')>>
  /\ UNCHANGED <<session, work, transitions, failures, connecting, inbox, fetches, page,
                 commands, races>>

\* START_GAME, with both its saves, once all are ready, of whom only me is told.  The
\* room's status is left out, so one that fails before it has saved the session
\* changes nothing here.
StartGame ==
  /\ Idle /\ ~InGame
  /\ room.ready
  /\ session' = [phase |-> "NIGHT", turn |-> 0, players |-> room.members, dead |-> {},
                 role |-> TRUE]
  /\ outbox' = <<GameStarted, RoleAssigned, RoomUpdated(room)>>
  /\ UNCHANGED <<room, work, moves, transitions, failures, connecting, inbox, fetches, page,
                 commands, races>>

NextPhase(phase) ==
  CASE phase = "NIGHT"          -> "DAY_DISCUSSION"
    [] phase = "DAY_DISCUSSION" -> "VOTING"
    [] phase = "VOTING"         -> "RESULT"
    [] phase = "RESULT"         -> "NIGHT"

\* advancePhase: the new phase is saved before anybody dies of the old one.
AdvancePhase ==
  /\ Idle /\ session.phase \notin {"NONE", "FINISHED"}
  /\ transitions < MaxTransitions
  /\ transitions' = transitions + 1
  /\ session' = [session EXCEPT !.phase = NextPhase(@),
                                !.turn = IF session.phase = "NIGHT" THEN @ + 1 ELSE @]
  /\ outbox' = <<PhaseChanged(session'.phase, session'.turn)>>
  /\ work' = IF session.phase \in {"NIGHT", "VOTING"} THEN "resolve" ELSE "none"
  /\ UNCHANGED <<room, moves, failures, connecting, inbox, fetches, page, commands, races>>

\* resolveNightOutcome, where the doctor may have saved the attacked, or
\* resolveVotingOutcome.  The game may be over, by this death or by an earlier one
\* whose handler has not come to finish it.
Resolve ==
  /\ work = "resolve"
  /\ \E attacked \in (session.players \ session.dead) \cup {None} :
     \E dead \in {attacked, None} :
       /\ session' = [session EXCEPT !.dead = @ \cup ({dead} \ {None})]
       /\ outbox' = Append(outbox, Resolved(attacked, dead))
       /\ work' \in {"none", "finish"}
  /\ UNCHANGED <<room, moves, transitions, failures, connecting, inbox, fetches, page,
                 commands, races>>

FinishGame ==
  /\ work = "finish" /\ work' = "none"
  /\ session' = [session EXCEPT !.phase = "FINISHED"]
  /\ outbox' = Append(outbox, GameFinished)
  /\ UNCHANGED <<room, moves, transitions, failures, connecting, inbox, fetches, page,
                 commands, races>>

Answered(i) == commands' = [commands EXCEPT ![i].step = "answered"]
SendTo(socket, event) ==
  inbox' = IF socket = drops /\ pc # "down" THEN Append(inbox, event) ELSE inbox

\* CHANGE_READY: the save and then its effects, or a rejection, sent to the socket it
\* came from: GAME_LOCK_BUSY, whoever has the lock, a room that is not joinable, or a
\* call that throws before the save.
ChangeReady(i) ==
  /\ commands[i].step = "sent"
  /\ Answered(i)
  /\ \/ /\ Idle /\ ~InGame
        /\ room' = [room EXCEPT !.ready = commands[i].ready]
        /\ outbox' = <<RoomUpdated(room'), Answer(i, TRUE)>>
        /\ UNCHANGED inbox
     \/ /\ SendTo(commands[i].socket, Answer(i, FALSE))
        /\ UNCHANGED <<room, outbox>>
  /\ UNCHANGED <<session, work, moves, transitions, failures, connecting, fetches, page, races>>

\* Between a save and the last effect a recordEvent throws, or schedule() does behind
\* an effect, or the instance dies: the saves that were made stay, those still to be
\* made are not, and what is not emitted never will be.  A CHANGE_READY whose record
\* throws is rejected all the same.
HandlerFails ==
  /\ ~Idle /\ failures < MaxFailures
  /\ failures' = failures + 1
  /\ work' = "none"
  /\ outbox' \in {<<>>} \cup
       {<<Answer(i, FALSE)>> : i \in {j \in Ids : outbox = <<RoomUpdated(room), Answer(j, TRUE)>>}}
  /\ races' = races \cup {"unsent"}
  /\ UNCHANGED <<room, session, moves, transitions, connecting, inbox, fetches, page, commands>>

\* Has the page handled its reconnect:state and got its answer of GET /rooms?
Synced ==
  /\ pc = "up"
  /\ \A k \in 1..Len(inbox) : inbox[k].type # "state"
  /\ \A n \in Connections : fetches[n].step = "none"

\* The next effect.  It overtakes a snapshot that was read before it and not yet
\* sent; a game may start behind the back of a page that is not in step.
Emit ==
  /\ work = "none" /\ outbox # <<>>
  /\ outbox' = Tail(outbox)
  /\ LET event == Head(outbox)
     IN /\ CASE event.type = "answer"        -> SendTo(commands[event.id].socket, event)
             [] event.type = "role:assigned" -> inbox' = IF HearsUser THEN Append(inbox, event) ELSE inbox
             [] OTHER                        -> inbox' = IF HearsRoom THEN Append(inbox, event) ELSE inbox
        /\ races' = races
             \cup {r \in {"overtaken"} : pc = "reading" /\ snapshot # session}
             \cup {r \in {"unseated"} : event.type = "game:started"
                                         /\ (~Synced \/ races \cap {"fetch", "unbuilt"} # {})}
  /\ UNCHANGED <<room, session, work, moves, transitions, failures, connecting, fetches, page,
                 commands>>

\* GET /rooms/:id
ServeRoom(n) ==
  /\ fetches[n].step = "asked"
  /\ fetches' = [fetches EXCEPT ![n] = [step |-> "answered", room |-> room]]
  /\ UNCHANGED <<server, connecting, inbox, page, commands, races>>

-----------------------------------------------------------------------------
(* The connection.                                                         *)

\* Everything on its way to the socket is lost; a page loaded anew starts empty.
Drop ==
  /\ pc # "down" /\ drops < MaxDrops
  /\ drops' = drops + 1
  /\ pc' = "down" /\ snapshot' = NoSession /\ inbox' = <<>>
  /\ \/ UNCHANGED <<page, fetches, commands>>
     \/ /\ viewRoom' = NoRoom /\ viewSession' = NoSession /\ isReady' = FALSE
        /\ fetches' = [n \in Connections |-> NoFetch]
        /\ commands' = [i \in Ids |-> [commands[i] EXCEPT !.waits = FALSE]]
  /\ races' = races \ {"overtaken"}
  /\ UNCHANGED server

Step(from, to) == pc = from /\ pc' = to

JoinUserRoom ==
  /\ Step("down", "joinedUser")
  /\ UNCHANGED <<server, snapshot, drops, inbox, fetches, page, commands, races>>

JoinPreviousRoom ==
  /\ Step("joinedUser", "joinedRoom")
  /\ UNCHANGED <<server, snapshot, drops, inbox, fetches, page, commands, races>>

\* buildReconnectState reads the session, and then the recent chats.  The room will be
\* asked for later still, so what was not sent until now is not missed any more.
ReadSession ==
  /\ Step("joinedRoom", "reading")
  /\ snapshot' = session
  /\ races' = races \ {"unsent"}
  /\ UNCHANGED <<server, drops, inbox, fetches, page, commands>>

\* reconnect:state, with the empty state and no room when building it has thrown.
EmitReconnectState ==
  /\ Step("reading", "up")
  /\ \E built \in BOOLEAN :
       /\ inbox' = Append(inbox, ReconnectState(IF built THEN snapshot ELSE NoSession, built))
       /\ races' = races \cup {r \in {"unbuilt"} : ~built}
  /\ snapshot' = NoSession
  /\ UNCHANGED <<server, drops, fetches, page, commands>>

-----------------------------------------------------------------------------
(* The page.                                                               *)

\* normalizeSession: the players are those of the session, else of the room.
NormalizeSession ==
  IF viewSession.players # {} THEN viewSession
  ELSE [viewSession EXCEPT
          !.phase = IF @ = "NONE" THEN "WAITING" ELSE @,
          !.players = viewRoom.members,
          !.role = FALSE]

\* A player of the game, whether he is among the players of the view or not.
WithDeadUnlisted(s, u) == [s EXCEPT !.dead = @ \cup {u}]
WithDead(s, u) == IF u \in s.players THEN [s EXCEPT !.dead = @ \cup {u}] ELSE s

SetRoom(r) ==
  /\ viewRoom' = r
  /\ isReady' = IF me \in r.members THEN r.ready ELSE isReady

\* Is there an answer on its way of a room that has changed since?
OlderAnswers == {n \in Connections : fetches[n].step = "answered" /\ fetches[n].room # room}

HandleRoomUpdated(event) ==
  /\ event.type = "room:updated"
  /\ SetRoom(event.room)
  /\ races' = races \cup {r \in {"fetch"} : OlderAnswers # {}}
  /\ UNCHANGED <<viewSession, fetches, commands>>

HandleGameStarted(event) ==
  /\ event.type = "game:started"
  /\ viewSession' = [NormalizeSession EXCEPT !.phase = "NIGHT", !.turn = 0]
  /\ UNCHANGED <<viewRoom, isReady, fetches, commands, races>>

HandleRoleAssigned(event) ==
  /\ event.type = "role:assigned"
  /\ viewSession' = [NormalizeSession EXCEPT !.role = @ \/ me \in NormalizeSession.players]
  /\ UNCHANGED <<viewRoom, isReady, fetches, commands, races>>

HandlePhaseChanged(event) ==
  /\ event.type = "phase:changed"
  /\ viewSession' = [NormalizeSession EXCEPT !.phase = event.phase, !.turn = event.turn]
  /\ UNCHANGED <<viewRoom, isReady, fetches, commands, races>>

\* The attacked is shown dead, saved or not.
HandleResolvedAttack(event) ==
  /\ event.type = "resolved"
  /\ viewSession' = IF event.attacked = None THEN viewSession
                    ELSE WithDead(NormalizeSession, event.attacked)
  /\ UNCHANGED <<viewRoom, isReady, fetches, commands, races>>

\* night:resolved and voting:resolved
HandleResolved(event) ==
  /\ event.type = "resolved"
  /\ viewSession' = IF event.dead = None THEN viewSession
                    ELSE WithDead(NormalizeSession, event.dead)
  /\ UNCHANGED <<viewRoom, isReady, fetches, commands, races>>

HandleGameFinished(event) ==
  /\ event.type = "game:finished"
  /\ viewSession' = IF viewSession = NoSession THEN viewSession
                    ELSE [viewSession EXCEPT !.phase = "FINISHED"]
  /\ SetRoom(viewRoom)
  /\ UNCHANGED <<fetches, commands, races>>

\* The room is not asked for again.
HandleReconnectStateAlone(event) ==
  /\ event.type = "state"
  /\ viewSession' = IF event.session = NoSession THEN viewSession ELSE event.session
  /\ races' = IF event.session = NoSession THEN races ELSE races \ {"unseated", "unbuilt"}
  /\ UNCHANGED <<viewRoom, isReady, commands, fetches>>

\* Only an empty page takes the session of the snapshot.
HandleFirstReconnectState(event) ==
  /\ event.type = "state"
  /\ fetches' = [fetches EXCEPT ![drops].step = IF event.built THEN "asked" ELSE @]
  /\ viewSession' = IF viewSession # NoSession THEN viewSession ELSE event.session
  /\ races' = IF event.session = NoSession THEN races ELSE races \ {"unseated", "unbuilt"}
  /\ UNCHANGED <<viewRoom, isReady, commands>>

\* The session of the snapshot, if there is one, takes the place of the view,
\* and the room is asked for.
HandleReconnectState(event) ==
  /\ event.type = "state"
  /\ fetches' = [fetches EXCEPT ![drops].step = IF event.built THEN "asked" ELSE @]
  /\ viewSession' = IF event.session = NoSession THEN viewSession ELSE event.session
  /\ races' = IF event.session = NoSession THEN races ELSE races \ {"unseated", "unbuilt"}
  /\ UNCHANGED <<viewRoom, isReady, commands>>

\* The promise of sendCommand: a rejection or a timeout takes the click back.
Settle(i, accepted) ==
  /\ commands' = [commands EXCEPT ![i].waits = FALSE]
  /\ isReady' = IF accepted THEN isReady ELSE ~isReady
  /\ races' = races \cup {r \in {"rollback"} : ~accepted}

\* An answer that comes after the timeout, or to a new page, meets no waiter.
HandleAnswer(event) ==
  /\ event.type = "answer"
  /\ IF commands[event.id].waits THEN Settle(event.id, event.accepted)
     ELSE UNCHANGED <<commands, isReady, races>>
  /\ UNCHANGED <<viewRoom, viewSession, fetches>>

Handle ==
  /\ inbox # <<>> /\ inbox' = Tail(inbox)
  /\ LET event == Head(inbox)
     IN \/ HandleRoomUpdated(event) \/ HandleGameStarted(event)
        \/ HandleRoleAssigned(event) \/ HandlePhaseChanged(event)
        \/ HandleResolved(event) \/ HandleGameFinished(event)
        \/ HandleReconnectState(event) \/ HandleAnswer(event)
  /\ UNCHANGED <<server, connecting>>

\* refreshRoom: the answer arrives, or the request has failed.
RefreshRoom(n) ==
  /\ fetches[n].step = "answered"
  /\ fetches' = [fetches EXCEPT ![n] = NoFetch]
  /\ \/ /\ SetRoom(fetches[n].room)
        /\ races' = races \cup {r \in {"fetch"} : OlderAnswers \ {n} # {}}
     \/ UNCHANGED <<viewRoom, isReady>> /\ races' = races \cup {"fetch"}
  /\ UNCHANGED <<server, connecting, inbox, viewSession, commands>>

\* A click in the lobby shows at once and is sent.
ToggleReady(i) ==
  /\ pc # "down" /\ viewSession = NoSession /\ me \in viewRoom.members
  /\ commands[i].step = "unsent" /\ \A j \in 1..(i - 1) : commands[j].step # "unsent"
  /\ isReady' = ~isReady
  /\ commands' = [commands EXCEPT ![i] =
       [step |-> "sent", ready |-> ~isReady, waits |-> TRUE, socket |-> drops]]
  /\ UNCHANGED <<server, connecting, inbox, fetches, viewRoom, viewSession, races>>

\* Five seconds without an answer.
CommandTimesOut(i) ==
  /\ commands[i].waits
  /\ Settle(i, FALSE)
  /\ UNCHANGED <<server, connecting, inbox, fetches, viewRoom, viewSession>>

-----------------------------------------------------------------------------
Next ==
  \/ \E u \in Others : OthersMove(u)
  \/ StartGame \/ AdvancePhase \/ Resolve \/ FinishGame \/ Emit \/ HandlerFails
  \/ \E i \in Ids : ChangeReady(i) \/ ToggleReady(i) \/ CommandTimesOut(i)
  \/ \E n \in Connections : ServeRoom(n) \/ RefreshRoom(n)
  \/ Drop \/ JoinUserRoom \/ JoinPreviousRoom \/ ReadSession \/ EmitReconnectState
  \/ Handle

Spec == Init /\ [][Next]_vars

-----------------------------------------------------------------------------
(* Properties.                                                             *)

\* A turn begins with its day and ends with the night; FINISHED comes last.
Order == <<"DAY_DISCUSSION", "VOTING", "RESULT", "NIGHT", "FINISHED">>
Later(s, t) ==
  \/ s.turn > t.turn
  \/ /\ s.turn = t.turn
     /\ \E i, j \in 1..5 : i > j /\ s.phase = Order[i] /\ t.phase = Order[j]

\* Whatever is stale, the page is never ahead: no phase is shown before it is
\* saved, and nobody is shown dead who is alive.
NeverAhead ==
  ~Later(viewSession, session) /\ viewSession.dead \subseteq session.dead

Settled == Idle /\ Synced /\ inbox = <<>>

\* When nothing is on its way, the page shows the game as it is, whatever was lost
\* while it was away and whatever came while its snapshot was built.  Four things
\* void this, each until a later reconnect: an effect that overtakes the snapshot, a
\* snapshot that could not be built, a start while the page has not got its room, a
\* handler that fails between its save and its effects.
GameIsShown ==
  Settled /\ InGame /\ races \cap {"overtaken", "unbuilt", "unseated", "unsent"} = {}
    => viewSession = session

\* The same of the room before the game: members and readiness are shown as they
\* are, until an answer of GET /rooms comes after a newer event or a newer answer, or
\* not at all, or a ready command is rejected or times out; and while no handler has
\* failed between its save and its effects since the page has last connected.
LobbyIsShown ==
  Settled /\ ~InGame /\ races \cap {"fetch", "rollback", "unbuilt", "unsent"} = {}
    /\ (\A i \in Ids : ~commands[i].waits)
    => viewRoom = room /\ isReady = room.ready
=============================================================================
