----------------------------- MODULE Connections -----------------------------
(***************************************************************************)
(* The connections of one user: his record connection:user:{userId} in     *)
(* Redis, the gateway's handlers of connect and disconnect, the join and   *)
(* leave effects of his commands, and the connectionStatus of his player   *)
(* in the game.  One step per awaited call; a read and the save after it   *)
(* are two steps, and nothing but the lock of the game, which only some of *)
(* the handlers take, keeps two handlers apart.                            *)
(*                                                                         *)
(* The user has one client with one live socket; the server may learn of   *)
(* the loss of a socket after the client has opened the next.  There is    *)
(* one game room.  The changes of the GameSession are single steps, for    *)
(* they are made under the lock, as SessionStore refines them.  Left out:  *)
(* times, the personal user:{userId} channel, the record                   *)
(* connection:socket:{socketId} (the server never reads it).               *)
(***************************************************************************)
EXTENDS Naturals, FiniteSets

CONSTANTS
  Sockets,      \* each is used for one connection
  None,
  MaxHandlers,  \* bound: handlers of the user under way at once
  Contended,    \* may others hold the lock of the game?
  MaxFailures   \* bound: calls of Redis that throw

ASSUME NoneAssumption == None \notin Sockets
ASSUME ContendedAssumption == Contended \in BOOLEAN
ASSUME BoundsAssumption == MaxHandlers \in Nat \ {0} /\ MaxFailures \in Nat

Kinds == {"connect", "disconnect", "JOIN_ROOM", "LEAVE_ROOM"}
Handlers == Kinds \X Sockets
Kind(h) == h[1]
Socket(h) == h[2]
Others == <<"other", None>>

VARIABLES
  live,      \* the client's socket, or None
  record,    \* the user's RealtimeConnectionState, NoRecord before there is one
  channel,   \* the sockets in the socket.io room of the game
  member,    \* is the user among the participants of the room?
  player,    \* connectionStatus of his player, None before the game starts
  lock,      \* the handler that holds the lock of the game, Others, or None
  pc,        \* the next step of each handler
  previous,  \* did the connect handler of a socket find a previous room?
  copy,      \* the record as a handler has read it
  failures,
  answered,  \* history: the sockets that were sent reconnect:state
  gaveUp     \* history: has a handler found the lock taken?

local == <<pc, copy, previous, answered, gaveUp>>
stored == <<record, channel, member, player>>
vars == <<live, stored, lock, local, failures>>

NoRecord == [socketId |-> None, inRoom |-> FALSE, status |-> "DISCONNECTED"]
Record(s, inRoom, status) == [socketId |-> s, inRoom |-> inRoom, status |-> status]
Records == [socketId : Sockets, inRoom : BOOLEAN, status : {"CONNECTED", "DISCONNECTED"}]
             \cup {NoRecord}

\* The socketId of the record is not compared.
ForeignNever(s) == FALSE

\* The record is another socket's: set room, clear room and mark disconnected
\* leave it alone.
Foreign(s) == record.socketId \notin {None, s}

Running(h) == pc[h] \notin {"unborn", "ended"}
Free == Cardinality({h \in Handlers : Running(h)}) < MaxHandlers
Quiet == \A h \in Handlers : ~Running(h)
Used(s) == pc[<<"connect", s>>] # "unborn"

Steps == {"unborn", "loadPrevious", "readConnected", "saveConnected", "readRoom", "saveRoom",
          "acquire", "markConnected", "release", "emitState",
          "readDisconnected", "saveDisconnected", "markDisconnected",
          "readCleared", "saveCleared", "command", "ended"}

\* The record, the handlers and what they have read keep their types.
TypeOK ==
  /\ live \in Sockets \cup {None}
  /\ record \in Records
  /\ channel \in SUBSET Sockets
  /\ member \in BOOLEAN
  /\ player \in {None, "CONNECTED", "DISCONNECTED"}
  /\ lock \in Handlers \cup {Others, None}
  /\ pc \in [Handlers -> Steps]
  /\ previous \in [Sockets -> BOOLEAN]
  /\ copy \in [Handlers -> Records]
  /\ failures \in 0..MaxFailures
  /\ answered \subseteq Sockets
  /\ gaveUp \in BOOLEAN

Init ==
  /\ live = None
  /\ record = NoRecord
  /\ channel = {}
  /\ member = FALSE
  /\ player = None
  /\ lock = None
  /\ pc = [h \in Handlers |-> "unborn"]
  /\ previous = [s \in Sockets |-> FALSE]
  /\ copy = [h \in Handlers |-> NoRecord]
  /\ failures = 0
  /\ answered = {}
  /\ gaveUp = FALSE

Goto(h, step) == pc' = [pc EXCEPT ![h] = step]
Begin(h, step) == pc[h] = "unborn" /\ Free /\ Goto(h, step)

-----------------------------------------------------------------------------
(* The client, and the rest of the game. *)

\* The client opens its next socket and the server handles the connection.
Connect(s) ==
  /\ live = None /\ live' = s
  /\ Begin(<<"connect", s>>, "loadPrevious")
  /\ UNCHANGED <<stored, lock, previous, copy, failures, answered, gaveUp>>

\* The network drops, or the page is reloaded.
Drop ==
  /\ live # None /\ live' = None
  /\ UNCHANGED <<stored, lock, local, failures>>

\* The server notices: socket.io takes the socket out of its rooms.
Disconnect(s) ==
  /\ Used(s) /\ live # s
  /\ Begin(<<"disconnect", s>>, "readDisconnected")
  /\ channel' = channel \ {s}
  /\ UNCHANGED <<live, record, member, player, lock, previous, copy, failures, answered, gaveUp>>

\* JOIN_ROOM while the room waits, LEAVE_ROOM at any time, with the lock held.
Command(k, s) ==
  /\ live = s /\ lock = None
  /\ IF k = "JOIN_ROOM" THEN player = None ELSE member
  /\ Begin(<<k, s>>, "command")
  /\ lock' = <<k, s>>
  /\ UNCHANGED <<live, stored, previous, copy, failures, answered, gaveUp>>

\* START_GAME seats the participants of the room, every one as connected.
StartGame ==
  /\ member /\ player = None /\ lock = None
  /\ Free
  /\ player' = "CONNECTED"
  /\ UNCHANGED <<live, record, channel, member, lock, local, failures>>

OthersLock ==
  /\ Contended
  /\ \/ lock = None /\ lock' = Others
     \/ lock = Others /\ lock' = None
  /\ UNCHANGED <<live, stored, local, failures>>

-----------------------------------------------------------------------------
(* The steps that the handlers share: a read and a save of the record, the  *)
(* lock.  A step that finds nothing to do goes on to the step after the     *)
(* next, which depends on the handler.                                      *)

\* The previous room is reported, but not set.
AfterConnectedAtOnce(s) == "emitState"
AfterConnected(s) == IF previous[s] THEN "readRoom" ELSE "emitState"
\* The player is not marked after a reconnect.
AfterRoomUnmarked(h) == IF Kind(h) = "connect" THEN "emitState" ELSE "release"
AfterRoom(h) == IF Kind(h) = "connect" THEN "acquire" ELSE "release"
AfterLock(h) == IF Kind(h) = "connect" THEN "emitState" ELSE "ended"

Read(h, step, next) ==
  /\ pc[h] = step /\ Goto(h, next)
  /\ copy' = [copy EXCEPT ![h] = record]

Save(h, step, rec, next) ==
  /\ pc[h] = step /\ Goto(h, next)
  /\ record' = rec
  /\ copy' = [copy EXCEPT ![h] = NoRecord]
  /\ UNCHANGED <<live, channel, member, player, lock, previous, failures, answered, gaveUp>>

\* client.join, and the read of set room.
ReadRoom(h) ==
  /\ Read(h, "readRoom", IF Foreign(Socket(h)) THEN AfterRoom(h) ELSE "saveRoom")
  /\ channel' = channel \cup {Socket(h)}
  /\ UNCHANGED <<live, record, member, player, lock, previous, failures, answered, gaveUp>>

\* The record is saved without a roomId.
SaveRoomNull(h) == Save(h, "saveRoom", Record(Socket(h), None, "CONNECTED"), AfterRoom(h))

SaveRoom(h) == Save(h, "saveRoom", Record(Socket(h), TRUE, "CONNECTED"), AfterRoom(h))

\* A handler that finds the lock taken gives up: nobody tries again.
Acquire(h) ==
  /\ pc[h] = "acquire"
  /\ IF lock = None
       THEN /\ lock' = h
            /\ Goto(h, IF Kind(h) = "connect" THEN "markConnected" ELSE "markDisconnected")
       ELSE Goto(h, AfterLock(h)) /\ UNCHANGED lock
  /\ gaveUp' = (gaveUp \/ lock # None)
  /\ UNCHANGED <<live, stored, previous, copy, failures, answered>>

Release(h) ==
  /\ pc[h] = "release" /\ Goto(h, AfterLock(h))
  /\ lock' = IF lock = h THEN None ELSE lock
  /\ UNCHANGED <<live, stored, previous, copy, failures, answered, gaveUp>>

\* The lock of a handler whose release failed is gone after its TTL.
LockExpires ==
  /\ lock \in Handlers /\ ~Running(lock)
  /\ lock' = None
  /\ UNCHANGED <<live, stored, local, failures>>

-----------------------------------------------------------------------------
(* handleConnection *)

LoadPrevious(h) ==
  /\ pc[h] = "loadPrevious" /\ Goto(h, "readConnected")
  /\ previous' = [previous EXCEPT ![Socket(h)] = record.inRoom]
  /\ UNCHANGED <<live, stored, lock, copy, failures, answered, gaveUp>>

ReadConnected(h) ==
  /\ Read(h, "readConnected", "saveConnected")
  /\ UNCHANGED <<live, stored, lock, previous, failures, answered, gaveUp>>

\* A new socket starts without a room; set room brings the previous one back.
SaveConnected(h) ==
  LET sameSocket == copy[h].socketId = Socket(h)
  IN Save(h, "saveConnected",
          Record(Socket(h), sameSocket /\ copy[h].inRoom, "CONNECTED"),
          AfterConnected(Socket(h)))

\* Before the game there is no session: markPlayerConnected throws, and that
\* is only logged.
MarkPlayerConnected(h) ==
  /\ pc[h] = "markConnected" /\ Goto(h, "release")
  /\ player' = IF player = None THEN None ELSE "CONNECTED"
  /\ UNCHANGED <<live, record, channel, member, lock, previous, copy, failures, answered, gaveUp>>

\* reconnect:state goes to the socket, empty when there was no room.
EmitReconnectState(h) ==
  /\ pc[h] = "emitState" /\ Goto(h, "ended")
  /\ answered' = answered \cup {Socket(h)}
  /\ UNCHANGED <<live, stored, lock, previous, copy, failures, gaveUp>>

-----------------------------------------------------------------------------
(* handleDisconnect *)

ReadDisconnected(h) ==
  /\ Read(h, "readDisconnected", IF Foreign(Socket(h)) THEN "ended" ELSE "saveDisconnected")
  /\ UNCHANGED <<live, stored, lock, previous, failures, answered, gaveUp>>

SaveDisconnected(h) ==
  Save(h, "saveDisconnected", Record(Socket(h), copy[h].inRoom, "DISCONNECTED"),
       IF copy[h].inRoom THEN "acquire" ELSE "ended")

MarkPlayerDisconnected(h) ==
  /\ pc[h] = "markDisconnected" /\ Goto(h, "release")
  /\ player' = IF player = None THEN None ELSE "DISCONNECTED"
  /\ UNCHANGED <<live, record, channel, member, lock, previous, copy, failures, answered, gaveUp>>

-----------------------------------------------------------------------------
(* The commands: the change of the room, then the effect on the connection. *)

JoinRoom(h) ==
  /\ pc[h] = "command" /\ Kind(h) = "JOIN_ROOM" /\ Goto(h, "readRoom")
  /\ member' = TRUE
  /\ UNCHANGED <<live, record, channel, player, lock, previous, copy, failures, answered, gaveUp>>

LeaveRoom(h) ==
  /\ pc[h] = "command" /\ Kind(h) = "LEAVE_ROOM" /\ Goto(h, "readCleared")
  /\ member' = FALSE
  /\ UNCHANGED <<live, record, channel, player, lock, previous, copy, failures, answered, gaveUp>>

\* client.leave, and the read of clear room.
ReadCleared(h) ==
  LET nothingToClear == record # NoRecord /\ (Foreign(Socket(h)) \/ ~record.inRoom)
  IN /\ Read(h, "readCleared", IF nothingToClear THEN "release" ELSE "saveCleared")
     /\ channel' = channel \ {Socket(h)}
     /\ UNCHANGED <<live, record, member, player, lock, previous, failures, answered, gaveUp>>

SaveCleared(h) == Save(h, "saveCleared", Record(Socket(h), FALSE, "CONNECTED"), "release")

-----------------------------------------------------------------------------
\* Only the calls under the lock are caught.
AfterFailureUncaught(h) ==
  IF pc[h] \in {"markConnected", "markDisconnected"} THEN "release" ELSE "ended"

\* Where a handler goes on when the call of its step throws.  Every call is
\* caught where it is made.
AfterFailure(h) ==
  CASE pc[h] = "loadPrevious" -> "readConnected"
    [] pc[h] \in {"readConnected", "saveConnected"} -> AfterConnected(Socket(h))
    [] pc[h] \in {"readRoom", "saveRoom"} -> AfterRoom(h)
    [] pc[h] \in {"acquire", "release"} -> AfterLock(h)
    [] pc[h] \in {"markConnected", "markDisconnected", "command",
                  "readCleared", "saveCleared"} -> "release"
    [] pc[h] \in {"readDisconnected", "saveDisconnected"} -> "ended"

CallFails(h) ==
  /\ failures < MaxFailures
  /\ pc[h] \notin {"unborn", "ended", "emitState"}
  /\ Goto(h, AfterFailure(h))
  /\ failures' = failures + 1
  /\ UNCHANGED <<live, stored, lock, previous, copy, answered, gaveUp>>

Proceed(h) ==
  \/ ReadRoom(h) \/ SaveRoom(h) \/ Acquire(h) \/ Release(h)
  \/ LoadPrevious(h) \/ ReadConnected(h) \/ SaveConnected(h)
  \/ MarkPlayerConnected(h) \/ EmitReconnectState(h)
  \/ ReadDisconnected(h) \/ SaveDisconnected(h) \/ MarkPlayerDisconnected(h)
  \/ JoinRoom(h) \/ LeaveRoom(h) \/ ReadCleared(h) \/ SaveCleared(h)

Next ==
  \/ \E s \in Sockets :
       \/ Connect(s)
       \/ Disconnect(s)
       \/ \E k \in {"JOIN_ROOM", "LEAVE_ROOM"} : Command(k, s)
  \/ Drop
  \/ StartGame
  \/ OthersLock
  \/ LockExpires
  \/ \E h \in Handlers : Proceed(h) \/ CallFails(h)

Spec == Init /\ [][Next]_vars

-----------------------------------------------------------------------------
(* Properties. *)

\* Between handlers the record is that of the client's newest socket, and says
\* CONNECTED for as long as the server has no reason to think otherwise: the
\* late disconnect of an earlier socket does not touch it.  Until a call fails.
RecordIsTheLiveSocket ==
  Quiet /\ live # None /\ failures = 0 =>
    record.socketId = live /\ record.status = "CONNECTED"

\* Between handlers a member of the room has it in his record, through any
\* number of reconnects, and who has left has not; the live socket of a member
\* hears the room and nobody else's does.  Until a call fails.
RoomIsRemembered ==
  Quiet /\ failures = 0 =>
    /\ record.inRoom = member
    /\ live # None => (live \in channel <=> member)

\* Between handlers a player who is connected is not shown as disconnected,
\* unless a call has failed or the lock was taken when a handler came for it.
PlayerIsAsConnected ==
  Quiet /\ live # None /\ member /\ failures = 0 /\ ~gaveUp =>
    player \in {None, "CONNECTED"}

\* A member of the room whose client has reconnected hears the room again.
MembersComeBack == Quiet /\ live # None /\ member => live \in channel

\* Between handlers every connection there was has got its reconnect:state,
\* whatever call has thrown on the way and whoever had the lock.
ConnectionsAreAnswered == Quiet => \A s \in Sockets : Used(s) => s \in answered
=============================================================================
