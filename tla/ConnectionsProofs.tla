-------------------------- MODULE ConnectionsProofs --------------------------
(***************************************************************************)
(* The record, the room and the player of a user in Connections, for any   *)
(* number of sockets and with others that take the lock whenever they      *)
(* like.  That every connection is answered needs no more; the rest is for *)
(* handlers that do not overlap, and until a call fails.                   *)
(***************************************************************************)
EXTENDS Connections, FiniteSetTheorems, TLAPS

\* A handler is its kind and its socket.
LEMMA HandlerParts ==
  /\ \A h \in Handlers : Kind(h) \in Kinds /\ Socket(h) \in Sockets
  /\ \A g, h \in Handlers : Kind(g) = Kind(h) /\ Socket(g) = Socket(h) => g = h
  /\ \A k \in Kinds, s \in Sockets :
       <<k, s>> \in Handlers /\ Kind(<<k, s>>) = k /\ Socket(<<k, s>>) = s
BY DEF Handlers, Kind, Socket

-----------------------------------------------------------------------------
(* Types, and an answer for every connection.                              *)

\* Which handlers come to a step.
StepsInv ==
  \A h \in Handlers :
    /\ pc[h] \in {"readDisconnected", "saveDisconnected", "markDisconnected"} =>
         Kind(h) = "disconnect"
    /\ pc[h] \in {"loadPrevious", "readConnected", "saveConnected", "markConnected", "emitState"} =>
         Kind(h) = "connect"
    /\ pc[h] \in {"command", "readCleared", "saveCleared"} =>
         Kind(h) \in {"JOIN_ROOM", "LEAVE_ROOM"}
    /\ pc[h] \in {"readRoom", "saveRoom"} => Kind(h) \in {"connect", "JOIN_ROOM"}
    /\ pc[h] = "acquire" => Kind(h) \in {"connect", "disconnect"}
    /\ pc[h] = "readCleared" => Kind(h) = "LEAVE_ROOM"

\* Where a handler goes on when a call throws.
LEMMA FailuresGoOn ==
  ASSUME NEW h \in Handlers
  PROVE  /\ pc[h] = "loadPrevious" => AfterFailure(h) = "readConnected"
         /\ pc[h] \in {"readConnected", "saveConnected"} =>
              AfterFailure(h) \in {"readRoom", "emitState"}
         /\ pc[h] \in {"readRoom", "saveRoom"} =>
              AfterFailure(h) = IF Kind(h) = "connect" THEN "acquire" ELSE "release"
         /\ pc[h] \in {"acquire", "release"} =>
              AfterFailure(h) = IF Kind(h) = "connect" THEN "emitState" ELSE "ended"
         /\ pc[h] \in {"markConnected", "markDisconnected", "command", "readCleared", "saveCleared"} =>
              AfterFailure(h) = "release"
         /\ pc[h] \in {"readDisconnected", "saveDisconnected"} => AfterFailure(h) = "ended"
BY DEF AfterFailure, AfterConnected, AfterRoom, AfterLock

\* The records the handlers make are records.
LEMMA RecordTypes ==
  /\ \A s \in Sockets, i \in BOOLEAN, st \in {"CONNECTED", "DISCONNECTED"} :
       Record(s, i, st) \in Records
  /\ NoRecord \in Records
  /\ \A r \in Records : r.inRoom \in BOOLEAN
<1>1. \A s \in Sockets, i \in BOOLEAN, st \in {"CONNECTED", "DISCONNECTED"} :
        Record(s, i, st) \in Records
  BY DEF Records, Record
<1>2. NoRecord \in Records
  BY DEF Records
<1>3. ASSUME NEW r \in Records PROVE r.inRoom \in BOOLEAN
  <2>1. CASE r = NoRecord
    BY <2>1 DEF NoRecord
  <2>2. CASE r # NoRecord
    BY <2>2 DEF Records
  <2>3. QED
    BY <2>1, <2>2
<1>4. QED
  BY <1>1, <1>2, <1>3

\* No step leaves the types.
LEMMA TypeStep ==
  ASSUME TypeOK, [Next]_vars
  PROVE  TypeOK'
<1>a. Kinds = {"connect", "disconnect", "JOIN_ROOM", "LEAVE_ROOM"} /\ Others \notin Handlers
  BY DEF Kinds, Others, Handlers
<1> USE DEF TypeOK, Goto, local, stored, Steps
<1>1. ASSUME NEW s \in Sockets, Connect(s) PROVE TypeOK'
  BY HandlerParts, <1>a, <1>1 DEF Connect, Begin
<1>2. ASSUME NEW s \in Sockets, Disconnect(s) PROVE TypeOK'
  BY HandlerParts, <1>a, <1>2 DEF Disconnect, Begin
<1>3. ASSUME NEW s \in Sockets, NEW k \in {"JOIN_ROOM", "LEAVE_ROOM"}, Command(k, s)
       PROVE TypeOK'
  BY HandlerParts, <1>a, <1>3 DEF Command, Begin
<1>4. CASE Drop
  BY HandlerParts, <1>a, <1>4 DEF Drop
<1>5. CASE StartGame
  BY HandlerParts, <1>a, <1>5 DEF StartGame
<1>6. CASE OthersLock
  BY HandlerParts, <1>a, <1>6 DEF OthersLock
<1>7. CASE LockExpires
  BY HandlerParts, <1>a, <1>7 DEF LockExpires
<1>8. ASSUME NEW h \in Handlers, ReadRoom(h) PROVE TypeOK'
  BY HandlerParts, <1>a, <1>8 DEF ReadRoom, Read, AfterRoom
<1>9. ASSUME NEW h \in Handlers, SaveRoom(h) PROVE TypeOK'
  BY HandlerParts, <1>a, <1>9, RecordTypes DEF SaveRoom, Save, AfterRoom
<1>10. ASSUME NEW h \in Handlers, Acquire(h) PROVE TypeOK'
  BY HandlerParts, <1>a, <1>10 DEF Acquire, AfterLock
<1>11. ASSUME NEW h \in Handlers, Release(h) PROVE TypeOK'
  BY HandlerParts, <1>a, <1>11 DEF Release, AfterLock
<1>12. ASSUME NEW h \in Handlers, LoadPrevious(h) PROVE TypeOK'
  BY HandlerParts, <1>a, <1>12, RecordTypes DEF LoadPrevious
<1>13. ASSUME NEW h \in Handlers, ReadConnected(h) PROVE TypeOK'
  BY HandlerParts, <1>a, <1>13 DEF ReadConnected, Read
<1>14. ASSUME NEW h \in Handlers, SaveConnected(h) PROVE TypeOK'
  BY HandlerParts, <1>a, <1>14, RecordTypes DEF SaveConnected, Save, AfterConnected
<1>15. ASSUME NEW h \in Handlers, MarkPlayerConnected(h) PROVE TypeOK'
  BY HandlerParts, <1>a, <1>15 DEF MarkPlayerConnected
<1>16. ASSUME NEW h \in Handlers, EmitReconnectState(h) PROVE TypeOK'
  BY HandlerParts, <1>a, <1>16 DEF EmitReconnectState
<1>17. ASSUME NEW h \in Handlers, ReadDisconnected(h) PROVE TypeOK'
  BY HandlerParts, <1>a, <1>17 DEF ReadDisconnected, Read
<1>18. ASSUME NEW h \in Handlers, SaveDisconnected(h) PROVE TypeOK'
  BY HandlerParts, <1>a, <1>18, RecordTypes DEF SaveDisconnected, Save
<1>19. ASSUME NEW h \in Handlers, MarkPlayerDisconnected(h) PROVE TypeOK'
  BY HandlerParts, <1>a, <1>19 DEF MarkPlayerDisconnected
<1>20. ASSUME NEW h \in Handlers, JoinRoom(h) PROVE TypeOK'
  BY HandlerParts, <1>a, <1>20 DEF JoinRoom
<1>21. ASSUME NEW h \in Handlers, LeaveRoom(h) PROVE TypeOK'
  BY HandlerParts, <1>a, <1>21 DEF LeaveRoom
<1>22. ASSUME NEW h \in Handlers, ReadCleared(h) PROVE TypeOK'
  BY HandlerParts, <1>a, <1>22 DEF ReadCleared, Read
<1>23. ASSUME NEW h \in Handlers, SaveCleared(h) PROVE TypeOK'
  BY HandlerParts, <1>a, <1>23, RecordTypes DEF SaveCleared, Save
<1>24. ASSUME NEW h \in Handlers, CallFails(h) PROVE TypeOK'
  BY FailuresGoOn, BoundsAssumption, <1>24 DEF CallFails
<1>25. CASE UNCHANGED vars
  BY HandlerParts, <1>a, <1>25 DEF vars
<1>26. QED
  BY <1>1, <1>2, <1>3, <1>4, <1>5, <1>6, <1>7, <1>8, <1>9, <1>10, <1>11,
     <1>12, <1>13, <1>14, <1>15, <1>16, <1>17, <1>18, <1>19, <1>20, <1>21, <1>22,
     <1>23, <1>24, <1>25
  DEF Next, Proceed

\* Handlers keep to the steps of their kind.
LEMMA StepsStep ==
  ASSUME TypeOK, StepsInv, [Next]_vars
  PROVE  StepsInv'
<1> USE DEF TypeOK, StepsInv, Goto, local, stored, Kinds
<1>1. ASSUME NEW s \in Sockets, Connect(s) PROVE StepsInv'
  BY HandlerParts, <1>1 DEF Connect, Begin
<1>2. ASSUME NEW s \in Sockets, Disconnect(s) PROVE StepsInv'
  BY HandlerParts, <1>2 DEF Disconnect, Begin
<1>3. ASSUME NEW s \in Sockets, NEW k \in {"JOIN_ROOM", "LEAVE_ROOM"}, Command(k, s)
       PROVE StepsInv'
  BY HandlerParts, <1>3 DEF Command, Begin
<1>4. CASE Drop
  BY HandlerParts, <1>4 DEF Drop
<1>5. CASE StartGame
  BY HandlerParts, <1>5 DEF StartGame
<1>6. CASE OthersLock
  BY HandlerParts, <1>6 DEF OthersLock
<1>7. CASE LockExpires
  BY HandlerParts, <1>7 DEF LockExpires
<1>8. ASSUME NEW h \in Handlers, ReadRoom(h) PROVE StepsInv'
  BY HandlerParts, <1>8 DEF ReadRoom, Read, AfterRoom
<1>9. ASSUME NEW h \in Handlers, SaveRoom(h) PROVE StepsInv'
  BY HandlerParts, <1>9 DEF SaveRoom, Save, AfterRoom
<1>10. ASSUME NEW h \in Handlers, Acquire(h) PROVE StepsInv'
  BY HandlerParts, <1>10 DEF Acquire, AfterLock
<1>11. ASSUME NEW h \in Handlers, Release(h) PROVE StepsInv'
  BY HandlerParts, <1>11 DEF Release, AfterLock
<1>12. ASSUME NEW h \in Handlers, LoadPrevious(h) PROVE StepsInv'
  BY HandlerParts, <1>12 DEF LoadPrevious
<1>13. ASSUME NEW h \in Handlers, ReadConnected(h) PROVE StepsInv'
  BY HandlerParts, <1>13 DEF ReadConnected, Read
<1>14. ASSUME NEW h \in Handlers, SaveConnected(h) PROVE StepsInv'
  BY HandlerParts, <1>14 DEF SaveConnected, Save, AfterConnected
<1>15. ASSUME NEW h \in Handlers, MarkPlayerConnected(h) PROVE StepsInv'
  BY HandlerParts, <1>15 DEF MarkPlayerConnected
<1>16. ASSUME NEW h \in Handlers, EmitReconnectState(h) PROVE StepsInv'
  BY HandlerParts, <1>16 DEF EmitReconnectState
<1>17. ASSUME NEW h \in Handlers, ReadDisconnected(h) PROVE StepsInv'
  BY HandlerParts, <1>17 DEF ReadDisconnected, Read
<1>18. ASSUME NEW h \in Handlers, SaveDisconnected(h) PROVE StepsInv'
  BY HandlerParts, <1>18 DEF SaveDisconnected, Save
<1>19. ASSUME NEW h \in Handlers, MarkPlayerDisconnected(h) PROVE StepsInv'
  BY HandlerParts, <1>19 DEF MarkPlayerDisconnected
<1>20. ASSUME NEW h \in Handlers, JoinRoom(h) PROVE StepsInv'
  BY HandlerParts, <1>20 DEF JoinRoom
<1>21. ASSUME NEW h \in Handlers, LeaveRoom(h) PROVE StepsInv'
  BY HandlerParts, <1>21 DEF LeaveRoom
<1>22. ASSUME NEW h \in Handlers, ReadCleared(h) PROVE StepsInv'
  BY HandlerParts, <1>22 DEF ReadCleared, Read
<1>23. ASSUME NEW h \in Handlers, SaveCleared(h) PROVE StepsInv'
  BY HandlerParts, <1>23 DEF SaveCleared, Save
<1>24. ASSUME NEW h \in Handlers, CallFails(h) PROVE StepsInv'
  BY HandlerParts, FailuresGoOn, <1>24 DEF CallFails, Steps
<1>25. CASE UNCHANGED vars
  BY HandlerParts, <1>25 DEF vars
<1>26. QED
  BY <1>1, <1>2, <1>3, <1>4, <1>5, <1>6, <1>7, <1>8, <1>9, <1>10, <1>11,
     <1>12, <1>13, <1>14, <1>15, <1>16, <1>17, <1>18, <1>19, <1>20, <1>21, <1>22,
     <1>23, <1>24, <1>25
  DEF Next, Proceed

\* The strengthening of ConnectionsAreAnswered: only the answer ends the handler
\* of a connection.
AnswerInv == \A s \in Sockets : Used(s) => s \in answered \/ Running(<<"connect", s>>)

\* No step disturbs AnswerInv, a failing call included.
LEMMA AnswerStep ==
  ASSUME TypeOK, StepsInv, AnswerInv, [Next]_vars
  PROVE  AnswerInv'
<1> USE DEF TypeOK, StepsInv, AnswerInv, Used, Running, Goto, local, stored, Kinds
<1>1. ASSUME NEW s \in Sockets, Connect(s) PROVE AnswerInv'
  BY HandlerParts, <1>1 DEF Connect, Begin
<1>2. ASSUME NEW s \in Sockets, Disconnect(s) PROVE AnswerInv'
  BY HandlerParts, <1>2 DEF Disconnect, Begin
<1>3. ASSUME NEW s \in Sockets, NEW k \in {"JOIN_ROOM", "LEAVE_ROOM"}, Command(k, s)
       PROVE AnswerInv'
  BY HandlerParts, <1>3 DEF Command, Begin
<1>4. CASE Drop
  BY HandlerParts, <1>4 DEF Drop
<1>5. CASE StartGame
  BY HandlerParts, <1>5 DEF StartGame
<1>6. CASE OthersLock
  BY HandlerParts, <1>6 DEF OthersLock
<1>7. CASE LockExpires
  BY HandlerParts, <1>7 DEF LockExpires
<1>8. ASSUME NEW h \in Handlers, ReadRoom(h) PROVE AnswerInv'
  BY HandlerParts, <1>8 DEF ReadRoom, Read, AfterRoom
<1>9. ASSUME NEW h \in Handlers, SaveRoom(h) PROVE AnswerInv'
  BY HandlerParts, <1>9 DEF SaveRoom, Save, AfterRoom
<1>10. ASSUME NEW h \in Handlers, Acquire(h) PROVE AnswerInv'
  BY HandlerParts, <1>10 DEF Acquire, AfterLock
<1>11. ASSUME NEW h \in Handlers, Release(h) PROVE AnswerInv'
  BY HandlerParts, <1>11 DEF Release, AfterLock
<1>12. ASSUME NEW h \in Handlers, LoadPrevious(h) PROVE AnswerInv'
  BY HandlerParts, <1>12 DEF LoadPrevious
<1>13. ASSUME NEW h \in Handlers, ReadConnected(h) PROVE AnswerInv'
  BY HandlerParts, <1>13 DEF ReadConnected, Read
<1>14. ASSUME NEW h \in Handlers, SaveConnected(h) PROVE AnswerInv'
  BY HandlerParts, <1>14 DEF SaveConnected, Save, AfterConnected
<1>15. ASSUME NEW h \in Handlers, MarkPlayerConnected(h) PROVE AnswerInv'
  BY HandlerParts, <1>15 DEF MarkPlayerConnected
<1>16. ASSUME NEW h \in Handlers, EmitReconnectState(h) PROVE AnswerInv'
  BY HandlerParts, <1>16 DEF EmitReconnectState
<1>17. ASSUME NEW h \in Handlers, ReadDisconnected(h) PROVE AnswerInv'
  BY HandlerParts, <1>17 DEF ReadDisconnected, Read
<1>18. ASSUME NEW h \in Handlers, SaveDisconnected(h) PROVE AnswerInv'
  BY HandlerParts, <1>18 DEF SaveDisconnected, Save
<1>19. ASSUME NEW h \in Handlers, MarkPlayerDisconnected(h) PROVE AnswerInv'
  BY HandlerParts, <1>19 DEF MarkPlayerDisconnected
<1>20. ASSUME NEW h \in Handlers, JoinRoom(h) PROVE AnswerInv'
  BY HandlerParts, <1>20 DEF JoinRoom
<1>21. ASSUME NEW h \in Handlers, LeaveRoom(h) PROVE AnswerInv'
  BY HandlerParts, <1>21 DEF LeaveRoom
<1>22. ASSUME NEW h \in Handlers, ReadCleared(h) PROVE AnswerInv'
  BY HandlerParts, <1>22 DEF ReadCleared, Read
<1>23. ASSUME NEW h \in Handlers, SaveCleared(h) PROVE AnswerInv'
  BY HandlerParts, <1>23 DEF SaveCleared, Save
<1>24. ASSUME NEW h \in Handlers, CallFails(h) PROVE AnswerInv'
  BY HandlerParts, FailuresGoOn, <1>24 DEF CallFails, Steps
<1>25. CASE UNCHANGED vars
  BY HandlerParts, <1>25 DEF vars
<1>26. QED
  BY <1>1, <1>2, <1>3, <1>4, <1>5, <1>6, <1>7, <1>8, <1>9, <1>10, <1>11,
     <1>12, <1>13, <1>14, <1>15, <1>16, <1>17, <1>18, <1>19, <1>20, <1>21, <1>22,
     <1>23, <1>24, <1>25
  DEF Next, Proceed

\* At the start no handler has begun.
LEMMA InitialTypes == Init => TypeOK /\ StepsInv /\ AnswerInv
<1> SUFFICES ASSUME Init PROVE TypeOK /\ StepsInv /\ AnswerInv
  OBVIOUS
<1>1. TypeOK
  <2>1. NoRecord \in Records
    BY RecordTypes
  <2>2. pc \in [Handlers -> Steps] /\ previous \in [Sockets -> BOOLEAN]
    BY DEF Init, Steps
  <2>3. failures \in 0..MaxFailures
    BY BoundsAssumption DEF Init
  <2>4. copy \in [Handlers -> Records] /\ record \in Records
    BY <2>1 DEF Init
  <2>5. QED
    BY <2>2, <2>3, <2>4 DEF Init, TypeOK
<1>2. StepsInv
  BY DEF Init, StepsInv
<1>3. AnswerInv
  BY HandlerParts DEF Init, AnswerInv, Used, Kinds
<1>4. QED
  BY <1>1, <1>2, <1>3

\* The record, the handlers and what they have read keep their types.
THEOREM ConnectionsTypeCorrect == Spec => []TypeOK
<1>1. TypeOK /\ [Next]_vars => TypeOK'
  BY TypeStep
<1>2. QED
  BY <1>1, InitialTypes, PTL DEF Spec

\* Every connection gets its reconnect:state, for any number of sockets and of
\* handlers at a time, whatever fails and whoever has the lock.
THEOREM EveryConnectionIsAnswered == Spec => []ConnectionsAreAnswered
<1> DEFINE Inv == TypeOK /\ StepsInv /\ AnswerInv
<1>1. Inv /\ [Next]_vars => Inv'
  BY TypeStep, StepsStep, AnswerStep
<1>2. Inv => ConnectionsAreAnswered
  BY HandlerParts DEF AnswerInv, ConnectionsAreAnswered, Quiet, Kinds
<1> HIDE DEF Inv
<1>3. Init => Inv
  BY InitialTypes DEF Inv
<1>4. QED
  BY <1>1, <1>2, <1>3, PTL DEF Spec

-----------------------------------------------------------------------------
(* Handlers that do not overlap.                                           *)

OneAtATime == \A g, h \in Handlers : Running(g) /\ Running(h) => g = h

\* With a bound of one handler, one begins when there is none.
LEMMA FreeIsQuiet ==
  ASSUME MaxHandlers = 1, OneAtATime, Free
  PROVE  Quiet
<1> SUFFICES ASSUME NEW h \in Handlers, Running(h) PROVE FALSE
  BY DEF Quiet
<1>1. {g \in Handlers : Running(g)} = {h}
  BY DEF OneAtATime
<1>2. Cardinality({h}) = 1
  BY FS_Singleton
<1>3. QED
  BY <1>1, <1>2 DEF Free

\* No step makes two handlers run.
LEMMA OneStep ==
  ASSUME TypeOK, OneAtATime, MaxHandlers = 1, [Next]_vars
  PROVE  OneAtATime'
<1>a. Free => \A h \in Handlers : ~Running(h)
  BY FreeIsQuiet DEF Quiet
<1> USE DEF TypeOK, OneAtATime, Running, Goto, local, stored
<1>1. ASSUME NEW s \in Sockets, Connect(s) PROVE OneAtATime'
  BY HandlerParts, <1>a, <1>1 DEF Connect, Begin
<1>2. ASSUME NEW s \in Sockets, Disconnect(s) PROVE OneAtATime'
  BY HandlerParts, <1>a, <1>2 DEF Disconnect, Begin
<1>3. ASSUME NEW s \in Sockets, NEW k \in {"JOIN_ROOM", "LEAVE_ROOM"}, Command(k, s)
       PROVE OneAtATime'
  BY HandlerParts, <1>a, <1>3 DEF Command, Begin
<1>4. CASE Drop
  BY HandlerParts, <1>a, <1>4 DEF Drop
<1>5. CASE StartGame
  BY HandlerParts, <1>a, <1>5 DEF StartGame
<1>6. CASE OthersLock
  BY HandlerParts, <1>a, <1>6 DEF OthersLock
<1>7. CASE LockExpires
  BY HandlerParts, <1>a, <1>7 DEF LockExpires
<1>8. ASSUME NEW h \in Handlers, ReadRoom(h) PROVE OneAtATime'
  BY HandlerParts, <1>a, <1>8 DEF ReadRoom, Read, AfterRoom
<1>9. ASSUME NEW h \in Handlers, SaveRoom(h) PROVE OneAtATime'
  BY HandlerParts, <1>a, <1>9 DEF SaveRoom, Save, AfterRoom
<1>10. ASSUME NEW h \in Handlers, Acquire(h) PROVE OneAtATime'
  BY HandlerParts, <1>a, <1>10 DEF Acquire, AfterLock
<1>11. ASSUME NEW h \in Handlers, Release(h) PROVE OneAtATime'
  BY HandlerParts, <1>a, <1>11 DEF Release, AfterLock
<1>12. ASSUME NEW h \in Handlers, LoadPrevious(h) PROVE OneAtATime'
  BY HandlerParts, <1>a, <1>12 DEF LoadPrevious
<1>13. ASSUME NEW h \in Handlers, ReadConnected(h) PROVE OneAtATime'
  BY HandlerParts, <1>a, <1>13 DEF ReadConnected, Read
<1>14. ASSUME NEW h \in Handlers, SaveConnected(h) PROVE OneAtATime'
  BY HandlerParts, <1>a, <1>14 DEF SaveConnected, Save, AfterConnected
<1>15. ASSUME NEW h \in Handlers, MarkPlayerConnected(h) PROVE OneAtATime'
  BY HandlerParts, <1>a, <1>15 DEF MarkPlayerConnected
<1>16. ASSUME NEW h \in Handlers, EmitReconnectState(h) PROVE OneAtATime'
  BY HandlerParts, <1>a, <1>16 DEF EmitReconnectState
<1>17. ASSUME NEW h \in Handlers, ReadDisconnected(h) PROVE OneAtATime'
  BY HandlerParts, <1>a, <1>17 DEF ReadDisconnected, Read
<1>18. ASSUME NEW h \in Handlers, SaveDisconnected(h) PROVE OneAtATime'
  BY HandlerParts, <1>a, <1>18 DEF SaveDisconnected, Save
<1>19. ASSUME NEW h \in Handlers, MarkPlayerDisconnected(h) PROVE OneAtATime'
  BY HandlerParts, <1>a, <1>19 DEF MarkPlayerDisconnected
<1>20. ASSUME NEW h \in Handlers, JoinRoom(h) PROVE OneAtATime'
  BY HandlerParts, <1>a, <1>20 DEF JoinRoom
<1>21. ASSUME NEW h \in Handlers, LeaveRoom(h) PROVE OneAtATime'
  BY HandlerParts, <1>a, <1>21 DEF LeaveRoom
<1>22. ASSUME NEW h \in Handlers, ReadCleared(h) PROVE OneAtATime'
  BY HandlerParts, <1>a, <1>22 DEF ReadCleared, Read
<1>23. ASSUME NEW h \in Handlers, SaveCleared(h) PROVE OneAtATime'
  BY HandlerParts, <1>a, <1>23 DEF SaveCleared, Save
<1>24. ASSUME NEW h \in Handlers, CallFails(h) PROVE OneAtATime'
  BY HandlerParts, <1>24 DEF CallFails
<1>25. CASE UNCHANGED vars
  BY HandlerParts, <1>a, <1>25 DEF vars
<1>26. QED
  BY <1>1, <1>2, <1>3, <1>4, <1>5, <1>6, <1>7, <1>8, <1>9, <1>10, <1>11,
     <1>12, <1>13, <1>14, <1>15, <1>16, <1>17, <1>18, <1>19, <1>20, <1>21, <1>22,
     <1>23, <1>24, <1>25
  DEF Next, Proceed

\* Sockets are known to the room, the record and the handlers only after they
\* have connected.
UsedInv ==
  /\ live # None => Used(live)
  /\ \A h \in Handlers : pc[h] # "unborn" => Used(Socket(h))
  /\ \A s \in channel : Used(s)
  /\ record.socketId # None => Used(record.socketId)

\* No step disturbs UsedInv.
LEMMA UsedStep ==
  ASSUME TypeOK, UsedInv, [Next]_vars
  PROVE  UsedInv'
<1>a. \A s, i, st : Record(s, i, st).socketId = s
  BY DEF Record
<1> USE DEF TypeOK, UsedInv, Used, Goto, local, stored, Kinds
<1>1. ASSUME NEW s \in Sockets, Connect(s) PROVE UsedInv'
  BY HandlerParts, NoneAssumption, <1>a, <1>1 DEF Connect, Begin
<1>2. ASSUME NEW s \in Sockets, Disconnect(s) PROVE UsedInv'
  BY HandlerParts, NoneAssumption, <1>a, <1>2 DEF Disconnect, Begin
<1>3. ASSUME NEW s \in Sockets, NEW k \in {"JOIN_ROOM", "LEAVE_ROOM"}, Command(k, s)
       PROVE UsedInv'
  BY HandlerParts, NoneAssumption, <1>a, <1>3 DEF Command, Begin
<1>4. CASE Drop
  BY HandlerParts, NoneAssumption, <1>a, <1>4 DEF Drop
<1>5. CASE StartGame
  BY HandlerParts, NoneAssumption, <1>a, <1>5 DEF StartGame
<1>6. CASE OthersLock
  BY HandlerParts, NoneAssumption, <1>a, <1>6 DEF OthersLock
<1>7. CASE LockExpires
  BY HandlerParts, NoneAssumption, <1>a, <1>7 DEF LockExpires
<1>8. ASSUME NEW h \in Handlers, ReadRoom(h) PROVE UsedInv'
  BY HandlerParts, NoneAssumption, <1>a, <1>8 DEF ReadRoom, Read, AfterRoom
<1>9. ASSUME NEW h \in Handlers, SaveRoom(h) PROVE UsedInv'
  <2>1. \A g \in Handlers : pc'[g] = "unborn" <=> pc[g] = "unborn"
    BY <1>9 DEF SaveRoom, Save, AfterRoom
  <2>2. \A s \in Sockets : Used(s) <=> Used(s)'
    BY <2>1, HandlerParts
  <2>3. UNCHANGED <<live, channel>> /\ (UNCHANGED record \/ record'.socketId = Socket(h))
    BY <1>a, <1>9 DEF SaveRoom, Save, AfterRoom
  <2>4. Used(Socket(h)) /\ Socket(h) \in Sockets
    BY HandlerParts, <1>9 DEF SaveRoom, Save, AfterRoom
  <2>5. QED
    BY <2>1, <2>2, <2>3, <2>4, HandlerParts, NoneAssumption DEF Records, NoRecord
<1>10. ASSUME NEW h \in Handlers, Acquire(h) PROVE UsedInv'
  <2>1. \A g \in Handlers : pc'[g] = "unborn" <=> pc[g] = "unborn"
    BY <1>10 DEF Acquire, AfterLock
  <2>2. \A s \in Sockets : Used(s) <=> Used(s)'
    BY <2>1, HandlerParts
  <2>3. UNCHANGED <<live, channel>> /\ (UNCHANGED record \/ record'.socketId = Socket(h))
    BY <1>a, <1>10 DEF Acquire, AfterLock
  <2>4. Used(Socket(h)) /\ Socket(h) \in Sockets
    BY HandlerParts, <1>10 DEF Acquire, AfterLock
  <2>5. QED
    BY <2>1, <2>2, <2>3, <2>4, HandlerParts, NoneAssumption DEF Records, NoRecord
<1>11. ASSUME NEW h \in Handlers, Release(h) PROVE UsedInv'
  BY HandlerParts, NoneAssumption, <1>a, <1>11 DEF Release, AfterLock
<1>12. ASSUME NEW h \in Handlers, LoadPrevious(h) PROVE UsedInv'
  BY HandlerParts, NoneAssumption, <1>a, <1>12 DEF LoadPrevious
<1>13. ASSUME NEW h \in Handlers, ReadConnected(h) PROVE UsedInv'
  BY HandlerParts, NoneAssumption, <1>a, <1>13 DEF ReadConnected, Read
<1>14. ASSUME NEW h \in Handlers, SaveConnected(h) PROVE UsedInv'
  BY HandlerParts, NoneAssumption, <1>a, <1>14 DEF SaveConnected, Save, AfterConnected
<1>15. ASSUME NEW h \in Handlers, MarkPlayerConnected(h) PROVE UsedInv'
  BY HandlerParts, NoneAssumption, <1>a, <1>15 DEF MarkPlayerConnected
<1>16. ASSUME NEW h \in Handlers, EmitReconnectState(h) PROVE UsedInv'
  BY HandlerParts, NoneAssumption, <1>a, <1>16 DEF EmitReconnectState
<1>17. ASSUME NEW h \in Handlers, ReadDisconnected(h) PROVE UsedInv'
  BY HandlerParts, NoneAssumption, <1>a, <1>17 DEF ReadDisconnected, Read
<1>18. ASSUME NEW h \in Handlers, SaveDisconnected(h) PROVE UsedInv'
  BY HandlerParts, NoneAssumption, <1>a, <1>18 DEF SaveDisconnected, Save
<1>19. ASSUME NEW h \in Handlers, MarkPlayerDisconnected(h) PROVE UsedInv'
  BY HandlerParts, NoneAssumption, <1>a, <1>19 DEF MarkPlayerDisconnected
<1>20. ASSUME NEW h \in Handlers, JoinRoom(h) PROVE UsedInv'
  BY HandlerParts, NoneAssumption, <1>a, <1>20 DEF JoinRoom
<1>21. ASSUME NEW h \in Handlers, LeaveRoom(h) PROVE UsedInv'
  BY HandlerParts, NoneAssumption, <1>a, <1>21 DEF LeaveRoom
<1>22. ASSUME NEW h \in Handlers, ReadCleared(h) PROVE UsedInv'
  BY HandlerParts, NoneAssumption, <1>a, <1>22 DEF ReadCleared, Read
<1>23. ASSUME NEW h \in Handlers, SaveCleared(h) PROVE UsedInv'
  <2>1. \A g \in Handlers : pc'[g] = "unborn" <=> pc[g] = "unborn"
    BY <1>23 DEF SaveCleared, Save
  <2>2. \A s \in Sockets : Used(s) <=> Used(s)'
    BY <2>1, HandlerParts
  <2>3. UNCHANGED <<live, channel>> /\ (UNCHANGED record \/ record'.socketId = Socket(h))
    BY <1>a, <1>23 DEF SaveCleared, Save
  <2>4. Used(Socket(h)) /\ Socket(h) \in Sockets
    BY HandlerParts, <1>23 DEF SaveCleared, Save
  <2>5. QED
    BY <2>1, <2>2, <2>3, <2>4, HandlerParts, NoneAssumption DEF Records, NoRecord
<1>24. ASSUME NEW h \in Handlers, CallFails(h) PROVE UsedInv'
  BY HandlerParts, FailuresGoOn, <1>24 DEF CallFails, Steps
<1>25. CASE UNCHANGED vars
  BY HandlerParts, NoneAssumption, <1>a, <1>25 DEF vars
<1>26. QED
  BY <1>1, <1>2, <1>3, <1>4, <1>5, <1>6, <1>7, <1>8, <1>9, <1>10, <1>11,
     <1>12, <1>13, <1>14, <1>15, <1>16, <1>17, <1>18, <1>19, <1>20, <1>21, <1>22,
     <1>23, <1>24, <1>25
  DEF Next, Proceed

\* The record is of socket s, and connected; the room is in the record and s in the
\* room's channel; the player is not shown as disconnected.
RecordIsOf(s) == record.socketId = s /\ record.status = "CONNECTED"
RoomIsSet(s) == record.inRoom = member /\ (s \in channel <=> member)
PlayerIsShown == member => player \in {None, "CONNECTED"} \/ gaveUp

\* What the three properties say, as the live socket has it.
LiveIsRight == live # None => RecordIsOf(live) /\ RoomIsSet(live) /\ PlayerIsShown

\* What the handler of a connection has done by each step.
ConnectInv(h) ==
  LET s == Socket(h)
      early == {"loadPrevious", "readConnected", "saveConnected"}
  IN  /\ live \in {s, None}
      /\ pc[h] \in early => s \notin channel /\ record.socketId # s
      /\ pc[h] = "loadPrevious" => record.inRoom = member
      /\ pc[h] \in {"readConnected", "saveConnected"} => previous[s] = member
      /\ pc[h] = "saveConnected" => copy[h].socketId # s
      /\ pc[h] \notin early => RecordIsOf(s)
      /\ pc[h] \in {"readRoom", "saveRoom"} => member
      /\ pc[h] = "saveRoom" => s \in channel
      /\ pc[h] \in {"acquire", "markConnected", "release", "emitState"} => RoomIsSet(s)
      /\ pc[h] \in {"release", "emitState"} => PlayerIsShown

\* The handler of a disconnect goes on only when the client has no other socket.
DisconnectInv(h) ==
  /\ live # Socket(h)
  /\ record.inRoom = member
  /\ pc[h] = "saveDisconnected" => copy[h].inRoom = member
  /\ IF pc[h] = "readDisconnected" THEN LiveIsRight ELSE live = None

\* The handler of a command works for the socket of the record.
CommandInv(h) ==
  LET s == Socket(h)
  IN  /\ live \in {s, None}
      /\ RecordIsOf(s)
      /\ Kind(h) = "JOIN_ROOM" => player = None
      /\ pc[h] = "command" => RoomIsSet(s) /\ (Kind(h) = "LEAVE_ROOM" => member)
      /\ pc[h] \in {"readRoom", "saveRoom"} => member
      /\ pc[h] = "saveRoom" => s \in channel
      /\ pc[h] = "readCleared" => ~member /\ record.inRoom
      /\ pc[h] = "saveCleared" => ~member /\ s \notin channel
      /\ pc[h] = "release" => RoomIsSet(s) /\ PlayerIsShown

\* The strengthening of RecordIsTheLiveSocket, RoomIsRemembered and
\* PlayerIsAsConnected, until a call fails.
Undisturbed ==
  /\ Quiet => record.inRoom = member /\ LiveIsRight
  /\ \A h \in Handlers : Running(h) =>
       /\ Kind(h) = "connect" => ConnectInv(h)
       /\ Kind(h) = "disconnect" => DisconnectInv(h)
       /\ Kind(h) \in {"JOIN_ROOM", "LEAVE_ROOM"} => CommandInv(h)
SeqInv == failures = 0 => Undisturbed

\* No step disturbs SeqInv: while one handler is under way no other begins, and
\* only the client and the holder of the lock change anything.
LEMMA SeqStep ==
  ASSUME TypeOK, StepsInv, OneAtATime, UsedInv, SeqInv, MaxHandlers = 1, [Next]_vars
  PROVE  SeqInv'
<1>a. Free => Quiet
  BY FreeIsQuiet
<1>b. \A s, i, st : /\ Record(s, i, st).socketId = s
                    /\ Record(s, i, st).inRoom = i
                    /\ Record(s, i, st).status = st
  BY DEF Record
<1> USE DEF TypeOK, StepsInv, OneAtATime, UsedInv, SeqInv, Undisturbed, Quiet, Running,
    LiveIsRight, ConnectInv, DisconnectInv, CommandInv, RecordIsOf, RoomIsSet,
    PlayerIsShown, Foreign, Goto, local, stored, Kinds
<1>1. ASSUME NEW s \in Sockets, Connect(s) PROVE SeqInv'
  <2> DEFINE h == <<"connect", s>>
  <2> SUFFICES ASSUME failures = 0 PROVE Undisturbed'
    BY <1>1 DEF Connect
  <2>1. h \in Handlers /\ Kind(h) = "connect" /\ Socket(h) = s
    BY HandlerParts
  <2>2. Quiet /\ record.inRoom = member
    BY <1>a, <1>1 DEF Connect, Begin
  <2>3. s \notin channel /\ record.socketId # s
    BY <1>1, NoneAssumption DEF Connect, Begin, Used
  <2>4. /\ live' = s /\ UNCHANGED stored
        /\ pc'[h] = "loadPrevious"
        /\ \A g \in Handlers : g # h => pc'[g] = pc[g] /\ ~Running(g)
    BY <2>1, <2>2, <1>1 DEF Connect, Begin
  <2> HIDE DEF h
  <2>5. ConnectInv(h)'
    BY <2>1, <2>2, <2>3, <2>4
  <2> HIDE DEF ConnectInv, CommandInv, DisconnectInv
  <2>6. QED
    BY <2>1, <2>4, <2>5
<1>2. ASSUME NEW s \in Sockets, Disconnect(s) PROVE SeqInv'
  BY HandlerParts, NoneAssumption, <1>a, <1>b, <1>2 DEF Disconnect, Begin
<1>3. ASSUME NEW s \in Sockets, NEW k \in {"JOIN_ROOM", "LEAVE_ROOM"}, Command(k, s)
       PROVE SeqInv'
  BY HandlerParts, NoneAssumption, <1>a, <1>b, <1>3 DEF Command, Begin
<1>4. CASE Drop
  BY HandlerParts, NoneAssumption, <1>a, <1>b, <1>4 DEF Drop
<1>5. CASE StartGame
  BY HandlerParts, NoneAssumption, <1>a, <1>b, <1>5 DEF StartGame
<1>6. CASE OthersLock
  BY HandlerParts, NoneAssumption, <1>a, <1>b, <1>6 DEF OthersLock
<1>7. CASE LockExpires
  BY HandlerParts, NoneAssumption, <1>a, <1>b, <1>7 DEF LockExpires
<1>8. ASSUME NEW h \in Handlers, ReadRoom(h) PROVE SeqInv'
  BY HandlerParts, NoneAssumption, <1>a, <1>b, <1>8 DEF ReadRoom, Read, AfterRoom
<1>9. ASSUME NEW h \in Handlers, SaveRoom(h) PROVE SeqInv'
  <2> SUFFICES ASSUME failures = 0 PROVE Undisturbed'
    BY <1>9 DEF SaveRoom, Save, AfterRoom
  <2>1. \A g \in Handlers : g # h => pc'[g] = pc[g] /\ ~Running(g)
    BY <1>9 DEF SaveRoom, Save, AfterRoom
  <2>a. /\ record'.socketId = Socket(h) /\ record'.status = "CONNECTED"
        /\ record'.inRoom
        /\ UNCHANGED <<live, channel, member, player, gaveUp>>
    BY <1>9 DEF SaveRoom, Save, AfterRoom, Record
  <2>b. /\ Kind(h) \in {"connect", "JOIN_ROOM"} /\ live \in {Socket(h), None}
        /\ member /\ Socket(h) \in channel /\ (Kind(h) = "JOIN_ROOM" => player = None)
    BY <1>9 DEF SaveRoom, Save, AfterRoom
  <2>2. pc'[h] = AfterRoom(h)
    BY <1>9 DEF SaveRoom, Save
  <2>3. IF Kind(h) = "connect" THEN ConnectInv(h)' ELSE CommandInv(h)' /\ Kind(h) = "JOIN_ROOM"
    BY <2>a, <2>b, <2>2 DEF AfterRoom
  <2> HIDE DEF ConnectInv, CommandInv, DisconnectInv
  <2>4. QED
    BY <2>1, <2>2, <2>3 DEF AfterRoom
<1>10. ASSUME NEW h \in Handlers, Acquire(h) PROVE SeqInv'
  BY HandlerParts, NoneAssumption, <1>a, <1>b, <1>10 DEF Acquire, AfterLock
<1>11. ASSUME NEW h \in Handlers, Release(h) PROVE SeqInv'
  BY HandlerParts, NoneAssumption, <1>a, <1>b, <1>11 DEF Release, AfterLock
<1>12. ASSUME NEW h \in Handlers, LoadPrevious(h) PROVE SeqInv'
  BY HandlerParts, NoneAssumption, <1>a, <1>b, <1>12 DEF LoadPrevious
<1>13. ASSUME NEW h \in Handlers, ReadConnected(h) PROVE SeqInv'
  BY HandlerParts, NoneAssumption, <1>a, <1>b, <1>13 DEF ReadConnected, Read
<1>14. ASSUME NEW h \in Handlers, SaveConnected(h) PROVE SeqInv'
  BY HandlerParts, NoneAssumption, <1>a, <1>b, <1>14 DEF SaveConnected, Save, AfterConnected
<1>15. ASSUME NEW h \in Handlers, MarkPlayerConnected(h) PROVE SeqInv'
  BY HandlerParts, NoneAssumption, <1>a, <1>b, <1>15 DEF MarkPlayerConnected
<1>16. ASSUME NEW h \in Handlers, EmitReconnectState(h) PROVE SeqInv'
  BY HandlerParts, NoneAssumption, <1>a, <1>b, <1>16 DEF EmitReconnectState
<1>17. ASSUME NEW h \in Handlers, ReadDisconnected(h) PROVE SeqInv'
  BY HandlerParts, NoneAssumption, <1>a, <1>b, <1>17 DEF ReadDisconnected, Read
<1>18. ASSUME NEW h \in Handlers, SaveDisconnected(h) PROVE SeqInv'
  BY HandlerParts, NoneAssumption, <1>a, <1>b, <1>18 DEF SaveDisconnected, Save
<1>19. ASSUME NEW h \in Handlers, MarkPlayerDisconnected(h) PROVE SeqInv'
  BY HandlerParts, NoneAssumption, <1>a, <1>b, <1>19 DEF MarkPlayerDisconnected
<1>20. ASSUME NEW h \in Handlers, JoinRoom(h) PROVE SeqInv'
  <2> SUFFICES ASSUME failures = 0 PROVE Undisturbed'
    BY <1>20 DEF JoinRoom
  <2>1. \A g \in Handlers : g # h => pc'[g] = pc[g] /\ ~Running(g)
    BY <1>20 DEF JoinRoom
  <2>2. pc'[h] = "readRoom"
    BY <1>20 DEF JoinRoom
  <2>3. CommandInv(h)' /\ Kind(h) = "JOIN_ROOM"
    BY HandlerParts, NoneAssumption, <1>b, <2>2, <1>20 DEF JoinRoom
  <2> HIDE DEF ConnectInv, CommandInv, DisconnectInv
  <2>4. QED
    BY <2>1, <2>2, <2>3
<1>21. ASSUME NEW h \in Handlers, LeaveRoom(h) PROVE SeqInv'
  BY HandlerParts, NoneAssumption, <1>a, <1>b, <1>21 DEF LeaveRoom
<1>22. ASSUME NEW h \in Handlers, ReadCleared(h) PROVE SeqInv'
  BY HandlerParts, NoneAssumption, <1>a, <1>b, <1>22 DEF ReadCleared, Read
<1>23. ASSUME NEW h \in Handlers, SaveCleared(h) PROVE SeqInv'
  <2> SUFFICES ASSUME failures = 0 PROVE Undisturbed'
    BY <1>23 DEF SaveCleared, Save
  <2>1. \A g \in Handlers : g # h => pc'[g] = pc[g] /\ ~Running(g)
    BY <1>23 DEF SaveCleared, Save
  <2>a. /\ record'.socketId = Socket(h) /\ record'.status = "CONNECTED"
        /\ record'.inRoom = FALSE
        /\ UNCHANGED <<live, channel, member, player, gaveUp>>
    BY <1>23 DEF SaveCleared, Save, Record
  <2>b. /\ Kind(h) \in {"JOIN_ROOM", "LEAVE_ROOM"} /\ live \in {Socket(h), None}
        /\ member = FALSE /\ Socket(h) \notin channel /\ (Kind(h) = "JOIN_ROOM" => player = None)
    BY <1>23 DEF SaveCleared, Save
  <2>2. pc'[h] = "release"
    BY <1>23 DEF SaveCleared, Save
  <2>3. CommandInv(h)' /\ Kind(h) \in {"JOIN_ROOM", "LEAVE_ROOM"}
    BY <2>a, <2>b, <2>2
  <2> HIDE DEF ConnectInv, CommandInv, DisconnectInv
  <2>4. QED
    BY <2>1, <2>2, <2>3
<1>24. ASSUME NEW h \in Handlers, CallFails(h) PROVE SeqInv'
  BY <1>24 DEF TypeOK, SeqInv, CallFails
<1>25. CASE UNCHANGED vars
  BY HandlerParts, NoneAssumption, <1>a, <1>b, <1>25 DEF vars
<1> HIDE DEF SeqInv, TypeOK, StepsInv, OneAtATime, UsedInv, Quiet, Running, stored, local
<1>26. QED
  BY <1>1, <1>2, <1>3, <1>4, <1>5, <1>6, <1>7, <1>8, <1>9, <1>10, <1>11,
     <1>12, <1>13, <1>14, <1>15, <1>16, <1>17, <1>18, <1>19, <1>20, <1>21, <1>22,
     <1>23, <1>24, <1>25
  DEF Next, Proceed

\* At the start nobody is connected.
LEMMA InitialSequence == Init => OneAtATime /\ UsedInv /\ SeqInv
<1> SUFFICES ASSUME Init PROVE OneAtATime /\ UsedInv /\ SeqInv
  OBVIOUS
<1>1. OneAtATime
  BY DEF Init, OneAtATime, Running
<1>2. UsedInv
  BY DEF Init, UsedInv, NoRecord
<1>3. SeqInv
  BY DEF Init, SeqInv, Undisturbed, LiveIsRight, Running, NoRecord
<1>4. QED
  BY <1>1, <1>2, <1>3

\* Until a call fails, handlers that do not overlap keep record, room and player
\* right; the three properties say so.
LEMMA SequentialHandlers ==
  ASSUME MaxHandlers = 1
  PROVE  Spec => [](SeqInv /\ TypeOK)
<1> DEFINE Inv == TypeOK /\ StepsInv /\ OneAtATime /\ UsedInv /\ SeqInv
<1>1. Init => Inv
  BY InitialTypes, InitialSequence
<1>2. Inv /\ [Next]_vars => Inv'
  BY TypeStep, StepsStep, OneStep, UsedStep, SeqStep
<1>3. Inv => SeqInv /\ TypeOK
  OBVIOUS
<1> HIDE DEF Inv
<1>4. QED
  BY <1>1, <1>2, <1>3, PTL DEF Spec

\* For any number of sockets, one after the other: between handlers the record is
\* that of the newest socket.
THEOREM RecordFollowsTheSocket ==
  ASSUME MaxHandlers = 1
  PROVE  Spec => []RecordIsTheLiveSocket
<1>1. SeqInv => RecordIsTheLiveSocket
  BY DEF SeqInv, Undisturbed, LiveIsRight, RecordIsOf, RecordIsTheLiveSocket
<1>2. QED
  BY <1>1, SequentialHandlers, PTL

\* Between handlers the record and the channel know who is in the room.
THEOREM RoomStaysRemembered ==
  ASSUME MaxHandlers = 1
  PROVE  Spec => []RoomIsRemembered
<1>1. SeqInv => RoomIsRemembered
  BY DEF SeqInv, Undisturbed, LiveIsRight, RoomIsSet, RoomIsRemembered
<1>2. QED
  BY <1>1, SequentialHandlers, PTL

\* Between handlers a connected player is shown as one, unless a handler found the
\* lock taken.
THEOREM PlayerStaysConnected ==
  ASSUME MaxHandlers = 1
  PROVE  Spec => []PlayerIsAsConnected
<1>1. SeqInv => PlayerIsAsConnected
  BY DEF SeqInv, Undisturbed, LiveIsRight, PlayerIsShown, PlayerIsAsConnected
<1>2. QED
  BY <1>1, SequentialHandlers, PTL
=============================================================================
