----------------------- MODULE CommandRequestsProofs -----------------------
(***************************************************************************)
(* Idempotency and truthful answers of CommandRequests, for any requests,  *)
(* any number of handlers and sends, and any number of the failures each   *)
(* theorem names.                                                          *)
(***************************************************************************)
EXTENDS CommandRequests, FiniteSetTheorems, TLAPS

\* Where a handler has the record of its request for itself.
Executing == {"begun", "running", "read", "saved", "executed", "answered"}
Working == Executing \cup {"releasing"}

\* Where it has not yet recorded an event.
Unrecorded == {"begun", "running", "read", "saved"}

-----------------------------------------------------------------------------
(* Types.                                                                  *)

\* TypeOK, and what a handler has in its hands at a step.
TypeInv ==
  /\ TypeOK
  /\ \A h \in Handlers :
       /\ pc[h] # "idle" => serving[h] \in Requests
       /\ pc[h] \in {"read", "saved"} => serving[h] \in Votes
       /\ pc[h] \in {"executed", "answered"} => result[h] \in Answers

\* No step leaves the types.
LEMMA TypeStep ==
  ASSUME TypeInv, [Next]_vars
  PROVE  TypeInv'
<1> USE DEF TypeInv, TypeOK, game, handler
<1>0. /\ NewSession \in Sessions
      /\ Votes \subseteq Requests
      /\ Answers = {Accepted, "GAME_LOCK_BUSY", "VOTE_ALREADY_CAST", "ROOM_COMMAND_FAILED"}
  BY SMTT(30) DEF NewSession, Sessions, Users, Requests, Answers, Rejections
<1>1. CASE LockExpires
  BY <1>1 DEF LockExpires
<1>2. ASSUME NEW h \in Handlers, Receive(h) PROVE TypeInv'
  BY <1>2, BoundsAssumption DEF Receive
<1>3. ASSUME NEW h \in Handlers, Begin(h) PROVE TypeInv'
  BY <1>3 DEF Begin, Continue
<1>4. ASSUME NEW h \in Handlers, AnswerDuplicate(h) PROVE TypeInv'
  BY <1>0, <1>4 DEF AnswerDuplicate, Leave, Tell
<1>5. ASSUME NEW h \in Handlers, Acquire(h) PROVE TypeInv'
  BY <1>5 DEF Acquire, Continue
<1>6. ASSUME NEW h \in Handlers, LockBusy(h) PROVE TypeInv'
  BY <1>0, <1>6 DEF LockBusy, Return
<1>7. ASSUME NEW h \in Handlers, ReadSession(h) PROVE TypeInv'
  BY <1>7 DEF ReadSession
<1>8. ASSUME NEW h \in Handlers, DuplicateVote(h) PROVE TypeInv'
  BY <1>0, <1>8 DEF DuplicateVote, Return
<1>9. ASSUME NEW h \in Handlers, RefuseVote(h) PROVE TypeInv'
  BY <1>0, <1>9 DEF RefuseVote, Return
<1>10. ASSUME NEW h \in Handlers, SaveVote(h) PROVE TypeInv'
  BY <1>0, <1>10 DEF SaveVote, Continue, Sessions, Users
<1>11. ASSUME NEW h \in Handlers, RecordEvent(h) PROVE TypeInv'
  BY <1>0, <1>11 DEF RecordEvent, ReadyToRecord, Return
<1>12. ASSUME NEW h \in Handlers, Emit(h) PROVE TypeInv'
  BY <1>0, <1>12 DEF Emit, Tell, Leave, Continue
<1>13. ASSUME NEW h \in Handlers, Complete(h) PROVE TypeInv'
  BY <1>13 DEF Complete, Continue
<1>14. ASSUME NEW h \in Handlers, Release(h) PROVE TypeInv'
  BY <1>0, <1>14 DEF Release, Leave
<1>15. ASSUME NEW h \in Handlers, BeginThrows(h) PROVE TypeInv'
  BY <1>15, BoundsAssumption DEF BeginThrows, Fail
<1>16. ASSUME NEW h \in Handlers, AcquireThrows(h) PROVE TypeInv'
  BY <1>16, BoundsAssumption DEF AcquireThrows, Continue, Fail
<1>17. ASSUME NEW h \in Handlers, RecordVoteFails(h) PROVE TypeInv'
  BY <1>0, <1>17, BoundsAssumption DEF RecordVoteFails, Return, Fail
<1>18. ASSUME NEW h \in Handlers, RecordChatFails(h) PROVE TypeInv'
  BY <1>18, BoundsAssumption DEF RecordChatFails, Continue, Fail
<1>19. ASSUME NEW h \in Handlers, CompleteFails(h) PROVE TypeInv'
  BY <1>19, BoundsAssumption DEF CompleteFails, Continue, Fail
<1>20. ASSUME NEW h \in Handlers, ReleaseFails(h) PROVE TypeInv'
  BY <1>0, <1>20, BoundsAssumption DEF ReleaseFails, Leave, Fail
<1>21. ASSUME NEW h \in Handlers, Crash(h) PROVE TypeInv'
  BY <1>0, <1>21, BoundsAssumption DEF Crash, Leave, Fail
<1>22. CASE UNCHANGED vars
  BY <1>22 DEF vars
<1>23. QED
  BY <1>1, <1>2, <1>3, <1>4, <1>5, <1>6, <1>7, <1>8, <1>9, <1>10, <1>11, <1>12, <1>13,
     <1>14, <1>15, <1>16, <1>17, <1>18, <1>19, <1>20, <1>21, <1>22
  DEF Next, Progress, Failure

\* Records, answers and the state of the handlers keep their types.
THEOREM RequestsTypeCorrect == Spec => []TypeOK
<1>1. Init => TypeInv
  BY BoundsAssumption DEF Init, TypeInv, TypeOK, Sessions, NewSession
<1>2. TypeInv /\ [Next]_vars => TypeInv'
  BY TypeStep
<1>3. TypeInv => TypeOK
  BY DEF TypeInv
<1>4. QED
  BY <1>1, <1>2, <1>3, PTL DEF Spec

-----------------------------------------------------------------------------
(* One execution.                                                          *)

\* A set whose elements are all the same has at most one.
LEMMA AtMostOne ==
  ASSUME NEW S, \A a, b \in S : a = b
  PROVE  Cardinality(S) <= 1
<1>1. CASE S = {}
  BY <1>1, FS_EmptySet
<1>2. CASE S # {}
  <2>1. PICK a \in S : TRUE
    BY <1>2
  <2>2. S = {a}
    BY <2>1
  <2>3. QED
    BY <2>2, FS_Singleton
<1>3. QED
  BY <1>1, <1>2

\* The strengthening of OneExecution: a request has one handler that works on it,
\* and what the record, the log and the answers hold depends on how far that
\* handler has come.
OneInv ==
  /\ bare = {}
  /\ \A g, h \in Handlers :
       pc[g] \in Working /\ pc[h] \in Working /\ serving[g] = serving[h] => g = h
  /\ \A h \in Handlers :
       /\ pc[h] \in Executing => record[serving[h]] = "PROCESSING"
       /\ pc[h] = "releasing" => record[serving[h]] # Absent
       /\ pc[h] \in Unrecorded => events[serving[h]] = 0
       /\ pc[h] \in Unrecorded \cup {"executed"} => told[serving[h]] = {}
       /\ pc[h] = "answered" => told[serving[h]] = {result[h]}
  /\ \A q \in Requests :
       /\ record[q] = Absent => events[q] = 0 /\ told[q] = {}
       /\ record[q] \in Answers => told[q] \subseteq {record[q]}
       /\ events[q] <= 1
       /\ \A a, b \in told[q] : a = b

\* Answers are neither absent nor PROCESSING.
LEMMA AnswersAreFinal ==
  Absent \notin Answers /\ "PROCESSING" \notin Answers /\ Absent # "PROCESSING"
BY DEF Absent, Answers, Rejections, Accepted

\* As long as begin does not throw, no step disturbs OneInv: SET NX admits one
\* handler, and a duplicate only repeats the answer of the record.
LEMMA OneStep ==
  ASSUME TypeInv, OneInv, "begin" \notin Faults, [Next]_vars
  PROVE  OneInv'
<1> USE DEF TypeInv, TypeOK, OneInv, Executing, Working, Unrecorded, game, handler
<1>1. CASE LockExpires
  BY <1>1 DEF LockExpires
<1>2. ASSUME NEW h \in Handlers, Receive(h) PROVE OneInv'
  BY <1>2 DEF Receive
<1>3. ASSUME NEW h \in Handlers, Begin(h) PROVE OneInv'
  BY <1>3, AnswersAreFinal DEF Begin, Continue
<1>4. ASSUME NEW h \in Handlers, AnswerDuplicate(h) PROVE OneInv'
  BY <1>4, AnswersAreFinal DEF AnswerDuplicate, Leave, Tell
<1>5. ASSUME NEW h \in Handlers, Acquire(h) PROVE OneInv'
  BY <1>5, AnswersAreFinal DEF Acquire, Continue
<1>6. ASSUME NEW h \in Handlers, LockBusy(h) PROVE OneInv'
  BY <1>6, AnswersAreFinal DEF LockBusy, Return
<1>7. ASSUME NEW h \in Handlers, ReadSession(h) PROVE OneInv'
  BY <1>7, AnswersAreFinal DEF ReadSession
<1>8. ASSUME NEW h \in Handlers, DuplicateVote(h) PROVE OneInv'
  BY <1>8, AnswersAreFinal DEF DuplicateVote, Return
<1>9. ASSUME NEW h \in Handlers, RefuseVote(h) PROVE OneInv'
  BY <1>9, AnswersAreFinal DEF RefuseVote, Return
<1>10. ASSUME NEW h \in Handlers, SaveVote(h) PROVE OneInv'
  BY <1>10, AnswersAreFinal DEF SaveVote, Continue
<1>11. ASSUME NEW h \in Handlers, RecordEvent(h) PROVE OneInv'
  BY <1>11, AnswersAreFinal DEF RecordEvent, ReadyToRecord, Return
<1>12. ASSUME NEW h \in Handlers, Emit(h) PROVE OneInv'
  BY <1>12, AnswersAreFinal DEF Emit, Tell, Leave, Continue
<1>13. ASSUME NEW h \in Handlers, Complete(h) PROVE OneInv'
  BY <1>13, AnswersAreFinal DEF Complete, Continue
<1>14. ASSUME NEW h \in Handlers, Release(h) PROVE OneInv'
  BY <1>14, AnswersAreFinal DEF Release, Leave
<1>15. ASSUME NEW h \in Handlers, BeginThrows(h) PROVE OneInv'
  BY <1>15, AnswersAreFinal DEF BeginThrows, Fail
<1>16. ASSUME NEW h \in Handlers, AcquireThrows(h) PROVE OneInv'
  BY <1>16, AnswersAreFinal DEF AcquireThrows, Continue, Fail
<1>17. ASSUME NEW h \in Handlers, RecordVoteFails(h) PROVE OneInv'
  BY <1>17, AnswersAreFinal DEF RecordVoteFails, Return, Fail
<1>18. ASSUME NEW h \in Handlers, RecordChatFails(h) PROVE OneInv'
  BY <1>18, AnswersAreFinal DEF RecordChatFails, Continue, Fail
<1>19. ASSUME NEW h \in Handlers, CompleteFails(h) PROVE OneInv'
  BY <1>19, AnswersAreFinal DEF CompleteFails, Continue, Fail
<1>20. ASSUME NEW h \in Handlers, ReleaseFails(h) PROVE OneInv'
  BY <1>20, AnswersAreFinal DEF ReleaseFails, Leave, Fail
<1>21. ASSUME NEW h \in Handlers, Crash(h) PROVE OneInv'
  BY <1>21, AnswersAreFinal DEF Crash, Leave, Fail
<1>22. CASE UNCHANGED vars
  BY <1>22 DEF vars
<1>23. QED
  BY <1>1, <1>2, <1>3, <1>4, <1>5, <1>6, <1>7, <1>8, <1>9, <1>10, <1>11, <1>12, <1>13,
     <1>14, <1>15, <1>16, <1>17, <1>18, <1>19, <1>20, <1>21, <1>22
  DEF Next, Progress, Failure

\* However often a request is sent and whatever fails but begin, it is executed and
\* answered once.
THEOREM RequestsAreExecutedOnce ==
  ASSUME "begin" \notin Faults
  PROVE  Spec => []OneExecution
<1>1. Init => TypeInv /\ OneInv
  BY BoundsAssumption, AnswersAreFinal
  DEF Init, TypeInv, TypeOK, Sessions, NewSession, OneInv, Executing, Working, Unrecorded
<1>2. TypeInv /\ OneInv /\ [Next]_vars => TypeInv' /\ OneInv'
  BY TypeStep, OneStep
<1>3. OneInv => OneExecution
  BY AtMostOne DEF OneInv, OneExecution
<1>4. QED
  BY <1>1, <1>2, <1>3, PTL DEF Spec

-----------------------------------------------------------------------------
(* The lock, and truthful answers.                                         *)

\* Neither begin nor acquire has thrown, or can.
Locked == faults = 0 \/ {"begin", "acquire"} \cap Faults = {}

\* While every command waits for the lock, a handler executes with the lock, and
\* the session it has read is the stored one.
LockInv ==
  Locked => \A h \in Handlers :
    /\ pc[h] \in {"running", "read", "saved"} => lock = h
    /\ pc[h] = "read" => copy[h] = session

\* No step disturbs LockInv: who holds the lock is the only one to save.
LEMMA LockStep ==
  ASSUME TypeInv, LockInv, [Next]_vars
  PROVE  LockInv'
<1> USE DEF TypeInv, TypeOK, LockInv, Locked, game, handler
<1>1. CASE LockExpires
  BY <1>1, HandlersAssumption DEF LockExpires
<1>2. ASSUME NEW h \in Handlers, Receive(h) PROVE LockInv'
  BY <1>2 DEF Receive
<1>3. ASSUME NEW h \in Handlers, Begin(h) PROVE LockInv'
  BY <1>3 DEF Begin, Continue
<1>4. ASSUME NEW h \in Handlers, AnswerDuplicate(h) PROVE LockInv'
  BY <1>4, HandlersAssumption DEF AnswerDuplicate, Leave, Tell
<1>5. ASSUME NEW h \in Handlers, Acquire(h) PROVE LockInv'
  BY <1>5, HandlersAssumption DEF Acquire, Continue
<1>6. ASSUME NEW h \in Handlers, LockBusy(h) PROVE LockInv'
  BY <1>6 DEF LockBusy, Return
<1>7. ASSUME NEW h \in Handlers, ReadSession(h) PROVE LockInv'
  BY <1>7 DEF ReadSession
<1>8. ASSUME NEW h \in Handlers, DuplicateVote(h) PROVE LockInv'
  BY <1>8 DEF DuplicateVote, Return
<1>9. ASSUME NEW h \in Handlers, RefuseVote(h) PROVE LockInv'
  BY <1>9 DEF RefuseVote, Return
<1>10. ASSUME NEW h \in Handlers, SaveVote(h) PROVE LockInv'
  BY <1>10 DEF SaveVote, Continue
<1>11. ASSUME NEW h \in Handlers, RecordEvent(h) PROVE LockInv'
  BY <1>11 DEF RecordEvent, ReadyToRecord, Return
<1>12. ASSUME NEW h \in Handlers, Emit(h) PROVE LockInv'
  BY <1>12 DEF Emit, Tell, Leave, Continue
<1>13. ASSUME NEW h \in Handlers, Complete(h) PROVE LockInv'
  BY <1>13 DEF Complete, Continue
<1>14. ASSUME NEW h \in Handlers, Release(h) PROVE LockInv'
  BY <1>14, HandlersAssumption DEF Release, Leave
<1>15. ASSUME NEW h \in Handlers, BeginThrows(h) PROVE LockInv'
  BY <1>15, BoundsAssumption DEF BeginThrows, Fail
<1>16. ASSUME NEW h \in Handlers, AcquireThrows(h) PROVE LockInv'
  BY <1>16, BoundsAssumption DEF AcquireThrows, Continue, Fail
<1>17. ASSUME NEW h \in Handlers, RecordVoteFails(h) PROVE LockInv'
  BY <1>17, BoundsAssumption DEF RecordVoteFails, Return, Fail
<1>18. ASSUME NEW h \in Handlers, RecordChatFails(h) PROVE LockInv'
  BY <1>18, BoundsAssumption DEF RecordChatFails, Continue, Fail
<1>19. ASSUME NEW h \in Handlers, CompleteFails(h) PROVE LockInv'
  BY <1>19, BoundsAssumption DEF CompleteFails, Continue, Fail
<1>20. ASSUME NEW h \in Handlers, ReleaseFails(h) PROVE LockInv'
  BY <1>20, HandlersAssumption, BoundsAssumption DEF ReleaseFails, Leave, Fail
<1>21. ASSUME NEW h \in Handlers, Crash(h) PROVE LockInv'
  BY <1>21, HandlersAssumption, BoundsAssumption DEF Crash, Leave, Fail
<1>22. CASE UNCHANGED vars
  BY <1>22 DEF vars
<1>23. QED
  BY <1>1, <1>2, <1>3, <1>4, <1>5, <1>6, <1>7, <1>8, <1>9, <1>10, <1>11, <1>12, <1>13,
     <1>14, <1>15, <1>16, <1>17, <1>18, <1>19, <1>20, <1>21, <1>22
  DEF Next, Progress, Failure

\* A vote that is in the session and has its event.
Cast(q) == UserOf(q) \in session.voted /\ IdOf(q) \in session.processed /\ events[q] = 1

\* The strengthening of AcceptedVoteIsCast: a request id is in the session from
\* the save of its vote on, so that a handler which still has to save its vote
\* cannot take it for a duplicate.
CastInv ==
  /\ \A h \in Handlers :
       /\ pc[h] = "saved" =>
            UserOf(serving[h]) \in session.voted /\ IdOf(serving[h]) \in session.processed
       /\ pc[h] \in {"begun", "running", "read"} /\ serving[h] \in Votes =>
            IdOf(serving[h]) \notin session.processed
       /\ pc[h] \in {"executed", "answered"} /\ serving[h] \in Votes /\ result[h] = Accepted =>
            Cast(serving[h])
  /\ \A q \in Votes :
       /\ record[q] = Absent => IdOf(q) \notin session.processed
       /\ Accepted \in told[q] \/ record[q] = Accepted => Cast(q)

UniqueIds == \A q, r \in Votes : IdOf(q) = IdOf(r) => q = r

\* With ids that no two votes share and a lock that every command waits for, no
\* step disturbs CastInv.
LEMMA CastStep ==
  ASSUME TypeInv, OneInv, LockInv, CastInv, UniqueIds,
         {"begin", "acquire"} \cap Faults = {}, [Next]_vars
  PROVE  CastInv'
<1>a. /\ Votes \subseteq Requests /\ Votes \cap Chats = {}
      /\ Accepted # "PROCESSING" /\ Accepted # Absent /\ Absent # "PROCESSING"
      /\ \A x \in {"GAME_LOCK_BUSY", "VOTE_ALREADY_CAST", "ROOM_COMMAND_FAILED"} : x # Accepted
  BY RequestsAssumption DEF Requests, Accepted, Absent
<1>b. \A h \in Handlers :
        /\ pc[h] \in {"running", "read", "saved"} => lock = h
        /\ pc[h] = "read" => copy[h] = session
  BY DEF LockInv, Locked
<1> USE DEF TypeInv, TypeOK, OneInv, CastInv, Cast, UniqueIds, Executing, Working,
    Unrecorded, game, handler
<1>1. CASE LockExpires
  BY <1>a, <1>1 DEF LockExpires
<1>2. ASSUME NEW h \in Handlers, Receive(h) PROVE CastInv'
  BY <1>2 DEF Receive
<1>3. ASSUME NEW h \in Handlers, Begin(h) PROVE CastInv'
  BY <1>a, <1>b, <1>3 DEF Begin, Continue
<1>4. ASSUME NEW h \in Handlers, AnswerDuplicate(h) PROVE CastInv'
  BY <1>a, <1>b, <1>4 DEF AnswerDuplicate, Leave, Tell
<1>5. ASSUME NEW h \in Handlers, Acquire(h) PROVE CastInv'
  BY <1>a, <1>b, <1>5 DEF Acquire, Continue
<1>6. ASSUME NEW h \in Handlers, LockBusy(h) PROVE CastInv'
  BY <1>a, <1>b, <1>6 DEF LockBusy, Return
<1>7. ASSUME NEW h \in Handlers, ReadSession(h) PROVE CastInv'
  BY <1>a, <1>b, <1>7 DEF ReadSession
<1>8. ASSUME NEW h \in Handlers, DuplicateVote(h) PROVE CastInv'
  BY <1>a, <1>b, <1>8 DEF DuplicateVote, Return
<1>9. ASSUME NEW h \in Handlers, RefuseVote(h) PROVE CastInv'
  BY <1>a, <1>b, <1>9 DEF RefuseVote, Return
<1>10. ASSUME NEW h \in Handlers, SaveVote(h) PROVE CastInv'
  BY <1>a, <1>b, <1>10 DEF SaveVote, Continue
<1>11. ASSUME NEW h \in Handlers, RecordEvent(h) PROVE CastInv'
  BY <1>a, <1>b, <1>11 DEF RecordEvent, ReadyToRecord, Return
<1>12. ASSUME NEW h \in Handlers, Emit(h) PROVE CastInv'
  BY <1>a, <1>b, <1>12 DEF Emit, Tell, Leave, Continue
<1>13. ASSUME NEW h \in Handlers, Complete(h) PROVE CastInv'
  BY <1>a, <1>b, <1>13, AnswersAreFinal DEF Complete, Continue
<1>14. ASSUME NEW h \in Handlers, Release(h) PROVE CastInv'
  BY <1>a, <1>b, <1>14 DEF Release, Leave
<1>15. ASSUME NEW h \in Handlers, BeginThrows(h) PROVE CastInv'
  BY <1>a, <1>b, <1>15 DEF BeginThrows, Fail
<1>16. ASSUME NEW h \in Handlers, AcquireThrows(h) PROVE CastInv'
  BY <1>a, <1>b, <1>16 DEF AcquireThrows, Continue, Fail
<1>17. ASSUME NEW h \in Handlers, RecordVoteFails(h) PROVE CastInv'
  BY <1>a, <1>b, <1>17 DEF RecordVoteFails, Return, Fail
<1>18. ASSUME NEW h \in Handlers, RecordChatFails(h) PROVE CastInv'
  BY <1>a, <1>b, <1>18 DEF RecordChatFails, Continue, Fail
<1>19. ASSUME NEW h \in Handlers, CompleteFails(h) PROVE CastInv'
  BY <1>a, <1>b, <1>19 DEF CompleteFails, Continue, Fail
<1>20. ASSUME NEW h \in Handlers, ReleaseFails(h) PROVE CastInv'
  BY <1>a, <1>b, <1>20 DEF ReleaseFails, Leave, Fail
<1>21. ASSUME NEW h \in Handlers, Crash(h) PROVE CastInv'
  BY <1>a, <1>b, <1>21 DEF Crash, Leave, Fail
<1>22. CASE UNCHANGED vars
  BY <1>22 DEF vars
<1>23. QED
  BY <1>1, <1>2, <1>3, <1>4, <1>5, <1>6, <1>7, <1>8, <1>9, <1>10, <1>11, <1>12, <1>13,
     <1>14, <1>15, <1>16, <1>17, <1>18, <1>19, <1>20, <1>21, <1>22
  DEF Next, Progress, Failure

\* A vote answered with command:accepted is cast, whatever fails after begin and
\* acquire.
THEOREM AcceptedVotesAreCast ==
  ASSUME {"begin", "acquire"} \cap Faults = {}, UniqueIds
  PROVE  Spec => []AcceptedVoteIsCast
<1> DEFINE Inv == TypeInv /\ OneInv /\ LockInv /\ CastInv
<1>1. Init => Inv
  BY BoundsAssumption, AnswersAreFinal
  DEF Init, TypeInv, TypeOK, Sessions, NewSession, OneInv, LockInv, CastInv, Cast,
      Executing, Working, Unrecorded, Requests, Accepted, Absent
<1>2. Inv /\ [Next]_vars => Inv'
  BY TypeStep, OneStep, LockStep, CastStep
<1>3. Inv => AcceptedVoteIsCast
  BY DEF CastInv, Cast, AcceptedVoteIsCast
<1> HIDE DEF Inv
<1>4. QED
  BY <1>1, <1>2, <1>3, PTL DEF Spec

-----------------------------------------------------------------------------
(* Until the first failure.                                                *)

\* Whoever is in the session of a vote has a handler that is about to accept his
\* vote, or has been told so.
Explained(u) ==
  \E q \in Votes :
    /\ UserOf(q) = u
    /\ \/ Accepted \in told[q]
       \/ \E h \in Handlers :
            /\ serving[h] = q
            /\ pc[h] = "saved" \/ (pc[h] = "executed" /\ result[h] = Accepted)

\* The strengthening of RejectedVoteIsNotCast.
TraceInv == faults = 0 => \A u \in session.voted : Explained(u)

\* The strengthening of NoRetryIsStuck: whoever leaves has completed the record.
StuckInv ==
  faults = 0 =>
    /\ bare = {}
    /\ \A h \in Handlers : pc[h] = "releasing" => record[serving[h]] \in Answers
    /\ \A q \in Requests : record[q] = "PROCESSING" =>
         \E h \in Handlers : serving[h] = q /\ pc[h] \in Executing

\* Until a call fails, no step disturbs TraceInv: a handler that has saved a vote
\* goes on to accept it.
LEMMA TraceStep ==
  ASSUME TypeInv, LockInv, TraceInv, [Next]_vars
  PROVE  TraceInv'
<1> USE DEF TypeInv, TypeOK, TraceInv, Explained, game, handler
<1>1. CASE LockExpires
  BY <1>1 DEF LockExpires
<1>2. ASSUME NEW h \in Handlers, Receive(h) PROVE TraceInv'
  BY <1>2 DEF Receive
<1>3. ASSUME NEW h \in Handlers, Begin(h) PROVE TraceInv'
  BY <1>3 DEF Begin, Continue
<1>4. ASSUME NEW h \in Handlers, AnswerDuplicate(h) PROVE TraceInv'
  <2>1. \A q \in Requests : told[q] \subseteq told'[q]
    BY <1>4 DEF AnswerDuplicate, Tell
  <2>2. \A g \in Handlers : pc[g] \in {"saved", "executed"} =>
          pc'[g] = pc[g] /\ serving'[g] = serving[g] /\ result'[g] = result[g]
    BY <1>4 DEF AnswerDuplicate, Leave
  <2>3. UNCHANGED <<session, faults>>
    BY <1>4 DEF AnswerDuplicate
  <2>4. QED
    BY <2>1, <2>2, <2>3 DEF Requests
<1>5. ASSUME NEW h \in Handlers, Acquire(h) PROVE TraceInv'
  BY <1>5 DEF Acquire, Continue
<1>6. ASSUME NEW h \in Handlers, LockBusy(h) PROVE TraceInv'
  BY <1>6 DEF LockBusy, Return
<1>7. ASSUME NEW h \in Handlers, ReadSession(h) PROVE TraceInv'
  BY <1>7 DEF ReadSession
<1>8. ASSUME NEW h \in Handlers, DuplicateVote(h) PROVE TraceInv'
  BY <1>8 DEF DuplicateVote, Return
<1>9. ASSUME NEW h \in Handlers, RefuseVote(h) PROVE TraceInv'
  BY <1>9 DEF RefuseVote, Return
<1>10. ASSUME NEW h \in Handlers, SaveVote(h) PROVE TraceInv'
  BY <1>10 DEF SaveVote, Continue, LockInv, Locked
<1>11. ASSUME NEW h \in Handlers, RecordEvent(h) PROVE TraceInv'
  BY <1>11 DEF RecordEvent, ReadyToRecord, Return
<1>12. ASSUME NEW h \in Handlers, Emit(h) PROVE TraceInv'
  BY <1>12 DEF Emit, Tell, Leave, Continue
<1>13. ASSUME NEW h \in Handlers, Complete(h) PROVE TraceInv'
  BY <1>13 DEF Complete, Continue
<1>14. ASSUME NEW h \in Handlers, Release(h) PROVE TraceInv'
  BY <1>14 DEF Release, Leave
<1>15. ASSUME NEW h \in Handlers, BeginThrows(h) PROVE TraceInv'
  BY <1>15, BoundsAssumption DEF BeginThrows, Fail
<1>16. ASSUME NEW h \in Handlers, AcquireThrows(h) PROVE TraceInv'
  BY <1>16, BoundsAssumption DEF AcquireThrows, Continue, Fail
<1>17. ASSUME NEW h \in Handlers, RecordVoteFails(h) PROVE TraceInv'
  BY <1>17, BoundsAssumption DEF RecordVoteFails, Return, Fail
<1>18. ASSUME NEW h \in Handlers, RecordChatFails(h) PROVE TraceInv'
  BY <1>18, BoundsAssumption DEF RecordChatFails, Continue, Fail
<1>19. ASSUME NEW h \in Handlers, CompleteFails(h) PROVE TraceInv'
  BY <1>19, BoundsAssumption DEF CompleteFails, Continue, Fail
<1>20. ASSUME NEW h \in Handlers, ReleaseFails(h) PROVE TraceInv'
  BY <1>20, BoundsAssumption DEF ReleaseFails, Leave, Fail
<1>21. ASSUME NEW h \in Handlers, Crash(h) PROVE TraceInv'
  BY <1>21, BoundsAssumption DEF Crash, Leave, Fail
<1>22. CASE UNCHANGED vars
  BY <1>22 DEF vars
<1>23. QED
  BY <1>1, <1>2, <1>3, <1>4, <1>5, <1>6, <1>7, <1>8, <1>9, <1>10, <1>11, <1>12, <1>13,
     <1>14, <1>15, <1>16, <1>17, <1>18, <1>19, <1>20, <1>21, <1>22
  DEF Next, Progress, Failure

\* Until a call fails, no step disturbs StuckInv.
LEMMA StuckStep ==
  ASSUME TypeInv, StuckInv, [Next]_vars
  PROVE  StuckInv'
<1> USE DEF TypeInv, TypeOK, StuckInv, Executing, game, handler
<1>1. CASE LockExpires
  BY <1>1 DEF LockExpires
<1>2. ASSUME NEW h \in Handlers, Receive(h) PROVE StuckInv'
  BY <1>2 DEF Receive
<1>3. ASSUME NEW h \in Handlers, Begin(h) PROVE StuckInv'
  BY <1>3, AnswersAreFinal DEF Begin, Continue
<1>4. ASSUME NEW h \in Handlers, AnswerDuplicate(h) PROVE StuckInv'
  BY <1>4, AnswersAreFinal DEF AnswerDuplicate, Leave, Tell
<1>5. ASSUME NEW h \in Handlers, Acquire(h) PROVE StuckInv'
  BY <1>5, AnswersAreFinal DEF Acquire, Continue
<1>6. ASSUME NEW h \in Handlers, LockBusy(h) PROVE StuckInv'
  BY <1>6, AnswersAreFinal DEF LockBusy, Return
<1>7. ASSUME NEW h \in Handlers, ReadSession(h) PROVE StuckInv'
  BY <1>7, AnswersAreFinal DEF ReadSession
<1>8. ASSUME NEW h \in Handlers, DuplicateVote(h) PROVE StuckInv'
  BY <1>8, AnswersAreFinal DEF DuplicateVote, Return
<1>9. ASSUME NEW h \in Handlers, RefuseVote(h) PROVE StuckInv'
  BY <1>9, AnswersAreFinal DEF RefuseVote, Return
<1>10. ASSUME NEW h \in Handlers, SaveVote(h) PROVE StuckInv'
  BY <1>10, AnswersAreFinal DEF SaveVote, Continue
<1>11. ASSUME NEW h \in Handlers, RecordEvent(h) PROVE StuckInv'
  BY <1>11, AnswersAreFinal DEF RecordEvent, ReadyToRecord, Return
<1>12. ASSUME NEW h \in Handlers, Emit(h) PROVE StuckInv'
  BY <1>12, AnswersAreFinal DEF Emit, Tell, Leave, Continue
<1>13. ASSUME NEW h \in Handlers, Complete(h) PROVE StuckInv'
  BY <1>13, AnswersAreFinal DEF Complete, Continue
<1>14. ASSUME NEW h \in Handlers, Release(h) PROVE StuckInv'
  BY <1>14, AnswersAreFinal DEF Release, Leave
<1>15. ASSUME NEW h \in Handlers, BeginThrows(h) PROVE StuckInv'
  BY <1>15, BoundsAssumption DEF BeginThrows, Fail
<1>16. ASSUME NEW h \in Handlers, AcquireThrows(h) PROVE StuckInv'
  BY <1>16, BoundsAssumption DEF AcquireThrows, Continue, Fail
<1>17. ASSUME NEW h \in Handlers, RecordVoteFails(h) PROVE StuckInv'
  BY <1>17, BoundsAssumption DEF RecordVoteFails, Return, Fail
<1>18. ASSUME NEW h \in Handlers, RecordChatFails(h) PROVE StuckInv'
  BY <1>18, BoundsAssumption DEF RecordChatFails, Continue, Fail
<1>19. ASSUME NEW h \in Handlers, CompleteFails(h) PROVE StuckInv'
  BY <1>19, BoundsAssumption DEF CompleteFails, Continue, Fail
<1>20. ASSUME NEW h \in Handlers, ReleaseFails(h) PROVE StuckInv'
  BY <1>20, BoundsAssumption DEF ReleaseFails, Leave, Fail
<1>21. ASSUME NEW h \in Handlers, Crash(h) PROVE StuckInv'
  BY <1>21, BoundsAssumption DEF Crash, Leave, Fail
<1>22. CASE UNCHANGED vars
  BY <1>22 DEF vars
<1>23. QED
  BY <1>1, <1>2, <1>3, <1>4, <1>5, <1>6, <1>7, <1>8, <1>9, <1>10, <1>11, <1>12, <1>13,
     <1>14, <1>15, <1>16, <1>17, <1>18, <1>19, <1>20, <1>21, <1>22
  DEF Next, Progress, Failure

\* Until a call fails, a vote that was rejected and no other of its user
\* accepted is not in the session.
THEOREM RejectedVotesLeaveNoTrace == Spec => []RejectedVoteIsNotCast
<1> DEFINE Inv == TypeInv /\ LockInv /\ TraceInv
<1>1. Init => Inv
  BY BoundsAssumption
  DEF Init, TypeInv, TypeOK, Sessions, NewSession, LockInv, TraceInv
<1>2. Inv /\ [Next]_vars => Inv'
  BY TypeStep, LockStep, TraceStep
<1>3. Inv => RejectedVoteIsNotCast
  BY DEF TraceInv, Explained, RejectedVoteIsNotCast
<1> HIDE DEF Inv
<1>4. QED
  BY <1>1, <1>2, <1>3, PTL DEF Spec

\* Until a call fails, a PROCESSING record has a handler that works on it.
THEOREM RetriesAreNotStuck == Spec => []NoRetryIsStuck
<1> DEFINE Inv == TypeInv /\ StuckInv
<1>1. Init => Inv
  BY BoundsAssumption
  DEF Init, TypeInv, TypeOK, Sessions, NewSession, StuckInv, Absent
<1>2. Inv /\ [Next]_vars => Inv'
  BY TypeStep, StuckStep
<1>3. Inv => NoRetryIsStuck
  BY DEF StuckInv, Executing, NoRetryIsStuck, InProgressIsInProgress
<1> HIDE DEF Inv
<1>4. QED
  BY <1>1, <1>2, <1>3, PTL DEF Spec
=============================================================================
