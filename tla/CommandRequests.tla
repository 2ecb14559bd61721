-------------------------- MODULE CommandRequests --------------------------
(***************************************************************************)
(* The way of a socket command through the gateway: the idempotency record *)
(* of its requestId, the game lock, the handler, the answer and the        *)
(* completed record, for the commands of one VOTING phase.  A client sends *)
(* the same request again whenever it likes, on the same socket or on a    *)
(* new one, so that several handlers run for one request.                  *)
(*                                                                         *)
(* Two kinds of command stand for the others: CAST_VOTE, which saves the   *)
(* session and then records an event, and a ghost's chat message, which    *)
(* only records.  The records outlive the game (REQUEST_ID_TTL_SECONDS).   *)
(***************************************************************************)
EXTENDS Integers, FiniteSets

CONSTANTS
  Votes,      \* the CAST_VOTE requests, pairs <<user, requestId>>
  Chats,      \* the chat requests
  Handlers,   \* handleCommand calls under way at the same time
  Faults,     \* the calls that may fail
  MaxSends,   \* bound: messages that reach the gateway
  MaxFaults   \* bound: failures

FaultKinds == {"begin", "acquire", "record", "complete", "release", "crash"}

ASSUME RequestsAssumption == Votes \cap Chats = {}
ASSUME FaultsAssumption == Faults \subseteq FaultKinds
ASSUME HandlersAssumption == Handlers \cap {"free", "orphan"} = {}
ASSUME BoundsAssumption == MaxSends \in Nat /\ MaxFaults \in Nat

Requests == Votes \cup Chats
UserOf(request) == request[1]
IdOf(request) == request[2]
Users == {UserOf(q) : q \in Requests}

VARIABLES
  record,     \* idempotency:{gameId}:{userId}:{requestId}
  lock,
  session,    \* of the stored session: the users whose ballot it holds (voted)
              \* and the keys of processedRequests (processed)
  events,     \* how many VoteCasted or chat events each request recorded
  told,       \* the final answers each request was given
  pc,
  serving,    \* the request a handler serves
  copy,       \* the session it has read
  result,     \* what its execution returned
  bare,       \* the handlers without an idempotency record
  sends,
  faults

game == <<session, events>>
handler == <<pc, serving, copy, result, bare>>
vars == <<record, lock, game, told, handler, sends, faults>>

-----------------------------------------------------------------------------
Accepted == "COMMAND_ACCEPTED"
Rejections == {"GAME_LOCK_BUSY", "VOTE_ALREADY_CAST", "ROOM_COMMAND_FAILED"}
Answers == {Accepted} \cup Rejections
Absent == "absent"
Nobody == <<>>

NewSession == [voted |-> {}, processed |-> {}]

Continue(h, step) ==
  /\ pc' = [pc EXCEPT ![h] = step]
  /\ UNCHANGED <<serving, copy, result, bare>>
Return(h, answer) ==
  /\ pc' = [pc EXCEPT ![h] = "executed"]
  /\ copy' = [copy EXCEPT ![h] = NewSession]
  /\ result' = [result EXCEPT ![h] = answer]
  /\ UNCHANGED <<serving, bare>>
Leave(h) ==
  /\ pc' = [pc EXCEPT ![h] = "idle"]
  /\ serving' = [serving EXCEPT ![h] = Nobody]
  /\ copy' = [copy EXCEPT ![h] = NewSession]
  /\ result' = [result EXCEPT ![h] = Absent]
  /\ bare' = bare \ {h}
Tell(request, answer) == told' = [told EXCEPT ![request] = @ \cup {answer}]
Fail(kind) == kind \in Faults /\ faults < MaxFaults /\ faults' = faults + 1

Init ==
  /\ record = [q \in Requests |-> Absent]
  /\ lock = "free"
  /\ session = NewSession
  /\ events = [q \in Requests |-> 0]
  /\ told = [q \in Requests |-> {}]
  /\ pc = [h \in Handlers |-> "idle"]
  /\ serving = [h \in Handlers |-> Nobody]
  /\ copy = [h \in Handlers |-> NewSession]
  /\ result = [h \in Handlers |-> Absent]
  /\ bare = {}
  /\ sends = 0 /\ faults = 0

-----------------------------------------------------------------------------
(* begin: SET NX of a PROCESSING record, or a look at the one that is      *)
(* there.                                                                  *)

Receive(h) ==
  /\ pc[h] = "idle"
  /\ sends < MaxSends
  /\ sends' = sends + 1
  /\ \E q \in Requests : serving' = [serving EXCEPT ![h] = q]
  /\ pc' = [pc EXCEPT ![h] = "received"]
  /\ UNCHANGED <<record, lock, game, told, copy, result, bare, faults>>

BeginWithoutNX(h) ==
  /\ pc[h] = "received"
  /\ record' = [record EXCEPT ![serving[h]] = "PROCESSING"]
  /\ Continue(h, "begun")
  /\ UNCHANGED <<lock, game, told, sends, faults>>

Begin(h) ==
  /\ pc[h] = "received"
  /\ IF record[serving[h]] = Absent
     THEN /\ record' = [record EXCEPT ![serving[h]] = "PROCESSING"]
          /\ Continue(h, "begun")
     ELSE Continue(h, "duplicate") /\ UNCHANGED record
  /\ UNCHANGED <<lock, game, told, sends, faults>>

\* A completed record is replayed; DUPLICATE_REQUEST_IN_PROGRESS, the answer
\* while it is PROCESSING, is not final.
AnswerDuplicate(h) ==
  /\ pc[h] = "duplicate"
  /\ IF record[serving[h]] \in Answers
     THEN Tell(serving[h], record[serving[h]])
     ELSE UNCHANGED told
  /\ Leave(h)
  /\ UNCHANGED <<record, lock, game, sends, faults>>

\* begin throws: handleCommandWithoutIdempotency, which takes no lock either.
BeginThrows(h) ==
  /\ pc[h] = "received"
  /\ Fail("begin")
  /\ pc' = [pc EXCEPT ![h] = "running"]
  /\ bare' = bare \cup {h}
  /\ UNCHANGED <<record, lock, game, told, serving, copy, result, sends>>

-----------------------------------------------------------------------------
(* The lock.                                                               *)

Acquire(h) ==
  /\ pc[h] = "begun"
  /\ lock = "free"
  /\ lock' = h
  /\ Continue(h, "running")
  /\ UNCHANGED <<record, game, told, sends, faults>>

\* The command is dropped without an answer.
LockBusyInSilence(h) ==
  /\ pc[h] = "begun"
  /\ lock # "free"
  /\ Leave(h)
  /\ UNCHANGED <<record, lock, game, told, sends, faults>>

LockBusy(h) ==
  /\ pc[h] = "begun"
  /\ lock # "free"
  /\ Return(h, "GAME_LOCK_BUSY")
  /\ UNCHANGED <<record, lock, game, told, sends, faults>>

\* The command is executed all the same.
AcquireThrows(h) ==
  /\ pc[h] = "begun"
  /\ Fail("acquire")
  /\ Continue(h, "running")
  /\ UNCHANGED <<record, lock, game, told, sends>>

LockExpires ==
  /\ lock = "orphan"
  /\ lock' = "free"
  /\ UNCHANGED <<record, game, told, handler, sends, faults>>

-----------------------------------------------------------------------------
(* The handler: castVote and its event, or the event of a chat message.    *)

ReadSession(h) ==
  /\ pc[h] = "running" /\ serving[h] \in Votes
  /\ pc' = [pc EXCEPT ![h] = "read"]
  /\ copy' = [copy EXCEPT ![h] = session]
  /\ UNCHANGED <<record, lock, game, told, serving, result, bare, sends, faults>>

\* A requestId the session has processed is a duplicate, whoever used it.
DuplicateVote(h) ==
  /\ pc[h] = "read"
  /\ IdOf(serving[h]) \in copy[h].processed
  /\ Return(h, Accepted)
  /\ UNCHANGED <<record, lock, game, told, sends, faults>>

RefuseVote(h) ==
  /\ pc[h] = "read"
  /\ IdOf(serving[h]) \notin copy[h].processed
  /\ UserOf(serving[h]) \in copy[h].voted
  /\ Return(h, "VOTE_ALREADY_CAST")
  /\ UNCHANGED <<record, lock, game, told, sends, faults>>

SaveVote(h) ==
  /\ pc[h] = "read"
  /\ IdOf(serving[h]) \notin copy[h].processed
  /\ UserOf(serving[h]) \notin copy[h].voted
  /\ session' = [voted |-> copy[h].voted \cup {UserOf(serving[h])},
                 processed |-> copy[h].processed \cup {IdOf(serving[h])}]
  /\ Continue(h, "saved")
  /\ UNCHANGED <<record, lock, events, told, sends, faults>>

ReadyToRecord(h) ==
  \/ pc[h] = "saved"
  \/ pc[h] = "running" /\ serving[h] \in Chats

\* The ballot is looked for after it was saved.
RecordEventRechecking(h) ==
  /\ ReadyToRecord(h)
  /\ events' = [events EXCEPT ![serving[h]] = @ + 1]
  /\ Return(h, IF UserOf(serving[h]) \in session.voted
               THEN "VOTE_ALREADY_CAST" ELSE Accepted)
  /\ UNCHANGED <<record, lock, session, told, sends, faults>>

RecordEvent(h) ==
  /\ ReadyToRecord(h)
  /\ events' = [events EXCEPT ![serving[h]] = @ + 1]
  /\ Return(h, Accepted)
  /\ UNCHANGED <<record, lock, session, told, sends, faults>>

\* handleCastVote turns the error into a rejection; the ballot stays saved.
RecordVoteFails(h) ==
  /\ pc[h] = "saved"
  /\ Fail("record")
  /\ Return(h, "ROOM_COMMAND_FAILED")
  /\ UNCHANGED <<record, lock, game, told, sends>>

\* Nothing catches the error of a chat handler: the lock is given back by the
\* `finally', the sender is not answered and the record is not completed.
RecordChatFails(h) ==
  /\ pc[h] = "running" /\ serving[h] \in Chats
  /\ Fail("record")
  /\ Continue(h, "releasing")
  /\ UNCHANGED <<record, lock, game, told, sends>>

-----------------------------------------------------------------------------
(* The answer, then the completed record, then the lock.                   *)

\* The answer is taken from the record before it is completed.
EmitRecord(h) ==
  /\ pc[h] = "executed"
  /\ Tell(serving[h], record[serving[h]])
  /\ IF h \in bare THEN Leave(h) ELSE Continue(h, "answered")
  /\ UNCHANGED <<record, lock, game, sends, faults>>

Emit(h) ==
  /\ pc[h] = "executed"
  /\ Tell(serving[h], result[h])
  /\ IF h \in bare THEN Leave(h) ELSE Continue(h, "answered")
  /\ UNCHANGED <<record, lock, game, sends, faults>>

CompleteAccepting(h) ==
  /\ pc[h] = "answered"
  /\ record' = [record EXCEPT ![serving[h]] = Accepted]
  /\ Continue(h, "releasing")
  /\ UNCHANGED <<lock, game, told, sends, faults>>

\* Only accepted requests are completed.
CompleteAcceptedOnly(h) ==
  /\ pc[h] = "answered"
  /\ record' = IF result[h] = Accepted
               THEN [record EXCEPT ![serving[h]] = Accepted] ELSE record
  /\ Continue(h, "releasing")
  /\ UNCHANGED <<lock, game, told, sends, faults>>

Complete(h) ==
  /\ pc[h] = "answered"
  /\ record' = [record EXCEPT ![serving[h]] = result[h]]
  /\ Continue(h, "releasing")
  /\ UNCHANGED <<lock, game, told, sends, faults>>

\* completeAccepted or completeRejected throws: a warning is logged.
CompleteFails(h) ==
  /\ pc[h] = "answered"
  /\ Fail("complete")
  /\ Continue(h, "releasing")
  /\ UNCHANGED <<record, lock, game, told, sends>>

Release(h) ==
  /\ pc[h] = "releasing"
  /\ lock' = IF lock = h THEN "free" ELSE lock
  /\ Leave(h)
  /\ UNCHANGED <<record, game, told, sends, faults>>

\* The key stays until its TTL ends.
ReleaseFails(h) ==
  /\ pc[h] = "releasing"
  /\ Fail("release")
  /\ lock' = IF lock = h THEN "orphan" ELSE lock
  /\ Leave(h)
  /\ UNCHANGED <<record, game, told, sends>>

\* The instance dies; the client sees its socket close.
Crash(h) ==
  /\ pc[h] # "idle"
  /\ Fail("crash")
  /\ lock' = IF lock = h THEN "orphan" ELSE lock
  /\ Leave(h)
  /\ UNCHANGED <<record, game, told, sends>>

-----------------------------------------------------------------------------
Progress(h) ==
  \/ Begin(h) \/ AnswerDuplicate(h) \/ Acquire(h) \/ LockBusy(h)
  \/ ReadSession(h) \/ DuplicateVote(h) \/ RefuseVote(h) \/ SaveVote(h)
  \/ RecordEvent(h) \/ Emit(h) \/ Complete(h) \/ Release(h)

Failure(h) ==
  \/ BeginThrows(h) \/ AcquireThrows(h) \/ RecordVoteFails(h)
  \/ RecordChatFails(h) \/ CompleteFails(h) \/ ReleaseFails(h) \/ Crash(h)

Next ==
  \/ LockExpires
  \/ \E h \in Handlers : Receive(h) \/ Progress(h) \/ Failure(h)

Spec == Init /\ [][Next]_vars

\* A handler that has started goes on, and Redis expires a key: no message is
\* bound to be sent.
FairSpec ==
  Spec /\ WF_vars(LockExpires) /\ \A h \in Handlers : WF_vars(Progress(h))

-----------------------------------------------------------------------------
(* Properties.                                                             *)

Sessions == [voted : SUBSET Users, processed : SUBSET {IdOf(q) : q \in Votes}]

\* Records, answers and the state of the handlers keep their types.
TypeOK ==
  /\ record \in [Requests -> Answers \cup {Absent, "PROCESSING"}]
  /\ lock \in Handlers \cup {"free", "orphan"}
  /\ session \in Sessions
  /\ events \in [Requests -> Nat]
  /\ told \in [Requests -> SUBSET Answers]
  /\ pc \in [Handlers -> {"idle", "received", "begun", "duplicate", "running",
                          "read", "saved", "executed", "answered", "releasing"}]
  /\ serving \in [Handlers -> Requests \cup {Nobody}]
  /\ copy \in [Handlers -> Sessions]
  /\ result \in [Handlers -> Answers \cup {Absent}]
  /\ bare \subseteq Handlers
  /\ sends \in 0..MaxSends /\ faults \in 0..MaxFaults

\* However often a request is sent and whatever dies or fails between its
\* steps, it is executed once: one event at most, one final answer at most.
OneExecution ==
  \A q \in Requests : events[q] <= 1 /\ Cardinality(told[q]) <= 1

\* A vote answered with command:accepted is in the session and in the event
\* log under its own request.
AcceptedVoteIsCast ==
  \A q \in Votes : Accepted \in told[q] =>
    /\ UserOf(q) \in session.voted
    /\ IdOf(q) \in session.processed
    /\ events[q] = 1

\* As long as nothing has failed, a vote that was rejected, and no other of its
\* user accepted, left no trace.
RejectedVoteIsNotCast ==
  faults = 0 => \A u \in Users :
    LET mine == {q \in Votes : UserOf(q) = u}
        answers == UNION {told[q] : q \in mine}
    IN  (\A h \in Handlers : serving[h] \notin mine) /\ Accepted \notin answers
          => u \notin session.voted

\* Where the record of a request says PROCESSING somebody is working on it.  A
\* handler that records a chat message and throws breaks that (see NoRetryIsStuck).
InProgressIsInProgress ==
  \A q \in Requests : record[q] = "PROCESSING" =>
    \E h \in Handlers : serving[h] = q /\ pc[h] \notin {"received", "duplicate"}

\* That is so until a call fails or a handler dies: no order of retries leaves a
\* PROCESSING record behind.
NoRetryIsStuck == faults = 0 => InProgressIsInProgress

\* Every vote that reaches the gateway gets a final answer, whichever call
\* throws, if no instance dies.
EveryVoteIsAnswered ==
  \A q \in Votes : (\E h \in Handlers : serving[h] = q) ~> told[q] # {}
=============================================================================
