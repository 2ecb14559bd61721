---------------------------- MODULE SessionStore ----------------------------
(***************************************************************************)
(* The handlers of one game as they really run: each reads a copy of the   *)
(* GameSession from Redis, decides on the copy and saves the whole record, *)
(* and a phase transition does so two or three times.  What makes them the *)
(* atomic rules of GameSession is the per-game lock alone: the repository  *)
(* compares no version.  A handler may die with its instance at any step.  *)
(* The handler that runs without the lock, as it does when the acquire     *)
(* call throws, is left out.                                               *)
(***************************************************************************)
EXTENDS Integers, FiniteSets

CONSTANTS
  Players, RequestIds, None, MaxTurn, MaxOffline,  \* as in GameSession
  Workers,      \* handlers running at the same time
  MaxCrashes    \* bound: handlers that die

ASSUME WorkersAssumption == {"free", "orphan"} \cap Workers = {}
ASSUME CrashesAssumption == MaxCrashes \in Nat

VARIABLES
  stored,      \* the record under game-session:{gameId}
  role,        \* its roles, written once by START_GAME
  winner,      \* winnerTeam of the recorded GameFinished event
  lock,
  pc,
  copy,        \* the session a handler has read
  transition,  \* fromPhase and, once resolved, winnerTeam of its transition
  before,      \* history: the session before the transition under way
  crashes

storeVars == <<stored, role, winner, before>>
vars == <<storeVars, lock, pc, copy, transition, crashes>>

\* The rules of GameSession, applied to the copy of a handler.
Copy(w) == INSTANCE GameSession WITH
  phase <- copy[w].phase, turn <- copy[w].turn, status <- copy[w].status,
  connection <- copy[w].connection, votes <- copy[w].votes,
  nightActions <- copy[w].nightActions,
  processedRequests <- copy[w].processedRequests

NewSession ==
  [phase |-> "NIGHT", turn |-> 0,
   status |-> [p \in Players |-> "ALIVE"],
   connection |-> [p \in Players |-> "CONNECTED"],
   votes |-> [p \in Players |-> None],
   nightActions |-> [k \in {"mafiaTarget", "doctorTarget", "policeTarget"} |-> None],
   processedRequests |-> {}]

NoTransition == [from |-> None, winner |-> None]

Goto(w, step) == pc' = [pc EXCEPT ![w] = step]

\* The locals of a handler are gone.
Leave(w, step) ==
  /\ Goto(w, step)
  /\ copy' = [copy EXCEPT ![w] = NewSession]
  /\ transition' = [transition EXCEPT ![w] = NoTransition]
  /\ before' = NewSession

End(w) == Leave(w, "done") /\ UNCHANGED crashes

\* What the other players see of the rules: a transition counts when its last
\* session has been saved.
MidTransition == {"advanced", "resolving", "decided", "finishing"}
Settled == IF \E w \in Workers : pc[w] \in MidTransition THEN before ELSE stored

Rules == INSTANCE GameSession WITH
  phase <- Settled.phase, turn <- Settled.turn, status <- Settled.status,
  connection <- Settled.connection, votes <- Settled.votes,
  nightActions <- Settled.nightActions,
  processedRequests <- Settled.processedRequests

Init ==
  /\ stored = NewSession
  /\ role \in Rules!RoleAssignments
  /\ winner = None
  /\ lock = "free"
  /\ pc = [w \in Workers |-> "idle"]
  /\ copy = [w \in Workers |-> NewSession]
  /\ transition = [w \in Workers |-> NoTransition]
  /\ before = NewSession
  /\ crashes = 0

-----------------------------------------------------------------------------
(* The lock around a handler.                                              *)

Acquire(w) ==
  /\ pc[w] = "idle"
  /\ lock = "free"
  /\ lock' = w
  /\ Goto(w, "started")
  /\ UNCHANGED <<storeVars, copy, transition, crashes>>

\* The answer and the effects change no session.
Release(w) ==
  /\ pc[w] = "done"
  /\ lock' = IF lock = w THEN "free" ELSE lock
  /\ Goto(w, "idle")
  /\ UNCHANGED <<storeVars, copy, transition, crashes>>

\* Resolving the session that advancePhase was given, not the stored one.
ReadSessionOnce(w) ==
  /\ \/ pc[w] = "started"  /\ Goto(w, "read")
                           /\ copy' = [copy EXCEPT ![w] = stored]
     \/ pc[w] = "advanced" /\ Goto(w, "resolving") /\ UNCHANGED copy
     \/ pc[w] = "decided"  /\ Goto(w, "finishing") /\ UNCHANGED copy
  /\ UNCHANGED <<storeVars, lock, transition, crashes>>

\* findByGameId
ReadSession(w) ==
  /\ \/ pc[w] = "started"  /\ Goto(w, "read")
     \/ pc[w] = "advanced" /\ Goto(w, "resolving")
     \/ pc[w] = "decided"  /\ Goto(w, "finishing")
  /\ copy' = [copy EXCEPT ![w] = stored]
  /\ UNCHANGED <<storeVars, lock, transition, crashes>>

\* The instance of a handler dies.  Its lock stays until the TTL ends.
Crash(w) ==
  /\ pc[w] # "idle"
  /\ crashes < MaxCrashes
  /\ crashes' = crashes + 1
  /\ lock' = IF lock = w THEN "orphan" ELSE lock
  /\ Leave(w, "idle")
  /\ UNCHANGED <<stored, role, winner>>

LockExpires ==
  /\ lock = "orphan" /\ lock' = "free"
  /\ UNCHANGED <<storeVars, pc, copy, transition, crashes>>

-----------------------------------------------------------------------------
(* One read, one save.                                                     *)

SaveAndEnd(w, session) ==
  /\ stored' = session
  /\ End(w)
  /\ UNCHANGED <<role, winner, lock>>

CastVote(w, actor, target, requestId) ==
  /\ pc[w] = "read"
  /\ requestId \notin copy[w].processedRequests
  /\ Copy(w)!CanVote(actor, target)
  /\ SaveAndEnd(w, [copy[w] EXCEPT
       !.votes[actor] = target,
       !.processedRequests = @ \cup {requestId}])

SelectNightAction(w, actor, target, key) ==
  /\ pc[w] = "read"
  /\ Copy(w)!CanSelect(actor, target, key)
  /\ SaveAndEnd(w, [copy[w] EXCEPT !.nightActions[key] = target])

MarkPlayerDisconnected(w, p) ==
  /\ pc[w] = "read"
  /\ p \notin Copy(w)!Offline
  /\ Cardinality(Copy(w)!Offline) < MaxOffline
  /\ SaveAndEnd(w, [copy[w] EXCEPT !.connection[p] = "DISCONNECTED"])

MarkPlayerConnected(w, p) ==
  /\ pc[w] = "read"
  /\ SaveAndEnd(w, [copy[w] EXCEPT !.connection[p] = "CONNECTED"])

-----------------------------------------------------------------------------
(* The phase transition: advancePhase, a resolve, finishGame.              *)

NextPhase(phase) ==
  CASE phase = "NIGHT"          -> "DAY_DISCUSSION"
    [] phase = "DAY_DISCUSSION" -> "VOTING"
    [] phase = "VOTING"         -> "RESULT"
    [] phase = "RESULT"         -> "NIGHT"

AdvancePhase(w) ==
  LET from == copy[w].phase IN
  /\ pc[w] = "read"
  /\ from # "FINISHED"
  /\ from = "NIGHT" => copy[w].turn < MaxTurn
  /\ stored' = [copy[w] EXCEPT
       !.phase = NextPhase(@),
       !.turn = IF from = "NIGHT" THEN @ + 1 ELSE @]
  /\ IF from \in {"NIGHT", "VOTING"}
     THEN /\ Goto(w, "advanced")
          /\ transition' = [transition EXCEPT ![w].from = from]
          /\ before' = stored
          /\ UNCHANGED <<copy, crashes>>
     ELSE End(w)
  /\ UNCHANGED <<role, winner, lock>>

\* The session is saved, and the winner read off what was saved.
SaveOutcome(w, session) ==
  LET team == Copy(w)!EvaluateWinner(session.status) IN
  /\ stored' = session
  /\ IF team = None THEN End(w)
     ELSE /\ Goto(w, "decided")
          /\ transition' = [transition EXCEPT ![w].winner = team]
          /\ UNCHANGED <<copy, before, crashes>>

ResolveNightOutcome(w) ==
  LET victim == Copy(w)!NightVictim IN
  /\ pc[w] = "resolving"
  /\ transition[w].from = "NIGHT"
  /\ IF victim \in Copy(w)!Alive \cup {None}
     THEN SaveOutcome(w, [copy[w] EXCEPT
            !.status = Copy(w)!AfterDeathOf(victim),
            !.nightActions = NewSession.nightActions])
     ELSE End(w) /\ UNCHANGED stored
  /\ UNCHANGED <<role, winner, lock>>

ResolveVotingOutcome(w) ==
  /\ pc[w] = "resolving"
  /\ transition[w].from = "VOTING"
  /\ SaveOutcome(w, [copy[w] EXCEPT
       !.status = Copy(w)!AfterDeathOf(Copy(w)!VotedOut),
       !.votes = NewSession.votes])
  /\ UNCHANGED <<role, winner, lock>>

FinishGame(w) ==
  /\ pc[w] = "finishing"
  /\ IF copy[w].phase = "FINISHED" THEN UNCHANGED <<stored, winner>>
     ELSE /\ stored' = [copy[w] EXCEPT !.phase = "FINISHED"]
          /\ winner' = transition[w].winner
  /\ End(w)
  /\ UNCHANGED <<role, lock>>

-----------------------------------------------------------------------------
Handle(w) ==
  \/ \E actor, target \in Players, requestId \in RequestIds :
       CastVote(w, actor, target, requestId)
  \/ \E actor, target \in Players, key \in DOMAIN NewSession.nightActions :
       SelectNightAction(w, actor, target, key)
  \/ \E p \in Players :
       MarkPlayerDisconnected(w, p) \/ MarkPlayerConnected(w, p)
  \/ AdvancePhase(w) \/ ResolveNightOutcome(w) \/ ResolveVotingOutcome(w)
  \/ FinishGame(w)

\* A handler that rejects its command, or answers a duplicate vote, saves
\* nothing.
Reject(w) ==
  /\ pc[w] = "read"
  /\ End(w)
  /\ UNCHANGED <<stored, role, winner, lock>>

Next ==
  \/ LockExpires
  \/ \E w \in Workers :
       Acquire(w) \/ ReadSession(w) \/ Reject(w) \/ Handle(w) \/ Release(w) \/ Crash(w)

Spec == Init /\ [][Next]_vars

-----------------------------------------------------------------------------
(* Properties.                                                             *)

\* A handler dies between two saves of a transition: the new phase is stored
\* without the resolution, or with it and not marked as finished.
HalfTransition ==
  LET advanced == [before EXCEPT !.phase = NextPhase(@), !.turn = stored.turn]
  IN /\ \E w \in Workers : pc[w] \in MidTransition /\ Crash(w)
     /\ \/ stored = advanced
        \/ stored = [advanced EXCEPT !.status = stored.status, !.votes = NewSession.votes]
        \/ stored = [advanced EXCEPT !.status = stored.status,
                                     !.nightActions = NewSession.nightActions]

\* Under the lock, the reads and saves of interleaved handlers amount to the
\* atomic rules of GameSession: no update is lost, and no transition is half done
\* but the one whose handler dies on the way, after which the rules go on.
\* (The first disjunct only spares TLC the others.)
ImplementsRules ==
  /\ Rules!Init
  /\ [][UNCHANGED Rules!vars \/ Rules!Next \/ HalfTransition]_(Rules!vars)
=============================================================================
