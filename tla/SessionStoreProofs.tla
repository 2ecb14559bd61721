------------------------- MODULE SessionStoreProofs -------------------------
(***************************************************************************)
(* The handlers under the lock implement the rules of GameSession, for any *)
(* players, any number of handlers at a time and any number of crashes.    *)
(***************************************************************************)
EXTENDS SessionStore, TLAPS

-----------------------------------------------------------------------------
(* The inductive invariant.                                                *)

Sessions ==
  [phase : Rules!Phases, turn : Nat,
   status : [Players -> {"ALIVE", "DEAD"}],
   connection : [Players -> {"CONNECTED", "DISCONNECTED"}],
   votes : [Players -> Players \cup {None}],
   nightActions : [Rules!NightKeys -> Players \cup {None}],
   processedRequests : SUBSET RequestIds]

Steps == {"idle", "started", "read", "done"} \cup MidTransition

TypeInv ==
  /\ {stored, before} \subseteq Sessions
  /\ lock \in Workers \cup {"free", "orphan"}
  /\ pc \in [Workers -> Steps]
  /\ copy \in [Workers -> Sessions]
  /\ transition \in [Workers -> [from : {None, "NIGHT", "VOTING"},
                                 winner : {None, "MAFIA", "CITIZEN"}]]
  /\ crashes \in Nat

\* A handler between its acquire and its release has the lock.
LockInv == \A w \in Workers : pc[w] # "idle" => lock = w

\* A handler that is about to save has the session that is stored.
CopyInv ==
  \A w \in Workers : pc[w] \in {"read", "resolving", "finishing"} => copy[w] = stored

\* What the saves of a transition have made of the session before it.
Advanced ==
  [before EXCEPT !.phase = NextPhase(@),
                 !.turn = IF before.phase = "NIGHT" THEN @ + 1 ELSE @]

NightResolved ==
  /\ before.phase = "NIGHT"
  /\ Rules!NightVictim \in Rules!Alive \cup {None}
  /\ stored = [Advanced EXCEPT !.status = Rules!AfterDeathOf(Rules!NightVictim),
                               !.nightActions = NewSession.nightActions]

VotingResolved ==
  /\ before.phase = "VOTING"
  /\ stored = [Advanced EXCEPT !.status = Rules!AfterDeathOf(Rules!VotedOut),
                               !.votes = NewSession.votes]

TransitionInv ==
  \A w \in Workers : pc[w] \in MidTransition =>
    /\ before.phase \in {"NIGHT", "VOTING"} /\ transition[w].from = before.phase
    /\ before.phase = "NIGHT" => before.turn < MaxTurn
    /\ pc[w] \in {"advanced", "resolving"} => stored = Advanced
    /\ pc[w] \in {"decided", "finishing"} =>
         /\ NightResolved \/ VotingResolved
         /\ transition[w].winner = Rules!EvaluateWinner(stored.status)
         /\ transition[w].winner # None

\* A winner is recorded for a finished game alone.
WinnerInv == winner # None => stored.phase = "FINISHED"

Inv == TypeInv /\ LockInv /\ CopyInv /\ TransitionInv /\ WinnerInv

-----------------------------------------------------------------------------
(* The rules on a copy and the rules on the session others see.            *)

\* FiniteSets is instantiated with the rules.
LEMMA SameCardinality ==
  ASSUME NEW w \in Workers, NEW S
  PROVE  Copy(w)!Cardinality(S) = Rules!Cardinality(S) /\ Rules!Cardinality(S) = Cardinality(S)
<1>1. Copy(w)!Cardinality(S) = Rules!Cardinality(S)
  BY DEF Copy!Cardinality, Rules!Cardinality
<1>2. Rules!Cardinality(S) = Cardinality(S)
  BY DEF Cardinality, Rules!Cardinality
<1>3. QED
  BY <1>1, <1>2

\* The winner depends on who lives and on the roles.
LEMMA SameWinner ==
  ASSUME NEW w \in Workers, NEW st
  PROVE  Copy(w)!EvaluateWinner(st) = Rules!EvaluateWinner(st)
<1>1. Copy(w)!AliveIn(st) = Rules!AliveIn(st)
  BY DEF Copy!AliveIn, Rules!AliveIn
<1>2. QED
  BY <1>1, SameCardinality, Zenon DEF Copy!EvaluateWinner, Rules!EvaluateWinner

\* The outcome depends on the living, the ballots and the targets.
LEMMA SameOutcome ==
  ASSUME NEW w \in Workers,
         copy[w].status = Settled.status,
         copy[w].votes = Settled.votes,
         copy[w].nightActions = Settled.nightActions
  PROVE  /\ Copy(w)!Alive = Rules!Alive
         /\ Copy(w)!NightVictim = Rules!NightVictim
         /\ Copy(w)!VotedOut = Rules!VotedOut
         /\ \A v : Copy(w)!AfterDeathOf(v) = Rules!AfterDeathOf(v)
<1>1. Copy(w)!Alive = Rules!Alive
  BY DEF Copy!Alive, Rules!Alive, Copy!AliveIn, Rules!AliveIn
<1>2. Copy(w)!NightVictim = Rules!NightVictim
  BY DEF Copy!NightVictim, Rules!NightVictim
<1>3. \A v : Copy(w)!AfterDeathOf(v) = Rules!AfterDeathOf(v)
  BY DEF Copy!AfterDeathOf, Rules!AfterDeathOf
<1>4. \A t : Copy(w)!VotesFor(t) = Rules!VotesFor(t)
  BY DEF Copy!VotesFor, Rules!VotesFor
<1>5. Copy(w)!TopTargets = Rules!TopTargets
  <2>1. \A t : Copy(w)!Cardinality(Copy(w)!VotesFor(t)) = Rules!Cardinality(Rules!VotesFor(t))
    BY <1>4, SameCardinality
  <2>2. QED
    BY <1>4, <2>1 DEF Copy!TopTargets, Rules!TopTargets
<1>6. Copy(w)!VotedOut = Rules!VotedOut
  BY <1>5 DEF Copy!VotedOut, Rules!VotedOut
<1>7. QED
  BY <1>1, <1>2, <1>3, <1>6

\* The outcome is the same in two states that agree on the session before.
LEMMA SameLater ==
  ASSUME Settled' = Settled, role' = role
  PROVE  /\ Rules!Alive' = Rules!Alive
         /\ Rules!NightVictim' = Rules!NightVictim
         /\ Rules!VotedOut' = Rules!VotedOut
         /\ Rules!AfterDeathOf(Rules!NightVictim)' = Rules!AfterDeathOf(Rules!NightVictim)
         /\ Rules!AfterDeathOf(Rules!VotedOut)' = Rules!AfterDeathOf(Rules!VotedOut)
<1>1. Rules!Alive' = Rules!Alive
  BY DEF Rules!Alive, Rules!AliveIn
<1>2. Rules!NightVictim' = Rules!NightVictim
  BY DEF Rules!NightVictim
<1>3. Rules!VotedOut' = Rules!VotedOut
  BY DEF Rules!VotedOut, Rules!TopTargets, Rules!VotesFor
<1>4. QED
  BY <1>1, <1>2, <1>3 DEF Rules!AfterDeathOf

-----------------------------------------------------------------------------
(* The invariant is kept.                                                  *)

LEMMA AnInitialSession ==
  /\ NewSession \in Sessions
  /\ NewSession.phase = "NIGHT"
  /\ NewSession.votes \in [Players -> Players \cup {None}]
  /\ NewSession.nightActions \in [Rules!NightKeys -> Players \cup {None}]
BY DEF NewSession, Sessions, Rules!Phases, Rules!NightKeys

\* A death leaves statuses of the players.
LEMMA OutcomeTypes ==
  ASSUME NEW w \in Workers, copy[w] \in Sessions
  PROVE  /\ Copy(w)!VotedOut \in Players \cup {None}
         /\ \A v : Copy(w)!AfterDeathOf(v) \in [Players -> {"ALIVE", "DEAD"}]
         /\ \A st : Copy(w)!EvaluateWinner(st) \in {None, "MAFIA", "CITIZEN"}
<1>1. Copy(w)!VotedOut \in Players \cup {None}
  BY DEF Copy!VotedOut
<1>2. \A v : Copy(w)!AfterDeathOf(v) \in [Players -> {"ALIVE", "DEAD"}]
  BY DEF Copy!AfterDeathOf, Sessions
<1>3. \A st : Copy(w)!EvaluateWinner(st) \in {None, "MAFIA", "CITIZEN"}
  BY DEF Copy!EvaluateWinner
<1>4. QED
  BY <1>1, <1>2, <1>3

\* What handlers save are sessions.
LEMMA SavedSessions ==
  ASSUME NEW s \in Sessions
  PROVE  /\ \A actor, target \in Players, requestId \in RequestIds :
              LET saved == [s EXCEPT !.votes[actor] = target,
                                     !.processedRequests = @ \cup {requestId}]
              IN saved \in Sessions /\ saved.phase = s.phase
         /\ \A st \in [Players -> {"ALIVE", "DEAD"}] :
              LET night == [s EXCEPT !.status = st,
                                     !.nightActions = NewSession.nightActions]
                  voting == [s EXCEPT !.status = st, !.votes = NewSession.votes]
              IN /\ night \in Sessions /\ night.phase = s.phase /\ night.status = st
                 /\ voting \in Sessions /\ voting.phase = s.phase /\ voting.status = st
         /\ LET finished == [s EXCEPT !.phase = "FINISHED"]
            IN finished \in Sessions /\ finished.phase = "FINISHED"
<1>1. ASSUME NEW actor \in Players, NEW target \in Players, NEW requestId \in RequestIds
      PROVE  LET saved == [s EXCEPT !.votes[actor] = target,
                                    !.processedRequests = @ \cup {requestId}]
             IN saved \in Sessions /\ saved.phase = s.phase
  <2>1. /\ [s.votes EXCEPT ![actor] = target] \in [Players -> Players \cup {None}]
        /\ s.processedRequests \cup {requestId} \in SUBSET RequestIds
    BY <1>1 DEF Sessions
  <2>2. QED
    BY <2>1 DEF Sessions
<1>2. ASSUME NEW st \in [Players -> {"ALIVE", "DEAD"}]
      PROVE  LET night == [s EXCEPT !.status = st,
                                    !.nightActions = NewSession.nightActions]
                 voting == [s EXCEPT !.status = st, !.votes = NewSession.votes]
             IN /\ night \in Sessions /\ night.phase = s.phase /\ night.status = st
                /\ voting \in Sessions /\ voting.phase = s.phase /\ voting.status = st
  BY AnInitialSession DEF Sessions
<1>3. LET finished == [s EXCEPT !.phase = "FINISHED"]
      IN finished \in Sessions /\ finished.phase = "FINISHED"
  BY DEF Sessions, Rules!Phases
<1>4. QED
  BY <1>1, <1>2, <1>3 DEF Sessions

\* A handler ends, whatever session it leaves.
LEMMA EndKeepsInv ==
  ASSUME Inv, NEW w \in Workers, pc[w] # "idle", End(w),
         stored' \in Sessions, winner' # None => stored'.phase = "FINISHED",
         UNCHANGED lock
  PROVE  Inv'
BY AnInitialSession
DEF Inv, TypeInv, LockInv, CopyInv, TransitionInv, WinnerInv, End, Leave, Goto,
    NoTransition, Steps, MidTransition

\* A handler saves a session of the phase it has read, and ends.
LEMMA SaveKeepsInv ==
  ASSUME Inv, NEW w \in Workers, NEW s \in Sessions, pc[w] = "read",
         s.phase = stored.phase, SaveAndEnd(w, s)
  PROVE  Inv'
BY EndKeepsInv DEF SaveAndEnd, Inv, WinnerInv

LEMMA InvStep ==
  ASSUME Inv, [Next]_vars
  PROVE  Inv'
<1> USE DEF Inv, TypeInv, LockInv, CopyInv, TransitionInv, WinnerInv, storeVars, Goto,
            Steps, MidTransition
<1>a. \A w \in Workers : pc[w] = "read" => copy[w] = stored /\ copy[w] \in Sessions
  OBVIOUS
<1>b. {"free", "orphan"} \cap Workers = {}
  BY WorkersAssumption
<1>c. ASSUME Settled' = Settled, UNCHANGED <<before, stored, role>>
      PROVE  /\ NightResolved' = NightResolved /\ VotingResolved' = VotingResolved
             /\ Advanced' = Advanced
             /\ Rules!EvaluateWinner(stored.status)' = Rules!EvaluateWinner(stored.status)
  <2>1. Advanced' = Advanced
    BY <1>c DEF Advanced
  <2>2. NightResolved' = NightResolved /\ VotingResolved' = VotingResolved
    BY <1>c, <2>1, SameLater DEF NightResolved, VotingResolved, NewSession
  <2>3. Rules!EvaluateWinner(stored.status)' = Rules!EvaluateWinner(stored.status)
    BY <1>c DEF Rules!EvaluateWinner
  <2>4. QED
    BY <2>1, <2>2, <2>3
<1>d. ASSUME UNCHANGED <<stored, before>>,
             \A w \in Workers : pc'[w] \in MidTransition <=> pc[w] \in MidTransition
      PROVE  Settled' = Settled
  BY <1>d DEF Settled
<1>1. CASE LockExpires
  BY <1>1, <1>b, <1>c, <1>d DEF LockExpires
<1>2. ASSUME NEW w \in Workers, Acquire(w) PROVE Inv'
  BY <1>2, <1>b, <1>c, <1>d DEF Acquire
<1>3. ASSUME NEW w \in Workers, ReadSession(w) PROVE Inv'
  BY <1>3, <1>b, <1>c, <1>d DEF ReadSession
<1>4. ASSUME NEW w \in Workers, Reject(w) PROVE Inv'
  BY <1>4, EndKeepsInv DEF Reject
<1>5. ASSUME NEW w \in Workers, Release(w) PROVE Inv'
  BY <1>5, <1>b, <1>c, <1>d DEF Release
<1>6. ASSUME NEW w \in Workers, Crash(w) PROVE Inv'
  BY <1>6, <1>b, AnInitialSession DEF Crash, Leave, NoTransition
<1>7. CASE UNCHANGED vars
  BY <1>7, <1>c, <1>d DEF vars
<1> HIDE DEF Inv, TypeInv, LockInv, CopyInv, TransitionInv, WinnerInv, Steps, MidTransition
<1>8. ASSUME NEW w \in Workers, NEW actor \in Players, NEW target \in Players,
             NEW requestId \in RequestIds, CastVote(w, actor, target, requestId)
      PROVE  Inv'
  <2>1. [copy[w] EXCEPT !.votes[actor] = target,
                        !.processedRequests = @ \cup {requestId}] \in Sessions
    BY <1>8, <1>a, SavedSessions DEF CastVote
  <2>2. [copy[w] EXCEPT !.votes[actor] = target,
                        !.processedRequests = @ \cup {requestId}].phase = stored.phase
    <3>1. copy[w] \in Sessions /\ copy[w] = stored
      BY <1>8, <1>a DEF CastVote
    <3>2. [copy[w] EXCEPT !.votes[actor] = target,
                          !.processedRequests = @ \cup {requestId}].phase = copy[w].phase
      BY <3>1 DEF Sessions
    <3>3. QED
      BY <3>1, <3>2
  <2>3. QED
    BY <1>8, <2>1, <2>2, SaveKeepsInv DEF CastVote
<1>9. ASSUME NEW w \in Workers, NEW actor \in Players, NEW target \in Players,
             NEW key \in DOMAIN NewSession.nightActions,
             SelectNightAction(w, actor, target, key)
      PROVE  Inv'
  BY <1>9, <1>a, SaveKeepsInv DEF SelectNightAction, Sessions
<1>10. ASSUME NEW w \in Workers, NEW p \in Players, MarkPlayerDisconnected(w, p)
       PROVE  Inv'
  BY <1>10, <1>a, SaveKeepsInv DEF MarkPlayerDisconnected, Sessions
<1>11. ASSUME NEW w \in Workers, NEW p \in Players, MarkPlayerConnected(w, p)
       PROVE  Inv'
  BY <1>11, <1>a, SaveKeepsInv DEF MarkPlayerConnected, Sessions
<1>12. ASSUME NEW w \in Workers, AdvancePhase(w) PROVE Inv'
  <2>1. copy[w] = stored /\ stored \in Sessions /\ pc[w] = "read" /\ lock = w
    BY <1>12 DEF AdvancePhase, Inv, TypeInv, LockInv, CopyInv
  <2>2. stored.phase \in {"NIGHT", "DAY_DISCUSSION", "VOTING", "RESULT"}
    BY <1>12, <2>1 DEF AdvancePhase, Sessions, Rules!Phases
  <2>3. winner = None /\ winner' = None
    BY <1>12, <2>2 DEF AdvancePhase, Inv, WinnerInv
  <2>4. stored' \in Sessions
    <3>1. NextPhase(stored.phase) \in Rules!Phases
      BY <2>2 DEF NextPhase, Rules!Phases
    <3>2. stored.turn \in Nat /\ stored.turn + 1 \in Nat
      BY <2>1 DEF Sessions
    <3>3. QED
      BY <1>12, <2>1, <3>1, <3>2 DEF AdvancePhase, Sessions
  <2>5. CASE stored.phase \in {"NIGHT", "VOTING"}
    <3>1. /\ stored' = Advanced' /\ before' = stored /\ pc' = [pc EXCEPT ![w] = "advanced"]
          /\ transition' = [transition EXCEPT ![w].from = stored.phase]
          /\ stored.phase = "NIGHT" => stored.turn < MaxTurn
          /\ UNCHANGED <<copy, crashes, lock>>
      BY <1>12, <2>1, <2>5 DEF AdvancePhase, Advanced
    <3>2. QED
      BY <2>1, <2>2, <2>3, <2>4, <2>5, <3>1
      DEF Inv, TypeInv, LockInv, CopyInv, TransitionInv, WinnerInv, Steps, MidTransition
  <2>6. CASE stored.phase \notin {"NIGHT", "VOTING"}
    BY <1>12, <2>1, <2>3, <2>4, <2>6, EndKeepsInv DEF AdvancePhase
  <2>7. QED
    BY <2>5, <2>6
<1>13. ASSUME NEW w \in Workers, pc[w] = "resolving"
       PROVE  /\ copy[w] = stored /\ stored = Advanced /\ lock = w
              /\ stored \in Sessions /\ before \in Sessions
              /\ stored.phase \in {"DAY_DISCUSSION", "RESULT"} /\ winner = None
              /\ before.phase \in {"NIGHT", "VOTING"} /\ transition[w].from = before.phase
              /\ before.phase = "NIGHT" => before.turn < MaxTurn
              /\ Settled = before
              /\ stored.status = before.status /\ stored.votes = before.votes
              /\ stored.nightActions = before.nightActions
  <2>1. /\ copy[w] = stored /\ stored = Advanced /\ lock = w
        /\ stored \in Sessions /\ before \in Sessions
        /\ before.phase \in {"NIGHT", "VOTING"} /\ transition[w].from = before.phase
        /\ before.phase = "NIGHT" => before.turn < MaxTurn
        /\ Settled = before
    BY <1>13 DEF Inv, TypeInv, LockInv, CopyInv, TransitionInv, MidTransition, Settled
  <2>2. stored.phase \in {"DAY_DISCUSSION", "RESULT"}
    BY <2>1 DEF Advanced, NextPhase, Sessions
  <2>3. /\ stored.status = before.status /\ stored.votes = before.votes
        /\ stored.nightActions = before.nightActions
    BY <2>1 DEF Advanced, Sessions
  <2>4. winner = None
    BY <2>2 DEF Inv, WinnerInv
  <2>5. QED
    BY <2>1, <2>2, <2>3, <2>4
<1>14. ASSUME NEW w \in Workers, NEW s \in Sessions, pc[w] = "resolving",
              SaveOutcome(w, s), UNCHANGED <<role, winner, lock>>, s.phase = stored.phase,
              \/ /\ before.phase = "NIGHT"
                 /\ Rules!NightVictim \in Rules!Alive \cup {None}
                 /\ s = [Advanced EXCEPT !.status = Rules!AfterDeathOf(Rules!NightVictim),
                                         !.nightActions = NewSession.nightActions]
              \/ /\ before.phase = "VOTING"
                 /\ s = [Advanced EXCEPT !.status = Rules!AfterDeathOf(Rules!VotedOut),
                                         !.votes = NewSession.votes]
       PROVE  Inv'
  <2>1. CASE Copy(w)!EvaluateWinner(s.status) = None
    BY <1>13, <1>14, <2>1, EndKeepsInv DEF SaveOutcome
  <2>2. CASE Copy(w)!EvaluateWinner(s.status) # None
    <3>1. /\ stored' = s /\ pc' = [pc EXCEPT ![w] = "decided"]
          /\ transition' = [transition EXCEPT ![w].winner = Rules!EvaluateWinner(s.status)]
          /\ UNCHANGED <<copy, before, crashes, role, winner, lock>>
      BY <1>14, <2>2, SameWinner DEF SaveOutcome
    <3>2. Settled' = Settled
      BY <1>13, <1>14, <3>1 DEF Settled, Inv, TypeInv, LockInv, MidTransition, Steps
    <3>3. Advanced' = Advanced
      BY <3>1 DEF Advanced
    <3>4. (NightResolved \/ VotingResolved)'
      BY <1>14, <3>1, <3>2, <3>3, SameLater DEF NightResolved, VotingResolved, NewSession
    <3>5. Rules!EvaluateWinner(stored.status)' = Rules!EvaluateWinner(s.status)
      BY <3>1 DEF Rules!EvaluateWinner
    <3>6. Rules!EvaluateWinner(s.status) \in {"MAFIA", "CITIZEN"}
      BY <1>13, <1>14, <2>2, SameWinner, OutcomeTypes
    <3>7. TypeInv'
      BY <1>14, <3>1, <3>6 DEF Inv, TypeInv, Steps, MidTransition
    <3>8. TransitionInv'
      <4>1. /\ transition'[w].from = before'.phase /\ before'.phase \in {"NIGHT", "VOTING"}
            /\ before'.phase = "NIGHT" => before'.turn < MaxTurn
            /\ transition'[w].winner = Rules!EvaluateWinner(stored.status)'
            /\ transition'[w].winner # None
        <5>1. transition[w] \in [from : {None, "NIGHT", "VOTING"},
                                 winner : {None, "MAFIA", "CITIZEN"}]
          BY DEF Inv, TypeInv
        <5>2. transition'[w] = [transition[w] EXCEPT !.winner = Rules!EvaluateWinner(s.status)]
          BY <3>1 DEF Inv, TypeInv
        <5>3. /\ transition'[w].from = transition[w].from
              /\ transition'[w].winner = Rules!EvaluateWinner(s.status)
          BY <5>1, <5>2
        <5>4. Rules!EvaluateWinner(s.status) # None
          BY <1>14, <2>2, SameWinner
        <5>5. QED
          BY <1>13, <1>14, <3>1, <3>5, <5>3, <5>4
      <4>2. \A v \in Workers \ {w} : pc'[v] = "idle"
        BY <1>13, <1>14, <3>1 DEF Inv, TypeInv, LockInv
      <4>3. pc'[w] = "decided"
        BY <3>1 DEF Inv, TypeInv
      <4>4. QED
        BY <3>4, <4>1, <4>2, <4>3 DEF TransitionInv, MidTransition
    <3>9. QED
      BY <1>13, <1>14, <3>1, <3>7, <3>8
      DEF Inv, TypeInv, LockInv, CopyInv, WinnerInv
  <2>3. QED
    BY <2>1, <2>2
<1>15. ASSUME NEW w \in Workers, ResolveNightOutcome(w) PROVE Inv'
  <2>1. pc[w] = "resolving" /\ before.phase = "NIGHT" /\ UNCHANGED <<role, winner, lock>>
    BY <1>13, <1>15 DEF ResolveNightOutcome
  <2>2. CASE Copy(w)!NightVictim \in Copy(w)!Alive \cup {None}
    <3> DEFINE s == [copy[w] EXCEPT !.status = Copy(w)!AfterDeathOf(Copy(w)!NightVictim),
                                    !.nightActions = NewSession.nightActions]
    <3>1. SaveOutcome(w, s)
      BY <1>15, <2>2 DEF ResolveNightOutcome
    <3>2. s \in Sessions
      <4>1. Copy(w)!AfterDeathOf(Copy(w)!NightVictim) \in [Players -> {"ALIVE", "DEAD"}]
        BY <1>13, <2>1, OutcomeTypes
      <4>2. copy[w] \in Sessions
        BY <1>13, <2>1
      <4>3. QED
        BY <4>1, <4>2, SavedSessions
    <3>a. s.phase = stored.phase
      BY <1>13, <2>1 DEF Sessions
    <3>3. /\ Copy(w)!Alive = Rules!Alive /\ Copy(w)!NightVictim = Rules!NightVictim
          /\ \A v : Copy(w)!AfterDeathOf(v) = Rules!AfterDeathOf(v)
      BY <1>13, <2>1, SameOutcome
    <3>4. QED
      BY <1>13, <1>14, <2>1, <2>2, <3>1, <3>2, <3>3, <3>a
  <2>3. CASE Copy(w)!NightVictim \notin Copy(w)!Alive \cup {None}
    BY <1>13, <1>15, <2>1, <2>3, EndKeepsInv DEF ResolveNightOutcome
  <2>4. QED
    BY <2>2, <2>3
<1>16. ASSUME NEW w \in Workers, ResolveVotingOutcome(w) PROVE Inv'
  <2>1. pc[w] = "resolving" /\ before.phase = "VOTING" /\ UNCHANGED <<role, winner, lock>>
    BY <1>13, <1>16 DEF ResolveVotingOutcome
  <2> DEFINE s == [copy[w] EXCEPT !.status = Copy(w)!AfterDeathOf(Copy(w)!VotedOut),
                                  !.votes = NewSession.votes]
  <2>2. SaveOutcome(w, s)
    BY <1>16 DEF ResolveVotingOutcome
  <2>3. s \in Sessions
    <3>1. Copy(w)!AfterDeathOf(Copy(w)!VotedOut) \in [Players -> {"ALIVE", "DEAD"}]
      BY <1>13, <2>1, OutcomeTypes
    <3>2. copy[w] \in Sessions
      BY <1>13, <2>1
    <3>3. QED
      BY <3>1, <3>2, SavedSessions
  <2>a. s.phase = stored.phase
    BY <1>13, <2>1 DEF Sessions
  <2>4. /\ Copy(w)!VotedOut = Rules!VotedOut
        /\ \A v : Copy(w)!AfterDeathOf(v) = Rules!AfterDeathOf(v)
    BY <1>13, <2>1, SameOutcome
  <2>5. QED
    BY <1>13, <1>14, <2>1, <2>2, <2>3, <2>4, <2>a
<1>18. ASSUME NEW w \in Workers, FinishGame(w) PROVE Inv'
  <2>1. pc[w] = "finishing" /\ copy[w] = stored /\ stored \in Sessions
    BY <1>18 DEF FinishGame, Inv, TypeInv, CopyInv
  <2>2. stored' \in Sessions
    BY <1>18, <2>1, SavedSessions DEF FinishGame
  <2>3. winner' # None => stored'.phase = "FINISHED"
    BY <1>18, <2>1 DEF FinishGame, Sessions
  <2>4. QED
    BY <1>18, <2>1, <2>2, <2>3, EndKeepsInv DEF FinishGame
<1>19. QED
  BY <1>1, <1>2, <1>3, <1>4, <1>5, <1>6, <1>7, <1>8, <1>9, <1>10, <1>11, <1>12,
     <1>15, <1>16, <1>18 DEF Next, Handle

-----------------------------------------------------------------------------
(* Every step is a step of the rules, or none, or leaves half a transition. *)

RulesStep == UNCHANGED Rules!vars \/ Rules!Next \/ HalfTransition

\* What others see is the session of the handler that has just read it, before
\* and after it saves.
LEMMA SettledWhenRead ==
  ASSUME Inv, NEW w \in Workers, pc[w] = "read"
  PROVE  /\ copy[w] = stored /\ stored \in Sessions /\ Settled = stored
         /\ End(w) => Settled' = stored'
<1>1. \A v \in Workers : pc[v] \notin MidTransition
  BY DEF Inv, LockInv, MidTransition
<1>2. End(w) => \A v \in Workers : pc'[v] \notin MidTransition
  BY <1>1 DEF End, Leave, Goto, Inv, TypeInv, MidTransition
<1>3. copy[w] = stored /\ stored \in Sessions
  BY DEF Inv, CopyInv, TypeInv
<1>4. QED
  BY <1>1, <1>2, <1>3 DEF Settled

\* In the middle of a transition others see the session before it, and when the
\* handler is done the one it has saved.
LEMMA SettledMidTransition ==
  ASSUME Inv, NEW w \in Workers, pc[w] \in MidTransition
  PROVE  /\ stored \in Sessions /\ before \in Sessions /\ Settled = before
         /\ winner = None /\ stored.phase \in {"DAY_DISCUSSION", "RESULT"}
         /\ End(w) => Settled' = stored'
<1>1. Settled = before /\ {stored, before} \subseteq Sessions
  BY DEF Settled, Inv, TypeInv
<1>2. \A v \in Workers \ {w} : pc[v] \notin MidTransition
  BY DEF Inv, LockInv, MidTransition
<1>3. End(w) => Settled' = stored'
  BY <1>2 DEF End, Leave, Goto, Inv, TypeInv, MidTransition, Settled
<1>4. /\ before.phase \in {"NIGHT", "VOTING"}
      /\ stored = Advanced \/ NightResolved \/ VotingResolved
  BY DEF Inv, TransitionInv, MidTransition
<1>5. stored.phase = NextPhase(before.phase)
  BY <1>1, <1>4 DEF Advanced, NightResolved, VotingResolved, Sessions
<1>6. stored.phase \in {"DAY_DISCUSSION", "RESULT"}
  BY <1>4, <1>5 DEF NextPhase
<1>7. QED
  BY <1>1, <1>3, <1>6 DEF Inv, WinnerInv

\* Whoever dies in a transition leaves half of it.
LEMMA CrashStep ==
  ASSUME Inv, NEW w \in Workers, Crash(w)
  PROVE  RulesStep
<1>1. CASE pc[w] \in MidTransition
  <2>1. before \in Sessions /\ before.phase \in {"NIGHT", "VOTING"}
    BY <1>1, SettledMidTransition DEF Inv, TransitionInv
  <2>2. stored.turn = IF before.phase = "NIGHT" THEN before.turn + 1 ELSE before.turn
    BY <1>1, <2>1 DEF Inv, TransitionInv, MidTransition, Advanced, NightResolved,
                      VotingResolved, Sessions
  <2>3. Advanced = [before EXCEPT !.phase = NextPhase(@), !.turn = stored.turn]
    BY <2>1, <2>2 DEF Advanced, Sessions
  <2>4. CASE stored = Advanced
    BY <1>1, <2>3, <2>4 DEF HalfTransition, RulesStep
  <2>5. CASE NightResolved
    <3>1. stored.status = Rules!AfterDeathOf(Rules!NightVictim)
      BY <2>1, <2>5 DEF NightResolved, Advanced, Sessions
    <3>2. QED
      BY <1>1, <2>3, <2>5, <3>1 DEF NightResolved, HalfTransition, RulesStep
  <2>6. CASE VotingResolved
    <3>1. stored.status = Rules!AfterDeathOf(Rules!VotedOut)
      BY <2>1, <2>6 DEF VotingResolved, Advanced, Sessions
    <3>2. QED
      BY <1>1, <2>3, <2>6, <3>1 DEF VotingResolved, HalfTransition, RulesStep
  <2>7. QED
    BY <1>1, <2>4, <2>5, <2>6 DEF Inv, TransitionInv, MidTransition
<1>2. CASE pc[w] \notin MidTransition
  <2>1. \A v \in Workers : pc[v] \notin MidTransition /\ pc'[v] \notin MidTransition
    BY <1>2 DEF Crash, Leave, Goto, Inv, LockInv, TypeInv, MidTransition
  <2>2. Settled' = Settled /\ UNCHANGED <<role, winner>>
    BY <2>1 DEF Crash, Settled
  <2>3. QED
    BY <2>2 DEF RulesStep, Rules!vars
<1>3. QED
  BY <1>1, <1>2

\* Taking and releasing the lock, reading and rejecting show nobody anything.
LEMMA QuietStep ==
  ASSUME Inv, NEW w \in Workers,
         Acquire(w) \/ ReadSession(w) \/ Reject(w) \/ Release(w)
  PROVE  UNCHANGED Rules!vars
<1>1. UNCHANGED <<role, winner>>
  BY DEF Acquire, ReadSession, Reject, Release, storeVars
<1>2. Settled' = Settled
  <2>1. CASE Reject(w)
    BY <2>1, SettledWhenRead DEF Reject
  <2>2. CASE Acquire(w) \/ ReadSession(w) \/ Release(w)
    <3>1. \A v \in Workers : pc'[v] \in MidTransition <=> pc[v] \in MidTransition
      BY <2>2 DEF Acquire, ReadSession, Release, Goto, Inv, TypeInv, MidTransition
    <3>2. UNCHANGED <<stored, before>>
      BY <2>2 DEF Acquire, ReadSession, Release, storeVars
    <3>3. QED
      BY <3>1, <3>2 DEF Settled
  <2>3. QED
    BY <2>1, <2>2
<1>3. QED
  BY <1>1, <1>2 DEF Rules!vars

\* A vote, a target or a mark is one step of the rules.
LEMMA CommandStep ==
  ASSUME Inv, NEW w \in Workers
  PROVE  /\ \A actor, target \in Players, requestId \in RequestIds :
              CastVote(w, actor, target, requestId)
                => Rules!CastVote(actor, target, requestId)
         /\ \A actor, target \in Players, key \in Rules!NightKeys :
              SelectNightAction(w, actor, target, key)
                => Rules!SelectNightAction(actor, target, key)
         /\ \A p \in Players :
              /\ MarkPlayerDisconnected(w, p) => Rules!MarkPlayerDisconnected(p)
              /\ MarkPlayerConnected(w, p) => Rules!MarkPlayerConnected(p)
<1>1. ASSUME NEW s, pc[w] = "read", SaveAndEnd(w, s)
      PROVE  /\ copy[w] = stored /\ stored \in Sessions /\ Settled = stored
             /\ Settled' = s /\ UNCHANGED <<role, winner>>
  BY <1>1, SettledWhenRead DEF SaveAndEnd
<1>2. ASSUME NEW actor \in Players, NEW target \in Players, NEW requestId \in RequestIds,
             CastVote(w, actor, target, requestId)
      PROVE  Rules!CastVote(actor, target, requestId)
  <2>1. /\ copy[w] = stored /\ stored \in Sessions /\ Settled = stored
        /\ Settled' = [stored EXCEPT !.votes[actor] = target,
                                     !.processedRequests = @ \cup {requestId}]
        /\ UNCHANGED <<role, winner>>
    BY <1>1, <1>2 DEF CastVote
  <2>2. Rules!CanVote(actor, target)
    BY <1>2, <2>1 DEF CastVote, Copy!CanVote, Rules!CanVote, Copy!Alive, Rules!Alive,
                      Copy!AliveIn, Rules!AliveIn
  <2>3. requestId \notin Settled.processedRequests
    BY <1>2, <2>1 DEF CastVote
  <2>4. QED
    BY <2>1, <2>2, <2>3 DEF Rules!CastVote, Sessions
<1>3. ASSUME NEW actor \in Players, NEW target \in Players, NEW key \in Rules!NightKeys,
             SelectNightAction(w, actor, target, key)
      PROVE  Rules!SelectNightAction(actor, target, key)
  BY <1>1, <1>3
  DEF SelectNightAction, Rules!SelectNightAction, Copy!CanSelect, Rules!CanSelect,
      Copy!RoleOf, Rules!RoleOf, Copy!Alive, Rules!Alive, Copy!AliveIn, Rules!AliveIn, Sessions
<1>4. ASSUME NEW p \in Players, MarkPlayerDisconnected(w, p)
      PROVE  Rules!MarkPlayerDisconnected(p)
  <2>1. Copy(w)!Offline = Rules!Offline
    BY <1>1, <1>4 DEF MarkPlayerDisconnected, Copy!Offline, Rules!Offline
  <2>2. Rules!Cardinality(Rules!Offline) < MaxOffline
    BY <1>4, <2>1, SameCardinality DEF MarkPlayerDisconnected
  <2>3. QED
    BY <1>1, <1>4, <2>1, <2>2 DEF MarkPlayerDisconnected, Rules!MarkPlayerDisconnected, Sessions
<1>5. ASSUME NEW p \in Players, MarkPlayerConnected(w, p)
      PROVE  Rules!MarkPlayerConnected(p)
  BY <1>1, <1>5 DEF MarkPlayerConnected, Rules!MarkPlayerConnected, Sessions
<1>6. QED
  BY <1>2, <1>3, <1>4, <1>5

\* The save of a new phase is seen when nothing is to be resolved.
LEMMA AdvanceStep ==
  ASSUME Inv, NEW w \in Workers, AdvancePhase(w)
  PROVE  UNCHANGED Rules!vars \/ Rules!AdvancePhase
<1>1. /\ copy[w] = stored /\ stored \in Sessions /\ Settled = stored
      /\ UNCHANGED <<role, winner>> /\ stored.phase # "FINISHED"
  BY SettledWhenRead DEF AdvancePhase
<1>2. CASE stored.phase \in {"NIGHT", "VOTING"}
  <2>1. pc'[w] \in MidTransition /\ before' = stored
    BY <1>1, <1>2 DEF AdvancePhase, Goto, Inv, TypeInv, MidTransition
  <2>2. Settled' = Settled
    BY <1>1, <2>1 DEF Settled
  <2>3. QED
    BY <1>1, <2>2 DEF Rules!vars
<1>3. CASE stored.phase \in {"DAY_DISCUSSION", "RESULT"}
  <2>1. Settled' = [stored EXCEPT !.phase = NextPhase(@)]
    BY <1>1, <1>3, SettledWhenRead DEF AdvancePhase, Sessions
  <2>2. QED
    BY <1>1, <1>3, <2>1
    DEF NextPhase, Rules!AdvancePhase, Rules!DayToVoting, Rules!ResultToNight, Sessions
<1>4. QED
  BY <1>1, <1>2, <1>3 DEF Sessions, Rules!Phases

\* When the last save of a transition shows, it is one step of the rules.
LEMMA WholeTransition ==
  ASSUME Inv, NEW w \in Workers, pc[w] \in MidTransition, NEW resolved,
         NEW team, team = Rules!EvaluateWinner(resolved.status),
         \/ /\ before.phase = "NIGHT"
            /\ Rules!NightVictim \in Rules!Alive \cup {None}
            /\ resolved = [Advanced EXCEPT !.status = Rules!AfterDeathOf(Rules!NightVictim),
                                           !.nightActions = NewSession.nightActions]
         \/ /\ before.phase = "VOTING"
            /\ resolved = [Advanced EXCEPT !.status = Rules!AfterDeathOf(Rules!VotedOut),
                                           !.votes = NewSession.votes],
         Settled' = IF team = None THEN resolved ELSE [resolved EXCEPT !.phase = "FINISHED"],
         role' = role, winner' = team
  PROVE  Rules!AdvancePhase
<1>1. before \in Sessions /\ Settled = before
  BY SettledMidTransition
<1>2. before.phase = "NIGHT" => before.turn < MaxTurn
  BY DEF Inv, TransitionInv
<1>3. CASE before.phase = "NIGHT"
  <2>1. /\ Settled'.phase = IF team = None THEN "DAY_DISCUSSION" ELSE "FINISHED"
        /\ Settled'.turn = before.turn + 1
        /\ resolved.status = Rules!AfterDeathOf(Rules!NightVictim)
        /\ Settled'.status = Rules!AfterDeathOf(Rules!NightVictim)
        /\ Settled'.nightActions = Rules!NoNightActions
        /\ Settled'.connection = before.connection /\ Settled'.votes = before.votes
        /\ Settled'.processedRequests = before.processedRequests
    BY <1>1, <1>3
    DEF Advanced, NextPhase, Sessions, NewSession, Rules!NoNightActions, Rules!NightKeys
  <2>2. Rules!NightToDay
    BY <1>1, <1>2, <1>3, <2>1 DEF Rules!NightToDay, Rules!Settle
  <2>3. QED
    BY <2>2 DEF Rules!AdvancePhase
<1>4. CASE before.phase = "VOTING"
  <2>1. /\ Settled'.phase = IF team = None THEN "RESULT" ELSE "FINISHED"
        /\ Settled'.turn = before.turn
        /\ resolved.status = Rules!AfterDeathOf(Rules!VotedOut)
        /\ Settled'.status = Rules!AfterDeathOf(Rules!VotedOut)
        /\ Settled'.votes = Rules!NoVotes
        /\ Settled'.connection = before.connection
        /\ Settled'.nightActions = before.nightActions
        /\ Settled'.processedRequests = before.processedRequests
    BY <1>1, <1>4 DEF Advanced, NextPhase, Sessions, NewSession, Rules!NoVotes
  <2>2. Rules!VotingToResult
    BY <1>1, <1>4, <2>1 DEF Rules!VotingToResult, Rules!Settle
  <2>3. QED
    BY <2>2 DEF Rules!AdvancePhase
<1>5. QED
  BY <1>3, <1>4

\* The handler resolves what it has advanced.
LEMMA Resolving ==
  ASSUME Inv, NEW w \in Workers, pc[w] = "resolving"
  PROVE  /\ copy[w] = stored /\ stored = Advanced
         /\ before.phase = transition[w].from
         /\ copy[w].status = before.status /\ copy[w].votes = before.votes
         /\ copy[w].nightActions = before.nightActions
         /\ Copy(w)!Alive = Rules!Alive /\ Copy(w)!NightVictim = Rules!NightVictim
         /\ Copy(w)!VotedOut = Rules!VotedOut
         /\ \A v : Copy(w)!AfterDeathOf(v) = Rules!AfterDeathOf(v)
<1>1. /\ copy[w] = stored /\ stored = Advanced
      /\ before.phase = transition[w].from
  BY DEF Inv, CopyInv, TransitionInv, MidTransition
<1>2. before \in Sessions /\ Settled = before
  BY SettledMidTransition DEF MidTransition
<1>3. /\ copy[w].status = before.status /\ copy[w].votes = before.votes
      /\ copy[w].nightActions = before.nightActions
  BY <1>1, <1>2 DEF Advanced, Sessions
<1>4. QED
  BY <1>1, <1>2, <1>3, SameOutcome

\* What is saved of the outcome is the end of the transition, or waits for
\* finishGame behind the session before.
LEMMA OutcomeStep ==
  ASSUME Inv, NEW w \in Workers, pc[w] = "resolving", NEW s, SaveOutcome(w, s),
         \/ /\ before.phase = "NIGHT"
            /\ Rules!NightVictim \in Rules!Alive \cup {None}
            /\ s = [Advanced EXCEPT !.status = Rules!AfterDeathOf(Rules!NightVictim),
                                    !.nightActions = NewSession.nightActions]
         \/ /\ before.phase = "VOTING"
            /\ s = [Advanced EXCEPT !.status = Rules!AfterDeathOf(Rules!VotedOut),
                                    !.votes = NewSession.votes],
         UNCHANGED <<role, winner>>
  PROVE  UNCHANGED Rules!vars \/ Rules!AdvancePhase
<1>1. pc[w] \in MidTransition /\ Settled = before /\ winner = None
  BY SettledMidTransition DEF MidTransition
<1>2. CASE Rules!EvaluateWinner(s.status) = None
  <2>1. Settled' = s
    BY <1>1, <1>2, SameWinner, SettledMidTransition DEF SaveOutcome
  <2>2. QED
    BY <1>1, <1>2, <2>1, WholeTransition
<1>3. CASE Rules!EvaluateWinner(s.status) # None
  <2>1. pc'[w] = "decided" /\ before' = before
    BY <1>3, SameWinner DEF SaveOutcome, Goto, Inv, TypeInv
  <2>2. Settled' = Settled
    BY <1>1, <2>1 DEF Settled, MidTransition
  <2>3. QED
    BY <2>2 DEF Rules!vars
<1>4. QED
  BY <1>2, <1>3

LEMMA ResolveNightStep ==
  ASSUME Inv, NEW w \in Workers, ResolveNightOutcome(w)
  PROVE  UNCHANGED Rules!vars \/ Rules!AdvancePhase
<1>1. pc[w] = "resolving" /\ before.phase = "NIGHT" /\ UNCHANGED <<role, winner>>
  BY Resolving DEF ResolveNightOutcome
<1>2. CASE Rules!NightVictim \in Rules!Alive \cup {None}
  BY <1>1, <1>2, Resolving, OutcomeStep DEF ResolveNightOutcome
<1>3. CASE Rules!NightVictim \notin Rules!Alive \cup {None}
  <2>1. End(w) /\ stored' = stored /\ stored = Advanced
    BY <1>1, <1>3, Resolving DEF ResolveNightOutcome
  <2>2. Settled = before /\ before \in Sessions /\ Settled' = stored
    BY <1>1, <2>1, SettledMidTransition DEF MidTransition
  <2>3. before.turn < MaxTurn
    BY <1>1 DEF Inv, TransitionInv, MidTransition
  <2>4. /\ Settled'.phase = "DAY_DISCUSSION" /\ Settled'.turn = before.turn + 1
        /\ Settled'.status = before.status /\ Settled'.connection = before.connection
        /\ Settled'.votes = before.votes /\ Settled'.nightActions = before.nightActions
        /\ Settled'.processedRequests = before.processedRequests
    BY <1>1, <2>1, <2>2 DEF Advanced, NextPhase, Sessions
  <2>5. Rules!NightToDay
    BY <1>1, <1>3, <2>2, <2>3, <2>4 DEF Rules!NightToDay
  <2>6. QED
    BY <2>5 DEF Rules!AdvancePhase
<1>4. QED
  BY <1>2, <1>3

LEMMA ResolveVotingStep ==
  ASSUME Inv, NEW w \in Workers, ResolveVotingOutcome(w)
  PROVE  UNCHANGED Rules!vars \/ Rules!AdvancePhase
<1>1. pc[w] = "resolving" /\ before.phase = "VOTING" /\ UNCHANGED <<role, winner>>
  BY Resolving DEF ResolveVotingOutcome
<1>2. QED
  BY <1>1, Resolving, OutcomeStep DEF ResolveVotingOutcome

LEMMA FinishStep ==
  ASSUME Inv, NEW w \in Workers, FinishGame(w)
  PROVE  Rules!AdvancePhase
<1>1. pc[w] = "finishing" /\ pc[w] \in MidTransition /\ copy[w] = stored
  BY DEF FinishGame, MidTransition, Inv, CopyInv
<1>2. /\ NightResolved \/ VotingResolved
      /\ transition[w].winner = Rules!EvaluateWinner(stored.status)
      /\ transition[w].winner # None
  BY <1>1 DEF Inv, TransitionInv
<1>3. stored.phase # "FINISHED" /\ (End(w) => Settled' = stored')
  BY <1>1, SettledMidTransition
<1>4. /\ Settled' = [stored EXCEPT !.phase = "FINISHED"]
      /\ winner' = transition[w].winner /\ role' = role
  BY <1>1, <1>3 DEF FinishGame
<1>5. QED
  BY <1>1, <1>2, <1>4, WholeTransition DEF NightResolved, VotingResolved

-----------------------------------------------------------------------------
(* The theorems.                                                           *)

\* The first session, with nobody at work.
LEMMA InvInit == Init => Inv
BY AnInitialSession, CrashesAssumption
DEF Init, Inv, TypeInv, LockInv, CopyInv, TransitionInv, WinnerInv, NoTransition, Steps,
    MidTransition

\* The invariant of every step.
LEMMA InvHolds == Spec => []Inv
BY InvInit, InvStep, PTL DEF Spec

\* Nobody is at work at first, so what others see is what is stored.
LEMMA RulesInit == Init => Rules!Init
<1> SUFFICES ASSUME Init PROVE Rules!Init
  OBVIOUS
<1>1. Settled = NewSession
  BY DEF Init, Settled, MidTransition
<1>2. QED
  BY <1>1 DEF Init, NewSession, Rules!Init, Rules!NoVotes, Rules!NoNightActions, Rules!NightKeys

LEMMA StepRefines ==
  ASSUME Inv, [Next]_vars
  PROVE  \/ UNCHANGED Rules!vars \/ Rules!Next
         \/ HalfTransition /\ \E w \in Workers : Crash(w)
<1>1. CASE LockExpires
  BY <1>1 DEF LockExpires, storeVars, Settled, Rules!vars
<1>2. CASE UNCHANGED vars
  BY <1>2 DEF vars, storeVars, Settled, Rules!vars
<1>3. ASSUME NEW w \in Workers, Acquire(w) \/ ReadSession(w) \/ Reject(w) \/ Release(w)
      PROVE  UNCHANGED Rules!vars
  BY <1>3, QuietStep
<1>4. ASSUME NEW w \in Workers, Crash(w)
      PROVE  RulesStep
  BY <1>4, CrashStep
<1>5. ASSUME NEW w \in Workers, AdvancePhase(w) \/ ResolveNightOutcome(w)
                                  \/ ResolveVotingOutcome(w) \/ FinishGame(w)
      PROVE  UNCHANGED Rules!vars \/ Rules!Next
  BY <1>5, AdvanceStep, ResolveNightStep, ResolveVotingStep, FinishStep DEF Rules!Next
<1>6. DOMAIN NewSession.nightActions = Rules!NightKeys
  BY DEF NewSession, Rules!NightKeys
<1>7. ASSUME NEW w \in Workers, Handle(w)
      PROVE  UNCHANGED Rules!vars \/ Rules!Next
  <2>1. CASE \E actor, target \in Players, requestId \in RequestIds :
               CastVote(w, actor, target, requestId)
    BY <2>1, CommandStep DEF Rules!Next
  <2>2. CASE \E actor, target \in Players, key \in DOMAIN NewSession.nightActions :
               SelectNightAction(w, actor, target, key)
    BY <2>2, <1>6, CommandStep DEF Rules!Next
  <2>3. CASE \E p \in Players : MarkPlayerDisconnected(w, p) \/ MarkPlayerConnected(w, p)
    BY <2>3, CommandStep DEF Rules!Next
  <2>4. QED
    BY <1>5, <1>7, <2>1, <2>2, <2>3 DEF Handle
<1>8. QED
  BY <1>1, <1>2, <1>3, <1>4, <1>7 DEF Next, RulesStep

\* The reads and saves of handlers under the lock are, to everybody else, the
\* atomic rules, except that a handler may die half-way through a transition.
THEOREM HandlersImplementTheRules == Spec => ImplementsRules
<1>1. Inv /\ [Next]_vars => UNCHANGED Rules!vars \/ Rules!Next \/ HalfTransition
  BY StepRefines
<1>2. QED
  BY <1>1, InvHolds, RulesInit, PTL DEF Spec, ImplementsRules

\* Where no handler dies, the handlers implement the specification of the rules.
THEOREM UndisturbedHandlersAreTheRules ==
  ASSUME MaxCrashes = 0
  PROVE  Spec => Rules!Spec
<1> DEFINE NoCrash == crashes = 0
<1>1. NoCrash /\ [Next]_vars => NoCrash'
  <2> SUFFICES ASSUME NoCrash, [Next]_vars PROVE NoCrash'
    OBVIOUS
  <2>1. CASE LockExpires \/ UNCHANGED vars
    BY <2>1 DEF LockExpires, vars
  <2>2. ASSUME NEW w \in Workers,
               Acquire(w) \/ ReadSession(w) \/ Reject(w) \/ Release(w) \/ Crash(w)
        PROVE  NoCrash'
    BY <2>2 DEF Acquire, ReadSession, Reject, Release, Crash, End
  <2>3. ASSUME NEW w \in Workers, Handle(w) PROVE NoCrash'
    BY <2>3 DEF Handle, CastVote, SelectNightAction, MarkPlayerDisconnected,
                MarkPlayerConnected, AdvancePhase, ResolveNightOutcome,
                ResolveVotingOutcome, FinishGame, SaveOutcome, SaveAndEnd, End
  <2>4. QED
    BY <2>1, <2>2, <2>3 DEF Next
<1>2. Init => NoCrash
  BY DEF Init
<1>3. NoCrash /\ Inv /\ [Next]_vars => [Rules!Next]_(Rules!vars)
  BY StepRefines DEF Crash
<1> HIDE DEF NoCrash
<1>4. QED
  BY <1>1, <1>2, <1>3, InvHolds, RulesInit, PTL DEF Spec, Rules!Spec

\* No handler saves over another's save: between its read and its save the stored
\* session is the one it has read, and no other handler is at work.
NoSaveIsLost ==
  \A v, w \in Workers :
    /\ pc[v] \in {"read", "resolving", "finishing"} => copy[v] = stored
    /\ pc[v] # "idle" /\ pc[w] # "idle" => v = w

\* For any number of handlers, no save of applyWithLock is lost under another.
THEOREM SavesAreNotLost == Spec => []NoSaveIsLost
<1>1. Inv => NoSaveIsLost
  BY DEF Inv, LockInv, CopyInv, NoSaveIsLost
<1>2. QED
  BY <1>1, InvHolds, PTL
=============================================================================
