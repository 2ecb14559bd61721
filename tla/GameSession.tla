---------------------------- MODULE GameSession ----------------------------
(***************************************************************************)
(* The rules of one mafia game as GameSessionService and GameStateMachine  *)
(* apply them to the stored GameSession, one action per command handler.   *)
(* Every handler is atomic here: this is what the per-game Redis lock      *)
(* promises, and the modules about locks and timers are compared with it.  *)
(*                                                                         *)
(* `version', `createdAt', `updatedAt' and `lastSeenAt' are written but    *)
(* never read by the code and are left out; `phaseEndsAt' belongs to       *)
(* PhaseTimers.                                                            *)
(***************************************************************************)
EXTENDS Integers, FiniteSets

CONSTANTS
  Players,     \* the users seated when START_GAME ran
  RequestIds,  \* the requestIds of the CAST_VOTE commands
  None,        \* `null', or a key that is absent
  MaxTurn,     \* bound of the model: no turn after this one
  MaxOffline   \* bound of the model: players whose socket is down at a time

ASSUME PlayersAssumption ==
  /\ IsFiniteSet(Players)
  /\ Cardinality(Players) >= 4
ASSUME NoneAssumption == None \notin Players \cup {"MAFIA", "CITIZEN"}
ASSUME BoundsAssumption == MaxTurn \in Nat /\ MaxOffline \in Nat

VARIABLES
  phase,
  turn,
  role,
  status,
  connection,
  votes,
  nightActions,
  processedRequests,
  winner       \* winnerTeam of the GameFinished event, None before it

vars == <<phase, turn, role, status, connection, votes, nightActions,
          processedRequests, winner>>

-----------------------------------------------------------------------------
Phases == {"NIGHT", "DAY_DISCUSSION", "VOTING", "RESULT", "FINISHED"}
SoleRoles == {"MAFIA", "DOCTOR", "POLICE"}
Roles == SoleRoles \cup {"CITIZEN"}
NightKeys == {"mafiaTarget", "doctorTarget", "policeTarget"}

NoVotes == [p \in Players |-> None]
NoNightActions == [k \in NightKeys |-> None]

\* Every shuffle of the pool: one mafia, one doctor, one police, citizens.
RoleAssignments ==
  {r \in [Players -> Roles] :
     \A sole \in SoleRoles : \E p \in Players : \A q \in Players :
       (r[q] = sole) <=> (q = p)}

RoleOf(key) ==
  CASE key = "mafiaTarget"  -> "MAFIA"
    [] key = "doctorTarget" -> "DOCTOR"
    [] key = "policeTarget" -> "POLICE"

AliveIn(st) == {p \in Players : st[p] = "ALIVE"}
Alive == AliveIn(status)
Offline == {p \in Players : connection[p] = "DISCONNECTED"}

InitRoleBySeat ==
  /\ phase = "NIGHT"
  /\ turn = 0
  /\ role \in [Players -> Roles]
  /\ status = [p \in Players |-> "ALIVE"]
  /\ connection = [p \in Players |-> "CONNECTED"]
  /\ votes = NoVotes
  /\ nightActions = NoNightActions
  /\ processedRequests = {}
  /\ winner = None

Init ==
  /\ phase = "NIGHT"
  /\ turn = 0
  /\ role \in RoleAssignments
  /\ status = [p \in Players |-> "ALIVE"]
  /\ connection = [p \in Players |-> "CONNECTED"]
  /\ votes = NoVotes
  /\ nightActions = NoNightActions
  /\ processedRequests = {}
  /\ winner = None

-----------------------------------------------------------------------------
(* Commands of the players.                                                *)

CanVoteAgain(actor, target) ==
  /\ phase = "VOTING"
  /\ actor \in Alive
  /\ target \in Alive

CanVote(actor, target) ==
  /\ phase = "VOTING"
  /\ actor \in Alive
  /\ target \in Alive
  /\ votes[actor] = None

\* A request id that was already processed is answered as a duplicate and
\* changes nothing.
CastVote(actor, target, requestId) ==
  /\ requestId \notin processedRequests
  /\ CanVote(actor, target)
  /\ votes' = [votes EXCEPT ![actor] = target]
  /\ processedRequests' = processedRequests \cup {requestId}
  /\ UNCHANGED <<phase, turn, role, status, connection, nightActions, winner>>

CanSelect(actor, target, key) ==
  /\ phase = "NIGHT"
  /\ actor \in Alive
  /\ role[actor] = RoleOf(key)
  /\ target \in Alive
  /\ nightActions[key] = None
  /\ target = actor => key = "doctorTarget"

SelectNightAction(actor, target, key) ==
  /\ CanSelect(actor, target, key)
  /\ nightActions' = [nightActions EXCEPT ![key] = target]
  /\ UNCHANGED <<phase, turn, role, status, connection, votes,
                 processedRequests, winner>>

-----------------------------------------------------------------------------
(* The phase transition: advance, resolve the phase that ends, finish the  *)
(* game when a team has won.  NEXT_PHASE and the phase timer both run it.  *)

EvaluateWinnerMajorityOnly(st) ==
  LET mafia  == {p \in AliveIn(st) : role[p] = "MAFIA"}
      others == AliveIn(st) \ mafia
  IN  IF Cardinality(mafia) = 0 THEN "CITIZEN"
      ELSE IF Cardinality(mafia) > Cardinality(others) THEN "MAFIA"
      ELSE None

\* evaluateWinner
EvaluateWinner(st) ==
  LET mafia  == {p \in AliveIn(st) : role[p] = "MAFIA"}
      others == AliveIn(st) \ mafia
  IN  IF Cardinality(mafia) = 0 THEN "CITIZEN"
      ELSE IF Cardinality(mafia) >= Cardinality(others) THEN "MAFIA"
      ELSE None

\* The mafia's target, unless the doctor protects the same player.
NightVictim ==
  IF nightActions["mafiaTarget"] = nightActions["doctorTarget"]
  THEN None ELSE nightActions["mafiaTarget"]

VotesFor(target) == {p \in Players : votes[p] = target}

TopTargets ==
  {t \in Players :
     /\ VotesFor(t) # {}
     /\ \A u \in Players : Cardinality(VotesFor(t)) >= Cardinality(VotesFor(u))}

VotedOutUnanimously ==
  IF \E t \in Players : VotesFor(t) = Alive
  THEN CHOOSE t \in Players : VotesFor(t) = Alive ELSE None

\* calculateVoteTally and selectVoteWinner: the sole head of the tally.
VotedOut ==
  IF \E t \in Players : TopTargets = {t}
  THEN CHOOSE t \in Players : TopTargets = {t} ELSE None

\* applyPlayerDeath
AfterDeathOf(victim) ==
  IF victim = None THEN status ELSE [status EXCEPT ![victim] = "DEAD"]

\* finishGame runs after the resolution, on the session it saved.
Settle(st, next) ==
  /\ status' = st
  /\ winner' = EvaluateWinner(st)
  /\ phase'  = IF EvaluateWinner(st) = None THEN next ELSE "FINISHED"

NightToDayKeepingTargets ==
  /\ phase = "NIGHT"
  /\ turn < MaxTurn
  /\ turn' = turn + 1
  /\ Settle(AfterDeathOf(NightVictim), "DAY_DISCUSSION")
  /\ UNCHANGED <<role, connection, votes, nightActions, processedRequests>>

\* When the victim is no longer alive resolveNightOutcome throws: the phase
\* was already saved, the targets stay.
NightToDay ==
  /\ phase = "NIGHT"
  /\ turn < MaxTurn
  /\ turn' = turn + 1
  /\ IF NightVictim \in Alive \cup {None}
     THEN /\ Settle(AfterDeathOf(NightVictim), "DAY_DISCUSSION")
          /\ nightActions' = NoNightActions
     ELSE /\ phase' = "DAY_DISCUSSION"
          /\ UNCHANGED <<status, winner, nightActions>>
  /\ UNCHANGED <<role, connection, votes, processedRequests>>

DayToVoting ==
  /\ phase = "DAY_DISCUSSION"
  /\ phase' = "VOTING"
  /\ UNCHANGED <<turn, role, status, connection, votes, nightActions,
                 processedRequests, winner>>

VotingToResultKeepingVotes ==
  /\ phase = "VOTING"
  /\ Settle(AfterDeathOf(VotedOut), "RESULT")
  /\ UNCHANGED <<turn, role, connection, votes, nightActions,
                 processedRequests>>

VotingToResult ==
  /\ phase = "VOTING"
  /\ Settle(AfterDeathOf(VotedOut), "RESULT")
  /\ votes' = NoVotes
  /\ UNCHANGED <<turn, role, connection, nightActions, processedRequests>>

ResultToNight ==
  /\ phase = "RESULT"
  /\ phase' = "NIGHT"
  /\ UNCHANGED <<turn, role, status, connection, votes, nightActions,
                 processedRequests, winner>>

AdvancePhase == NightToDay \/ DayToVoting \/ VotingToResult \/ ResultToNight

-----------------------------------------------------------------------------
(* Connection lifecycle.                                                   *)

MarkPlayerDisconnected(p) ==
  /\ p \notin Offline
  /\ Cardinality(Offline) < MaxOffline
  /\ connection' = [connection EXCEPT ![p] = "DISCONNECTED"]
  /\ UNCHANGED <<phase, turn, role, status, votes, nightActions,
                 processedRequests, winner>>

MarkPlayerConnected(p) ==
  /\ connection' = [connection EXCEPT ![p] = "CONNECTED"]
  /\ UNCHANGED <<phase, turn, role, status, votes, nightActions,
                 processedRequests, winner>>

-----------------------------------------------------------------------------
Next ==
  \/ \E actor, target \in Players, requestId \in RequestIds :
       CastVote(actor, target, requestId)
  \/ \E actor, target \in Players, key \in NightKeys :
       SelectNightAction(actor, target, key)
  \/ AdvancePhase
  \/ \E p \in Players : MarkPlayerDisconnected(p)
  \/ \E p \in Players : MarkPlayerConnected(p)

Spec == Init /\ [][Next]_vars

-----------------------------------------------------------------------------
(* Properties.                                                             *)

\* Each field of the stored session has the shape game-session.ts declares.
TypeOK ==
  /\ phase \in Phases
  /\ turn \in Nat
  /\ role \in RoleAssignments
  /\ status \in [Players -> {"ALIVE", "DEAD"}]
  /\ connection \in [Players -> {"CONNECTED", "DISCONNECTED"}]
  /\ votes \in [Players -> Players \cup {None}]
  /\ nightActions \in [NightKeys -> Players \cup {None}]
  /\ processedRequests \in SUBSET RequestIds
  /\ winner \in {None, "MAFIA", "CITIZEN"}

\* A stored night target is alive and chosen by a living player, and none
\* outlives its night: the 'target player is not alive' throw in
\* resolveNightOutcome, after the new phase was saved, is unreachable and a
\* target of one night never counts in the next.
NightTargetsAreCurrent ==
  \A key \in NightKeys : nightActions[key] # None =>
    /\ phase = "NIGHT"
    /\ nightActions[key] \in Alive
    /\ \E p \in Alive : role[p] = RoleOf(key)

\* Every stored ballot is of this voting, from and for living players, and
\* no request id is counted for two ballots.
BallotsAreCurrent ==
  /\ \A p \in Players : votes[p] # None =>
       phase = "VOTING" /\ p \in Alive /\ votes[p] \in Alive
  /\ Cardinality({p \in Players : votes[p] # None})
       <= Cardinality(processedRequests)

\* The game is FINISHED exactly when no mafia lives or the mafia is at least
\* half of the living, and the winner recorded is the team that stands.
FinishedWhenDecided ==
  LET mafiaAlive == \E p \in Alive : role[p] = "MAFIA"
      parity == mafiaAlive /\ Cardinality(Alive) <= 2
  IN  /\ (phase = "FINISHED") <=> (~mafiaAlive \/ parity)
      /\ winner = IF ~mafiaAlive THEN "CITIZEN"
                  ELSE IF parity THEN "MAFIA" ELSE None

\* A night and a vote cost at most one life each, so the dead are never more
\* than the resolutions that have run.
DeathsWithinResolutions ==
  LET dead == Cardinality(Players \ Alive)
  IN  dead <= IF phase \in {"DAY_DISCUSSION", "VOTING"}
              THEN 2 * turn - 1 ELSE 2 * turn

\* The dead stay dead, and a step that costs a life costs one and ends the
\* NIGHT or the VOTING.
OneDeathStep ==
  /\ AliveIn(status') \subseteq Alive
  /\ status' # status =>
       /\ phase \in {"NIGHT", "VOTING"} /\ phase' # phase
       /\ \E p \in Alive : AliveIn(status') = Alive \ {p}
OneDeathPerResolution == [][OneDeathStep]_vars

\* The doctor's choice of the night survives it, whoever the mafia chose.
ProtectedStep ==
  phase = "NIGHT" /\ phase' # "NIGHT" /\ nightActions["doctorTarget"] # None
    => status'[nightActions["doctorTarget"]] = "ALIVE"
ProtectedSurvivesNight == [][ProtectedStep]_vars

\* A player named by more than half of the living is executed when the voting
\* ends, and nobody is executed by a tie or with fewer ballots than another.
MajorityStep ==
  phase = "VOTING" /\ phase' # "VOTING" =>
    \A t \in Players :
      /\ 2 * Cardinality(VotesFor(t)) > Cardinality(Alive)
           => status'[t] = "DEAD"
      /\ status'[t] # status[t] =>
           \A u \in Players \ {t} :
             Cardinality(VotesFor(u)) < Cardinality(VotesFor(t))
MajorityIsExecuted == [][MajorityStep]_vars

\* After FINISHED nothing but a player's connection changes, and until then a
\* ballot or a night target stays as cast while its phase lasts.
FinalChoiceStep ==
  /\ phase = "FINISHED" =>
       UNCHANGED <<phase, turn, role, status, votes, nightActions,
                   processedRequests, winner>>
  /\ phase' = phase =>
       /\ \A p \in Players : votes[p] # None => votes'[p] = votes[p]
       /\ \A k \in NightKeys : nightActions[k] # None =>
            nightActions'[k] = nightActions[k]
ChoicesAreFinal == [][FinalChoiceStep]_vars
=============================================================================
