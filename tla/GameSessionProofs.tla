------------------------- MODULE GameSessionProofs -------------------------
(***************************************************************************)
(* Theorems about GameSession and the AvailableActions of its players, for *)
(* every set of players, every supply of request ids and every bound.      *)
(***************************************************************************)
EXTENDS AvailableActions, FiniteSetTheorems, TLAPS

Statuses == [Players -> {"ALIVE", "DEAD"}]

-----------------------------------------------------------------------------
(* Facts about one status function.                                        *)

\* The one mafia of a role assignment.
LEMMA OneMafia ==
  ASSUME role \in RoleAssignments
  PROVE  \E m \in Players : \A q \in Players : (role[q] = "MAFIA") <=> (q = m)
BY DEF RoleAssignments, SoleRoles

\* The living and the dead can be counted: both are sets of players.
LEMMA AliveIsFinite ==
  ASSUME NEW st
  PROVE  /\ IsFiniteSet(AliveIn(st))
         /\ Cardinality(AliveIn(st)) \in Nat
         /\ IsFiniteSet(Players \ AliveIn(st))
         /\ Cardinality(Players \ AliveIn(st)) \in Nat
<1>1. AliveIn(st) \subseteq Players /\ Players \ AliveIn(st) \subseteq Players
  BY DEF AliveIn
<1>2. QED
  BY <1>1, PlayersAssumption, FS_Subset, FS_CardinalityType

\* evaluateWinner in terms of the living: it compares the mafia with the
\* rest, and there is one mafia.
LEMMA WinnerOfTheLiving ==
  ASSUME role \in RoleAssignments, NEW st
  PROVE  LET mafiaAlive == \E p \in AliveIn(st) : role[p] = "MAFIA"
         IN  EvaluateWinner(st) =
               IF ~mafiaAlive THEN "CITIZEN"
               ELSE IF Cardinality(AliveIn(st)) <= 2 THEN "MAFIA" ELSE None
<1> DEFINE mafia  == {p \in AliveIn(st) : role[p] = "MAFIA"}
           others == AliveIn(st) \ mafia
<1>1. PICK m \in Players : \A q \in Players : (role[q] = "MAFIA") <=> (q = m)
  BY OneMafia
<1>2. IsFiniteSet(AliveIn(st)) /\ Cardinality(AliveIn(st)) \in Nat
  BY AliveIsFinite
<1>3. CASE m \in AliveIn(st)
  <2>1. mafia = {m}
    BY <1>1, <1>3 DEF AliveIn
  <2>2. Cardinality(mafia) = 1
    BY <2>1, FS_Singleton
  <2>3. others = AliveIn(st) \ {m}
    BY <2>1
  <2>4. Cardinality(others) = Cardinality(AliveIn(st)) - 1
    BY <1>2, <1>3, <2>3, FS_RemoveElement
  <2>5. \E p \in AliveIn(st) : role[p] = "MAFIA"
    BY <1>1, <1>3
  <2> HIDE DEF mafia, others
  <2>6. 1 >= Cardinality(AliveIn(st)) - 1 <=> Cardinality(AliveIn(st)) <= 2
    BY <1>2
  <2>7. EvaluateWinner(st) =
          IF Cardinality(mafia) = 0 THEN "CITIZEN"
          ELSE IF Cardinality(mafia) >= Cardinality(others) THEN "MAFIA"
          ELSE None
    BY DEF EvaluateWinner, mafia, others
  <2>8. QED
    BY <2>2, <2>4, <2>5, <2>6, <2>7
<1>4. CASE m \notin AliveIn(st)
  <2>1. mafia = {}
    BY <1>1, <1>4 DEF AliveIn
  <2>2. Cardinality(mafia) = 0
    BY <2>1, FS_EmptySet
  <2>3. ~ \E p \in AliveIn(st) : role[p] = "MAFIA"
    BY <2>1
  <2>4. QED
    BY <2>2, <2>3 DEF EvaluateWinner
<1>5. QED
  BY <1>3, <1>4

\* evaluateWinner names a side or nobody.
LEMMA WinnerType ==
  ASSUME NEW st
  PROVE  EvaluateWinner(st) \in {None, "MAFIA", "CITIZEN"}
BY DEF EvaluateWinner

\* With everybody alive nobody has won.
LEMMA NoWinnerAtStart ==
  ASSUME role \in RoleAssignments
  PROVE  EvaluateWinner([p \in Players |-> "ALIVE"]) = None
<1> DEFINE st == [p \in Players |-> "ALIVE"]
<1>1. AliveIn(st) = Players
  BY DEF AliveIn
<1>2. \E p \in Players : role[p] = "MAFIA"
  BY OneMafia
<1>3. Cardinality(Players) \in Nat /\ Cardinality(Players) >= 4
  BY PlayersAssumption, FS_CardinalityType
<1> HIDE DEF st
<1>4. ~(Cardinality(Players) <= 2)
  BY <1>3
<1>5. EvaluateWinner(st) = None
  BY <1>1, <1>2, <1>4, WinnerOfTheLiving
<1>6. QED
  BY <1>5 DEF st

\* The dead after one death: the dead before it and the victim.
LEMMA OneMoreDead ==
  ASSUME status \in Statuses, NEW v \in Players \cup {None}
  PROVE  /\ AfterDeathOf(v) \in Statuses
         /\ AliveIn(AfterDeathOf(v)) = Alive \ {v}
         /\ Cardinality(Players \ AliveIn(AfterDeathOf(v)))
              <= Cardinality(Players \ Alive) + 1
<1>1. AfterDeathOf(v) \in Statuses
  BY DEF AfterDeathOf, Statuses
<1>2. AliveIn(AfterDeathOf(v)) = Alive \ {v}
  <2>1. CASE v = None
    BY <2>1, NoneAssumption DEF AfterDeathOf, AliveIn, Alive
  <2>2. CASE v \in Players
    <3>1. v # None
      BY <2>2, NoneAssumption
    <3>2. AfterDeathOf(v) = [status EXCEPT ![v] = "DEAD"]
      BY <3>1 DEF AfterDeathOf
    <3>3. QED
      BY <3>2, <2>2 DEF AliveIn, Alive, Statuses
  <2>3. QED
    BY <2>1, <2>2
<1>3. Cardinality(Players \ AliveIn(AfterDeathOf(v)))
        <= Cardinality(Players \ Alive) + 1
  <2> DEFINE dead  == Players \ Alive
             after == Players \ AliveIn(AfterDeathOf(v))
  <2>1. IsFiniteSet(dead) /\ Cardinality(dead) \in Nat
    BY AliveIsFinite DEF Alive
  <2>2. CASE v \in Alive
    <3>1. after = dead \cup {v}
      BY <1>2, <2>2 DEF Alive, AliveIn
    <3>2. v \notin dead
      BY <2>2
    <3> HIDE DEF dead, after
    <3>3. Cardinality(dead \cup {v}) = Cardinality(dead) + 1
      BY <2>1, <3>2, FS_AddElement
    <3>4. Cardinality(after) <= Cardinality(dead) + 1
      BY <2>1, <3>1, <3>3
    <3>5. QED
      BY <3>4 DEF dead, after
  <2>3. CASE v \notin Alive
    <3>1. after = dead
      BY <1>2, <2>3
    <3> HIDE DEF dead, after
    <3>2. Cardinality(after) <= Cardinality(dead) + 1
      BY <2>1, <3>1
    <3>3. QED
      BY <3>2 DEF dead, after
  <2>4. QED
    BY <2>2, <2>3
<1>4. QED
  BY <1>1, <1>2, <1>3

-----------------------------------------------------------------------------
(* Type correctness.                                                       *)

\* The victim of a night and the player voted out are players or nobody.
LEMMA VictimTypes ==
  ASSUME TypeOK
  PROVE  /\ NightVictim \in Players \cup {None}
         /\ VotedOut \in Players \cup {None}
<1>1. NightVictim \in Players \cup {None}
  BY DEF TypeOK, NightVictim, NightKeys
<1>2. VotedOut \in Players \cup {None}
  <2>1. CASE \E t \in Players : TopTargets = {t}
    BY <2>1 DEF VotedOut
  <2>2. CASE ~ \E t \in Players : TopTargets = {t}
    BY <2>2 DEF VotedOut
  <2>3. QED
    BY <2>1, <2>2
<1>3. QED
  BY <1>1, <1>2

\* What the common tail of both resolutions leaves behind.
LEMMA SettleFacts ==
  ASSUME NEW st, NEW next \in Phases, Settle(st, next)
  PROVE  /\ phase' \in {next, "FINISHED"}
         /\ winner' \in {None, "MAFIA", "CITIZEN"}
         /\ status' = st
         /\ winner' = EvaluateWinner(st)
         /\ phase' = IF EvaluateWinner(st) = None THEN next ELSE "FINISHED"
BY WinnerType DEF Settle

\* Type correctness: the stored session always has its declared shape.
THEOREM TypeCorrect == Spec => []TypeOK
<1>1. Init => TypeOK
  BY DEF Init, TypeOK, Phases, NoVotes, NoNightActions
<1>2. TypeOK /\ [Next]_vars => TypeOK'
  <2> SUFFICES ASSUME TypeOK, [Next]_vars PROVE TypeOK'
    OBVIOUS
  <2>1. ASSUME NEW actor \in Players, NEW target \in Players,
               NEW requestId \in RequestIds, CastVote(actor, target, requestId)
        PROVE  TypeOK'
    BY <2>1 DEF CastVote, TypeOK
  <2>2. ASSUME NEW actor \in Players, NEW target \in Players,
               NEW key \in NightKeys, SelectNightAction(actor, target, key)
        PROVE  TypeOK'
    BY <2>2 DEF SelectNightAction, TypeOK
  <2>3. CASE NightToDay
    <3>1. status' \in [Players -> {"ALIVE", "DEAD"}] /\ winner' \in {None, "MAFIA", "CITIZEN"}
          /\ phase' \in Phases
      <4>1. CASE NightVictim \in Alive \cup {None}
        <5>1. Settle(AfterDeathOf(NightVictim), "DAY_DISCUSSION")
          BY <2>3, <4>1 DEF NightToDay
        <5>2. AfterDeathOf(NightVictim) \in Statuses
          BY VictimTypes, OneMoreDead DEF TypeOK, Statuses
        <5>3. QED
          BY <5>1, <5>2, SettleFacts DEF Phases, Statuses
      <4>2. CASE NightVictim \notin Alive \cup {None}
        BY <2>3, <4>2 DEF NightToDay, TypeOK, Phases
      <4>3. QED
        BY <4>1, <4>2
    <3>2. nightActions' \in [NightKeys -> Players \cup {None}]
      BY <2>3 DEF NightToDay, TypeOK, NoNightActions
    <3>3. turn' \in Nat
      BY <2>3 DEF NightToDay, TypeOK
    <3>4. QED
      BY <2>3, <3>1, <3>2, <3>3 DEF NightToDay, TypeOK, RoleAssignments
  <2>4. CASE DayToVoting
    BY <2>4 DEF DayToVoting, TypeOK, Phases
  <2>5. CASE VotingToResult
    <3>1. Settle(AfterDeathOf(VotedOut), "RESULT")
      BY <2>5 DEF VotingToResult
    <3>2. AfterDeathOf(VotedOut) \in Statuses
      BY VictimTypes, OneMoreDead DEF TypeOK, Statuses
    <3>3. phase' \in Phases /\ winner' \in {None, "MAFIA", "CITIZEN"}
          /\ status' \in Statuses
      BY <3>1, <3>2, SettleFacts DEF Phases
    <3>4. QED
      BY <2>5, <3>3 DEF VotingToResult, TypeOK, NoVotes, Statuses
  <2>6. CASE ResultToNight
    BY <2>6 DEF ResultToNight, TypeOK, Phases
  <2>7. ASSUME NEW p \in Players, MarkPlayerDisconnected(p)
        PROVE  TypeOK'
    BY <2>7 DEF MarkPlayerDisconnected, TypeOK
  <2>8. ASSUME NEW p \in Players, MarkPlayerConnected(p)
        PROVE  TypeOK'
    BY <2>8 DEF MarkPlayerConnected, TypeOK
  <2>9. CASE UNCHANGED vars
    BY <2>9 DEF vars, TypeOK
  <2>10. QED
    BY <2>1, <2>2, <2>3, <2>4, <2>5, <2>6, <2>7, <2>8, <2>9
    DEF Next, AdvancePhase
<1>3. QED
  BY <1>1, <1>2, PTL DEF Spec

-----------------------------------------------------------------------------
(* Invariants, each inductive relative to the ones before it.              *)

\* Night targets: always of this night, alive, and chosen by a living holder
\* of the role, so resolving a night never throws.
THEOREM NightTargetsStayCurrent == Spec => []NightTargetsAreCurrent
<1>1. Init => NightTargetsAreCurrent
  BY DEF Init, NightTargetsAreCurrent, NoNightActions
<1>2. TypeOK /\ NightTargetsAreCurrent /\ [Next]_vars => NightTargetsAreCurrent'
  <2> SUFFICES ASSUME TypeOK, NightTargetsAreCurrent, [Next]_vars
               PROVE  NightTargetsAreCurrent'
    OBVIOUS
  <2> USE DEF NightTargetsAreCurrent, Alive, AliveIn
  <2>1. ASSUME NEW actor \in Players, NEW target \in Players,
               NEW requestId \in RequestIds, CastVote(actor, target, requestId)
        PROVE  NightTargetsAreCurrent'
    BY <2>1 DEF CastVote
  <2>2. ASSUME NEW actor \in Players, NEW target \in Players,
               NEW key \in NightKeys, SelectNightAction(actor, target, key)
        PROVE  NightTargetsAreCurrent'
    BY <2>2 DEF SelectNightAction, CanSelect, TypeOK
  <2>3. CASE NightToDay
    <3>1. NightVictim \in Alive \cup {None}
      BY DEF NightVictim, NightKeys
    <3>2. nightActions' = NoNightActions
      BY <2>3, <3>1 DEF NightToDay
    <3>3. QED
      BY <3>2 DEF NoNightActions
  <2>4. CASE DayToVoting
    BY <2>4 DEF DayToVoting
  <2>5. CASE VotingToResult
    BY <2>5 DEF VotingToResult
  <2>6. CASE ResultToNight
    BY <2>6 DEF ResultToNight
  <2>7. ASSUME NEW p \in Players, MarkPlayerDisconnected(p)
        PROVE  NightTargetsAreCurrent'
    BY <2>7 DEF MarkPlayerDisconnected
  <2>8. ASSUME NEW p \in Players, MarkPlayerConnected(p)
        PROVE  NightTargetsAreCurrent'
    BY <2>8 DEF MarkPlayerConnected
  <2>9. CASE UNCHANGED vars
    BY <2>9 DEF vars
  <2>10. QED
    BY <2>1, <2>2, <2>3, <2>4, <2>5, <2>6, <2>7, <2>8, <2>9
    DEF Next, AdvancePhase
<1>3. QED
  BY <1>1, <1>2, TypeCorrect, PTL DEF Spec

Voters == {p \in Players : votes[p] # None}

\* Only finitely many request ids have been processed.
LEMMA ProcessedIsFinite == Spec => []IsFiniteSet(processedRequests)
<1>1. Init => IsFiniteSet(processedRequests)
  BY FS_EmptySet DEF Init
<1>2. IsFiniteSet(processedRequests) /\ [Next]_vars
        => IsFiniteSet(processedRequests)'
  <2> SUFFICES ASSUME IsFiniteSet(processedRequests), [Next]_vars
               PROVE  IsFiniteSet(processedRequests')
    OBVIOUS
  <2>1. ASSUME NEW actor \in Players, NEW target \in Players,
               NEW requestId \in RequestIds, CastVote(actor, target, requestId)
        PROVE  IsFiniteSet(processedRequests')
    BY <2>1, FS_AddElement DEF CastVote
  <2>2. CASE UNCHANGED processedRequests
    BY <2>2
  <2>3. QED
    BY <2>1, <2>2 DEF Next, vars, SelectNightAction, AdvancePhase, NightToDay,
       DayToVoting, VotingToResult, ResultToNight, MarkPlayerDisconnected,
       MarkPlayerConnected
<1>3. QED
  BY <1>1, <1>2, PTL DEF Spec

\* Ballots: always of this voting, between living players, and never more
\* than the requests processed.
THEOREM BallotsStayCurrent == Spec => []BallotsAreCurrent
<1>1. Init => BallotsAreCurrent
  <2> SUFFICES ASSUME Init PROVE BallotsAreCurrent
    OBVIOUS
  <2>1. \A p \in Players : votes[p] = None
    BY DEF Init, NoVotes
  <2>2. {p \in Players : votes[p] # None} = {}
    BY <2>1
  <2>3. Cardinality({}) = 0 /\ processedRequests = {}
    BY FS_EmptySet DEF Init
  <2>4. QED
    BY <2>1, <2>2, <2>3 DEF BallotsAreCurrent
<1>2. TypeOK /\ IsFiniteSet(processedRequests) /\ BallotsAreCurrent
        /\ [Next]_vars => BallotsAreCurrent'
  <2> SUFFICES ASSUME TypeOK, IsFiniteSet(processedRequests),
                      BallotsAreCurrent, [Next]_vars
               PROVE  BallotsAreCurrent'
    OBVIOUS
  <2>1. Cardinality(processedRequests) \in Nat
    BY FS_CardinalityType
  <2>2. IsFiniteSet(Voters) /\ Cardinality(Voters) \in Nat
    BY PlayersAssumption, FS_Subset, FS_CardinalityType DEF Voters
  <2>3. Cardinality(Voters) <= Cardinality(processedRequests)
    BY DEF BallotsAreCurrent, Voters
  <2>4. ASSUME NEW actor \in Players, NEW target \in Players,
               NEW requestId \in RequestIds, CastVote(actor, target, requestId)
        PROVE  BallotsAreCurrent'
    <3>1. /\ phase = "VOTING" /\ phase' = phase
          /\ status' = status
          /\ actor \in Alive /\ target \in Alive /\ votes[actor] = None
          /\ votes' = [votes EXCEPT ![actor] = target]
          /\ requestId \notin processedRequests
          /\ processedRequests' = processedRequests \cup {requestId}
      BY <2>4 DEF CastVote, CanVote
    <3>2. \A p \in Players : votes'[p] # None =>
            phase' = "VOTING" /\ p \in AliveIn(status')
              /\ votes'[p] \in AliveIn(status')
      BY <3>1 DEF BallotsAreCurrent, Alive, TypeOK
    <3>3. Voters' = Voters \cup {actor}
      BY <3>1, NoneAssumption DEF Voters, TypeOK
    <3>4. actor \notin Voters
      BY <3>1 DEF Voters
    <3>5. Cardinality(Voters') = Cardinality(Voters) + 1
      BY <2>2, <3>3, <3>4, FS_AddElement
    <3>6. Cardinality(processedRequests') = Cardinality(processedRequests) + 1
      BY <3>1, FS_AddElement
    <3>7. Cardinality(Voters') <= Cardinality(processedRequests')
      BY <2>1, <2>2, <2>3, <3>5, <3>6
    <3>8. QED
      BY <3>2, <3>7 DEF BallotsAreCurrent, Voters, Alive
  <2>5. CASE UNCHANGED <<votes, processedRequests, phase, status>>
    BY <2>5 DEF BallotsAreCurrent, Alive, AliveIn
  <2>6. ASSUME votes' = NoVotes, processedRequests' = processedRequests
        PROVE  BallotsAreCurrent'
    <3>1. \A p \in Players : votes'[p] = None
      BY <2>6 DEF NoVotes
    <3>2. Voters' = {}
      BY <3>1 DEF Voters
    <3>3. Cardinality(Voters') <= Cardinality(processedRequests')
      BY <2>1, <2>6, <3>2, FS_EmptySet
    <3>4. QED
      BY <3>1, <3>3 DEF BallotsAreCurrent, Voters
  <2>7. ASSUME phase # "VOTING", UNCHANGED <<votes, processedRequests>>
        PROVE  BallotsAreCurrent'
    <3>1. \A p \in Players : votes[p] = None
      BY <2>7 DEF BallotsAreCurrent
    <3>2. votes = NoVotes
      BY <3>1 DEF NoVotes, TypeOK
    <3>3. QED
      BY <2>6, <2>7, <3>2
  <2>8. CASE VotingToResult
    BY <2>6, <2>8 DEF VotingToResult
  <2>9. CASE NightToDay \/ DayToVoting \/ ResultToNight
    BY <2>7, <2>9 DEF NightToDay, DayToVoting, ResultToNight
  <2>10. QED
    BY <2>4, <2>5, <2>8, <2>9 DEF Next, vars, AdvancePhase,
       SelectNightAction, MarkPlayerDisconnected, MarkPlayerConnected
<1>3. QED
  BY <1>1, <1>2, TypeCorrect, ProcessedIsFinite, PTL DEF Spec

\* FinishedWhenDecided in the code's own terms.
Decided ==
  /\ winner = EvaluateWinner(status)
  /\ (phase = "FINISHED") <=> (EvaluateWinner(status) # None)

\* The inductive form of the property speaks of evaluateWinner; on three cases
\* (no mafia, parity, neither) it is the property as stated.
LEMMA DecidedMeansFinished ==
  ASSUME TypeOK
  PROVE  Decided <=> FinishedWhenDecided
<1> DEFINE mafiaAlive == \E p \in AliveIn(status) : role[p] = "MAFIA"
           few == Cardinality(AliveIn(status)) <= 2
<1>1. EvaluateWinner(status) =
        IF ~mafiaAlive THEN "CITIZEN" ELSE IF few THEN "MAFIA" ELSE None
  BY WinnerOfTheLiving DEF TypeOK
<1>2. FinishedWhenDecided <=>
        /\ (phase = "FINISHED") <=> (~mafiaAlive \/ (mafiaAlive /\ few))
        /\ winner = IF ~mafiaAlive THEN "CITIZEN"
                    ELSE IF mafiaAlive /\ few THEN "MAFIA" ELSE None
  BY DEF FinishedWhenDecided, Alive
<1> HIDE DEF mafiaAlive, few
<1>3. QED
  BY <1>1, <1>2, NoneAssumption DEF Decided

\* evaluateWinner reads nothing but the players.
LEMMA WinnerReadsPlayers ==
  ASSUME role' = role, status' = status
  PROVE  EvaluateWinner(status)' = EvaluateWinner(status)
BY DEF EvaluateWinner, AliveIn

\* Every resolution ends in Settle, which finishes the game exactly when a side
\* has won by the statuses it is given.
LEMMA SettleDecides ==
  ASSUME NEW st, NEW next \in Phases \ {"FINISHED"}, Settle(st, next),
         role' = role
  PROVE  Decided'
<1>1. EvaluateWinner(status)' = EvaluateWinner(st)
  BY DEF Settle, EvaluateWinner, AliveIn
<1>2. QED
  BY <1>1 DEF Settle, Decided

\* The game is over exactly when a team has won, and for that team.
THEOREM FinishedExactlyWhenDecided == Spec => []FinishedWhenDecided
<1>1. Init => Decided
  BY NoWinnerAtStart DEF Init, Decided
<1>2. TypeOK /\ Decided /\ [Next]_vars => Decided'
  <2> SUFFICES ASSUME TypeOK, Decided, [Next]_vars PROVE Decided'
    OBVIOUS
  <2>1. CASE UNCHANGED <<role, status, winner, phase>>
    BY <2>1, WinnerReadsPlayers DEF Decided
  <2>2. CASE NightToDay
    <3>1. CASE NightVictim \in Alive \cup {None}
      <4>1. Settle(AfterDeathOf(NightVictim), "DAY_DISCUSSION") /\ role' = role
        BY <2>2, <3>1 DEF NightToDay
      <4>2. QED
        BY <4>1, SettleDecides DEF Phases
    <3>2. CASE NightVictim \notin Alive \cup {None}
      BY <2>2, <3>2, WinnerReadsPlayers DEF NightToDay, Decided
    <3>3. QED
      BY <3>1, <3>2
  <2>3. CASE VotingToResult
    <3>1. Settle(AfterDeathOf(VotedOut), "RESULT") /\ role' = role
      BY <2>3 DEF VotingToResult
    <3>2. QED
      BY <3>1, SettleDecides DEF Phases
  <2>4. CASE DayToVoting \/ ResultToNight
    <3>1. /\ phase # "FINISHED" /\ phase' # "FINISHED"
          /\ role' = role /\ status' = status /\ winner' = winner
      BY <2>4 DEF DayToVoting, ResultToNight
    <3>2. QED
      BY <3>1, WinnerReadsPlayers DEF Decided
  <2>5. QED
    BY <2>1, <2>2, <2>3, <2>4 DEF Next, vars, AdvancePhase, CastVote,
       SelectNightAction, MarkPlayerDisconnected, MarkPlayerConnected
<1>3. Spec => []Decided
  BY <1>1, <1>2, TypeCorrect, PTL DEF Spec
<1>4. TypeOK /\ Decided => FinishedWhenDecided
  BY DecidedMeansFinished
<1>5. QED
  BY <1>3, <1>4, TypeCorrect, PTL

\* The dead never outnumber the resolutions that have run.
THEOREM DeathsStayWithinResolutions == Spec => []DeathsWithinResolutions
<1>1. Init => DeathsWithinResolutions
  <2> SUFFICES ASSUME Init PROVE DeathsWithinResolutions
    OBVIOUS
  <2>1. Players \ Alive = {}
    BY DEF Init, Alive, AliveIn
  <2>2. Cardinality(Players \ Alive) = 0 /\ phase = "NIGHT" /\ turn = 0
    BY <2>1, FS_EmptySet DEF Init
  <2>3. QED
    BY <2>2 DEF DeathsWithinResolutions
<1>2. TypeOK /\ DeathsWithinResolutions /\ [Next]_vars
        => DeathsWithinResolutions'
  <2> SUFFICES ASSUME TypeOK, DeathsWithinResolutions, [Next]_vars
               PROVE  DeathsWithinResolutions'
    OBVIOUS
  <2> DEFINE dead(st) == Cardinality(Players \ AliveIn(st))
  <2>1. dead(status) \in Nat /\ dead(status') \in Nat
    BY AliveIsFinite
  <2>2. turn \in Nat
    BY DEF TypeOK
  <2>3. dead(status) <= IF phase \in {"DAY_DISCUSSION", "VOTING"}
                        THEN 2 * turn - 1 ELSE 2 * turn
    BY DEF DeathsWithinResolutions, Alive
  <2>4. DeathsWithinResolutions' <=>
          dead(status') <= IF phase' \in {"DAY_DISCUSSION", "VOTING"}
                           THEN 2 * turn' - 1 ELSE 2 * turn'
    BY DEF DeathsWithinResolutions, Alive
  <2>5. ASSUME NEW v \in Players \cup {None}
        PROVE  dead(AfterDeathOf(v)) <= dead(status) + 1
    BY OneMoreDead DEF TypeOK, Statuses, Alive
  <2> HIDE DEF dead
  <2>6. CASE UNCHANGED <<status, phase, turn>>
    BY <2>3, <2>4, <2>6
  <2>7. CASE NightToDay
    <3>1. phase = "NIGHT" /\ turn' = turn + 1 /\ phase' \in Phases
      BY <2>7, SettleFacts DEF NightToDay, Phases
    <3>2. dead(status') <= dead(status) + 1
      <4>1. CASE NightVictim \in Alive \cup {None}
        <5>1. status' = AfterDeathOf(NightVictim)
          BY <2>7, <4>1 DEF NightToDay, Settle
        <5>2. QED
          BY <2>5, <5>1, VictimTypes
      <4>2. CASE NightVictim \notin Alive \cup {None}
        <5>1. status' = status
          BY <2>7, <4>2 DEF NightToDay
        <5>2. QED
          BY <2>1, <5>1
      <4>3. QED
        BY <4>1, <4>2
    <3>3. QED
      BY <2>1, <2>2, <2>3, <2>4, <3>1, <3>2
  <2>8. CASE VotingToResult
    <3>1. /\ phase = "VOTING" /\ turn' = turn
          /\ phase' \in {"RESULT", "FINISHED"}
          /\ status' = AfterDeathOf(VotedOut)
      BY <2>8, SettleFacts DEF VotingToResult, Phases
    <3>2. dead(status') <= dead(status) + 1
      BY <2>5, <3>1, VictimTypes
    <3>3. QED
      BY <2>1, <2>2, <2>3, <2>4, <3>1, <3>2
  <2>9. CASE DayToVoting
    BY <2>3, <2>4, <2>9 DEF DayToVoting
  <2>10. CASE ResultToNight
    BY <2>3, <2>4, <2>10 DEF ResultToNight
  <2>11. QED
    BY <2>6, <2>7, <2>8, <2>9, <2>10 DEF Next, vars, AdvancePhase, CastVote,
       SelectNightAction, MarkPlayerDisconnected, MarkPlayerConnected
<1>3. QED
  BY <1>1, <1>2, TypeCorrect, PTL DEF Spec

-----------------------------------------------------------------------------
(* What a step may never do.                                               *)

\* A victim of the night is a living player or nobody.
LEMMA VictimIsAlive ==
  ASSUME TypeOK, NightTargetsAreCurrent
  PROVE  NightVictim \in Alive \cup {None}
BY DEF NightVictim, NightKeys, NightTargetsAreCurrent

\* A player who is voted out is alive: a ballot names the living.
LEMMA VotedOutIsAlive ==
  ASSUME TypeOK, BallotsAreCurrent
  PROVE  VotedOut \in Alive \cup {None}
<1>1. CASE \E t \in Players : TopTargets = {t}
  <2>1. VotedOut \in Players /\ TopTargets = {VotedOut}
    BY <1>1 DEF VotedOut
  <2>2. VotesFor(VotedOut) # {}
    BY <2>1 DEF TopTargets
  <2>3. PICK p \in Players : votes[p] = VotedOut
    BY <2>2 DEF VotesFor
  <2>4. QED
    BY <2>1, <2>3, NoneAssumption DEF BallotsAreCurrent
<1>2. CASE ~ \E t \in Players : TopTargets = {t}
  BY <1>2 DEF VotedOut
<1>3. QED
  BY <1>1, <1>2

\* A death takes one living player.
LEMMA DeathTakesOne ==
  ASSUME TypeOK, NEW v \in Alive \cup {None}, status' = AfterDeathOf(v),
         phase \in {"NIGHT", "VOTING"}, phase' # phase
  PROVE  OneDeathStep
<1>1. v \in Players \cup {None}
  BY DEF Alive, AliveIn
<1>2. AliveIn(status') = Alive \ {v}
  BY <1>1, OneMoreDead DEF TypeOK, Statuses
<1>3. CASE v = None
  BY <1>2, <1>3 DEF AfterDeathOf, OneDeathStep
<1>4. CASE v \in Alive
  BY <1>2, <1>4 DEF OneDeathStep
<1>5. QED
  BY <1>3, <1>4

\* No step revives a player or costs two lives, and only the end of a night
\* or of a vote costs one.
THEOREM OneDeathAtATime == Spec => OneDeathPerResolution
<1>1. TypeOK /\ NightTargetsAreCurrent /\ BallotsAreCurrent /\ [Next]_vars
        => [OneDeathStep]_vars
  <2> SUFFICES ASSUME TypeOK, NightTargetsAreCurrent, BallotsAreCurrent,
                      [Next]_vars
               PROVE  OneDeathStep
    OBVIOUS
  <2>1. CASE status' = status
    BY <2>1 DEF OneDeathStep, Alive
  <2>2. CASE NightToDay
    <3>1. NightVictim \in Alive \cup {None}
      BY VictimIsAlive
    <3>2. Settle(AfterDeathOf(NightVictim), "DAY_DISCUSSION") /\ phase = "NIGHT"
      BY <2>2, <3>1 DEF NightToDay
    <3>3. status' = AfterDeathOf(NightVictim) /\ phase' # phase
      BY <3>2, SettleFacts DEF Phases
    <3>4. QED
      BY <3>1, <3>2, <3>3, DeathTakesOne
  <2>3. CASE VotingToResult
    <3>1. VotedOut \in Alive \cup {None}
      BY VotedOutIsAlive
    <3>2. Settle(AfterDeathOf(VotedOut), "RESULT") /\ phase = "VOTING"
      BY <2>3 DEF VotingToResult
    <3>3. status' = AfterDeathOf(VotedOut) /\ phase' # phase
      BY <3>2, SettleFacts DEF Phases
    <3>4. QED
      BY <3>1, <3>2, <3>3, DeathTakesOne
  <2>4. QED
    BY <2>1, <2>2, <2>3 DEF Next, vars, AdvancePhase, CastVote,
       SelectNightAction, MarkPlayerDisconnected, MarkPlayerConnected,
       DayToVoting, ResultToNight
<1>2. QED
  BY <1>1, TypeCorrect, NightTargetsStayCurrent, BallotsStayCurrent, PTL
  DEF Spec, OneDeathPerResolution

\* The player the doctor protects outlives the night.
THEOREM DoctorProtects == Spec => ProtectedSurvivesNight
<1>1. TypeOK /\ NightTargetsAreCurrent /\ [Next]_vars => [ProtectedStep]_vars
  <2> SUFFICES ASSUME TypeOK, NightTargetsAreCurrent, [Next]_vars,
                      phase = "NIGHT", phase' # "NIGHT",
                      nightActions["doctorTarget"] # None
               PROVE  status'[nightActions["doctorTarget"]] = "ALIVE"
    BY DEF ProtectedStep
  <2>1. CASE NightToDay
    <3>1. status' = AfterDeathOf(NightVictim)
      BY <2>1, VictimIsAlive DEF NightToDay, Settle
    <3>2. NightVictim # nightActions["doctorTarget"]
      BY DEF NightVictim
    <3>3. nightActions["doctorTarget"] \in Alive
      BY DEF NightTargetsAreCurrent, NightKeys
    <3>4. QED
      BY <3>1, <3>2, <3>3 DEF AfterDeathOf, Alive, AliveIn, TypeOK
  <2>2. QED
    BY <2>1 DEF Next, vars, AdvancePhase, CastVote, SelectNightAction,
       MarkPlayerDisconnected, MarkPlayerConnected, DayToVoting,
       VotingToResult, ResultToNight
<1>2. QED
  BY <1>1, TypeCorrect, NightTargetsStayCurrent, PTL
  DEF Spec, ProtectedSurvivesNight

\* A finished game is frozen, and no choice is replaced within its phase.
THEOREM ChoicesStayFinal == Spec => ChoicesAreFinal
<1>1. TypeOK /\ [Next]_vars => [FinalChoiceStep]_vars
  <2> SUFFICES ASSUME TypeOK, [Next]_vars PROVE FinalChoiceStep
    OBVIOUS
  <2> USE DEF FinalChoiceStep
  <2>1. ASSUME NEW actor \in Players, NEW target \in Players,
               NEW requestId \in RequestIds, CastVote(actor, target, requestId)
        PROVE  FinalChoiceStep
    BY <2>1 DEF CastVote, CanVote, TypeOK
  <2>2. ASSUME NEW actor \in Players, NEW target \in Players,
               NEW key \in NightKeys, SelectNightAction(actor, target, key)
        PROVE  FinalChoiceStep
    BY <2>2 DEF SelectNightAction, CanSelect, TypeOK
  <2>3. CASE NightToDay
    BY <2>3, SettleFacts DEF NightToDay, Phases
  <2>4. CASE VotingToResult
    BY <2>4, SettleFacts DEF VotingToResult, Phases
  <2>5. CASE DayToVoting \/ ResultToNight
    BY <2>5 DEF DayToVoting, ResultToNight
  <2>6. CASE UNCHANGED <<phase, turn, role, status, votes, nightActions,
                         processedRequests, winner>>
    BY <2>6
  <2>7. QED
    BY <2>1, <2>2, <2>3, <2>4, <2>5, <2>6 DEF Next, vars, AdvancePhase,
       MarkPlayerDisconnected, MarkPlayerConnected
<1>2. QED
  BY <1>1, TypeCorrect, PTL DEF Spec, ChoicesAreFinal

-----------------------------------------------------------------------------
(* The tally.                                                              *)

\* The ballots of a target can be counted.
LEMMA BallotsForAreFinite ==
  ASSUME NEW t
  PROVE  IsFiniteSet(VotesFor(t)) /\ Cardinality(VotesFor(t)) \in Nat
<1>1. VotesFor(t) \subseteq Players
  BY DEF VotesFor
<1>2. QED
  BY <1>1, PlayersAssumption, FS_Subset, FS_CardinalityType

\* Two targets share no ballot, and only the living have one.
LEMMA BallotsAreDisjoint ==
  ASSUME BallotsAreCurrent, NEW t \in Players, NEW u \in Players, t # u
  PROVE  Cardinality(VotesFor(t)) + Cardinality(VotesFor(u))
           <= Cardinality(Alive)
<1>1. VotesFor(t) \cap VotesFor(u) = {}
  BY DEF VotesFor
<1>2. VotesFor(t) \cup VotesFor(u) \subseteq Alive
  BY NoneAssumption DEF BallotsAreCurrent, VotesFor
<1>3. IsFiniteSet(Alive) /\ Cardinality(Alive) \in Nat
  BY AliveIsFinite DEF Alive
<1>4. Cardinality(VotesFor(t) \cup VotesFor(u)) <= Cardinality(Alive)
  BY <1>2, <1>3, FS_Subset
<1>5. Cardinality(VotesFor(t) \cap VotesFor(u)) = 0
  BY <1>1, FS_EmptySet
<1> DEFINE A == VotesFor(t)  B == VotesFor(u)
<1>6. IsFiniteSet(A) /\ IsFiniteSet(B) /\ Cardinality(A) \in Nat
        /\ Cardinality(B) \in Nat
  BY BallotsForAreFinite
<1> HIDE DEF A, B
<1>7. Cardinality(A \cup B)
        = Cardinality(A) + Cardinality(B) - Cardinality(A \cap B)
  BY <1>6, FS_Union
<1>8. QED
  BY <1>3, <1>4, <1>5, <1>6, <1>7 DEF A, B

\* A player named by more than half of the living heads the tally alone.
LEMMA MajorityHeadsTally ==
  ASSUME BallotsAreCurrent, NEW t \in Players,
         2 * Cardinality(VotesFor(t)) > Cardinality(Alive)
  PROVE  TopTargets = {t}
<1>1. Cardinality(Alive) \in Nat /\ Cardinality(VotesFor(t)) \in Nat
  BY AliveIsFinite, BallotsForAreFinite DEF Alive
<1>2. ASSUME NEW u \in Players, u # t
      PROVE  Cardinality(VotesFor(u)) < Cardinality(VotesFor(t))
  <2>1. Cardinality(VotesFor(t)) + Cardinality(VotesFor(u))
          <= Cardinality(Alive)
    BY <1>2, BallotsAreDisjoint
  <2>2. Cardinality(VotesFor(u)) \in Nat
    BY BallotsForAreFinite
  <2>3. QED
    BY <1>1, <2>1, <2>2
<1>3. VotesFor(t) # {}
  <2>1. Cardinality(VotesFor(t)) # 0
    BY <1>1
  <2>2. QED
    BY <2>1, FS_EmptySet
<1>4. t \in TopTargets
  <2>1. ASSUME NEW u \in Players
        PROVE  Cardinality(VotesFor(t)) >= Cardinality(VotesFor(u))
    <3>1. Cardinality(VotesFor(u)) \in Nat
      BY BallotsForAreFinite
    <3>2. QED
      BY <1>1, <1>2, <3>1
  <2>2. QED
    BY <1>3, <2>1 DEF TopTargets
<1>5. ASSUME NEW u \in TopTargets PROVE u = t
  <2>1. Cardinality(VotesFor(u)) >= Cardinality(VotesFor(t)) /\ u \in Players
    BY <1>5 DEF TopTargets
  <2>2. Cardinality(VotesFor(u)) \in Nat
    BY BallotsForAreFinite
  <2>3. QED
    BY <1>1, <1>2, <2>1, <2>2
<1>6. QED
  BY <1>4, <1>5

\* A sole head of the tally has more ballots than any other player.
LEMMA SoleHeadLeads ==
  ASSUME NEW t \in Players, TopTargets = {t}, NEW u \in Players \ {t}
  PROVE  Cardinality(VotesFor(u)) < Cardinality(VotesFor(t))
<1>1. /\ VotesFor(t) # {}
      /\ \A w \in Players : Cardinality(VotesFor(t)) >= Cardinality(VotesFor(w))
  BY DEF TopTargets
<1>2. /\ Cardinality(VotesFor(u)) \in Nat /\ Cardinality(VotesFor(t)) \in Nat
      /\ IsFiniteSet(VotesFor(u)) /\ IsFiniteSet(VotesFor(t))
  BY BallotsForAreFinite
<1>3. CASE VotesFor(u) = {}
  <2>1. Cardinality(VotesFor(u)) = 0
    BY <1>3, FS_EmptySet
  <2>2. Cardinality(VotesFor(t)) # 0
    BY <1>1, <1>2, FS_EmptySet
  <2>3. QED
    BY <1>2, <2>1, <2>2
<1>4. CASE VotesFor(u) # {}
  <2>1. u \notin TopTargets
    OBVIOUS
  <2>2. PICK w \in Players :
          ~(Cardinality(VotesFor(u)) >= Cardinality(VotesFor(w)))
    BY <1>4, <2>1 DEF TopTargets
  <2>3. Cardinality(VotesFor(w)) \in Nat
    BY BallotsForAreFinite
  <2>4. QED
    BY <1>1, <1>2, <2>2, <2>3
<1>5. QED
  BY <1>3, <1>4

\* A majority of the living decides the vote, and a tie spares everybody.
THEOREM MajorityDecides == Spec => MajorityIsExecuted
<1>1. TypeOK /\ BallotsAreCurrent /\ [Next]_vars => [MajorityStep]_vars
  <2> SUFFICES ASSUME TypeOK, BallotsAreCurrent, [Next]_vars,
                      phase = "VOTING", phase' # "VOTING", NEW t \in Players
               PROVE
                 /\ 2 * Cardinality(VotesFor(t)) > Cardinality(Alive)
                      => status'[t] = "DEAD"
                 /\ status'[t] # status[t] =>
                      \A u \in Players \ {t} :
                        Cardinality(VotesFor(u)) < Cardinality(VotesFor(t))
    BY DEF MajorityStep
  <2>1. VotingToResult
    BY DEF Next, vars, AdvancePhase, CastVote, SelectNightAction,
       MarkPlayerDisconnected, MarkPlayerConnected, DayToVoting, NightToDay,
       ResultToNight
  <2>2. status' = AfterDeathOf(VotedOut)
    BY <2>1 DEF VotingToResult, Settle
  <2>3. ASSUME TopTargets = {t} PROVE VotedOut = t
    BY <2>3 DEF VotedOut
  <2>4. ASSUME 2 * Cardinality(VotesFor(t)) > Cardinality(Alive)
        PROVE  status'[t] = "DEAD"
    <3>1. VotedOut = t
      BY <2>3, <2>4, MajorityHeadsTally
    <3>2. QED
      BY <2>2, <3>1, NoneAssumption DEF AfterDeathOf, TypeOK
  <2>5. ASSUME status'[t] # status[t]
        PROVE  TopTargets = {t}
    <3>1. VotedOut = t
      BY <2>2, <2>5, VictimTypes DEF AfterDeathOf, TypeOK
    <3>2. t # None
      BY NoneAssumption
    <3>3. \E w \in Players : TopTargets = {w}
      BY <3>1, <3>2 DEF VotedOut
    <3>4. QED
      BY <3>1, <3>3 DEF VotedOut
  <2>6. QED
    BY <2>4, <2>5, SoleHeadLeads
<1>2. QED
  BY <1>1, TypeCorrect, BallotsStayCurrent, PTL DEF Spec, MajorityIsExecuted

-----------------------------------------------------------------------------
(* Guards, hints and the client's actions agree in every state, reachable  *)
(* or not: nothing is asked of the rest of the session.  The three kinds   *)
(* of hints do not mix.                                                    *)

\* A hint to vote comes from VoteOffers alone.
LEMMA VoteHint ==
  ASSUME NEW p \in Playing, NEW t
  PROVE  <<"CAST_VOTE", t>> \in BuildForPlayer(p)
           <=> phase = "VOTING" /\ p \in Alive /\ t \in Alive
<1>1. <<"CAST_VOTE", t>> \in VoteOffers(p)
        <=> phase = "VOTING" /\ p \in Alive /\ t \in Alive
  BY DEF VoteOffers, ToTarget
<1>2. <<"CAST_VOTE", t>> \notin NightOffers(p)
  BY DEF NightOffers, ToTarget, ToChannel
<1>3. <<"CAST_VOTE", t>> \notin ChatOffers(p)
  BY DEF ChatOffers, ToChannel
<1>4. QED
  BY <1>1, <1>2, <1>3 DEF BuildForPlayer, Playing

\* A hint to choose a target comes from NightOffers alone, from its branch for the
\* role the command is for; only the doctor is offered himself.
LEMMA TargetHint ==
  ASSUME NEW p \in Playing, NEW t, NEW key \in NightKeys
  PROVE  <<CommandOf(key), t>> \in BuildForPlayer(p)
           <=> /\ phase = "NIGHT" /\ p \in Alive /\ t \in Alive
               /\ role[p] = RoleOf(key)
               /\ t = p => key = "doctorTarget"
<1>1. <<CommandOf(key), t>> \notin VoteOffers(p)
  BY DEF VoteOffers, ToTarget, CommandOf, NightKeys
<1>2. <<CommandOf(key), t>> \notin ChatOffers(p)
  BY DEF ChatOffers, ToChannel, CommandOf, NightKeys
<1>3. <<CommandOf(key), t>> \in NightOffers(p)
        <=> /\ phase = "NIGHT" /\ p \in Alive /\ t \in Alive
            /\ role[p] = RoleOf(key)
            /\ t = p => key = "doctorTarget"
  BY DEF NightOffers, ToTarget, ToChannel, CommandOf, RoleOf, NightKeys
<1>4. QED
  BY <1>1, <1>2, <1>3 DEF BuildForPlayer, Playing

\* A channel is offered exactly when its handler takes a message for it.
LEMMA ChatHint ==
  ASSUME NEW p \in Playing, NEW c \in GameChannels
  PROVE  ToChannel(c) \in BuildForPlayer(p) <=> CanChat(p, c)
<1>1. ToChannel(c) \notin VoteOffers(p)
  BY DEF VoteOffers, ToTarget, ToChannel
<1>2. ToChannel(c) \in NightOffers(p)
        <=> c = "MAFIA" /\ phase = "NIGHT" /\ p \in Alive /\ role[p] = "MAFIA"
  BY DEF NightOffers, ToTarget, ToChannel
<1>3. ToChannel(c) \in ChatOffers(p)
        <=> \/ c = "DAY" /\ phase = "DAY_DISCUSSION" /\ p \in Alive
            \/ c = "GHOST" /\ p \notin Alive
  BY DEF ChatOffers, ToChannel
<1>4. QED
  BY <1>1, <1>2, <1>3 DEF BuildForPlayer, Playing, CanChat, GameChannels

\* The hints of a snapshot are what the guards of the handlers take.
THEOREM HintsAreTheGuards == Spec => []HintsAreGuards
<1>1. AcceptableIsOffered
  BY VoteHint, TargetHint, ChatHint DEF AcceptableIsOffered, CanVote, CanSelect
<1>2. OfferedIsAcceptable
  BY VoteHint, TargetHint, ChatHint DEF OfferedIsAcceptable, CanVote, CanSelect
<1>3. HintsAreGuards
  BY <1>1, <1>2 DEF HintsAreGuards
<1>4. QED
  BY <1>3, PTL

\* The actions the client derives from its view are those the service offers.
THEOREM TheClientOffersTheSame == Spec => []ClientOffersTheSame
<1>1. ASSUME NEW p \in Players
      PROVE  DeriveAvailableActions(p) = BuildForPlayer(p)
  <2>1. CASE p \in Offline \/ phase = "FINISHED"
    BY <2>1 DEF DeriveAvailableActions, BuildForPlayer
  <2>2. CASE ~(p \in Offline \/ phase = "FINISHED") /\ p \notin Alive
    BY <2>2 DEF DeriveAvailableActions, BuildForPlayer, VoteOffers, NightOffers, ChatOffers
  <2>3. CASE ~(p \in Offline \/ phase = "FINISHED") /\ p \in Alive
    <3>1. DeriveAvailableActions(p) = DerivePhaseActions(p)
      BY <2>3 DEF DeriveAvailableActions
    <3>2. BuildForPlayer(p) = VoteOffers(p) \cup NightOffers(p) \cup ChatOffers(p)
      BY <2>3 DEF BuildForPlayer
    <3>3. QED
      BY <2>3, <3>1, <3>2 DEF DerivePhaseActions, VoteOffers, NightOffers, ChatOffers
  <2>4. QED
    BY <2>1, <2>2, <2>3
<1>2. ClientOffersTheSame
  BY <1>1 DEF ClientOffersTheSame
<1>3. QED
  BY <1>2, PTL
=============================================================================
