--------------------------- MODULE PlayClientProofs ---------------------------
(***************************************************************************)
(* What the page of PlayClient shows, for any users, phases, connections   *)
(* and commands.                                                           *)
(***************************************************************************)
EXTENDS PlayClient, SequenceTheorems, TLAPS

-----------------------------------------------------------------------------
(* The inductive invariant.                                                *)

\* Events, as they are sent.
Events ==
  [type : {"room:updated"}, room : Rooms]
    \cup [type : {"game:started", "role:assigned", "game:finished"}]
    \cup [type : {"phase:changed"}, phase : Phases, turn : Nat]
    \cup [type : {"resolved"}, attacked : Users \cup {None}, dead : Users \cup {None}]
    \cup [type : {"answer"}, id : Ids, accepted : BOOLEAN]
    \cup [type : {"state"}, session : Sessions, built : BOOLEAN]

\* Events that make something of the view.
GameEvents == {"game:started", "role:assigned", "phase:changed", "resolved", "game:finished"}

\* Is e in the row q, is no event of a type in it?
In(e, q) == \E k \in 1..Len(q) : q[k] = e
Without(type, q) == \A k \in 1..Len(q) : q[k].type # type

\* The place of a phase in its turn.
Rank(phase) ==
  CASE phase = "DAY_DISCUSSION" -> 1
    [] phase = "VOTING"         -> 2
    [] phase = "RESULT"         -> 3
    [] phase = "NIGHT"          -> 4
    [] phase = "FINISHED"       -> 5
    [] OTHER                    -> 0

\* Has s come as far as this phase of this turn?
NotAfter(turn, phase, s) ==
  turn < s.turn \/ (turn = s.turn /\ Rank(phase) <= Rank(s.phase))

\* A session the game has gone through, or a view that has missed parts of it.
Behind(s) ==
  /\ s \in Sessions /\ s.dead \subseteq s.players
  /\ s.dead \subseteq session.dead /\ NotAfter(s.turn, s.phase, session)

\* A session that was read: none before the game, me's own in it.
Read(s) == Behind(s) /\ (s = NoSession \/ (InGame /\ me \in s.players))

\* What an event on its way says has happened.
True(e) ==
  /\ e.type \in GameEvents => InGame
  /\ e.type = "phase:changed" => NotAfter(e.turn, e.phase, session)
  /\ e.type = "resolved" => e.dead \in session.dead \cup {None}
  /\ e.type = "game:finished" => session.phase = "FINISHED"
  /\ e.type = "answer" => commands[e.id].step = "answered"
  /\ e.type = "state" => Read(e.session)

\* Events that are true may be on their way.
News == {e \in Events : True(e)}

\* No copy and no event is ahead of the session.
NewsInv ==
  /\ TypeOK
  /\ me \in room.members /\ session.phase # "WAITING"
  /\ InGame => me \in session.players /\ NotAfter(0, "NIGHT", session)
  /\ ~InGame => session = NoSession /\ viewSession = NoSession
  /\ Read(snapshot) /\ Behind(viewSession)
  /\ outbox \in Seq(News) /\ inbox \in Seq(News)

\* The effects still to be emitted, at each point of a handler.
NewGame == [phase |-> "NIGHT", turn |-> 0, players |-> room.members, dead |-> {}, role |-> TRUE]
Starting == <<GameStarted, RoleAssigned, RoomUpdated(room)>>
LobbyEffects ==
  {<<>>, <<RoomUpdated(room)>>}
    \cup {<<RoomUpdated(room), Answer(i, TRUE)>> : i \in Ids}
    \cup {<<Answer(i, TRUE)>> : i \in Ids} \cup {<<Answer(i, FALSE)>> : i \in Ids}
StartEffects == {Starting, <<RoleAssigned, RoomUpdated(room)>>, <<RoomUpdated(room)>>}
Effects(phase, attacked, dead) ==
  LET change == PhaseChanged(phase, session.turn)
      outcome == Resolved(attacked, dead)
  IN  \/ outbox = <<>> /\ work = "none"
      \/ outbox = <<change>> /\ work \in {"none", "resolve"} /\ phase = session.phase
      \/ outbox = <<change, outcome>> /\ work \in {"none", "finish"} /\ phase = session.phase
      \/ outbox = <<outcome>> /\ work = "none"
      \/ /\ \/ outbox = <<change, outcome, GameFinished>>
            \/ outbox = <<outcome, GameFinished>>
            \/ outbox = <<GameFinished>>
         /\ work = "none" /\ session.phase = "FINISHED"

\* The outbox is a tail of the effects of one handler, and its saves are made in order.
OutboxInv ==
  \/ ~InGame /\ outbox \in LobbyEffects /\ work = "none"
  \/ InGame /\ outbox \in StartEffects /\ work = "none" /\ session = NewGame
  \/ /\ InGame
     /\ \E phase \in Phases, attacked \in Users \cup {None}, dead \in session.dead \cup {None} :
          Effects(phase, attacked, dead)

\* Has the start of the game been emitted?
Announced == InGame /\ outbox # Starting

\* A socket hears nothing it has not joined for; nothing of a game comes before its start.
SilenceInv ==
  /\ pc # "up" => Without("state", inbox)
  /\ pc \in {"down", "joinedUser"} => Without("room:updated", inbox)
  /\ ~Announced => \A type \in GameEvents : Without(type, inbox)

\* Before the start is announced, a page with a game has its players.
SeatedInv == ~Announced => viewSession = NoSession \/ viewSession.players # {}

\* The answer to this click of me is not accepted yet, as far as is known.
AwaitsAnswer(i) ==
  commands[i].waits /\ ~In(Answer(i, TRUE), inbox) /\ ~In(Answer(i, TRUE), outbox)

\* The last event of its type.
ComesLast(e, q) ==
  \E k \in 1..Len(q) : q[k] = e /\ \A j \in (k + 1)..Len(q) : q[j].type # e.type

\* The last news of the room is the room; or the page has it; or it will ask for it.
RoomComes == ComesLast(RoomUpdated(room), inbox)
RoomIsShown ==
  /\ Without("room:updated", inbox)
  /\ viewRoom = room
  /\ \A n \in Connections : fetches[n].step = "answered" => fetches[n].room = room
  /\ "rollback" \in races \/ isReady = room.ready \/ \E i \in Ids : AwaitsAnswer(i)
Asks(e) == e.type = "state" /\ e.built
AskComes(q) ==
  \E k \in 1..Len(q) : Asks(q[k]) /\ \A j \in (k + 1)..Len(q) : q[j].type # "room:updated"
RoomIsDue ==
  \/ AskComes(inbox)
  \/ /\ Without("room:updated", inbox)
     /\ \/ \E n \in Connections : fetches[n].step = "asked"
        \/ \E n \in Connections : fetches[n].step = "answered" /\ fetches[n].room = room

\* The page is in the lobby, and neither a race nor a failure has cost it the room.
RoomCounts ==
  /\ ~Announced /\ (InGame \/ Without("room:updated", outbox)) /\ viewSession = NoSession
  /\ pc = "up" /\ races \cap {"fetch", "unbuilt", "unsent"} = {}

\* The room of such a page is shown, or on its way to it.
LobbyInv == RoomCounts => RoomComes \/ RoomIsShown \/ RoomIsDue

\* A snapshot with a session: it takes the place of the view.
IsReset(e) == e.type = "state" /\ e.session # NoSession
ResetIn(q) == \E k \in 1..Len(q) : IsReset(q[k])
ResetComes == ResetIn(inbox)

\* What a page whose room has the members `seats` makes of an event.
Normalized(seats, v) ==
  IF v.players # {} THEN v
  ELSE [v EXCEPT !.phase = IF @ = "NONE" THEN "WAITING" ELSE @,
                 !.players = seats,
                 !.role = FALSE]
After(seats, v, e) ==
  CASE e.type = "game:started"  -> [Normalized(seats, v) EXCEPT !.phase = "NIGHT", !.turn = 0]
    [] e.type = "role:assigned" -> [Normalized(seats, v) EXCEPT
                                      !.role = @ \/ me \in Normalized(seats, v).players]
    [] e.type = "phase:changed" -> [Normalized(seats, v) EXCEPT !.phase = e.phase, !.turn = e.turn]
    [] e.type = "resolved"      -> IF e.dead = None THEN v
                                   ELSE WithDead(Normalized(seats, v), e.dead)
    [] e.type = "game:finished" -> IF v = NoSession THEN v ELSE [v EXCEPT !.phase = "FINISHED"]
    [] IsReset(e)               -> e.session
    [] OTHER                    -> v

\* The events of q make s of v, whatever is lost before a snapshot among them.
Leads(seats, q, v, s) ==
  \E f : /\ f[Len(q)] = s
         /\ f[0] = v \/ \E j \in 1..Len(q) : IsReset(q[j])
         /\ \A k \in 1..Len(q) : \/ f[k] = After(seats, f[k - 1], q[k])
                                 \/ \E j \in (k + 1)..Len(q) : IsReset(q[j])

\* The page has the room r, or gets it before the first event of the game, and
\* no other after it.
SeatsIn(q, shown, r) ==
  /\ Without("state", q)
  /\ \/ /\ shown = r
        /\ \A j \in 1..Len(q) : q[j].type = "room:updated" => q[j].room = r
     \/ \E k \in 1..Len(q) :
          /\ q[k] = RoomUpdated(r)
          /\ \A j \in 1..(k - 1) : q[j].type \notin GameEvents
          /\ \A j \in k..Len(q) : q[j].type = "room:updated" => q[j].room = r

\* It has, or gets, the room, and no answer of GET /rooms will take it away.
SeatsAreKnown ==
  /\ SeatsIn(inbox, viewRoom, room)
  /\ \A n \in Connections : fetches[n].step = "none"

\* The snapshot that was read leads to the session, if there was one to read.
SnapshotLeads ==
  IF snapshot # NoSession THEN Leads(room.members, outbox, snapshot, session)
  ELSE ~Announced /\ viewSession = NoSession

\* What is on its way to the page, and then what is still to be emitted, makes the
\* session of its view.
ViewLeads ==
  \E s :
    /\ Leads(room.members, inbox, viewSession, s)
    /\ Leads(room.members, outbox, s, session)

\* The page has its snapshot, or it comes, and none of the races has happened since.
GameCounts == pc = "up" /\ (races \cap {"unbuilt", "unseated"} = {} \/ ResetComes)

\* What was read, or is shown, and what is on its way make the session.
GameInv ==
  InGame /\ races \cap {"overtaken", "unsent"} = {} =>
    /\ pc = "reading" => SnapshotLeads
    /\ GameCounts => ViewLeads
    /\ GameCounts /\ Announced /\ viewSession.players = {} /\ ~ResetComes => SeatsAreKnown

-----------------------------------------------------------------------------
(* What has happened, and what is said of it.                              *)

\* The place of any phase, one of the turn or not, is a small number.
LEMMA Ranks == \A phase : Rank(phase) \in 0..5
BY DEF Rank

\* The fields of an event.
LEMMA EventFields ==
  ASSUME NEW e \in Events
  PROVE  /\ e.type \in GameEvents \cup {"room:updated", "answer", "state"}
         /\ e.type = "room:updated" => e.room \in Rooms /\ e = RoomUpdated(e.room)
         /\ e.type = "phase:changed" => e.phase \in Phases /\ e.turn \in Nat
         /\ e.type = "resolved" => e.dead \in Users \cup {None}
         /\ e.type = "answer" => e.id \in Ids /\ e.accepted \in BOOLEAN
                                 /\ e = Answer(e.id, e.accepted)
         /\ e.type = "state" => e.session \in Sessions /\ e.built \in BOOLEAN
BY DEF Events, GameEvents, RoomUpdated, Answer

\* What the server sends are events.
LEMMA EventsAreEvents ==
  /\ \A r \in Rooms : RoomUpdated(r) \in Events
  /\ {GameStarted, RoleAssigned, GameFinished} \subseteq Events
  /\ \A phase \in Phases, turn \in Nat : PhaseChanged(phase, turn) \in Events
  /\ \A attacked, dead \in Users \cup {None} : Resolved(attacked, dead) \in Events
  /\ \A i \in Ids, accepted \in BOOLEAN : Answer(i, accepted) \in Events
  /\ \A s \in Sessions, built \in BOOLEAN : ReconnectState(s, built) \in Events
BY DEF Events, RoomUpdated, GameStarted, RoleAssigned, GameFinished, PhaseChanged, Resolved,
       Answer, ReconnectState

\* Sequences over a set are sequences over a larger one.
LEMMA SeqWider ==
  ASSUME NEW S, NEW T, S \subseteq T
  PROVE  Seq(S) \subseteq Seq(T)
<1>1. ASSUME NEW s \in Seq(S) PROVE s \in Seq(T)
  <2>1. s \in [1..Len(s) -> T] /\ Len(s) \in Nat
    OBVIOUS
  <2>2. QED
    BY <2>1, SeqDef
<1>2. QED
  BY <1>1

\* Events put into a row and taken from it are of its set.
LEMMA Queues ==
  ASSUME NEW S
  PROVE  /\ \A q \in Seq(S), e \in S : Append(q, e) \in Seq(S)
         /\ \A q \in Seq(S) : q # <<>> => Head(q) \in S /\ Tail(q) \in Seq(S)
         /\ \A a, b, c \in S : {<<>>, <<a>>, <<a, b>>, <<a, b, c>>} \subseteq Seq(S)
OBVIOUS

\* Once the game goes on, what was true of it stays true.
LEMMA NewsStaysTrue ==
  ASSUME NewsInv, session' \in Sessions, session.dead \subseteq session'.dead,
         NotAfter(session.turn, session.phase, session'), InGame => InGame',
         session.phase = "FINISHED" => session'.phase = "FINISHED",
         \A i \in Ids : commands[i].step = "answered" => commands'[i].step = "answered"
  PROVE  /\ \A s : (Behind(s) => Behind(s)') /\ (Read(s) => Read(s)')
         /\ \A turn \in Nat : \A phase :
              NotAfter(turn, phase, session) => NotAfter(turn, phase, session')
         /\ News \subseteq News' /\ Seq(News) \subseteq Seq(News')
<1>0. session.turn \in Nat /\ session'.turn \in Nat
  BY DEF NewsInv, TypeOK, Sessions
<1>1. \A turn \in Nat : \A phase : NotAfter(turn, phase, session) => NotAfter(turn, phase, session')
  BY <1>0, Ranks DEF NotAfter
<1>2. \A s : Behind(s) => Behind(s)'
  BY <1>1 DEF Behind, Sessions
<1>3. \A s : Read(s) => Read(s)'
  BY <1>2 DEF Read
<1>4. ASSUME NEW e \in News PROVE e \in News'
  <2>1. e \in Events /\ True(e)
    BY DEF News
  <2>2. True(e)'
    <3>1. e.type = "phase:changed" => NotAfter(e.turn, e.phase, session')
      BY <1>1, <2>1, EventFields DEF True
    <3>2. e.type = "answer" => commands'[e.id].step = "answered"
      BY <2>1, EventFields DEF True
    <3>3. e.type = "state" => Read(e.session)'
      BY <1>3, <2>1 DEF True
    <3>4. e.type = "resolved" => e.dead \in session'.dead \cup {None}
      BY <2>1 DEF True
    <3>5. QED
      BY <2>1, <3>1, <3>2, <3>3, <3>4 DEF True
  <2>3. QED
    BY <2>1, <2>2 DEF News, Events
<1>5. QED
  BY <1>1, <1>2, <1>3, <1>4, SeqWider

\* Nothing has happened yet and nothing is said.
LEMMA NewsInit == Init => NewsInv
<1> SUFFICES ASSUME Init PROVE NewsInv
  OBVIOUS
<1> USE UsersAssumption, BoundsAssumption DEF Init
<1>1. NoSession \in Sessions /\ NoRoom \in Rooms /\ room \in Rooms /\ 0 \in Connections
  BY DEF Rooms, Users, Sessions, NoSession, Phases, Connections, NoRoom
<1>a. /\ fetches \in [Connections -> [step : {"none", "asked", "answered"}, room : Rooms]]
      /\ commands \in [Ids -> [step : {"unsent", "sent", "answered"}, ready : BOOLEAN,
                           waits : BOOLEAN, socket : Connections]]
  BY <1>1 DEF NoFetch, NoCommand
<1>b. TypeOK
  <2>1. NoSession.dead \subseteq NoSession.players
    BY DEF NoSession
  <2>2. /\ {moves, transitions, failures} \subseteq {0}
        /\ 0 \in 0..MaxMoves /\ 0 \in 0..MaxTransitions /\ 0 \in 0..MaxFailures
    OBVIOUS
  <2>3. QED
    BY <1>1, <1>a, <2>1, <2>2 DEF TypeOK
<1>2. Read(snapshot) /\ Behind(viewSession)
  BY <1>1, Ranks DEF Read, Behind, NotAfter, NoSession
<1>3. QED
  BY <1>b, <1>2 DEF NewsInv, InGame, NoSession, Users

\* The steps of the server.
LEMMA NewsOfServer ==
  ASSUME NewsInv, OutboxInv,
         \/ \E u \in Others : OthersMove(u)
         \/ StartGame \/ AdvancePhase \/ Resolve \/ FinishGame \/ Emit \/ HandlerFails
         \/ \E i \in Ids : ChangeReady(i)
  PROVE  NewsInv'
<1> USE UsersAssumption, BoundsAssumption
<1>0. /\ TypeOK /\ session \in Sessions /\ session.turn \in Nat
      /\ work # "none" => InGame
      /\ outbox \in Seq(News) /\ inbox \in Seq(News)
      /\ Read(snapshot) /\ Behind(viewSession) /\ me \in room.members
  BY DEF NewsInv, TypeOK, Sessions, OutboxInv
<1>1. ASSUME NEW u \in Others, OthersMove(u) PROVE NewsInv'
  <2>1. News \subseteq News' /\ Seq(News) \subseteq Seq(News')
        /\ Read(snapshot)' /\ Behind(viewSession)'
    BY <1>0, <1>1, NewsStaysTrue, Ranks DEF OthersMove, NotAfter, connecting, page
  <2>2. room' \in Rooms /\ me \in room'.members
    BY <1>0, <1>1 DEF OthersMove, TypeOK, Rooms, Users
  <2>3. RoomUpdated(room') \in News'
    BY <2>2, EventsAreEvents DEF News, True, RoomUpdated, GameEvents
  <2>4. outbox' \in Seq(News') /\ inbox' \in Seq(News')
    BY <1>0, <1>1, <2>1, <2>3 DEF OthersMove
  <2>5. TypeOK'
    BY <1>0, <1>1, <2>2 DEF OthersMove, TypeOK, connecting, page
  <2>6. QED
    BY <1>1, <2>1, <2>2, <2>4, <2>5 DEF NewsInv, OthersMove, page, connecting, InGame
<1>2. CASE StartGame
  <2>0. session = NoSession /\ viewSession = NoSession /\ ~InGame /\ room' = room
    BY <1>2 DEF StartGame, NewsInv
  <2>1. /\ session' = NewGame /\ NewGame \in Sessions /\ InGame'
        /\ NotAfter(0, "NONE", NewGame) /\ NotAfter(0, "NIGHT", NewGame)
    BY <1>0, <1>2, Ranks DEF StartGame, NewGame, Sessions, TypeOK, Rooms, Phases, InGame,
                             NotAfter, Rank
  <2>2. News \subseteq News' /\ Seq(News) \subseteq Seq(News')
        /\ Read(snapshot)' /\ Behind(viewSession)'
    BY <1>0, <1>2, <2>0, <2>1, NewsStaysTrue DEF StartGame, connecting, page, NoSession
  <2>3. GameStarted \in News' /\ RoleAssigned \in News' /\ RoomUpdated(room) \in News'
    BY <1>0, <2>0, <2>1, EventsAreEvents
    DEF News, True, RoomUpdated, GameStarted, RoleAssigned, GameEvents, TypeOK
  <2>4. outbox' \in Seq(News') /\ inbox' \in Seq(News')
    BY <1>0, <1>2, <2>2, <2>3 DEF StartGame
  <2>5. TypeOK'
    BY <1>0, <1>2, <2>1 DEF StartGame, TypeOK, connecting, page, NewGame
  <2>6. QED
    BY <1>0, <1>2, <2>1, <2>2, <2>4, <2>5 DEF NewsInv, StartGame, page, connecting, NewGame
<1>3. CASE AdvancePhase
  <2>0. /\ InGame /\ me \in session.players /\ NotAfter(0, "NIGHT", session)
        /\ session.phase \in {"NIGHT", "DAY_DISCUSSION", "VOTING", "RESULT"}
    BY <1>0, <1>3 DEF AdvancePhase, InGame, NewsInv, Sessions, Phases
  <2>1. PICK phase, turn : session' = [session EXCEPT !.phase = phase, !.turn = turn]
                           /\ phase = NextPhase(session.phase)
                           /\ turn = (IF session.phase = "NIGHT" THEN session.turn + 1
                                      ELSE session.turn)
    BY <1>3 DEF AdvancePhase
  <2>2. /\ phase \in {"NIGHT", "DAY_DISCUSSION", "VOTING", "RESULT"} /\ turn \in Nat
        /\ session.turn < turn \/ (session.turn = turn /\ Rank(session.phase) <= Rank(phase))
    BY <1>0, <2>0, <2>1 DEF NextPhase, Rank
  <2>3. /\ session' \in Sessions /\ session'.phase = phase /\ session'.turn = turn
        /\ session'.dead = session.dead /\ session'.players = session.players /\ InGame'
        /\ session'.role = session.role
    BY <1>0, <2>1, <2>2 DEF Sessions, Phases, InGame
  <2>4. NotAfter(session.turn, session.phase, session')
    BY <2>2, <2>3 DEF NotAfter
  <2>5. /\ News \subseteq News' /\ Seq(News) \subseteq Seq(News')
        /\ Read(snapshot)' /\ Behind(viewSession)' /\ NotAfter(0, "NIGHT", session')
    BY <1>0, <1>3, <2>0, <2>3, <2>4, NewsStaysTrue DEF AdvancePhase, connecting, page
  <2>6. PhaseChanged(session'.phase, session'.turn) \in News'
    BY <2>2, <2>3, EventsAreEvents, Ranks
    DEF News, True, PhaseChanged, GameEvents, NotAfter, Phases
  <2>7. outbox' \in Seq(News') /\ inbox' \in Seq(News')
    BY <1>0, <1>3, <2>5, <2>6 DEF AdvancePhase
  <2>8. TypeOK'
    BY <1>0, <1>3, <2>3 DEF AdvancePhase, TypeOK, connecting, page
  <2>9. QED
    BY <1>0, <1>3, <2>0, <2>2, <2>3, <2>5, <2>7, <2>8 DEF NewsInv, AdvancePhase, page, connecting
<1>4. CASE Resolve
  <2>0. InGame /\ me \in session.players /\ NotAfter(0, "NIGHT", session)
    BY <1>0, <1>4 DEF Resolve, NewsInv
  <2>a. PICK attacked \in (session.players \ session.dead) \cup {None} :
          \E dead \in {attacked, None} :
            /\ session' = [session EXCEPT !.dead = @ \cup ({dead} \ {None})]
            /\ outbox' = Append(outbox, Resolved(attacked, dead))
            /\ work' \in {"none", "finish"}
    BY <1>4 DEF Resolve
  <2>1. PICK dead \in {attacked, None} :
          /\ session' = [session EXCEPT !.dead = @ \cup ({dead} \ {None})]
          /\ outbox' = Append(outbox, Resolved(attacked, dead))
          /\ work' \in {"none", "finish"}
    BY <2>a
  <2>2. /\ session' \in Sessions /\ session'.phase = session.phase /\ session'.turn = session.turn
        /\ session'.dead = session.dead \cup ({dead} \ {None}) /\ session'.dead \subseteq session'.players
        /\ session'.players = session.players /\ InGame'
    BY <1>0, <2>0, <2>1 DEF Sessions, InGame, TypeOK
  <2>3. /\ News \subseteq News' /\ Seq(News) \subseteq Seq(News')
        /\ Read(snapshot)' /\ Behind(viewSession)' /\ NotAfter(0, "NIGHT", session')
    <3>1. NotAfter(session.turn, session.phase, session') /\ NotAfter(0, "NIGHT", session')
      BY <1>0, <2>0, <2>2, Ranks DEF NotAfter
    <3>2. QED
      BY <1>0, <1>4, <2>0, <2>2, <3>1, NewsStaysTrue DEF Resolve, connecting, page
  <2>4. attacked \in Users \cup {None} /\ dead \in Users \cup {None}
    BY <1>0, <2>1 DEF Sessions
  <2>5. Resolved(attacked, dead) \in News'
    <3>1. Resolved(attacked, dead) \in Events /\ Resolved(attacked, dead).type = "resolved"
          /\ Resolved(attacked, dead).dead = dead
      BY <2>4, EventsAreEvents DEF Resolved
    <3>2. QED
      BY <2>2, <3>1 DEF News, True, Events
  <2>6. outbox' \in Seq(News') /\ inbox' \in Seq(News')
    BY <1>0, <1>4, <2>1, <2>3, <2>5 DEF Resolve
  <2>7. TypeOK'
    BY <1>0, <1>4, <2>1, <2>2 DEF Resolve, TypeOK, connecting, page
  <2>8. QED
    BY <1>0, <1>4, <2>0, <2>2, <2>3, <2>6, <2>7 DEF NewsInv, Resolve, page, connecting
<1>5. CASE FinishGame
  <2>0. InGame /\ me \in session.players /\ NotAfter(0, "NIGHT", session)
    BY <1>0, <1>5 DEF FinishGame, NewsInv
  <2>1. /\ session' \in Sessions /\ session'.phase = "FINISHED" /\ session'.turn = session.turn
        /\ session'.dead = session.dead /\ session'.players = session.players /\ InGame'
    BY <1>0, <1>5 DEF Sessions, Phases, InGame, FinishGame
  <2>2. NotAfter(session.turn, session.phase, session') /\ NotAfter(0, "NIGHT", session')
    BY <1>0, <2>1, Ranks DEF NotAfter, Rank
  <2>3. /\ News \subseteq News' /\ Seq(News) \subseteq Seq(News')
        /\ Read(snapshot)' /\ Behind(viewSession)'
    BY <1>0, <1>5, <2>0, <2>1, <2>2, NewsStaysTrue DEF FinishGame, connecting, page
  <2>4. GameFinished \in News'
    BY <2>1, EventsAreEvents DEF News, True, GameFinished, GameEvents
  <2>5. outbox' \in Seq(News') /\ inbox' \in Seq(News')
    BY <1>0, <1>5, <2>3, <2>4 DEF FinishGame
  <2>6. TypeOK'
    BY <1>0, <1>5, <2>1 DEF FinishGame, TypeOK, connecting, page
  <2>7. QED
    BY <1>0, <1>5, <2>0, <2>1, <2>2, <2>3, <2>5, <2>6 DEF NewsInv, FinishGame, page, connecting
<1>6. CASE Emit
  <2>1. News' = News /\ Read(snapshot)' /\ Behind(viewSession)'
    BY <1>0, <1>6 DEF Emit, connecting, page, News, True, Read, Behind, NotAfter, InGame, Events
  <2>2. Head(outbox) \in News /\ outbox' \in Seq(News)
    BY <1>0, <1>6 DEF Emit
  <2>3. inbox' = inbox \/ inbox' = Append(inbox, Head(outbox))
    BY <1>6 DEF Emit, SendTo
  <2>4. inbox' \in Seq(News)
    <3>1. Append(inbox, Head(outbox)) \in Seq(News)
      BY <1>0, <2>2, Queues
    <3>2. QED
      BY <1>0, <2>3, <3>1
  <2>5. races' \subseteq {"overtaken", "unseated", "fetch", "rollback", "unbuilt", "unsent"}
    BY <1>0, <1>6 DEF Emit, TypeOK
  <2>6. TypeOK'
    BY <1>0, <1>6, <2>5 DEF Emit, TypeOK, connecting, page
  <2>7. QED
    BY <1>6, <2>1, <2>2, <2>4, <2>6 DEF NewsInv, Emit, page, connecting, InGame
<1>7. ASSUME NEW i \in Ids, ChangeReady(i) PROVE NewsInv'
  <2>1. /\ commands' = [commands EXCEPT ![i].step = "answered"]
        /\ \A j \in Ids : commands[j].step = "answered" => commands'[j].step = "answered"
        /\ commands'[i].step = "answered"
    BY <1>0, <1>7 DEF ChangeReady, Answered, TypeOK
  <2>2. /\ News \subseteq News' /\ Seq(News) \subseteq Seq(News')
        /\ Read(snapshot)' /\ Behind(viewSession)'
    <3>1. session' = session /\ snapshot' = snapshot /\ viewSession' = viewSession
      BY <1>7 DEF ChangeReady, connecting, page
    <3>2. NotAfter(session.turn, session.phase, session') /\ (InGame => InGame')
      BY <1>0, <3>1, Ranks DEF NotAfter, InGame
    <3>3. QED
      BY <1>0, <2>1, <3>1, <3>2, NewsStaysTrue
  <2>3. \A accepted \in BOOLEAN : Answer(i, accepted) \in News'
    BY <2>1, EventsAreEvents DEF News, True, Answer, GameEvents
  <2>4. room' \in Rooms /\ room'.members = room.members
    BY <1>0, <1>7 DEF ChangeReady, TypeOK, Rooms
  <2>5. RoomUpdated(room') \in News'
    BY <2>4, EventsAreEvents DEF News, True, RoomUpdated, GameEvents
  <2>6. outbox' \in Seq(News')
    <3>1. <<RoomUpdated(room'), Answer(i, TRUE)>> \in Seq(News')
      BY <2>3, <2>5, Queues
    <3>2. QED
      BY <1>0, <1>7, <2>2, <3>1 DEF ChangeReady
  <2>7. inbox' \in Seq(News')
    <3>1. inbox \in Seq(News') /\ Append(inbox, Answer(i, FALSE)) \in Seq(News')
      BY <1>0, <2>2, <2>3, Queues
    <3>2. inbox' = inbox \/ inbox' = Append(inbox, Answer(i, FALSE))
      BY <1>7 DEF ChangeReady, SendTo
    <3>3. QED
      BY <3>1, <3>2
  <2>8. commands' \in [Ids -> [step : {"unsent", "sent", "answered"}, ready : BOOLEAN,
                           waits : BOOLEAN, socket : Connections]]
    BY <1>0, <2>1 DEF TypeOK
  <2>9. TypeOK'
    BY <1>0, <1>7, <2>4, <2>8 DEF ChangeReady, TypeOK, connecting, page
  <2>10. QED
    BY <1>0, <1>7, <2>2, <2>4, <2>6, <2>7, <2>9 DEF NewsInv, ChangeReady, page, connecting, InGame
<1>8. CASE HandlerFails
  <2>1. News' = News /\ Read(snapshot)' /\ Behind(viewSession)'
    BY <1>0, <1>8 DEF HandlerFails, connecting, page, News, True, Read, Behind, NotAfter, InGame,
                      Events
  <2>2. outbox' \in Seq(News)
    <3>1. CASE outbox' = <<>>
      BY <3>1
    <3>2. ASSUME NEW i \in Ids, outbox = <<RoomUpdated(room), Answer(i, TRUE)>>,
                 outbox' = <<Answer(i, FALSE)>>
          PROVE  outbox' \in Seq(News)
      <4>1. Answer(i, TRUE) \in News
        <5>1. Len(outbox) = 2 /\ outbox[2] = Answer(i, TRUE)
          BY <3>2
        <5>2. \A k \in 1..Len(outbox) : outbox[k] \in News
          BY <1>0, ElementOfSeq
        <5>3. 2 \in 1..Len(outbox)
          BY <5>1
        <5>4. outbox[2] \in News
          BY <5>2, <5>3
        <5>5. QED
          BY <5>1, <5>4
      <4>2. commands[i].step = "answered"
        BY <4>1 DEF News, True, Answer
      <4>3. Answer(i, FALSE) \in News
        BY <4>2, EventsAreEvents DEF News, True, Answer, GameEvents
      <4>4. QED
        BY <3>2, <4>3, Queues
    <3>3. QED
      BY <1>8, <3>1, <3>2 DEF HandlerFails
  <2>3. TypeOK'
    BY <1>0, <1>8 DEF HandlerFails, TypeOK, connecting, page
  <2>4. QED
    BY <1>0, <1>8, <2>1, <2>2, <2>3 DEF NewsInv, HandlerFails, page, connecting, InGame
<1>9. QED
  BY <1>1, <1>2, <1>3, <1>4, <1>5, <1>6, <1>7, <1>8

\* The page and the connection change no news.
LEMMA NewsStay ==
  ASSUME NewsInv, session' = session,
         \A i \in Ids : commands[i].step = "answered" => commands'[i].step = "answered"
  PROVE  /\ \A s : (Behind(s) => Behind(s)') /\ (Read(s) => Read(s)')
         /\ News \subseteq News' /\ Seq(News) \subseteq Seq(News')
<1>1. session \in Sessions /\ session.turn \in Nat
  BY DEF NewsInv, TypeOK, Sessions
<1>2. NotAfter(session.turn, session.phase, session') /\ (InGame => InGame')
  BY <1>1, Ranks DEF NotAfter, InGame
<1>3. QED
  BY <1>1, <1>2, NewsStaysTrue

\* The steps of the connection, of the answers over HTTP and of the clicks.
LEMMA NewsOfConnection ==
  ASSUME NewsInv,
         \/ Drop \/ JoinUserRoom \/ JoinPreviousRoom \/ ReadSession \/ EmitReconnectState
         \/ \E n \in Connections : ServeRoom(n) \/ RefreshRoom(n)
         \/ \E i \in Ids : ToggleReady(i) \/ CommandTimesOut(i)
  PROVE  NewsInv'
<1> USE UsersAssumption, BoundsAssumption
<1>0. /\ TypeOK /\ outbox \in Seq(News) /\ inbox \in Seq(News)
      /\ Read(snapshot) /\ Behind(viewSession) /\ Behind(session) /\ Read(session)
  <2>1. Behind(session)
    <3>1. session \in Sessions /\ session.dead \subseteq session.players
      BY DEF NewsInv, TypeOK
    <3>2. session.turn \in Nat
      BY <3>1 DEF Sessions
    <3>3. QED
      BY <3>1, <3>2, Ranks DEF Behind, NotAfter
  <2>2. QED
    BY <2>1 DEF NewsInv, Read
<1>a. Read(NoSession) /\ NoSession \in Sessions /\ NoSession.dead \subseteq NoSession.players
      /\ Behind(NoSession)
  <2>1. NoSession \in Sessions /\ NoSession.dead = {} /\ NoSession.turn = 0
        /\ NoSession.phase = "NONE" /\ Rank("NONE") = 0
    BY DEF NoSession, Sessions, Phases, Rank
  <2>2. session.turn \in Nat
    BY <1>0 DEF TypeOK, Sessions
  <2>3. QED
    BY <2>1, <2>2, Ranks DEF Read, Behind, NotAfter
<1>b. NewsInv' <=> /\ TypeOK' /\ Read(snapshot)' /\ Behind(viewSession)'
                   /\ outbox' \in Seq(News') /\ inbox' \in Seq(News')
                   /\ ~InGame => viewSession' = NoSession
  BY DEF NewsInv, InGame, Drop, JoinUserRoom, JoinPreviousRoom, ReadSession, EmitReconnectState,
         ServeRoom, RefreshRoom, ToggleReady, CommandTimesOut, server
<1>c. ASSUME commands' = commands, session' = session
      PROVE  News' = News /\ \A s : (Behind(s) => Behind(s)') /\ (Read(s) => Read(s)')
  BY <1>c DEF News, True, Read, Behind, NotAfter, InGame, Events
<1>1. CASE Drop
  <2>1. News' = News /\ \A s : (Behind(s) => Behind(s)') /\ (Read(s) => Read(s)')
    <3>1. \A i \in Ids : commands'[i].step = commands[i].step
      BY <1>0, <1>1 DEF Drop, TypeOK
    <3>2. session' = session
      BY <1>1 DEF Drop, server
    <3>3. \A e \in Events : True(e)' <=> True(e)
      BY <3>1, <3>2, EventFields DEF True, Read, Behind, NotAfter, InGame
    <3>4. QED
      BY <3>2, <3>3 DEF News, Read, Behind, NotAfter, InGame, Events
  <2>2. /\ snapshot' = NoSession /\ viewSession' \in {viewSession, NoSession}
        /\ inbox' = <<>> /\ outbox' = outbox
    BY <1>1 DEF Drop, server, page
  <2>3. /\ fetches' \in [Connections -> [step : {"none", "asked", "answered"}, room : Rooms]]
        /\ commands' \in [Ids -> [step : {"unsent", "sent", "answered"}, ready : BOOLEAN,
                           waits : BOOLEAN, socket : Connections]]
        /\ viewRoom' \in Rooms /\ isReady' \in BOOLEAN
    <3>1. NoRoom \in Rooms
      BY DEF NoRoom, Rooms
    <3>2. \A i \in Ids : [commands[i] EXCEPT !.waits = FALSE]
            \in [step : {"unsent", "sent", "answered"}, ready : BOOLEAN, waits : BOOLEAN,
                 socket : Connections]
      BY <1>0 DEF TypeOK
    <3>3. CASE UNCHANGED <<page, fetches, commands>>
      BY <1>0, <3>3 DEF TypeOK, page
    <3>4. CASE ~ UNCHANGED <<page, fetches, commands>>
      <4>1. /\ viewRoom' = NoRoom /\ isReady' = FALSE
            /\ fetches' = [n \in Connections |-> NoFetch]
            /\ commands' = [i \in Ids |-> [commands[i] EXCEPT !.waits = FALSE]]
        BY <1>1, <3>4 DEF Drop
      <4>2. NoFetch \in [step : {"none", "asked", "answered"}, room : Rooms]
        BY <3>1 DEF NoFetch
      <4>3. QED
        BY <3>1, <3>2, <4>1, <4>2
    <3>5. QED
      BY <3>3, <3>4
  <2>4. TypeOK'
    BY <1>0, <1>1, <1>a, <2>2, <2>3 DEF Drop, TypeOK, server, Connections
  <2>5. ~InGame => viewSession' = NoSession
    BY <2>2 DEF NewsInv
  <2>6. inbox' \in Seq(News)
    BY <2>2
  <2>7. Read(snapshot)' /\ Behind(viewSession)'
    BY <1>0, <1>a, <2>1, <2>2
  <2>8. QED
    BY <1>0, <1>b, <2>1, <2>2, <2>4, <2>5, <2>6, <2>7
<1>2. CASE JoinUserRoom \/ JoinPreviousRoom
  <2>1. TypeOK'
    BY <1>0, <1>2 DEF JoinUserRoom, JoinPreviousRoom, Step, TypeOK, server, page
  <2>2. QED
    BY <1>0, <1>2, <1>b, <1>c, <2>1 DEF JoinUserRoom, JoinPreviousRoom, server, page, NewsInv
<1>3. CASE ReadSession
  <2>1. TypeOK'
    BY <1>0, <1>3 DEF ReadSession, Step, TypeOK, server, page
  <2>2. QED
    BY <1>0, <1>3, <1>b, <1>c, <2>1 DEF ReadSession, server, page, NewsInv
<1>4. CASE EmitReconnectState
  <2>1. PICK built \in BOOLEAN :
          /\ inbox' = Append(inbox, ReconnectState(IF built THEN snapshot ELSE NoSession, built))
          /\ races' = races \cup {r \in {"unbuilt"} : ~built}
    BY <1>4 DEF EmitReconnectState
  <2> DEFINE s == IF built THEN snapshot ELSE NoSession
  <2>2. Read(s) /\ s \in Sessions
    BY <1>0, <1>a DEF TypeOK
  <2>3. ReconnectState(s, built) \in News
    <3>1. ReconnectState(s, built) \in Events /\ ReconnectState(s, built).type = "state"
          /\ ReconnectState(s, built).session = s
      BY <2>2, EventsAreEvents DEF ReconnectState
    <3>2. QED
      BY <2>2, <3>1 DEF News, True, GameEvents
  <2>4. inbox' \in Seq(News)
    BY <1>0, <2>1, <2>3, Queues
  <2>5. TypeOK'
    BY <1>0, <1>4, <1>a, <2>1 DEF EmitReconnectState, Step, TypeOK, server, page
  <2>6. QED
    BY <1>0, <1>4, <1>a, <1>b, <1>c, <2>4, <2>5 DEF EmitReconnectState, server, page, NewsInv
<1>5. ASSUME NEW n \in Connections, ServeRoom(n) PROVE NewsInv'
  <2>1. TypeOK'
    BY <1>0, <1>5 DEF ServeRoom, TypeOK, server, page, connecting
  <2>2. QED
    BY <1>0, <1>5, <1>b, <1>c, <2>1 DEF ServeRoom, server, page, connecting, NewsInv
<1>6. ASSUME NEW n \in Connections, RefreshRoom(n) PROVE NewsInv'
  <2>1. viewRoom' \in Rooms /\ isReady' \in BOOLEAN /\ races' \subseteq races \cup {"fetch"}
    BY <1>0, <1>6 DEF RefreshRoom, TypeOK, SetRoom, Rooms
  <2>2. fetches' \in [Connections -> [step : {"none", "asked", "answered"}, room : Rooms]]
    BY <1>0, <1>6 DEF RefreshRoom, TypeOK, NoFetch, NoRoom, Rooms
  <2>3. TypeOK'
    BY <1>0, <1>6, <2>1, <2>2 DEF RefreshRoom, TypeOK, server, connecting
  <2>4. QED
    BY <1>0, <1>6, <1>b, <1>c, <2>3 DEF RefreshRoom, server, connecting, NewsInv
<1>7. ASSUME NEW i \in Ids, ToggleReady(i) \/ CommandTimesOut(i) PROVE NewsInv'
  <2>1. /\ \A j \in Ids : commands[j].step = "answered" => commands'[j].step = "answered"
        /\ commands' \in [Ids -> [step : {"unsent", "sent", "answered"}, ready : BOOLEAN,
                           waits : BOOLEAN, socket : Connections]]
        /\ isReady' \in BOOLEAN /\ races' \subseteq races \cup {"rollback"}
    <3>1. drops \in Connections /\ isReady \in BOOLEAN
          /\ commands \in [Ids -> [step : {"unsent", "sent", "answered"}, ready : BOOLEAN,
                           waits : BOOLEAN, socket : Connections]]
      BY <1>0 DEF TypeOK
    <3>2. CASE ToggleReady(i)
      BY <3>1, <3>2 DEF ToggleReady
    <3>3. CASE CommandTimesOut(i)
      BY <3>1, <3>3 DEF CommandTimesOut, Settle
    <3>4. QED
      BY <1>7, <3>2, <3>3
  <2>2. /\ UNCHANGED <<server, connecting, inbox, fetches, viewRoom, viewSession>>
    BY <1>7 DEF ToggleReady, CommandTimesOut
  <2>3. TypeOK'
    BY <1>0, <2>1, <2>2 DEF TypeOK, server, connecting
  <2>4. session' = session
    BY <2>2 DEF server
  <2>5. QED
    BY <1>0, <1>b, <2>1, <2>2, <2>3, <2>4, NewsStay DEF server, connecting, NewsInv
<1>8. QED
  BY <1>1, <1>2, <1>3, <1>4, <1>5, <1>6, <1>7

\* The handlers of the page do what After says, each for its type of event.
LEMMA HandlingIsAfter ==
  ASSUME NewsInv, Handle
  PROVE  /\ inbox # <<>> /\ inbox' = Tail(inbox) /\ Head(inbox) \in News
         /\ viewSession' = After(viewRoom.members, viewSession, Head(inbox))
         /\ UNCHANGED <<server, connecting>>
<1>1. /\ inbox # <<>> /\ inbox' = Tail(inbox) /\ inbox \in Seq(News)
      /\ UNCHANGED <<server, connecting>>
  BY DEF Handle, NewsInv
<1>2. Head(inbox) \in News
  BY <1>1, Queues
<1> DEFINE e == Head(inbox)
<1>3. NormalizeSession = Normalized(viewRoom.members, viewSession)
  BY DEF NormalizeSession, Normalized
<1>4. \/ HandleRoomUpdated(e) \/ HandleGameStarted(e) \/ HandleRoleAssigned(e)
      \/ HandlePhaseChanged(e) \/ HandleResolved(e) \/ HandleGameFinished(e)
      \/ HandleReconnectState(e) \/ HandleAnswer(e)
  BY DEF Handle
<1> HIDE DEF e
<1>5. ASSUME HandleRoomUpdated(e) \/ HandleAnswer(e)
      PROVE  viewSession' = After(viewRoom.members, viewSession, e)
  BY <1>5 DEF After, HandleRoomUpdated, HandleAnswer, IsReset
<1>6. ASSUME HandleGameStarted(e) \/ HandleRoleAssigned(e) \/ HandlePhaseChanged(e)
      PROVE  viewSession' = After(viewRoom.members, viewSession, e)
  BY <1>3, <1>6 DEF After, IsReset, HandleGameStarted, HandleRoleAssigned, HandlePhaseChanged
<1>7. ASSUME HandleResolved(e) \/ HandleGameFinished(e)
      PROVE  viewSession' = After(viewRoom.members, viewSession, e)
  BY <1>3, <1>7 DEF After, IsReset, HandleResolved, HandleGameFinished
<1>8. ASSUME HandleReconnectState(e)
      PROVE  viewSession' = After(viewRoom.members, viewSession, e)
  BY <1>8 DEF After, IsReset, HandleReconnectState
<1>9. viewSession' = After(viewRoom.members, viewSession, e)
  BY <1>4, <1>5, <1>6, <1>7, <1>8
<1>10. QED
  BY <1>1, <1>2, <1>9 DEF e

\* News brings a page forward, never past the session.
LEMMA AfterIsBehind ==
  ASSUME NewsInv, NEW v, Behind(v), NEW seats \in SUBSET Users, NEW e \in News
  PROVE  /\ Behind(After(seats, v, e))
         /\ v.players # {} => After(seats, v, e).players # {}
         /\ ~InGame /\ v = NoSession => After(seats, v, e) = NoSession
<1> DEFINE n == Normalized(seats, v)
<1>1. /\ v \in Sessions /\ v.dead \subseteq v.players /\ v.dead \subseteq session.dead
      /\ v.turn \in Nat /\ session.turn \in Nat /\ NotAfter(v.turn, v.phase, session)
  BY DEF Behind, NewsInv, TypeOK, Sessions
<1>2. /\ n \in Sessions /\ n.dead = v.dead /\ n.dead \subseteq n.players /\ n.turn = v.turn
      /\ n.phase = v.phase \/ n.phase = "WAITING"
      /\ v.players # {} => n.players # {}
  BY <1>1 DEF Normalized, Sessions, Phases
<1>3. NotAfter(n.turn, n.phase, session)
  BY <1>1, <1>2, Ranks DEF NotAfter, Rank
<1>4. e \in Events /\ True(e) /\ e.type \in GameEvents \cup {"room:updated", "answer", "state"}
  BY EventFields DEF News
<1> HIDE DEF n
<1>5. CASE e.type = "game:started"
  <2>1. After(seats, v, e) = [n EXCEPT !.phase = "NIGHT", !.turn = 0]
    BY <1>5 DEF After, IsReset, n
  <2>2. InGame /\ NotAfter(0, "NIGHT", session)
    BY <1>4, <1>5 DEF True, GameEvents, NewsInv
  <2>3. /\ After(seats, v, e) \in Sessions /\ After(seats, v, e).turn = 0
        /\ After(seats, v, e).phase = "NIGHT" /\ After(seats, v, e).dead = n.dead
        /\ After(seats, v, e).players = n.players
    <3>1. "NIGHT" \in Phases /\ 0 \in Nat
      BY DEF Phases
    <3>2. QED
      BY <1>2, <2>1, <3>1 DEF Sessions
  <2>4. QED
    BY <1>1, <1>2, <2>2, <2>3 DEF Behind
<1>6. CASE e.type = "role:assigned"
  <2>1. After(seats, v, e) = [n EXCEPT !.role = @ \/ me \in n.players]
    BY <1>6 DEF After, IsReset, n
  <2>2. InGame
    BY <1>4, <1>6 DEF True, GameEvents
  <2>3. (n.role \/ me \in n.players) \in BOOLEAN
    BY <1>2 DEF Sessions
  <2>4. QED
    BY <1>1, <1>2, <1>3, <2>1, <2>2, <2>3 DEF Behind, Sessions
<1>7. CASE e.type = "phase:changed"
  <2>1. After(seats, v, e) = [n EXCEPT !.phase = e.phase, !.turn = e.turn]
    BY <1>7 DEF After, IsReset, n
  <2>2. InGame /\ NotAfter(e.turn, e.phase, session) /\ e.phase \in Phases /\ e.turn \in Nat
    BY <1>4, <1>7, EventFields DEF True, GameEvents
  <2>3. QED
    BY <1>1, <1>2, <2>1, <2>2 DEF Behind, Sessions
<1>8. CASE e.type = "resolved"
  <2>1. After(seats, v, e) = IF e.dead = None THEN v ELSE WithDead(n, e.dead)
    BY <1>8 DEF After, IsReset, n
  <2>2. InGame /\ e.dead \in session.dead \cup {None}
    BY <1>4, <1>8 DEF True, GameEvents
  <2>3. CASE e.dead = None \/ e.dead \notin n.players
    BY <1>1, <1>2, <1>3, <2>1, <2>2, <2>3 DEF Behind, WithDead
  <2>4. CASE e.dead # None /\ e.dead \in n.players
    <3>1. After(seats, v, e) = [n EXCEPT !.dead = @ \cup {e.dead}]
      BY <2>1, <2>4 DEF WithDead
    <3>2. QED
      BY <1>1, <1>2, <1>3, <2>2, <2>4, <3>1 DEF Behind, Sessions
  <2>5. QED
    BY <2>3, <2>4
<1>9. CASE e.type = "game:finished"
  <2>1. After(seats, v, e) = IF v = NoSession THEN v ELSE [v EXCEPT !.phase = "FINISHED"]
    BY <1>9 DEF After, IsReset
  <2>2. InGame /\ session.phase = "FINISHED"
    BY <1>4, <1>9 DEF True, GameEvents
  <2>3. NotAfter(v.turn, "FINISHED", session)
    BY <1>1, <2>2, Ranks DEF NotAfter
  <2>4. QED
    BY <1>1, <2>1, <2>2, <2>3 DEF Behind, Sessions, Phases
<1>10. CASE e.type \in {"room:updated", "answer", "state"}
  <2>1. After(seats, v, e) = IF IsReset(e) THEN e.session ELSE v
    BY <1>10 DEF After, IsReset
  <2>2. IsReset(e) => Read(e.session)
    BY <1>4 DEF True, IsReset
  <2>3. IsReset(e) => InGame /\ e.session.players # {} /\ Behind(e.session)
    BY <2>2 DEF IsReset, Read
  <2>4. QED
    BY <2>1, <2>3
<1>11. QED
  BY <1>4, <1>5, <1>6, <1>7, <1>8, <1>9, <1>10 DEF GameEvents

\* The page takes over what it is told, and is not ahead then.
LEMMA NewsOfPage == NewsInv /\ Handle => NewsInv'
<1> SUFFICES ASSUME NewsInv, Handle PROVE NewsInv'
  OBVIOUS
<1>0. /\ TypeOK /\ outbox \in Seq(News) /\ inbox \in Seq(News)
      /\ Read(snapshot) /\ Behind(viewSession)
  BY DEF NewsInv
<1>1. /\ inbox # <<>> /\ inbox' = Tail(inbox) /\ Head(inbox) \in News
      /\ viewSession' = After(viewRoom.members, viewSession, Head(inbox))
      /\ UNCHANGED <<server, connecting>>
  BY HandlingIsAfter
<1> DEFINE e == Head(inbox)
<1>a. e \in Events
  BY <1>1 DEF News
<1>2. Behind(viewSession') /\ (~InGame => viewSession' = NoSession)
  <2>1. viewRoom.members \in SUBSET Users
    BY <1>0 DEF TypeOK, Rooms
  <2>2. QED
    BY <1>1, <2>1, AfterIsBehind DEF NewsInv
<1>3. \/ HandleRoomUpdated(e) \/ HandleGameStarted(e) \/ HandleRoleAssigned(e)
      \/ HandlePhaseChanged(e) \/ HandleResolved(e) \/ HandleGameFinished(e)
      \/ HandleReconnectState(e) \/ HandleAnswer(e)
  BY DEF Handle
<1> HIDE DEF e
<1>4. viewRoom' \in Rooms /\ isReady' \in BOOLEAN
  BY <1>0, <1>3, <1>a, EventFields
  DEF TypeOK, Rooms, HandleRoomUpdated, HandleGameStarted, HandleRoleAssigned,
      HandlePhaseChanged, HandleResolved, HandleGameFinished, HandleReconnectState,
      HandleAnswer, Settle, SetRoom
<1>5. fetches' \in [Connections -> [step : {"none", "asked", "answered"}, room : Rooms]]
  <2>1. fetches \in [Connections -> [step : {"none", "asked", "answered"}, room : Rooms]]
    BY <1>0 DEF TypeOK
  <2>2. CASE HandleReconnectState(e)
    BY <2>1, <2>2 DEF HandleReconnectState
  <2>3. CASE ~HandleReconnectState(e)
    <3>1. fetches' = fetches
      BY <1>3, <2>3
      DEF HandleRoomUpdated, HandleGameStarted, HandleRoleAssigned, HandlePhaseChanged,
          HandleResolved, HandleGameFinished, HandleAnswer
    <3>2. QED
      BY <2>1, <3>1
  <2>4. QED
    BY <2>2, <2>3
<1>6. /\ commands' \in [Ids -> [step : {"unsent", "sent", "answered"}, ready : BOOLEAN,
                           waits : BOOLEAN, socket : Connections]]
      /\ \A i \in Ids : commands[i].step = "answered" => commands'[i].step = "answered"
  <2>1. commands' = commands \/ \E i \in Ids : commands' = [commands EXCEPT ![i].waits = FALSE]
    <3>1. CASE HandleAnswer(e)
      BY <1>a, <3>1, EventFields DEF HandleAnswer, Settle
    <3>2. CASE ~HandleAnswer(e)
      BY <1>3, <3>2
      DEF HandleRoomUpdated, HandleGameStarted, HandleRoleAssigned, HandlePhaseChanged,
          HandleResolved, HandleGameFinished, HandleReconnectState
    <3>3. QED
      BY <3>1, <3>2
  <2>2. commands \in [Ids -> [step : {"unsent", "sent", "answered"}, ready : BOOLEAN,
                           waits : BOOLEAN, socket : Connections]]
    BY <1>0 DEF TypeOK
  <2>3. CASE commands' = commands
    BY <2>2, <2>3
  <2>4. ASSUME NEW i \in Ids, commands' = [commands EXCEPT ![i].waits = FALSE]
        PROVE  /\ commands' \in [Ids -> [step : {"unsent", "sent", "answered"}, ready : BOOLEAN,
                           waits : BOOLEAN, socket : Connections]]
               /\ \A j \in Ids : commands[j].step = "answered" => commands'[j].step = "answered"
    BY <2>2, <2>4
  <2>5. QED
    BY <2>1, <2>3, <2>4
<1>7. races' \subseteq races \cup {"fetch", "rollback"}
  BY <1>0, <1>3
  DEF TypeOK, HandleRoomUpdated, HandleGameStarted, HandleRoleAssigned,
      HandlePhaseChanged, HandleResolved, HandleGameFinished, HandleReconnectState,
      HandleAnswer, Settle
<1>8. session' = session /\ snapshot' = snapshot /\ outbox' = outbox
  BY <1>1 DEF server, connecting
<1>9. Seq(News) \subseteq Seq(News') /\ Read(snapshot)' /\ Behind(viewSession)'
  <2>1. \A s : (Behind(s) => Behind(s)') /\ (Read(s) => Read(s)')
        /\ Seq(News) \subseteq Seq(News')
    BY <1>6, <1>8, NewsStay
  <2>2. QED
    BY <1>0, <1>2, <1>8, <2>1
<1>10. TypeOK'
  BY <1>0, <1>1, <1>4, <1>5, <1>6, <1>7, <1>9 DEF TypeOK, server, connecting, Behind
<1>11. outbox' \in Seq(News') /\ inbox' \in Seq(News')
  <2>1. Tail(inbox) \in Seq(News)
    BY <1>0, <1>1, Queues
  <2>2. QED
    BY <1>0, <1>1, <1>8, <1>9, <2>1
<1>12. QED
  BY <1>1, <1>2, <1>8, <1>9, <1>10, <1>11 DEF NewsInv, server, connecting, InGame

\* Nor does a step that changes nothing.
LEMMA NewsStutters == NewsInv /\ UNCHANGED vars => NewsInv'
<1> SUFFICES ASSUME NewsInv, UNCHANGED vars PROVE NewsInv'
  OBVIOUS
<1>1. /\ UNCHANGED <<room, session, outbox, work, moves, transitions, failures, pc, snapshot, drops>>
      /\ UNCHANGED <<inbox, fetches, viewRoom, viewSession, isReady, commands, races>>
  BY DEF vars, server, connecting, page
<1>2. News' = News /\ Read(snapshot)' /\ Behind(viewSession)'
  BY <1>1 DEF News, True, Read, Behind, NotAfter, InGame, Events, NewsInv
<1>3. TypeOK'
  BY <1>1 DEF NewsInv, TypeOK
<1>4. QED
  BY <1>1, <1>2, <1>3 DEF NewsInv, InGame

\* No step tells the page what has not happened.
LEMMA NewsStep == NewsInv /\ OutboxInv /\ [Next]_vars => NewsInv'
BY NewsOfServer, NewsOfConnection, NewsOfPage, NewsStutters DEF Next

-----------------------------------------------------------------------------
(* The effects of a handler.                                               *)

\* The rows of a handler are three events long at most: their tails,
LEMMA ShortTails ==
  /\ \A a : Tail(<<a>>) = <<>> /\ Head(<<a>>) = a /\ <<a>> # <<>>
  /\ \A a, b : Tail(<<a, b>>) = <<b>> /\ Head(<<a, b>>) = a /\ <<a, b>> # <<>>
  /\ \A a, b, c : Tail(<<a, b, c>>) = <<b, c>> /\ Head(<<a, b, c>>) = a /\ <<a, b, c>> # <<>>
<1>1. ASSUME NEW a PROVE Tail(<<a>>) = <<>> /\ Head(<<a>>) = a /\ <<a>> # <<>>
  OBVIOUS
<1>2. ASSUME NEW a, NEW b
      PROVE  Tail(<<a, b>>) = <<b>> /\ Head(<<a, b>>) = a /\ <<a, b>> # <<>>
  OBVIOUS
<1>3. ASSUME NEW a, NEW b, NEW c
      PROVE  Tail(<<a, b, c>>) = <<b, c>> /\ Head(<<a, b, c>>) = a /\ <<a, b, c>> # <<>>
  OBVIOUS
<1>4. QED
  BY <1>1, <1>2, <1>3

\* and what they are with one event more.
LEMMA ShortAppends ==
  /\ \A a : Append(<<>>, a) = <<a>>
  /\ \A a, b : Append(<<a>>, b) = <<a, b>>
  /\ \A a, b, c : Append(<<a, b>>, c) = <<a, b, c>>
<1>1. ASSUME NEW a PROVE Append(<<>>, a) = <<a>>
  OBVIOUS
<1>2. ASSUME NEW a, NEW b PROVE Append(<<a>>, b) = <<a, b>>
  <2>1. <<a>> \in Seq({a, b}) /\ <<a, b>> \in Seq({a, b})
    OBVIOUS
  <2>2. Append(<<a>>, b) \in Seq({a, b}) /\ Len(Append(<<a>>, b)) = 2
    BY <2>1
  <2>3. \A i \in 1..2 : Append(<<a>>, b)[i] = <<a, b>>[i]
    BY <2>1
  <2>4. QED
    BY <2>1, <2>2, <2>3, SeqEqual
<1>3. ASSUME NEW a, NEW b, NEW c PROVE Append(<<a, b>>, c) = <<a, b, c>>
  <2>1. <<a, b>> \in Seq({a, b, c}) /\ <<a, b, c>> \in Seq({a, b, c})
    OBVIOUS
  <2>2. Append(<<a, b>>, c) \in Seq({a, b, c}) /\ Len(Append(<<a, b>>, c)) = 3
    BY <2>1
  <2>3. \A i \in 1..3 : Append(<<a, b>>, c)[i] = <<a, b, c>>[i]
    BY <2>1
  <2>4. QED
    BY <2>1, <2>2, <2>3, SeqEqual
<1>4. QED
  BY <1>1, <1>2, <1>3

\* There is no effect to emit at first.
LEMMA OutboxInit == Init => OutboxInv
BY DEF Init, OutboxInv, LobbyEffects, InGame, NoSession

\* Every save adds its effect behind those of the saves before it.
LEMMA OutboxStep == NewsInv /\ OutboxInv /\ [Next]_vars => OutboxInv'
<1> SUFFICES ASSUME NewsInv, OutboxInv, [Next]_vars PROVE OutboxInv'
  OBVIOUS
<1> USE UsersAssumption
<1>0. TypeOK /\ session \in Sessions /\ session.turn \in Nat
  BY DEF NewsInv, TypeOK, Sessions
<1>1. ASSUME NEW u \in Others, OthersMove(u) PROVE OutboxInv'
  BY <1>1 DEF OthersMove, OutboxInv, LobbyEffects, InGame
<1>2. CASE StartGame
  BY <1>2 DEF StartGame, OutboxInv, StartEffects, Starting, InGame, NewGame
<1>3. CASE AdvancePhase
  <2>1. /\ session' = [session EXCEPT !.phase = NextPhase(@),
                                !.turn = IF session.phase = "NIGHT" THEN @ + 1 ELSE @]
        /\ outbox' = <<PhaseChanged(session'.phase, session'.turn)>>
        /\ work' \in {"none", "resolve"}
        /\ session.phase \in {"NIGHT", "DAY_DISCUSSION", "VOTING", "RESULT"}
    BY <1>0, <1>3 DEF AdvancePhase, NewsInv, Sessions, Phases
  <2>2. session'.phase \in Phases /\ session'.phase # "NONE" /\ session'.dead = session.dead
    BY <1>0, <2>1 DEF NextPhase, Phases, Sessions
  <2>3. PICK phase \in Phases : phase = session'.phase
    BY <2>2
  <2>4. Effects(phase, None, None)'
    BY <2>1, <2>3 DEF Effects
  <2>5. QED
    BY <2>2, <2>4 DEF OutboxInv, InGame
<1> DEFINE Game == InGame /\ \E phase \in Phases, attacked \in Users \cup {None},
                                dead \in session.dead \cup {None} :
             Effects(phase, attacked, dead)
<1>4. CASE Resolve
  <2>1. PICK phase \in Phases :
          /\ InGame /\ work = "resolve"
          /\ outbox = <<PhaseChanged(phase, session.turn)>>
          /\ phase = session.phase
    BY <1>4 DEF Resolve, OutboxInv, Effects, PhaseChanged
  <2>a. PICK attacked \in (session.players \ session.dead) \cup {None} :
          \E dead \in {attacked, None} :
            /\ session' = [session EXCEPT !.dead = @ \cup ({dead} \ {None})]
            /\ outbox' = Append(outbox, Resolved(attacked, dead))
            /\ work' \in {"none", "finish"}
    BY <1>4 DEF Resolve
  <2>2. PICK dead \in {attacked, None} :
          /\ session' = [session EXCEPT !.dead = @ \cup ({dead} \ {None})]
          /\ outbox' = Append(outbox, Resolved(attacked, dead))
          /\ work' \in {"none", "finish"}
    BY <2>a
  <2>3. session'.phase = session.phase /\ session'.turn = session.turn
        /\ dead \in session'.dead \cup {None} /\ attacked \in Users \cup {None}
    BY <1>0, <2>2 DEF Sessions
  <2>4. outbox' = <<PhaseChanged(phase, session'.turn), Resolved(attacked, dead)>>
    BY <2>1, <2>2, <2>3, ShortAppends
  <2>5. Effects(phase, attacked, dead)'
    BY <2>1, <2>2, <2>3, <2>4 DEF Effects, PhaseChanged
  <2>6. QED
    BY <2>1, <2>3, <2>5 DEF OutboxInv, InGame
<1>5. CASE FinishGame
  <2>1. PICK phase \in Phases, attacked \in Users \cup {None}, dead \in session.dead \cup {None} :
          /\ InGame /\ work = "finish"
          /\ outbox = <<PhaseChanged(phase, session.turn), Resolved(attacked, dead)>>
    BY <1>5 DEF FinishGame, OutboxInv, Effects
  <2>2. /\ session'.phase = "FINISHED" /\ session'.turn = session.turn
        /\ session'.dead = session.dead /\ work' = "none"
    BY <1>0, <1>5 DEF FinishGame, Sessions
  <2>3. outbox' = <<PhaseChanged(phase, session'.turn), Resolved(attacked, dead), GameFinished>>
    BY <1>5, <2>1, <2>2, ShortAppends DEF FinishGame
  <2>4. Effects(phase, attacked, dead)'
    BY <2>2, <2>3 DEF Effects
  <2>5. QED
    BY <2>2, <2>4 DEF OutboxInv, InGame
<1>6. CASE Emit
  <2>0. /\ work = "none" /\ outbox # <<>> /\ outbox' = Tail(outbox)
        /\ UNCHANGED <<room, session, work>>
    BY <1>6 DEF Emit
  <2>1. CASE ~InGame
    <3>0. outbox \in LobbyEffects
      BY <2>1 DEF OutboxInv
    <3>a. ASSUME \/ outbox = <<RoomUpdated(room)>>
                 \/ \E i \in Ids : \E accepted \in BOOLEAN : outbox = <<Answer(i, accepted)>>
          PROVE  outbox' \in LobbyEffects'
      <4>1. outbox' = <<>>
        BY <2>0, <3>a, ShortTails, Zenon
      <4>2. QED
        BY <4>1 DEF LobbyEffects
    <3>b. ASSUME NEW i \in Ids, outbox = <<RoomUpdated(room), Answer(i, TRUE)>>
          PROVE  outbox' \in LobbyEffects'
      <4>1. outbox' = <<Answer(i, TRUE)>>
        BY <2>0, <3>b, ShortTails, Zenon
      <4>2. QED
        BY <4>1 DEF LobbyEffects
    <3>1. outbox' \in LobbyEffects'
      BY <2>0, <3>0, <3>a, <3>b DEF LobbyEffects
    <3>2. QED
      BY <2>0, <2>1, <3>1 DEF OutboxInv, InGame
  <2>2. CASE InGame /\ outbox \in StartEffects /\ session = NewGame
    <3>1. CASE outbox = <<RoomUpdated(room)>>
      <4>1. outbox' = <<>>
        BY <2>0, <3>1
      <4>2. Effects("NIGHT", None, None)'
        BY <2>0, <4>1 DEF Effects
      <4>3. QED
        BY <2>0, <2>2, <4>2 DEF OutboxInv, InGame, Phases
    <3>2. CASE outbox # <<RoomUpdated(room)>>
      <4>a. ASSUME outbox = <<GameStarted, RoleAssigned, RoomUpdated(room)>>
            PROVE  outbox' \in StartEffects
        BY <2>0, <4>a DEF StartEffects
      <4>b. ASSUME outbox = <<RoleAssigned, RoomUpdated(room)>>
            PROVE  outbox' \in StartEffects
        BY <2>0, <4>b DEF StartEffects
      <4>1. outbox' \in StartEffects
        BY <2>2, <3>2, <4>a, <4>b DEF StartEffects, Starting
      <4>2. QED
        BY <2>0, <2>2, <4>1 DEF OutboxInv, InGame, StartEffects, Starting, NewGame
    <3>3. QED
      BY <3>1, <3>2
  <2>3. CASE Game
    <3>1. PICK phase \in Phases, attacked \in Users \cup {None}, dead \in session.dead \cup {None} :
            Effects(phase, attacked, dead)
      BY <2>3
    <3> DEFINE change == PhaseChanged(phase, session.turn)
               outcome == Resolved(attacked, dead)
    <3>2. PhaseChanged(phase, session'.turn) = change
      BY <2>0
    <3> HIDE DEF change, outcome
    <3>3. ASSUME outbox \in {<<change>>, <<outcome>>, <<GameFinished>>}
          PROVE  Effects(phase, attacked, dead)'
      <4>1. outbox' = <<>>
        BY <2>0, <3>3
      <4>2. QED
        BY <2>0, <4>1 DEF Effects
    <3>4. ASSUME outbox = <<change, outcome>>
          PROVE  Effects(phase, attacked, dead)'
      <4>1. outbox' = <<outcome>>
        BY <2>0, <3>4
      <4>2. QED
        BY <2>0, <4>1 DEF Effects, outcome
    <3>5. ASSUME outbox \in {<<change, outcome, GameFinished>>, <<outcome, GameFinished>>},
                 session.phase = "FINISHED"
          PROVE  Effects(phase, attacked, dead)'
      <4>1. outbox' \in {<<outcome, GameFinished>>, <<GameFinished>>}
        <5>1. \/ outbox = <<change, outcome, GameFinished>>
              \/ outbox = <<outcome, GameFinished>>
          BY <3>5
        <5>2. \/ outbox' = <<outcome, GameFinished>>
              \/ outbox' = <<GameFinished>>
          <6>1. CASE outbox = <<change, outcome, GameFinished>>
            BY <2>0, <6>1
          <6>2. CASE outbox = <<outcome, GameFinished>>
            BY <2>0, <6>2
          <6>3. QED
            BY <5>1, <6>1, <6>2
        <5>3. QED
          BY <5>2
      <4>2. QED
        BY <2>0, <3>5, <4>1 DEF Effects, outcome
    <3>6. Effects(phase, attacked, dead)'
      BY <2>0, <3>1, <3>3, <3>4, <3>5 DEF Effects, change, outcome
    <3>7. QED
      BY <2>0, <2>3, <3>6 DEF OutboxInv, InGame
  <2>4. QED
    BY <2>1, <2>2, <2>3 DEF OutboxInv
<1>7. ASSUME NEW i \in Ids, ChangeReady(i) PROVE OutboxInv'
  <2>1. ASSUME Idle, ~InGame, outbox' = <<RoomUpdated(room'), Answer(i, TRUE)>>
        PROVE  OutboxInv'
    <3>1. session' = session /\ work' = "none"
      BY <1>7, <2>1 DEF ChangeReady, Idle
    <3>2. outbox' \in LobbyEffects'
      BY <2>1 DEF LobbyEffects
    <3>3. QED
      BY <2>1, <3>1, <3>2 DEF OutboxInv, InGame
  <2>2. ASSUME UNCHANGED <<room, outbox>> PROVE OutboxInv'
    <3>1. UNCHANGED <<room, outbox, session, work>>
      BY <1>7, <2>2 DEF ChangeReady
    <3>2. QED
      BY <3>1 DEF OutboxInv, Effects, LobbyEffects, StartEffects, Starting, NewGame, InGame
  <2>3. QED
    BY <1>7, <2>1, <2>2 DEF ChangeReady
<1>8. ASSUME UNCHANGED server PROVE OutboxInv'
  BY <1>8 DEF server, OutboxInv, Effects, LobbyEffects, StartEffects, Starting, NewGame, InGame
<1>9. CASE HandlerFails
  <2>0. UNCHANGED <<room, session>> /\ work' = "none"
    BY <1>9 DEF HandlerFails
  <2>1. ASSUME outbox' = <<>> PROVE OutboxInv'
    <3>1. CASE InGame
      <4>1. Effects("NIGHT", None, None)'
        BY <2>0, <2>1 DEF Effects
      <4>2. QED
        BY <2>0, <3>1, <4>1 DEF OutboxInv, InGame, Phases
    <3>2. CASE ~InGame
      BY <2>0, <2>1, <3>2 DEF OutboxInv, LobbyEffects, InGame
    <3>3. QED
      BY <3>1, <3>2
  <2>2. ASSUME NEW i \in Ids, outbox = <<RoomUpdated(room), Answer(i, TRUE)>>,
               outbox' = <<Answer(i, FALSE)>>
        PROVE  OutboxInv'
    <3>1. Len(outbox) = 2 /\ Head(outbox).type = "room:updated"
      BY <2>2 DEF RoomUpdated
    <3>2. outbox \notin StartEffects
      <4>1. CASE outbox = <<RoleAssigned, RoomUpdated(room)>>
        BY <3>1, <4>1 DEF RoleAssigned
      <4>2. QED
        BY <3>1, <4>1 DEF StartEffects, Starting
    <3>3. ~Game
      <4>1. ASSUME NEW e, NEW q, outbox = <<e>> \/ outbox = <<e, q>>,
                   e.type # "room:updated"
            PROVE  FALSE
        BY <3>1, <4>1
      <4>2. QED
        BY <3>1, <4>1 DEF Effects, PhaseChanged, Resolved, GameFinished
    <3>4. outbox' \in LobbyEffects'
      BY <2>2 DEF LobbyEffects
    <3>5. QED
      BY <2>0, <3>2, <3>3, <3>4 DEF OutboxInv, InGame
  <2>3. QED
    BY <1>9, <2>1, <2>2 DEF HandlerFails
<1>10. QED
  <2>1. \/ \E u \in Others : OthersMove(u)
        \/ StartGame \/ AdvancePhase \/ Resolve \/ FinishGame \/ Emit \/ HandlerFails
        \/ \E i \in Ids : ChangeReady(i)
        \/ UNCHANGED server
    BY DEF Next, vars, ToggleReady, CommandTimesOut, ServeRoom, RefreshRoom, Drop, JoinUserRoom,
           JoinPreviousRoom, ReadSession, EmitReconnectState, Handle
  <2>2. QED
    BY <2>1, <1>1, <1>2, <1>3, <1>4, <1>5, <1>6, <1>7, <1>8, <1>9

\* What the next effect is, and what is left then.
LEMMA HeadOfOutbox ==
  ASSUME NewsInv, OutboxInv, outbox # <<>>
  PROVE  /\ Head(outbox).type # "state"
         /\ Head(outbox).type = "room:updated" => Head(outbox) = RoomUpdated(room)
         /\ Head(outbox).type = "answer" => ~InGame
         /\ Head(outbox).type = "game:started" <=> outbox = Starting
         /\ Head(outbox).type \in GameEvents => InGame
         /\ Tail(outbox) # Starting
         /\ outbox = Starting => InGame /\ work = "none" /\ session = NewGame
<1>1. CASE ~InGame
  <2>1. \/ outbox = <<RoomUpdated(room)>>
        \/ \E i \in Ids : outbox = <<RoomUpdated(room), Answer(i, TRUE)>>
        \/ \E i \in Ids : \E accepted \in BOOLEAN : outbox = <<Answer(i, accepted)>>
    BY <1>1 DEF OutboxInv, LobbyEffects
  <2> DEFINE Right == /\ Head(outbox) = RoomUpdated(room) \/ Head(outbox).type = "answer"
                      /\ Len(Tail(outbox)) # 3 /\ Len(outbox) # 3
  <2>2. ASSUME outbox = <<RoomUpdated(room)>> PROVE Right
    BY <2>2
  <2>3. ASSUME NEW i \in Ids, outbox = <<RoomUpdated(room), Answer(i, TRUE)>> PROVE Right
    BY <2>3
  <2>4. ASSUME NEW i \in Ids, NEW accepted \in BOOLEAN, outbox = <<Answer(i, accepted)>>
        PROVE  Right
    BY <2>4 DEF Answer
  <2> HIDE DEF Right
  <2>a. Right
    BY <2>1, <2>2, <2>3, <2>4
  <2>5. Len(Starting) = 3
    BY DEF Starting
  <2>6. /\ Head(outbox) = RoomUpdated(room) \/ Head(outbox).type = "answer"
        /\ Len(Tail(outbox)) # 3 /\ Len(outbox) # 3
    BY <2>a DEF Right
  <2>7. RoomUpdated(room).type = "room:updated"
    BY DEF RoomUpdated
  <2>8. outbox # Starting /\ Tail(outbox) # Starting
    BY <2>5, <2>6
  <2>9. QED
    BY <1>1, <2>6, <2>7, <2>8 DEF GameEvents
<1>2. CASE InGame /\ outbox \in StartEffects /\ work = "none" /\ session = NewGame
  <2>1. CASE outbox = Starting
    BY <1>2, <2>1 DEF Starting, GameStarted, GameEvents
  <2>2. CASE outbox = <<RoleAssigned, RoomUpdated(room)>>
    BY <1>2, <2>2 DEF Starting, RoleAssigned, GameStarted, GameEvents
  <2>3. CASE outbox = <<RoomUpdated(room)>>
    BY <1>2, <2>3 DEF Starting, RoomUpdated, GameStarted, GameEvents
  <2>4. QED
    BY <1>2, <2>1, <2>2, <2>3 DEF StartEffects
<1>3. ASSUME InGame, NEW phase \in Phases, NEW attacked \in Users \cup {None},
             NEW dead \in session.dead \cup {None}, Effects(phase, attacked, dead)
      PROVE  /\ Head(outbox).type \in {"phase:changed", "resolved", "game:finished"}
             /\ Tail(outbox) # Starting /\ outbox # Starting
  <2> DEFINE change == PhaseChanged(phase, session.turn)
             outcome == Resolved(attacked, dead)
  <2>1. \/ outbox = <<change>> \/ outbox = <<change, outcome>> \/ outbox = <<outcome>>
        \/ outbox = <<change, outcome, GameFinished>>
        \/ outbox = <<outcome, GameFinished>> \/ outbox = <<GameFinished>>
    BY <1>3 DEF Effects
  <2>2. /\ change.type = "phase:changed" /\ outcome.type = "resolved"
        /\ GameFinished.type = "game:finished" /\ GameStarted.type = "game:started"
    BY DEF PhaseChanged, Resolved, GameFinished, GameStarted
  <2> HIDE DEF change, outcome
  <2>3. Head(outbox) \in {change, outcome, GameFinished}
    BY <2>1, ShortTails
  <2>4. Len(outbox) \in 1..3
    BY <2>1
  <2>5. Len(Tail(outbox)) = Len(outbox) - 1
    BY <2>4 DEF NewsInv
  <2>6. Len(Starting) = 3 /\ Head(Starting) = GameStarted
    BY DEF Starting
  <2>7. QED
    BY <2>2, <2>3, <2>4, <2>5, <2>6
<1>4. QED
  BY <1>1, <1>2, <1>3 DEF OutboxInv, GameEvents

\* A start that was emitted stays emitted.
LEMMA AnnouncedStays == NewsInv /\ OutboxInv /\ [Next]_vars => (Announced => Announced')
<1> SUFFICES ASSUME NewsInv, OutboxInv, [Next]_vars, Announced PROVE Announced'
  OBVIOUS
<1>0. InGame /\ outbox # Starting /\ session \in Sessions
  BY DEF Announced, NewsInv, TypeOK
<1>1. CASE AdvancePhase
  <2>1. session'.phase \in {"NIGHT", "DAY_DISCUSSION", "VOTING", "RESULT"}
    BY <1>0, <1>1 DEF AdvancePhase, NextPhase, NewsInv, Sessions, Phases
  <2>2. Len(outbox') = 1 /\ Len(Starting') = 3
    BY <1>1 DEF AdvancePhase, Starting
  <2>3. QED
    BY <2>1, <2>2 DEF Announced, InGame
<1>2. CASE Resolve
  <2>1. PICK a : outbox = <<a>>
    BY <1>0, <1>2 DEF Resolve, OutboxInv, Effects
  <2>2. PICK e : outbox' = Append(outbox, e)
    BY <1>2 DEF Resolve
  <2>3. Len(outbox') = 2 /\ Len(Starting') = 3
    BY <2>1, <2>2, ShortAppends DEF Starting
  <2>4. session'.phase = session.phase
    BY <1>0, <1>2 DEF Resolve, Sessions
  <2>5. QED
    BY <1>0, <2>3, <2>4 DEF Announced, InGame
<1>3. CASE FinishGame
  <2>1. /\ Len(outbox) = 2 /\ outbox[1].type = "phase:changed" /\ outbox \in Seq(News)
    BY <1>0, <1>3 DEF FinishGame, OutboxInv, Effects, PhaseChanged, NewsInv
  <2>2. outbox'[1] = outbox[1]
    BY <1>3, <2>1 DEF FinishGame
  <2>3. Starting'[1].type = "game:started"
    BY DEF Starting, GameStarted
  <2>4. session'.phase = "FINISHED"
    BY <1>0, <1>3 DEF FinishGame, Sessions
  <2>5. QED
    BY <2>1, <2>2, <2>3, <2>4 DEF Announced, InGame
<1>4. CASE Emit
  <2>1. Tail(outbox) # Starting
    BY <1>4, HeadOfOutbox DEF Emit
  <2>2. QED
    BY <1>0, <1>4, <2>1 DEF Emit, Announced, InGame, Starting
<1>5. ASSUME NEW i \in Ids, ChangeReady(i) PROVE Announced'
  BY <1>0, <1>5 DEF ChangeReady, Announced, InGame, Starting
<1>6. ASSUME UNCHANGED server PROVE Announced'
  BY <1>0, <1>6 DEF server, Announced, InGame, Starting
<1>7. CASE HandlerFails
  <2>1. outbox' = <<>> \/ \E i \in Ids : outbox' = <<Answer(i, FALSE)>>
    BY <1>7 DEF HandlerFails
  <2>2. Len(outbox') # 3 /\ Len(Starting') = 3
    <3>1. ASSUME NEW i \in Ids, outbox' = <<Answer(i, FALSE)>> PROVE Len(outbox') # 3
      BY <3>1
    <3>2. ASSUME outbox' = <<>> PROVE Len(outbox') # 3
      BY <3>2
    <3>3. Len(Starting') = 3
      BY DEF Starting
    <3>4. QED
      BY <2>1, <3>1, <3>2, <3>3
  <2>3. QED
    BY <1>0, <1>7, <2>2 DEF HandlerFails, Announced, InGame
<1>8. QED
  <2>1. \/ \E u \in Others : OthersMove(u)
        \/ StartGame \/ AdvancePhase \/ Resolve \/ FinishGame \/ Emit \/ HandlerFails
        \/ \E i \in Ids : ChangeReady(i)
        \/ UNCHANGED server
    BY DEF Next, vars, ToggleReady, CommandTimesOut, ServeRoom, RefreshRoom, Drop, JoinUserRoom,
           JoinPreviousRoom, ReadSession, EmitReconnectState, Handle
  <2>2. QED
    BY <2>1, <1>0, <1>1, <1>2, <1>3, <1>4, <1>5, <1>6, <1>7 DEF OthersMove, StartGame

-----------------------------------------------------------------------------
(* What is on its way.                                                     *)

\* The places of a row with one event more, and with the first one taken.
LEMMA QueuePlaces ==
  /\ \A S : \A q \in Seq(S), e \in S :
       /\ Len(Append(q, e)) = Len(q) + 1
       /\ \A k \in 1..Len(q) : Append(q, e)[k] = q[k]
       /\ Append(q, e)[Len(q) + 1] = e
  /\ \A S : \A q \in Seq(S) : q # <<>> =>
       /\ Len(Tail(q)) = Len(q) - 1 /\ Len(q) \in Nat \ {0} /\ Head(q) = q[1]
       /\ \A k \in 1..Len(Tail(q)) : Tail(q)[k] = q[k + 1]
  /\ \A S : \A q \in Seq(S) : Len(q) \in Nat /\ \A k \in 1..Len(q) : q[k] \in S
<1>1. ASSUME NEW S, NEW q \in Seq(S), NEW e \in S
      PROVE  /\ Len(Append(q, e)) = Len(q) + 1
             /\ \A k \in 1..Len(q) : Append(q, e)[k] = q[k]
             /\ Append(q, e)[Len(q) + 1] = e
  OBVIOUS
<1>2. ASSUME NEW S, NEW q \in Seq(S), q # <<>>
      PROVE  /\ Len(Tail(q)) = Len(q) - 1 /\ Len(q) \in Nat \ {0} /\ Head(q) = q[1]
             /\ \A k \in 1..Len(Tail(q)) : Tail(q)[k] = q[k + 1]
  BY <1>2
<1>3. ASSUME NEW S, NEW q \in Seq(S)
      PROVE  Len(q) \in Nat /\ \A k \in 1..Len(q) : q[k] \in S
  OBVIOUS
<1>4. QED
  BY <1>1, <1>2, <1>3

\* What a row has, and has not, with one event more,
LEMMA WithoutAppended ==
  ASSUME NEW S, NEW q \in Seq(S), NEW e \in S
  PROVE  /\ \A type : Without(type, Append(q, e)) <=> Without(type, q) /\ e.type # type
         /\ \A x : In(x, Append(q, e)) <=> In(x, q) \/ e = x
<1>1. /\ Len(q) \in Nat /\ Len(Append(q, e)) = Len(q) + 1
      /\ \A k \in 1..Len(q) : Append(q, e)[k] = q[k]
      /\ Append(q, e)[Len(q) + 1] = e
  BY QueuePlaces
<1>2. 1..(Len(q) + 1) = 1..Len(q) \cup {Len(q) + 1}
  BY <1>1
<1>3. QED
  BY <1>1, <1>2 DEF Without, In

\* and with the first one taken.
LEMMA WithoutTail ==
  ASSUME NEW S, NEW q \in Seq(S), q # <<>>
  PROVE  /\ \A type : Without(type, q) <=> Head(q).type # type /\ Without(type, Tail(q))
         /\ \A x : In(x, q) <=> Head(q) = x \/ In(x, Tail(q))
<1>1. /\ Len(q) \in Nat \ {0} /\ Len(Tail(q)) = Len(q) - 1 /\ Head(q) = q[1]
      /\ \A k \in 1..Len(Tail(q)) : Tail(q)[k] = q[k + 1]
  BY QueuePlaces
<1>2. \A k \in 1..Len(q) : k = 1 \/ (k - 1 \in 1..Len(Tail(q)) /\ q[k] = Tail(q)[k - 1])
  BY <1>1
<1>3. 1 \in 1..Len(q) /\ \A k \in 1..Len(Tail(q)) : k + 1 \in 1..Len(q)
  BY <1>1
<1>4. QED
  BY <1>1, <1>2, <1>3 DEF Without, In

\* Whatever is true now, what was sent is an event.
LEMMA QueuesOfEvents ==
  ASSUME NewsInv
  PROVE  inbox \in Seq(Events) /\ outbox \in Seq(Events)
BY SeqWider DEF NewsInv, News

\* What Emit does with the next effect.
LEMMA EmitDelivers ==
  ASSUME NewsInv, OutboxInv, Emit
  PROVE  /\ outbox # <<>> /\ outbox' = Tail(outbox) /\ Head(outbox) \in News
         /\ Head(outbox) \in Events
         /\ inbox' = inbox \/ inbox' = Append(inbox, Head(outbox))
         /\ pc = "down" => inbox' = inbox
         /\ pc = "joinedUser" /\ Head(outbox).type = "room:updated" => inbox' = inbox
         /\ HearsRoom /\ Head(outbox).type # "answer" => inbox' = Append(inbox, Head(outbox))
         /\ UNCHANGED <<room, session, pc, snapshot, drops, fetches, viewRoom, viewSession,
                        isReady, commands>>
         /\ races \subseteq races'
<1>1. /\ outbox # <<>> /\ outbox' = Tail(outbox)
      /\ UNCHANGED <<room, session, pc, snapshot, drops, fetches, viewRoom, viewSession,
                     isReady, commands>>
      /\ races \subseteq races'
  BY DEF Emit, connecting, page
<1>2. Head(outbox) \in News /\ Head(outbox) \in Events
  BY <1>1, Queues DEF NewsInv, News
<1> DEFINE e == Head(outbox)
<1>3. /\ e.type = "answer" => SendTo(commands[e.id].socket, e)
      /\ e.type = "role:assigned" => inbox' = IF HearsUser THEN Append(inbox, e) ELSE inbox
      /\ e.type \notin {"answer", "role:assigned"} =>
           inbox' = IF HearsRoom THEN Append(inbox, e) ELSE inbox
  BY DEF Emit
<1> HIDE DEF e
<1>4. HearsRoom => HearsUser
  BY DEF HearsRoom, HearsUser
<1>5. /\ inbox' = inbox \/ inbox' = Append(inbox, e)
      /\ pc = "down" => inbox' = inbox
      /\ pc = "joinedUser" /\ e.type = "room:updated" => inbox' = inbox
      /\ HearsRoom /\ e.type # "answer" => inbox' = Append(inbox, e)
  BY <1>3, <1>4 DEF SendTo, HearsRoom, HearsUser
<1>6. QED
  BY <1>1, <1>2, <1>5 DEF e

\* Nothing is on its way at first.
LEMMA SilenceInit == Init => SilenceInv
BY DEF Init, SilenceInv, Without

\* A socket gets what its user has joined for, and no game before its start.
LEMMA SilenceStep ==
  NewsInv /\ OutboxInv /\ SilenceInv /\ [Next]_vars => SilenceInv'
<1> SUFFICES ASSUME NewsInv, OutboxInv, SilenceInv, [Next]_vars PROVE SilenceInv'
  OBVIOUS
<1>0. inbox \in Seq(Events) /\ outbox \in Seq(Events) /\ (Announced => Announced')
  BY QueuesOfEvents, AnnouncedStays
<1>a. ASSUME inbox' = inbox, pc' = pc PROVE SilenceInv'
  BY <1>0, <1>a DEF SilenceInv, Without
<1>1. CASE Emit
  <2>1. /\ outbox # <<>> /\ outbox' = Tail(outbox) /\ pc' = pc /\ session' = session
        /\ Head(outbox) \in Events
        /\ inbox' = inbox \/ inbox' = Append(inbox, Head(outbox))
        /\ pc = "down" => inbox' = inbox
        /\ pc = "joinedUser" /\ Head(outbox).type = "room:updated" => inbox' = inbox
    BY <1>1, EmitDelivers
  <2>2. /\ Head(outbox).type # "state" /\ Tail(outbox) # Starting
        /\ Head(outbox).type \in GameEvents => InGame
    BY <2>1, HeadOfOutbox
  <2>3. CASE inbox' = Append(inbox, Head(outbox))
    <3>1. \A type : Without(type, inbox') <=> Without(type, inbox) /\ Head(outbox).type # type
      BY <1>0, <2>1, <2>3, WithoutAppended
    <3>2. Starting' = Starting
      BY <1>1 DEF Emit, Starting
    <3>3. ~Announced' => ~InGame
      BY <2>1, <2>2, <3>2 DEF Announced, InGame
    <3>4. CASE pc \in {"down", "joinedUser"} /\ inbox' = inbox
      BY <1>a, <2>1, <3>4
    <3>5. CASE ~(pc \in {"down", "joinedUser"} /\ inbox' = inbox)
      BY <1>0, <2>1, <2>2, <3>1, <3>3, <3>5 DEF SilenceInv
    <3>6. QED
      BY <3>4, <3>5
  <2>4. QED
    BY <1>a, <2>1, <2>3
<1>2. ASSUME NEW i \in Ids, ChangeReady(i) PROVE SilenceInv'
  <2>1. pc' = pc /\ (inbox' = inbox \/ inbox' = Append(inbox, Answer(i, FALSE)))
    BY <1>2 DEF ChangeReady, SendTo, connecting
  <2>2. Answer(i, FALSE) \in Events /\ Answer(i, FALSE).type = "answer"
    BY EventsAreEvents DEF Answer
  <2>3. CASE inbox' = Append(inbox, Answer(i, FALSE))
    <3>1. \A type : Without(type, inbox') <=> Without(type, inbox) /\ "answer" # type
      BY <1>0, <2>2, <2>3, WithoutAppended
    <3>2. QED
      BY <1>0, <2>1, <3>1 DEF SilenceInv, GameEvents
  <2>4. QED
    BY <1>a, <2>1, <2>3
<1>3. CASE EmitReconnectState
  <2>1. PICK e \in Events : inbox' = Append(inbox, e) /\ e.type = "state" /\ pc' = "up"
    <3>1. PICK built \in BOOLEAN :
            inbox' = Append(inbox, ReconnectState(IF built THEN snapshot ELSE NoSession, built))
      BY <1>3 DEF EmitReconnectState
    <3>2. NoSession \in Sessions
      BY DEF NoSession, Sessions, Phases
    <3>3. ReconnectState(IF built THEN snapshot ELSE NoSession, built) \in Events
      BY <3>2, EventsAreEvents DEF NewsInv, TypeOK
    <3>4. QED
      BY <1>3, <3>1, <3>3 DEF EmitReconnectState, Step, ReconnectState
  <2>2. \A type : Without(type, inbox') <=> Without(type, inbox) /\ e.type # type
    BY <1>0, <2>1, WithoutAppended
  <2>3. QED
    BY <1>0, <2>1, <2>2 DEF SilenceInv, GameEvents
<1>4. CASE Handle
  <2>1. inbox # <<>> /\ inbox' = Tail(inbox) /\ pc' = pc
    BY <1>4, HandlingIsAfter DEF connecting
  <2>2. \A type : Without(type, inbox) => Without(type, inbox')
    BY <1>0, <2>1, WithoutTail
  <2>3. QED
    BY <1>0, <2>1, <2>2 DEF SilenceInv
<1>5. CASE Drop
  BY <1>5 DEF Drop, SilenceInv, Without
<1>6. CASE JoinUserRoom \/ JoinPreviousRoom \/ ReadSession
  <2>1. inbox' = inbox /\ pc # "up"
        /\ (pc' \in {"down", "joinedUser"} => pc \in {"down", "joinedUser"})
    BY <1>6 DEF JoinUserRoom, JoinPreviousRoom, ReadSession, Step
  <2>2. QED
    BY <1>0, <2>1 DEF SilenceInv, Without
<1>7. ASSUME UNCHANGED <<inbox, pc>> PROVE SilenceInv'
  BY <1>7, <1>a
<1>8. QED
  <2>1. \/ Emit \/ EmitReconnectState \/ Handle \/ Drop
        \/ \E i \in Ids : ChangeReady(i)
        \/ JoinUserRoom \/ JoinPreviousRoom \/ ReadSession
        \/ UNCHANGED <<inbox, pc>>
    BY DEF Next, vars, connecting, OthersMove, StartGame, AdvancePhase, Resolve, FinishGame,
           HandlerFails, ToggleReady, CommandTimesOut, ServeRoom, RefreshRoom
  <2>2. QED
    BY <2>1, <1>1, <1>2, <1>3, <1>4, <1>5, <1>6, <1>7

\* The page has no game at first.
LEMMA SeatedInit == Init => SeatedInv
BY DEF Init, SeatedInv

\* A page that is not told of the start has its game from a snapshot.
LEMMA SeatedStep ==
  NewsInv /\ OutboxInv /\ SilenceInv /\ SeatedInv /\ [Next]_vars => SeatedInv'
<1> SUFFICES ASSUME NewsInv, OutboxInv, SilenceInv, SeatedInv, [Next]_vars, ~Announced'
             PROVE  viewSession' = NoSession \/ viewSession'.players # {}
  BY DEF SeatedInv
<1>0. ~Announced /\ (viewSession = NoSession \/ viewSession.players # {})
  BY AnnouncedStays DEF SeatedInv
<1>1. CASE Handle
  <2>1. /\ inbox # <<>> /\ inbox \in Seq(Events)
        /\ Head(inbox) \in News /\ Head(inbox) \in Events
    BY <1>1, Queues, QueuesOfEvents DEF NewsInv, News, Handle
  <2>2. Head(inbox).type \notin GameEvents
    BY <1>0, <2>1, WithoutTail DEF SilenceInv
  <2>3. viewSession' = viewSession \/ (Read(Head(inbox).session) /\ viewSession' = Head(inbox).session)
    BY <1>1, <2>1, <2>2
       DEF Handle, HandleRoomUpdated, HandleGameStarted, HandleRoleAssigned, HandlePhaseChanged,
           HandleResolved, HandleGameFinished, HandleReconnectState, HandleAnswer, GameEvents,
           News, True
  <2>4. QED
    BY <1>0, <2>3 DEF Read
<1>2. CASE Drop
  BY <1>0, <1>2 DEF Drop, page
<1>3. CASE ~Handle /\ ~Drop
  <2>1. viewSession' = viewSession
    BY <1>3 DEF Next, vars, connecting, page, OthersMove, StartGame, AdvancePhase, Resolve,
           FinishGame, Emit, HandlerFails, ChangeReady, ToggleReady, CommandTimesOut,
           ServeRoom, RefreshRoom, JoinUserRoom, JoinPreviousRoom, ReadSession,
           EmitReconnectState
  <2>2. QED
    BY <1>0, <2>1
<1>4. QED
  BY <1>1, <1>2, <1>3

-----------------------------------------------------------------------------
(* The room in the lobby.                                                  *)

\* The last event of a type, with one event more and with the first one taken.
LEMMA LastOfQueue ==
  ASSUME NEW S, NEW q \in Seq(S), NEW e
  PROVE  /\ \A d \in S : /\ d = e => ComesLast(e, Append(q, d))
                         /\ d.type # e.type /\ ComesLast(e, q) => ComesLast(e, Append(q, d))
         /\ q # <<>> /\ ComesLast(e, q) =>
              ComesLast(e, Tail(q)) \/ (Head(q) = e /\ Without(e.type, Tail(q)))
         /\ ComesLast(e, q) => ~Without(e.type, q)
<1>1. ASSUME NEW d \in S, d = e PROVE ComesLast(e, Append(q, d))
  <2>1. /\ Len(q) \in Nat /\ Len(Append(q, d)) = Len(q) + 1
        /\ Append(q, d)[Len(q) + 1] = d
    BY QueuePlaces
  <2>2. QED
    BY <1>1, <2>1 DEF ComesLast
<1>2. ASSUME NEW d \in S, d.type # e.type, ComesLast(e, q) PROVE ComesLast(e, Append(q, d))
  <2>1. /\ Len(q) \in Nat /\ Len(Append(q, d)) = Len(q) + 1
        /\ \A k \in 1..Len(q) : Append(q, d)[k] = q[k]
        /\ Append(q, d)[Len(q) + 1] = d
    BY QueuePlaces
  <2>2. PICK k \in 1..Len(q) : q[k] = e /\ \A j \in (k + 1)..Len(q) : q[j].type # e.type
    BY <1>2 DEF ComesLast
  <2>3. \A j \in (k + 1)..(Len(q) + 1) : j = Len(q) + 1 \/ j \in (k + 1)..Len(q)
    BY <2>1
  <2>4. k \in 1..Len(Append(q, d)) /\ Append(q, d)[k] = e
    BY <2>1, <2>2
  <2>5. \A j \in (k + 1)..Len(Append(q, d)) : Append(q, d)[j].type # e.type
    BY <1>2, <2>1, <2>2, <2>3
  <2>6. QED
    BY <2>4, <2>5 DEF ComesLast
<1>3. ASSUME q # <<>>, ComesLast(e, q)
      PROVE  ComesLast(e, Tail(q)) \/ (Head(q) = e /\ Without(e.type, Tail(q)))
  <2>1. /\ Len(Tail(q)) = Len(q) - 1 /\ Len(q) \in Nat \ {0} /\ Head(q) = q[1]
        /\ \A k \in 1..Len(Tail(q)) : Tail(q)[k] = q[k + 1]
    BY <1>3, QueuePlaces
  <2>2. PICK k \in 1..Len(q) : q[k] = e /\ \A j \in (k + 1)..Len(q) : q[j].type # e.type
    BY <1>3 DEF ComesLast
  <2>3. \A j \in k..Len(Tail(q)) : 1 <= j => Tail(q)[j].type # e.type
    BY <2>1, <2>2
  <2>4. CASE k = 1
    BY <2>1, <2>2, <2>3, <2>4 DEF Without
  <2>5. CASE k # 1
    <3>1. k - 1 \in 1..Len(Tail(q)) /\ Tail(q)[k - 1] = e
      BY <2>1, <2>2, <2>5
    <3>2. \A j \in ((k - 1) + 1)..Len(Tail(q)) : Tail(q)[j].type # e.type
      BY <2>1, <2>3
    <3>3. QED
      BY <3>1, <3>2 DEF ComesLast
  <2>6. QED
    BY <2>4, <2>5
<1>4. ComesLast(e, q) => ~Without(e.type, q)
  BY DEF ComesLast, Without
<1>5. QED
  BY <1>1, <1>2, <1>3, <1>4

\* The same of a snapshot that makes the page ask for the room, and is behind any news of it.
LEMMA AskInQueue ==
  ASSUME NEW S, NEW q \in Seq(S)
  PROVE  /\ \A d \in S : /\ Asks(d) => AskComes(Append(q, d))
                         /\ d.type # "room:updated" /\ AskComes(q) => AskComes(Append(q, d))
         /\ q # <<>> /\ AskComes(q) =>
              AskComes(Tail(q)) \/ (Asks(Head(q)) /\ Without("room:updated", Tail(q)))
<1>1. ASSUME NEW d \in S, Asks(d) PROVE AskComes(Append(q, d))
  <2>1. /\ Len(q) \in Nat /\ Len(Append(q, d)) = Len(q) + 1
        /\ Append(q, d)[Len(q) + 1] = d
    BY QueuePlaces
  <2>2. QED
    BY <1>1, <2>1 DEF AskComes
<1>2. ASSUME NEW d \in S, d.type # "room:updated", AskComes(q) PROVE AskComes(Append(q, d))
  <2>1. /\ Len(q) \in Nat /\ Len(Append(q, d)) = Len(q) + 1
        /\ \A k \in 1..Len(q) : Append(q, d)[k] = q[k]
        /\ Append(q, d)[Len(q) + 1] = d
    BY QueuePlaces
  <2>2. PICK k \in 1..Len(q) :
          Asks(q[k]) /\ \A j \in (k + 1)..Len(q) : q[j].type # "room:updated"
    BY <1>2 DEF AskComes
  <2>3. \A j \in (k + 1)..(Len(q) + 1) : j = Len(q) + 1 \/ j \in (k + 1)..Len(q)
    BY <2>1
  <2>4. k \in 1..Len(Append(q, d)) /\ Asks(Append(q, d)[k])
    BY <2>1, <2>2
  <2>5. \A j \in (k + 1)..Len(Append(q, d)) : Append(q, d)[j].type # "room:updated"
    BY <1>2, <2>1, <2>2, <2>3
  <2>6. QED
    BY <2>4, <2>5 DEF AskComes
<1>3. ASSUME q # <<>>, AskComes(q)
      PROVE  AskComes(Tail(q)) \/ (Asks(Head(q)) /\ Without("room:updated", Tail(q)))
  <2>1. /\ Len(Tail(q)) = Len(q) - 1 /\ Len(q) \in Nat \ {0} /\ Head(q) = q[1]
        /\ \A k \in 1..Len(Tail(q)) : Tail(q)[k] = q[k + 1]
    BY <1>3, QueuePlaces
  <2>2. PICK k \in 1..Len(q) :
          Asks(q[k]) /\ \A j \in (k + 1)..Len(q) : q[j].type # "room:updated"
    BY <1>3 DEF AskComes
  <2>3. \A j \in k..Len(Tail(q)) : 1 <= j => Tail(q)[j].type # "room:updated"
    BY <2>1, <2>2
  <2>4. CASE k = 1
    BY <2>1, <2>2, <2>3, <2>4 DEF Without
  <2>5. CASE k # 1
    <3>1. k - 1 \in 1..Len(Tail(q)) /\ Asks(Tail(q)[k - 1])
      BY <2>1, <2>2, <2>5
    <3>2. \A j \in ((k - 1) + 1)..Len(Tail(q)) : Tail(q)[j].type # "room:updated"
      BY <2>1, <2>3
    <3>3. QED
      BY <3>1, <3>2 DEF AskComes
  <2>6. QED
    BY <2>4, <2>5
<1>4. QED
  BY <1>1, <1>2, <1>3

\* An event that is not about the room takes away nothing that is.
LEMMA RowOfInbox ==
  ASSUME NewsInv, NEW d \in Events, d.type # "room:updated",
         NEW q, q = inbox \/ q = Append(inbox, d)
  PROVE  /\ q \in Seq(Events)
         /\ \A x : In(x, q) => In(x, inbox) \/ x = d
         /\ Without("room:updated", inbox) => Without("room:updated", q)
         /\ RoomComes => ComesLast(RoomUpdated(room), q)
         /\ AskComes(inbox) => AskComes(q)
<1>1. inbox \in Seq(Events) /\ RoomUpdated(room).type = "room:updated"
  BY QueuesOfEvents DEF RoomUpdated
<1>2. CASE q = inbox
  BY <1>1, <1>2 DEF RoomComes
<1>3. CASE q = Append(inbox, d)
  <2>1. /\ \A x : In(x, q) <=> In(x, inbox) \/ d = x
        /\ \A type : Without(type, q) <=> Without(type, inbox) /\ d.type # type
    BY <1>1, <1>3, WithoutAppended
  <2>2. AskComes(inbox) => AskComes(q)
    BY <1>1, <1>3, AskInQueue
  <2>3. RoomComes => ComesLast(RoomUpdated(room), q)
    BY <1>1, <1>3, LastOfQueue DEF RoomComes
  <2>4. q \in Seq(Events)
    BY <1>1, <1>3, Queues
  <2>5. QED
    BY <2>1, <2>2, <2>3, <2>4
<1>4. QED
  BY <1>2, <1>3

\* The page shows the room at first.
LEMMA LobbyInit == Init => LobbyInv
<1> SUFFICES ASSUME Init PROVE RoomIsShown
  BY DEF LobbyInv
<1>1. /\ inbox = <<>> /\ viewRoom = room /\ isReady = room.ready
      /\ \A n \in Connections : fetches[n].step = "none"
  BY DEF Init, NoFetch
<1>2. QED
  BY <1>1 DEF RoomIsShown, Without

\* A change of the room is sent to the page, and so is the answer to a click.
LEMMA LobbyOfServer ==
  ASSUME NewsInv, OutboxInv, SilenceInv, LobbyInv, RoomCounts',
         \/ \E u \in Others : OthersMove(u)
         \/ StartGame \/ AdvancePhase \/ Resolve \/ FinishGame \/ Emit \/ HandlerFails
         \/ \E i \in Ids : ChangeReady(i)
         \/ \E n \in Connections : ServeRoom(n)
  PROVE  RoomComes' \/ RoomIsShown' \/ RoomIsDue'
<1>0. /\ inbox \in Seq(Events) /\ outbox \in Seq(Events) /\ ~Announced /\ ~Announced'
      /\ outbox = Starting => work = "none"
      /\ InGame => outbox = Starting
  <2>1. ~Announced /\ ~Announced'
    <3>1. [Next]_vars
      BY DEF Next
    <3>2. QED
      BY <3>1, AnnouncedStays DEF RoomCounts
  <2>2. outbox = Starting => work = "none"
    BY HeadOfOutbox DEF Starting
  <2>3. QED
    BY <2>1, <2>2, QueuesOfEvents DEF Announced
<1>1. ASSUME NEW u \in Others, OthersMove(u) PROVE FALSE
  <2>1. /\ ~InGame' /\ outbox' = <<RoomUpdated(room')>>
    BY <1>1 DEF OthersMove, InGame
  <2>2. ~Without("room:updated", outbox')
    BY <2>1 DEF Without, RoomUpdated
  <2>3. QED
    BY <2>1, <2>2 DEF RoomCounts
<1>2. CASE StartGame
  <2>1. /\ outbox = <<>> /\ ~InGame /\ outbox' = Starting
        /\ UNCHANGED <<room, pc, inbox, fetches, viewRoom, viewSession, isReady, commands, races>>
    BY <1>2 DEF StartGame, Idle, Starting, connecting, page
  <2>2. RoomCounts
    BY <1>0, <2>1 DEF RoomCounts, Without
  <2>3. \A i \in Ids : ~In(Answer(i, TRUE), Starting)
    BY DEF In, Answer, Starting, GameStarted, RoleAssigned, RoomUpdated
  <2>4. \A i \in Ids : AwaitsAnswer(i) => AwaitsAnswer(i)'
    BY <2>1, <2>3 DEF AwaitsAnswer
  <2>5. QED
    BY <2>1, <2>2, <2>4 DEF LobbyInv, RoomComes, RoomIsShown, RoomIsDue
<1>3. ASSUME AdvancePhase \/ Resolve \/ FinishGame PROVE FALSE
  <2>1. AdvancePhase => InGame /\ outbox # Starting
    BY DEF AdvancePhase, Idle, InGame, Starting
  <2>2. Resolve \/ FinishGame => work # "none"
    BY DEF Resolve, FinishGame
  <2>3. ~InGame => work = "none"
    BY DEF OutboxInv
  <2>4. QED
    BY <1>0, <1>3, <2>1, <2>2, <2>3
<1>4. CASE Emit
  <2>1. /\ outbox # <<>> /\ outbox' = Tail(outbox) /\ Head(outbox) \in Events
        /\ inbox' = inbox \/ inbox' = Append(inbox, Head(outbox))
        /\ HearsRoom /\ Head(outbox).type # "answer" => inbox' = Append(inbox, Head(outbox))
        /\ UNCHANGED <<room, session, pc, fetches, viewRoom, viewSession, isReady, commands>>
        /\ races \subseteq races'
    BY <1>4, EmitDelivers
  <2>2. ~InGame
    <3>1. Tail(outbox) # Starting
      BY <2>1, HeadOfOutbox
    <3>2. Starting' = Starting
      BY <2>1 DEF Starting
    <3>3. QED
      BY <1>0, <2>1, <3>1, <3>2 DEF Announced, InGame
  <2>3. Head(outbox) = RoomUpdated(room) \/ Head(outbox).type = "answer"
    BY <2>1, <2>2, HeadOfOutbox, EventFields
  <2>4. HearsRoom
    BY <2>1 DEF RoomCounts, HearsRoom
  <2>5. CASE Head(outbox) = RoomUpdated(room)
    <3>1. inbox' = Append(inbox, RoomUpdated(room))
      BY <2>1, <2>4, <2>5 DEF RoomUpdated
    <3>2. RoomComes'
      BY <1>0, <2>1, <2>5, <3>1, LastOfQueue DEF RoomComes
    <3>3. QED
      BY <3>2
  <2>6. CASE Head(outbox).type = "answer"
    <3>1. Without("room:updated", outbox)
      BY <1>0, <2>1, <2>2, <2>6, WithoutTail DEF RoomCounts, InGame
    <3>2. RoomCounts
      BY <1>0, <2>1, <3>1 DEF RoomCounts
    <3>3. /\ \A x : In(x, inbox') => In(x, inbox) \/ x = Head(outbox)
          /\ Without("room:updated", inbox) => Without("room:updated", inbox')
          /\ RoomComes => ComesLast(RoomUpdated(room), inbox')
          /\ AskComes(inbox) => AskComes(inbox')
      BY <2>1, <2>6, RowOfInbox
    <3>4. \A x : In(x, outbox) <=> x = Head(outbox) \/ In(x, outbox')
      BY <1>0, <2>1, WithoutTail
    <3>5. \A i \in Ids : AwaitsAnswer(i) => AwaitsAnswer(i)'
      BY <2>1, <3>3, <3>4 DEF AwaitsAnswer
    <3>6. RoomComes => RoomComes'
      BY <2>1, <3>3 DEF RoomComes
    <3>8. RoomIsShown => RoomIsShown'
      BY <2>1, <3>3, <3>5 DEF RoomIsShown
    <3>9. RoomIsDue => RoomIsDue'
      BY <2>1, <3>3 DEF RoomIsDue
    <3>10. QED
      BY <3>2, <3>6, <3>8, <3>9 DEF LobbyInv
  <2>7. QED
    BY <2>3, <2>5, <2>6
<1>5. ASSUME NEW i \in Ids, ChangeReady(i) PROVE RoomComes' \/ RoomIsShown' \/ RoomIsDue'
  <2>1. ASSUME ~InGame, outbox' = <<RoomUpdated(room'), Answer(i, TRUE)>> PROVE FALSE
    <3>1. ~InGame' /\ ~Without("room:updated", outbox')
      BY <1>5, <2>1 DEF ChangeReady, InGame, Without, RoomUpdated
    <3>2. QED
      BY <3>1 DEF RoomCounts
  <2>2. ASSUME SendTo(commands[i].socket, Answer(i, FALSE)), UNCHANGED <<room, outbox>>
        PROVE  RoomComes' \/ RoomIsShown' \/ RoomIsDue'
    <3>1. /\ UNCHANGED <<room, session, outbox, pc, fetches, viewRoom, viewSession, isReady, races>>
          /\ inbox' = inbox \/ inbox' = Append(inbox, Answer(i, FALSE))
          /\ commands' = [commands EXCEPT ![i].step = "answered"]
      BY <1>5, <2>2 DEF ChangeReady, SendTo, Answered, connecting, page
    <3>2. RoomCounts
      BY <3>1 DEF RoomCounts, Announced, InGame, Starting
    <3>3. /\ Answer(i, FALSE) \in Events /\ Answer(i, FALSE).type = "answer"
          /\ \A j \in Ids : Answer(j, TRUE) # Answer(i, FALSE)
      BY EventsAreEvents DEF Answer
    <3>4. /\ \A j \in Ids : In(Answer(j, TRUE), inbox') => In(Answer(j, TRUE), inbox)
          /\ Without("room:updated", inbox) => Without("room:updated", inbox')
          /\ RoomComes => ComesLast(RoomUpdated(room), inbox')
          /\ AskComes(inbox) => AskComes(inbox')
      <4>1. \A x : In(x, inbox') => In(x, inbox) \/ x = Answer(i, FALSE)
        BY <3>1, <3>3, RowOfInbox
      <4>2. /\ Without("room:updated", inbox) => Without("room:updated", inbox')
            /\ RoomComes => ComesLast(RoomUpdated(room), inbox')
            /\ AskComes(inbox) => AskComes(inbox')
        BY <3>1, <3>3, RowOfInbox
      <4>3. QED
        BY <3>3, <4>1, <4>2
    <3>5. \A j \in Ids : AwaitsAnswer(j) => AwaitsAnswer(j)'
      <4>1. \A j \in Ids : commands'[j].waits = commands[j].waits
        BY <3>1 DEF NewsInv, TypeOK
      <4>2. QED
        BY <3>1, <3>4, <4>1 DEF AwaitsAnswer
    <3>6. RoomComes => RoomComes'
      BY <3>1, <3>4 DEF RoomComes
    <3>8. RoomIsShown => RoomIsShown'
      BY <3>1, <3>4, <3>5 DEF RoomIsShown
    <3>9. RoomIsDue => RoomIsDue'
      BY <3>1, <3>4 DEF RoomIsDue
    <3>10. QED
      BY <3>2, <3>6, <3>8, <3>9 DEF LobbyInv
  <2>3. QED
    BY <1>5, <2>1, <2>2 DEF ChangeReady
<1>6. ASSUME NEW n \in Connections, ServeRoom(n) PROVE RoomComes' \/ RoomIsShown' \/ RoomIsDue'
  <2>1. /\ UNCHANGED <<room, session, outbox, pc, inbox, viewRoom, viewSession, isReady, commands, races>>
        /\ fetches[n].step = "asked"
        /\ fetches' = [fetches EXCEPT ![n] = [step |-> "answered", room |-> room]]
    BY <1>6 DEF ServeRoom, server, connecting, page
  <2>2. RoomCounts
    BY <2>1 DEF RoomCounts, Announced, InGame, Starting
  <2>3. /\ fetches'[n].step = "answered" /\ fetches'[n].room = room'
        /\ \A m \in Connections : m # n => fetches'[m] = fetches[m]
    BY <2>1 DEF NewsInv, TypeOK
  <2>4. \A i \in Ids : AwaitsAnswer(i) => AwaitsAnswer(i)'
    BY <2>1 DEF AwaitsAnswer
  <2>5. RoomComes => RoomComes'
    BY <2>1 DEF RoomComes
  <2>6. RoomIsShown => RoomIsShown'
    BY <2>1, <2>3, <2>4 DEF RoomIsShown
  <2>7. RoomIsDue => RoomIsDue'
    BY <2>1, <2>3 DEF RoomIsDue
  <2>8. QED
    BY <2>2, <2>5, <2>6, <2>7 DEF LobbyInv
<1>7. ASSUME HandlerFails PROVE FALSE
  BY <1>7 DEF HandlerFails, RoomCounts
<1>8. QED
  BY <1>1, <1>2, <1>3, <1>4, <1>5, <1>6, <1>7

\* The room is asked for after every reconnect.
LEMMA LobbyOfConnection ==
  ASSUME NewsInv, OutboxInv, SilenceInv, LobbyInv, RoomCounts',
         \/ \E i \in Ids : ToggleReady(i) \/ CommandTimesOut(i)
         \/ \E n \in Connections : RefreshRoom(n)
         \/ Drop \/ JoinUserRoom \/ JoinPreviousRoom \/ ReadSession \/ EmitReconnectState
         \/ UNCHANGED vars
  PROVE  RoomComes' \/ RoomIsShown' \/ RoomIsDue'
<1>0. inbox \in Seq(Events)
  BY QueuesOfEvents
<1>1. ASSUME NEW i \in Ids, ToggleReady(i) PROVE RoomComes' \/ RoomIsShown' \/ RoomIsDue'
  <2>1. /\ UNCHANGED <<room, session, outbox, pc, inbox, fetches, viewRoom, viewSession, races>>
        /\ commands[i].step = "unsent"
        /\ commands' = [commands EXCEPT ![i] =
             [step |-> "sent", ready |-> ~isReady, waits |-> TRUE, socket |-> drops]]
    BY <1>1 DEF ToggleReady, server, connecting
  <2>2. RoomCounts
    BY <2>1 DEF RoomCounts, Announced, InGame, Starting
  <2>3. ASSUME NEW q \in Seq(News) PROVE ~In(Answer(i, TRUE), q)
    <3>1. ASSUME In(Answer(i, TRUE), q) PROVE Answer(i, TRUE) \in News
      BY <3>1, QueuePlaces DEF In
    <3>2. Answer(i, TRUE) \notin News
      BY <2>1 DEF News, True, Answer
    <3>3. QED
      BY <3>1, <3>2
  <2>4. AwaitsAnswer(i)'
    BY <2>1, <2>3 DEF AwaitsAnswer, NewsInv, TypeOK
  <2>5. RoomComes => RoomComes'
    BY <2>1 DEF RoomComes
  <2>6. RoomIsShown => RoomIsShown'
    BY <2>1, <2>4 DEF RoomIsShown
  <2>7. RoomIsDue => RoomIsDue'
    BY <2>1 DEF RoomIsDue
  <2>8. QED
    BY <2>2, <2>5, <2>6, <2>7 DEF LobbyInv
<1>2. ASSUME NEW i \in Ids, CommandTimesOut(i) PROVE RoomComes' \/ RoomIsShown' \/ RoomIsDue'
  <2>1. /\ UNCHANGED <<room, session, outbox, pc, inbox, fetches, viewRoom, viewSession>>
        /\ races' = races \cup {"rollback"}
    BY <1>2 DEF CommandTimesOut, Settle, server, connecting
  <2>2. RoomCounts
    BY <2>1 DEF RoomCounts, Announced, InGame, Starting
  <2>3. RoomComes => RoomComes'
    BY <2>1 DEF RoomComes
  <2>4. RoomIsShown => RoomIsShown'
    BY <2>1 DEF RoomIsShown
  <2>5. RoomIsDue => RoomIsDue'
    BY <2>1 DEF RoomIsDue
  <2>6. QED
    BY <2>2, <2>3, <2>4, <2>5 DEF LobbyInv
<1>3. ASSUME NEW n \in Connections, RefreshRoom(n) PROVE RoomComes' \/ RoomIsShown' \/ RoomIsDue'
  <2>1. /\ UNCHANGED <<room, session, outbox, pc, inbox, viewSession, commands>>
        /\ fetches[n].step = "answered"
        /\ fetches' = [fetches EXCEPT ![n] = NoFetch]
    BY <1>3 DEF RefreshRoom, server, connecting
  <2>2. /\ SetRoom(fetches[n].room) /\ races' = races /\ OlderAnswers \subseteq {n}
    BY <1>3 DEF RefreshRoom, RoomCounts
  <2>3. RoomCounts
    BY <2>1, <2>2 DEF RoomCounts, Announced, InGame, Starting
  <2>4. /\ fetches'[n].step = "none"
        /\ \A m \in Connections : m # n => fetches'[m] = fetches[m]
    BY <2>1 DEF NewsInv, TypeOK, NoFetch
  <2>5. \A m \in Connections : fetches'[m].step = "answered" => fetches'[m].room = room'
    BY <2>1, <2>2, <2>4 DEF OlderAnswers
  <2>6. fetches[n].room = room => viewRoom' = room' /\ isReady' = room'.ready
    BY <2>1, <2>2 DEF SetRoom, NewsInv
  <2>7. RoomComes => RoomComes'
    BY <2>1 DEF RoomComes
  <2>8. RoomIsShown => RoomIsShown'
    BY <2>1, <2>5, <2>6 DEF RoomIsShown
  <2>9. RoomIsDue => RoomIsDue' \/ RoomIsShown'
    <3>1. CASE Without("room:updated", inbox) /\ fetches[n].room = room
      BY <2>1, <2>5, <2>6, <3>1 DEF RoomIsShown
    <3>2. CASE RoomIsDue /\ fetches[n].room # room
      BY <2>1, <2>4, <3>2 DEF RoomIsDue
    <3>3. CASE AskComes(inbox)
      BY <2>1, <3>3 DEF RoomIsDue
    <3>4. QED
      BY <3>1, <3>2, <3>3 DEF RoomIsDue
  <2>10. QED
    BY <2>3, <2>7, <2>8, <2>9 DEF LobbyInv
<1>4. ASSUME Drop \/ JoinUserRoom \/ JoinPreviousRoom \/ ReadSession PROVE FALSE
  BY <1>4 DEF Drop, JoinUserRoom, JoinPreviousRoom, ReadSession, Step, RoomCounts
<1>5. CASE EmitReconnectState
  <2>1. inbox' = Append(inbox, ReconnectState(snapshot, TRUE))
    BY <1>5 DEF EmitReconnectState, RoomCounts
  <2>2. ReconnectState(snapshot, TRUE) \in Events /\ Asks(ReconnectState(snapshot, TRUE))
    BY EventsAreEvents DEF NewsInv, TypeOK, ReconnectState, Asks
  <2>3. AskComes(inbox')
    BY <1>0, <2>1, <2>2, AskInQueue
  <2>4. QED
    BY <2>3 DEF RoomIsDue
<1>6. CASE UNCHANGED vars
  <2>1. UNCHANGED <<room, session, outbox, pc, inbox, fetches, viewRoom, viewSession, isReady,
                    commands, races>>
    BY <1>6 DEF vars, server, connecting, page
  <2>2. RoomCounts
    BY <2>1 DEF RoomCounts, Announced, InGame, Starting
  <2>3. RoomComes => RoomComes'
    BY <2>1 DEF RoomComes
  <2>4. RoomIsShown => RoomIsShown'
    BY <2>1 DEF RoomIsShown, AwaitsAnswer
  <2>5. RoomIsDue => RoomIsDue'
    BY <2>1 DEF RoomIsDue
  <2>6. QED
    BY <2>2, <2>3, <2>4, <2>5 DEF LobbyInv
<1>7. QED
  BY <1>1, <1>2, <1>3, <1>4, <1>5, <1>6

\* The last news of the room is shown when it is handled.
LEMMA LobbyOfPage ==
  ASSUME NewsInv, OutboxInv, SilenceInv, LobbyInv, RoomCounts', Handle
  PROVE  RoomComes' \/ RoomIsShown' \/ RoomIsDue'
<1> DEFINE e == Head(inbox)
<1>0. /\ inbox \in Seq(Events) /\ inbox # <<>> /\ inbox' = Tail(inbox)
      /\ UNCHANGED <<room, session, outbox, pc, drops>> /\ ~Announced
      /\ e \in Events /\ me \in room.members
  <2>1. [Next]_vars
    BY DEF Next
  <2>2. QED
    BY <2>1, AnnouncedStays, QueuesOfEvents, Queues
       DEF RoomCounts, Handle, server, connecting, NewsInv
<1>1. /\ \A type : Without(type, inbox) <=> e.type # type /\ Without(type, inbox')
      /\ \A x : In(x, inbox) <=> e = x \/ In(x, inbox')
      /\ RoomComes => ComesLast(RoomUpdated(room), inbox')
                      \/ (e = RoomUpdated(room) /\ Without("room:updated", inbox'))
      /\ AskComes(inbox) => AskComes(inbox') \/ (Asks(e) /\ Without("room:updated", inbox'))
  <2>1. RoomUpdated(room).type = "room:updated"
    BY DEF RoomUpdated
  <2>2. RoomComes => ComesLast(RoomUpdated(room), inbox')
                      \/ (e = RoomUpdated(room) /\ Without("room:updated", inbox'))
    BY <1>0, <2>1, LastOfQueue DEF RoomComes
  <2>3. AskComes(inbox) => AskComes(inbox') \/ (Asks(e) /\ Without("room:updated", inbox'))
    BY <1>0, AskInQueue
  <2>4. /\ \A type : Without(type, inbox) <=> e.type # type /\ Without(type, inbox')
        /\ \A x : In(x, inbox) <=> e = x \/ In(x, inbox')
    BY <1>0, WithoutTail
  <2>5. QED
    BY <2>2, <2>3, <2>4
<1>2. e.type \in {"room:updated", "answer", "state"}
  BY <1>0, <1>1, EventFields DEF SilenceInv
<1>3. \/ HandleRoomUpdated(e) \/ HandleReconnectState(e) \/ HandleAnswer(e)
  BY <1>2 DEF Handle, HandleGameStarted, HandleRoleAssigned, HandlePhaseChanged, HandleResolved,
              HandleGameFinished
<1> HIDE DEF e
<1>4. RoomComes /\ e.type # "room:updated" => RoomComes'
  BY <1>0, <1>1 DEF RoomComes, RoomUpdated
<1>5. CASE HandleRoomUpdated(e)
  <2>1. /\ e.type = "room:updated" /\ UNCHANGED <<viewSession, fetches, commands>>
        /\ viewRoom' = e.room /\ (me \in e.room.members => isReady' = e.room.ready)
        /\ races' = races /\ OlderAnswers = {}
    BY <1>5 DEF HandleRoomUpdated, SetRoom, RoomCounts
  <2>2. RoomCounts
    BY <1>0, <2>1 DEF RoomCounts, Announced, InGame, Starting
  <2>3. RoomComes \/ AskComes(inbox')
    BY <1>1, <2>1, <2>2 DEF LobbyInv, RoomIsShown, RoomIsDue, Asks
  <2>4. CASE ComesLast(RoomUpdated(room), inbox')
    BY <1>0, <2>4 DEF RoomComes
  <2>5. CASE e = RoomUpdated(room) /\ Without("room:updated", inbox')
    <3>1. e.room = room
      BY <2>5 DEF RoomUpdated
    <3>2. RoomIsShown'
      BY <1>0, <2>1, <2>5, <3>1 DEF RoomIsShown, OlderAnswers
    <3>3. QED
      BY <3>2
  <2>6. CASE AskComes(inbox')
    BY <2>6 DEF RoomIsDue
  <2>7. QED
    BY <1>1, <2>3, <2>4, <2>5, <2>6
<1>6. CASE HandleReconnectState(e)
  <2>1. /\ e.type = "state" /\ UNCHANGED <<viewRoom, isReady, commands>>
        /\ fetches' = [fetches EXCEPT ![drops].step = IF e.built THEN "asked" ELSE @]
    BY <1>6 DEF HandleReconnectState
  <2>2. viewSession' = viewSession /\ races' = races
    BY <1>6 DEF HandleReconnectState, RoomCounts
  <2>3. RoomCounts
    BY <1>0, <2>1, <2>2 DEF RoomCounts, Announced, InGame, Starting
  <2>4. /\ drops \in Connections
        /\ fetches'[drops].room = fetches[drops].room
        /\ e.built => fetches'[drops].step = "asked"
        /\ ~e.built => fetches'[drops].step = fetches[drops].step
        /\ \A n \in Connections : n # drops => fetches'[n] = fetches[n]
    BY <2>1 DEF NewsInv, TypeOK
  <2>5. RoomIsShown => RoomIsShown'
    <3>1. \A i \in Ids : AwaitsAnswer(i) => AwaitsAnswer(i)'
      BY <1>0, <1>1, <2>1 DEF AwaitsAnswer
    <3>2. \A n \in Connections : fetches'[n].step = "answered" =>
            fetches[n].step = "answered" /\ fetches'[n].room = fetches[n].room
      BY <2>4
    <3>3. QED
      BY <1>0, <1>1, <2>1, <2>2, <3>1, <3>2 DEF RoomIsShown
  <2>6. RoomIsDue => RoomIsDue'
    <3>1. CASE e.built
      BY <1>0, <1>1, <2>4, <3>1 DEF RoomIsDue
    <3>2. CASE ~e.built
      BY <1>0, <1>1, <2>4, <3>2 DEF RoomIsDue, Asks
    <3>3. QED
      BY <3>1, <3>2
  <2>7. QED
    BY <1>4, <2>1, <2>3, <2>5, <2>6 DEF LobbyInv
<1>7. CASE HandleAnswer(e)
  <2>1. /\ e.type = "answer" /\ UNCHANGED <<viewRoom, viewSession, fetches>>
        /\ IF commands[e.id].waits THEN Settle(e.id, e.accepted)
           ELSE UNCHANGED <<commands, isReady, races>>
    BY <1>7 DEF HandleAnswer
  <2>2. races \subseteq races' /\ races' \subseteq races \cup {"rollback"}
    BY <2>1 DEF Settle
  <2>3. RoomCounts
    BY <1>0, <2>1, <2>2 DEF RoomCounts, Announced, InGame, Starting
  <2>4. e.id \in Ids /\ e.accepted \in BOOLEAN /\ e = Answer(e.id, e.accepted)
    BY <1>0, <2>1, EventFields
  <2>5. \/ "rollback" \in races'
        \/ /\ isReady' = isReady
           /\ \A i \in Ids : AwaitsAnswer(i) => AwaitsAnswer(i)'
    <3>1. CASE commands[e.id].waits /\ e.accepted
      <4>1. commands' = [commands EXCEPT ![e.id].waits = FALSE] /\ isReady' = isReady
        BY <2>1, <3>1 DEF Settle
      <4>2. \A i \in Ids : i # e.id => commands'[i] = commands[i]
        BY <2>4, <4>1 DEF NewsInv, TypeOK
      <4>3. e = Answer(e.id, TRUE)
        BY <2>4, <3>1
      <4>4. ~AwaitsAnswer(e.id)
        BY <1>1, <4>3 DEF AwaitsAnswer
      <4>5. QED
        BY <1>0, <1>1, <4>1, <4>2, <4>4 DEF AwaitsAnswer
    <3>2. CASE commands[e.id].waits /\ ~e.accepted
      BY <2>1, <3>2 DEF Settle
    <3>3. CASE ~commands[e.id].waits
      BY <1>0, <1>1, <2>1, <3>3 DEF AwaitsAnswer
    <3>4. QED
      BY <3>1, <3>2, <3>3
  <2>6. RoomIsShown => RoomIsShown'
    BY <1>0, <1>1, <2>1, <2>2, <2>5 DEF RoomIsShown
  <2>7. RoomIsDue => RoomIsDue'
    BY <1>0, <1>1, <2>1 DEF RoomIsDue, Asks
  <2>8. QED
    BY <1>4, <2>1, <2>3, <2>6, <2>7 DEF LobbyInv
<1>8. QED
  BY <1>3, <1>5, <1>6, <1>7

\* No step loses the room, but for the races.
LEMMA LobbyStep ==
  NewsInv /\ OutboxInv /\ SilenceInv /\ LobbyInv /\ [Next]_vars => LobbyInv'
BY LobbyOfServer, LobbyOfConnection, LobbyOfPage DEF Next, LobbyInv

-----------------------------------------------------------------------------
(* What a row of events makes of a view.                                   *)

\* No events leave the view as it is,
LEMMA LeadsEmpty == \A seats, v : Leads(seats, <<>>, v, v)
<1> SUFFICES ASSUME NEW seats, NEW v PROVE Leads(seats, <<>>, v, v)
  OBVIOUS
<1> DEFINE f == [k \in {0} |-> v]
<1>1. f[0] = v /\ Len(<<>>) = 0
  OBVIOUS
<1> HIDE DEF f
<1>2. QED
  BY <1>1 DEF Leads

\* and nothing else.
LEMMA LeadsOfEmpty == \A seats, v, s : Leads(seats, <<>>, v, s) => s = v
BY DEF Leads

\* An event more is applied to what the others have made of the view.
LEMMA LeadsAppended ==
  ASSUME NEW S, NEW q \in Seq(S), NEW d \in S, NEW seats, NEW v, NEW s, Leads(seats, q, v, s)
  PROVE  Leads(seats, Append(q, d), v, After(seats, s, d))
<1>1. PICK f : /\ f[Len(q)] = s
               /\ f[0] = v \/ \E j \in 1..Len(q) : IsReset(q[j])
               /\ \A k \in 1..Len(q) : \/ f[k] = After(seats, f[k - 1], q[k])
                                       \/ \E j \in (k + 1)..Len(q) : IsReset(q[j])
  BY DEF Leads
<1> DEFINE n == Len(q)
           row == Append(q, d)
           g == [k \in 0..(n + 1) |-> IF k <= n THEN f[k] ELSE After(seats, s, d)]
<1>2. /\ n \in Nat /\ Len(row) = n + 1 /\ row[n + 1] = d
      /\ \A k \in 1..n : row[k] = q[k]
  BY QueuePlaces
<1>3. g[n + 1] = After(seats, s, d) /\ \A k \in 0..n : g[k] = f[k]
  BY <1>2
<1> HIDE DEF g, row, n
<1>4. g[0] = v \/ \E j \in 1..(n + 1) : IsReset(row[j])
  BY <1>1, <1>2, <1>3 DEF n
<1>5. ASSUME NEW k \in 1..(n + 1)
      PROVE  \/ g[k] = After(seats, g[k - 1], row[k])
             \/ \E j \in (k + 1)..(n + 1) : IsReset(row[j])
  <2>1. CASE k = n + 1
    <3>1. k - 1 = n /\ n \in 0..n
      BY <1>2, <2>1
    <3>2. QED
      BY <1>1, <1>2, <1>3, <2>1, <3>1 DEF n
  <2>2. CASE k # n + 1
    <3>1. k \in 1..n /\ k - 1 \in 0..n /\ k \in 0..n
      BY <1>2, <2>2
    <3>2. CASE f[k] = After(seats, f[k - 1], q[k])
      BY <1>2, <1>3, <3>1, <3>2
    <3>3. ASSUME NEW j \in (k + 1)..n, IsReset(q[j])
          PROVE  \E i \in (k + 1)..(n + 1) : IsReset(row[i])
      <4>1. j \in 1..n /\ j \in (k + 1)..(n + 1)
        BY <1>2, <3>1
      <4>2. QED
        BY <1>2, <3>3, <4>1
    <3>4. QED
      BY <1>1, <3>1, <3>2, <3>3 DEF n
  <2>3. QED
    BY <2>1, <2>2
<1>6. QED
  <2>1. \E h : /\ h[Len(row)] = After(seats, s, d)
               /\ h[0] = v \/ \E j \in 1..Len(row) : IsReset(row[j])
               /\ \A k \in 1..Len(row) : \/ h[k] = After(seats, h[k - 1], row[k])
                                         \/ \E j \in (k + 1)..Len(row) : IsReset(row[j])
    BY <1>2, <1>3, <1>4, <1>5
  <2>2. Leads(seats, row, v, After(seats, s, d))
    BY <2>1 DEF Leads
  <2>3. QED
    BY <2>2 DEF row

\* A snapshot makes its session of any view.
LEMMA LeadsReset ==
  ASSUME NEW S, NEW q \in Seq(S), NEW d \in S, IsReset(d), NEW seats, NEW v
  PROVE  Leads(seats, Append(q, d), v, d.session)
<1> DEFINE n == Len(q)
           row == Append(q, d)
           g == [k \in 0..(n + 1) |-> d.session]
<1>1. n \in Nat /\ Len(row) = n + 1 /\ row[n + 1] = d
  BY QueuePlaces
<1>2. \A k \in 0..(n + 1) : g[k] = d.session
  OBVIOUS
<1>3. \A w : After(seats, w, d) = d.session
  BY DEF After, IsReset
<1> HIDE DEF g, row, n
<1>4. IsReset(row[n + 1]) /\ n + 1 \in 1..(n + 1)
  BY <1>1
<1>5. ASSUME NEW k \in 1..(n + 1)
      PROVE  \/ g[k] = After(seats, g[k - 1], row[k])
             \/ \E j \in (k + 1)..(n + 1) : IsReset(row[j])
  <2>1. k = n + 1 => row[k] = d /\ g[k] = d.session
    BY <1>1, <1>2
  <2>2. k # n + 1 => n + 1 \in (k + 1)..(n + 1)
    BY <1>1
  <2>3. QED
    BY <1>3, <1>4, <2>1, <2>2
<1>6. QED
  <2>1. g[n + 1] = d.session
    BY <1>1, <1>2
  <2>2. \E h : /\ h[Len(row)] = d.session
               /\ h[0] = v \/ \E j \in 1..Len(row) : IsReset(row[j])
               /\ \A k \in 1..Len(row) : \/ h[k] = After(seats, h[k - 1], row[k])
                                         \/ \E j \in (k + 1)..Len(row) : IsReset(row[j])
    BY <1>1, <1>4, <1>5, <2>1
  <2>3. Leads(seats, row, v, d.session)
    BY <2>2 DEF Leads
  <2>4. QED
    BY <2>3 DEF row

\* Handling the first of them; what it makes of the view is lost before a snapshot.
LEMMA LeadsTail ==
  ASSUME NEW S, NEW q \in Seq(S), q # <<>>, NEW seats, NEW v, NEW s, Leads(seats, q, v, s), NEW w,
         w = After(seats, v, Head(q)) \/ \E j \in 1..Len(Tail(q)) : IsReset(Tail(q)[j])
  PROVE  Leads(seats, Tail(q), w, s)
<1>1. PICK f : /\ f[Len(q)] = s
               /\ f[0] = v \/ \E j \in 1..Len(q) : IsReset(q[j])
               /\ \A k \in 1..Len(q) : \/ f[k] = After(seats, f[k - 1], q[k])
                                       \/ \E j \in (k + 1)..Len(q) : IsReset(q[j])
  BY DEF Leads
<1> DEFINE n == Len(Tail(q))
           row == Tail(q)
           g == [k \in 0..n |-> f[k + 1]]
<1>2. /\ n \in Nat /\ Len(q) = n + 1 /\ Head(q) = q[1]
      /\ \A k \in 1..n : row[k] = q[k + 1]
  BY QueuePlaces
<1>3. \A k \in 0..n : g[k] = f[k + 1]
  OBVIOUS
<1>a. Len(row) = n
  OBVIOUS
<1> HIDE DEF g, row, n
<1>4. ASSUME NEW k \in 1..(n + 1), \E j \in (k + 1)..(n + 1) : IsReset(q[j])
      PROVE  \E j \in k..n : j \in 1..n /\ IsReset(row[j])
  <2>1. PICK j \in (k + 1)..(n + 1) : IsReset(q[j])
    BY <1>4
  <2>2. j - 1 \in k..n /\ j - 1 \in 1..n /\ row[j - 1] = q[j]
    BY <1>2
  <2>3. QED
    BY <2>1, <2>2
<1>5. g[0] = w \/ \E j \in 1..n : IsReset(row[j])
  <2>1. CASE \E j \in (1 + 1)..(n + 1) : IsReset(q[j])
    <3>1. 1 \in 1..(n + 1)
      BY <1>2
    <3>2. QED
      BY <1>4, <2>1, <3>1
  <2>2. CASE ~(\E j \in (1 + 1)..(n + 1) : IsReset(q[j]))
    <3>1. f[1] = After(seats, f[0], q[1])
      <4>1. 1 \in 1..Len(q) /\ 1 - 1 = 0
        BY <1>2
      <4>2. QED
        BY <1>1, <1>2, <2>2, <4>1
    <3>2. f[0] = v \/ IsReset(q[1])
      <4>1. \A j \in 1..Len(q) : j = 1 \/ j \in (1 + 1)..(n + 1)
        BY <1>2
      <4>2. QED
        BY <1>1, <2>2, <4>1
    <3>3. f[1] = After(seats, v, q[1])
      BY <3>1, <3>2 DEF After, IsReset
    <3>4. g[0] = f[1]
      <4>1. 0 \in 0..n
        BY <1>2
      <4>2. QED
        BY <1>3, <4>1
    <3>5. QED
      BY <1>2, <1>a, <3>3, <3>4 DEF row, n
  <2>3. QED
    BY <2>1, <2>2
<1>6. ASSUME NEW k \in 1..n
      PROVE  g[k] = After(seats, g[k - 1], row[k]) \/ \E j \in (k + 1)..n : IsReset(row[j])
  <2>1. k + 1 \in 1..(n + 1) /\ k - 1 \in 0..n /\ k \in 0..n /\ (k + 1) - 1 = k /\ (k - 1) + 1 = k
    BY <1>2
  <2>2. CASE f[k + 1] = After(seats, f[k], q[k + 1])
    BY <1>2, <1>3, <2>1, <2>2
  <2>3. CASE \E j \in ((k + 1) + 1)..(n + 1) : IsReset(q[j])
    BY <1>4, <2>1, <2>3
  <2>4. QED
    BY <1>1, <1>2, <2>1, <2>2, <2>3
<1>7. QED
  <2>1. g[n] = s
    <3>1. n \in 0..n
      BY <1>2
    <3>2. QED
      BY <1>1, <1>2, <1>3, <3>1
  <2>2. \E h : /\ h[Len(row)] = s
               /\ h[0] = w \/ \E j \in 1..Len(row) : IsReset(row[j])
               /\ \A k \in 1..Len(row) : \/ h[k] = After(seats, h[k - 1], row[k])
                                         \/ \E j \in (k + 1)..Len(row) : IsReset(row[j])
    BY <1>a, <1>5, <1>6, <2>1
  <2>3. Leads(seats, row, w, s)
    BY <2>2 DEF Leads
  <2>4. QED
    BY <2>3 DEF row

\* Events that change nothing in the view.
Idles(e) == e.type \notin GameEvents /\ ~IsReset(e)

\* Those leave a view as it is,
LEMMA AfterIdle == \A seats, v, e : Idles(e) => After(seats, v, e) = v
BY DEF Idles, After, GameEvents

\* however many they are.
LEMMA LeadsIdle ==
  ASSUME NEW S, NEW q \in Seq(S), \A k \in 1..Len(q) : Idles(q[k]), NEW seats, NEW v
  PROVE  Leads(seats, q, v, v)
<1> DEFINE f == [k \in 0..Len(q) |-> v]
<1>1. Len(q) \in Nat
  BY QueuePlaces
<1>2. \A k \in 0..Len(q) : f[k] = v
  OBVIOUS
<1> HIDE DEF f
<1>3. \A k \in 1..Len(q) : k \in 0..Len(q) /\ k - 1 \in 0..Len(q)
  BY <1>1
<1>4. \A k \in 1..Len(q) : f[k] = After(seats, f[k - 1], q[k])
  BY <1>2, <1>3, AfterIdle
<1>5. f[0] = v /\ f[Len(q)] = v
  BY <1>1, <1>2
<1>6. QED
  BY <1>4, <1>5 DEF Leads

\* The rows of a handler.
LEMMA LeadsShort ==
  ASSUME NEW seats, NEW v
  PROVE  /\ \A a \in Events : Leads(seats, <<a>>, v, After(seats, v, a))
         /\ \A a, b \in Events : Leads(seats, <<a, b>>, v, After(seats, After(seats, v, a), b))
         /\ \A a, b, c \in Events :
              Leads(seats, <<a, b, c>>, v, After(seats, After(seats, After(seats, v, a), b), c))
<1>1. ASSUME NEW a \in Events PROVE Leads(seats, <<a>>, v, After(seats, v, a))
  <2>1. <<>> \in Seq(Events) /\ Append(<<>>, a) = <<a>>
    BY ShortAppends
  <2>2. QED
    BY <2>1, LeadsEmpty, LeadsAppended
<1>2. ASSUME NEW a \in Events, NEW b \in Events
      PROVE  Leads(seats, <<a, b>>, v, After(seats, After(seats, v, a), b))
  <2>1. <<a>> \in Seq(Events) /\ Append(<<a>>, b) = <<a, b>>
    BY ShortAppends
  <2>2. QED
    BY <1>1, <2>1, LeadsAppended
<1>3. ASSUME NEW a \in Events, NEW b \in Events, NEW c \in Events
      PROVE  Leads(seats, <<a, b, c>>, v, After(seats, After(seats, After(seats, v, a), b), c))
  <2>1. <<a, b>> \in Seq(Events) /\ Append(<<a, b>>, c) = <<a, b, c>>
    BY ShortAppends
  <2>2. QED
    BY <1>2, <2>1, LeadsAppended
<1>4. QED
  BY <1>1, <1>2, <1>3

\* The effects of a start make its session of nothing.
LEMMA StartingLeads ==
  ASSUME NewsInv
  PROVE  Leads(room.members, Starting, NoSession, NewGame)
<1> DEFINE seats == room.members
           started == [phase |-> "NIGHT", turn |-> 0, players |-> seats, dead |-> {}, role |-> FALSE]
<1>1. seats # {} /\ me \in seats
  BY DEF NewsInv
<1>2. After(seats, NoSession, GameStarted) = started
  BY DEF After, GameStarted, Normalized, NoSession, IsReset
<1>3. After(seats, started, RoleAssigned) = NewGame
  BY <1>1 DEF After, RoleAssigned, Normalized, NewGame, IsReset
<1>4. After(seats, NewGame, RoomUpdated(room)) = NewGame
  BY DEF After, RoomUpdated, IsReset
<1>5. /\ GameStarted \in Events /\ RoleAssigned \in Events /\ RoomUpdated(room) \in Events
  BY EventsAreEvents DEF NewsInv, TypeOK
<1> HIDE DEF started
<1>6. QED
  BY <1>2, <1>3, <1>4, <1>5, LeadsShort DEF Starting

\* Effects that come again, of what a snapshot has shown already, change nothing.
LEMMA EffectsOfShown ==
  ASSUME NewsInv, InGame, NEW phase \in Phases, NEW attacked \in Users \cup {None},
         NEW dead \in session.dead \cup {None}, NEW seats
  PROVE  /\ After(seats, session, PhaseChanged(phase, session.turn)) = [session EXCEPT !.phase = phase]
         /\ phase = session.phase => [session EXCEPT !.phase = phase] = session
         /\ \A s : s = session \/ s = [session EXCEPT !.phase = phase] =>
              After(seats, s, Resolved(attacked, dead)) = s
         /\ session.phase = "FINISHED" => 
              /\ After(seats, session, GameFinished) = session
              /\ After(seats, [session EXCEPT !.phase = phase], GameFinished) = session
         /\ PhaseChanged(phase, session.turn) \in Events /\ Resolved(attacked, dead) \in Events
         /\ GameFinished \in Events
<1>1. /\ session \in Sessions /\ session.players # {} /\ session.dead \subseteq session.players
  BY DEF NewsInv, TypeOK
<1>2. session = [phase |-> session.phase, turn |-> session.turn, players |-> session.players,
                 dead |-> session.dead, role |-> session.role]
  BY <1>1 DEF Sessions
<1>3. After(seats, session, PhaseChanged(phase, session.turn)) = [session EXCEPT !.phase = phase]
  BY <1>1, <1>2 DEF After, PhaseChanged, Normalized, IsReset
<1>4. phase = session.phase => [session EXCEPT !.phase = phase] = session
  BY <1>2
<1>5. ASSUME NEW s, s = session \/ s = [session EXCEPT !.phase = phase]
      PROVE  After(seats, s, Resolved(attacked, dead)) = s
  <2>1. s \in Sessions /\ s.players # {} /\ s.dead \subseteq s.players /\ dead \in s.dead \cup {None}
    BY <1>1, <1>2, <1>5 DEF Sessions
  <2>2. s = [phase |-> s.phase, turn |-> s.turn, players |-> s.players, dead |-> s.dead, role |-> s.role]
    BY <2>1 DEF Sessions
  <2>3. After(seats, s, Resolved(attacked, dead)) = IF dead = None THEN s ELSE WithDead(s, dead)
    BY <2>1 DEF After, Resolved, Normalized, IsReset
  <2>4. CASE dead = None
    BY <2>3, <2>4
  <2>5. CASE dead # None
    <3>1. dead \in s.dead /\ s.dead \cup {dead} = s.dead
      BY <2>1, <2>5
    <3>2. WithDead(s, dead) = s
      BY <2>1, <2>2, <3>1 DEF WithDead
    <3>3. QED
      BY <2>3, <3>2
  <2>6. QED
    BY <2>4, <2>5
<1>6. session.phase = "FINISHED" => After(seats, session, GameFinished) = session
  BY <1>1, <1>2 DEF After, GameFinished, IsReset
<1>7. session.phase = "FINISHED" => After(seats, [session EXCEPT !.phase = phase], GameFinished) = session
  BY <1>1, <1>2 DEF After, GameFinished, IsReset, NoSession
<1>8. session.turn \in Nat /\ dead \in Users \cup {None}
  BY <1>1 DEF Sessions
<1>9. QED
  BY <1>3, <1>4, <1>5, <1>6, <1>7, <1>8, EventsAreEvents

\* A session read in the middle of a handler stays what it is under the effects left.
LEMMA OutboxIsShown ==
  ASSUME NewsInv, OutboxInv, InGame
  PROVE  /\ Leads(room.members, outbox, session, session)
         /\ outbox # <<>> => Leads(room.members, Tail(outbox), session, session)
<1> DEFINE seats == room.members
<1>1. CASE outbox \in StartEffects /\ session = NewGame
  <2>1. After(seats, NewGame, GameStarted) = NewGame
    BY DEF After, GameStarted, Normalized, IsReset, NewGame, NewsInv
  <2>2. After(seats, NewGame, RoleAssigned) = NewGame
    BY DEF After, RoleAssigned, Normalized, IsReset, NewGame, NewsInv
  <2>3. After(seats, NewGame, RoomUpdated(room)) = NewGame
    BY DEF After, RoomUpdated, IsReset
  <2>4. /\ GameStarted \in Events /\ RoleAssigned \in Events /\ RoomUpdated(room) \in Events
    BY EventsAreEvents DEF NewsInv, TypeOK
  <2> DEFINE a == GameStarted
             b == RoleAssigned
             c == RoomUpdated(room)
  <2>5. /\ Leads(seats, <<a, b, c>>, session, session) /\ Leads(seats, <<b, c>>, session, session)
        /\ Leads(seats, <<c>>, session, session) /\ Leads(seats, <<>>, session, session)
    BY <1>1, <2>1, <2>2, <2>3, <2>4, LeadsShort, LeadsEmpty
  <2>6. outbox = <<a, b, c>> \/ outbox = <<b, c>> \/ outbox = <<c>>
    BY <1>1 DEF StartEffects, Starting
  <2> HIDE DEF seats, a, b, c
  <2>7. Leads(seats, outbox, session, session) /\ Leads(seats, Tail(outbox), session, session)
    <3>1. CASE outbox = <<a, b, c>>
      BY <2>5, <3>1, ShortTails
    <3>2. CASE outbox = <<b, c>>
      BY <2>5, <3>2, ShortTails
    <3>3. CASE outbox = <<c>>
      BY <2>5, <3>3, ShortTails
    <3>4. QED
      BY <2>6, <3>1, <3>2, <3>3
  <2>8. QED
    BY <2>7 DEF seats
<1>2. ASSUME NEW phase \in Phases, NEW attacked \in Users \cup {None},
             NEW dead \in session.dead \cup {None}, Effects(phase, attacked, dead)
      PROVE  /\ Leads(seats, outbox, session, session)
             /\ outbox # <<>> => Leads(seats, Tail(outbox), session, session)
  <2> DEFINE a == PhaseChanged(phase, session.turn)
             b == Resolved(attacked, dead)
             c == GameFinished
             s == [session EXCEPT !.phase = phase]
  <2>1. /\ a \in Events /\ b \in Events /\ c \in Events
        /\ After(seats, session, a) = s /\ After(seats, session, b) = session
        /\ After(seats, s, b) = s
        /\ phase = session.phase => s = session
        /\ session.phase = "FINISHED" => After(seats, session, c) = session
                                         /\ After(seats, s, c) = session
    BY EffectsOfShown
  <2>2. \/ outbox = <<>>
        \/ outbox = <<a>> /\ phase = session.phase
        \/ outbox = <<a, b>> /\ phase = session.phase
        \/ outbox = <<b>>
        \/ outbox = <<a, b, c>> /\ session.phase = "FINISHED"
        \/ outbox = <<b, c>> /\ session.phase = "FINISHED"
        \/ outbox = <<c>> /\ session.phase = "FINISHED"
    BY <1>2 DEF Effects
  <2> HIDE DEF a, b, c, s, seats
  <2>3. /\ Leads(seats, <<>>, session, session) /\ Leads(seats, <<b>>, session, session)
        /\ phase = session.phase => Leads(seats, <<a>>, session, session)
                                    /\ Leads(seats, <<a, b>>, session, session)
        /\ session.phase = "FINISHED" => /\ Leads(seats, <<a, b, c>>, session, session)
                                         /\ Leads(seats, <<b, c>>, session, session)
                                         /\ Leads(seats, <<c>>, session, session)
    <3>1. Leads(seats, <<b>>, session, After(seats, session, b))
      BY <2>1, LeadsShort
    <3>2. Leads(seats, <<a>>, session, After(seats, session, a))
      BY <2>1, LeadsShort
    <3>3. Leads(seats, <<a, b>>, session, After(seats, After(seats, session, a), b))
      BY <2>1, LeadsShort
    <3>4. Leads(seats, <<a, b, c>>, session, After(seats, After(seats, After(seats, session, a), b), c))
      BY <2>1, LeadsShort
    <3>5. Leads(seats, <<b, c>>, session, After(seats, After(seats, session, b), c))
      BY <2>1, LeadsShort
    <3>6. Leads(seats, <<c>>, session, After(seats, session, c))
      BY <2>1, LeadsShort
    <3>7. QED
      BY <2>1, <3>1, <3>2, <3>3, <3>4, <3>5, <3>6, LeadsEmpty
  <2>4. CASE outbox = <<>>
    BY <2>3, <2>4
  <2>5. CASE outbox = <<a>> /\ phase = session.phase
    BY <2>3, <2>5, ShortTails
  <2>6. CASE outbox = <<a, b>> /\ phase = session.phase
    BY <2>3, <2>6, ShortTails
  <2>7. CASE outbox = <<b>>
    BY <2>3, <2>7, ShortTails
  <2>8. CASE outbox = <<a, b, c>> /\ session.phase = "FINISHED"
    BY <2>3, <2>8, ShortTails
  <2>9. CASE outbox = <<b, c>> /\ session.phase = "FINISHED"
    BY <2>3, <2>9, ShortTails
  <2>10. CASE outbox = <<c>> /\ session.phase = "FINISHED"
    BY <2>3, <2>10, ShortTails
  <2>11. QED
    BY <2>2, <2>4, <2>5, <2>6, <2>7, <2>8, <2>9, <2>10
<1>3. QED
  BY <1>1, <1>2 DEF OutboxInv

-----------------------------------------------------------------------------
(* The seats of the page.                                                  *)

\* A snapshot in a row with one event more, and with the first one taken.
LEMMA ResetsInRow ==
  ASSUME NEW S, NEW q \in Seq(S)
  PROVE  /\ \A d \in S : ResetIn(Append(q, d)) <=> ResetIn(q) \/ IsReset(d)
         /\ q # <<>> => (ResetIn(q) <=> IsReset(Head(q)) \/ ResetIn(Tail(q)))
<1>1. ASSUME NEW d \in S PROVE ResetIn(Append(q, d)) <=> ResetIn(q) \/ IsReset(d)
  <2>1. /\ Len(q) \in Nat /\ Len(Append(q, d)) = Len(q) + 1
        /\ \A k \in 1..Len(q) : Append(q, d)[k] = q[k]
        /\ Append(q, d)[Len(q) + 1] = d
    BY QueuePlaces
  <2>2. 1..(Len(q) + 1) = 1..Len(q) \cup {Len(q) + 1}
    BY <2>1
  <2>3. QED
    BY <2>1, <2>2 DEF ResetIn
<1>2. ASSUME q # <<>> PROVE ResetIn(q) <=> IsReset(Head(q)) \/ ResetIn(Tail(q))
  <2>1. /\ Len(q) \in Nat \ {0} /\ Len(Tail(q)) = Len(q) - 1 /\ Head(q) = q[1]
        /\ \A k \in 1..Len(Tail(q)) : Tail(q)[k] = q[k + 1]
    BY <1>2, QueuePlaces
  <2>2. \A k \in 1..Len(q) : k = 1 \/ (k - 1 \in 1..Len(Tail(q)) /\ q[k] = Tail(q)[k - 1])
    BY <2>1
  <2>3. 1 \in 1..Len(q) /\ \A k \in 1..Len(Tail(q)) : k + 1 \in 1..Len(q)
    BY <2>1
  <2>4. QED
    BY <2>1, <2>2, <2>3 DEF ResetIn
<1>3. QED
  BY <1>1, <1>2

\* Seats that are known stay known with one event more,
LEMMA SeatsAppended ==
  ASSUME NEW S, NEW q \in Seq(S), NEW d \in S, NEW shown, NEW r, SeatsIn(q, shown, r),
         d.type # "state", d.type = "room:updated" => d.room = r
  PROVE  SeatsIn(Append(q, d), shown, r)
<1> DEFINE row == Append(q, d)
           n == Len(q)
<1>1. /\ n \in Nat /\ Len(row) = n + 1 /\ row[n + 1] = d
      /\ \A k \in 1..n : row[k] = q[k]
  BY QueuePlaces
<1>2. Without("state", row)
  BY WithoutAppended DEF SeatsIn
<1>a. n = Len(q)
  OBVIOUS
<1> HIDE DEF row, n
<1>3. CASE shown = r /\ \A j \in 1..n : q[j].type = "room:updated" => q[j].room = r
  <2>1. \A j \in 1..(n + 1) : j = n + 1 \/ j \in 1..n
    BY <1>1
  <2>2. \A j \in 1..(n + 1) : row[j].type = "room:updated" => row[j].room = r
    BY <1>1, <1>3, <2>1
  <2>3. SeatsIn(row, shown, r)
    BY <1>1, <1>2, <1>3, <2>2 DEF SeatsIn
  <2>4. QED
    BY <2>3 DEF row
<1>4. ASSUME NEW k \in 1..n, q[k] = RoomUpdated(r),
             \A j \in 1..(k - 1) : q[j].type \notin GameEvents,
             \A j \in k..n : q[j].type = "room:updated" => q[j].room = r
      PROVE  SeatsIn(row, shown, r)
  <2>1. k \in 1..(n + 1) /\ row[k] = RoomUpdated(r)
    BY <1>1, <1>4
  <2>2. \A j \in 1..(k - 1) : j \in 1..n
    BY <1>1
  <2>3. \A j \in 1..(k - 1) : row[j].type \notin GameEvents
    BY <1>1, <1>4, <2>2
  <2>4. \A j \in k..(n + 1) : j = n + 1 \/ (j \in k..n /\ j \in 1..n)
    BY <1>1
  <2>5. \A j \in k..(n + 1) : row[j].type = "room:updated" => row[j].room = r
    BY <1>1, <1>4, <2>4
  <2>6. QED
    BY <1>1, <1>2, <2>1, <2>3, <2>5 DEF SeatsIn
<1>5. QED
  BY <1>3, <1>4, <1>a DEF SeatsIn, row

\* and when the first one is handled; it is no event of a game before the room is there.
LEMMA SeatsOfTail ==
  ASSUME NEW S, NEW q \in Seq(S), q # <<>>, NEW shown, NEW r, SeatsIn(q, shown, r), NEW next,
         next = IF Head(q).type = "room:updated" THEN Head(q).room ELSE shown
  PROVE  SeatsIn(Tail(q), next, r) /\ (Head(q).type \in GameEvents => shown = r)
<1> DEFINE row == Tail(q)
           n == Len(Tail(q))
<1>1. /\ n \in Nat /\ Len(q) = n + 1 /\ Head(q) = q[1]
      /\ \A k \in 1..n : row[k] = q[k + 1]
  BY QueuePlaces
<1>2. Without("state", row)
  BY WithoutTail DEF SeatsIn
<1>a. n = Len(row) /\ row = Tail(q)
  OBVIOUS
<1> HIDE DEF row, n
<1>3. \A j \in 1..n : j + 1 \in 1..(n + 1)
  BY <1>1
<1>4. CASE shown = r /\ \A j \in 1..Len(q) : q[j].type = "room:updated" => q[j].room = r
  <2>1. next = r
    <3>1. 1 \in 1..Len(q)
      BY <1>1
    <3>2. QED
      BY <1>1, <1>4, <3>1
  <2>2. \A j \in 1..n : row[j].type = "room:updated" => row[j].room = r
    BY <1>1, <1>3, <1>4
  <2>3. QED
    BY <1>2, <1>4, <1>a, <2>1, <2>2 DEF SeatsIn
<1>5. ASSUME NEW k \in 1..Len(q), q[k] = RoomUpdated(r),
             \A j \in 1..(k - 1) : q[j].type \notin GameEvents,
             \A j \in k..Len(q) : q[j].type = "room:updated" => q[j].room = r
      PROVE  SeatsIn(row, next, r) /\ Head(q).type \notin GameEvents
  <2>1. CASE k = 1
    <3>1. next = r /\ Head(q).type \notin GameEvents
      BY <1>1, <1>5, <2>1 DEF RoomUpdated, GameEvents
    <3>2. \A j \in 1..n : j + 1 \in k..Len(q)
      BY <1>1, <2>1
    <3>3. \A j \in 1..n : row[j].type = "room:updated" => row[j].room = r
      BY <1>1, <1>5, <3>2
    <3>4. QED
      BY <1>2, <1>a, <3>1, <3>3 DEF SeatsIn
  <2>2. CASE k # 1
    <3>1. k - 1 \in 1..n /\ row[k - 1] = RoomUpdated(r) /\ 1 \in 1..(k - 1)
      BY <1>1, <1>5, <2>2
    <3>2. \A j \in 1..((k - 1) - 1) : j + 1 \in 1..(k - 1) /\ j \in 1..n
      BY <1>1
    <3>3. \A j \in 1..((k - 1) - 1) : row[j].type \notin GameEvents
      BY <1>1, <1>5, <3>2
    <3>4. \A j \in (k - 1)..n : j + 1 \in k..Len(q) /\ j \in 1..n
      BY <1>1, <2>2
    <3>5. \A j \in (k - 1)..n : row[j].type = "room:updated" => row[j].room = r
      BY <1>1, <1>5, <3>4
    <3>6. SeatsIn(row, next, r)
      BY <1>2, <1>a, <3>1, <3>3, <3>5 DEF SeatsIn
    <3>7. QED
      BY <1>1, <1>5, <3>1, <3>6
  <2>3. QED
    BY <2>1, <2>2
<1>6. QED
  BY <1>4, <1>5, <1>a DEF SeatsIn

\* The room is known, or on its way, when the first event of a game comes.
LEMMA SeatsAtStart ==
  ASSUME NEW S, NEW q \in Seq(S), NEW shown, NEW r, Without("state", q),
         \A type \in GameEvents : Without(type, q),
         \/ shown = r /\ Without("room:updated", q)
         \/ ComesLast(RoomUpdated(r), q)
  PROVE  SeatsIn(q, shown, r)
<1>1. Len(q) \in Nat /\ RoomUpdated(r).type = "room:updated" /\ RoomUpdated(r).room = r
  BY QueuePlaces DEF RoomUpdated
<1>2. CASE shown = r /\ Without("room:updated", q)
  BY <1>2 DEF SeatsIn, Without
<1>3. CASE ComesLast(RoomUpdated(r), q)
  <2>1. PICK k \in 1..Len(q) : /\ q[k] = RoomUpdated(r)
                               /\ \A j \in (k + 1)..Len(q) : q[j].type # "room:updated"
    BY <1>1, <1>3 DEF ComesLast
  <2>2. \A j \in 1..(k - 1) : j \in 1..Len(q)
    BY <1>1
  <2>3. \A j \in k..Len(q) : j = k \/ j \in (k + 1)..Len(q)
    BY <1>1
  <2>4. \A j \in 1..(k - 1) : q[j].type \notin GameEvents
    BY <2>2 DEF Without
  <2>5. \A j \in k..Len(q) : q[j].type = "room:updated" => q[j].room = r
    BY <1>1, <2>1, <2>3
  <2>6. QED
    BY <2>1, <2>4, <2>5 DEF SeatsIn
<1>4. QED
  BY <1>2, <1>3

-----------------------------------------------------------------------------
(* The game on the page.                                                   *)

\* A view that has no events of a game on their way is left as it is.
LEMMA IdleInbox ==
  ASSUME NewsInv, \A type \in GameEvents : Without(type, inbox), ~ResetComes
  PROVE  \A seats, v : Leads(seats, inbox, v, v)
<1>1. inbox \in Seq(Events)
  BY QueuesOfEvents
<1>2. \A k \in 1..Len(inbox) : Idles(inbox[k])
  BY DEF Without, ResetComes, ResetIn, Idles
<1>3. QED
  BY <1>1, <1>2, LeadsIdle

\* The effects of a start lead to its session.
LEMMA GameStarts == NewsInv /\ SilenceInv /\ StartGame => GameInv'
<1> SUFFICES ASSUME NewsInv, SilenceInv, StartGame PROVE GameInv'
  OBVIOUS
<1>1. /\ ~InGame /\ session = NoSession /\ viewSession = NoSession /\ session' = NewGame
      /\ outbox' = Starting
      /\ UNCHANGED <<room, pc, snapshot, inbox, fetches, viewRoom, viewSession, races>>
  BY DEF StartGame, NewsInv, NewGame, Starting, connecting, page
<1>2. ~Announced /\ ~Announced'
  BY <1>1 DEF Announced, Starting
<1>3. snapshot = NoSession
  BY <1>1 DEF NewsInv, Read
<1>4. ~ResetComes
  <2>1. ASSUME NEW k \in 1..Len(inbox) PROVE ~IsReset(inbox[k])
    <3>1. inbox[k] \in News
      BY QueuePlaces DEF NewsInv
    <3>2. QED
      BY <1>1, <3>1 DEF News, True, Read, IsReset
  <2>2. QED
    BY <2>1 DEF ResetComes, ResetIn
<1>5. Leads(room.members, inbox, NoSession, NoSession)
  BY <1>2, <1>4, IdleInbox DEF SilenceInv
<1>6. Leads(room.members, Starting, NoSession, NewGame)
  BY StartingLeads
<1>7. ViewLeads'
  BY <1>1, <1>5, <1>6 DEF ViewLeads
<1>8. SnapshotLeads'
  BY <1>1, <1>2, <1>3 DEF SnapshotLeads
<1>9. QED
  BY <1>2, <1>7, <1>8 DEF GameInv

\* A save and its effect lead a view to the session as it is then.
LEMMA GameGoesOn ==
  ASSUME NewsInv, GameInv, Announced, NEW e \in Events, outbox' = Append(outbox, e),
         session' = After(room.members, session, e),
         UNCHANGED <<room, pc, snapshot, inbox, fetches, viewRoom, viewSession, races>>
  PROVE  GameInv'
<1> SUFFICES ASSUME races \cap {"overtaken", "unsent"} = {} PROVE GameInv'
  BY DEF GameInv
<1>1. outbox \in Seq(Events) /\ InGame
  BY QueuesOfEvents DEF Announced
<1>2. ASSUME NEW v, Leads(room.members, outbox, v, session)
      PROVE  Leads(room.members, outbox', v, session')
  BY <1>1, <1>2, LeadsAppended
<1>3. pc = "reading" => SnapshotLeads'
  BY <1>1, <1>2 DEF GameInv, SnapshotLeads
<1>4. GameCounts => ViewLeads'
  <2>1. SUFFICES ASSUME GameCounts PROVE ViewLeads'
    OBVIOUS
  <2>2. PICK s : /\ Leads(room.members, inbox, viewSession, s)
                 /\ Leads(room.members, outbox, s, session)
    BY <1>1, <2>1 DEF GameInv, ViewLeads
  <2>3. Leads(room.members, outbox', s, session')
    BY <1>2, <2>2
  <2>4. QED
    BY <2>2, <2>3 DEF ViewLeads
<1>5. GameCounts' = GameCounts /\ ResetComes' = ResetComes /\ SeatsAreKnown' = SeatsAreKnown
  BY DEF GameCounts, ResetComes, SeatsAreKnown
<1>6. QED
  BY <1>1, <1>3, <1>4, <1>5 DEF GameInv

\* A save does to the session what its effect will do to the view.
LEMMA SavesAreAfter ==
  ASSUME NewsInv, OutboxInv, AdvancePhase \/ Resolve \/ FinishGame
  PROVE  /\ Announced
         /\ \E e \in Events : outbox' = Append(outbox, e) /\ session' = After(room.members, session, e)
         /\ UNCHANGED <<room, pc, snapshot, inbox, fetches, viewRoom, viewSession, races>>
<1>1. /\ session \in Sessions /\ session.dead \subseteq session.players
      /\ UNCHANGED <<room, pc, snapshot, inbox, fetches, viewRoom, viewSession, races>>
  BY DEF NewsInv, TypeOK, AdvancePhase, Resolve, FinishGame, connecting, page
<1>2. Announced
  <2>1. AdvancePhase => InGame /\ outbox # Starting
    BY DEF AdvancePhase, Idle, InGame, Starting
  <2>2. Resolve \/ FinishGame => work # "none"
    BY DEF Resolve, FinishGame
  <2>3. ~InGame => work = "none"
    BY DEF OutboxInv
  <2>4. outbox = Starting => work = "none"
    BY HeadOfOutbox DEF Starting
  <2>5. QED
    BY <2>1, <2>2, <2>3, <2>4 DEF Announced
<1>3. session.players # {} /\ Normalized(room.members, session) = session
  BY <1>2 DEF Announced, NewsInv, Normalized
<1> DEFINE seats == room.members
<1>4. ASSUME AdvancePhase
      PROVE  \E e \in Events : outbox' = Append(outbox, e) /\ session' = After(seats, session, e)
  <2>1. /\ outbox = <<>>
        /\ session' = [session EXCEPT !.phase = NextPhase(@),
                                !.turn = IF session.phase = "NIGHT" THEN @ + 1 ELSE @]
        /\ outbox' = <<PhaseChanged(session'.phase, session'.turn)>>
        /\ session.phase \in {"NIGHT", "DAY_DISCUSSION", "VOTING", "RESULT"}
    BY <1>1, <1>4 DEF AdvancePhase, Idle, NewsInv, Sessions, Phases
  <2>2. session'.phase \in Phases /\ session'.turn \in Nat
    BY <1>1, <2>1 DEF NextPhase, Phases, Sessions
  <2> DEFINE e == PhaseChanged(session'.phase, session'.turn)
  <2>3. e \in Events
    BY <2>2, EventsAreEvents
  <2>4. After(seats, session, e) = [session EXCEPT !.phase = session'.phase, !.turn = session'.turn]
    BY <1>3 DEF After, PhaseChanged, IsReset
  <2>5. session' = [session EXCEPT !.phase = session'.phase, !.turn = session'.turn]
    BY <1>1, <2>1 DEF Sessions
  <2>6. outbox' = Append(outbox, e)
    BY <2>1, ShortAppends
  <2>7. QED
    BY <2>3, <2>4, <2>5, <2>6
<1>5. ASSUME Resolve
      PROVE  \E e \in Events : outbox' = Append(outbox, e) /\ session' = After(seats, session, e)
  <2>1. PICK attacked \in (session.players \ session.dead) \cup {None} :
          \E dead \in {attacked, None} :
            /\ session' = [session EXCEPT !.dead = @ \cup ({dead} \ {None})]
            /\ outbox' = Append(outbox, Resolved(attacked, dead))
    BY <1>5 DEF Resolve
  <2>2. PICK dead \in {attacked, None} :
          /\ session' = [session EXCEPT !.dead = @ \cup ({dead} \ {None})]
          /\ outbox' = Append(outbox, Resolved(attacked, dead))
    BY <2>1
  <2>3. Resolved(attacked, dead) \in Events
    BY <1>1, EventsAreEvents DEF Sessions
  <2>4. After(seats, session, Resolved(attacked, dead)) =
          IF dead = None THEN session ELSE WithDead(session, dead)
    BY <1>3 DEF After, Resolved, IsReset
  <2>5. CASE dead = None
    <3>1. session' = session
      BY <1>1, <2>2, <2>5 DEF Sessions
    <3>2. QED
      BY <2>2, <2>3, <2>4, <2>5, <3>1
  <2>6. CASE dead # None
    <3>1. dead \in session.players /\ {dead} \ {None} = {dead}
      BY <2>6
    <3>2. session' = WithDead(session, dead)
      BY <2>2, <3>1 DEF WithDead
    <3>3. QED
      BY <2>2, <2>3, <2>4, <2>6, <3>2
  <2>7. QED
    BY <2>5, <2>6
<1>6. ASSUME FinishGame
      PROVE  \E e \in Events : outbox' = Append(outbox, e) /\ session' = After(seats, session, e)
  <2>1. session' = [session EXCEPT !.phase = "FINISHED"] /\ outbox' = Append(outbox, GameFinished)
    BY <1>6 DEF FinishGame
  <2>2. After(seats, session, GameFinished) = [session EXCEPT !.phase = "FINISHED"]
    BY <1>3 DEF After, GameFinished, IsReset, NoSession
  <2>3. QED
    BY <2>1, <2>2, EventsAreEvents
<1>7. QED
  BY <1>1, <1>2, <1>4, <1>5, <1>6

\* An event of the room or of the game comes to a page that is up.
LEMMA GameComes ==
  NewsInv /\ OutboxInv /\ SilenceInv /\ SeatedInv /\ LobbyInv /\ GameInv /\ Emit => GameInv'
<1> SUFFICES ASSUME NewsInv, OutboxInv, SilenceInv, SeatedInv, LobbyInv, GameInv, Emit,
                    InGame, races' \cap {"overtaken", "unsent"} = {}
             PROVE  GameInv'
  BY DEF GameInv, Emit, InGame
<1> DEFINE e == Head(outbox)
<1>1. /\ inbox \in Seq(Events) /\ outbox \in Seq(Events)
      /\ outbox # <<>> /\ outbox' = Tail(outbox) /\ e \in Events
      /\ HearsRoom /\ e.type # "answer" => inbox' = Append(inbox, e)
      /\ UNCHANGED <<room, session, pc, snapshot, drops, fetches, viewRoom, viewSession,
                     isReady, commands>>
      /\ races \subseteq races' /\ races \cap {"overtaken", "unsent"} = {}
  BY EmitDelivers, QueuesOfEvents
<1>2. /\ e.type # "state" /\ (e.type = "room:updated" => e = RoomUpdated(room))
      /\ e.type # "answer" /\ (e.type = "game:started" <=> outbox = Starting)
  BY <1>1, HeadOfOutbox
<1>3. pc = "reading" => snapshot = session
  BY DEF Emit
<1>4. e.type = "game:started" => "unseated" \in races' \/ (Synced /\ races \cap {"fetch", "unbuilt"} = {})
  BY DEF Emit
<1> HIDE DEF e
<1>5. pc = "reading" => SnapshotLeads'
  <2>1. Leads(room.members, Tail(outbox), session, session)
    BY <1>1, OutboxIsShown
  <2>2. session # NoSession
    BY DEF InGame, NoSession
  <2>3. QED
    BY <1>1, <1>3, <2>1, <2>2 DEF SnapshotLeads
<1>6. pc = "up" => inbox' = Append(inbox, e)
  BY <1>1, <1>2 DEF HearsRoom
<1>7. pc = "up" => (ResetComes' <=> ResetComes)
  <2>1. ResetIn(Append(inbox, e)) <=> ResetIn(inbox) \/ IsReset(e)
    BY <1>1, ResetsInRow
  <2>2. ~IsReset(e)
    BY <1>2 DEF IsReset
  <2>3. QED
    BY <1>6, <2>1, <2>2 DEF ResetComes
<1>8. GameCounts' => GameCounts
  BY <1>1, <1>7 DEF GameCounts
<1>9. GameCounts' => ViewLeads'
  <2>1. SUFFICES ASSUME GameCounts' PROVE ViewLeads'
    OBVIOUS
  <2>2. PICK s : /\ Leads(room.members, inbox, viewSession, s)
                 /\ Leads(room.members, outbox, s, session)
    BY <1>1, <1>8, <2>1 DEF GameInv, ViewLeads
  <2>3. Leads(room.members, inbox', viewSession, After(room.members, s, e))
    BY <1>1, <1>6, <2>1, <2>2, LeadsAppended DEF GameCounts
  <2>4. Leads(room.members, outbox', After(room.members, s, e), session)
    BY <1>1, <2>2, LeadsTail DEF e
  <2>5. QED
    BY <1>1, <2>3, <2>4 DEF ViewLeads
<1>10. ASSUME GameCounts', viewSession.players = {}, ~ResetComes'
       PROVE  SeatsAreKnown'
  <2>1. /\ pc = "up" /\ inbox' = Append(inbox, e) /\ ~ResetComes
        /\ races' \cap {"unbuilt", "unseated"} = {}
    BY <1>1, <1>6, <1>7, <1>10 DEF GameCounts
  <2>2. SeatsAreKnown
    <3>1. CASE Announced
      BY <1>1, <1>8, <1>10, <2>1, <3>1 DEF GameInv
    <3>2. CASE ~Announced
      <4>1. Synced /\ races \cap {"fetch", "unbuilt"} = {}
        BY <1>2, <1>4, <2>1, <3>2 DEF Announced
      <4>2. /\ Without("state", inbox) /\ \A n \in Connections : fetches[n].step = "none"
        BY <4>1 DEF Synced, Without
      <4>3. RoomCounts
        BY <1>1, <1>10, <2>1, <3>2, <4>1 DEF RoomCounts, SeatedInv
      <4>4. ~RoomIsDue
        BY <2>1, <4>2 DEF RoomIsDue, AskComes, Asks, Without
      <4>5. \/ viewRoom = room /\ Without("room:updated", inbox)
            \/ ComesLast(RoomUpdated(room), inbox)
        BY <4>3, <4>4 DEF LobbyInv, RoomComes, RoomIsShown
      <4>6. SeatsIn(inbox, viewRoom, room)
        BY <1>1, <3>2, <4>2, <4>5, SeatsAtStart DEF SilenceInv
      <4>7. QED
        BY <4>2, <4>6 DEF SeatsAreKnown
    <3>3. QED
      BY <3>1, <3>2
  <2>3. e.type = "room:updated" => e.room = room
    BY <1>2 DEF RoomUpdated
  <2>4. SeatsIn(Append(inbox, e), viewRoom, room)
    BY <1>1, <1>2, <2>2, <2>3, SeatsAppended DEF SeatsAreKnown
  <2>5. QED
    BY <1>1, <2>1, <2>2, <2>4 DEF SeatsAreKnown
<1>11. QED
  BY <1>1, <1>5, <1>9, <1>10 DEF GameInv

\* The server keeps the events on the way to the session.
LEMMA GameOfServer ==
  ASSUME NewsInv, OutboxInv, SilenceInv, SeatedInv, LobbyInv, GameInv,
         \/ \E u \in Others : OthersMove(u)
         \/ StartGame \/ AdvancePhase \/ Resolve \/ FinishGame \/ Emit \/ HandlerFails
         \/ \E i \in Ids : ChangeReady(i)
         \/ \E n \in Connections : ServeRoom(n)
  PROVE  GameInv'
<1>1. ASSUME NEW u \in Others, OthersMove(u) PROVE GameInv'
  BY <1>1 DEF OthersMove, GameInv, InGame
<1>2. CASE StartGame
  BY <1>2, GameStarts
<1>3. CASE AdvancePhase \/ Resolve \/ FinishGame
  <2>1. /\ Announced
        /\ \E e \in Events : outbox' = Append(outbox, e) /\ session' = After(room.members, session, e)
        /\ UNCHANGED <<room, pc, snapshot, inbox, fetches, viewRoom, viewSession, races>>
    BY <1>3, SavesAreAfter
  <2>2. QED
    BY <2>1, GameGoesOn
<1>4. CASE Emit
  BY <1>4, GameComes
<1>5. ASSUME NEW i \in Ids, ChangeReady(i) PROVE GameInv'
  <2>1. SUFFICES ASSUME InGame, races \cap {"overtaken", "unsent"} = {} PROVE GameInv'
    BY <1>5 DEF ChangeReady, GameInv, InGame
  <2> DEFINE e == Answer(i, FALSE)
  <2>2. /\ UNCHANGED <<room, session, outbox, pc, snapshot, fetches, viewRoom, viewSession, races>>
        /\ inbox' = inbox \/ inbox' = Append(inbox, e)
    BY <1>5, <2>1 DEF ChangeReady, SendTo, connecting, page
  <2>3. /\ e \in Events /\ e.type = "answer" /\ Idles(e) /\ ~IsReset(e)
        /\ inbox \in Seq(Events)
    BY EventsAreEvents, QueuesOfEvents DEF Answer, Idles, IsReset, GameEvents
  <2> HIDE DEF e
  <2>4. CASE inbox' = inbox
    BY <2>2, <2>4 DEF GameInv, SnapshotLeads, ViewLeads, GameCounts, ResetComes, SeatsAreKnown,
                      Announced, InGame, Starting
  <2>5. CASE inbox' = Append(inbox, e)
    <3>1. ResetComes' <=> ResetComes
      BY <2>3, <2>5, ResetsInRow DEF ResetComes
    <3>2. SnapshotLeads' <=> SnapshotLeads
      BY <2>2 DEF SnapshotLeads, Announced, InGame, Starting
    <3>3. GameCounts' <=> GameCounts
      BY <2>2, <3>1 DEF GameCounts
    <3>4. ViewLeads => ViewLeads'
      <4>1. SUFFICES ASSUME NEW s, Leads(room.members, inbox, viewSession, s),
                            Leads(room.members, outbox, s, session)
                     PROVE  ViewLeads'
        BY DEF ViewLeads
      <4>2. Leads(room.members, inbox', viewSession, After(room.members, s, e))
        BY <2>3, <2>5, <4>1, LeadsAppended
      <4>3. After(room.members, s, e) = s
        BY <2>3, AfterIdle
      <4>4. QED
        BY <2>2, <4>1, <4>2, <4>3 DEF ViewLeads
    <3>5. SeatsAreKnown => SeatsAreKnown'
      <4>1. SUFFICES ASSUME SeatsAreKnown PROVE SeatsAreKnown'
        OBVIOUS
      <4>2. SeatsIn(inbox', viewRoom, room)
        BY <2>3, <2>5, <4>1, SeatsAppended DEF SeatsAreKnown
      <4>3. QED
        BY <2>2, <4>1, <4>2 DEF SeatsAreKnown
    <3>6. Announced' <=> Announced
      BY <2>2 DEF Announced, InGame, Starting
    <3>7. QED
      BY <2>1, <2>2, <3>1, <3>2, <3>3, <3>4, <3>5, <3>6 DEF GameInv
  <2>6. QED
    BY <2>2, <2>4, <2>5
<1>6. ASSUME NEW n \in Connections, ServeRoom(n) PROVE GameInv'
  <2>1. /\ UNCHANGED <<room, session, outbox, pc, snapshot, inbox, viewRoom, viewSession, races>>
        /\ fetches[n].step = "asked"
    BY <1>6 DEF ServeRoom, server, connecting, page
  <2>2. ~SeatsAreKnown
    BY <2>1 DEF SeatsAreKnown
  <2>3. QED
    BY <2>1, <2>2 DEF GameInv, SnapshotLeads, ViewLeads, GameCounts, ResetComes, Announced, InGame,
                      Starting
<1>7. CASE HandlerFails
  BY <1>7 DEF HandlerFails, GameInv
<1>8. QED
  BY <1>1, <1>2, <1>3, <1>4, <1>5, <1>6, <1>7

\* A snapshot leads on from where it was read.
LEMMA GameOfConnection ==
  ASSUME NewsInv, OutboxInv, SilenceInv, GameInv,
         \/ \E i \in Ids : ToggleReady(i) \/ CommandTimesOut(i)
         \/ \E n \in Connections : RefreshRoom(n)
         \/ Drop \/ JoinUserRoom \/ JoinPreviousRoom \/ ReadSession \/ EmitReconnectState
         \/ UNCHANGED vars
  PROVE  GameInv'
<1>1. ASSUME UNCHANGED <<room, session, outbox, pc, snapshot, inbox, fetches, viewRoom, viewSession>>,
             races' = races \/ races' = races \cup {"rollback"}
      PROVE  GameInv'
  <2>1. /\ races' \cap {"overtaken", "unsent"} = races \cap {"overtaken", "unsent"}
        /\ races' \cap {"unbuilt", "unseated"} = races \cap {"unbuilt", "unseated"}
    BY <1>1
  <2>2. QED
    BY <1>1, <2>1 DEF GameInv, SnapshotLeads, ViewLeads, GameCounts, ResetComes, SeatsAreKnown,
                      Announced, InGame, Starting
<1>2. ASSUME NEW i \in Ids, ToggleReady(i) \/ CommandTimesOut(i) PROVE GameInv'
  <2>1. /\ UNCHANGED <<room, session, outbox, pc, snapshot, inbox, fetches, viewRoom, viewSession>>
        /\ races' = races \/ races' = races \cup {"rollback"}
    BY <1>2 DEF ToggleReady, CommandTimesOut, Settle, server, connecting
  <2>2. QED
    BY <1>1, <2>1
<1>3. ASSUME NEW n \in Connections, RefreshRoom(n) PROVE GameInv'
  <2>1. /\ UNCHANGED <<room, session, outbox, pc, snapshot, inbox, viewSession>>
        /\ fetches[n].step = "answered"
        /\ races' = races \/ races' = races \cup {"fetch"}
    BY <1>3 DEF RefreshRoom, server, connecting
  <2>2. ~SeatsAreKnown
    BY <2>1 DEF SeatsAreKnown
  <2>3. /\ races' \cap {"overtaken", "unsent"} = races \cap {"overtaken", "unsent"}
        /\ races' \cap {"unbuilt", "unseated"} = races \cap {"unbuilt", "unseated"}
    BY <2>1
  <2>4. QED
    BY <2>1, <2>2, <2>3 DEF GameInv, SnapshotLeads, ViewLeads, GameCounts, ResetComes, Announced,
                            InGame, Starting
<1>4. CASE Drop \/ JoinUserRoom \/ JoinPreviousRoom
  BY <1>4 DEF Drop, JoinUserRoom, JoinPreviousRoom, Step, GameInv, GameCounts
<1>5. CASE ReadSession
  <2>1. SUFFICES ASSUME InGame PROVE SnapshotLeads'
    BY <1>5 DEF ReadSession, Step, GameInv, GameCounts, InGame, server
  <2>2. snapshot' = session /\ UNCHANGED <<room, outbox, session>>
    BY <1>5 DEF ReadSession, server
  <2>3. session # NoSession /\ Leads(room.members, outbox, session, session)
    BY <2>1, OutboxIsShown DEF InGame, NoSession
  <2>4. QED
    BY <2>2, <2>3 DEF SnapshotLeads
<1>6. CASE EmitReconnectState
  <2>1. /\ UNCHANGED <<room, session, outbox, viewSession>> /\ pc = "reading" /\ pc' = "up"
        /\ races \subseteq races'
    BY <1>6 DEF EmitReconnectState, Step, server, page
  <2>2. SUFFICES ASSUME InGame, races \cap {"overtaken", "unsent"} = {}, GameCounts'
                 PROVE  ViewLeads' /\ (Announced' /\ ~ResetComes' => FALSE)
    BY <2>1 DEF GameInv, InGame
  <2>3. SnapshotLeads /\ inbox \in Seq(Events) /\ Without("state", inbox)
    BY <2>1, <2>2, QueuesOfEvents DEF GameInv, SilenceInv
  <2>4. ~ResetComes
    BY <2>3 DEF ResetComes, ResetIn, IsReset, Without
  <2>5. PICK built \in BOOLEAN :
          /\ inbox' = Append(inbox, ReconnectState(IF built THEN snapshot ELSE NoSession, built))
          /\ races' = races \cup {r \in {"unbuilt"} : ~built}
    BY <1>6 DEF EmitReconnectState
  <2> DEFINE e == ReconnectState(IF built THEN snapshot ELSE NoSession, built)
  <2>6. e \in Events
    <3>1. NoSession \in Sessions
      BY DEF NoSession, Sessions, Phases
    <3>2. QED
      BY <3>1, EventsAreEvents DEF NewsInv, TypeOK
  <2>7. /\ e.type = "state" /\ e.session = (IF built THEN snapshot ELSE NoSession)
        /\ IsReset(e) <=> built /\ snapshot # NoSession
    BY DEF ReconnectState, IsReset
  <2> HIDE DEF e
  <2>8. ResetComes' <=> IsReset(e)
    <3>1. ResetIn(Append(inbox, e)) <=> ResetIn(inbox) \/ IsReset(e)
      BY <2>3, <2>6, ResetsInRow
    <3>2. QED
      BY <2>4, <2>5, <3>1 DEF ResetComes, e
  <2>9. built
    BY <2>2, <2>5, <2>7, <2>8 DEF GameCounts
  <2>10. CASE snapshot # NoSession
    <3>1. Leads(room.members, inbox', viewSession, snapshot)
      BY <2>3, <2>5, <2>6, <2>7, <2>9, <2>10, LeadsReset DEF e
    <3>2. Leads(room.members, outbox, snapshot, session)
      BY <2>3, <2>10 DEF SnapshotLeads
    <3>3. ViewLeads'
      BY <2>1, <3>1, <3>2 DEF ViewLeads
    <3>4. QED
      BY <2>7, <2>8, <2>9, <2>10, <3>3
  <2>11. CASE snapshot = NoSession
    <3>1. ~Announced /\ viewSession = NoSession
      BY <2>3, <2>11 DEF SnapshotLeads
    <3>2. outbox = Starting /\ session = NewGame
      <4>1. outbox = Starting
        BY <2>2, <3>1 DEF Announced
      <4>2. QED
        BY <4>1, HeadOfOutbox DEF Starting
    <3>3. Leads(room.members, inbox, NoSession, NoSession)
      BY <2>4, <3>1, IdleInbox DEF SilenceInv
    <3>4. After(room.members, NoSession, e) = NoSession
      BY <2>7, <2>11, AfterIdle DEF Idles, GameEvents
    <3>5. Leads(room.members, inbox', NoSession, NoSession)
      <4>1. Leads(room.members, Append(inbox, e), NoSession, After(room.members, NoSession, e))
        BY <2>3, <2>6, <3>3, LeadsAppended
      <4>2. QED
        BY <2>5, <3>4, <4>1 DEF e
    <3>6. ViewLeads'
      BY <2>1, <3>1, <3>2, <3>5, StartingLeads DEF ViewLeads
    <3>7. ~Announced'
      BY <2>1, <3>1 DEF Announced, InGame, Starting
    <3>8. QED
      BY <3>6, <3>7
  <2>12. QED
    BY <2>10, <2>11
<1>7. CASE UNCHANGED vars
  BY <1>1, <1>7 DEF vars, server, connecting, page
<1>8. QED
  BY <1>2, <1>3, <1>4, <1>5, <1>6, <1>7

\* The seats of the room do not matter to a page that has those of a session.
LEMMA AfterSeated ==
  ASSUME NEW a, NEW b, NEW v, NEW e, v.players # {}
  PROVE  After(a, v, e) = After(b, v, e)
<1> DEFINE A == Normalized(a, v)
           B == Normalized(b, v)
<1>1. A = B
  BY DEF Normalized
<1> HIDE DEF A, B
<1>2. QED
  BY <1>1 DEF After, A, B

\* The page follows the events one by one.
LEMMA GameOfPage ==
  ASSUME NewsInv, OutboxInv, SilenceInv, SeatedInv, GameInv, Handle
  PROVE  GameInv'
<1> DEFINE e == Head(inbox)
           seats == room.members
<1>1. /\ inbox \in Seq(News) /\ inbox \in Seq(Events) /\ inbox # <<>> /\ inbox' = Tail(inbox)
      /\ e \in News /\ e \in Events
      /\ viewSession' = After(viewRoom.members, viewSession, e)
      /\ UNCHANGED <<room, session, outbox, pc, snapshot>>
  BY HandlingIsAfter, QueuesOfEvents DEF NewsInv, News, server, connecting
<1>2. /\ races' \cap {"overtaken", "unsent"} = races \cap {"overtaken", "unsent"}
      /\ ~IsReset(e) => races' \cap {"unbuilt", "unseated"} = races \cap {"unbuilt", "unseated"}
      /\ e.type # "state" => fetches' = fetches
      /\ e.type = "room:updated" => viewRoom' = e.room
      /\ e.type # "room:updated" => viewRoom' = viewRoom
  <2>1. \/ HandleRoomUpdated(e) \/ HandleGameStarted(e) \/ HandleRoleAssigned(e)
        \/ HandlePhaseChanged(e) \/ HandleResolved(e) \/ HandleGameFinished(e)
        \/ HandleReconnectState(e) \/ HandleAnswer(e)
    BY DEF Handle
  <2> HIDE DEF e
  <2>2. CASE HandleReconnectState(e)
    BY <2>2 DEF HandleReconnectState, IsReset
  <2>3. CASE ~HandleReconnectState(e)
    <3>1. races' \subseteq races \cup {"fetch", "rollback"} /\ races \subseteq races'
      BY <2>1, <2>3
      DEF HandleRoomUpdated, HandleGameStarted, HandleRoleAssigned, HandlePhaseChanged,
          HandleResolved, HandleGameFinished, HandleAnswer, Settle
    <3>2. /\ e.type # "state" => fetches' = fetches
          /\ e.type = "room:updated" => viewRoom' = e.room
          /\ e.type # "room:updated" => viewRoom' = viewRoom
      BY <2>1, <2>3
      DEF HandleRoomUpdated, HandleGameStarted, HandleRoleAssigned, HandlePhaseChanged,
          HandleResolved, HandleGameFinished, HandleAnswer, SetRoom
    <3>3. QED
      BY <3>1, <3>2
  <2>4. QED
    BY <2>2, <2>3
<1> SUFFICES ASSUME InGame, races \cap {"overtaken", "unsent"} = {} PROVE GameInv'
  BY <1>1, <1>2 DEF GameInv, InGame
<1>3. Without("state", inbox) /\ ~Announced => viewSession' = viewSession
  <2>1. SUFFICES ASSUME Without("state", inbox), ~Announced PROVE viewSession' = viewSession
    OBVIOUS
  <2>2. e.type # "state" /\ e.type \notin GameEvents
    BY <1>1, <2>1, WithoutTail DEF SilenceInv
  <2>3. Idles(e)
    BY <2>2 DEF Idles, IsReset
  <2>4. QED
    BY <1>1, <2>3, AfterIdle
<1>4. Announced' <=> Announced
  BY <1>1 DEF Announced, InGame, Starting
<1>5. pc = "reading" => SnapshotLeads'
  BY <1>1, <1>3, <1>4 DEF GameInv, SnapshotLeads, SilenceInv
<1>6. /\ ResetComes <=> IsReset(e) \/ ResetIn(Tail(inbox))
      /\ ResetComes' <=> ResetIn(Tail(inbox))
  <2>1. ResetComes' <=> ResetIn(inbox')
    BY DEF ResetComes, ResetIn
  <2>2. QED
    BY <1>1, <2>1, ResetsInRow DEF ResetComes
<1>7. GameCounts' => GameCounts
  BY <1>1, <1>2, <1>6 DEF GameCounts
<1>8. ASSUME GameCounts', Announced, viewSession.players = {}, ~ResetComes
      PROVE  /\ e.type \in GameEvents => viewRoom = room
             /\ SeatsAreKnown'
  <2>1. SeatsAreKnown /\ e.type # "state"
    <3>1. SeatsAreKnown
      BY <1>7, <1>8 DEF GameInv
    <3>2. QED
      BY <1>1, <3>1, WithoutTail DEF SeatsAreKnown, SeatsIn
  <2>2. viewRoom' = IF e.type = "room:updated" THEN e.room ELSE viewRoom
    BY <1>2
  <2>3. SeatsIn(Tail(inbox), viewRoom', room) /\ (e.type \in GameEvents => viewRoom = room)
    BY <1>1, <2>1, <2>2, SeatsOfTail DEF SeatsAreKnown
  <2>4. SeatsAreKnown'
    BY <1>1, <1>2, <2>1, <2>3 DEF SeatsAreKnown
  <2>5. QED
    BY <2>3, <2>4
<1>9. ASSUME GameCounts', ~ResetComes'
      PROVE  viewSession' = After(seats, viewSession, e)
  <2>1. CASE IsReset(e)
    BY <1>1, <2>1 DEF After, IsReset
  <2>2. CASE Idles(e)
    BY <1>1, <2>2, AfterIdle
  <2>3. CASE viewSession.players # {}
    BY <1>1, <2>3, AfterSeated
  <2>4. CASE ~IsReset(e) /\ e.type \in GameEvents /\ viewSession.players = {}
    <3>1. Announced
      BY <1>1, <2>4, WithoutTail DEF SilenceInv
    <3>2. ~ResetComes
      BY <1>6, <1>9, <2>4
    <3>3. QED
      BY <1>1, <1>8, <1>9, <2>4, <3>1, <3>2
  <2>5. QED
    BY <2>1, <2>2, <2>3, <2>4 DEF Idles
<1>10. GameCounts' => ViewLeads'
  <2>1. SUFFICES ASSUME GameCounts' PROVE ViewLeads'
    OBVIOUS
  <2>2. PICK s : /\ Leads(seats, inbox, viewSession, s)
                 /\ Leads(seats, outbox, s, session)
    BY <1>7, <2>1 DEF GameInv, ViewLeads
  <2>3. viewSession' = After(seats, viewSession, e)
        \/ \E j \in 1..Len(Tail(inbox)) : IsReset(Tail(inbox)[j])
    BY <1>6, <1>9, <2>1 DEF ResetIn
  <2>4. Leads(seats, Tail(inbox), viewSession', s)
    BY <1>1, <2>2, <2>3, LeadsTail
  <2>5. QED
    BY <1>1, <2>2, <2>4 DEF ViewLeads
<1>11. ASSUME GameCounts', Announced', viewSession'.players = {}, ~ResetComes'
       PROVE  SeatsAreKnown'
  <2>1. ~IsReset(e)
    <3>1. SUFFICES ASSUME IsReset(e) PROVE FALSE
      OBVIOUS
    <3>2. viewSession' = e.session /\ Read(e.session) /\ e.session # NoSession
      BY <1>1, <3>1 DEF After, IsReset, News, True
    <3>3. QED
      BY <1>11, <3>2 DEF Read
  <2>2. viewSession.players = {}
    <3>1. viewRoom.members \in SUBSET Users /\ Behind(viewSession)
      BY DEF NewsInv, TypeOK, Rooms
    <3>2. QED
      BY <1>1, <1>11, <3>1, AfterIsBehind
  <2>3. QED
    BY <1>4, <1>6, <1>8, <1>11, <2>1, <2>2
<1>12. QED
  BY <1>1, <1>2, <1>5, <1>10, <1>11 DEF GameInv

\* There is no game at first.
LEMMA GameInit == Init => GameInv
BY DEF Init, GameInv, InGame, NoSession

\* No step leads the page astray, but for the races.
LEMMA GameStep ==
  NewsInv /\ OutboxInv /\ SilenceInv /\ SeatedInv /\ LobbyInv /\ GameInv /\ [Next]_vars => GameInv'
BY GameOfServer, GameOfConnection, GameOfPage DEF Next

-----------------------------------------------------------------------------
(* Theorems.                                                               *)

\* The invariant.
PageInv == NewsInv /\ OutboxInv /\ SilenceInv /\ SeatedInv /\ LobbyInv /\ GameInv

\* The induction, once for the theorems below.
LEMMA PageInvariant == Spec => []PageInv
<1>1. Init => PageInv
  BY NewsInit, OutboxInit, SilenceInit, SeatedInit, LobbyInit, GameInit DEF PageInv
<1>2. PageInv /\ [Next]_vars => PageInv'
  BY NewsStep, OutboxStep, SilenceStep, SeatedStep, LobbyStep, GameStep DEF PageInv
<1>3. QED
  BY <1>1, <1>2, PTL DEF Spec

\* Every copy of the room and of the session keeps its type, and no copy has a
\* dead player who does not play.
THEOREM PageKeepsTypes == Spec => []TypeOK
<1>1. PageInv => TypeOK
  BY DEF PageInv, NewsInv
<1>2. QED
  BY <1>1, PageInvariant, PTL

\* Whatever is lost, late or out of order, the page shows no phase that has not been
\* saved and nobody dead who is alive.
THEOREM PageIsNeverAhead == Spec => []NeverAhead
<1>1. PageInv => NeverAhead
  <2>1. SUFFICES ASSUME Behind(viewSession), TypeOK PROVE NeverAhead
    BY DEF PageInv, NewsInv
  <2>2. /\ viewSession.turn \in Nat /\ session.turn \in Nat
        /\ NotAfter(viewSession.turn, viewSession.phase, session)
    BY <2>1 DEF Behind, TypeOK, Sessions
  <2>3. \A i \in 1..5 : Rank(Order[i]) = i
    BY DEF Rank, Order
  <2>4. QED
    BY <2>1, <2>2, <2>3 DEF NeverAhead, Later, NotAfter, Behind
<1>2. QED
  BY <1>1, PageInvariant, PTL

\* Once nothing is on its way, the page shows the game as the server has it, unless one of
\* the three races has happened since its last snapshot, or a handler has failed with
\* effects still to emit since that snapshot was read.
THEOREM PageShowsTheGame == Spec => []GameIsShown
<1>1. PageInv => GameIsShown
  <2>1. SUFFICES ASSUME PageInv, Settled, InGame,
                        races \cap {"overtaken", "unbuilt", "unseated", "unsent"} = {}
                 PROVE  viewSession = session
    BY DEF GameIsShown
  <2>2. /\ GameCounts /\ inbox = <<>> /\ outbox = <<>>
        /\ races \cap {"overtaken", "unsent"} = {}
    BY <2>1 DEF GameCounts, Settled, Synced, Idle
  <2>3. PICK s : /\ Leads(room.members, <<>>, viewSession, s)
                 /\ Leads(room.members, <<>>, s, session)
    BY <2>1, <2>2 DEF PageInv, GameInv, ViewLeads
  <2>4. QED
    BY <2>3, LeadsOfEmpty
<1>2. QED
  BY <1>1, PageInvariant, PTL

\* Before the game the page shows the members of the room and its own readiness as they
\* are, unless an answer of GET /rooms came late or never, or a click was taken back, or a
\* handler has failed behind its save since the page last connected.
THEOREM PageShowsTheLobby == Spec => []LobbyIsShown
<1>1. PageInv => LobbyIsShown
  <2>1. SUFFICES ASSUME PageInv, Settled, ~InGame,
                        races \cap {"fetch", "rollback", "unbuilt", "unsent"} = {},
                        \A i \in Ids : ~commands[i].waits
                 PROVE  viewRoom = room /\ isReady = room.ready
    BY DEF LobbyIsShown
  <2>2. /\ inbox = <<>> /\ outbox = <<>> /\ pc = "up"
        /\ \A n \in Connections : fetches[n].step = "none"
    BY <2>1 DEF Settled, Synced, Idle
  <2>3. RoomCounts
    BY <2>1, <2>2 DEF PageInv, NewsInv, RoomCounts, Announced, Without
  <2>4. ~RoomComes /\ ~RoomIsDue
    BY <2>2 DEF RoomComes, ComesLast, RoomIsDue, AskComes
  <2>5. RoomIsShown
    BY <2>1, <2>3, <2>4 DEF PageInv, LobbyInv
  <2>6. QED
    BY <2>1, <2>5 DEF RoomIsShown, AwaitsAnswer
<1>2. QED
  BY <1>1, PageInvariant, PTL
=============================================================================
