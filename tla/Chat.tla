--------------------------------- MODULE Chat ---------------------------------
(***************************************************************************)
(* The chat of one game, from SEND_CHAT_MESSAGE to the screens: the guard  *)
(* of each channel, its recipients, the list of recent messages in Redis,  *)
(* the recentChats of reconnect:state, and the client's list, which merges *)
(* what comes live with what comes restored.  One step per awaited call of *)
(* a chat handler and of a connect handler.                                *)
(*                                                                         *)
(* Chat handlers hold the lock of the game, so there is one at a time;     *)
(* connect handlers do without.  A message is its place in `sent`: its     *)
(* text, sender and sentAt, which make the client's key, are not told      *)
(* apart.  Of the clients one is followed, that of `me`, who may be anybody. *)
(* A broadcast reaches the sockets that are in the room when it is made.   *)
(* The previous room of a connection is found (see Connections).  Of the   *)
(* phases only those that open a channel are told apart, and deaths come   *)
(* at any time of the game.  The private messages of one command go out in *)
(* any order.                                                              *)
(***************************************************************************)
EXTENDS Naturals, FiniteSets, Sequences, SequencesExt

CONSTANTS
  Users,
  Mafia,        \* who is dealt MAFIA: buildRoleAssignments deals one
  Limit,        \* CHAT_CACHE_LIMIT
  ScreenLimit,  \* messages the client keeps on the screen
  MaxMessages,  \* bound
  MaxDrops,     \* bound: connections lost
  MaxFailures   \* bound: calls of Redis that throw

ASSUME UsersAssumption == IsFiniteSet(Users) /\ "room" \notin Users
ASSUME MafiaAssumption == Mafia \subseteq Users /\ Cardinality(Mafia) = 1
ASSUME BoundsAssumption ==
  /\ Limit \in Nat \ {0} /\ ScreenLimit \in Nat \ {0}
  /\ {MaxMessages, MaxDrops, MaxFailures} \subseteq Nat

VARIABLES
  me,
  phase,     \* WAITING until there is a session
  dead,
  sent,      \* history: the channels of the accepted messages, in order
  lost,      \* history: the messages whose append has failed
  job,       \* the chat handler under way
  cache,     \* chat:recent:{gameId}:{channel}
  pc,        \* the next step of the connect handler
  reading,   \* the channels it has still to read
  snapshot,  \* the recentChats it has read
  inbox,     \* what is on its way to the live socket
  view,      \* knownChatKeys and chatMessages of the client
  restored,  \* history: the channels of the last reconnect:state
  underway,  \* history: the messages under way when the connection joined
  drops, failures

game == <<me, phase, dead>>
server == <<sent, lost, job, cache, failures>>
connecting == <<pc, reading, snapshot, restored, underway, drops>>
vars == <<game, server, connecting, inbox, view>>

Channels == {"LOBBY", "DAY", "MAFIA", "GHOST"}
RoomChannels == {"LOBBY", "DAY"}
Messages == 1..MaxMessages
NoJob == [msg |-> 0, to |-> {}, step |-> "idle", cached |-> FALSE]
NoChats == [c \in Channels |-> <<>>]
NewView == [known |-> {}, shown |-> <<>>]

\* What lrange -limit -1 and ltrim -limit -1 leave of a list.
Recent(list) ==
  SubSeq(list, IF Len(list) > Limit THEN Len(list) - Limit + 1 ELSE 1, Len(list))

Alive == Users \ dead

HearsRoomOnceUp == pc = "up"

\* Is the socket in user:{me}, is it in the room?
HearsUser == pc # "down"
HearsRoom == pc \notin {"down", "joinedUser"}

\* Handlers, lists and views keep their types; a list is at most as long as its
\* limit and the pushes that no trim has followed.
TypeOK ==
  /\ me \in Users
  /\ phase \in {"WAITING", "NIGHT", "DAY_DISCUSSION", "FINISHED"}
  /\ dead \subseteq Users
  /\ sent \in Seq(Channels) /\ Len(sent) <= MaxMessages
  /\ lost \subseteq Messages
  /\ job \in [msg : 0..MaxMessages, to : SUBSET (Users \cup {"room"}),
              step : {"idle", "emit", "push", "trim"}, cached : BOOLEAN]
  /\ \A c \in Channels : cache[c] \in Seq(Messages) /\
       Len(cache[c]) <= Limit + failures + (IF job.step = "trim" THEN 1 ELSE 0)
  /\ pc \in {"down", "joinedUser", "joinedRoom", "reading", "up"}
  /\ reading \subseteq Channels /\ restored \subseteq Channels
  /\ snapshot \in [Channels -> Seq(Messages)]
  /\ view.known \subseteq Messages /\ Len(view.shown) <= ScreenLimit
  /\ underway \subseteq Messages
  /\ drops \in 0..MaxDrops /\ failures \in 0..MaxFailures

\* Everybody sits in the room, connected, and nobody has said anything.
Init ==
  /\ me \in Users /\ phase = "WAITING" /\ dead = {}
  /\ sent = <<>> /\ lost = {} /\ job = NoJob /\ cache = NoChats
  /\ pc = "up" /\ reading = {} /\ snapshot = NoChats
  /\ inbox = <<>> /\ view = NewView
  /\ restored = {} /\ underway = {}
  /\ drops = 0 /\ failures = 0

-----------------------------------------------------------------------------
(* The game, changed by other handlers that hold the lock.                 *)

PhaseChanges ==
  /\ job = NoJob
  /\ phase # "FINISHED"
  /\ phase' = IF phase = "NIGHT" THEN "DAY_DISCUSSION" ELSE "NIGHT"
  /\ UNCHANGED <<me, dead, server, connecting, inbox, view>>

\* The game is over when the mafia dies.
Dies(u) ==
  /\ job = NoJob
  /\ phase \notin {"WAITING", "FINISHED"} /\ u \in Alive
  /\ dead' = dead \cup {u}
  /\ phase' = IF u \in Mafia THEN "FINISHED" ELSE phase
  /\ UNCHANGED <<me, server, connecting, inbox, view>>

-----------------------------------------------------------------------------
(* A chat command: guard, recipients, effects.                             *)

CanSay(u, channel) ==
  CASE channel = "LOBBY" -> phase = "WAITING"
    [] channel = "DAY"   -> phase = "DAY_DISCUSSION" /\ u \in Alive
    [] channel = "MAFIA" -> phase = "NIGHT" /\ u \in Mafia \cap Alive
    [] channel = "GHOST" -> u \in dead

Recipients(channel) ==
  CASE channel \in RoomChannels -> {"room"}
    [] channel = "MAFIA" -> Mafia \cap Alive
    [] channel = "GHOST" -> dead

SendChatMessage(u, channel) ==
  /\ job = NoJob
  /\ Len(sent) < MaxMessages
  /\ CanSay(u, channel)
  /\ sent' = Append(sent, channel)
  /\ job' = [msg |-> Len(sent) + 1, to |-> Recipients(channel),
             step |-> "emit", cached |-> FALSE]
  /\ UNCHANGED <<game, lost, cache, failures, connecting, inbox, view>>

IHear(r) == IF r = "room" THEN HearsRoom ELSE r = me /\ HearsUser

\* Every effect of a message caches it.
NextEffectUncached == IF job.to = {} THEN NoJob ELSE [job EXCEPT !.step = "emit"]

\* The next effect, or the answer and the end of the lock.
NextEffect == IF job.to = {} THEN NoJob ELSE [job EXCEPT !.step = "emit", !.cached = TRUE]

\* A broadcast or a private message; the first effect of a message is the one
\* that caches it.
Emit ==
  /\ job.step = "emit"
  /\ \E r \in job.to :
       /\ inbox' = IF IHear(r) THEN Append(inbox, <<"chat", job.msg>>) ELSE inbox
       /\ job' = IF ~job.cached THEN [job EXCEPT !.to = @ \ {r}, !.step = "push"]
                 ELSE IF job.to = {r} THEN NoJob ELSE [job EXCEPT !.to = @ \ {r}]
  /\ UNCHANGED <<game, sent, lost, cache, failures, connecting, view>>

\* rpush
Push ==
  /\ job.step = "push"
  /\ cache' = [cache EXCEPT ![sent[job.msg]] = Append(@, job.msg)]
  /\ job' = [job EXCEPT !.step = "trim"]
  /\ UNCHANGED <<game, sent, lost, failures, connecting, inbox, view>>

TrimNot ==
  /\ job.step = "trim"
  /\ job' = NextEffect
  /\ UNCHANGED <<game, sent, lost, cache, failures, connecting, inbox, view>>

\* ltrim; expire only renews the TTL of the list.
Trim ==
  /\ job.step = "trim"
  /\ cache' = [cache EXCEPT ![sent[job.msg]] = Recent(@)]
  /\ job' = NextEffect
  /\ UNCHANGED <<game, sent, lost, failures, connecting, inbox, view>>

\* A call of append throws: a warning is logged and the message is not tried again.
AppendFails ==
  /\ job.step \in {"push", "trim"}
  /\ failures < MaxFailures
  /\ failures' = failures + 1
  /\ lost' = IF job.step = "push" THEN lost \cup {job.msg} ELSE lost
  /\ job' = NextEffect
  /\ UNCHANGED <<game, sent, cache, connecting, inbox, view>>

-----------------------------------------------------------------------------
(* handleConnection and buildReconnectState.                               *)

\* The connection is lost with all that was on its way; a page that is loaded
\* anew has lost its lists as well.
Drop ==
  /\ pc # "down" /\ drops < MaxDrops
  /\ drops' = drops + 1
  /\ pc' = "down" /\ reading' = {} /\ snapshot' = NoChats
  /\ inbox' = <<>> /\ view' \in {view, NewView}
  /\ restored' = {} /\ underway' = {}
  /\ UNCHANGED <<game, server>>

Step(from, to) == pc = from /\ pc' = to

UnderwayIn(channels) == {m \in {job.msg} : job # NoJob /\ sent[m] \in channels}

\* The client connects, and its socket joins user:{me}.
JoinUserRoom ==
  /\ Step("down", "joinedUser")
  /\ underway' = UnderwayIn(Channels \ RoomChannels)
  /\ UNCHANGED <<game, server, inbox, view, reading, snapshot, restored, drops>>

JoinPreviousRoom ==
  /\ Step("joinedUser", "joinedRoom")
  /\ underway' = underway \cup UnderwayIn(RoomChannels)
  /\ UNCHANGED <<game, server, inbox, view, reading, snapshot, restored, drops>>

\* Everybody is given the messages of the dead.
ChannelsOfAll == Channels \ {c \in {"MAFIA"} : me \notin Mafia}

\* The channels whose recent messages a player is given.
ChannelsOf ==
  RoomChannels \cup {c \in {"MAFIA"} : me \in Mafia} \cup {c \in {"GHOST"} : me \in dead}

\* findByGameId.  Without a session there are no recentChats, those of the
\* LOBBY included.
ReadSession ==
  /\ Step("joinedRoom", "reading")
  /\ reading' = IF phase = "WAITING" THEN {} ELSE ChannelsOf
  /\ restored' = reading'
  /\ UNCHANGED <<game, server, inbox, view, snapshot, underway, drops>>

\* getRecent: the channels are read side by side.
GetRecent(c) ==
  /\ pc = "reading" /\ c \in reading
  /\ reading' = reading \ {c}
  /\ snapshot' = [snapshot EXCEPT ![c] = Recent(cache[c])]
  /\ UNCHANGED <<game, server, inbox, view, pc, restored, underway, drops>>

\* reconnect:state goes to the socket.
EmitReconnectState ==
  /\ Step("reading", "up")
  /\ reading = {}
  /\ inbox' = Append(inbox, <<"state", snapshot>>)
  /\ snapshot' = NoChats
  /\ UNCHANGED <<game, server, view, reading, restored, underway, drops>>

\* findByGameId or the getRecent of one channel throws: reconnect:state goes out
\* all the same, but without any recentChats.
RestoreFails ==
  /\ pc = "joinedRoom" \/ (pc = "reading" /\ reading # {})
  /\ pc' = "up"
  /\ failures < MaxFailures
  /\ failures' = failures + 1
  /\ inbox' = Append(inbox, <<"state", NoChats>>)
  /\ snapshot' = NoChats /\ reading' = {} /\ restored' = {}
  /\ UNCHANGED <<game, sent, lost, job, cache, view, underway, drops>>

-----------------------------------------------------------------------------
(* The client.                                                             *)

\* A message whose key is known is not added; the newest comes first.
AddChatMessage(v, m) ==
  IF m \in v.known THEN v
  ELSE [known |-> v.known \cup {m},
        shown |-> SubSeq(<<m>> \o v.shown, 1,
                         IF Len(v.shown) < ScreenLimit THEN Len(v.shown) + 1 ELSE ScreenLimit)]

AddAll(v, messages) ==
  LET added[k \in 0..Len(messages)] ==
        IF k = 0 THEN v ELSE AddChatMessage(added[k - 1], messages[k])
  IN  added[Len(messages)]

\* The channels of reconnect:state, one after the other.
AddRecentChats(v, chats) ==
  AddAll(AddAll(AddAll(AddAll(v, chats["LOBBY"]), chats["DAY"]), chats["MAFIA"]),
         chats["GHOST"])

\* chat:message or reconnect:state
Handle ==
  /\ inbox # <<>>
  /\ LET event == Head(inbox)
     IN view' = IF event[1] = "chat" THEN AddChatMessage(view, event[2])
                ELSE AddRecentChats(view, event[2])
  /\ inbox' = Tail(inbox)
  /\ UNCHANGED <<game, server, connecting>>

-----------------------------------------------------------------------------
Next ==
  \/ PhaseChanges
  \/ \E u \in Users : Dies(u)
  \/ \E u \in Users, c \in Channels : SendChatMessage(u, c)
  \/ Emit \/ Push \/ Trim \/ AppendFails
  \/ Drop \/ JoinUserRoom \/ JoinPreviousRoom \/ ReadSession
  \/ \E c \in Channels : GetRecent(c)
  \/ EmitReconnectState \/ RestoreFails
  \/ Handle

Spec == Init /\ [][Next]_vars

-----------------------------------------------------------------------------
(* Properties.                                                             *)

\* Between chat commands, what a reconnect reads of a channel is its last
\* messages in the order they were sent, each once however many recipients it
\* had; only one whose push failed is missing, and a failed trim shows nowhere.
CacheIsRecent ==
  job = NoJob => \A c \in Channels :
    LET list == Recent(cache[c])
        kept == {m \in 1..Len(sent) : sent[m] = c /\ m \notin lost}
    IN  /\ \A i, j \in 1..Len(list) : i < j => list[i] < list[j]
        /\ ToSet(list) \subseteq kept
        /\ \A m \in kept \ ToSet(list) :
             Len(list) = Limit /\ \A i \in 1..Len(list) : m < list[i]

\* A client that has reconnected into a game and read all its mail has seen all
\* recent messages of the channels it was restored, whether they were sent
\* before, during or after the reconnect; it can lack only one that was between
\* its broadcast and its push when the connection joined.  A restore that fails
\* restores no channel.  And whatever came both
\* live and restored is on the screen once.
NothingIsMissed ==
  /\ pc = "up" /\ inbox = <<>> /\ job = NoJob =>
       \A c \in restored : ToSet(Recent(cache[c])) \subseteq view.known \cup underway
  /\ IsInjective(view.shown)

\* No message of the night reaches a citizen and none of the dead the living,
\* live or restored.
ReadersOnly ==
  \A m \in view.known :
    /\ sent[m] = "MAFIA" => me \in Mafia
    /\ sent[m] = "GHOST" => me \in dead
=============================================================================
