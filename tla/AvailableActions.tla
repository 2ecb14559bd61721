-------------------------- MODULE AvailableActions --------------------------
(***************************************************************************)
(* The hints AvailableActionsService puts in reconnect:state, those the    *)
(* web client derives from its own view, and the guards the command        *)
(* handlers apply: three copies of the rules in three files.  LOBBY chat   *)
(* is a room command and is not offered.  After the game the handlers      *)
(* still take GHOST messages of the dead while the hints are empty; what   *)
(* relates hints and guards speaks of games under way.                     *)
(***************************************************************************)
EXTENDS GameSession

CommandOf(key) ==
  CASE key = "mafiaTarget"  -> "SELECT_MAFIA_TARGET"
    [] key = "doctorTarget" -> "SELECT_DOCTOR_TARGET"
    [] key = "policeTarget" -> "SELECT_POLICE_TARGET"

GameChannels == {"DAY", "MAFIA", "GHOST"}

\* The guards of handleDayChat, handleMafiaChat and handleGhostChat.
CanChat(p, channel) ==
  \/ channel = "DAY"   /\ phase = "DAY_DISCUSSION" /\ p \in Alive
  \/ channel = "MAFIA" /\ phase = "NIGHT" /\ role[p] = "MAFIA" /\ p \in Alive
  \/ channel = "GHOST" /\ p \notin Alive

ToTarget(type, targets) == {<<type, t>> : t \in targets}
ToChannel(channel) == <<"SEND_CHAT_MESSAGE", channel>>

VoteOffers(p) ==
  IF phase = "VOTING" /\ p \in Alive THEN ToTarget("CAST_VOTE", Alive) ELSE {}

NightOffersToAnybody(p) ==
  IF phase # "NIGHT" \/ p \notin Alive THEN {}
  ELSE CASE role[p] = "MAFIA"  -> ToTarget("SELECT_MAFIA_TARGET", Players)
                                    \cup {ToChannel("MAFIA")}
         [] role[p] = "DOCTOR" -> ToTarget("SELECT_DOCTOR_TARGET", Players)
         [] role[p] = "POLICE" -> ToTarget("SELECT_POLICE_TARGET", Players)
         [] OTHER -> {}

NightOffers(p) ==
  IF phase # "NIGHT" \/ p \notin Alive THEN {}
  ELSE CASE role[p] = "MAFIA"  -> ToTarget("SELECT_MAFIA_TARGET", Alive \ {p})
                                    \cup {ToChannel("MAFIA")}
         [] role[p] = "DOCTOR" -> ToTarget("SELECT_DOCTOR_TARGET", Alive)
         [] role[p] = "POLICE" -> ToTarget("SELECT_POLICE_TARGET", Alive \ {p})
         [] OTHER -> {}

ChatOffers(p) ==
  (IF phase = "DAY_DISCUSSION" /\ p \in Alive THEN {ToChannel("DAY")} ELSE {})
    \cup (IF p \notin Alive THEN {ToChannel("GHOST")} ELSE {})

\* buildForPlayer
BuildForPlayer(p) ==
  IF p \in Offline \/ phase = "FINISHED" THEN {}
  ELSE VoteOffers(p) \cup NightOffers(p) \cup ChatOffers(p)

-----------------------------------------------------------------------------
(* The client's copy, for a client whose view is the session.  It asks for *)
(* the player's death first and returns, where the service appends GHOST   *)
(* to whatever came before.                                                *)

DerivePhaseActionsAtAnybody(p) ==
  CASE phase = "NIGHT" /\ role[p] = "MAFIA" ->
         ToTarget("SELECT_MAFIA_TARGET", Alive \ {p}) \cup {ToChannel("MAFIA")}
    [] phase = "NIGHT" /\ role[p] = "DOCTOR" -> ToTarget("SELECT_DOCTOR_TARGET", Alive)
    [] phase = "NIGHT" /\ role[p] = "POLICE" -> ToTarget("SELECT_POLICE_TARGET", Players \ {p})
    [] phase = "DAY_DISCUSSION" -> {ToChannel("DAY")}
    [] phase = "VOTING" -> ToTarget("CAST_VOTE", Alive)
    [] OTHER -> {}

DerivePhaseActions(p) ==
  CASE phase = "NIGHT" /\ role[p] = "MAFIA" ->
         ToTarget("SELECT_MAFIA_TARGET", Alive \ {p}) \cup {ToChannel("MAFIA")}
    [] phase = "NIGHT" /\ role[p] = "DOCTOR" -> ToTarget("SELECT_DOCTOR_TARGET", Alive)
    [] phase = "NIGHT" /\ role[p] = "POLICE" -> ToTarget("SELECT_POLICE_TARGET", Alive \ {p})
    [] phase = "DAY_DISCUSSION" -> {ToChannel("DAY")}
    [] phase = "VOTING" -> ToTarget("CAST_VOTE", Alive)
    [] OTHER -> {}

DeriveAvailableActions(p) ==
  IF p \in Offline \/ phase = "FINISHED" THEN {}
  ELSE IF p \in Alive THEN DerivePhaseActions(p) ELSE {ToChannel("GHOST")}

-----------------------------------------------------------------------------
(* Properties.                                                             *)

Playing == {p \in Players \ Offline : phase # "FINISHED"}

\* Whatever command a handler would accept from a connected player is among
\* the hints ...
AcceptableIsOffered ==
  \A p \in Playing :
    /\ \A t \in Players : CanVote(p, t) =>
         <<"CAST_VOTE", t>> \in BuildForPlayer(p)
    /\ \A t \in Players, key \in NightKeys : CanSelect(p, t, key) =>
         <<CommandOf(key), t>> \in BuildForPlayer(p)
    /\ \A c \in GameChannels : CanChat(p, c) =>
         ToChannel(c) \in BuildForPlayer(p)

\* ... and every hint is a command the handler accepts, unless the player has
\* already cast this ballot or chosen this target, which the hints do not look at.
OfferedIsAcceptable ==
  \A p \in Playing :
    /\ \A t \in Players : <<"CAST_VOTE", t>> \in BuildForPlayer(p) =>
         CanVote(p, t) \/ votes[p] # None
    /\ \A t \in Players, key \in NightKeys :
         <<CommandOf(key), t>> \in BuildForPlayer(p) =>
           CanSelect(p, t, key) \/ nightActions[key] # None
    /\ \A c \in GameChannels : ToChannel(c) \in BuildForPlayer(p) =>
         CanChat(p, c)

\* The hints of a snapshot are what the guards of the handlers take, for a player
\* who is connected in a game under way.
HintsAreGuards == AcceptableIsOffered /\ OfferedIsAcceptable

\* The client ignores the server's hints as soon as it has a session and
\* derives its own; for every player and every state of a game the two copies of
\* the rules offer the same.
ClientOffersTheSame ==
  \A p \in Players : DeriveAvailableActions(p) = BuildForPlayer(p)
=============================================================================
