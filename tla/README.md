# mafia-casefile in TLA+

Specifications of the realtime server of mafia-casefile (`src/apps/api`) and of the
page that plays against it (`src/apps/web/app/play`), checked
with TLC on small instances and, for the parts listed under *Proofs*, proved for
all instances with TLAPS. File names below are relative to `src/`; `gateway` is
`apps/api/src/realtime/realtime.gateway.ts`, `game-command` is
`apps/api/src/game-commands/game-command.service.ts`, `play-client` is
`apps/web/app/play/play-client.tsx`.

## 1. The system

One or more API instances (NestJS, Socket.IO) serve rooms in which a game of
mafia is played. All live state is in Redis, as whole JSON records; the events
of a game are rows in PostgreSQL. Instances share nothing but these two stores.
Every client command of a game runs under a Redis lock of that game.

| Part | State it keeps | Operations |
| --- | --- | --- |
| Rooms (`rooms/rooms.service.ts`) | `room:{id}`: status, participants with `isReady`, host, `maxPlayers` | create (HTTP), join, leave, change ready, start |
| Session rules (`game-session/*.ts`) | `game-session:{id}`: phase, turn, players (role, status, connection), votes, night actions, `phaseEndsAt`, processed request ids | vote, three night choices, phase transition, night and vote resolution, finish, mark (dis)connected |
| Session repository | the same record; `save` overwrites it, compares nothing | find, save |
| Command lock (`realtime/game-command-lock.service.ts`) | `lock:game:{id}` with a token and a TTL | acquire, release |
| Phase timers (`realtime/phase-timer.service.ts`, gateway 373-521) | sorted set `phase-timers` of (game, deadline) | schedule, clear, list due, complete; a poller in every instance |
| Idempotency (`realtime/request-idempotency.service.ts`) | one record per user, game and request: PROCESSING or the answer | begin, complete |
| Command path (gateway 249-297, 523-588, 701-722) | none of its own | receive, begin, lock, execute, effects, answer, complete, release |
| Event log (`game-events/*.ts`) | rows (game, seq, type, payload, visibility), unique on (game, seq) | record in a transaction, read the timeline |
| Connection state (`realtime/connection-state.service.ts`, gateway 136-234, 590-699) | `connection:user:{id}`: socket, room, status | mark connected / disconnected, set / clear room |
| Available actions (`realtime/available-actions.service.ts`) | none | hints in `reconnect:state` |
| Reconnect snapshot (`realtime/reconnect-state.service.ts`) | none | reads session and recent chats, builds `reconnect:state` |
| Chat (game-command 1178-1674, `realtime/chat-message-cache.service.ts`, gateway 742-760) | `chat:recent:{id}:{channel}`, the last messages of each channel | send, push and trim, list |
| Play page (`play-client`) | its copies of room and session, `isReady`, chat list, pending commands | applies events, snapshots and HTTP answers; sends commands with a five-second timeout; derives which actions to offer |
| Auth, users, Redis and Prisma wrappers, demo lab, deployment | accounts, tokens | single calls |

How they interact: a socket command passes idempotency, takes the lock, runs a
handler that reads a record, decides, saves it, and appends events; the handler
returns *effects* (join or leave a channel, broadcasts, private messages), which
the gateway applies, scheduling a timer on the way when a broadcast carries a
deadline; then it answers, completes the idempotency record and releases the
lock. Pollers enter the same rules from the timer side. Connect and disconnect
handlers write the user's connection record without a lock and mark the player in
the session with it; a connect handler ends with a snapshot, `reconnect:state`, read
while the game goes on. The play page merges four streams nobody orders against
each other: broadcasts, snapshots, answers of `GET /rooms/:id`, and its own
optimistic changes.

What is hard here: several instances polling one sorted set; a check before the
lock used after it; reads and whole-record saves that only the lock protects,
while the lock fails open; three saves in one transition; events recorded after
the state they report was saved; retries of requests at any point; handlers of
several sockets of one user; a snapshot that is overtaken by the broadcasts it
should precede; a message that may come live, restored, both or neither; and each of these
with a call that throws or an instance that dies. `PROJECT.json` lists these hazards line
by line with the properties that watch them.

## 2. Modules

| Module | Models | How its state and actions correspond |
| --- | --- | --- |
| `GameSession` | the rules | variables are the fields of the session record; one atomic action per command handler. `AdvancePhase` is a whole transition with resolution and finish. The abstract specification of the rest. |
| `AvailableActions` | the hints | extends `GameSession`; `BuildForPlayer` is the hint service, `DeriveAvailableActions` the copy in the play page, `CanVote`, `CanSelect`, `CanChat` the guards of the handlers: the same rules, written three times. |
| `SessionStore` | the handlers on the repository | `stored` is the record in Redis, `copy` what a handler has read; every read, save, acquire and release is a step, and a handler may die at each. Refines `GameSession`, but for a transition that a crash cut in half. |
| `PhaseTimers` | pollers, sorted set, lock, transitions | one step per awaited call of `advancePhaseFromTimer` and of NEXT_PHASE; deadlines are numbered in the order they are written, and expire in any order. |
| `CommandRequests` | the command path | one step per awaited call of `handleCommand`; a vote (saves, then records) and a ghost's chat message (only records, errors not caught) stand for the commands. |
| `EventLog` | `recordEvent` | transactions at READ COMMITTED with the unique index. |
| `Rooms` | a room up to its dealt game | the four room commands; `job` is the handler that holds the lock, stepping through its awaited calls; `timeline` is what the recorded events say. |
| `Connections` | one user's sockets | connect, disconnect, join and leave handlers, a read and a save of the record as two steps; `AfterFailure` says where each goes on when its call throws. History variables: who was `answered`, has a handler given up on the lock. |
| `Chat` | one game's chat, from command to screen | the chat handler as emit, push, trim; the connect handler as joins, reads and `reconnect:state`, which goes out without chats when a read throws (`RestoreFails`); the client's list with its set of known keys. A message is its place in `sent`. |
| `PlayClient` | the play page | the server as saves and effects, the socket as an ordered `inbox`, `GET /rooms/:id` as a fetch answered any time later, one action per event handler of the page. A handler of the server may fail between a save and any of its effects (`HandlerFails`). `races` remembers what has gone wrong on the way. |

`MC*.tla` only add symmetry sets and values of constants. `*Proofs.tla` extend a
component and hold its theorems; those of `AvailableActions` are in `GameSessionProofs`,
those of `EventLog` in `RoomsProofs`. In each component, the operators named after
another with a suffix (`AcquireHeldLock`, `CanJoinFull`, ...) are not used by
`Next`: they are mistakes one could make in that place, and `PROJECT.json` pairs
each property with one that breaks it.

`SessionStore` composes the rules with lock and storage; `AvailableActions`
composes rules, hints and page; `PhaseTimers`, `CommandRequests`, `Chat` and
`PlayClient` abstract the session to the fields their properties tell apart.
`Chat` and `PlayClient` share the connect handler of `Connections`, cut down to the
steps that matter to a page: when its socket hears whom, and when the snapshot is read.

## 3. Runs

Passing runs:

| Run | Bounds | What it shows |
| --- | --- | --- |
| `game_rules` | 5 players, turns up to 2, one offline | a game that survives two deaths: when it ends, whom it executes, whose targets and ballots count; guards, hints and page agree while the game is under way. Five is the least that leaves a game running after a night and a vote. |
| `session_store` | 4 players, one dealing of roles, 2 request ids, turns up to 2, 2 handlers at a time, one crash | handlers under the lock implement the atomic rules, three-save transitions included; a crash can leave half a transition and nothing else. Two handlers are enough for every interleaving of one with another's gaps; four players are interchangeable up to roles, so one dealing loses nothing. |
| `phase_timers` | 2 pollers, 1 host, 4 deadlines, another command, one throwing call, one crash | until something fails no deadline is lost and every phase ends; whatever fails, the announced deadline is the stored one, the lock comes free and a finished game leaves no entry. Four deadlines reach RESULT; two pollers on one entry race, a host overtakes both. |
| `command_requests` | 3 handlers, 4 sends, two failures or crashes | retries and concurrent requests: executed once, truthfully accepted; until something fails, truthfully rejected and never stuck. |
| `command_requests_throws` | 2 handlers, 3 sends, two throwing calls, `begin` and `acquire` included | every vote is answered. |
| `event_log` | 3 writers, 4 rows | no gap and no double. Three transactions: one committed, one waiting on another. |
| `rooms` | 5 users, 4 places, one failure or crash | seats, roles, timeline. Five users make a full room turn one away. |
| `connections` | 3 sockets, no two handlers at once, a contended lock, one throwing call | the record follows the newest socket, a member comes back to his room, who left does not; whichever call throws, every connection gets its `reconnect:state`. Three sockets give a connect two predecessors, one of which may be noticed late. |
| `chat` | the mafia and a citizen, 3 messages, 2 kept in cache and on screen, one reconnect, one throwing call | the cached list is the last messages, in order and once; a reconnected client lacks none of them; nobody reads what is not his. Three messages overflow a list of two, in cache and page. |
| `play_client` | one other user, one join or leave, 2 transitions, one lost connection, one CHANGE_READY, one handler that fails after a save | once all is delivered the page shows the room and the game as they are, but for the races named below, which a reconnect heals where the code does; and it is never ahead of them. |

Runs that end in a counterexample, each a disagreement between the code and a
sentence of its documents (quoted in `PROJECT.json` under "findings"):

| Run | What happens |
| --- | --- |
| `timer_advances_early` | both pollers pass the stale check before either has the lock; the second ends the phase the first has just opened. |
| `room_is_forgotten` | two handlers of one user overlap: a member is connected and hears nothing of his room. |

### Conditions that carry weight

Some properties hold only under a condition they name, or in the environment of
their run, because the code gives nothing stronger:

- `DeadlineIsScheduled`, `PhaseProgress`: a `recordEvent` that throws after the new
  phase was saved (game-command 878) drops the effects, so no timer is scheduled,
  while gateway 487 completes the old entry; a crash in the same place does the
  same. The game then stands until the host sends NEXT_PHASE.
- `ImplementsRules`: when the acquire call throws, the command runs without the lock
  (gateway 562), and a whole-record save may overwrite another handler's.
- `AcceptedVoteIsCast`: `castVote` looks up `processedRequests` by request id alone;
  a vote with an id another player has used is accepted and not stored. The
  requests of the run share no id, as those of the client do not.
- `RejectedVoteIsNotCast`: a vote whose event cannot be recorded is rejected and counts.
- `OneExecution`: a `begin` that throws lets the command run without a record, so its
  retries run too; `command_requests` has no such failure.
- `StartedRoomIsDealt`: a START_GAME that fails after its first save is rejected, yet
  the room is IN_PROGRESS, nobody is told a role, and nobody can start it again.
- `PlayerIsAsConnected`: a reconnect that meets a busy lock leaves the player
  DISCONNECTED (gateway 679) until he reconnects once more.
- The properties of `connections` that speak of Redis records hold when the handlers
  of one user do not overlap (`MaxHandlers = 1`; `room_is_forgotten` shows why), no call
  has failed, and, for the player, no handler has `gaveUp` on the lock.
- `NoRetryIsStuck`: when recording a chat message throws (game-command 1550) nothing
  catches it before the gateway's caller: the request gets no answer, its record stays
  PROCESSING until its TTL, and each retry hears DUPLICATE_REQUEST_IN_PROGRESS although
  nobody is working on it, which is what `docs/SOCKET_PROTOCOL.md:65` has the answer mean.
- `ImplementsRules`: a handler that dies between the saves of a transition leaves a
  session that no atomic step reaches (`HalfTransition`): the new phase, with nobody
  killed or the game not finished. Nothing in the code takes the transition up again.
- `NothingIsMissed` leaves out the messages in `underway`: one that is broadcast before
  the socket joins and pushed after the list is read comes neither live nor restored.
  The LOBBY chat of a room without a session is not restored at all, since
  `reconnect:state` is then empty; the property speaks of the channels restored.
- `GameIsShown` names what voids it: a broadcast that overtakes the snapshot, which the
  page then puts over the newer state (`overtaken`); a snapshot that could not be built
  (`unbuilt`); a `game:started` that meets a page without its room, whose seats and
  role the page then lacks (`unseated`); and a handler that fails between its save and
  its last effect (`unsent`): a `recordEvent` that throws (game-command 774 saves, 878
  records; 384-476 for START_GAME), a `schedule()` that throws behind `phase:changed`
  (gateway 348, 367), or an instance that dies. The server then has a phase or a death
  that no event tells the page of. Each stays on the page until the next reconnect, and
  the properties hold again from there: a `ReadSession` after such a failure clears
  `unsent`, so a snapshot that did not mend the page would be a counterexample.
- `LobbyIsShown` likewise: an answer of `GET /rooms/:id` older than the event or answer
  before it, or a failing one (`fetch`); a rejected or timed-out CHANGE_READY, which flips `isReady`
  although an event has set it since (`rollback`); a failed snapshot (`unbuilt`); and,
  until the next reconnect, a join, a leave or a CHANGE_READY whose record throws behind
  the save of the room (game-command 178-208, 236-272, 311-352): it is rejected, and there
  is no `room:updated` (`unsent`).
- What a failing connect handler leaves out is not asked for: when a read throws,
  `reconnect:state` has no chats (gateway 209), and `NothingIsMissed` speaks of the
  channels restored, which are then none.

Limits of these bounds: every bound is a constant named in the module
(`MaxTurn`, `MaxDeadline`, `MaxSends`, `MaxEvents`, `MaxFailures`, ...). The two
transitions of `play_client` reach NIGHT, DAY_DISCUSSION and VOTING, a resolution and
the end of a game; the vote, which resolves by the same `Resolve`, and the return from
RESULT to NIGHT are beyond it, and left to the theorems of `PlayClientProofs`. Symmetry
is used only where players, handlers, users or sockets are interchangeable and the
properties are safety.

Deadlock is checked except where the system may stop: no message is bound to be
sent (`CommandRequests`, `EventLog`, `Connections`, `Chat`, `PlayClient`), or a bound or a lost timer
stops the model on purpose (`PhaseTimers`).

### Fairness

- A handler that has started goes on (`WF` of its steps): Node's event loop returns
  to every settled promise and Redis and PostgreSQL answer or throw.
- Pollers poll: `setInterval` in every instance (`startPhaseTimerPoller`, gateway 429).
- Time passes (`DeadlinePasses`), and Redis drops an expired lock (`OrphanLockExpires`,
  `LockExpires`).
- No client is ever obliged to send, connect, or vote, and nothing obliges a host
  to send NEXT_PHASE; others' commands release the lock they took.

### What the models take for granted

- `PhaseTimers`, `Rooms`: a live handler ends before the TTL of its lock and has the
  lock. So do the handlers of `SessionStore`.
- `Connections`: the client has one live socket at a time. With two tabs, closing one
  marks the player disconnected although the other is open; a join from the older
  tab is not remembered.
- `Chat`, `PlayClient`: what the server emits to a socket arrives in that order or is
  lost with the socket; React renders the effect of an event before the next one;
  chat and room handlers have the lock; the previous room of a connection is found.
- The 24 hours after which room, session and connection records expire are left out.
- `Date.now()` of the instances is one clock.

## 4. Proofs

All theorems are for arbitrary values of the constants, from the named `ASSUME`s
of the component (finite, non-empty sets; special values not among the others;
bounds natural numbers; at least four players in `GameSession`). Every invariant and
every safety property of a passing run is a theorem; what is left to TLC is named at
the end of this section.

- **`GameSessionProofs`**: types; targets and ballots belong to the phase and to the
  living; a game is FINISHED exactly when decided; choices are final; a majority is
  executed. Three properties that no run checks are proved too: no more deaths than
  resolutions, one at a time, and the doctor protects. Most
  follow from `TypeOK` and one conjunct of their own. `FinishedWhenDecided` is not
  inductive in its own words: the proof keeps `Decided`, which says the same through
  `EvaluateWinner`, and translates at the end with a count of the living. The death
  bound leans on "a step kills at most one", and the majority theorem on the ballots
  of two targets being disjoint sets.
  The module holds the theorems of `AvailableActions` as well: guards, hints and page agree
  for any number of players. Neither leans on an invariant: the three copies agree in
  every state, which the lemmas show kind by kind, since a vote, a target and a channel
  never coincide.
- **`SessionStoreProofs`**: for any players, handlers and crashes, `SessionStore` implements
  `GameSession`, up to the half transition of a handler that dies. The mapping
  (`Settled`) shows others the session `before` until the last save of a transition. The
  inductive invariant says that a handler between acquire and release has the lock
  (`LockInv`); that what it has read is what is stored (`CopyInv`); what each save of a
  transition has made of the session before it (`TransitionInv`), so that the last save
  is one step of the rules; and that only a finished game has a winner (`WinnerInv`).
  Each save is then matched with its action of the rules on the copy. Two consequences
  no run checks: no save is lost under another (`SavesAreNotLost`), and where no handler
  dies the composition satisfies `Rules!Spec` itself
  (`UndisturbedHandlersAreTheRules`), so that every theorem of `GameSessionProofs` holds
  of the handlers.
- **`PhaseTimersProofs`**: for any number of pollers and hosts, with any failures and
  crashes, a worker inside its transition holds the lock and will announce the
  deadline that is stored (`LockInv`). Until the first failure or crash
  (`Undisturbed`) an unfinished game outside a transition has its deadline in the
  sorted set. The strengthening `EntryInv` says
  that an entry under handling is older than the deadline of a finished transition,
  so that `complete` never removes the new one.
- **`RoomsProofs`**: types and the size of the room; whatever fails, seats, single
  game and roles on record. `SeatsHoldTheRoom` is not inductive: between the save of
  the started room and the save of its session the seats do not exist yet, so
  `StartInv` carries what START_GAME has checked from step to step. That a game is
  stored once is proved without a run. Without failures,
  the timeline gives back the room and a started room is dealt: `Unrecorded` says by
  how much the timeline is behind while a handler has still to record.
  The second half of the module is about `EventLog`, the store of that timeline: for any
  number of writers the rows are numbered without gap or double; that they only grow,
  and the types, are proved without a run. The strengthening says that an inserted,
  uncommitted number is the next one and belongs to one writer.
- **`CommandRequestsProofs`**: for any requests, handlers, sends and failures.
  `OneInv` ties the record of a request, its log and its answers to how far the one
  handler that executes it has come; it needs that `begin` does not throw, since the
  gateway then goes on without the record. `LockInv` (while neither `begin` nor
  `acquire` throws) gives the session to the handler between read and save, and
  `CastInv` says that a request whose save is done is in the session, which holds
  only with request ids that differ. `TraceInv` and `StuckInv` hold until the first
  failure: what a failure breaks is listed at the end of section 3.
- **`ConnectionsProofs`**: for any number of sockets. `AnswerInv` holds with any number
  of handlers at a time and any failure. The other properties do not survive an overlap
  (finding `room_is_forgotten`), and are proved for handlers one after the other, until a
  call fails: `SeqInv` says, for a connect, a disconnect and a join or leave, what record,
  channel and player are after each of its calls; `UsedInv`, that a new socket is known
  nowhere.
- **`ChatProofs`**: for any users, messages, limits, reconnects and failures. A list `Holds`
  the last of a set of messages, in order and once: the lemmas say what `Append`, `Recent`
  and the page's fold make of that. `JobInv`: one message is under
  way, the last, to recipients it was meant for. `CacheInv`: a list holds the last
  messages whose push did not fail, and exceeds its limit by no more than the failed
  trims and the push under way. `MissInv`, which `NothingIsMissed` needs: after a channel
  was read, each of its recent messages is on the screen, in the mail, in the snapshot, or
  was under way when the socket joined.
- **`PlayClientProofs`**: for any users, phases, drops and commands. `NewsInv`: no copy of
  the session (the snapshot, the view) and no event on its way is ahead of it, which is
  more than `NeverAhead` and what makes that inductive. `OutboxInv`: what the server has
  still to emit is a tail of the effects of one handler, with its saves made in their
  order. `SilenceInv` and `SeatedInv`: what cannot be on its way before a socket joins
  or the start is announced. `LobbyInv` (`LobbyIsShown`): the room of a page in the lobby
  is the last of the rooms on their way, or shown, or still to be asked for, unless a
  handler has failed before it sent its `room:updated` (`unsent`). `GameInv`
  (`GameIsShown`): the events in the inbox and then those in the outbox make the session
  of the page's view (`Leads`), whatever is lost before the last snapshot among them; where
  a handler has failed, they do so again from the first snapshot read since; and
  a page without seats gets its room before the first event of the game. Checking this
  invariant on small instances first corrected the model twice: a turn begins with its
  day and ends with the night, so `NeverAhead` orders the phases so; and an answer of
  `GET /rooms/:id` may come after a newer answer, not only after a newer event.

Model-checked only: liveness (`PhaseProgress`, `FinishedLeavesNoTimer`,
`LockIsReleased`, `EveryVoteIsAnswered`), which TLAPS does not reach. The installed provers
cannot instantiate the induction theorems either; where a proof speaks of every
element of a list (`ChatProofs`), it takes the least place at which a claim fails
(`LeastNumber`), or an invariant that grows with the list.

## 5. Not modelled, and why

- Auth, users, HTTP listing, wrappers of Redis and Prisma: single calls that leave no
  state the game reads.
- The timeline query: it reads the rows of `EventLog` in order and keeps those that are
  PUBLIC after the game, which every recorded event is.
- The other screens of the web client, and of the play page entering and creating a
  room, notices and its own log of events: they show state, or call HTTP once.
- The demo lab, scripts, deployment: no behaviour of the server depends on them.
- Delivery of broadcasts between instances: Socket.IO's Redis adapter, a library.
- A handler without the lock on the session (`acquire` has thrown, or the lock has
  expired under it): `CommandRequests` runs such handlers as far as answers go;
  `SessionStore` leaves them out, because nothing then keeps a stale save from
  overwriting another's ballot or phase, against `docs/SOCKET_PROTOCOL.md:67`.

## 6. Plan

Order: the rules first, since all else is compared with them; then what protects
them (lock and storage, timers, command path), then the record of them (event log),
then what leads into a game (rooms), around it (connections), and what its players
see (chat, play page). That much is written. What is left:

1. Handlers without the lock: `SessionStore` with an acquire that throws, and which of
   the rules then still hold.
2. Composition of `Connections` with `Rooms`, and of the timers with the command path.
