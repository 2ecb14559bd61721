---------------------------- MODULE PhaseTimers ----------------------------
(***************************************************************************)
(* The automatic phase transitions of one game: the `phase-timers' sorted  *)
(* set, the pollers of the API instances, the NEXT_PHASE handlers, and the *)
(* per-game Redis lock they share.  One step per awaited call.             *)
(*                                                                         *)
(* Every transition writes a fresh phaseEndsAt; deadlines are numbered in  *)
(* the order they are written, `epoch' being the last.  The order in which *)
(* they expire is free: a NIGHT cut short by NEXT_PHASE may end after the  *)
(* phase that replaces it.  Who wins a resolution is nondeterministic.     *)
(*                                                                         *)
(* A live handler is taken to end within the lock's TTL, and NEXT_PHASE to *)
(* have the lock: a handler without it is left out.                        *)
(***************************************************************************)
EXTENDS Integers, FiniteSets

CONSTANTS
  Pollers,            \* timer tasks: an entry being handled by an instance
  Hosts,              \* NEXT_PHASE command handlers
  MaxDeadline,        \* bound of the model: no deadline after this one
  MaxCommands,        \* bound: other commands that take the lock
  MaxFailedCalls,     \* bound: recordEvent and timer calls that throw
  MaxCrashes          \* bound: handlers that die with their instance

ASSUME WorkersAssumption ==
  /\ Pollers \cap Hosts = {}
  /\ {"free", "command", "orphan"} \cap (Pollers \cup Hosts) = {}
ASSUME DeadlineAssumption == MaxDeadline \in Nat \ {0}
ASSUME BudgetAssumption ==
  MaxCommands \in Nat /\ MaxFailedCalls \in Nat /\ MaxCrashes \in Nat

Workers == Pollers \cup Hosts
NoDeadline == 0
Deadlines == 1..MaxDeadline

VARIABLES
  phase,    \* of the stored session
  epoch,    \* the last deadline written to it
  expired,  \* the deadlines that have passed
  timers,   \* the members of the sorted set
  lock,     \* the holder of lock:game:{gameId}
  pc,
  job,      \* entry: the timer entry a poller handles; toPhase, endsAt: of the
            \* transition under way, broadcast and scheduled at its end
  budget

sessionVars == <<phase, epoch>>
vars == <<sessionVars, expired, timers, lock, pc, job, budget>>

-----------------------------------------------------------------------------
Phases == {"NIGHT", "DAY_DISCUSSION", "VOTING", "RESULT", "FINISHED"}
Steps == {"idle", "listed", "waiting", "locked", "advanced", "decided",
          "resolved", "recorded", "cleared", "ending", "releasing"}

\* getNextPhase
NextPhase ==
  CASE phase = "NIGHT"          -> "DAY_DISCUSSION"
    [] phase = "DAY_DISCUSSION" -> "VOTING"
    [] phase = "VOTING"         -> "RESULT"
    [] phase = "RESULT"         -> "NIGHT"

\* finish() leaves `phaseEndsAt: null'.
PhaseEndsAt == IF phase = "FINISHED" THEN NoDeadline ELSE epoch

NoJob == [entry |-> NoDeadline, toPhase |-> "FINISHED", endsAt |-> NoDeadline]

Goto(w, step) == pc' = [pc EXCEPT ![w] = step]
Return(w) == Goto(w, "idle") /\ job' = [job EXCEPT ![w] = NoJob]
Spend(kind) ==
  /\ budget[kind] > 0
  /\ budget' = [budget EXCEPT ![kind] = @ - 1]

\* START_GAME has saved the session and scheduled its first deadline.
Init ==
  /\ phase = "NIGHT" /\ epoch = 1
  /\ expired = {}
  /\ timers = {1}
  /\ lock = "free"
  /\ pc = [w \in Workers |-> "idle"]
  /\ job = [w \in Workers |-> NoJob]
  /\ budget = [command |-> MaxCommands, call |-> MaxFailedCalls,
               crash |-> MaxCrashes]

-----------------------------------------------------------------------------
(* The environment: time, and the lock seen from other commands.           *)

DeadlinePasses ==
  /\ \E d \in 1..epoch \ expired : expired' = expired \cup {d}
  /\ UNCHANGED <<sessionVars, timers, lock, pc, job, budget>>

OtherCommandLocks ==
  /\ lock = "free"
  /\ lock' = "command"
  /\ Spend("command")
  /\ UNCHANGED <<sessionVars, expired, timers, pc, job>>

OtherCommandReleases ==
  /\ lock = "command"
  /\ lock' = "free"
  /\ UNCHANGED <<sessionVars, expired, timers, pc, job, budget>>

\* SET without PX.
OrphanLockStays == FALSE /\ UNCHANGED vars

\* PX ttl: the key of a holder that died goes away.
OrphanLockExpires ==
  /\ lock = "orphan"
  /\ lock' = "free"
  /\ UNCHANGED <<sessionVars, expired, timers, pc, job, budget>>

-----------------------------------------------------------------------------
(* A timer entry.                                                          *)

ListDue(w) ==
  /\ pc[w] = "idle"
  /\ \E d \in timers \cap expired : job' = [job EXCEPT ![w].entry = d]
  /\ Goto(w, "listed")
  /\ UNCHANGED <<sessionVars, expired, timers, lock, budget>>

\* A stale entry is kept: nothing ever removes it.
CheckSessionKeepingStale(w) ==
  /\ pc[w] = "listed"
  /\ IF PhaseEndsAt = job[w].entry
     THEN Goto(w, "waiting") /\ UNCHANGED job
     ELSE Return(w)
  /\ UNCHANGED <<sessionVars, expired, timers, lock, budget>>

\* The session is read before the lock is taken.
CheckSession(w) ==
  /\ pc[w] = "listed"
  /\ IF PhaseEndsAt = job[w].entry
     THEN Goto(w, "waiting") /\ UNCHANGED <<timers, job>>
     ELSE Return(w) /\ timers' = timers \ {job[w].entry}
  /\ UNCHANGED <<sessionVars, expired, lock, budget>>

\* NEXT_PHASE from the host of the room.
NextPhaseCommand(w) ==
  /\ pc[w] = "idle"
  /\ Goto(w, "waiting")
  /\ UNCHANGED <<sessionVars, expired, timers, lock, job, budget>>

-----------------------------------------------------------------------------
(* Lock, transition, effects: advancePhaseAutomatically and                *)
(* handleNextPhase.                                                        *)

\* SET without NX.
AcquireHeldLock(w) ==
  /\ pc[w] = "waiting"
  /\ lock' = w
  /\ Goto(w, "locked")
  /\ UNCHANGED <<sessionVars, expired, timers, job, budget>>

AcquireLock(w) ==
  /\ pc[w] = "waiting"
  /\ lock = "free"
  /\ lock' = w
  /\ Goto(w, "locked")
  /\ UNCHANGED <<sessionVars, expired, timers, job, budget>>

\* acquire gives up after its wait: the entry stays for the next poll, the
\* command is answered GAME_LOCK_BUSY.
LockBusy(w) ==
  /\ pc[w] = "waiting"
  /\ lock # "free"
  /\ Return(w)
  /\ UNCHANGED <<sessionVars, expired, timers, lock, budget>>

\* GameStateMachine.advance throws when the game is finished.
Advance(w) ==
  /\ pc[w] = "locked"
  /\ IF phase = "FINISHED"
     THEN Goto(w, "ending") /\ UNCHANGED <<sessionVars, job>>
     ELSE /\ epoch < MaxDeadline
          /\ phase' = NextPhase
          /\ epoch' = epoch + 1
          /\ job' = [job EXCEPT ![w].toPhase = NextPhase,
                                ![w].endsAt = epoch + 1]
          /\ Goto(w, "advanced")
  /\ UNCHANGED <<expired, timers, lock, budget>>

\* resolveNightOutcome or resolveVotingOutcome; a winner may stand.
Resolve(w) ==
  /\ pc[w] = "advanced"
  /\ \/ job[w].toPhase \in {"DAY_DISCUSSION", "RESULT"} /\ Goto(w, "decided")
     \/ Goto(w, "resolved")
  /\ UNCHANGED <<sessionVars, expired, timers, lock, job, budget>>

\* finishGame
Finish(w) ==
  /\ pc[w] = "decided"
  /\ phase' = "FINISHED"
  /\ Goto(w, "resolved")
  /\ UNCHANGED <<epoch, expired, timers, lock, job, budget>>

RecordEvents(w) ==
  /\ pc[w] = "resolved"
  /\ Goto(w, "recorded")
  /\ UNCHANGED <<sessionVars, expired, timers, lock, job, budget>>

\* The handler turns the error into a rejection: it has no effects.
RecordFails(w) ==
  /\ pc[w] = "resolved"
  /\ Spend("call")
  /\ Goto(w, "ending")
  /\ UNCHANGED <<sessionVars, expired, timers, lock, job>>

\* schedule(): clearGame, then zadd of the transition's own deadline.
ClearGame(w) ==
  /\ pc[w] = "recorded"
  /\ timers' = {}
  /\ Goto(w, "cleared")
  /\ UNCHANGED <<sessionVars, expired, lock, job, budget>>

AddEntryHandled(w) ==
  /\ pc[w] = "cleared"
  /\ timers' = timers \cup {job[w].entry}
  /\ Goto(w, "ending")
  /\ UNCHANGED <<sessionVars, expired, lock, job, budget>>

AddEntry(w) ==
  /\ pc[w] = "cleared"
  /\ timers' = timers \cup {job[w].endsAt}
  /\ Goto(w, "ending")
  /\ UNCHANGED <<sessionVars, expired, lock, job, budget>>

\* The poller completes the entry of the phase it opened.
CompleteScheduled(w) ==
  /\ pc[w] = "ending"
  /\ timers' = IF w \in Pollers THEN timers \ {job[w].endsAt} ELSE timers
  /\ Goto(w, "releasing")
  /\ UNCHANGED <<sessionVars, expired, lock, job, budget>>

\* A poller removes the entry it handled; a command has none.
Complete(w) ==
  /\ pc[w] = "ending"
  /\ timers' = timers \ {job[w].entry}
  /\ Goto(w, "releasing")
  /\ UNCHANGED <<sessionVars, expired, lock, job, budget>>

\* Redis fails schedule() or complete(): what follows is not done, the lock is
\* given back.
TimerCallFails(w) ==
  /\ \/ pc[w] \in {"recorded", "cleared"}
     \/ pc[w] = "ending" /\ w \in Pollers
  /\ Spend("call")
  /\ Goto(w, "releasing")
  /\ UNCHANGED <<sessionVars, expired, timers, lock, job>>

Release(w) ==
  /\ pc[w] = "releasing"
  /\ lock' = IF lock = w THEN "free" ELSE lock
  /\ Return(w)
  /\ UNCHANGED <<sessionVars, expired, timers, budget>>

\* The instance dies and restarts: its handler is gone, its lock is not.
Crash(w) ==
  /\ pc[w] # "idle"
  /\ Spend("crash")
  /\ lock' = IF lock = w THEN "orphan" ELSE lock
  /\ Return(w)
  /\ UNCHANGED <<sessionVars, expired, timers>>

-----------------------------------------------------------------------------
Continue(w) ==
  \/ AcquireLock(w) \/ LockBusy(w) \/ Advance(w) \/ Resolve(w) \/ Finish(w)
  \/ RecordEvents(w) \/ ClearGame(w) \/ AddEntry(w) \/ Complete(w)
  \/ Release(w)

Next ==
  \/ DeadlinePasses \/ OtherCommandLocks \/ OtherCommandReleases
  \/ OrphanLockExpires
  \/ \E w \in Pollers : ListDue(w) \/ CheckSession(w)
  \/ \E w \in Hosts : NextPhaseCommand(w)
  \/ \E w \in Workers : Continue(w) \/ RecordFails(w) \/ TimerCallFails(w)
                         \/ Crash(w)

Spec == Init /\ [][Next]_vars

\* Time passes, a lock expires or is released, setInterval keeps polling and
\* a started handler goes on; no command is ever bound to arrive.
Fairness ==
  /\ WF_vars(DeadlinePasses)
  /\ WF_vars(OtherCommandReleases)
  /\ WF_vars(OrphanLockExpires)
  /\ \A w \in Pollers : WF_vars(ListDue(w)) /\ WF_vars(CheckSession(w))
  /\ \A w \in Workers : WF_vars(Continue(w))

FairSpec == Spec /\ Fairness

-----------------------------------------------------------------------------
(* Properties.                                                             *)

\* Deadlines, entries, lock and jobs of the workers keep their types.
TypeOK ==
  /\ phase \in Phases
  /\ epoch \in Deadlines
  /\ expired \subseteq Deadlines
  /\ timers \subseteq Deadlines
  /\ lock \in Workers \cup {"free", "command", "orphan"}
  /\ pc \in [Workers -> Steps]
  /\ job \in [Workers -> [entry : Deadlines \cup {NoDeadline},
                          toPhase : Phases,
                          endsAt : Deadlines \cup {NoDeadline}]]
  /\ budget \in [{"command", "call", "crash"} -> Nat]

Transitioning(w) ==
  pc[w] \in {"advanced", "decided", "resolved", "recorded", "cleared"}

\* A worker between its saved transition and its zadd holds the lock and is
\* about to announce the deadline the session really has: no transition that
\* overtook it is forgotten.
AnnouncesCurrentDeadline ==
  \A w \in Workers : Transitioning(w) => lock = w /\ job[w].endsAt = epoch

\* No call has thrown and no handler has died.
Undisturbed == budget["call"] = MaxFailedCalls /\ budget["crash"] = MaxCrashes

\* As long as nothing has failed: when no transition is under way, the deadline
\* of an unfinished session is in the sorted set.  The game cannot lose its clock.
DeadlineIsScheduled ==
  Undisturbed /\ (\A w \in Workers : ~Transitioning(w)) /\ phase # "FINISHED"
    => PhaseEndsAt \in timers

\* Unless something fails, every phase ends, by its timer if by nothing else:
\* the game never stops before it is over or the bound of the model is reached.
PhaseProgress ==
  <>(phase = "FINISHED" \/ epoch = MaxDeadline \/ ~Undisturbed)

\* The entry left behind by the last transition of a game goes away for good.
FinishedLeavesNoTimer == (phase = "FINISHED") ~> [](timers = {})

\* Whoever holds the lock, alive or dead, it is free again or the model's last
\* deadline has been written.
LockIsReleased ==
  (lock # "free" /\ epoch < MaxDeadline) ~> (lock = "free" \/ epoch = MaxDeadline)

\* A poller ends only a phase whose own deadline has passed.
EarlyStep ==
  \A w \in Pollers :
    pc[w] = "locked" /\ pc'[w] = "advanced" => PhaseEndsAt \in expired
AutomaticTransitionIsDue == [][EarlyStep]_vars
=============================================================================
