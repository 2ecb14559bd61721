------------------------- MODULE PhaseTimersProofs -------------------------
(***************************************************************************)
(* The lock and the deadlines of PhaseTimers, proved for any number of     *)
(* instances and handlers.  The invariant of the lock is inductive with    *)
(* crashes and calls that throw; that the deadline stays scheduled is     *)
(* inductive until the first of them.                                      *)
(***************************************************************************)
EXTENDS PhaseTimers, TLAPS

\* Where a worker has taken the lock and not given it back.
Holding == {"locked", "advanced", "decided", "resolved", "recorded",
            "cleared", "ending", "releasing"}

\* The strengthening of AnnouncesCurrentDeadline: the lock is held from the
\* acquire to the release.
LockInv ==
  \A w \in Workers :
    /\ pc[w] \in Holding => lock = w
    /\ Transitioning(w) => job[w].endsAt = epoch

\* The strengthening of DeadlineIsScheduled: no entry is of the future, and
\* the entry a worker is about to remove is not the session's deadline.
EntryInv ==
  /\ timers \subseteq 1..epoch
  /\ \A w \in Workers :
       /\ job[w].entry \in 0..epoch
       /\ Transitioning(w) => job[w].entry < epoch
       /\ pc[w] = "ending" => job[w].entry < epoch \/ phase = "FINISHED"

\* DeadlineIsScheduled without its condition.
Scheduled ==
  (\A w \in Workers : ~Transitioning(w)) /\ phase # "FINISHED"
    => PhaseEndsAt \in timers

-----------------------------------------------------------------------------
(* The type and the lock, by one induction.                                *)

\* Every step keeps the declared shape of the sorted set, the lock and the
\* jobs; the deadline that zadd adds is one because it is the session's.
LEMMA TypeStep ==
  ASSUME TypeOK, LockInv, [Next]_vars
  PROVE  TypeOK'
<1> USE DEF TypeOK, Goto, sessionVars
<1>1. CASE DeadlinePasses
  BY <1>1, DeadlineAssumption DEF DeadlinePasses, Deadlines
<1>2. CASE OtherCommandLocks
  BY <1>2 DEF OtherCommandLocks, Spend
<1>3. CASE OtherCommandReleases
  BY <1>3 DEF OtherCommandReleases
<1>4. CASE OrphanLockExpires
  BY <1>4 DEF OrphanLockExpires
<1>5. ASSUME NEW w \in Pollers, ListDue(w) PROVE TypeOK'
  BY <1>5 DEF ListDue, Steps, Workers
<1>6. ASSUME NEW w \in Pollers, CheckSession(w) PROVE TypeOK'
  BY <1>6 DEF CheckSession, Return, NoJob, Steps, Workers, Phases, NoDeadline
<1>7. ASSUME NEW w \in Hosts, NextPhaseCommand(w) PROVE TypeOK'
  BY <1>7 DEF NextPhaseCommand, Steps, Workers
<1>8. ASSUME NEW w \in Workers, Continue(w) PROVE TypeOK'
  <2>1. CASE AcquireLock(w)
    BY <2>1 DEF AcquireLock, Steps
  <2>2. CASE LockBusy(w)
    BY <2>2 DEF LockBusy, Return, NoJob, Steps, Phases, NoDeadline
  <2>3. CASE Advance(w)
    BY <2>3, DeadlineAssumption DEF Advance, NextPhase, Steps, Phases, Deadlines
  <2>4. CASE Resolve(w)
    BY <2>4 DEF Resolve, Steps
  <2>5. CASE Finish(w)
    BY <2>5 DEF Finish, Steps, Phases
  <2>6. CASE RecordEvents(w)
    BY <2>6 DEF RecordEvents, Steps
  <2>7. CASE ClearGame(w)
    BY <2>7 DEF ClearGame, Steps
  <2>8. CASE AddEntry(w)
    BY <2>8 DEF AddEntry, Steps, LockInv, Transitioning
  <2>9. CASE Complete(w)
    BY <2>9 DEF Complete, Steps
  <2>10. CASE Release(w)
    BY <2>10 DEF Release, Return, NoJob, Steps, Phases, NoDeadline
  <2>11. QED
    BY <1>8, <2>1, <2>2, <2>3, <2>4, <2>5, <2>6, <2>7, <2>8, <2>9, <2>10
    DEF Continue
<1>9. ASSUME NEW w \in Workers, RecordFails(w) PROVE TypeOK'
  BY <1>9 DEF RecordFails, Spend, Steps
<1>10. ASSUME NEW w \in Workers, TimerCallFails(w) PROVE TypeOK'
  BY <1>10 DEF TimerCallFails, Spend, Steps
<1>11. ASSUME NEW w \in Workers, Crash(w) PROVE TypeOK'
  BY <1>11 DEF Crash, Spend, Return, NoJob, Steps, Phases, NoDeadline
<1>12. CASE UNCHANGED vars
  BY <1>12 DEF vars
<1>13. QED
  BY <1>1, <1>2, <1>3, <1>4, <1>5, <1>6, <1>7, <1>8, <1>9, <1>10, <1>11, <1>12
  DEF Next

\* A step leaves the lock with its holder and each transition under way with
\* the deadline of the session: only the holder advances the epoch.
LEMMA LockStep ==
  ASSUME TypeOK, LockInv, [Next]_vars
  PROVE  LockInv'
<1> USE DEF LockInv, Goto, sessionVars
<1>1. CASE DeadlinePasses
  BY <1>1 DEF DeadlinePasses, Transitioning
<1>2. CASE OtherCommandLocks
  BY <1>2, WorkersAssumption DEF OtherCommandLocks, Transitioning, Workers
<1>3. CASE OtherCommandReleases
  BY <1>3, WorkersAssumption DEF OtherCommandReleases, Transitioning, Workers
<1>4. CASE OrphanLockExpires
  BY <1>4, WorkersAssumption DEF OrphanLockExpires, Transitioning, Workers
<1>5. ASSUME NEW w \in Pollers, ListDue(w) PROVE LockInv'
  BY <1>5 DEF ListDue, TypeOK, Holding, Transitioning, Workers
<1>6. ASSUME NEW w \in Pollers, CheckSession(w) PROVE LockInv'
  BY <1>6 DEF CheckSession, Return, NoJob, TypeOK, Holding, Transitioning, Workers
<1>7. ASSUME NEW w \in Hosts, NextPhaseCommand(w) PROVE LockInv'
  BY <1>7 DEF NextPhaseCommand, TypeOK, Holding, Transitioning, Workers
<1>8. ASSUME NEW w \in Workers, Continue(w) PROVE LockInv'
  <2> USE DEF TypeOK, Holding, Transitioning
  <2>1. CASE AcquireLock(w)
    BY <2>1, WorkersAssumption DEF AcquireLock, Workers
  <2>2. CASE LockBusy(w)
    BY <2>2 DEF LockBusy, Return, NoJob
  <2>3. CASE Advance(w)
    BY <2>3 DEF Advance
  <2>4. CASE Resolve(w)
    BY <2>4 DEF Resolve
  <2>5. CASE Finish(w)
    BY <2>5 DEF Finish
  <2>6. CASE RecordEvents(w)
    BY <2>6 DEF RecordEvents
  <2>7. CASE ClearGame(w)
    BY <2>7 DEF ClearGame
  <2>8. CASE AddEntry(w)
    BY <2>8 DEF AddEntry
  <2>9. CASE Complete(w)
    BY <2>9 DEF Complete
  <2>10. CASE Release(w)
    BY <2>10 DEF Release, Return, NoJob
  <2>11. QED
    BY <1>8, <2>1, <2>2, <2>3, <2>4, <2>5, <2>6, <2>7, <2>8, <2>9, <2>10
    DEF Continue
<1>9. ASSUME NEW w \in Workers, RecordFails(w) PROVE LockInv'
  BY <1>9 DEF RecordFails, TypeOK, Holding, Transitioning
<1>10. ASSUME NEW w \in Workers, TimerCallFails(w) PROVE LockInv'
  BY <1>10 DEF TimerCallFails, TypeOK, Holding, Transitioning
<1>11. ASSUME NEW w \in Workers, Crash(w) PROVE LockInv'
  BY <1>11 DEF Crash, Return, NoJob, TypeOK, Holding, Transitioning
<1>12. CASE UNCHANGED vars
  BY <1>12 DEF vars, Transitioning
<1>13. QED
  BY <1>1, <1>2, <1>3, <1>4, <1>5, <1>6, <1>7, <1>8, <1>9, <1>10, <1>11, <1>12
  DEF Next

\* Both parts of the induction hold of the state START_GAME leaves.
LEMMA TypeAndLock == Spec => [](TypeOK /\ LockInv)
<1>1. Init => TypeOK /\ LockInv
  BY WorkersAssumption, DeadlineAssumption, BudgetAssumption
  DEF Init, TypeOK, LockInv, Phases, Steps, Deadlines, NoDeadline, NoJob,
      Workers, Holding, Transitioning
<1>2. (TypeOK /\ LockInv) /\ [Next]_vars => (TypeOK /\ LockInv)'
  BY TypeStep, LockStep
<1>3. QED
  BY <1>1, <1>2, PTL DEF Spec

\* The sorted set, the lock and the jobs keep their shape in every run,
\* failures and crashes included.
THEOREM TimersTypeCorrect == Spec => []TypeOK
BY TypeAndLock, PTL

\* Whatever fails or dies, a worker between its saved transition and its zadd
\* holds the lock and announces the deadline the session has.
THEOREM LockSerializesTransitions == Spec => []AnnouncesCurrentDeadline
<1>1. LockInv => AnnouncesCurrentDeadline
  BY DEF LockInv, AnnouncesCurrentDeadline, Transitioning, Holding
<1>2. QED
  BY <1>1, TypeAndLock, PTL

-----------------------------------------------------------------------------
(* The sorted set keeps the deadline of an unfinished game.                *)

\* Failures and crashes are only ever spent.
LEMMA BudgetsFall ==
  ASSUME TypeOK, [Next]_vars
  PROVE  budget'["call"] <= budget["call"] /\ budget'["crash"] <= budget["crash"]
<1> USE DEF TypeOK
<1>1. ASSUME NEW w \in Workers, Continue(w) PROVE budget' = budget
  BY <1>1 DEF Continue, AcquireLock, LockBusy, Advance, Resolve, Finish,
     RecordEvents, ClearGame, AddEntry, Complete, Release
<1>2. QED
  BY <1>1 DEF Next, vars, DeadlinePasses, OtherCommandLocks,
     OtherCommandReleases, OrphanLockExpires, ListDue, CheckSession,
     NextPhaseCommand, RecordFails, TimerCallFails, Crash, Spend

\* Entries stay in the past of the transition that removes them, and each
\* step between two transitions leaves the session's deadline in the set.
LEMMA EntryStep ==
  ASSUME TypeOK, LockInv, EntryInv, Scheduled, [Next]_vars,
         budget'["call"] = budget["call"], budget'["crash"] = budget["crash"]
  PROVE  EntryInv' /\ Scheduled'
<1> USE DEF TypeOK, EntryInv, Scheduled, PhaseEndsAt, NoDeadline,
        Deadlines, Goto, sessionVars, Transitioning
<1>1. CASE DeadlinePasses
  BY <1>1 DEF DeadlinePasses
<1>2. CASE OtherCommandLocks
  BY <1>2 DEF OtherCommandLocks
<1>3. CASE OtherCommandReleases
  BY <1>3 DEF OtherCommandReleases
<1>4. CASE OrphanLockExpires
  BY <1>4 DEF OrphanLockExpires
<1>5. ASSUME NEW w \in Pollers, ListDue(w)
      PROVE  EntryInv' /\ Scheduled'
  BY <1>5 DEF ListDue, Workers
<1>6. ASSUME NEW w \in Pollers, CheckSession(w)
      PROVE  EntryInv' /\ Scheduled'
  <2>1. CASE PhaseEndsAt = job[w].entry
    BY <1>6, <2>1 DEF CheckSession, Workers
  <2>2. CASE PhaseEndsAt # job[w].entry
    <3>1. /\ pc' = [pc EXCEPT ![w] = "idle"] /\ pc[w] = "listed"
          /\ job' = [job EXCEPT ![w] = NoJob]
          /\ timers' = timers \ {job[w].entry}
          /\ UNCHANGED <<phase, epoch>>
      BY <1>6, <2>2 DEF CheckSession, Return
    <3>2. EntryInv'
      <4>1. job'[w].entry = 0 /\ \A v \in Workers \ {w} : job'[v] = job[v]
        BY <3>1 DEF NoJob, Workers
      <4>2. pc'[w] = "idle" /\ \A v \in Workers \ {w} : pc'[v] = pc[v]
        BY <3>1 DEF Workers
      <4>3. timers' \subseteq 1..epoch
        BY <3>1
      <4>4. QED
        BY <3>1, <4>1, <4>2, <4>3
    <3>3. Scheduled'
      BY <3>1, <2>2 DEF Workers
    <3>4. QED
      BY <3>2, <3>3
  <2>3. QED
    BY <2>1, <2>2
<1>7. ASSUME NEW w \in Hosts, NextPhaseCommand(w)
      PROVE  EntryInv' /\ Scheduled'
  BY <1>7 DEF NextPhaseCommand, Workers
<1>8. ASSUME NEW w \in Workers, Continue(w)
      PROVE  EntryInv' /\ Scheduled'
  <2>1. CASE AcquireLock(w)
    BY <2>1 DEF AcquireLock
  <2>2. CASE LockBusy(w)
    BY <2>2 DEF LockBusy, Return, NoJob
  <2>3. CASE Advance(w)
    <3>1. CASE phase = "FINISHED"
      BY <2>3, <3>1 DEF Advance
    <3>2. CASE phase # "FINISHED"
      <4>1. /\ epoch' = epoch + 1 /\ timers' = timers
            /\ pc' = [pc EXCEPT ![w] = "advanced"]
            /\ \A v \in Workers : job'[v].entry = job[v].entry
            /\ phase' # "FINISHED"
        BY <2>3, <3>2 DEF Advance, NextPhase, Phases
      <4>2. \A v \in Workers : pc[v] = "ending" => v # w
        BY <2>3 DEF Advance
      <4>3. QED
        BY <4>1, <4>2, <3>2
    <3>3. QED
      BY <3>1, <3>2
  <2>4. CASE Resolve(w)
    BY <2>4 DEF Resolve
  <2>5. CASE Finish(w)
    BY <2>5 DEF Finish
  <2>6. CASE RecordEvents(w)
    BY <2>6 DEF RecordEvents
  <2>7. CASE ClearGame(w)
    BY <2>7 DEF ClearGame
  <2>8. CASE AddEntry(w)
    <3>1. /\ pc' = [pc EXCEPT ![w] = "ending"] /\ pc[w] = "cleared"
          /\ timers' = timers \cup {epoch}
          /\ UNCHANGED <<phase, epoch, job>>
      BY <2>8 DEF AddEntry, LockInv
    <3>2. EntryInv'
      BY <3>1
    <3>3. Scheduled'
      BY <3>1
    <3>4. QED
      BY <3>2, <3>3
  <2>9. CASE Complete(w)
    <3>1. /\ pc' = [pc EXCEPT ![w] = "releasing"] /\ pc[w] = "ending"
          /\ timers' = timers \ {job[w].entry}
          /\ UNCHANGED <<phase, epoch, job>>
      BY <2>9 DEF Complete
    <3>2. EntryInv'
      BY <3>1
    <3>3. Scheduled'
      <4>1. phase # "FINISHED" => job[w].entry # epoch
        BY <3>1
      <4>2. QED
        BY <3>1, <4>1
    <3>4. QED
      BY <3>2, <3>3
  <2>10. CASE Release(w)
    BY <2>10 DEF Release, Return, NoJob
  <2>11. QED
    BY <1>8, <2>1, <2>2, <2>3, <2>4, <2>5, <2>6, <2>7, <2>8, <2>9, <2>10
    DEF Continue
<1>9. ASSUME NEW w \in Workers, RecordFails(w) PROVE FALSE
  BY <1>9 DEF RecordFails, Spend
<1>10. ASSUME NEW w \in Workers, TimerCallFails(w) PROVE FALSE
  BY <1>10 DEF TimerCallFails, Spend
<1>11. ASSUME NEW w \in Workers, Crash(w) PROVE FALSE
  BY <1>11 DEF Crash, Spend
<1>12. CASE UNCHANGED vars
  BY <1>12 DEF vars
<1>13. QED
  BY <1>1, <1>2, <1>3, <1>4, <1>5, <1>6, <1>7, <1>8, <1>9, <1>10, <1>11, <1>12
  DEF Next

\* As long as no call has thrown and no handler has died, an unfinished game
\* that is not in a transition has its deadline in the sorted set, whatever the
\* order in which instances poll, hosts interfere and deadlines pass.
THEOREM ClockIsNotLost == Spec => []DeadlineIsScheduled
<1> DEFINE Inv == /\ budget["call"] <= MaxFailedCalls /\ budget["crash"] <= MaxCrashes
                  /\ Undisturbed => EntryInv /\ Scheduled
<1>1. Init => Inv
  BY DeadlineAssumption, BudgetAssumption
  DEF Init, EntryInv, Scheduled, NoJob, NoDeadline, PhaseEndsAt, Transitioning
<1>2. TypeOK /\ LockInv /\ Inv /\ [Next]_vars => Inv'
  <2> SUFFICES ASSUME TypeOK, LockInv, Inv, [Next]_vars PROVE Inv'
    OBVIOUS
  <2>1. TypeOK'
    BY TypeStep
  <2>2. budget'["call"] <= MaxFailedCalls /\ budget'["crash"] <= MaxCrashes
    BY <2>1, BudgetsFall, BudgetAssumption DEF TypeOK
  <2>3. ASSUME Undisturbed' PROVE EntryInv' /\ Scheduled'
    <3>1. Undisturbed /\ budget'["call"] = budget["call"] /\ budget'["crash"] = budget["crash"]
      <4>1. /\ budget'["call"] = MaxFailedCalls /\ budget'["crash"] = MaxCrashes
            /\ budget["call"] \in Nat /\ budget["crash"] \in Nat
            /\ budget["call"] <= MaxFailedCalls /\ budget["crash"] <= MaxCrashes
        BY <2>3 DEF TypeOK, Undisturbed
      <4>2. budget'["call"] <= budget["call"] /\ budget'["crash"] <= budget["crash"]
        BY BudgetsFall
      <4>3. QED
        BY <4>1, <4>2, BudgetAssumption DEF Undisturbed
    <3>2. QED
      BY <3>1, EntryStep
  <2>4. QED
    BY <2>2, <2>3
<1>3. Inv => DeadlineIsScheduled
  BY DEF DeadlineIsScheduled, Scheduled
<1>4. QED
  BY <1>1, <1>2, <1>3, TypeAndLock, PTL DEF Spec
=============================================================================
