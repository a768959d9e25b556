---------------------------- MODULE DeferredOnce ----------------------------
(***************************************************************************)
(* TimerActionOnce of src/scipio/src/timer.rs: a handle held by the caller *)
(* and a task spawned into a task queue whose body is                      *)
(*     async move { timer.await; action.await }                            *)
(* The handle shares the timer's Inner (Rc<RefCell<Inner>>) so that it can *)
(* rearm it and read its id after the Timer value moved into the task.     *)
(*                                                                         *)
(* Actors: the caller (construct, destroy, cancel, join, rearm, drop the   *)
(* handle), the executor running the task when it is scheduled, the       *)
(* reactor firing expired registrations, the clock, and whatever the       *)
(* action itself awaits.  The executor is single-threaded and             *)
(* cooperative, so each run of the task is one atomic step and no caller  *)
(* step happens inside it.                                                 *)
(*                                                                         *)
(* The executor and JoinHandle semantics (spawn schedules the task; a     *)
(* cancelled task is dropped instead of polled at its next run; cancel on *)
(* an idle task schedules it; join yields None for a dropped task) are    *)
(* those of the runtime's task module, which is not in this file.         *)
(***************************************************************************)
EXTENDS TimerInner

CONSTANTS
  MaxActionAwaits,  (* suspension points inside the user's action        *)
  MaxRearms         (* rearm_in / rearm_at calls the caller makes        *)

VARIABLES
  ts,         (* the timer state: Inner plus its reactor registration    *)
  pc,         (* where the spawned task is                               *)
  scheduled,  (* the task sits in its queue waiting to be run            *)
  closed,     (* JoinHandle::cancel was called while the task was live   *)
  actLeft,    (* suspension points left in the action                    *)
  handle,     (* what the caller holds                                   *)
  result,     (* what join() returned                                    *)
  rearms      (* rearm calls made so far (bounded)                       *)

vars == <<ts, pc, scheduled, closed, actLeft, handle, result, rearms>>

\* Task states.  "Unspawned": do_in_into not called yet; "Failed": it
\* returned QueueNotFoundError; "Spawned": not polled yet; "WaitTimer":
\* suspended in `timer.await`; "InAction": suspended in `action.await`;
\* "Completed": the action returned; "Dropped": the executor dropped the
\* cancelled future.
WaitingOnTimer == {"Spawned", "WaitTimer"}
Live == WaitingOnTimer \cup {"InAction"}
Finished == {"Completed", "Dropped"}

TypeOK ==
  /\ ts \in TimerStates
  /\ pc \in {"Unspawned", "Failed"} \cup Live \cup Finished
  /\ scheduled \in BOOLEAN
  /\ closed \in BOOLEAN
  /\ actLeft \in 0 .. MaxActionAwaits
  /\ handle \in {"None", "Held", "Joining", "Joined", "Gone"}
  /\ result \in {"Pending", "Some", "None"}
  /\ rearms \in 0 .. MaxRearms

Init ==
  /\ ts = NoTimer
  /\ pc = "Unspawned"
  /\ scheduled = FALSE
  /\ closed = FALSE
  /\ actLeft = 0
  /\ handle = "None"
  /\ result = "Pending"
  /\ rearms = 0

-----------------------------------------------------------------------------
(* Caller operations.                                                      *)

\* TimerActionOnce::do_in_into(when, action, tq): register a timer id,
\* build Timer::from_id(id, when), spawn the task into tq.  When tq names
\* no live queue, Task::local_into fails, the future (and the Timer in
\* it, which never registered) is dropped and the error is returned.
\* `awaits` is how many times the action will suspend.
DoInInto(dur, queueExists, awaits) ==
  /\ pc = "Unspawned"
  /\ IF queueExists
       THEN /\ ts' = FromId(ts, dur)
            /\ pc' = "Spawned"
            /\ scheduled' = TRUE
            /\ actLeft' = awaits
            /\ handle' = "Held"
       ELSE /\ ts' = Drop(FromId(ts, dur))
            /\ pc' = "Failed"
            /\ UNCHANGED <<scheduled, actLeft, handle>>
  /\ UNCHANGED <<closed, result, rearms>>

\* TimerActionOnce::do_at_into(when, action, tq): the same, with the
\* duration until `when` floored at zero.
DoAtInto(instant, queueExists, awaits) ==
  /\ instant \in Instants
  /\ DoInInto(DurationUntil(instant), queueExists, awaits)

\* JoinHandle::cancel: mark the task closed and, since it is not running
\* (the caller is), schedule it so that the executor drops it.  A task
\* that already finished, or is already closed, is left alone.
HandleCancel ==
  IF pc \in Live /\ ~closed
    THEN closed' = TRUE /\ scheduled' = TRUE
    ELSE UNCHANGED <<closed, scheduled>>

\* TimerActionOnce::destroy: remove the registration for inner.id, then
\* cancel the task.
DestroyEffects ==
  /\ ts' = RemoveTimer(ts)
  /\ HandleCancel
  /\ UNCHANGED <<pc, actLeft, result, rearms>>

Destroy ==
  /\ handle = "Held"
  /\ DestroyEffects
  /\ UNCHANGED handle

\* TimerActionOnce::cancel: destroy(), then await join(); the handle is
\* consumed.
Cancel ==
  /\ handle = "Held"
  /\ DestroyEffects
  /\ handle' = "Joining"

\* TimerActionOnce::join: await the JoinHandle; the handle is consumed.
Join ==
  /\ handle = "Held"
  /\ handle' = "Joining"
  /\ UNCHANGED <<ts, pc, scheduled, closed, actLeft, result, rearms>>

\* The awaited JoinHandle resolves once the task finished: Some(output) if
\* the action completed, None if the task was dropped.
JoinReady ==
  /\ handle = "Joining"
  /\ pc \in Finished
  /\ handle' = "Joined"
  /\ result' = IF pc = "Completed" THEN "Some" ELSE "None"
  /\ UNCHANGED <<ts, pc, scheduled, closed, actLeft, rearms>>

\* TimerActionOnce::rearm_in(dur): Inner::reset on the shared state.
RearmIn(dur) ==
  /\ handle = "Held"
  /\ rearms < MaxRearms
  /\ ts' = Reset(ts, dur)
  /\ rearms' = rearms + 1
  /\ UNCHANGED <<pc, scheduled, closed, actLeft, handle, result>>

\* TimerActionOnce::rearm_at(when): rearm_in with the floored duration.
RearmAt(instant) ==
  /\ instant \in Instants
  /\ RearmIn(DurationUntil(instant))

\* Dropping the TimerActionOnce without joining: the JoinHandle is
\* dropped, which detaches the task, and the Rc to Inner goes away.
DropHandle ==
  /\ handle = "Held"
  /\ handle' = "Gone"
  /\ UNCHANGED <<ts, pc, scheduled, closed, actLeft, result, rearms>>

-----------------------------------------------------------------------------
(* The spawned task, run by the executor when scheduled.                   *)

\* The action starts: it runs to its first suspension point, or returns.
StartAction ==
  pc' = IF actLeft = 0 THEN "Completed" ELSE "InAction"

\* Faulty run: the task is polled although it was cancelled.
RunTimerIgnoresClosed ==
  /\ scheduled
  /\ pc \in WaitingOnTimer
  /\ scheduled' = FALSE
  /\ IF Expired(ts)
       THEN ts' = Drop(PollReady(ts)) /\ StartAction
       ELSE ts' = PollPending(ts) /\ pc' = "WaitTimer"
  /\ UNCHANGED <<closed, actLeft, handle, result, rearms>>

\* A run of the task while it waits on the timer: Timer::poll.  When the
\* timer expired, poll removes the registration and returns Ready, the
\* Timer is dropped at the end of `timer.await`, and `action.await`
\* starts in the same run.  Otherwise poll registers and the task sleeps.
RunTimer ==
  /\ scheduled /\ ~closed
  /\ pc \in WaitingOnTimer
  /\ scheduled' = FALSE
  /\ IF Expired(ts)
       THEN ts' = Drop(PollReady(ts)) /\ StartAction
       ELSE ts' = PollPending(ts) /\ pc' = "WaitTimer"
  /\ UNCHANGED <<closed, actLeft, handle, result, rearms>>

\* Faulty resumption of the action: an off-by-one on the last await.
RunActionOffByOne ==
  /\ scheduled /\ ~closed
  /\ pc = "InAction"
  /\ scheduled' = FALSE
  /\ actLeft' = actLeft - 1
  /\ pc' = IF actLeft = 0 THEN "Completed" ELSE "InAction"
  /\ UNCHANGED <<ts, closed, handle, result, rearms>>

\* A run of the task suspended inside the action: it reaches its next
\* suspension point or returns.
RunAction ==
  /\ scheduled /\ ~closed
  /\ pc = "InAction"
  /\ scheduled' = FALSE
  /\ actLeft' = actLeft - 1
  /\ pc' = IF actLeft = 1 THEN "Completed" ELSE "InAction"
  /\ UNCHANGED <<ts, closed, handle, result, rearms>>

\* A run of a closed task: the executor drops its future instead of
\* polling it.  A Timer still inside the future is dropped with it.
RunClosed ==
  /\ scheduled /\ closed
  /\ pc \in Live
  /\ scheduled' = FALSE
  /\ pc' = "Dropped"
  /\ ts' = IF pc \in WaitingOnTimer THEN Drop(ts) ELSE ts
  /\ UNCHANGED <<closed, actLeft, handle, result, rearms>>

RunTask == RunTimer \/ RunAction \/ RunClosed

\* What the action awaits becomes ready and wakes the task.
ActionWake ==
  /\ pc = "InAction"
  /\ ~scheduled
  /\ scheduled' = TRUE
  /\ UNCHANGED <<ts, pc, closed, actLeft, handle, result, rearms>>

-----------------------------------------------------------------------------
(* The reactor and the clock.                                              *)

\* The reactor fires an expired registration and wakes its waker, the
\* task's; waking a task that already finished does nothing.
ReactorFire ==
  /\ CanFire(ts)
  /\ ts' = Fire(ts)
  /\ scheduled' = (scheduled \/ pc \in Live)
  /\ UNCHANGED <<pc, closed, actLeft, handle, result, rearms>>

ClockTick ==
  /\ CanTick(ts)
  /\ ts' = Tick(ts)
  /\ UNCHANGED <<pc, scheduled, closed, actLeft, handle, result, rearms>>

Next ==
  \/ \E d \in Delays, q \in BOOLEAN, a \in 0 .. MaxActionAwaits :
        DoInInto(d, q, a)
  \/ \E i \in Instants, q \in BOOLEAN, a \in 0 .. MaxActionAwaits :
        DoAtInto(i, q, a)
  \/ Destroy
  \/ Cancel
  \/ Join
  \/ JoinReady
  \/ \E d \in Delays : RearmIn(d)
  \/ \E i \in Instants : RearmAt(i)
  \/ DropHandle
  \/ RunTask
  \/ ActionWake
  \/ ReactorFire
  \/ ClockTick

\* The executor runs every scheduled task and resumes a caller whose join
\* became ready, the reactor is polled on every turn of the run loop, the
\* clock advances, and an action's awaited futures complete.  The caller
\* is not assumed to do anything.
Fairness ==
  /\ WF_vars(RunTask)
  /\ WF_vars(JoinReady)
  /\ WF_vars(ReactorFire)
  /\ WF_vars(ClockTick)
  /\ WF_vars(ActionWake)

Spec == Init /\ [][Next]_vars /\ Fairness

-----------------------------------------------------------------------------
(* Properties.                                                             *)

\* No lost or late wakeup: a task asleep in `timer.await` is either
\* already scheduled or the reactor holds a registration expiring exactly
\* when Inner.when does, whatever rearm_in / rearm_at / destroy calls the
\* caller interleaved with the polls (Inner::reset, Timer::poll).
WaitingTaskIsWakeable ==
  pc = "WaitTimer" /\ ~scheduled => ts.reg = ts.when

\* No registration outlives its Timer: once the task is past
\* `timer.await` (or never got one), the reactor holds nothing for the
\* id, even when the caller keeps rearming the shared Inner afterwards
\* (Drop for Timer taking the waker, Inner::reset re-registering only
\* with a waker).
NoRegistrationOutlivesTimer ==
  pc \notin WaitingOnTimer => ts.reg = NoReg

\* Every spawned task eventually finishes (the action completes or the
\* task is dropped), whatever the caller does: no wakeup is lost.
SpawnedTaskFinishes ==
  pc \in Live ~> pc \in Finished

\* The refinement mapping: the task's place in its body is the abstract
\* status, the JoinHandle's closed flag the cancel request.
AbsStatus ==
  CASE pc = "Unspawned"         -> "Idle"
    [] pc = "Failed"            -> "Failed"
    [] pc \in WaitingOnTimer    -> "Armed"
    [] pc = "InAction"          -> "Running"
    [] pc = "Completed"         -> "Done"
    [] pc = "Dropped"           -> "Cancelled"

Abstract == INSTANCE DeferredOnceAbstract
              WITH status <- AbsStatus, cancelReq <- closed

\* TimerActionOnce implements its abstract specification: the action
\* starts at most once, never after a cancel taken while it was armed,
\* never completes after a cancel taken while it ran, join reports Some
\* exactly for a completed action, and an armed or running action ends.
ImplementsAbstract == Abstract!Spec

\* What the spec (section 3) states of TimerState: "a given id is
\* registered in the reactor's pending set if and only if wakeup is Some",
\* the wakeup being None "after firing/removal".  Timer::poll's Ready
\* branch, the reactor firing and destroy() all remove the registration
\* and leave Inner.waker as it is; only Drop for Timer clears it.
RegisteredIffWaker ==
  (ts.reg # NoReg) <=> ts.waker
=============================================================================
