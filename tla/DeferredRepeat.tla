--------------------------- MODULE DeferredRepeat ---------------------------
(***************************************************************************)
(* TimerActionRepeat of src/scipio/src/timer.rs: a handle holding a       *)
(* JoinHandle and one timer id, and a task spawned into a task queue      *)
(* whose body is                                                           *)
(*     loop {                                                              *)
(*         if let Some(period) = action_gen().await {                      *)
(*             Timer::from_id(timer_id, period).await;                     *)
(*         } else { break; }                                               *)
(*     }                                                                   *)
(* Every iteration builds a new Timer on the same id.                      *)
(*                                                                         *)
(* A run of the task may go through several iterations before it          *)
(* suspends (a generator that does not await and a zero period), so a run *)
(* is a sequence of steps taken while `running` holds; no other actor     *)
(* moves during it, as the executor is single-threaded and cooperative.   *)
(* Executor and JoinHandle semantics are as in DeferredOnce.               *)
(***************************************************************************)
EXTENDS TimerInner

CONSTANTS
  MaxGenAwaits,   (* suspension points inside one generator future       *)
  MaxGenCalls     (* the generator returns None on this call at the latest *)

ASSUME MaxGenCalls \in Nat \ {0}

VARIABLES
  ts,         (* the current iteration's Timer plus the id's registration *)
  pc,         (* where the loop task is                                  *)
  running,    (* the executor is inside a run of the task                *)
  scheduled,  (* the task sits in its queue waiting to be run            *)
  closed,     (* JoinHandle::cancel was called while the task was live   *)
  genLeft,    (* suspension points left in the current generator future  *)
  genCalls,   (* calls of action_gen() so far                            *)
  handle,     (* what the caller holds                                   *)
  result,     (* what join() returned                                    *)
  droppedAt   (* history: where the task was when its future was dropped *)

vars == <<ts, pc, running, scheduled, closed, genLeft, genCalls, handle,
          result, droppedAt>>

\* "Top": at the head of the loop (also the state of a fresh task);
\* "InGen": inside `action_gen().await`; "WaitTimer": inside the Timer's
\* await; "Completed": the loop broke; "Dropped": the executor dropped the
\* cancelled future.
Live == {"Top", "InGen", "WaitTimer"}
Finished == {"Completed", "Dropped"}

TypeOK ==
  /\ ts \in TimerStates
  /\ pc \in {"Unspawned", "Failed"} \cup Live \cup Finished
  /\ running \in BOOLEAN
  /\ scheduled \in BOOLEAN
  /\ closed \in BOOLEAN
  /\ genLeft \in 0 .. MaxGenAwaits
  /\ genCalls \in 0 .. MaxGenCalls
  /\ handle \in {"None", "Held", "Joining", "Joined", "Gone"}
  /\ result \in {"Pending", "Some", "None"}
  /\ droppedAt \in {"None"} \cup Live

Init ==
  /\ ts = NoTimer
  /\ pc = "Unspawned"
  /\ running = FALSE
  /\ scheduled = FALSE
  /\ closed = FALSE
  /\ genLeft = 0
  /\ genCalls = 0
  /\ handle = "None"
  /\ result = "Pending"
  /\ droppedAt = "None"

\* The actors other than the task move only between its runs.
Idle == ~running

-----------------------------------------------------------------------------
(* Caller operations.                                                      *)

\* TimerActionRepeat::repeat_into(action_gen, tq): register a timer id and
\* spawn the loop task into tq; QueueNotFoundError when tq names no live
\* queue.  TimerActionRepeat::repeat is the same on the current queue.
RepeatInto(queueExists) ==
  /\ pc = "Unspawned"
  /\ IF queueExists
       THEN pc' = "Top" /\ scheduled' = TRUE /\ handle' = "Held"
       ELSE pc' = "Failed" /\ UNCHANGED <<scheduled, handle>>
  /\ UNCHANGED <<ts, running, closed, genLeft, genCalls, result, droppedAt>>

\* JoinHandle::cancel, as in DeferredOnce.
HandleCancel ==
  IF pc \in Live /\ ~closed
    THEN closed' = TRUE /\ scheduled' = TRUE
    ELSE UNCHANGED <<closed, scheduled>>

\* Faulty destroy: removes the registration but never cancels the task.
DestroyEffectsNoCancel ==
  /\ ts' = RemoveTimer(ts)
  /\ UNCHANGED <<closed, scheduled>>
  /\ UNCHANGED <<pc, running, genLeft, genCalls, result, droppedAt>>

\* TimerActionRepeat::destroy: remove the registration for timer_id, then
\* cancel the task.
DestroyEffects ==
  /\ ts' = RemoveTimer(ts)
  /\ HandleCancel
  /\ UNCHANGED <<pc, running, genLeft, genCalls, result, droppedAt>>

Destroy ==
  /\ Idle /\ handle = "Held"
  /\ DestroyEffects
  /\ UNCHANGED handle

\* TimerActionRepeat::cancel: destroy(), then await join().
Cancel ==
  /\ Idle /\ handle = "Held"
  /\ DestroyEffects
  /\ handle' = "Joining"

\* TimerActionRepeat::join: await the JoinHandle.
Join ==
  /\ Idle /\ handle = "Held"
  /\ handle' = "Joining"
  /\ UNCHANGED <<ts, pc, running, scheduled, closed, genLeft, genCalls,
                 result, droppedAt>>

\* The JoinHandle resolves: `handle.await.and_then(|_| Some(()))` is
\* Some(()) when the loop broke and None when the task was dropped.
JoinReady ==
  /\ Idle /\ handle = "Joining"
  /\ pc \in Finished
  /\ handle' = "Joined"
  /\ result' = IF pc = "Completed" THEN "Some" ELSE "None"
  /\ UNCHANGED <<ts, pc, running, scheduled, closed, genLeft, genCalls,
                 droppedAt>>

\* Dropping the TimerActionRepeat detaches the task.
DropHandle ==
  /\ Idle /\ handle = "Held"
  /\ handle' = "Gone"
  /\ UNCHANGED <<ts, pc, running, scheduled, closed, genLeft, genCalls,
                 result, droppedAt>>

-----------------------------------------------------------------------------
(* The loop task.                                                          *)

\* Faulty executor run: cancellation is honoured only at a Timer await,
\* so a closed task at the head of the loop runs another iteration.
RunStartTimerOnly ==
  /\ Idle /\ scheduled
  /\ pc \in Live
  /\ scheduled' = FALSE
  /\ IF closed /\ pc = "WaitTimer"
       THEN /\ pc' = "Dropped"
            /\ droppedAt' = pc
            /\ ts' = Drop(ts)
            /\ UNCHANGED running
       ELSE /\ running' = TRUE
            /\ UNCHANGED <<pc, ts, droppedAt>>
  /\ UNCHANGED <<closed, genLeft, genCalls, handle, result>>

\* The executor picks the scheduled task.  A closed task has its future
\* dropped, with the Timer it may be awaiting; otherwise the run starts.
RunStart ==
  /\ Idle /\ scheduled
  /\ pc \in Live
  /\ scheduled' = FALSE
  /\ IF closed
       THEN /\ pc' = "Dropped"
            /\ droppedAt' = pc
            /\ ts' = IF pc = "WaitTimer" THEN Drop(ts) ELSE ts
            /\ UNCHANGED running
       ELSE /\ running' = TRUE
            /\ UNCHANGED <<pc, ts, droppedAt>>
  /\ UNCHANGED <<closed, genLeft, genCalls, handle, result>>

\* `action_gen()` is called and its future polled; `awaits` is how many
\* times that future will suspend.
CallGen(awaits) ==
  /\ running /\ pc = "Top"
  /\ genCalls < MaxGenCalls
  /\ genCalls' = genCalls + 1
  /\ genLeft' = awaits
  /\ pc' = "InGen"
  /\ UNCHANGED <<ts, running, scheduled, closed, handle, result, droppedAt>>

\* Faulty suspension: the guard on the awaits left is dropped.
GenSuspendUnguarded ==
  /\ running /\ pc = "InGen"
  /\ genLeft' = genLeft - 1
  /\ running' = FALSE
  /\ UNCHANGED <<ts, pc, scheduled, closed, genCalls, handle, result,
                 droppedAt>>

\* The generator future suspends; what it awaits will wake the task.
GenSuspend ==
  /\ running /\ pc = "InGen"
  /\ genLeft > 0
  /\ genLeft' = genLeft - 1
  /\ running' = FALSE
  /\ UNCHANGED <<ts, pc, scheduled, closed, genCalls, handle, result,
                 droppedAt>>

\* What the generator awaits becomes ready.
GenWake ==
  /\ Idle /\ pc = "InGen" /\ ~scheduled
  /\ scheduled' = TRUE
  /\ UNCHANGED <<ts, pc, running, closed, genLeft, genCalls, handle, result,
                 droppedAt>>

\* Timer::poll on the current iteration's Timer, run to the end of the
\* loop body: when expired, Ready, the Timer is dropped at the end of the
\* statement and the loop goes round; otherwise the task suspends.
AwaitTimer(s) ==
  IF Expired(s)
    THEN ts' = Drop(PollReady(s)) /\ pc' = "Top" /\ UNCHANGED running
    ELSE ts' = PollPending(s) /\ pc' = "WaitTimer" /\ running' = FALSE

\* The generator returns Some(period): Timer::from_id(timer_id, period)
\* is built and awaited.
GenSome(period) ==
  /\ running /\ pc = "InGen"
  /\ genLeft = 0
  /\ genCalls < MaxGenCalls
  /\ AwaitTimer(FromId(ts, period))
  /\ UNCHANGED <<scheduled, closed, genLeft, genCalls, handle, result,
                 droppedAt>>

\* The generator returns None: the loop breaks and the task completes.
GenNone ==
  /\ running /\ pc = "InGen"
  /\ genLeft = 0
  /\ pc' = "Completed"
  /\ running' = FALSE
  /\ UNCHANGED <<ts, scheduled, closed, genLeft, genCalls, handle, result,
                 droppedAt>>

\* The task, woken while awaiting its Timer, polls it again.
PollTimer ==
  /\ running /\ pc = "WaitTimer"
  /\ AwaitTimer(ts)
  /\ UNCHANGED <<scheduled, closed, genLeft, genCalls, handle, result,
                 droppedAt>>

RunStep ==
  \/ \E a \in 0 .. MaxGenAwaits : CallGen(a)
  \/ GenSuspend
  \/ \E p \in Delays : GenSome(p)
  \/ GenNone
  \/ PollTimer

-----------------------------------------------------------------------------
(* The reactor and the clock.                                              *)

ReactorFire ==
  /\ Idle /\ CanFire(ts)
  /\ ts' = Fire(ts)
  /\ scheduled' = (scheduled \/ pc \in Live)
  /\ UNCHANGED <<pc, running, closed, genLeft, genCalls, handle, result,
                 droppedAt>>

ClockTick ==
  /\ Idle /\ CanTick(ts)
  /\ ts' = Tick(ts)
  /\ UNCHANGED <<pc, running, scheduled, closed, genLeft, genCalls, handle,
                 result, droppedAt>>

Next ==
  \/ \E q \in BOOLEAN : RepeatInto(q)
  \/ Destroy
  \/ Cancel
  \/ Join
  \/ JoinReady
  \/ DropHandle
  \/ RunStart
  \/ RunStep
  \/ GenWake
  \/ ReactorFire
  \/ ClockTick

\* As in DeferredOnce: the executor, reactor, clock and the futures the
\* generator awaits make progress; a started run goes on until the task
\* suspends or finishes; the caller is not assumed to do anything.
Fairness ==
  /\ WF_vars(RunStart)
  /\ WF_vars(RunStep)
  /\ WF_vars(JoinReady)
  /\ WF_vars(GenWake)
  /\ WF_vars(ReactorFire)
  /\ WF_vars(ClockTick)

Spec == Init /\ [][Next]_vars /\ Fairness

-----------------------------------------------------------------------------
(* Properties.                                                             *)

\* No lost wakeup across iterations on the reused id: between runs, a task
\* asleep on its Timer is either scheduled or the reactor holds a
\* registration for the id expiring when the Timer does, whatever destroy
\* removed and whatever the previous iteration's Timer deregistered.
WaitingTaskIsWakeable ==
  Idle /\ pc = "WaitTimer" /\ ~scheduled => ts.reg = ts.when

\* The refinement mapping: the loop is live while the task is, a
\* generator call is in progress while the task is inside
\* `action_gen().await`, and the JoinHandle's closed flag is the cancel
\* request.
AbsStatus ==
  CASE pc = "Unspawned" -> "Idle"
    [] pc = "Failed" -> "Failed"
    [] pc \in Live -> "Looping"
    [] pc = "Completed" -> "Completed"
    [] pc = "Dropped" -> "Cancelled"

Abstract == INSTANCE DeferredRepeatAbstract
              WITH MaxCalls <- MaxGenCalls, status <- AbsStatus,
                   inGen <- (pc = "InGen"), calls <- genCalls,
                   cancelReq <- closed

\* TimerActionRepeat implements what it promises: no generator call starts
\* after destroy() or cancel() reached the live loop, wherever the loop was
\* suspended (at its head, in the generator, on its timer); join() yields
\* Some exactly when the generator returned None; a cancelled loop ends.
ImplementsAbstract == Abstract!Spec

\* What the spec (section 4.3) says of destroy(): "a currently-executing
\* generator invocation runs to completion", i.e. the task is never dropped
\* while it is inside `action_gen().await`.
GeneratorRunsToCompletion ==
  droppedAt # "InGen"
=============================================================================
