---------------------------- MODULE SelectTimer ----------------------------
(***************************************************************************)
(* A Timer of src/scipio/src/timer.rs owned by one task that also waits   *)
(* on something else, as in a select! loop: each run of the task polls    *)
(* the Timer, or handles the other event by calling Timer::reset and      *)
(* suspending again, or gives up and drops the Timer.  A Timer that       *)
(* returned Ready is still held and may be reset and awaited again.       *)
(* The reactor fires the id's registration and wakes the task; the other *)
(* event may wake it at any time.  Each run of the task is atomic.        *)
(***************************************************************************)
EXTENDS TimerInner

CONSTANTS
  MaxResets   (* Timer::reset calls the task makes                      *)

VARIABLES
  ts,         (* the Timer's Inner plus the id's registration           *)
  pc,         (* "Idle": no Timer yet; "Waiting": suspended with the     *)
              (* Timer among what it awaits; "Fired": the Timer returned *)
              (* Ready and is still held; "Dropped"                     *)
  scheduled,  (* the task is queued to run                               *)
  otherReady, (* the other branch of the select has an event for it      *)
  resets      (* Timer::reset calls so far (bounded)                     *)

vars == <<ts, pc, scheduled, otherReady, resets>>

TypeOK ==
  /\ ts \in TimerStates
  /\ pc \in {"Idle", "Waiting", "Fired", "Dropped"}
  /\ scheduled \in BOOLEAN
  /\ otherReady \in BOOLEAN
  /\ resets \in 0 .. MaxResets

Init ==
  /\ ts = NoTimer
  /\ pc = "Idle"
  /\ scheduled = FALSE
  /\ otherReady = FALSE
  /\ resets = 0

\* `(&mut timer).await`, one poll: Ready leaves the Timer held (with its
\* waker still Some); Pending registers it and suspends the task.
PollTimer(s) ==
  IF Expired(s)
    THEN ts' = PollReady(s) /\ pc' = "Fired"
    ELSE ts' = PollPending(s) /\ pc' = "Waiting"

\* Timer::new(dur), polled at once.
Create(dur) ==
  /\ pc = "Idle"
  /\ PollTimer(New(dur))
  /\ UNCHANGED <<scheduled, otherReady, resets>>

\* The task runs and its select takes the Timer branch: it polls it.  A
\* select! takes a ready other branch unless the Timer is ready too.
RunPoll ==
  /\ scheduled /\ pc = "Waiting"
  /\ ~otherReady \/ Expired(ts)
  /\ scheduled' = FALSE
  /\ PollTimer(ts)
  /\ UNCHANGED <<otherReady, resets>>

\* The task runs, the other event is ready: it calls Timer::reset(dur) and
\* suspends on the other event again without polling the Timer.
RunReset(dur) ==
  /\ scheduled /\ pc = "Waiting" /\ otherReady
  /\ resets < MaxResets
  /\ scheduled' = FALSE
  /\ otherReady' = FALSE
  /\ ts' = Reset(ts, dur)
  /\ resets' = resets + 1
  /\ UNCHANGED pc

\* The task runs, takes the other event and leaves the select for good:
\* the Timer is dropped.
RunAbandon ==
  /\ scheduled /\ pc = "Waiting" /\ otherReady
  /\ scheduled' = FALSE
  /\ otherReady' = FALSE
  /\ ts' = Drop(ts)
  /\ pc' = "Dropped"
  /\ UNCHANGED resets

\* In a later run the task reuses a fired Timer:
\*     timer.reset(dur); (&mut timer).await
\* Reset re-registers with the waker Ready left in place, then the poll.
ReuseFired(dur) ==
  /\ pc = "Fired"
  /\ resets < MaxResets
  /\ PollTimer(Reset(ts, dur))
  /\ resets' = resets + 1
  /\ UNCHANGED <<scheduled, otherReady>>

\* Or it drops the fired Timer.
DropFired ==
  /\ pc = "Fired"
  /\ ts' = Drop(ts)
  /\ pc' = "Dropped"
  /\ UNCHANGED <<scheduled, otherReady, resets>>

\* An event arrives for the other branch of the select and wakes the task.
OtherWake ==
  /\ pc = "Waiting" /\ ~otherReady
  /\ otherReady' = TRUE
  /\ scheduled' = TRUE
  /\ UNCHANGED <<ts, pc, resets>>

\* The reactor fires the id's expired registration, waking the task.
ReactorFire ==
  /\ CanFire(ts)
  /\ ts' = Fire(ts)
  /\ scheduled' = (scheduled \/ pc = "Waiting")
  /\ UNCHANGED <<pc, otherReady, resets>>

ClockTick ==
  /\ CanTick(ts)
  /\ ts' = Tick(ts)
  /\ UNCHANGED <<pc, scheduled, otherReady, resets>>

RunTask == RunPoll \/ (\E d \in Delays : RunReset(d)) \/ RunAbandon

Next ==
  \/ \E d \in Delays : Create(d)
  \/ RunTask
  \/ \E d \in Delays : ReuseFired(d)
  \/ DropFired
  \/ OtherWake
  \/ ReactorFire
  \/ ClockTick

\* The executor runs a woken task, the reactor fires expired timers, time
\* passes.  The task's own choices and the other event are not fair.
Spec ==
  Init /\ [][Next]_vars
  /\ WF_vars(RunTask) /\ WF_vars(ReactorFire) /\ WF_vars(ClockTick)

-----------------------------------------------------------------------------
\* No lost wakeup across resets: a task suspended with a Timer it has
\* polled or reset, and not queued, has a registration expiring exactly
\* when the Timer does, whether the reset came before or after the Timer
\* fired and whether it moved the deadline earlier or later, or reset
\* was called while the reactor had already fired and queued the task.
WaitingTaskIsWakeable ==
  pc = "Waiting" /\ ~scheduled => ts.reg = ts.when

\* A Timer that fired or was dropped leaves no registration behind that
\* would later wake the task for nothing.
NoStaleRegistration ==
  pc \in {"Fired", "Dropped"} => ts.reg = NoReg

\* A task waiting on its Timer is eventually done with it: the Timer fires
\* at its last deadline, even when the task reset it and went back to
\* waiting on the other event without polling it, so that only the
\* registration reset made from the stored waker can wake it.
TimerCompletes ==
  pc = "Waiting" ~> pc \in {"Fired", "Dropped"}
=============================================================================
