----------------------------- MODULE TimerInner -----------------------------
(***************************************************************************)
(* The state behind one timer of src/scipio/src/timer.rs: the shared       *)
(* record `Inner { id, waker, when }` together with the reactor's          *)
(* registration for that id, and the operations the file performs on them *)
(* (Inner::reset, Timer::from_id, Timer::poll, Drop for Timer) plus the    *)
(* reactor-side events the file relies on (a registration firing, time     *)
(* passing).                                                               *)
(*                                                                         *)
(* A timer state is a record                                               *)
(*   [when |-> d, waker |-> b, reg |-> r]                                  *)
(* where `when` is the time left until Inner.when (time is relative: the   *)
(* clock advancing decrements it, an instant already passed is 0),         *)
(* `waker` says whether Inner.waker is Some, and `reg` is the time left    *)
(* on the reactor's registration for Inner.id, or NoReg when the reactor  *)
(* holds none.  The operators are functions from a timer state to the     *)
(* next one, so that a step doing several of them in a row (poll, then    *)
(* drop) is their composition.  Each model holds one timer id, so the     *)
(* reactor table restricted to it is the single field `reg`.              *)
(***************************************************************************)
EXTENDS Integers

CONSTANTS
  MaxDelay,   (* largest duration handed to the timer, in clock ticks    *)
  NoReg       (* model value: the reactor holds no registration for id  *)

ASSUME MaxDelay \in Nat \ {0}

Delays == 0 .. MaxDelay

\* An instant relative to now; negative ones are in the past.
Instants == -1 .. MaxDelay

TimerStates == [when : Delays, waker : BOOLEAN, reg : Delays \cup {NoReg}]

\* `if when > now { when.duration_since(now) } else { 0 }` in
\* TimerActionOnce::do_at_into and rearm_at: an instant in the past is
\* floored to a zero duration.
DurationUntil(instant) == IF instant > 0 THEN instant ELSE 0

\* Reactor::remove_timer(id): drop the registration if there is one.
RemoveTimer(s) == [s EXCEPT !.reg = NoReg]

\* Reactor::insert_timer(id, when, waker): install or overwrite it.
InsertTimer(s, when) == [s EXCEPT !.reg = when]

\* Timer::new(dur): a fresh id from Reactor::register_timer (which holds
\* no registration yet), no waker, expiring in dur.
\* Faulty Timer::new: the deadline one tick late.
NewOffByOne(dur) == [when |-> dur + 1, waker |-> FALSE, reg |-> NoReg]

New(dur) == [when |-> dur, waker |-> FALSE, reg |-> NoReg]

\* Timer::from_id(id, dur): a fresh Inner with no waker, expiring in dur.
\* The reactor's registration for the id is left as it is.
FromId(s, dur) == [s EXCEPT !.when = dur, !.waker = FALSE]

\* Faulty variants of Inner::reset: re-registering before removing (the
\* removal then deletes the new registration), and never re-registering.
ResetInsertFirst(s, dur) ==
  LET moved == [s EXCEPT !.when = dur]
      added == IF moved.waker THEN InsertTimer(moved, moved.when) ELSE moved
  IN  IF s.waker THEN RemoveTimer(added) ELSE added

ResetNoReinsert(s, dur) ==
  [IF s.waker THEN RemoveTimer(s) ELSE s EXCEPT !.when = dur]

\* Inner::reset(dur): remove the registration if a waker is held, move
\* the expiry, and re-register under the new expiry if a waker is held.
Reset(s, dur) ==
  LET removed == IF s.waker THEN RemoveTimer(s) ELSE s
      moved   == [removed EXCEPT !.when = dur]
  IN  IF moved.waker THEN InsertTimer(moved, moved.when) ELSE moved

\* Timer::poll, the branch `Instant::now() >= inner.when`: remove the
\* registration and return Ready.  Inner.waker is left as it is.
PollReady(s) == RemoveTimer(s)

\* Timer::poll, the other branch: register (id, when, waker) with the
\* reactor, store the waker, return Pending.
PollPending(s) == [InsertTimer(s, s.when) EXCEPT !.waker = TRUE]

\* Faulty Drop for Timer: takes the waker but never deregisters the id.
DropTakeOnly(s) == [s EXCEPT !.waker = FALSE]

\* Faulty Drop for Timer: `waker.as_ref()` instead of `waker.take()`.
DropKeepWaker(s) == IF s.waker THEN RemoveTimer(s) ELSE s

\* Drop for Timer: `waker.take()`, and remove the registration if it was
\* Some.
Drop(s) ==
  LET taken == [s EXCEPT !.waker = FALSE]
  IN  IF s.waker THEN RemoveTimer(taken) ELSE taken

\* True when Timer::poll would take the Ready branch.
Expired(s) == s.when = 0

\* The reactor fires a registration whose expiry has passed: it removes
\* it and wakes the stored waker.
Fire(s) == RemoveTimer(s)

CanFire(s) == s.reg = 0

\* One tick of the monotonic clock.
Dec(n) == IF n > 0 THEN n - 1 ELSE 0

Tick(s) == [s EXCEPT !.when = Dec(@), !.reg = IF @ = NoReg THEN NoReg ELSE Dec(@)]

\* Time passing changes something only while a deadline lies ahead.
CanTick(s) == s.when > 0 \/ (s.reg # NoReg /\ s.reg > 0)

\* A timer that no Timer value holds yet.
NoTimer == [when |-> 0, waker |-> FALSE, reg |-> NoReg]
=============================================================================
