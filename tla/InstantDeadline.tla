--------------------------- MODULE InstantDeadline ---------------------------
(***************************************************************************)
(* How src/scipio/src/timer.rs turns a caller's Duration or Instant into   *)
(* Inner.when, on absolute time.  Every deadline is `Instant::now() + dur` *)
(* (Timer::new, Timer::from_id, Inner::reset), and std's Add for Instant   *)
(* panics when the sum is not a representable Instant.  do_at_into and     *)
(* rearm_at read the clock twice: once to turn the instant into a         *)
(* duration, and again inside from_id or reset to add it back, so the      *)
(* clock may advance between the two reads.  One timer; nothing else of   *)
(* the program runs inside these synchronous calls, only the clock moves. *)
(***************************************************************************)
EXTENDS Naturals

CONSTANTS
  MaxNow,      (* the clock's bound in the model                          *)
  MaxInstant,  (* the largest Instant the platform represents             *)
  Durs,        (* durations callers pass (do_in, rearm_in, Timer::new)    *)
  Instants,    (* instants callers pass (do_at, rearm_at)                 *)
  NoCall       (* model value: no do_at_into/rearm_at call in progress    *)

ASSUME MaxNow \in Nat /\ MaxInstant \in Nat /\ MaxNow < MaxInstant
ASSUME Durs \subseteq Nat /\ Instants \subseteq 0 .. MaxInstant

VARIABLES
  now,       (* Instant::now()                                             *)
  armed,     (* a Timer (or a TimerActionOnce's Inner) exists              *)
  when,      (* Inner.when                                                 *)
  call,      (* a do_at_into/rearm_at between its two clock reads: the     *)
             (* duration computed, the instant asked, and which call       *)
  asked,     (* the earliest instant the caller asked the timer to expire  *)
  panicked   (* `Instant + Duration` overflowed and the thread unwound     *)

vars == <<now, armed, when, call, asked, panicked>>

Calls == [dur : 0 .. MaxInstant, at : Instants, rearm : BOOLEAN]

TypeOK ==
  /\ now \in 0 .. MaxNow
  /\ armed \in BOOLEAN
  /\ when \in 0 .. MaxInstant
  /\ call \in Calls \cup {NoCall}
  /\ asked \in 0 .. MaxInstant
  /\ panicked \in BOOLEAN

Init ==
  /\ now = 0
  /\ armed = FALSE
  /\ when = 0
  /\ call = NoCall
  /\ asked = 0
  /\ panicked = FALSE

\* Faulty duration: truncated one tick short (a coarser unit).
DurationSinceShort(w, n) == IF w > n THEN w - n - 1 ELSE 0

\* `if when > now { when.duration_since(now) } else { 0 }`.
DurationSince(w, n) == IF w > n THEN w - n ELSE 0

\* Faulty deadline: the sum taken without the representability check.
SetWhenUnchecked(dur, a) ==
  /\ when' = now + dur
  /\ armed' = TRUE
  /\ asked' = a
  /\ UNCHANGED panicked

\* `self.when = Instant::now() + dur`: the sum, or a panic when it
\* overflows.  `a` is the instant the caller asked for.
SetWhen(dur, a) ==
  IF now + dur > MaxInstant
    THEN panicked' = TRUE /\ UNCHANGED <<armed, when, asked>>
    ELSE /\ when' = now + dur
         /\ armed' = TRUE
         /\ asked' = a
         /\ UNCHANGED panicked

Idle == ~panicked /\ call = NoCall

\* Timer::new(dur), or do_in_into(dur) building Timer::from_id(id, dur)
\* (also each iteration of the repeat loop): one read of the clock.
DoIn(dur) ==
  /\ Idle /\ ~armed
  /\ SetWhen(dur, now + dur)
  /\ UNCHANGED <<now, call>>

\* do_at_into(instant), first read: the instant as a duration from now.
DoAtRead(w) ==
  /\ Idle /\ ~armed
  /\ call' = [dur |-> DurationSince(w, now), at |-> w, rearm |-> FALSE]
  /\ UNCHANGED <<now, armed, when, asked, panicked>>

\* rearm_in(dur) or Timer::reset(dur): Inner::reset's `Instant::now() +
\* dur`.
RearmIn(dur) ==
  /\ Idle /\ armed
  /\ SetWhen(dur, now + dur)
  /\ UNCHANGED <<now, call>>

\* rearm_at(instant), first read.
RearmAtRead(w) ==
  /\ Idle /\ armed
  /\ call' = [dur |-> DurationSince(w, now), at |-> w, rearm |-> TRUE]
  /\ UNCHANGED <<now, armed, when, asked, panicked>>

\* The second read: do_in_into -> Timer::from_id, or rearm_in ->
\* Inner::reset, adds the duration to the clock as it is now.
AddBack ==
  /\ ~panicked /\ call # NoCall
  /\ SetWhen(call.dur, call.at)
  /\ call' = NoCall
  /\ UNCHANGED now

\* The timer is done with (fired and dropped, or destroyed): a new one
\* may be made.
Release ==
  /\ Idle /\ armed
  /\ armed' = FALSE
  /\ UNCHANGED <<now, when, call, asked, panicked>>

\* The monotonic clock advances, also between the two reads of one call.
ClockTick ==
  /\ ~panicked /\ now < MaxNow
  /\ now' = now + 1
  /\ UNCHANGED <<armed, when, call, asked, panicked>>

Next ==
  \/ \E d \in Durs : DoIn(d) \/ RearmIn(d)
  \/ \E w \in Instants : DoAtRead(w) \/ RearmAtRead(w)
  \/ AddBack
  \/ Release
  \/ ClockTick

Spec == Init /\ [][Next]_vars
-----------------------------------------------------------------------------
\* A timer never expires before the instant its caller asked for: the
\* duration do_at/rearm_at compute at the first clock read is added to a
\* later clock, so Inner.when drifts late, never early, and a past
\* instant floored to zero still lands at or after it.
DeadlineNotEarly ==
  armed /\ ~panicked => when >= asked

\* Spec section 7: "Nothing in steady-state operation panics or aborts";
\* a past instant is floored, a far one is not capped before
\* `Instant::now() + dur`.
NeverPanics == ~panicked
=============================================================================
