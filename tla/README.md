# TLA+ models of scipio's timers (`src/scipio/src/timer.rs`)

This directory holds TLA+ models of the deferred-action layer of scipio, a
thread-per-core async runtime. The models cover `Timer`, `TimerActionOnce` and
`TimerActionRepeat`, and TLC configurations check them. Every definition is
translated from `src/scipio/src/timer.rs`. `PROJECT.json` maps each definition
to the lines it models. The reactor, the executor and the clock are not in
this repository, so they are modelled from their interface in `spec.md` (§6);
those definitions are marked `spec_modelled`.

## 1. Inventory

### Components and their state

| Component | Code | State | Operations |
|---|---|---|---|
| `Inner` (TimerState) | l.16-41 | `id`, `waker: Option<Waker>`, `when: Instant` | `Inner::reset` |
| `Timer` | l.70-156 | an `Rc<RefCell<Inner>>` | `new`, `from_id`, `reset`, `poll` (Future), `Drop` |
| `TimerActionOnce` | l.168-172, 184-468 | a `JoinHandle` and a second `Rc` to the Timer's `Inner` | `do_in`, `do_in_into`, `do_at`, `do_at_into`, `cancel`, `destroy`, `join`, `rearm_in`, `rearm_at`; spawned task `timer.await; action.await` |
| `TimerActionRepeat` | l.178-182, 470-645 | a `JoinHandle` and a `timer_id` | `repeat`, `repeat_into`, `cancel`, `destroy`, `join`; spawned loop task |
| Reactor (external) | `crate::parking` | table of registrations: id -> (when, waker) | `register_timer`, `insert_timer` (overwrites), `remove_timer` (idempotent); firing an expired registration wakes its waker |
| Executor / `JoinHandle` (external) | `crate::task` | per task: scheduled, running, closed, output | spawn into a queue (may fail with `QueueNotFoundError`), run, `cancel`, await the handle |
| Clock (external) | `std::time::Instant` | now | `Instant::now`; `Instant + Duration` (panics on overflow), `duration_since` |
| Unit tests (`mod test`) | l.647-947 | shared `exec1`/`exec2` cell, the test's locals | seventeen `#[test]` bodies run by `test_executor!` |

### How the components interact

- **Shared state.** A `TimerActionOnce` shares the `Inner` of the `Timer` it
  moved into its task. `rearm_*` mutates that `Inner` from the caller's task,
  and `destroy` reads its `id`. This works without locks only because one task
  runs at a time on a core.
- **Calls into the reactor.** `poll` inserts the registration or removes it.
  `reset` removes it and inserts it again. `Drop` and `destroy` remove it.
- **Callbacks.** The reactor invokes the stored waker, which schedules the
  task. `JoinHandle::cancel` closes the task and schedules it. The executor
  then drops the task's future instead of polling it. Dropping the future
  drops a `Timer` still inside it.
- **Id reuse.** `TimerActionRepeat` builds a new `Timer::from_id` on the same
  id in every loop iteration.

### What is hard

- **Interleavings.** The caller's `rearm`, `destroy` and `cancel` can fall
  between the reactor firing and the executor re-polling the task. They can
  also fall while the task is suspended inside the action or the generator.
- **Ordering.** `reset` removes the registration before inserting it again.
  In a repeat loop, the previous Timer's `Drop` runs before the next Timer
  registers on the same id.
- **Stale state.** The waker stored at the last poll is reused by `reset`. The
  caller's `Rc<Inner>` outlives the `Timer`.
- **Cooperative cancellation.** A cancel is observed only at a suspension
  point. It must still stop the action, or the next iteration, and `join` must
  still return.
- **Edges.** A zero or past deadline fires at the first poll and never
  registers. The spawn can fail after the id was taken.
- **Instant arithmetic.** `Instant::now() + dur` panics when the sum is not
  representable. `do_at` and `rearm_at` read the clock twice, so the
  duration computed at the first read is added to a later clock.

### Properties that make each component correct

- **Timer/Inner.** While a task is asleep on a Timer, the reactor holds a
  registration for its id at the Timer's current deadline; this is the
  no-lost-wakeup and no-late-wakeup property. No registration survives the
  Timer. A timer never completes before its deadline.
- **TimerActionOnce.** The action runs at most once. A `destroy` before the
  timer fired keeps it from running. `join` and `cancel` always return. A
  rearm after firing is inert.
- **TimerActionRepeat.** No lost wakeup across iterations on the reused id.
  After a cancel, the generator is not called again. `join` returns `Some(())`
  if the generator stopped the loop and `None` if the loop was cancelled.

## 2. Modules

| Module | Models | Key state |
|---|---|---|
| `TimerInner` | `Inner`, `Timer::new`/`from_id`/`poll`/`Drop`/`Inner::reset`, reactor insert/remove/fire, clock tick | the record `ts = [when, waker, reg]` |
| `DeferredOnce` | `TimerActionOnce` and its task | `ts`, `pc`, `scheduled`, `closed`, `actLeft`, `handle`, `result`, `rearms` |
| `DeferredRepeat` | `TimerActionRepeat` and its loop task | `ts`, `pc`, `running`, `scheduled`, `closed`, `genLeft`, `genCalls`, `handle`, `result` |
| `DeferredOnceAbstract` | what `TimerActionOnce` promises: Idle, Armed, Running, Done, Cancelled | `status`, `cancelReq`, `handle`, `result` |
| `DeferredRepeatAbstract` | what `TimerActionRepeat` promises: Idle, Looping (with a generator call in progress or not), Completed, Cancelled | `status`, `inGen`, `calls`, `cancelReq`, `handle`, `result` |
| `SelectTimer` | a `Timer` owned by its own task, which selects between it and another event: `Timer::new`, `Timer::reset` between polls and after Ready, poll, `Drop` | `ts`, `pc`, `scheduled`, `otherReady`, `resets` |
| `TimerTests` | the unit tests, each a program run on a modelled executor together with the timer code it calls | `test`, `now`, `ts` (one timer state per id), `runq`, `running`, `tk`, `exec`, `loc`, `verdict` |
| `InstantDeadline` | how the file computes `Inner.when` on absolute time: `Instant::now() + dur` in `Timer::new`/`from_id`/`Inner::reset` (a panic when not representable), `duration_since` floored to zero, and the two clock reads of `do_at_into`/`rearm_at` | `now`, `armed`, `when`, `call`, `asked`, `panicked` |
| `MC_DeferredOnce`, `MC_DeferredRepeat`, `MC_SelectTimer`, `MC_TimerTests`, `MC_InstantDeadline` | bounds for TLC | |

### The timer state

`TimerInner` has no variables of its own. Its operators map one timer state
to the next, so a step that polls and then drops is written
`Drop(PollReady(ts))`.

The fields of `ts` are:

- `when`: the time left until `Inner.when`. Time is relative: a clock tick
  decrements every deadline, and a deadline already reached is 0, which is
  all `Instant::now() >= inner.when` distinguishes.
- `waker`: whether `Inner.waker` is `Some`.
- `reg`: the time left on the reactor's registration for the id, or `NoReg`.

Each model holds one timer id. Different ids never interact, because the
reactor table is keyed by id. The registration for that one id is therefore
the whole reactor table as far as the model is concerned.

### How the actions correspond to the code

- **Caller actions.**
  - `DoInInto` and `DoAtInto` are the constructors. The queue may be missing,
    which gives `QueueNotFoundError`.
  - `Destroy`, `Cancel`, `Join`, `RearmIn`, `RearmAt` and `DropHandle` are the
    handle methods. `Cancel` is `destroy` followed by the first poll of
    `join`; both are synchronous, so they form one step.
  - The repeat module has `RepeatInto` for its constructor and the same
    handle methods, without the rearms.
- **The task (DeferredOnce).** A run of the task is one atomic step, because
  the executor is single-threaded and cooperative.
  - `RunTimer` is `Timer::poll`. On `Ready`, the Timer is dropped at the end of
    `timer.await` and the action starts in the same run.
  - `RunAction` resumes the action.
  - `RunClosed` is the executor dropping a cancelled task.
- **The loop task (DeferredRepeat).** One run can go through several
  iterations: a generator that does not await, followed by a zero period. The
  run is therefore a sequence of steps taken while `running` holds, and no
  other actor moves during it. Those steps are `CallGen`, `GenSuspend`,
  `GenSome`, `GenNone` and `PollTimer`.
- **Environment.** `ReactorFire` fires an expired registration and wakes the
  task. `ClockTick` advances time. `ActionWake` and `GenWake` are the futures
  awaited inside the action or the generator becoming ready.

### A Timer in a select (SelectTimer)

`SelectTimer` is the public `Timer` used directly by one task, which also
waits on another event, as in a `select!` loop. Each step is one run of the
task:

- `Create`: `Timer::new(d)` polled at once.
- `RunPoll`: the select takes the Timer branch. A ready other event wins
  unless the Timer is ready too.
- `RunReset(d)`: the task handles the other event, calls `Timer::reset(d)`,
  and suspends again without polling the Timer. Only the registration that
  `reset` makes from the stored waker can then wake it.
- `RunAbandon`: the task drops the pending Timer.
- `ReuseFired(d)`: `timer.reset(d); (&mut timer).await` on a Timer that
  already returned Ready.
- `DropFired`: the task drops a Timer that already returned Ready.

The environment is `OtherWake` (an event arrives for the other branch),
`ReactorFire` and `ClockTick`.

### Deadlines on absolute time (InstantDeadline)

The other modules keep time relative, so they cannot see two facts about
`Instant` arithmetic. First, `Instant + Duration` panics when the sum is
not a representable `Instant` (std's `Add` for `Instant` uses `checked_add`
and `expect`). Second, `do_at_into` (l.324) and `rearm_at` (l.458) read the
clock once to turn the instant into a duration, and `from_id` (l.103) or
`Inner::reset` (l.34) read it again to add the duration back. Those are
separate reads, and the clock may advance between them. `InstantDeadline`
holds one timer on a bounded absolute clock `now`:

- `DoIn(dur)` is `Timer::new` or `do_in_into`'s `from_id`, and `RearmIn(dur)`
  is `rearm_in` or `Timer::reset`. Each is one read and `SetWhen`: the sum,
  or `panicked` when it passes `MaxInstant`.
- `DoAtRead(w)` and `RearmAtRead(w)` are the first read and the floored
  `DurationSince`. `AddBack` is the second read. `ClockTick` may come in
  between.
- `Release` is the timer being dropped or destroyed, after which a new one
  may be made.
- A panic is terminal: the executor thread unwinds.

### The unit tests (TimerTests)

`TimerTests` runs each test of `mod test` as a program. `Init` picks the
test. A test body is a sequence of instruction records executed by the task
`main`. The instructions are:

- `Sleep(d)`: `Timer::new(d).await`.
- `DoIn`, `DoAt` and `Repeat`: the constructors. Each spawns the task `act`
  with the program `<<await deferred>> \o action` or the repeat loop.
- `Destroy`, `Join`, `RearmIn` and `RearmAt`. `Cancel` is `Destroy` followed
  by `Join`.
- `Later`: `Task::later().await`.
- `Spawn`: `Local::local(..).detach()` inside an action. It spawns `sub`.
- `Set` and `Inc`: writes to the shared cell.
- `Return`: the action's value.
- `Expect`: the `assert!`s.

There is one action per instruction kind (`ExecNew`, `ExecAwait`,
`ExecDoIn`, and so on). They use the `TimerInner` operators on the timer
states of the ids `main`, `act`, `sub` (each task's current sleep) and
`deferred` (the id registered by `do_in_into` or `repeat_into`).

- **The executor.** `RunNext` pops the FIFO queue. A cancelled task is
  dropped instead of run: its Timers are dropped and its joiner is woken.
  While a task runs, only its instruction steps happen, until it suspends
  (`ExecAwait` pending, `ExecJoin` not ready, `ExecLater`) or returns
  (`Finish`).
- **The reactor.** `ReactorFire(id)` fires any expired registration between
  runs, in any order. This is the model's one source of nondeterminism:
  timers expiring at the same instant reach the queue in either order.
- **The clock.** `Park` moves the clock to the earliest registered deadline,
  and only when the executor would park: nothing is queued and nothing has
  expired. Time is absolute milliseconds in `now`, for the elapsed-time
  assertions. A task run takes no time, as the tests' timing assertions
  assume.
- **The test's end.** Main returning passes the test. A failing assertion
  fails it. Either way the executor stops.

### Fairness

The following actions are weakly fair:

- the executor running a scheduled task (`RunTask`, `RunStart`, `RunStep`);
- the executor resuming a joiner whose handle resolved (`JoinReady`);
- the reactor firing expired registrations; it does so on every turn of the
  run loop;
- the clock advancing;
- the futures the action or the generator awaits completing;
- in `SelectTimer`, the woken task running (`RunTask`), but neither the
  other event nor the task's choice to reuse or drop a fired Timer;
- in `TimerTests`, `RunNext`, the running task's steps, every `ReactorFire(id)`
  and `Park`. These are the executor's run loop.

The caller is never assumed to act: it may stop at any time. Deadlock is not
checked (`CHECK_DEADLOCK FALSE`). When nothing is scheduled the real run loop
parks, and may park forever. Progress is stated by the liveness properties
instead.

## 3. Runs

| Run | Config | Expect | What it shows |
|---|---|---|---|
| `once_safety_liveness` | `DeferredOnce.cfg` on `MC_DeferredOnce` | pass | see below |
| `once_registered_iff_waker` | `DeferredOnceIff.cfg` | violation | see below |
| `repeat_safety_liveness` | `DeferredRepeat.cfg` on `MC_DeferredRepeat` | pass | see below |
| `repeat_generator_completion` | `DeferredRepeatGen.cfg` | violation | see below |
| `unit_tests` | `TimerTests.cfg` on `MC_TimerTests` | pass | see below |
| `select_timer` | `SelectTimer.cfg` on `MC_SelectTimer` | pass | see below |
| `instant_deadline` | `InstantDeadline.cfg` on `MC_InstantDeadline` | pass | see below |
| `instant_deadline_panic` | `InstantDeadlinePanic.cfg` | violation | see below |

**`once_safety_liveness`** checks these properties:

- `WaitingTaskIsWakeable`: a sleeping task always has a registration at
  exactly its deadline. This holds across rearms that come before the first
  poll, after the reactor fired, or after a destroy.
- `NoRegistrationOutlivesTimer`: the id is unregistered once the task is past
  its timer, and stays so whatever the caller rearms afterwards.
- `SpawnedTaskFinishes`: every spawned task eventually finishes.
- `ImplementsAbstract`: `DeferredOnce` refines `DeferredOnceAbstract`. The
  refinement mapping is `AbsStatus`: `pc` in `{Spawned, WaitTimer}` maps to
  Armed, `InAction` to Running, `Completed` to Done and `Dropped` to
  Cancelled. The JoinHandle's `closed` flag maps to the cancel request. The
  refinement shows four things:
  - the action never starts after a cancel taken while it was armed, even if
    the reactor had already fired and queued the task;
  - the action never completes after a cancel taken while it ran;
  - `join` returns `Some` exactly for a completed action;
  - an armed or running action ends, and a `join` or `cancel` in progress
    returns, under the abstract fairness (`WF` of its progress and of
    `JoinReady`).

**`once_registered_iff_waker`** checks the spec's §3 invariant "registered iff
wakeup is Some". The code breaks it in the state reached right after a
destroy, and also after the reactor fires. See the findings in
`PROJECT.json`.

**`repeat_safety_liveness`** checks these properties:

- `WaitingTaskIsWakeable`, across iterations on the reused id.
- `ImplementsAbstract`: `DeferredRepeat` refines `DeferredRepeatAbstract`.
  The refinement mapping is `AbsStatus`:
  - a live task (`Top`, `InGen`, `WaitTimer`) maps to Looping, `Completed`
    to Completed and `Dropped` to Cancelled;
  - `pc = "InGen"` maps to a generator call in progress;
  - `genCalls` maps to the calls started;
  - the JoinHandle's `closed` flag maps to the cancel request.

  The refinement shows that no generator call starts after a cancel reached
  the live loop, wherever the loop was suspended. It also shows that `join`
  yields `Some` exactly when the generator stopped the loop, and that a
  cancelled loop ends and its `join` returns. The abstract's "a live loop
  ends" holds only because `MaxGenCalls` makes the generator return `None`
  at last. The code's docs (l.493, l.549) say that `join` on a loop that
  never stops never returns, so the run makes no claim about uncancelled
  loops.

**`repeat_generator_completion`** checks the spec's §4.3 claim that "a
currently-executing generator invocation runs to completion" on destroy. The
code drops a generator that is suspended in its own await, so the claim
fails.

**`unit_tests`** runs all seventeen tests against the model of the code. It
checks these properties:

- `TestAssertionsHold`: every assertion of every test holds in every order in
  which the reactor fires timers that expire together. For example, in
  `basic_timer_action_destroy_cancel_initiated_action` main's 50 ms timer and
  the action's fourth 10 ms sleep expire at once, and the count after `join`
  is 4 or 5 depending on the order. Both values satisfy `> 1` and `!= 11`.
  The test's comment at l.830 ("it will run to completion") disagrees
  with its own assertion at l.842. The code and the model side with the
  assertion: the destroyed action stops at its next await.
- `EveryTestFinishes`: every test's main future completes. No `join`,
  `cancel` or sleep is left without the wakeup it needs.
- `TypeOK`.

The run reaches 582 states, and every action fires.

**`instant_deadline`** checks `DeadlineNotEarly` (436 states): a timer's
deadline is never before the instant its caller asked for. For `do_at` and
`rearm_at`, the deadline is the requested instant plus the time between the
two clock reads, so it drifts late and never early. A past instant, floored
to zero, lands at or after it. `TypeOK` bounds `when` by `MaxInstant`, so it
holds only because every overflowing sum takes the panic branch.

**`instant_deadline_panic`** checks spec §7's "nothing in steady-state
operation panics" (`NeverPanics`). Callers pass only short durations
(`MC_ShortDurs`) and representable instants. TLC still finds
`do_at(MaxInstant)` with one clock tick between the two reads: the
duration computed at the first read, added to the later clock, is no
longer representable, and the addition panics. Passing `Duration::MAX` to
`do_in`, `rearm_in`, `Timer::new` or `Timer::reset` panics with no tick at
all. In `Inner::reset` the registration has already been removed when the
panic happens (l.29).

**`select_timer`** checks a Timer used directly by its task (126 states):

- `WaitingTaskIsWakeable`: a waiting task that is not queued has a
  registration at exactly the Timer's deadline. This holds after resets that
  move the deadline either way, and after a reset made while the reactor had
  already fired and queued the task.
- `NoStaleRegistration`: a fired or dropped Timer leaves no registration
  that would later wake the task for nothing.
- `TimerCompletes`: a waiting task is eventually done with its Timer.
- `TypeOK`.

Each property of a passing run has a mutant in `PROJECT.json`, and the run
must catch it. The mutants are:

- `ResetInsertFirst` and `ResetNoReinsert` for `Inner::reset`;
- `DropKeepWaker`, which uses `as_ref` instead of `take`;
- `DestroyEffectsNoCancel` (repeat);
- `RunTimerIgnoresClosed`, which polls a cancelled task;
- `RunStartTimerOnly`;
- off-by-one and unguarded variants of the action and generator steps;
- in `TimerTests`: `ExecDestroyNoCancel`, which makes the destroyed action
  count to 11; `RunNextNoJoinWake`, which leaves `join` hanging;
  and `ExecAwaitLoopOffByOne`;
- in `SelectTimer`: `NewOffByOne`, `ResetInsertFirst`, `ResetNoReinsert`
  and `DropTakeOnly`, a `Drop` that takes the waker but never deregisters;
- in `InstantDeadline`: `SetWhenUnchecked`, an unchecked sum, and
  `DurationSinceShort`, a duration truncated one tick short.

### Bounds

- `MaxDelay = 2`. Durations of 0, 1 and 2 ticks give the zero-duration path,
  a timer that must wait, and a rearm to a strictly earlier or later
  deadline. `Instants = -1..MaxDelay` adds an instant in the past for
  `do_at` and `rearm_at`.
- `MaxActionAwaits = 2`. The action may complete without suspending, or
  suspend once or twice. This lets a cancel fall inside the action between two
  awaits, which is the situation of the test
  `basic_timer_action_destroy_cancel_initiated_action`.
- `MaxRearms = 2`. Two rearms give a rearm before and after a firing, and two
  rearms in a row. The bound keeps the caller from postponing the timer
  forever in the liveness checks.
- `MaxGenAwaits = 1`. The generator may suspend once.
- `TimerTests` takes its durations from the tests themselves: 1 to 100 ms,
  100 s ahead and 1 s in the past. No bound is needed, because the clock
  jumps from deadline to deadline and every test stops when main returns.
  `MaxDelay = 1` is only the other modules' type bound.
- `SelectTimer` uses `MaxDelay = 4` and `MaxResets = 4`. These bounds allow
  resets to earlier and later deadlines, to zero, and after a firing.
- `InstantDeadline` uses `MaxNow = 3` and `MaxInstant = 6`. Durations are 0,
  2 and 6, where 6 stands for a caller's "never". Instants are 0 (in the
  past once the clock has moved), 2 and 6, the latest representable. A tick
  can fall between the two reads, and both overflow paths occur.
- `MaxGenCalls = 4`. This allows three timer iterations on the reused id
  before the generator must return `None`. The generator is free to return
  `None` earlier.

## 4. Not modelled, and why

- **The reactor's data structures, the I/O loop and the executor's queues.**
  These are external; only their interface contracts from spec §6 are
  modelled.
- **Several timers at once.** Ids are independent in the reactor table, so one
  id per model loses no interaction.
- **Clock granularity and real durations.** The only guarantee the code gives
  is "no earlier than".
- **Time spent inside a task run.** The tests' `<= 10 ms` and `< 50 ms`
  assertions assume that runs are fast. The model shares that assumption and
  does not check it.

## 5. Plan

1. **Done (sitting 1).** `TimerInner`, `DeferredOnce`, `DeferredOnceAbstract`
   and `DeferredRepeat`,
   with the safety and liveness properties above and two spec divergences.
2. **Done (sitting 2).** `TimerTests`, covering all of `mod test`.
3. **Done (sitting 3).** `SelectTimer`: a standalone Timer reset by its own
   task.
4. **Done.** `DeferredOnceAbstract`, with `DeferredOnce` checked to refine
   it. **Done (sitting 3).** `DeferredRepeatAbstract`, with `DeferredRepeat`
   checked to refine it.
5. **Deregistration counting for the repeat loop. Not planned.** Spec §9
   says the id is "deregistered exactly once" and never both on stop and on
   destroy. Counted as `remove_timer` calls, this fails at once: every
   iteration's Ready poll calls it, and `destroy` calls it again. Counted as
   removals of a registration that exists, it cannot fail. Each
   registration is removed once, by the reactor firing it, by the Ready
   poll, by `destroy` or by `Drop`, because removal is idempotent. Neither
   count says anything about the code beyond what
   `WaitingTaskIsWakeable` and the refinement already check.
6. **Rearm after destroy. Covered.** `NoRegistrationOutlivesTimer` in
   `once_safety_liveness` covers it: a rearm between `destroy` and the
   executor dropping the task re-registers the id, and the Timer's `Drop`
   removes it when the task is dropped.
7. **Done (sitting 4).** `InstantDeadline`: `Instant` arithmetic on absolute
   time, with the overflow panic as a spec divergence.
