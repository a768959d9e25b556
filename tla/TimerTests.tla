----------------------------- MODULE TimerTests -----------------------------
(***************************************************************************)
(* The unit tests of src/scipio/src/timer.rs (mod test), each run as a     *)
(* program on one single-threaded executor together with the timer code    *)
(* they exercise.  A test body is a sequence of instructions executed by   *)
(* the task "main"; TimerActionOnce / TimerActionRepeat spawn the task     *)
(* "act" (the `async move { timer.await; action.await }` or the repeat    *)
(* loop), and Local::local(..).detach() inside an action spawns "sub".     *)
(*                                                                         *)
(* Timer ids: every task owns one id for the Timer::new(..).await it is   *)
(* currently sleeping on (a finished sleep drops its Timer, so the next   *)
(* one may reuse the model id), and "deferred" is the id registered by     *)
(* do_in_into / repeat_into, whose timer is awaited by "act".             *)
(*                                                                         *)
(* The executor is cooperative: RunNext takes the head of the FIFO run     *)
(* queue and the Exec actions then execute that task's instructions until *)
(* it suspends or finishes; nothing else happens while a task runs.  The  *)
(* reactor fires expired registrations between task runs, in any order,   *)
(* and the clock jumps to the next deadline only when the executor would  *)
(* park (nothing queued, nothing expired).  A task run takes no time.     *)
(* `now` is absolute milliseconds; the remaining time in each timer state *)
(* (TimerInner) shrinks as the clock advances.                             *)
(***************************************************************************)
EXTENDS TimerInner, Sequences, SequencesExt

CONSTANTS
  NoTask   (* model value: the executor is not running any task          *)

Tasks == {"main", "act", "sub"}
Ids == Tasks \cup {"deferred"}

\* The task whose waker a registration of the id holds.
Owner(id) == IF id = "deferred" THEN "act" ELSE id

-----------------------------------------------------------------------------
(* Instructions.  `arg` is a duration, a relative instant, a value or a    *)
(* generator kind; `body` is the program of a spawned task.                *)

I(op, arg) == [op |-> op, arg |-> arg, body |-> <<>>]
Mark == I("mark", 0)                 \* let now = Instant::now();
Sleep(d) == <<I("new", d), I("await", "own")>>   \* Timer::new(d).await;
Later == I("later", 0)               \* Task::<()>::later().await;
DoIn(d, body) == [op |-> "doIn", arg |-> d, body |-> body]
DoAt(instant, body) == [op |-> "doAt", arg |-> instant, body |-> body]
Repeat(kind) == I("repeat", kind)
Destroy == I("destroy", 0)
Join == I("join", 0)
Cancel == <<Destroy, Join>>          \* destroy(); join().await
RearmIn(d) == I("rearmIn", d)
RearmAt(instant) == I("rearmAt", instant)
Save == I("save", 0)                 \* let old_value = *exec2.borrow();
Expect(p, v) == [op |-> "expect", arg |-> v, body |-> p]
Set(v) == I("set", v)
Inc == I("inc", 0)
Return(v) == I("return", v)
Spawn(body) == [op |-> "spawn", arg |-> 0, body |-> body]

-----------------------------------------------------------------------------
(* The tests, in the order of the file.                                    *)

BasicTimerWorks ==
  <<Mark>> \o Sleep(100) \o <<Expect("elapsedGE", 100)>>

ActionInstantWorks ==
  <<DoAt(50, <<Set(1)>>)>> \o Sleep(100) \o <<Expect("execEq", 1)>>

ActionInstantPastWorks ==
  <<DoAt(-50, <<Set(1)>>), Later, Expect("execEq", 1)>>

ActionWorks ==
  <<DoIn(50, <<Set(1)>>)>> \o Sleep(100) \o <<Expect("execEq", 1)>>

RearmPendingForPast ==
  <<Mark, DoIn(50, Sleep(50) \o <<Return(1)>>)>> \o Sleep(60)
    \o <<RearmAt(-1000), Join, Expect("retEq", 1), Expect("elapsedGE", 100)>>

RearmExecutedAction ==
  <<DoIn(1, <<Return(1)>>)>> \o Sleep(10)
    \o <<RearmAt(100000), Mark, Join, Expect("retEq", 1),
         Expect("elapsedLE", 10)>>

RearmFutureTimer ==
  <<Mark, DoIn(10, <<Return(1)>>), RearmIn(100), Join,
    Expect("retEq", 1), Expect("elapsedGE", 100)>>

ActionReturn ==
  <<Mark, DoIn(50, <<Return(1)>>), Join, Expect("retEq", 1),
    Expect("elapsedGE", 50)>>

JoinReflectsCancel ==
  <<Mark, DoIn(50, <<Return(1)>>), Destroy, Join, Expect("retNone", 0),
    Expect("elapsedLT", 50)>>

ActionCancelWorks ==
  <<DoIn(50, <<Set(1)>>), Later>> \o Cancel \o Sleep(100)
    \o <<Expect("execEq", 0)>>

ActionDestroyWorks ==
  <<DoIn(50, <<Set(1)>>), Destroy>> \o Sleep(100)
    \o <<Expect("execEq", 0), Join>>

\* exec1 = 1, then ten times: sleep 10 ms and increment.
Counting == <<Set(1)>> \o FlattenSeq([i \in 1 .. 10 |-> Sleep(10) \o <<Inc>>])

DestroyCancelInitiated ==
  <<DoIn(10, Counting)>> \o Sleep(50)
    \o <<Destroy, Join, Expect("execGT", 1), Expect("execNe", 11)>>

DetachedSpawnSurvives ==
  <<DoIn(10, <<Spawn(Counting)>>)>> \o Sleep(50)
    \o <<Destroy, Join, Expect("execNe", 11)>> \o Sleep(100)
    \o <<Expect("execEq", 11)>>

CancelFailsIfFired ==
  <<DoIn(1, <<Set(1)>>)>> \o Sleep(10) \o Cancel \o Sleep(90)
    \o <<Expect("execEq", 1)>>

RepeatWorks ==
  <<Repeat("countTo10")>> \o Sleep(100)
    \o <<Expect("execEq", 10), Join, Expect("retSome", 0)>>

RepeatCancellation ==
  <<Repeat("incEvery10")>> \o Sleep(50) \o Cancel \o <<Save>> \o Sleep(50)
    \o <<Expect("execEqSaved", 0)>>

RepeatDestruction ==
  <<Repeat("every10"), Destroy, Join, Expect("retNone", 0)>>

Tests ==
  [basic_timer_works |-> BasicTimerWorks,
   basic_timer_action_instant_works |-> ActionInstantWorks,
   basic_timer_action_instant_past_works |-> ActionInstantPastWorks,
   basic_timer_action_works |-> ActionWorks,
   basic_timer_rearm_pending_timer_for_the_past_ok |-> RearmPendingForPast,
   basic_timer_rearm_executed_action_ok |-> RearmExecutedAction,
   basic_timer_rearm_future_timer_ok |-> RearmFutureTimer,
   basic_timer_action_return_ok |-> ActionReturn,
   basic_timer_action_join_reflects_cancel |-> JoinReflectsCancel,
   basic_timer_action_cancel_works |-> ActionCancelWorks,
   basic_timer_action_destroy_works |-> ActionDestroyWorks,
   basic_timer_action_destroy_cancel_initiated_action |-> DestroyCancelInitiated,
   basic_timer_action_destroy_detached_spawn_survives |-> DetachedSpawnSurvives,
   basic_timer_action_cancel_fails_if_fired |-> CancelFailsIfFired,
   basic_timer_action_repeat_works |-> RepeatWorks,
   basic_timer_action_repeat_cancellation_works |-> RepeatCancellation,
   basic_timer_action_repeat_destruction_works |-> RepeatDestruction]

-----------------------------------------------------------------------------
VARIABLES
  test,     (* the test being run                                         *)
  now,      (* Instant::now(), in milliseconds since the test started     *)
  ts,       (* [Ids -> timer state]: each Inner and its registration      *)
  runq,     (* the task queue: tasks scheduled to run, in FIFO order      *)
  running,  (* the task the executor is polling, or NoTask                *)
  tk,       (* [Tasks -> task]: its program, position, JoinHandle state   *)
  exec,     (* the shared cell exec1 / exec2                              *)
  loc,      (* main's locals: now (mark), join's result, old_value        *)
  verdict   (* "running", "passed" or "failed" (an assertion panicked)    *)

vars == <<test, now, ts, runq, running, tk, exec, loc, verdict>>

\* Option<T> of a join: None, or Some(val) with () as 0.
NoneVal == [some |-> FALSE, val |-> 0]
Some(v) == [some |-> TRUE, val |-> v]

Idle == [st |-> "none", ip |-> 1, prog |-> <<>>, closed |-> FALSE, out |-> NoneVal]

Spawned(prog) == [Idle EXCEPT !.st = "live", !.prog = prog]

Init ==
  /\ test \in DOMAIN Tests
  /\ now = 0
  /\ ts = [i \in Ids |-> NoTimer]
  /\ runq = <<"main">>
  /\ running = NoTask
  /\ tk = [t \in Tasks |-> IF t = "main" THEN Spawned(Tests[test]) ELSE Idle]
  /\ exec = 0
  /\ loc = [mark |-> 0, ret |-> NoneVal, saved |-> 0]
  /\ verdict = "running"

\* Waking a task's waker: a live task that is neither running nor already
\* scheduled is pushed to the back of its queue; otherwise nothing.
Wake(q, t) ==
  IF tk[t].st = "live" /\ t # running /\ t \notin Range(q)
    THEN Append(q, t) ELSE q

\* Main is suspended in `JoinHandle.await` on act.
MainJoining == tk.main.st = "live" /\ tk.main.ip <= Len(tk.main.prog)
               /\ tk.main.prog[tk.main.ip].op = "join"

\* A finished act wakes the task awaiting its JoinHandle.
WakeJoiner(q) == IF MainJoining THEN Wake(q, "main") ELSE q

-----------------------------------------------------------------------------
(* The executor.                                                           *)

\* Faulty executor: drops a cancelled task without waking its joiner.
RunNextNoJoinWake ==
  /\ verdict = "running" /\ running = NoTask /\ runq # <<>>
  /\ LET t == Head(runq) IN
       IF tk[t].closed
         THEN /\ tk' = [tk EXCEPT ![t].st = "done", ![t].out = NoneVal]
              /\ ts' = [i \in Ids |-> IF Owner(i) = t THEN Drop(ts[i]) ELSE ts[i]]
              /\ runq' = Tail(runq)
              /\ UNCHANGED running
         ELSE /\ running' = t
              /\ runq' = Tail(runq)
              /\ UNCHANGED <<tk, ts>>
  /\ UNCHANGED <<test, now, exec, loc, verdict>>

\* Pop the head of the queue.  A task whose JoinHandle was cancelled is not
\* polled: its future is dropped (every Timer it holds runs Drop), join()
\* then yields None and the awaiting task is woken.
RunNext ==
  /\ verdict = "running" /\ running = NoTask /\ runq # <<>>
  /\ LET t == Head(runq) IN
       IF tk[t].closed
         THEN /\ tk' = [tk EXCEPT ![t].st = "done", ![t].out = NoneVal]
              /\ ts' = [i \in Ids |-> IF Owner(i) = t THEN Drop(ts[i]) ELSE ts[i]]
              /\ runq' = WakeJoiner(Tail(runq))
              /\ UNCHANGED running
         ELSE /\ running' = t
              /\ runq' = Tail(runq)
              /\ UNCHANGED <<tk, ts>>
  /\ UNCHANGED <<test, now, exec, loc, verdict>>

\* The current instruction of the running task, and moving past it.
Cur == tk[running].prog[tk[running].ip]
Next1 == [tk EXCEPT ![running].ip = @ + 1]
Own == IF Cur.arg = "own" THEN running ELSE "deferred"

\* The running task's future returns: the task completes with its output
\* (() unless the action returned a value) and wakes its joiner; when
\* main returns, the test passes and the executor's run() returns.
Finish ==
  /\ running # NoTask
  /\ tk[running].ip > Len(tk[running].prog)
  /\ tk' = [tk EXCEPT ![running].st = "done",
                      ![running].out.some = TRUE]
  /\ runq' = IF running = "act" THEN WakeJoiner(runq) ELSE runq
  /\ verdict' = IF running = "main" THEN "passed" ELSE verdict
  /\ running' = NoTask
  /\ UNCHANGED <<test, now, ts, exec, loc>>

\* Every instruction step happens while a task runs and is one of these.
Exec(op) ==
  /\ running # NoTask
  /\ tk[running].ip <= Len(tk[running].prog)
  /\ Cur.op = op

\* let now = Instant::now();
ExecMark ==
  /\ Exec("mark")
  /\ loc' = [loc EXCEPT !.mark = now]
  /\ tk' = Next1
  /\ UNCHANGED <<test, now, ts, runq, running, exec, verdict>>

\* Timer::new(d): the running task's own id gets a fresh timer.
ExecNew ==
  /\ Exec("new")
  /\ ts' = [ts EXCEPT ![running] = New(Cur.arg)]
  /\ tk' = Next1
  /\ UNCHANGED <<test, now, runq, running, exec, loc, verdict>>

\* Faulty loop: jumps back to position 0 instead of the first statement.
ExecAwaitLoopOffByOne ==
  /\ Exec("await")
  /\ IF Expired(ts[Own])
       THEN /\ ts' = [ts EXCEPT ![Own] = Drop(PollReady(@))]
            /\ tk' = IF Cur.arg = "loop" THEN [tk EXCEPT ![running].ip = 0]
                                          ELSE Next1
            /\ UNCHANGED running
       ELSE /\ ts' = [ts EXCEPT ![Own] = PollPending(@)]
            /\ running' = NoTask
            /\ UNCHANGED tk
  /\ UNCHANGED <<test, now, runq, exec, loc, verdict>>

\* `.await` on a Timer (the task's own, act's deferred one, or the repeat
\* loop's Timer::from_id): Timer::poll.  Ready: the Timer is dropped at
\* the end of the statement and the task goes on (the loop goes back to
\* calling the generator).  Pending: the task suspends.
ExecAwait ==
  /\ Exec("await")
  /\ IF Expired(ts[Own])
       THEN /\ ts' = [ts EXCEPT ![Own] = Drop(PollReady(@))]
            /\ tk' = IF Cur.arg = "loop" THEN [tk EXCEPT ![running].ip = 1]
                                          ELSE Next1
            /\ UNCHANGED running
       ELSE /\ ts' = [ts EXCEPT ![Own] = PollPending(@)]
            /\ running' = NoTask
            /\ UNCHANGED tk
  /\ UNCHANGED <<test, now, runq, exec, loc, verdict>>

\* TimerActionOnce::do_in_into: register a timer id, Timer::from_id(id,
\* dur), spawn `async move { timer.await; action.await }` at the back of
\* the current queue.  The JoinHandle is detached into the handle.
SpawnOnce(dur) ==
  /\ ts' = [ts EXCEPT !.deferred = FromId(NoTimer, dur)]
  /\ tk' = [Next1 EXCEPT !.act = Spawned(<<I("await", "deferred")>> \o Cur.body)]
  /\ runq' = Append(runq, "act")
  /\ UNCHANGED <<test, now, running, exec, loc, verdict>>

ExecDoIn == Exec("doIn") /\ SpawnOnce(Cur.arg)

\* TimerActionOnce::do_at_into: the duration until the instant, floored.
ExecDoAt == Exec("doAt") /\ SpawnOnce(DurationUntil(Cur.arg))

\* TimerActionRepeat::repeat_into: register a timer id (no Timer yet) and
\* spawn the loop `action_gen().await`, then Timer::from_id(id, period).
ExecRepeat ==
  /\ Exec("repeat")
  /\ ts' = [ts EXCEPT !.deferred = NoTimer]
  /\ tk' = [Next1 EXCEPT !.act = Spawned(<<I("gen", Cur.arg), I("await", "loop")>>)]
  /\ runq' = Append(runq, "act")
  /\ UNCHANGED <<test, now, running, exec, loc, verdict>>

\* The tests' generators: count to ten every 5 ms, count every 10 ms
\* forever, and do nothing every 10 ms.  The value is the period, or
\* NoneVal for None.
GenExec(kind) == IF kind = "every10" THEN exec ELSE exec + 1
GenPeriod(kind) ==
  CASE kind = "countTo10" -> IF exec + 1 = 10 THEN NoneVal ELSE Some(5)
    [] kind = "incEvery10" -> Some(10)
    [] kind = "every10" -> Some(10)

\* One loop iteration's `action_gen().await`: Some(period) builds the
\* Timer::from_id for the reused id, None breaks out of the loop.
ExecGen ==
  /\ Exec("gen")
  /\ exec' = GenExec(Cur.arg)
  /\ IF ~GenPeriod(Cur.arg).some
       THEN /\ tk' = [tk EXCEPT ![running].ip = Len(tk[running].prog) + 1]
            /\ UNCHANGED ts
       ELSE /\ ts' = [ts EXCEPT !.deferred = FromId(@, GenPeriod(Cur.arg).val)]
            /\ tk' = Next1
  /\ UNCHANGED <<test, now, runq, running, loc, verdict>>

\* Faulty destroy: removes the registration but never cancels the task.
ExecDestroyNoCancel ==
  /\ Exec("destroy")
  /\ ts' = [ts EXCEPT !.deferred = RemoveTimer(@)]
  /\ tk' = Next1
  /\ UNCHANGED <<test, now, runq, running, exec, loc, verdict>>

\* destroy(): Reactor::remove_timer(id), then JoinHandle::cancel: a live
\* task not yet closed is closed and scheduled (the executor drops it).
ExecDestroy ==
  /\ Exec("destroy")
  /\ ts' = [ts EXCEPT !.deferred = RemoveTimer(@)]
  /\ IF tk.act.st = "live" /\ ~tk.act.closed
       THEN /\ tk' = [Next1 EXCEPT !.act.closed = TRUE]
            /\ runq' = Wake(runq, "act")
       ELSE /\ tk' = Next1
            /\ UNCHANGED runq
  /\ UNCHANGED <<test, now, running, exec, loc, verdict>>

\* join().await: the JoinHandle's output once act finished (None if it
\* was dropped), else suspend until act finishing wakes main.
ExecJoin ==
  /\ Exec("join")
  /\ IF tk.act.st = "done"
       THEN /\ loc' = [loc EXCEPT !.ret = tk.act.out]
            /\ tk' = Next1
            /\ UNCHANGED running
       ELSE /\ running' = NoTask
            /\ UNCHANGED <<tk, loc>>
  /\ UNCHANGED <<test, now, ts, runq, exec, verdict>>

\* rearm_in(dur) and rearm_at(when): Inner::reset on the shared Inner.
ExecRearmIn ==
  /\ Exec("rearmIn")
  /\ ts' = [ts EXCEPT !.deferred = Reset(@, Cur.arg)]
  /\ tk' = Next1
  /\ UNCHANGED <<test, now, runq, running, exec, loc, verdict>>

ExecRearmAt ==
  /\ Exec("rearmAt")
  /\ ts' = [ts EXCEPT !.deferred = Reset(@, DurationUntil(Cur.arg))]
  /\ tk' = Next1
  /\ UNCHANGED <<test, now, runq, running, exec, loc, verdict>>

\* Task::<()>::later().await: the task wakes itself and yields, so it runs
\* again after everything already in the queue.
ExecLater ==
  /\ Exec("later")
  /\ runq' = Append(runq, running)
  /\ tk' = Next1
  /\ running' = NoTask
  /\ UNCHANGED <<test, now, ts, exec, loc, verdict>>

\* let old_value = *(exec2.borrow());
ExecSave ==
  /\ Exec("save")
  /\ loc' = [loc EXCEPT !.saved = exec]
  /\ tk' = Next1
  /\ UNCHANGED <<test, now, ts, runq, running, exec, verdict>>

\* The assert! / assert_eq! / assert_ne! of the tests.
Holds(p, v) ==
  CASE p = "elapsedGE" -> now - loc.mark >= v
    [] p = "elapsedLE" -> now - loc.mark <= v
    [] p = "elapsedLT" -> now - loc.mark < v
    [] p = "execEq" -> exec = v
    [] p = "execNe" -> exec # v
    [] p = "execGT" -> exec > v
    [] p = "execEqSaved" -> exec = loc.saved
    [] p = "retEq" -> loc.ret = Some(v)
    [] p = "retNone" -> ~loc.ret.some
    [] p = "retSome" -> loc.ret.some

\* A failing assertion panics: the test fails and the executor stops.
ExecExpect ==
  /\ Exec("expect")
  /\ IF Holds(Cur.body, Cur.arg)
       THEN tk' = Next1 /\ UNCHANGED <<running, verdict>>
       ELSE verdict' = "failed" /\ running' = NoTask /\ UNCHANGED tk
  /\ UNCHANGED <<test, now, ts, runq, exec, loc>>

\* The actions' bodies: `*exec1 = v`, `*exec1 += 1`, returning a value.
ExecSet ==
  /\ Exec("set")
  /\ exec' = Cur.arg
  /\ tk' = Next1
  /\ UNCHANGED <<test, now, ts, runq, running, loc, verdict>>

ExecInc ==
  /\ Exec("inc")
  /\ exec' = exec + 1
  /\ tk' = Next1
  /\ UNCHANGED <<test, now, ts, runq, running, loc, verdict>>

ExecReturn ==
  /\ Exec("return")
  /\ tk' = [Next1 EXCEPT ![running].out = Some(Cur.arg)]
  /\ UNCHANGED <<test, now, ts, runq, running, exec, loc, verdict>>

\* Local::local(fut).detach(): sub is spawned at the back of the queue and
\* outlives whatever happens to the task that spawned it.
ExecSpawn ==
  /\ Exec("spawn")
  /\ tk' = [Next1 EXCEPT !.sub = Spawned(Cur.body)]
  /\ runq' = Append(runq, "sub")
  /\ UNCHANGED <<test, now, ts, running, exec, loc, verdict>>

-----------------------------------------------------------------------------
(* The reactor and the clock, between task runs.                           *)

\* An expired registration is removed and its waker woken.
ReactorFire(id) ==
  /\ verdict = "running" /\ running = NoTask
  /\ CanFire(ts[id])
  /\ ts' = [ts EXCEPT ![id] = Fire(@)]
  /\ runq' = Wake(runq, Owner(id))
  /\ UNCHANGED <<test, now, running, tk, exec, loc, verdict>>

Registered == {i \in Ids : ts[i].reg # NoReg}

\* Time passing by k milliseconds.
Elapse(s, k) ==
  [s EXCEPT !.when = IF @ > k THEN @ - k ELSE 0,
            !.reg = IF @ = NoReg THEN NoReg ELSE @ - k]

\* The executor parks with nothing to run and nothing expired; it wakes at
\* the earliest registered deadline.
Park ==
  /\ verdict = "running" /\ running = NoTask /\ runq = <<>>
  /\ Registered # {}
  /\ \A i \in Registered : ts[i].reg > 0
  /\ LET k == Min({ts[i].reg : i \in Registered}) IN
       /\ ts' = [i \in Ids |-> Elapse(ts[i], k)]
       /\ now' = now + k
  /\ UNCHANGED <<test, runq, running, tk, exec, loc, verdict>>

TaskStep ==
  \/ Finish \/ ExecMark \/ ExecNew \/ ExecAwait \/ ExecDoIn \/ ExecDoAt
  \/ ExecRepeat \/ ExecGen \/ ExecDestroy \/ ExecJoin \/ ExecRearmIn
  \/ ExecRearmAt \/ ExecLater \/ ExecSave \/ ExecExpect \/ ExecSet
  \/ ExecInc \/ ExecReturn \/ ExecSpawn

Next == RunNext \/ TaskStep \/ (\E id \in Ids : ReactorFire(id)) \/ Park

\* The executor keeps polling, the reactor keeps firing expired timers and
\* the parked executor wakes at the next deadline.
Spec ==
  /\ Init /\ [][Next]_vars
  /\ WF_vars(RunNext) /\ WF_vars(TaskStep) /\ WF_vars(Park)
  /\ \A id \in Ids : WF_vars(ReactorFire(id))

-----------------------------------------------------------------------------
TypeOK ==
  /\ test \in DOMAIN Tests
  /\ now \in Nat
  /\ runq \in Seq(Tasks)
  /\ running \in Tasks \cup {NoTask}
  /\ \A t \in Tasks : tk[t].ip \in 1 .. Len(tk[t].prog) + 1
  /\ exec \in 0 .. 11
  /\ verdict \in {"running", "passed", "failed"}

\* Every assertion of every test holds, whichever order the reactor fires
\* timers that expire together in and however its firing interleaves with
\* the executor's runs.
TestAssertionsHold == verdict # "failed"

\* Every test's main future completes: no join(), cancel() or sleep is
\* left waiting for a wakeup that never comes.
EveryTestFinishes == <>(verdict # "running")
=============================================================================
