# A TLA+ model of the Tessera runtime

Tessera is a small language with threads. A program is lexed, parsed, type
checked, linted and then run by a tree-walking interpreter. The interpreter is
asynchronous: every Tessera thread, and every handler a thread executes, is a task
of one tokio `LocalSet` on one OS thread. Concurrency is therefore cooperative:
tasks interleave only at suspension points, but there they interleave freely, and
every rule of the language about threads ("one handler at a time", "no handler
inside `#exclusive`", "terminate resolves when the thread has ended") is a rule
about what may happen at those points. That is what this project models.

## Inventory

| part | crate | state | operations | status |
|---|---|---|---|---|
| thread event loop | tessera-interp `event_loop.rs` | where the task is, `exclusive` and `handler_busy` as read at the top of an iteration, deferred terminate, first teardown error | setup, hooks, the four branches of the biased select, fourteen exits, handler tasks | `ThreadLoop` |
| thread state, handles | tessera-runtime `thread_state.rs` | status, handler channel, the watches `exclusive_mode` and `handler_in_flight`, terminate oneshot, owned primitives | `dispatch_handler`, `terminate`, `set_status`, `set_exclusive`, `register_owned` | `ThreadLoop`, `ThreadLifecycle` |
| signal, contract, permit | tessera-runtime `signal.rs` | raised / pending / permits, broken reason, waiters, ownership claim | raise, reset, fulfill, release, wait, break | `Signal`, `Contract`, `Permit`, `SyncPrimitive` |
| locked value | tessera-runtime `locked.rs` | value, owner, a `Notify` | lock, tryLock, unlock, get, set, isLocked | `Locked`, `SharedData` |
| bounded queue | tessera-runtime `queue.rs` | elements, closed, two events of async_channel | push, enqueue, tryPop, dequeue, waitForNonEmpty, close | `Queue`, `SharedData` |
| futures | tessera-runtime `future.rs` | receiver or cached outcome, behind a Mutex | resolve, isDone | `Futures`, `SharedData` |
| values, built-in methods | tessera-runtime `value.rs`, tessera-interp `eval/builtin.rs` | lists, maps and objects shared by reference | operators, constructors, methods | `Values`, `Builtins`, without doubles, chars and most of strings |
| interpreter | tessera-interp `eval.rs`, `env.rs` | environment stack, frames, backtrace, current thread | expressions, statements, scope blocks, `try`, async functions, spawn, handlers | `Eval`, `Exec`, `Spawn` |
| type checker | tessera-types | type environment | registration, annotations, expressions, statements, the method table | `TypeChecker` |
| lints | tessera-lint (32 passes) | what a visitor keeps while it walks | flow checks, nesting depth, naming | `Lints` |
| syntax tree | tessera-ast | none | constructors, the walk | `Syntax`, `Lints` |
| command line | tessera-cli | none | check, lint, run | the pipeline, in `Tessera` |
| lexer, parser, stdin, editor | tessera-lexer, -parser, `stdio.rs`, editors/vscode | position in the text | text processing, I/O | not modelled |

How they interact. A *handle* is a shared `ThreadState`. Its holders call
`dispatch_handler`, which checks the status, sends a request on a channel of 64
slots (and may block there) and awaits an answer; the thread's event loop takes
requests one at a time and spawns a handler task for each, which is *not* tied to
the life of the loop. `terminate()` fires a oneshot that the loop's select looks at
first; the future it returns resolves when the thread has ended. Body and handlers
enter and leave `#exclusive` blocks, which set a watch that the loop and waiting
handler tasks read. A thread that exposes a signal, contract or permit becomes its
owner if nobody was before; when the owner ends, or a scope block that defines the
primitive is left, the primitive is *broken* and all waits on it fail with the reason.

What is hard: values read before a suspension and used after it (`handler_busy`,
`exclusive`, the status in `dispatch_handler`); requests that arrive while the queue
is being drained; fourteen hand-written exits that must agree; handler tasks that
outlive their thread; wakeups and grants handed to a task that is overtaken or dropped
before it runs; the first of several breaks; Rust panics, which skip all the cleanup;
one environment stack and one frame stack that a body and its handlers push and pop
around their suspensions, with `?` returning early from the middle; two tables of
methods, the checker's and the interpreter's, and lints that foretell its control flow.
`PROJECT.json` lists each of these hazards with its line and the properties about it.

## Modules

| module | models | uses |
|---|---|---|
| `ThreadLoop` | one thread: its `ThreadState`, `run_thread_task`, its handler tasks, and the tasks that dispatch to it and terminate it | |
| `ThreadLifecycle` | abstract: what a handle promises about status, outcome and answers | |
| `ThreadLoopProofs` | theorems about `ThreadLoop` | `ThreadLoop` |
| `SyncBase` | constants, reasons and wait states common to the primitives | |
| `WaitQueue`, `Notify` | tokio's list of parked tasks and `tokio::sync::Notify`, as `signal.rs` uses them (external code) | |
| `Signal`, `Contract`, `Permit` | one primitive each, with the waits on it | `SyncBase`, `Notify` / `WaitQueue` |
| `SyncPrimitive` | composition: a primitive of any kind, its waits, the threads that expose it, a scope block | the three, by `INSTANCE` |
| `NotifyProofs`, `PermitProofs`, `SyncPrimitiveProofs` | theorems, bottom up | |
| `DataBase`, `Event` | constants and task states of the shared data; the events of async_channel (external code) | |
| `Locked`, `Queue`, `Futures` | one shared object each, with the tasks that call it | `DataBase`, `Notify` / `Event` / `WaitQueue` |
| `SharedData` | composition: an object of any kind, tasks of several threads, `terminate()` | the three, by `INSTANCE` |
| `QueueProofs`, `SharedDataProofs` | theorems about the queue; about the composition, with those about `Locked` and `Futures` | `NotifyProofs` |
| `Syntax` | the syntax tree | |
| `Values`, `Builtins` | runtime values; operators and methods that do not wait, as functions of values and heap | `Syntax` |
| `Eval`, `Exec`, `Spawn` | the interpreter: expressions and calls; statements and scope blocks; threads, handlers, the executor | `Builtins`, in this order |
| `Interp` | the interpreter's runs of any program, and its own invariants | `Spawn` |
| `InterpProofs`, `FirstProofs` | theorems about `Interp` | `Interp` |
| `TypeChecker`, `Lints` | the type checker; the lint passes | `Syntax` |
| `Tessera` | composition: a source program is checked, linted and run | `Interp`, `Lints` |
| `MCThreadLoop`, `MCSyncPrimitive`, `MCSharedData`, `MCTessera` | the roots of the TLC runs | |

`Mut_X` beside a definition `X` is the same definition with a plausible bug in it.
Every property of a passing run is violated by at least one of them; no
specification uses them.

### ThreadLoop

A step is what one task does between two suspension points. The variables are the
fields of `ThreadState` (`status`, `exclusive_mode`, `handler_in_flight`, `prim`), the
channels (`queue`, `call`, `future`, `terminate_signal`, `terminate_future`), the
locals of `run_thread_task` that survive a suspension (`pc`, `saw`,
`terminate_during_exclusive`, `first_err`, `hf_changed`) and the state of the handler
tasks (`task`, `depth`). Actions are named after what they stand for:

* `InitFields`, `OnEnter`, `OnExit`, `OnTerminate`, `TeardownExit`: the hooks, with the
  status, drain and outcome each of their exits produces (`Finish` is the common tail);
* `ReceiveTerminate`, the body actions, `AcceptHandler`, `WakeOnHandlerChange`: the
  branches of the `biased` select. The bias is in the guards: `BodyRuns` requires that
  the terminate branch was not ready. `saw` holds the values read at the top of the
  iteration, and the guards of the branches use `saw`, not the watches;
* `HandlerBegins` .. `HandlerPanics`: the spawned handler task;
* `dispatch_handler`, `SendResumes`, `dispatch_ping`, `terminate`: the callers.
  A ping is answered from the status and needs no request.

Two constants select behaviour. `MayPanic`: user code may reach an operation on which
Rust panics (`i32::MIN / -1`, or `-x` of `i32::MIN`; only a zero divisor is tested).
`KeepsReceiver`: whether `ThreadState::new` keeps a receiver of `exclusive_mode`. The
code has `watch::channel(false).0`, so it is FALSE, and then `watch::Sender::send`
stores nothing: `set_exclusive` has no effect at all. With it FALSE the branches for a
deferred terminate and for handlers that wait for the block to end are dead code. No run
reaches them, as the program does not; the theorems cover them, since they are proved for
both values.

### Signal, Contract, Permit, SyncPrimitive

`wait()` takes its `notified()` future, looks at the state and awaits without
suspending in between, so one turn of its loop is one step (`Turn`): a call (`wait`),
or a poll of a task that was woken (`Resume`). `changed` is the `Notify`: the queue of
parked tasks, those woken by `notify_one` and those woken by `notify_waiters` but not
polled yet, and the stored permit. `Drop` is a body abandoned by `terminate()` while it
waits; tokio passes a notification of `notify_one` that was not consumed to the next
task, and so does `Forsake`. In `Permit`, tokio's semaphore hands a permit to a task
when it is released (`granted`), and that task looks at the closed bit first when it
runs (`ResumeClosed`). `broken` is the reason. `SyncPrimitive` has one primitive whose
`kind` is chosen initially; `Expose` is the ownership claim of `maybe_sync_expose`,
`EndThread` the final `set_status`, `LeaveScope` the end of `exec_scope_block`, and
`AbandonScope` a scope block dropped with its body, which breaks nothing.

Not in the model because they change nothing: `isRaised`, `isPending`, `count`, `isOk`,
`isErr`, the expose maps (data only), names, messages and source locations.

### Locked, Queue, Futures, SharedData

As in the primitives, what a call does up to its await is one step, and so is a poll of
a task that was woken. A lock belongs to a *thread* (top-level code is thread 0): a
second `lock` by any of its tasks fails, and `get` and `set` wait for whoever holds it,
the caller included. `released` is the `Notify`. `notified()` is called after the guard of
the value is released; that the check and the parking are one step all the same is due to
the `LocalSet`, which runs no other task in between. `Queue` is async_channel with its two
events, `room` for senders and `work` for receivers: a notification goes to the oldest
listener, and is passed on if that listener is dropped. `enqueue`, `dequeue` and
`waitForNonEmpty` loop; the last one yields, which is `call[t] = "wait"`. In `Futures`
the tokio Mutex is held *across* the await of a receiver that was taken out of the
state, so `guard` is its queue, and a resolver that is dropped while it awaits leaves
`Taken` behind: the next one panics ("polled twice"). `Drop` is a body abandoned by
`terminate()` in any of these waits. A thread that ends keeps its locks.

### Syntax to Tessera: the language

The interpreter is recursive and may suspend in the middle of an expression, so it is
written as an abstract machine. A *task* is a mode (what it does next: evaluate a node,
apply an operator to operands, carry a value, an error or a Rust panic, wait) and a
continuation, whose items are the calls of `eval_expr`, `exec_stmt`, `exec_block` and so
on that it is in. One task has the executor (`running`) until it must wait; then any
task that can go on may be next (`Resume`, `Poll`, `DispatchHandler`). `interps` holds
the `InterpState`s: a body and its handlers share one, with its environment and its
frames; an async function runs on a copy with an environment of its own. Lists, maps,
objects, signals and futures are cells of `heap`. Two histories serve the properties and
steer nothing: `log`, what each scope block has done (entered, exited, broken), and
`raised`, the first error of a task since the last one it caught, with the frames at
that moment. A built-in function hides one of the program that has its name.

`Interp` is this machine on any program out of a set, checked or not: the interpreter is
also a library, and what it promises of its own bookkeeping must not depend on the
checker. Its invariants are these. `StackDiscipline`: a body and its handlers push and pop
two shared stacks around their waits, and at every moment these are as high as the calls
that are in progress have made them; an error may leave scopes behind (eval.rs:358, 403,
829), so then there may be too many, never too few. `ExitHooks`: a scope block that was
entered runs its exit hook and then breaks what it holds, once each and in that order,
however it is left. `AnswerOwed`: whoever waits for an answer waits for somebody who can
still give one. `OneOwner`: a signal that several threads expose is broken by the end of
the first of them only. `TracebackComplete`: a program that fails and has caught nothing
reports its first error and a traceback that contains the whole chain of calls there; it
may be longer, since the backtrace is set once per task and a call that fails in an exit
hook, deeper down, may be the first to set it (eval.rs:440-455, 783).

`TypeChecker` is a recursive walk that yields a type, the errors it reports and its
*holes*: places where what it accepts is not what the interpreter does (see below).
`Lints` sees a pass as a question about *sites*, a node with the visitor's state at it.
`Tessera` composes them as `main.rs` does: errors of the checker or of a lint stop the
program, warnings do not, then it runs; of `Interp`'s machine each of its steps is a step or
a stutter. Its own properties are about what the parts promise each other: what is well
typed does not go wrong (`TypesPreserved`), what the flow lints say of returns and breaks
is what happens (`LintsSound`), and an assertion that is reported as always true or always
false comes out so, whether it is applied or fails on the way (`VerdictsHold`, except where
strings are ordered; `NoFalsePositives` without the exception does not hold). The order of
the strings is a constant, `Rank`.

In the machine, a thread's loop takes requests one at a time and its end drains them;
the order of events inside the loop, `terminate()` and channels that fill up are
`ThreadLoop`'s, contracts and permits are `SyncPrimitive`'s, locks, queues and `isDone`
are `SharedData`'s. Handlers are suspended wherever the code suspends.

Places where what the checker or a reader expects is not what the interpreter does.
Those that can make an accepted program fail are holes of `TypeChecker`; the others are
in `Eval`, `Exec` and `Lints` as they are in the code:

* a spawned body is checked in its spawner's scopes but runs in a fresh environment
  (stmts.rs:157); an unknown function is no error of the checker; the bare name of a
  field is accepted in a scope block and unbound when it runs;
* `index` and `set` with operands of the wrong type are ignored (builtin.rs); a handler
  with the name of a built-in method gets that method's type (exprs.rs:153);
* `self` in a scope block inside a thread is the thread's object (eval.rs:534-536), and
  a local variable with the name of an exposed field overwrites what handles show
  (eval.rs:1016); initialisers of exposed fields are ignored (event_loop.rs:66);
* `-x` of MIN and `MIN / -1` overflow: a Rust panic; a primitive stored after the enter
  hook of a scope block is not broken at its end;
* a caught error leaves the scopes it came through behind, the callee's parameters
  included, and the first backtrace (eval.rs:783) is kept for later failures;
* `continue` does nothing (eval.rs:330);
* half of the lint passes never visit free functions (visitor.rs:21), and
  `visit_type_expr` is never called; the pass that folds assertions orders strings, which
  the checker gives no type and the interpreter no rule.

## Runs

| run | question | bounds |
|---|---|---|
| `ThreadLoopSafety` | do all exits keep dispatchers, futures, primitives and the status in agreement, and does the thread implement `ThreadLifecycle`? | 3 calls, 2 slots, 1 primitive, nesting 1, panics |
| `ThreadLoopLive` | does every dispatcher get an answer and does `terminate()` resolve, though the body may never return? | 3 calls, 1 slot, no panics |
| `ThreadLoopExclusive` | violated: a handler dispatched before an `#exclusive` block does not begin inside it | 2 calls |
| `ThreadLoopGate` | violated: the handler gate is only held by a live handler | 2 calls, panics |
| `ThreadLoopPrims` | violated: the primitives of an ended thread are broken | 2 calls, 1 primitive |
| `SyncPrimitive` | is no wakeup, notification or permit lost, and does every waiter learn the true reason? | 3 waits, 2 threads, 1 initial and 2 released permits |
| `ContractOrder` | violated: waiters of a contract are served in order | 2 waits |
| `PermitGrant` | violated: a wait that has succeeded is not reverted by a break | 2 waits |
| `SharedData` | is no wakeup and no element lost, do all resolvers get one outcome, and does nobody wait for ever on what is closed or ended? | 4 tasks of 2 threads, capacity 1 |
| `Language` | do checker, lints and interpreter keep their promises, on every path and in every interleaving? | 1534 programs, ints of 4 bits |
| `HandlerScope` | violated: a handler finds its own names and no others | 2 programs |
| `AssertVerdicts` | violated: what is reported of an assertion is never wrong | 304 programs |

Why the bounds suffice. Three calls are the smallest number with one handler running,
one request queued and one dispatcher blocked on a full channel of one slot; with two
slots the same three give a drain of more than one request. One primitive is enough
because no operation on a primitive reads another. Three waits give a woken task, one parked behind it and
one that overtakes; two threads give a claim that wins and one that loses; two released
permits give `release(2)` with fewer and with more tasks waiting.
Calls are interchangeable, so `ThreadLoopSafety` uses symmetry; the runs with
liveness properties do not.
Four tasks give two of one thread that share a lock, and one of another thread waiting
with one that is abandoned; for the queue, a sender and a receiver blocked while another
of each overtakes; capacity 1 is full after one push. Capacity 0, unbounded, never blocks.

The programs of `Language` are nine families. `Operators`: every operator on every pair
of kinds of operand, with the boundary values of a 4-bit int (7 + 1 wraps; the minimum is
computed, since the parser rejects literals beyond the largest int, parser.rs:793-804). `Calls`: every method on every kind of receiver with good and bad
arguments. `Control`: 21 function bodies (loops that run zero times, break, return in a
branch, errors in a condition, shadowing) under callers that do and do not catch, and
functions with the names of built-in ones.
`Assertions`: every comparison of every pair of six constants, some of which have no order
or are of different types, and the logical operators on comparisons, failing ones and a
variable.
`Scopes`: hooks that succeed and fail around bodies that leave in every way.
`OnThreads`: handlers that sleep, fail and panic, under bodies that end, wait or stay.
`Signalled`: exposed signals that are raised, waited for and broken. `Shared`: one signal
that two threads expose, of which either may end first. `Asynchronous`:
async functions awaited once, twice or never. Four bits are enough because only the ends
of the range behave differently; nothing in the interpreter depends on the width
otherwise.

Deadlock is not checked in any run: a thread or a program stops when it has ended, a
program may leave a primitive alone for ever, and tasks of a program may await each other.

Fairness. tokio polls every task that was woken, hence weak fairness on the steps of the
loop and of handler tasks, and on `Poll` of the primitives and of the shared data. `SF`
on `SendResumes`: the semaphore of the channel is first-in first-out, so a blocked
sender that gets a slot again and again gets through. `SF` on `HandlerReturns` together
with `WF` on leaving `#exclusive` says that hooks and handlers are assumed to return;
without that assumption no call need be answered. Nothing is assumed of the body, which
may loop or sleep for ever, nor of callers, who need not call, raise or release, close a
queue or end a task. The language is checked for safety only: programs may loop.

### What the violated runs show

* **`#exclusive` excludes nobody** (`ThreadLoopExclusive`). `exclusive_mode` has no
  receiver, so `send(true)` is lost. `ExclusiveNeedsReceiver` is the invariant behind
  it, and `FlagNeverRaised` its proof for all parameters. `send_replace` would store it.
* **A panicking handler blocks the thread** (`ThreadLoopGate`). The gate is released by
  plain code after the handler body, so unwinding skips it.
* **Late exposure** (`ThreadLoopPrims`). A handler task that outlives its thread can
  register a primitive that nobody will break.
* **A contract is not first-in first-out** (`ContractOrder`). Only waking is; the
  notification goes to whoever runs first, and the woken task parks again at the end.
* **A granted permit is taken back** (`PermitGrant`) when the owner ends between the
  release and the waiter's next poll.
* **Handler and body share their scopes** (`HandlerScope`). `exec_handler_body` pushes on
  the environment stack the suspended body uses. The handler sees the body's local
  variables; and when the body leaves a block first, it pops the *handler's* scope, and
  the handler's own parameter is undefined. `TypesPreserved` therefore leaves out
  failures where a body goes on while a handler of its thread is there.
* **A redundant assertion that fails** (`AssertVerdicts`). `assert("a" < "b")` passes the
  checker, is reported as always true, and fails with a TypeMismatch: the pass orders
  strings and chars, `eval_binop` only ints and doubles. `VerdictsHold` is the rest.

Three further observations are part of the models and no run of their own. The comment at
signal.rs:86-87 says that waits on a broken signal fail immediately; the code, and its
tests, let a signal that was raised before it broke succeed, and `Turn` follows the
code. A `raise()` followed by `reset()` before a woken waiter is polled leaves that
waiter parked: nothing documents a pulse, and `NoWaiterMissed` speaks of a signal that
is still raised. `try` drops an error and keeps its backtrace, which the next failure does
not replace (eval.rs:783, 975-983): a program that recovers from a failure in `f` and then
fails in `g` prints a traceback that names `f`, and `TracebackComplete` therefore leaves out
programs that caught something.

## Proofs

tlapm checks the theorems for every value of the constants. The assumptions, all named
in the modules that declare the constants, are: the body is no call; a channel has at
least one slot; the two switches are Boolean (`BodyAssumption`, `BoundAssumption`,
`FlagAssumption`); finitely many waits, natural numbers of permits (`SyncAssumption`);
`"none"` names no thread (`ThreadAssumption`); and for the shared data, finitely many
tasks, none of which is one of the labels that `call` holds beside task identities, since
a delivered element is named after the task that sent it (`TaskAssumption`). An integer
has at least one bit (`BitsAssumption`); of `Programs` nothing is assumed. (The order of
strings, `RankAssumption`, concerns the lints, of which nothing is proved.)

`ThreadLoopProofs`, with one step per action in each inductive lemma:

* `TypeCorrect`: one lemma per group of actions (`TypeHook`, `TypeSelect`, ...).
* `HandlerExclusion` (R-HANDLER-2). `OneHandlerAtATime` is not inductive, because
  `AcceptHandler` tests `saw.busy`, a copy of the gate. `GateInv` adds that while the
  loop runs, either of copy and gate being free means that no handler task is alive. The
  gate is only freed by the one live handler, and a copy is refreshed after each change.
* `OutcomeAgreement`, `BrokenReasonAgreement`: `EndInv`. Every step that makes the
  status final sets the outcome and the reasons with it, and no step follows.
* `FlagNeverRaised`: `FlagInv`. Waiting handlers are the only receivers that could come
  to exist, and a handler waits only while the flag is raised.
* `RequestsAnswered`, `FuturesFollowTasks`: `CallsInv`. A dispatcher that has no answer
  has no handler task and no future either, so an accepted request cannot be one that ran
  already; and finitely many senders are blocked, so that a drain, which lets them through
  one after the other, ends. `DrainCalls` says what a drain does to all of them at once.
* `DeferredTerminates` (R-EXCL-3): `DeferInv`, which adds that a thread in its setup or
  enter hook is still Running. No run checks it: the branches it is about are dead in the
  code as it is, and the proof covers both values of `KeepsReceiver`. `LifecycleKept` uses it.
* `GateReleased`: `HeldInv`, under the hypothesis `~MayPanic`. The hypothesis cannot be
  dropped: `ThreadLoopGate` is the counterexample without it.
* `LifecycleKept`: the refinement. `Init` implies the abstract `Init`, and `LifeStep`
  maps every action to a step of `ThreadLifecycle` or a stutter, from `LifeInv` = types,
  `CallsInv`, `EndInv` and `DeferInv`. The answers are the hard part, as one drain answers
  several calls (`AnswersFacts`, `DrainAnswers`); a deferred terminate is the abstract
  step that turns the status, and its end the one that makes it final.

The primitives, in three layers:

* `NotifyProofs` states what each operation on a wait queue and a `Notify` does to the
  set of parked tasks (`ParkedFacts`, `WakesOne`, `LeaveFacts`).
* `PermitProofs` and the first two parts of `SyncPrimitiveProofs` prove an inductive
  invariant of one primitive (`ContractWakesOne` for a contract by itself, in any order of
  its steps). For the permit it is `Places`: no task is queued twice or both queued and
  granted, and only waiting tasks are either, without which the cardinalities of
  `PermitsConserved` do not add up (`AddPermitsFacts`).
* The rest of `SyncPrimitiveProofs` instantiates these modules and shows that every step
  of the composition is a step of the primitive in use (`StepsOfPrimitive`): `WaitersWoken`,
  `FulfilmentKept`, `PermitsKept`, `PermitsUsed`, and `SyncTypeCorrect`.
* `OneReasonForAll`, `ReasonIsTrue`: `OwnerInv`. A reason is set once (`BreakEffect`), by
  an owner or a scope that ends in the same step and never again.

The shared data, likewise (`StepsOfObject`, `DataInv`, `DataTypeCorrect`):

* `UnlockWakesAll` and `StrandedStays`. For `Locked` the property is inductive with the
  types: a task parks only while it sees an owner, and only a step that wakes all parked
  tasks clears the owner. A turn (`LockedTurn`) is proved for any state of the `Notify`
  with the same parked tasks, so a woken task that parks again is covered.
  `StrandedStays` needs no more than that a task of the owner thread that
  is waiting cannot return while the owner is set.
* `NobodyBlockedInVain`, `ElementsDeliveredOnce`, `NoneIsFinal`: `Inv` of `QueueProofs`.
  `BlockedOnlyWithoutWork` counts only the woken tasks of one operation, so `EventsInv`
  says that the listeners of an event are exactly the tasks in that call, each once;
  `WakesInv` is then the count itself. A receiver that is overtaken uses up its wakeup
  but leaves the element to the one that overtook it, and a dropped one passes its wakeup
  on (`ConsumeFacts`, `UnlistenFacts`). `ItemsInv` says that an element is in one place:
  once in the queue, or the result of one call. `InvBlocked` and `InvOnce` turn sets and
  sequences into the cardinalities of the properties.
* `OneOutcome`, `PolledTwiceAfterDrop`, `DoneIsFinal`: `FutureInv`. `GuardInv` says that
  one task has the guard, that queued tasks are queued once and that nobody is queued
  for a free guard; `StateInv` that the receiver is out of the state only while a task
  awaits it or because that task was dropped, and that the outcome is the one sent.

The interpreter. `Programs` is any set, so the theorems hold of programs that no checker
would accept. The values in the tree and in
the heap have no type either, so sequences are only known to be functions on an interval
(`IsSeq`), and what is needed of `Append`, `Front` and the like is proved for those.

* `WellFormed`: `Shape`, which says what kind of thing every part of the state is: tasks,
  their modes and continuations (one base item, which says what the task is, then items of
  known stages), interpreter states, threads, cells. Every other proof starts from it.
* Each of the machine's actions is first reduced to one of eleven kinds of step
  (`RunStep`): a turn of a task, which may or may not belong to a scope block
  (`ScopeTurn`), a thread that is ready and enters its body (`Enters`), a request (`Asks`),
  an async call (`Calls`), a spawn (`Spawns`), a handler taken or started (`Takes`,
  `Starts`), a task that ends as a body, handler, future or panic (`BodyOver`, `HandlerOver`,
  `FutureOver`, `Panics`), or nothing at all (`Idle`). A kind says what the step does to the
  height of the two stacks, to the scope blocks on the continuation and to whoever is
  owed an answer; each invariant is then kept kind by kind, not action by action.
* `AnswersAreOwed`: `AnswerInv` adds that a thread whose loop is gone has an empty queue and
  is not waited for, and never gets another request. This is what the order of `Finish`
  (status first, then the drain) is for.
* `ScopesExit`: `ExitInv` ties the stage of each scope item on a continuation to the history
  of its object, and says that no two items are about one object.
* `StacksAgree`, `MachineTyped`: `StackInv`. `Heights` counts the items of all tasks that
  share an interpreter state, so one task's push or pop is a change of one share of a sum
  (`Recount`). `Alone` says that only a body and its handlers share, and `Looping` that a
  thread whose body goes on is running, so that a crash, which explains the scopes an
  error left behind once its task is gone, is recorded once and never overwritten.
* `FirstClaimWins` (`FirstProofs`): `OwnInv` adds that every signal cell has a claim. All
  steps but lets and assignments leave claims and owners alone (`Unclaiming`); those claim
  what is unclaimed and record the owner in the same step (`SyncOwns`).
* `TracebackKept` (`FirstProofs`): `TraceInv` says of the main task that nothing was raised
  and the backtrace is empty (`Fine`), or that the first error is on its way or is held by
  the lowest of the scope blocks that hold one (`Carried`: a failing exit hook replaces
  what is above, never what is below), and that its chain of calls is in the
  backtrace already, or the backtrace is empty and the chain is still in the frames, no
  longer than the calls below that place (`Known`). The second half is why a call that fails
  in an exit hook may lengthen the traceback but not shorten it: when it sets the
  backtrace, the frames of the chain are still there. It needs `StackInv`: frames are as
  many as calls (`Depths`) because the main task shares its interpreter state with none
  (`MainAlone`).

Only model-checked:

* Liveness: `TerminateResolves`, `CallsAnswered`, `BreakFreesWaiters`,
  `FulfilmentDelivered` and `WaitsEnd` rest on fairness and `ENABLED`, which the prover
  does not treat.
* `TypesPreserved`, `LintsSound` and `VerdictsHold` of `Tessera`. What the checker and the lints compute is
  a walk over a tree, written with `RECURSIVE` operators, for which the prover has no SMT
  backend, and what such a walk yields for every tree needs induction over trees, which it
  does not have either.

## Not modelled

* The lexer and the parser: deterministic text processing without state between calls.
  Programs enter the model as trees, and no property of a tree depends on how it was
  written. Standard input and `getchar`, output and the editor extension: I/O.
* Doubles, chars and the methods of strings except `length`: text and floating point.
  The checker's and the lints' rules about these types are modelled where they take part
  in a rule for others.
* Anonymous templates; declarations between top-level statements (the model has
  declarations first); spans, wording of messages, how often a lint reports.
* The options of the command line that stop before the run.
* `isRaised`, `count`, `isLocked`, `size` and the other snapshots, except where a
  property looks at them: they change nothing.

## Plan

Modelled as far as planned, and every safety and action property of the runs on
`ThreadLoop`, `SyncPrimitive` and `SharedData` is a theorem, as is the refinement; so are
the interpreter's own invariants, all six. What could be added:

* Abstract specifications of the shared objects (a queue as a sequence with two atomic
  operations, a future as a variable that is written once), and proofs that `Queue` and
  `Futures` implement them.
