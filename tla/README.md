# Verification of the RustScript VM's host lifecycle

TLA+ models of the parts of the RustScript virtual machine (`pd-vm`) where
several actors meet: the script, the embedder that polls it, bridge futures,
background workers, stream producers, and a thread that advances an epoch
counter. TLC checks each model on small instances; TLAPS proves the central
invariants of three of them for every value of the constants. Paths below are
relative to the repository.

## 1. The system

A script is compiled to bytecode and run by a `Vm`. The VM calls host functions;
a call may answer at once, hand a future to the embedder's *bridge*, start an
operation in the *execution scope*, or open a *callable stream* whose items are
passed to a script callback. The embedder drives everything by polling: directly
(`run`, `resume`, `poll_waiting_host_op`), or through an *invocation stream* that
yields events, one terminal item and then ends. Runs are limited by *fuel* or by
an *epoch deadline*. A VM is pooled: `reset_for_reuse` retires what the old run
left and publishes a fresh scope once everything is quiet.

| Part | Source | State | What changes it | What is hard |
|---|---|---|---|---|
| Operation registry | `src/vm/operation/` | slots with generations, free list, seal | `start poll complete fail cancel abort remove take_outcome cancel_all poll_quiescence` | ids that outlive operations; workers that outlive a cancel; hooks and cancels that must happen once |
| Resource table | `src/vm/resource/` | slots, vacant stack, cached count, sweep in flight, typed scope states | `push take begin_close poll_close poll_close_all poll_close_added`, drop | closes of several polls; conflicting sweeps; rollback over recycled slots |
| Execution scope | `src/vm/execution_scope.rs` | phase, bound reason, failure latch, outcome | inserts, `begin_close poll_close`, drop | order of shutdown, counting failures, drop halfway |
| Host runtime | `src/vm/host_runtime.rs`, `host.rs`, `mod.rs` | bridge operations, stream drivers and terminations, reset flags | submission, completion, cancel, `reset_for_reuse poll_reset_for_reuse`, shutdown, drop | three kinds of quiet that arrive in any order |
| Invocation stream | `src/vm/invocation.rs` | phase, emit marker, cancel reason | `start_invocation`, poll, `emit`, cancel, drop | cancel against pending items; reuse after drop |
| Callable stream | `src/vm/async_host/stream.rs` | continuation and its phase, drivers, terminations | poll, callback, completion, rollback, cancel, reset | many error paths, one driver |
| Budgets | `src/vm/run_context.rs fuel.rs epoch.rs`, `jit/native/lower.rs` | mode, fuel, interval, countdown, deadline | grants, switches, ticks, checkpoints | charges in blocks, shared countdown, concurrent counter |
| Interpreter core | `src/vm/mod.rs runtime.rs superinstructions.rs` | stack, frames, locals | bytecode | not modelled |
| Store, queued callables | `src/vm/store.rs`, `mod.rs` | reservations, subscriptions, queue | queue, drain, withdraw | planned |
| Host extensions, state, capabilities | `src/vm/host_extension.rs host_state.rs host_context.rs capability.rs` | registration tables, state slots | registration, checkout | planned in part |
| JIT, AOT, native layer | `src/vm/jit aot native` | traces, SSA, machine code | recording, compiling | charges modelled, the rest not |
| Compiler | `src/compiler` | none between calls | pure | module graph and data-flow planned |
| Formats and tools | `src/bytecode.rs vmbc.rs assembler.rs debug_info.rs cli.rs` | none | pure | VMBC reader planned |
| Debugger, recording | `src/debugger` | breakpoints, step mode, recording | commands | planned |
| Host modules | `src/builtins/runtime` (timer, io, sqlite, http, regex, …) | workers, caches, connections | host calls | drivers planned one by one |
| Other crates | `pd-vm-nostd pd-vm-wasm pd-host-function crates/` | second interpreter, bindings, macros | | not modelled |

`PROJECT.json` lists the same parts with their files, and the hazards of the code
at the lines where they bite.

## 2. Modules

```
HandleLifecycle   what an arena promises about ids          (abstract)
  ^ implemented by OperationRegistry, ResourceTable          (share Arena)
ScopeLifecycle    what a scope promises about its close      (abstract)
  ^ implemented by ExecutionScope = OperationRegistry + ResourceTable
HostRuntime       uses ScopeLifecycle as the published scope
Invocation, CallableStream, RunBudget                        (one component each)
*Proofs           theorems; MC*  the instances TLC checks
```

Every variable of a component carries the component's prefix (`op`, `res`, `sc`,
`hr`, `iv`, `cs`, `rb`) and a comment naming the field it stands for; fields of
the environment and history variables are marked as such. There is one action
per call or callback, and it stands for the whole call. An operator whose name
ends in `_Something` is a plausible wrong version of the operator that follows it,
kept to show that the properties notice it.

**OperationRegistry.** A slot holds a generation and perhaps an operation with
its status, whether its hook ran, how often its driver was asked to cancel and
whether its deadline is armed. `Start` recycles from the free list or grows.
`Poll`, `Complete`, `Fail`, `Cancel`, `Abort`, `TakeOutcome`, `Remove`,
`CancelAll`, `CancelAllAndWait`, `PollQuiescent`, `PollQuiescence` and `Seal` are
the calls. The driver's answers, the
hook's failures, the exit of a worker and the passing of a deadline are the
environment's. A slot at its last generation retires.

**ResourceTable.** The same shape for resources, with `Closing` between open and
gone. `CloseFates` enumerates what each resource of a sweep may answer; a sweep,
an admission rollback and the launch at drop are one action each.

**ExecutionScope** extends both and adds the lifecycle. `PollClose` is one poll:
cancel all once, drain, and only then one step of the sweep; `Drop` follows the
destructors of the scope and of its table.

**HostRuntime.** Bridge operations are tracked from submission to
acknowledgement; a stream has a driver or a pending termination. The scope is
`ScopeLifecycle`, so what is shown here needs only what a scope promises; the
reason it was closed with is not kept, since nobody here reads it. `UseScope`,
`CloseScope` and `PollScope` are also the embedder's, through
`execution_scope()`. Faults (the bridge refuses, a driver fails to end, no
identity for a new scope) are chosen per call from `Faults`.

`Submit` needs a bridge and an id and nothing else, as `submit_host_future` does:
unlike a run it is not refused while a reset is pending, after one failed, or
after a shutdown. Such a future is tracked, and a pending reset waits for it
without asking it to stop ("Entries without a cancellation request remain
pending; reset callers request all of them first", `host_runtime.rs`), until the
embedder requests the reset again or the VM is dropped. The history `hrSwept`
marks the ids younger than the last request to cancel everything; `ResetSealed`,
`RetiredAsksAll` and `ResetEnds` say what holds of the older ones and of `Late`
ones.

**Invocation.** A poll is a loop in the code and in the model (`Poll` enters,
`Loop` goes round, a reply leaves), since cancelled work is polled between rounds.
The script is nondeterministic: it emits, yields, waits on any kind of operation,
runs a stream callback, fails or halts. A drive is `Vm::run` and then, if the
script waits, one poll of what it waits for. The run is refused while a stream
termination is pending (`DriveRefused`), which ends the invocation with a host
error: a stream that ends over several polls is lost to an invocation that is
polled again before its driver has ended. `DriveRun` leaves `ivPolling` at "wait"
when the poll follows in the same drive, where nothing is refused.

**CallableStream.** The continuation's phase and every driver's place. A driver
accepts or refuses termination, takes time, or fails; a callback yields, waits,
returns an action or fails; a completion hook runs or is rolled back. When the
live resources cannot be listed before the hook, the reset error is set and the
stream stays where it is. The model allows this although a slot that was
allocated always has a handle to list. Whether an admission is rejected is part
of HostRuntime.

**RunBudget.** Interpreter ticks, the block charges that native traces make with
one division, and charges at AOT call boundaries. A trace charges all its
instructions at a loop header, or at the gate into a linked trace, and runs them
afterwards: in epoch mode `EpochTick` is the charge and `RunPaid` one instruction
it paid for, so that the counter may pass the deadline in between. `FreeTick` is
an instruction nobody charges: without a budget, in AOT code between two calls,
and in a fused region between two of its gates. `DeadlinePrompt` bounds charged
instructions only; how many uncharged ones run past a deadline is not bounded by
the code, as its tests say (`tests/jit/jit_tests.rs`,
`aot_ignores_fuel_interval_inside_no_call_loops`). Words are `0..TopWord`; the
counter and deadlines saturate as the code's do. The history `rbBalance` is what
was granted less what was charged.

## 3. Runs

| Run | Instance | States | Question |
|---|---|---|---|
| `registry` | 2 slots, 2 generations, 2 pending | 75,664 | Are ids unambiguous, hooks and cancels exact, slots held for workers; is it a `HandleLifecycle`? |
| `resource_table` | 2 slots, 2 generations, 2 kinds, 2 reasons | 28,954 | Pool and count exact, closes begun once, sweeps and rollbacks exact; a `HandleLifecycle`? |
| `scope_operations` | 2 operations, 1 resource | 59,697 | Does the sweep come last; a `ScopeLifecycle`; does a close end? |
| `scope_resources` | 1 operation with deadline, 2 resources, 1 state | 70,164 | Is no failure lost, a quiescent scope empty, a drop complete? |
| `host_runtime` | 3 operations, 1 published reset, 1 fault | 293,134 | Is nothing untracked, is publication over quiet only, does a reset end? |
| `invocation` | 2 invocations, 2 emits, 2 reasons | 6,406 | One event per emit, one terminal item, nothing after cancel, no frames, marker or reason left over, cancellation ends? |
| `run_budgets` | words to 3, intervals 1 and 3, blocks of 2 and 4 | 3.7 M | Fuel conserved, modes apart, deadlines prompt, interruptions apart? |
| `callable_streams` | 3 streams | 1,937 | Is every driver handed over once, no summary early, no stream before the last ended? |

Why the bounds are enough. Two slots and two generations give a recycled slot
beside a live one, and a retired one. Two operations give one that drained beside
one that has not; two resources give two failures in one sweep and one each in
two. Three bridge operations
and streams give one that was asked to stop, one submitted late and one more, and
one published reset leaves a VM in which everything but a second one can happen
(`test_reset_fails_closed` has two). Two invocations let anything
left by the first meet the second. Three streams give one ending, one running
and one to come. A word that ends at 3 overflows by adding two grants, and blocks
of two and four pass no check, one and several for intervals 1 and 3.

Deadlock is not checked where a bounded instance really stops: a dropped scope or
VM, ids used up, the last invocation fused.

**Runs that find a disagreement.**

- `test_reset_fails_closed`: a stream cleanup that fails while a reset waits for it
  is consumed by any other poll (`run`, `poll_waiting_host_op`), and the reset then
  succeeds; the test of the reset says it fails closed.
- `doc_drop_reuse`: an invocation dropped while a stream callback is suspended at an
  emit, a yield or a scoped operation leaves the stream on the VM, and the next
  invocation's result is taken for the callback's action.
- `doc_deadline`: an epoch deadline that expires inside `start_invocation` is
  re-armed by the next poll and never reported.
- `doc_reset_retires`: a reset during a stream's rollback, or between the end of its
  termination and its completion, finds no driver and fails for good, although no
  driver failed to end.

Smaller disagreements met while modelling, without a run of their own:
`abort` on a terminal operation whose worker runs leaves the slot occupied
(`operation/registry.rs:454`); `begin_close` answering Ready does not advance the
generation (`resource/table.rs:406`); the error of a failed explicit close is
recorded by nobody (`resource/table.rs:764`); `first_error` is empty once the scope
is quiescent though `failed_count` is not (`execution_scope.rs:500`, `:659`); a cancel
accepted while an error is pending is followed by that error
(`invocation.rs:151`, `:410`); cancelling an invocation whose stream callback waits
on the bridge reports Cancelled before the acknowledgement
(`async_host/stream.rs:435`); a run that resumes a stream callback may report
Halted before the script goes on (`async_host/stream.rs:727`); a stream termination
that fails during a run is reported to the run, and the stream then publishes a
summary (`mod.rs:1352`).

## 4. Fairness

Safety needs none. The liveness properties assume weak fairness of what the code
and its contracts promise and of nothing else:

- the owner polls again: `PollClose`, `PollReset`, an unfused invocation's `Poll`.
  The code registers a waker before it answers Pending, and an executor re-polls a
  woken task. `Loop` is the rest of a poll that has begun;
- what was asked to stop stops: workers (`WorkerStops`), bridge futures
  (`FutureEnds`, `BridgeEnds`), producers and terminations (`ProducerEnds`,
  `TerminationEnds`). The driver traits ask for it;
- close work ends (`CloseWorkFinishes`, `WorkEnds`).

No fairness is assumed of the script, of embedders' calls, or of failures.

## 5. Proofs

`OperationRegistryProofs`, `HostRuntimeProofs` and `RunBudgetProofs` hold the
theorems; they assume only the named assumptions on the constants.

**Registry.** No property of the registry is inductive alone. `RegistryInv` joins
`RegistryTypeOK` and `FreeListExact` with
`SlotsSound` (an occupied slot's id is its tag, index and generation, and status,
hook and cancel marks fit together), `IssuedBehind` (issued ids are at or behind
their slot's generation), `FreshIds` (the next id of every slot on the free list is unissued),
`WorkersHeld` and `HooksOwed` (workers and hooks owed belong to the operation in
the slot). The weight is in `ConsumeKeepsInv`: any set of quiescent terminal
slots may be released in any order in one step, each retiring or advancing its
generation. From `RegistryInvariant` follow `RegistryIdsNeverAlias`,
`RegistryFreeListExact`, `RegistryWorkersKeepSlots`, `RegistryDriverAskedOnce`,
`RegistryHooksRunOnce`.

**Host runtime.** `HostRuntimeInv` adds to the type invariant that a quiescent
scope holds nothing, that tracked ids are behind the counter (so a new submission
never meets an entry), `RunningIsTracked`, `TrackedHasBridge` and `SweptIsAsked`:
an operation older than `hrSwept` is not active, a pending reset has no stream,
completion, active scope or failed entry, and a retired VM no stream. They need each other: a reset publishes when nothing is tracked, which says
that nothing runs only by `RunningIsTracked`; and no completion reaches the new
scope only by `SweptIsAsked`. `HostResetSealed` and `HostRetiredAsksAll` follow
from it. `NoneRevived` says that requests and acknowledgements make no operation
active again, which is why `SweptIsAsked` survives every poll. `PublishesOverQuiet` is
an action property and follows from the invariant by cases on the step.

**Budgets.** `RunBudgetInv` has the balance equation between two charges, the
exclusion of the modes, an armed deadline's relation to the counter, the bound on
instructions run past the deadline, and the same of what checkpoints saved. That
bound is not inductive by itself: `PaidWithin` counts the instructions paid for
and not run yet against it too. `Division` and
`ChunkCharged` show that a block charged with one division is the sum of its
single ticks. `FuelIsAccounted`, `BudgetsExclude`, `DeadlineIsPrompt` and
`InterruptionsApart` follow.

Only model-checked: liveness (outside the prover's reach), the three refinements
(`ImplementsLifecycle`, `ImplementsResourceLifecycle`, `ImplementsScopeLifecycle`),
and everything said of ResourceTable, ExecutionScope, Invocation and
CallableStream.

## 6. Not modelled, and the plan

Left out for good: parsing, formatting, code generation, memory layout and machine
code (pure functions of text or bytes, or below this level), metadata tables,
command-line handling, bindings. The waker protocol of `poll_quiescent` and the wrap
of the 64-bit operation counter are below, and beyond, the models.

Next, in this order:

1. queued callables and the store: `queue_callable`, `drain_callable_queue`,
   `start_callable`, reservation and withdrawal (`mod.rs:3613`, `store.rs`);
2. drivers of the registry as components of their own: asynchronous file IO
   (`io/async_io.rs`), SQLite, the event stream (`http/sse.rs`: body resource,
   permit, termination in two steps), timers (`timer.rs`: owned callbacks and
   recovery); each against the driver contract the registry model assumes;
3. host state checkout (`host_state.rs`), the regex cache, debugger stepping;
4. pure algorithms against a reference definition: module graph order
   (`source_loader/graph.rs`), liveness and availability (`lifetime/`), the VMBC
   reader, callable ownership (`invocation.rs`) against reachability;
5. proofs: `PoolExact` and `BegunOnce` of the table, `SweepComesLast` of the scope,
   `EachEmitOnce` and `TerminalOnce` of the invocation, `DriverHandedOver` of
   streams, and the refinement of `HandleLifecycle` by the registry.
