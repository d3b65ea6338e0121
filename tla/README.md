# Verification of the UVM 1.2 class library

The repository is a wiki (`wiki_memory/`, `agents/`: pages, no code) around an in-tree copy of
the Accellera UVM 1.2 class library, `src/UVM/uvm-1.2/src`. The library is the program verified
here: SystemVerilog classes whose processes are cooperative threads of a simulator, which block
on events, mailboxes and `wait` conditions, and kill each other, over C code that reaches into the
simulator (`src/UVM/uvm-1.2/src/dpi`). `docs/html/src` is a copy of the same sources; `examples/`
and `bin/` use the library.

Paths below are relative to `src/UVM/uvm-1.2/src`.

## 1. Inventory

| Part | State | Operations | Interacts with | What is hard | What makes it correct |
|---|---|---|---|---|---|
| Sequencer, `seq/uvm_sequencer_base.svh`, `uvm_sequencer_param_base.svh`, `uvm_sequencer.svh` | `arb_sequence_q`, `lock_list`, `reg_sequences`, `arb_completed`, `m_lock_arb_size`, the one-place `m_req_fifo`, `sequence_item_requested`, `get_next_item_called`, `m_wait_for_item_sequence_id` | wait_for_grant, send_request, wait_for_item_done, lock, grab, unlock, arbitration, kill_sequence, stop_sequences; for the driver get_next_item, try_next_item, get, peek, item_done | sequences (threads that block in it), driver (through a port) | requests of killed threads, kills between grant and item, locks of sequence families, priorities, lost wake-ups | one item in flight, nobody forgotten, locks exclude, nothing left behind |
| Sequences, `seq/uvm_sequence_base.svh` | state, process, children, response queue | start, body, finish_item, kill, lock | sequencer, objection (automatic phase objection) | kills of parents and children | as above |
| Objection, `base/uvm_objection.svh` | source and total counts, `m_scheduled_list`, `m_forked_list`, `m_forked_contexts`, drain processes, `m_cleared`, `m_top_all_dropped` | raise, drop, clear, set_propagate_mode, background process, drain processes | components (callbacks), phases (wait_for) | raises that meet a pending drop in one of three stages, and kill its process | totals are sums, the top drains only when nothing is raised, and then it does |
| Phases, `base/uvm_phase.svh`, `uvm_domain.svh`, `uvm_*_phases.svh` | graph, `m_state`, `m_sync`, jump flags, hopper | execute_phase, jump, sync, ready_to_end | objection, components | forks per phase, siblings, jumps while others run | a phase ends only without objections, successors start after all predecessors |
| TLM 1 fifo and channels, `tlm1/uvm_tlm_fifos.svh`, `uvm_tlm_req_rsp.svh` | mailbox, `m_pending_blocked_gets` | put, get, peek, try_*, can_*, flush, transport, nb_transport | any component | several callers of one channel, kills of blocked ones | answers reach the asker, can_get and flush say what is so, transport returns |
| Barriers and their events, `base/uvm_barrier.svh`, `uvm_event.svh` | two counts of waiters, threshold, `at_threshold`, `auto_reset` | wait_for, reset, cancel, set_threshold, set_auto_reset | any process | reset, cancel and kills during a wait | the count is the number of sleepers, everybody passes |
| Configuration, `base/uvm_config_db.svh` on `base/uvm_resource.svh` and `dpi/uvm_regex.cc` | queues of resources per name, waiters | set, get, wait_modified | components in build and later | precedence that depends on the phase, globs, waiters that were killed | the documented setting wins, no change is missed |
| HDL back door, `dpi/uvm_hdl_{vcs,questa,inca}.c`, and poke, peek of `reg/uvm_reg.svh` | the design, forces, C statics, the mirror | read, deposit, force, release, check_path | the simulator (VPI, VHPI), registers | three versions of one interface, slices taken apart, failures in the middle, words and widths | what is written and read is what the path names |
| Heartbeat, `base/uvm_heartbeat.svh` | counts per component | raise callback, trigger, start, stop | objection, event | start and stop between triggers | fails exactly on a missed window |
| Callbacks, factory, reporting, `base/` | queues and tables | add, override, report | all | precedence | look-up follows the documented order |
| Register layer (front door), `reg/` | mirrors, maps, memory allocation | read, write, predict, request_region | sequencer | access semaphore, mirror against the device | the mirror follows the access policy |
| Data access policies, `dap/` | value, locked | set, get | - | small | lock after get |
| Objects, printing, packing, recording, command line, macros, component base classes | data | conversions | - | no concurrency | out of scope |

`PROJECT.json` lists every part with its status and every hazard with the line where it bites.

## 2. The sequencer

### Model and code

`Sequencer.tla` is one sequencer, the driver that pulls from it and the sequences on it. A
sequence owns a set of threads (`Owner`), sequences form a forest (`Parent`). SystemVerilog
processes are cooperative, so an action is what one process does between two blocking points,
with every call it makes on the way: `lock` contains `grant_queued_locks`, `send_request`
contains the `grant_queued_locks` of `m_update_lists`' callers, `kill_sequence` contains the
kills of the children and the removal from all queues.

| TLA+ | Code |
|---|---|
| `arb_sequence_q`, `before` | the queue: a set of requests with its total order; positions are counted when the code uses them (`m_choose_next_request` remembers positions over removals) |
| `lock_list[s]` | how many entries of `lock_list` are of `s` |
| `arb_completed`, `arbitration_completed` | `arb_completed[request_id]` and the process that wakes up on it |
| `arb_changed` | `m_arb_size != m_lock_arb_size`, what the driver sleeps on |
| `running`, `reg_sequences` | sequences with a live process; sequences registered at the sequencer. They differ when a dead thread is found |
| `pc[t]`, `driver` | where the thread, the driver is blocked. In `wait_for_item_done` the item was still on its way, in the fifo, at the last call of that name; in `wait_for_next_done` it was not, and the thread waits for a later item of its sequence. The code has no such two places: `DonePlaces` is both, and `Told` is the condition of the one `wait` |
| `NbaRegion` | `uvm_wait_for_nba_region`: nothing runnable is left in the active region |
| `fatal` | a `uvm_fatal`, or the read of a queue entry that does not exist |
| `kill_thread`, `kill_sequence`, `stop_sequences` | `disable` or `process.kill` of one forked thread; `kill()`; the reset |

Assumptions on the testbench, all of them constants or guards of the model: a body joins its
child sequences before it returns; a thread that was granted sends its item without consuming
time; `wait_for_item_done` is called without a transaction id, but at any time: with `send_request`, as
`finish_item` does, or later as a call of its own (`SequenceCalls`); user priorities are positive;
a sequence runs on one sequencer; `wait_for_relevant` returns only when relevance has changed
(no zero-time loop). A second `get_next_item` before `item_done` is reported and goes on, a
`try_next_item` then is reported and returns; both are in the model. Weighted and user arbitration may return any open request. Responses,
recording and `start_phase_sequence` are left out; they do not touch the state above. Bounds:
`MaxLocks[s]` nested locks per sequence and one ungranted `lock_request` per thread.

`ItemExchange.tla` is what a sequencer promises to the threads that send items through it: a thread
sends only what it was granted, one thread is granted and one item is on its way at a time, and who
waits for an item goes on when that item is done, not before and not with another's. It knows
no queue, no locks and no driver. `SequencerProperties.tla` holds the properties and the refinement mapping
(`PlaceOf`, `Exchange`: where a thread is blocked, and what it has been told), `MCSequencer.tla` the small
instances, `SequencerProofs.tla` the theorems: of the handshake, then of the arbitration and of the
refinement.

### Runs

Three sequences (a parent, its child, a stranger) with one or two threads each are enough for
every relation two requests can have: same sequence, family, strangers, dead and alive.

| Run | What it shows |
|---|---|
| `Sequencer_locks` | a parent, its child and a stranger, one thread each; parent and stranger lock, grab and lock_request, items are waited for at once, later or never, every mix of get and of peek with item_done, RANDOM arbitration, sequences and single threads killed, even just after a grant: the inductive invariant of the proofs, no fatal of the handshake, one item in flight, no item_done lost, nothing left behind by the dead, no grant through a lock while nobody in the queue has died. 1,089,461 states |
| `Sequencer_stop` | two sequences of two and one threads, STRICT_FIFO, get_next_item and try_next_item, user priorities, changing relevance, nested locks, and stop_sequences or a kill at any moment: no waiting thread is forgotten, the driver is woken, priority and age are respected, a stop kills everybody, and all of it is an exchange of items (`ImplementsExchange`), late calls of wait_for_item_done included. 506,864 states |
| `Sequencer_live` | two sequences that both lock, so that each may wait for the other's unlock, and kills: requests, locks and items are served, with the fairness below. Deadlock is checked. 1,788 states |
| `Sequencer_late_wait` | violation: a thread that was told that its item is done, and has not run yet, is told no more when another calls `wait_for_item_done`, which resets the one variable that all of them watch (`uvm_sequencer_base.svh:1108`). It sleeps until another item of its sequence is done; the sequence of the run has one thread, so that there is none (`WakeUpKept`). `finish_item` does not do that: nobody is granted while somebody waits |

Deadlock is off where the system may really stop: the removal of a dead thread's sequence may take
the last request, after a stop the driver may sleep for good (both below), and a thread may wait for
an item that never comes.

What else the model shows when its constants are changed, without a run of its own:

- One call of `grant_queued_locks` compares every leading lock request with `lock_list` before it enters any
  of them, and may so give the lock to two unrelated sequences, although `lock` promises that "no other
  locks or grabs are blocking this sequence" (`Sequencer_locks` reaches such states and would violate
  `LocksExclude`). They block each other until one unlocks; if each asks for an item first, nobody goes on.
- `peek` sets no flag that `try_next_item` looks at, so that the two together arbitrate twice, and the
  second `send_request` is fatal (with these two as `DriverCalls` and no locks `HandshakeNeverFatal` fails).
- A thread that is killed between its grant and its item leaves `try_next_item` without an item and with
  `get_next_item_called` set. Every later `try_next_item` reports an error and returns: a driver that uses no other call serves
  nobody any more (with `DriverCalls = {"try_next_item"}` and `kill_granted`, `Sequencer_live` would violate `EventuallyGranted`).
- With a queue that is not FIFO, `m_choose_next_request` keeps queue positions over the removal
  of a dead thread's sequence: a position may be past the end, and the loop may skip a request
  that could be granted, so that the driver sleeps (`Sequencer_locks` would violate
  `NoLostArbitration`). With a fourth sequence a position may also come to stand for a request
  that is blocked, and a single position kept is returned without another look at the locks
  (`uvm_sequencer_base.svh:783`): the thread of a parent dies while its request is queued, a child
  in front of it goes with it, and the request behind the one that was kept is granted through
  a lock. `GrantRespectsLocks` and `PriorityRespected` are therefore stated for steps at whose
  start nobody in the queue is dead (`NobodyDead`).
- The dead thread of a parent takes the request of a live child with it (`Sequencer_locks` would
  violate `WaitingIsQueued`: the child waits for ever).
- stop_sequences between a grant and its item leaves the driver in `peek`: the flag
  `sequence_item_requested` is reset but nothing wakes the driver. If the driver holds an item,
  its `item_done` is fatal after the stop (`HandshakeNeverFatal` excludes it by name).
- A sequence that a dead thread has unregistered, and whose other threads live, is not found by
  stop_sequences (`stop_sequences` with `kill_thread` violates `StopKillsAll`).
- On a sequencer without a driver only lock, unlock and a kill call `grant_queued_locks`; a
  holder that dies by `kill_thread` blocks the others until one of these calls.
- unlock takes one of several locks of a sequence. has_do_available counts lock requests.

### Fairness

`SchedulerFairness`: weak fairness of what a thread or the driver does when its wait condition
holds; the simulator runs every runnable process. `DriverFairness`: the driver keeps calling
and finishes its items, the loop every driver is (`comps/uvm_driver.svh` documents it); strongly, because
it may look at an item again and again before it calls `item_done`.
`UnlockFairness` is strong, because a holder may send items in between: a sequence that locks
for ever starves the others by design. `EventuallyGranted` is for FIFO arbitration; the other
modes may starve a request and promise nothing else. It has one exception, which is real
(the list above): two sequences that hold locks at the same time and each wait for an item.

### Proofs

`SequencerProofs.tla`, for all sets of sequences and threads, all parent relations, arbitration
modes and bounds, under `WellBehaved`: the driver does not mix peek with try_next_item, and
stop_sequences is not combined with threads killed alone. Both are needed: see the
list above.
Further assumptions are `SequencerAssumption` (the types of the constants) and nothing else.

The inductive invariant is `HandshakeInv`. `OneItemInFlight` alone is not inductive: it needs
that the driver arbitrates only while no item is requested (`DriverOK`), that a queued request
is of a thread which waits for it and is not granted yet (`QueueOK`, `CompletedOK`), and that
only running sequences have threads (`RunningOK`); `ItemDoneNotLost` needs in addition that
while a thread waits for its item nobody else is granted (`DoneOK`), so that no `send_request` resets
the variable which will wake it. It speaks of the threads that no later `wait_for_item_done` has reset: such a
call, which is a step of the model, moves them to `wait_for_next_done`, and what happens to them
is `WakeUpKept`. The lemmas describe what
the list operators preserve (queues shrink, grants are queued requests), then there is one
lemma per action. Theorems: `Handshake`, `OneItem`, `DoneNotLost`, `NothingLeft`, `NeverFatal`.
They are for every mix of driver calls that is `WellBehaved`; the runs take two calls each.

`NobodyForgotten` is `WaitingIsQueued` where no single thread is killed: a request leaves the queue
only with a sequence that is killed, or with the family of one, and a family is killed as a whole
(`FamilyOfFamily`: a descendant's family is within it).
`StopEndsAll` is `StopKillsAll`, the action property of a reset, from the fact that every
running sequence is registered where no thread is killed alone (`RunningOK`).

The second half of the module is about `m_choose_next_request` in a queue of any length, in every
arbitration mode. Positions are first: in a queue whose order is total a position stands for one request
(`PositionUnique`, `EntryAt`). Then the loop: `look(L)` is one round of it on the variables of the
code, `scan` iterates it, and `ScanFinds` shows by induction on the rounds that, while nobody in
the queue is dead, it removes nothing and ends with the positions of all requests that may be
granted (with FIFO, the first). `ArbitrateFacts` says what the arbitration then picks.

The inductive invariant is `ArbitrationInv`: the order of the queue is total (`OrderOK`) and, where
no single thread is killed, a driver that sleeps and has not been told waits for the relevance of
every sequence that no lock blocks (`SleepOK`). `NoLostArbitration` is not inductive alone: it says
nothing of a request whose sequence is not relevant yet. `SleepOK` is kept because every operator on the lists that changes the queue or the locks
says so (`Tells`). Theorems:

- `Arbitrated`: the invariant. `DriverWakes`: `NoLostArbitration`. `NeverNull`: no entry past the
  end of the queue is read. The last two are for testbenches that kill no single thread; with such kills
  they are false, as the list above says.
- `LocksRespected`: `GrantRespectsLocks`, and `PriorityKept`: `PriorityRespected` with STRICT_FIFO. They
  hold with kills of single threads too, for every step at whose start nobody in the queue is dead.

That the sequencer implements `ItemExchange` (`ImplementsExchange`) is proved step by step: the threads
begin where the exchange has them, and one lemma per action says which step of the exchange it is, or that
it is none. The place of a thread depends on what it has been told: `m_wait_for_item_sequence_id` names
the sequence whose item is done and keeps that name afterwards. A name left from an earlier item of the same
sequence would end the next wait at once, and `HandshakeInv` does not exclude it. `FreshWait` does: while the item
of a waiting thread is in the fifo, no name is there. A thread in `wait_for_next_done` has no part in
the exchange: its own item is done. `ExchangeInv`, which is both, is inductive. Theorems:
`Freshness`, the invariant, and `ExchangeKept`, the refinement, under `WellBehaved`.

TLC has checked `ArbitrationInv` on the instances of `Sequencer_locks` and `Sequencer_stop`.
Liveness is model-checked only: it is out of the prover's reach.

## 3. The objection

### Model and code

`Objection.tla` is one `uvm_objection` on a tree of components. A drop that leaves an object with
total zero stops there: its context goes through three places before the drop goes on to the
parent, and a raise may find it in each of them.

| TLA+ | Code |
|---|---|
| `m_source_count`, `m_total_count`, `m_prop_mode`, `m_cleared`, `m_top_all_dropped` | the members of the same names |
| `m_scheduled_list` | contexts that the background process (`m_execute_scheduled_forks`) has not seen |
| `m_forked_list`, `unstarted` | contexts that wait for a forked process; forked processes that have not run. A process takes the first context, not "its" context |
| `m_forked_contexts` | contexts that a process drains (`m_drain_proc`): between its start and the end of drain time and callback |
| `Books` | what one call of `m_raise` or `m_drop` changes while it climbs the tree |
| `Call`, `m_propagate` | one call of `m_raise` or `m_drop` at one object; the chain of these calls up to the root, or to the object where it stops, with the difference of a raise and the drop it takes back |
| `m_forked_drain(c)` | the drain time has passed, the callback has returned: the drop goes on, or "all dropped" is said at the root. There the context may stay until a later step, as long as `wait fork` waits for what the callback has forked (`uvm_objection.svh:759`) |
| `all_dropped_raises` | the all_dropped callback raises; if the raise meets the context of its own process, the process kills itself, and whether the rest of the propagation still runs is the simulator's choice |
| `waiter` | a phase in `wait_for(UVM_ALL_DROPPED, top)` |
| `owed` | what the testbench has raised and not dropped, so that it never drops what it has not raised |

Assumptions: one objection; the parents do not change; a drain takes any time (drain times and
callbacks are not counted). Bounds: `MaxOwed` objections per object, `MaxForks` processes that
have not started. `ObjectionSpec.tla` is the abstract promise: four actions on who objects and
whether "all dropped" has been said, and it may be said only while nobody objects.

### Runs

| Run | What it shows |
|---|---|
| `Objection_drain` | a root, an environment and two agents, counts 1 and 2: totals are sums over children and held-back drops, an object drains only once and only while nothing below it is raised, an honest owner never meets the fatal, "all dropped" comes when no drop is on its way to the root. Deadlock is checked. 7,285 states |
| `Objection_live` | a chain of three, with clear, set_propagate_mode and raises from the all_dropped callback: the sums, the refinement of `ObjectionSpec`, and a waiting phase is released. Deadlock is off: it may end in the fatal. 26,368 states |

Two counts and two objects below one parent are what makes the difference of a raise and a
pending drop positive, zero and negative. With `clear` a late drop is excused only while
`m_cleared` holds, and every raise of any object resets it: a drop that was late and legal becomes
fatal. `WaiterReleased` excuses that outcome by name, and `Objection_live` does not check
`NoFatal`. A process that kills itself in the middle of a propagation leaves the totals above it
wrong by the difference of the two counts; with counts of one the difference is zero, which is
why the live run has `Counts = {1}` and the other run has no raise from callbacks.

Fairness: the background process and the forked processes run, drain times pass and callbacks
return. Nothing is asked of the testbench: `WaiterReleased` speaks of states in which all was
dropped.

### Proofs

`ObjectionProofs.tla`, for every tree of components (`ObjectionAssumption`), all counts, modes and
controls, under `SingleCalls`: if the all_dropped callback may raise, then it raises one at a time.
Without it `TotalsAreSums` is false, by the process that kills itself, above.

The invariant `ObjectionInv` says that the variables show books (`Shows`) which are `Sound`: totals are
sums, what a child holds back included, no object has two contexts, and one that has a context has
the total zero. The sums are not inductive alone: a call of a
propagation leaves them wrong at exactly one object, the one it goes on to, by exactly the number
it carries. That is what the proof follows from call to call (`Propagation`), by an induction over the number
of calls. Sums are cardinalities of sets of units, so that the facts about finite sets give them.

`AllDroppedIsLast` lets the root itself drain on: its context outlives "all dropped" by what its callback
has forked. Nothing else does: no object below it holds anything back.

Theorems: `ObjectionBooks` (the invariant), `ExactTotals`, `QuietDrains`, `LastIsLast`,
`NeverFatal` (without clear) and `PromiseKept`, the refinement of `ObjectionSpec`.

## 4. Phases

### Model and code

`Phase.tla` is a graph of phase nodes and the runner. Each node that is taken from the hopper is
executed by one process, `execute_phase`, whose place is `proc[n]`:

| TLA+ | Code |
|---|---|
| `proc[n].at` | where the process is; `idle` is none |
| `proc[n].delay` | it is in a `#0` or in `uvm_wait_for_nba_region`; `next_delta`, `nba_region` end these waits when nothing else can run |
| `proc[n].todo`, `.again` | what is left of the `foreach` it waits in; `need_to_check_all` |
| `m_state`, `m_ready_to_end_count`, `m_premature_end` | the members |
| `m_jump[n]` | `m_jump_fwd`, `m_jump_bkwd`, `m_jump_phase` |
| `m_phase_proc` | the process of the phase's tasks; "lost" when clear forgets it without a kill |
| `objection[n]` | `phase_done` at the root: none, raised, draining (what section 3 shows of it), or "unheard": raised after the last look that the phase, as far as it knows, takes at its own objection. The code does not tell unheard from raised; the model does so that properties can (`LooksAgain`, `Heard`) |
| `m_phase_hopper`, `runner` | the mailbox and `m_run_phases`, which does a `#0` after each fork |
| `overlap` | two processes execute one node; the model stops there, what they do to each other is not modelled |

The actions follow the code from top to bottom: `await_predecessors` (SCHEDULED, SYNCING),
`await_sync`, `execute`, `m_wait_for_pred` (function phases), `check_objection`,
`wait_for_self_and_siblings_to_drop`, `ready_to_end`, `exit_on_jump`, `ended`, `cleanup`,
`finish` (the clears of a jump, or DONE), `schedule` and `put` (one successor at a time, with a
`#0` after each). Components object from phase_started on and as long as the tasks of the phase live
(`MayRaise`), so from phase_ready_to_end and phase_ended too, and while the phase waits for its siblings:
`raise_objection` refuses nothing. `jump` and `end_prematurely` come at any time: in a state where
a jump makes no sense the code reports an error and sets its flags all the same. The graph is a constant: how `add` and `sync` build it is not modelled.
Bounds: `MaxJumps`; `max_ready_to_end_iter` is 1 and not 20, which shortens the loop; with 2 the run has 627,565 states and
the same outcome, but takes five minutes.

### Runs

| Run | What it shows |
|---|---|
| `Phase_domains` | two domains of task phases, synced phase by phase, and a function phase behind both; one jumps back or the other forward, prematurely or not: no node runs twice or before its predecessors are done, the tasks of a phase die with it, an objection holds its phase, a phase decides to end when nobody in the group objects and nobody is behind. The raises that come after the last look are excused (`unheard`). Under the fairness below, if components at last stop objecting, the run ends, whoever jumps. One round of phase_ready_to_end. 90,043 states |
| `Phase_late` | violation, same graph: the raises that `Phase_domains` excuses are real. A phase with no objection waits for its sibling to reach EXECUTING; its own tasks object meanwhile, `need_to_check_all` is not set (`uvm_phase.svh:2153`), and the phase ends over the objection (`NoObjectionIgnored`) |

Deadlock is off in both: a run ends. Fairness: the simulator goes on as long as something can run,
in whatever order (weak fairness of `Simulator` as a whole, not of each process), and drains end. `AllDone` speaks of runs in
which components at last stop objecting; nothing else is asked of them.

What else the model shows when its constants are changed, without a run of its own:

- Where three phases join in one (`JoinNodes` of `MCPhase`), each has two siblings. While a phase waits for the state
  of one, the other, which it has looked at, objects again (from its drain or its phase_ready_to_end), and nothing
  makes the phase look again: it ends although a sibling objects (`DecidesInAgreement` fails).
- A forward jump to a phase that another branch has scheduled already executes it twice (`RunNodes`:
  `ExecutedOnce` fails); so does a jump out of three parallel branches.
- After the last round of phase_ready_to_end the documentation lets the phase end "regardless of whether previous
  iteration had any objections raised" (`uvm_component.svh:577`). The code waits for these objections and only calls
  phase_ready_to_end no more (`EndsAfterMaxIterations` fails, also on the graph of `Phase_domains`).
- A task phase may end while its sibling, one NBA region behind, objects from phase_ready_to_end: the wait for a
  sibling passes as soon as it is EXECUTING. phase_ready_to_end is called for a phase while a sibling objects.
- Two function phases in parallel wait for each other for ever in `m_wait_for_pred`.
- The test at WAIT_FOR_ALL_DROPPED looks at the total of the top, which is zero while the root itself drains, so a
  phase may go on during the last drain.

### Proofs

`PhaseProofs.tla`, for every graph of phases and all jumps. `EdgeAssumption` is all that is asked of
the graph: who has a successor is among its predecessors. The reverse is not assumed, since
`uvm_phase::add` may leave a predecessor that has lost the edge (`base/uvm_phase.svh:978`).

`PhaseInv` says of `wait_for_self_and_siblings_to_drop` what its process still knows: unless it will look
again (`again`, the code's `need_to_check_all`), nothing objects to its own phase but what is unheard, and with
one sibling nothing of the list has been visited. `ObjectionsHold` is thus exact: every raise that finds the
phase with a look at its own objection to come is seen, whatever jumps, siblings and other raises do, and those that do
not are the ones that `Phase_late` shows to be ignored. Theorems: `PhaseBooks` (the invariant), `ObjectionsHold`,
and `EndInAgreement` where no task phase has more than one sibling; with two it is false (above).

`OnceEach` is `ExecutedOnce`, `InOrder` is `PredecessorsDone` and `NothingRunsOn` is `TasksKilled`, each
until the first jump. Their invariant (`OnceInv`, kept by `OnceKept`) ties the place of a process to the state of its node, says which predecessors are done and which the
process still waits for, and that no two processes are about to put the same node into the hopper (`OnePuts`): the
one that sets it SCHEDULED puts it, at once or after its `#0`. After a jump the three are false in general (above); what `Phase_domains`
shows of them with jumps is for its graph.

## 5. Fifos and the transport channel

### Model and code

`TlmFifo.tla` is a `uvm_tlm_fifo` as a record, with one operator per method; `TlmChannel.tla`
composes three of them: the request and the response fifo of a `uvm_tlm_transport_channel` and a
`uvm_tlm_analysis_fifo` at its `request_ap`. Callers use transport and nb_transport, a slave gets
requests (by get, by peek and get, or by can_get and try_get) and puts responses, a scoreboard reads
the analysis fifo and flushes it.

| TLA+ | Code |
|---|---|
| `m`, `puts`, `gets` | the mailbox and the processes that are in its put and get, in the order in which they are served |
| `m_pending_blocked_gets` | the member: up before the mailbox's get, down after it |
| `Unclaimed(f)` | the mailbox has an item that no blocked get will take, which is what `try_get` finds |
| `put`/`put_ends`, `get`/`get_ends` | the halves of a call that blocks |
| `orphans` | how many requests have no caller who will take the response: their callers were killed, or called nb_transport |
| `lost` | how many responses were lost with a slave that was killed while it waited to put them |
| `kill(p)` | a thread that waits, in a put, a get or a peek of any mailbox, is killed: its place in the mailbox goes, the count stays |

The mailbox is the language's. That an item is reserved for a blocked get before that process has
run is what the error message of `flush` speaks of; nothing else in `src/` depends on it.

A blocked put is ready when the mailbox has room; `put` and `try_put` of the code ask nothing else
(`uvm_tlm_fifos.svh:113`, `:145`).

### Run

`Tlm_channel`: three callers, one of which calls twice, a slave, a scoreboard, two kills at any
moment, no symmetry (liveness). 838,843 states. Deadlock is checked: the scoreboard may always flush.

- `ResponsesInOrder`: only the order of waiting ties a response to a caller. Without orphans and losses every
  caller gets its own; after k orphans and l losses there are k - l requests more than callers for good,
  so that each caller from then on may get the answer to another request.
- `CanGetIsSafe`: if can_get says yes, try_get finds an item that no blocked get is about to take. If it says
  no although try_get would succeed, a get is blocked, or one of this fifo was killed while it was.
- `FlushOrError`: after a flush the fifo is empty or the error is reported. A get that was killed
  counts as blocked too, but then the fifo is empty and nothing is reported.
- `TransportReturns`: with fairness of the callers and of the slave's loop every transport returns,
  unless there are three orphans more than losses: one in the fifo, one with the slave, and one request
  behind it are all the places of the channel, and it is full for ever; or more losses than orphans, when
  somebody waits for a response that never comes.

Two sentences of the library are false as they stand, and TLC says so when they are added to the run. "Returns 1 if a
new transaction can be provided immediately upon request, 0 otherwise" (`CanGetAsDocumented`, `uvm_tlm_ifs.svh:142`): with
one blocked get and two items, or for ever once a blocked get was killed, can_get says no and try_get succeeds.
"Upon return, the response argument carries the response to the request" (`AnswersItsRequest`,
`uvm_tlm_req_rsp.svh:317`): after an nb_transport that left without a response, the next transport returns the
answer to that request, without any kill.

Three callers are needed for the third orphan and somebody who waits behind it; two kills for one
that shifts and one that hides the shift.

### Proofs

`TlmProofs.tla`, for every number of callers, calls and kills. `ChannelInv` ties the three fifos to the
places of the threads: each list of a mailbox holds those who are at that place, once each, and the count
of blocked gets is the length of that list and the gets that were killed (`FifoOK`). With these `ResponsesInOrder` is
inductive: each step takes the same end off the callers that wait and off what is on its way to them, or counts
an orphan or a loss. Theorems: `Channel` (the
invariant), `InOrder`, `CanGetSafe`, `FlushIsTold`.

## 6. The barrier

### Model and code

`Barrier.tla` is a `uvm_barrier` and the parts of `uvm_event` it uses. `pc` says where a process
is: waiting for the event that `m_event` holds now, `stranded` on one that `m_event.reset()` has
replaced, woken and not yet run, or the last to come, which lets the others go first (`#0`).
`num_waiters` and `m_event_waiters` are the two counts of the code. `surplus` and `owed` are ghosts:
by how much the count exceeds those that wait, and which kills are yet to be cancelled.
Controls reset the barrier with and without a wake-up, change `auto_reset` and the threshold, kill a
process, and follow a kill by `cancel` and a lower threshold as `uvm_barrier.svh:161` asks, at any later
moment.

### Run

`Barrier_controlled`: four processes, two kills; 24,502 states. Deadlock is checked. Four are the
fewest with two that wait while one is killed and one is still to come.

- `CountsAgree`, `CountIsExact`: the counts agree, nobody is kept when enough are counted, and the
  count is the number of those that wait plus kills that nobody has cancelled less late cancels.
- `EverybodyPasses`: every process passes, but for two cases that the property names. A silent
  reset leaves its processes on an event that nobody triggers any more, so that the barrier never
  has enough again; a cancel that comes after the barrier has opened takes a living process off
  the count, and all wait for one that does not come.

Fairness: processes come again, a woken process runs, a kill is followed up. None of resets and
kills.

### Proof

`BarrierProofs.tla`, for every finite set of processes, every set of controls and every bound on kills:
`BarrierInv`, which is the types with `CountsAgree` and `CountIsExact`, is inductive. The event's
count is exact only because it is the barrier's, and an open barrier counts nobody only because
its count was below the threshold, so neither is inductive alone. Theorems: `BarrierCountsAgree`,
`BarrierCountIsExact`. The only assumption is `BarrierAssumption`.

## 7. The configuration database

### Model and code

`Regex.tla` is `dpi/uvm_regex.cc` on texts that are sequences of characters: `uvm_glob_to_re` character
by character, the brackets and the length limits, and `uvm_re_match` over `regcomp` and `regexec`, which
are the C library's and are defined for characters, `.`, escapes, `*` `+` `?`, anchors and `|`
(groups and bracket expressions of an expression between slashes are left out; a glob escapes them). `Config.tla` is
`uvm_config_db` on the queues of `uvm_resource_pool`:

| TLA+ | Code |
|---|---|
| `rtab[f]` | the queue of the name `f`, with type, key (component and instance name), scope, precedence, value |
| `set` | the whole of `set`: key look-up, precedence by the phase, write, move to the front, trigger of the waiters |
| `get` | `lookup_name` and `get_highest_precedence` |
| `m_waiters`, `wait_modified`, `modified` | the entries, and the two halves of `wait_modified` around its wait |
| `curr_phase`, `levels` | the root's phase, and how deep the components are that build has made |

### Run

`Config_settings`: five components, settings from three levels with each glob character and a regular expression,
names that only a dot taken for "any character" would cover, two types, two monitors, a kill,
three settings; 331,206 states. Deadlock is off: settings are counted and the run ends. Three settings
are one that wins, one that loses and a repetition of either, in every order and phase.

- `GetIsLatest` compares `get`, which searches queues through compiled expressions, with a definition
  that looks at the history of settings and at a recursive function for globs: the highest precedence, then the
  latest, whatever moved in between.
- `WaiterHasLast`: while a monitor waits, it has what `get` would return. Triggers of
  entries that killed monitors have left harm nobody.

Seen on the way: an empty instance name from the root is an empty scope, which covers every component
and not only the root; a `|` in a glob is not escaped and takes the parts beside it out of the anchors;
an expression between slashes that is given with a component other than the root gets the
component's name in front, and is then no longer an expression; `uvm_config_db.svh:126` says that a field name
may be a glob, which `set` does not do. Settings through `uvm_resource_db` wake no monitor (not modelled).

### Proofs

`ConfigProofs.tla`, for all components, names, types and monitors. `uvm_re_match` and `uvm_glob_to_re` are
not expanded: what they compute is defined by recursion on texts and stays with TLC. The invariant `ConfigInv` compares the
queue of a field with the history of settings: each resource is a setting, the latest in front (`QueuesOK`), and for
each setting there is a resource of its type and instance name that is at least as late and at least as strong
(`NothingForgotten`). That needs that the precedence of a component never falls from one setting to the next, and that a
write to an old resource moves it to the front.
Theorems: `Database` (the invariant), `NoChangeMissed` (`WaiterHasLast`), `GetIsLatestMatching` (get
returns the latest of the highest precedence among what the compiled scopes match) and
`LatestOfCovering`, which is `GetIsLatest` under `ScopesMeanWhatTheySay`: the compiled scope matches what
the glob covers. That hypothesis TLC evaluates for the names and scopes of the run (`McScopes` in `MCConfig`).

## 8. The HDL back door

### Model and code

`HdlDesign.tla` is what a simulator shows to the C code: objects with bits, forces, and the vectors
of words with four-valued bits (`s_vpi_vecval`). `HdlVcs`, `HdlQuesta` and `HdlInca` are the three
C files, an operator per function; a call maps a record of the design, the caller's vector, the
statics and the outcome to the set of records it may leave, a set because of what C leaves undefined.
`Hdl.tla` picks the back end as `uvm_hdl.c` does, makes each imported function an action,
puts poke and peek of a register on top, with any number of HDL copies cut into any slices, and lets the
design change in between. `HdlProperties.tla` holds the properties, `MCHdl.tla` the instance,
`HdlProofs.tla` the theorems.

| TLA+ | Code |
|---|---|
| `Vector`, `Bits`, `Memory` | the places of the caller's vector (`uvm_hdl_data_t`); those and what lies behind it, as far as the model looks: no put compares the width of an object with the maximum, so that a wider one takes what is there |
| `DefaultWidth` | what `uvm_hdl_max_width` of VCS and Questa returns when the parameter is not found, 1024 in the code (Incisive returns 0); where the vector is smaller, Questa clears beyond its end (`uvm_hdl_questa.c:255`) |
| `visible` | whether `uvm_pkg::UVM_HDL_MAX_WIDTH` is found, and so what `uvm_hdl_max_width` returns |
| `value` | the vector, with what the caller had in it |
| `partsel` | the static of `uvm_hdl_questa.c` |
| `Path` | a name: whole, one bit, or a slice in either direction, perhaps under `$root.` |
| `ForEach` | the two nested `foreach` loops of `backdoor_write` and `backdoor_read_func` |
| `Found` | how many bits of a slice are found before the first that is not |
| `finished` | `tf_dofinish`, or a crash after a double free |

### Run

`Hdl_backdoor`: words of two bits instead of 32 and vectors of three words, so that an object of three
bits crosses a word as one of 40 would; a Verilog variable of eight bits, which is wider than the vector, and a
`DefaultWidth` of eight; four builds (VCS, VCSMX, Questa, Incisive), with and without the
parameter, slices in both directions and beyond either end, VHDL objects of each format, and a register with a
sliced and a whole copy; 111,877 states. Deadlock is off: `tf_dofinish` ends a run.

- `WritesThePath`: a write changes the bits that the path names, in its order, and nothing else in the design; those
  that are wider than the vector get what lies behind it; a failing slice leaves each bit old or new;
  forces hold until they are released.
- `ReadsThePath`: a read returns those bits, whatever was in the vector and whatever
  calls came before.
- `NoLeftovers`: where the back end clears the vector first (not in Questa after a slice that failed has left
  `partsel` set), nothing is left above the value.
- `CopiesAgree`: a poke or peek that succeeds agrees with every copy, and the mirror with them.

Four sentences of `uvm_hdl.svh`, stated without exceptions, fail when they are checked, each with one
set of scenarios of `MCHdl`:

| Property | Scenarios | What the code does instead |
|---|---|---|
| `WithinMaxWidth` | `McHuge`, VCS | a put to an object wider than the maximum succeeds with what lies behind the vector (`uvm_hdl_vcs.c:93`, the other two alike) |
| `DepositSets` | `McWide`, Incisive | a VHDL object gets a 1 for a Z or an X (`uvm_hdl_inca.c:275`) |
| `ReadGets` | `McReads`, Incisive | a VHDL object of two words is read with the words in the wrong places (`uvm_hdl_inca.c:487`) |
| `ReleaseReads` | `McSlices`, Questa | release_and_read of a slice leaves the caller's vector as it was (`uvm_hdl_questa.c:104`) |

What the properties exclude, each by name, is what the model found the code to do: VHDL values
other than 0 and 1 are not carried, because `vhpi2val` (`uvm_hdl_inca.c:275`) forms its index with `&&`
and `||` and VCSMX goes through decimal digits, where a word with its sign bit set loses the sign and
comes back as its magnitude (`uvm_hdl_vcs.c:216`); VHDL objects of more than one word are read with the
words filled from the wrong end, from a buffer that is freed once per word (`uvm_hdl_inca.c:527`); a read of an unknown name has no
return statement in VCSMX (`uvm_hdl_vcs.c:281`) and switches over an uninitialised variable in Incisive
(`uvm_hdl_inca.c:577`); a slice that Questa fails to read leaves `partsel` set, so that later
reads do not clear their vectors (`uvm_hdl_questa.c:156`). Also seen: release_and_read of a slice
in Incisive releases and reports a failure; the mirror follows a poke whose status is an error, with some of the copies
written and some not.
`uvm_hdl_force_time` is left out: it waits in simulation time and is a force and a
release_and_read otherwise.

### Proofs

All four properties are proved in `HdlProofs.tla` for every design, every word size and width of the
vector, every path and vector and every change of the design, in all four builds, and with the exceptions
that their definitions name: of VHDL objects, `WritesThePath` tells what is stored only of values of 0 and
1 within a word (`Carried`), `ReadsThePath` what is read only of objects within a word. `DesignAssumption`
asks of objects and widths only that the model looks as far as they reach (`Memory`), not that they fit the vector
(an enumeration has one element, which is what `vhpiEnumVal` gives),
`ScenarioAssumption` and `RegisterAssumption` give the constants their types: a register that is poked has an
HDL path.

The argument goes from the simulator upwards. Places and indexes of a slice are inverse to each other,
in either direction (`Places`); a put changes the bits that it is given (`PutFacts`, `PutWrites`);
a get shows the bits of its path (`HandleReads`). Each C function then takes a record of `Calls` to a record of
`Calls` and does what `WriteDone` or `ReadDone` says: one value for a name that VPI finds (`VcsVlogDone`,
`QuestaHandle`, `IncaVlogDone`), bit by bit up to the first bit that is not found for a slice (`FoundFacts`,
`PartselWrites`, `PartselReads`), digit by digit for VHDL objects (`VcsSetMhdlDone`, `IncaDigits`,
`EnumVecFacts`). `CallDone` puts the three back ends together.

The inductive invariant is `BackdoorInv`: values have their ranges, an integer of VHDL holds digits,
and under Incisive it is never forced. The last is what `WritesThePath` needs of the past: Incisive
puts no integer, also not to release it (`uvm_hdl_inca.c:335`), and a release_and_read succeeds all the same
when its read does (`uvm_hdl_inca.c:635`), which is harmless only because nothing can have forced one.

A register is a loop over copies and in it one over slices. `CommonLemmas.tla` proves that a loop of this
form has a value after each round and keeps what each of its rounds keeps (`LoopExists`, `LoopKeeps`); the
lemmas `WriteCopyLoop` to `BackdoorReadLoop` apply this to the four loops. What a loop keeps is `Poked`: the slices
so far hold their parts of the value, but for forced bits; and `Peeked`: all copies so far hold what the first
one gave.

Theorems: `Backdoor`, the invariant; `WritesNamed` for `WritesThePath`; `ReadsNamed` for `ReadsThePath`;
`VectorsClean` for `NoLeftovers`; and `RegisterCopies` for `CopiesAgree`, under `WellMapped`, since
`add_hdl_path` takes any slices: those of a copy share no place of the register, a bit of the design
has one place, and each slice is a part of a Verilog variable and no wider than its part of the register. Without the
first two a later slice overwrites an earlier one; bits outside the slice or the variable are not there to
agree; and of a VHDL "H" the peek makes a 0. The instance of the run is `WellMapped` (`McWellMapped`).

## 9. What is proved and what is not

Proved for every value of the constants:

| Part | Theorems |
|---|---|
| Sequencer (section 2) | one item in flight, no item_done lost but by a later wait_for_item_done, nothing left behind, no fatal of the handshake, nobody forgotten, a stop ends all, the exchange of items is implemented, the driver wakes, no null request, locks and priority respected |
| Objection (3) | totals are sums, drains are quiet, "all dropped" is last, no fatal, the promise is kept |
| Phases (4) | an objection that finds a look to come holds its phase, siblings end in agreement (at most one each), until the first jump once each, in order and without tasks left |
| Channel (5) | responses in order up to orphans and losses, can_get never says too much, flush or error |
| Barrier (6) | the counts agree and are exact |
| Configuration (7) | get returns the latest of the highest precedence, no change is missed |
| HDL back door (8) | writes and reads do what the path names, for what the code carries, vectors are clean, the copies of a register agree |

Each hypothesis beyond the assumptions on the constants (`WellBehaved`, no thread killed alone, `SingleCalls`, at most one sibling, no
jump yet, `ScopesMeanWhatTheySay`, `WellMapped`) is there because the theorem is false or open without it; the sections say which and why.

Only model-checked, on the instances above:

- liveness, which is out of the prover's reach: `EventuallyGranted`, `EventuallyLocked`, `EventuallyDone`,
  `WaiterReleased`, `AllDone`, `TransportReturns`, `EverybodyPasses`;
- phases after a jump, where the properties depend on the graph;
- what functions that are defined by recursion on texts compute: globs and expressions (section 7).

An induction over a number is not out of reach where the statement is a set of numbers: `CommonLemmas.tla`
has the induction for sets (`NatInductionOnSets`) and the least element, removal from a sequence, and loops.

## 10. Not modelled

`PROJECT.json` gives the reason for every component. In the modelled ones: responses and
`last_req`/`last_rsp`, set_arbitration during a run, sequence libraries, transaction recording
and the automatic phase objection of a sequence; of the objection, `wait_for` of single raises
and drops, get_objectors, trace output and `uvm_test_done`; of phases, the construction of the
graph, the phase timeout, callbacks and the OVM run semantic; of TLM 1, ports, exports and the put
and get analysis ports of a fifo; of events, everything the barrier does not use; of resources, the look-up
by type, access records and the spell checker; of registers, everything but the back-door poke and peek;
of the C code, the command line and the formatting of reports.

## 11. Plan

1. Proofs: the properties of phases after one jump inside one schedule.
2. Response routing: `put_response`, the response queue of a sequence and its overflow, by
   transaction id; the automatic phase objection of a sequence, whose end by stop_sequences does
   not drop it.
3. `RegAccess`: the access semaphore of a register and the mirror under front-door write, read and
   predict; `RegField`: the access policies against a reference table; `MemMam`: the allocator,
   with the proof that regions do not overlap.
4. `Heartbeat`, on the promise of the objection; `Callbacks` and `Factory`: queues and override
   chains as functions, checked against their documented order over bounded inputs.

Each component keeps one or two runs whose properties are the ones that several steps can break.
