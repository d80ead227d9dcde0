# A verification development of the WD RISC-V firmware package

This directory holds TLA+ models of the firmware package under
`src/WD-Firmware`, the TLC configurations that model-check them on small
instances, and theorems about them, for every value of the constants, that the
TLA+ proof system checks. It models what the code does. Where a comment, a
document or an assertion of the repository says something else, a run shows the
difference.

Contents: 1. the system, 2. what is modelled, 3. the modules and the code,
4. the runs, 5. bounds, 6. fairness, 7. proofs, 8. findings, 9. what is only
model-checked, 10. what is not modelled, 11. how the project grew, 12. how to
run it.

## 1. The system

The package is C and assembly for Western Digital's SweRV cores EH1 (one hart),
EH2 (two harts that share memory, interrupt controller and timer) and EL2, and
for SiFive's HiFive1. Its layers, from below:

| layer | where | what it is |
|---|---|---|
| board support | `board/*/` | start-up code, linker scripts, UART printing, routing of the machine timer, the trigger register that raises external interrupts |
| PSP | `psp/` | processor support: interrupts, external interrupts, NMI, timers, counters, caches, and for EH2 atomics and mutexes |
| RTOS core | `rtos/rtos_core/freertos/` | FreeRTOS 10.2.0, vendored, with a port by WD (`portmacro.h`, `portASM.S`) |
| rtosal | `rtos/rtosal/` | the RTOS abstraction layer: tasks, queues, semaphores, mutexes, event groups, timers as wrappers of FreeRTOS; trap entry and exit |
| CTI | `cti/` | test framework and tests |
| demos | `demo/` | one program per feature, and `demo_multi_harts.c`, `demo_rtosal.c` that use several |
| ComRV | `riscv-overlay` | overlay engine: a git submodule that is empty in the tree |

### Inventory

**PSP internal mutexes** (`psp_internal_mutex_eh2.c`, `psp_atomics_eh2.c`).
State: an array of lock words, one per resource PSP shares between harts.
Operations: initialise all, lock (swap until 0 is read), unlock (store 0). Used
by the mutex heap, the external interrupts, the cache control and the error
counters. Hard: the lock is not fair and not recursive, it does not disable
interrupts, and its words are garbage until `pspInternalMutexInit`. Correct: one
holder at a time; the word is set exactly while there is one.

**PSP application mutexes** (`psp_mutex_eh2.c`). State: address and size of a
heap of control blocks the application provides; in each block a lock word, an
occupied bit and the creator. Operations: initialise the heap, Create, Destroy,
AtomicLock, AtomicUnlock. Create, Destroy and the initialisation run under an
internal mutex; lock and unlock work on the block alone. Hard: two harts at any
two instructions; the protocol of who may use and destroy a block. Correct:
holders exclude; a created mutex is fresh; blocks agree with what callers were
told; no path loses the internal mutex.

**PSP external interrupts** (`psp_ext_interrupts_eh2.c`; the board's
`bsp_external_interrupts.c`). State: registers of the PIC that both harts share
(enable, delegation, priority, gateway control, priority order), registers of
each hart (thresholds, captured line and priority), a table of handlers per
hart. Operations: a service per register, registration of a handler, the ISR
that captures a claim and calls the handler. Services take an internal mutex and
disable the hart's interrupts around the register access, in this order. Hard:
interrupts at every instruction, services of the other hart between a trap and
its capture, handlers that call services, nested disable and restore. Correct:
registers change under the lock; no gateway bit is lost; a trap finds a handler
and a current claim; interrupts come back on; lines that stay pending are
served.

**PSP interrupts, NMI, error counters, cache control** (`psp_interrupts*.c`,
`psp_nmi_*.c`, `psp_corr_err_cnt_*.c`, `psp_cache_control_*.c`). State: handler
tables (per hart on EH2, but one NMI table for both), the NMI delegation
register, shared CSRs of two bits per region or of thresholds. Operations:
register a handler, enable and disable an interrupt, set and clear bits. Hard:
registration against delivery; one table for two harts. Not modelled (section
10).

**PSP timers and counters** (`psp_timers.c`, `psp_internal_timers_*.c`,
`psp_performance_monitor_*.c`, `psp_pmc_eh1.c`). State: `mtime` and one
`mtimecmp` for both harts, two internal timers per hart, counter CSRs.
Operations: arm, read, enable. Hard: two harts arm one compare register; 64-bit
values are read and written in halves. Modelled: the shared compare register as
the demo uses it.

**The FreeRTOS port and rtosal's traps** (`portmacro.h`, `portASM.S`,
`rtosal_macros.inc`, `rtosal_int_vect_*.S`, `rtosal_util.c`). State:
`g_uInterruptsDisableCounter` and `g_uInterruptsPreserveMask`, two globals that
all tasks share, the nesting count of each task, `mstatus.MIE` and `MPIE`, the
interrupt-context count. Operations: disable and enable, enter and exit a
critical section, yield, trap entry and return, start of the scheduler. Hard: an
interrupt and a switch of tasks between any two accesses of the globals;
`mstatus` is not part of a task's context. Correct: sections are not interrupted
and exclude; interrupts come back on; the count is exact.

**FreeRTOS kernel** (`tasks.c`, `list.c`). State: a ready list per priority,
each a ring with an index, and a bit map of the priorities with ready tasks;
lists of delayed, overflow-delayed, suspended and pending tasks, event lists of
the objects, tick count with overflow count, cached next unblock time, pended
ticks, suspension count, base and inherited priority of each task. Operations
used by objects: suspend and resume the scheduler, place a task on an event list,
wake one, abort a wait, tick, check a time-out, inherit and disinherit a
priority, select the next task. Hard: what interrupts do while the scheduler is
suspended is finished later; tick counts wrap; each move between ready lists has
its bit to keep. Correct: a task waits in one place; nobody sleeps longer than he
asked; the highest ready task runs.

**Message queues** (`rtosal_queue.c`, `queue.c`). State: a ring buffer with two
pointers and a count, two event lists, two lock counts. Operations: send to back
or front, receive, the same from an ISR, and the path into a wait (suspend, lock,
check the time-out, look again, join the event list, unlock, resume). Hard: an
interrupt at each of those steps; time-outs; aborts. Correct: FIFO, each item
once; no lost wakeup; no early return.

**Semaphores and mutexes** (`rtosal_semaphore.c`, `rtosal_mutex.c` over
`queue.c`). State: a count, a holder, an event list and a lock count per object.
Operations: take with a time-out, give, both from an ISR. Hard: priority
inheritance and its end, after a time-out too; gives by interrupts while a task is
on its way into a wait. Correct: no inversion; a raised priority has a reason; no
give is lost; the switch that a call makes necessary happens.

**Tasks** (`rtosal_task.c` over `tasks.c`). Operations: create, destroy, suspend,
resume (also from an ISR), sleep, yield, change of priority, abort of a wait; the
idle task frees what destroyed itself. Hard: every call on a task in any state, in
the middle of a call of its own. Correct: a task is in exactly the lists its state
asks for; the highest ready task runs; a suspended task stays so.

**Event groups** (`rtosal_event.c` over `event_groups.c`). State: the bits, the
waiters with what they wait for in the value of their event items. Operations:
create, destroy, get (any or all, clearing or not, with a time-out), set, and set
from an ISR, which the timer daemon carries out. Hard: one set wakes several tasks
of which one clears; time-outs race sets. Correct: no wait misses its bits; a set
reaches all it satisfies.

**Software timers** (`rtosal_time.c` over `timers.c`). State: two sorted lists of
timers, of this and of the next round of the tick count; a queue of commands.
Operations: start, stop, change of period, delete, posted by anybody and carried
out by the daemon. Hard: a command, its handling, the expiry and the wrap of the
tick count in any order; a daemon that lags. Correct: never early, never slept
past, in the old rhythm after a delay.

**CTI and demos.** CTI walks tables of tests sequentially. `demo_multi_harts.c`
is a concurrent program over atomics, mutexes and the timer: sync points,
shared accumulation, mutual exclusion, timer interrupts on both harts; modelled
whole from the first sync point. `demo_external_interrupts.c` gives the model of
the PIC its start-up, programs and handlers. `demo_rtosal.c` (two tasks, a queue,
a semaphore from the tick) is one of the programs the models of queues and
semaphores admit.

### How they interact

PSP services share the internal mutexes; external interrupts and mutex heap use
different words of one array. Handlers call back into PSP services. rtosal calls
FreeRTOS; FreeRTOS calls the port; the port calls PSP's interrupt functions; the
trap code calls `vTaskSwitchContext` and `rtosalTick`, which calls
`xTaskIncrementTick`. Demos call PSP and rtosal from both harts or from tasks
and from handlers.

## 2. What is modelled

| component | modules | status |
|---|---|---|
| PSP internal mutexes, application mutexes | PspInternalMutex, PspMutex, MutexService | modelled, checked, proved |
| port of FreeRTOS, traps | RtosalPort | modelled but for register frames and tables; checked, proved |
| PSP external interrupts of EH2, board trigger | PspExtInterrupts | modelled but for read-only services; checked, proved |
| demo multi-harts | PspDemoMultiHarts | modelled from its first sync point; checked, proved |
| kernel: lists, tick count, suspension | RtosLists, RtosKernel | what queues block on, with the tick count's width; checked, proved |
| kernel: ready lists, choice of the task that runs, inheritance | RtosLists, RtosScheduler | with relative time; checked, proved; inheritance for at most one mutex |
| message queues | RtosalQueue, MessageQueue | modelled but for creation and destruction; checked, proved |
| semaphores and mutexes | RtosalMutex | modelled but for destruction; checked; proved for at most one mutex and any semaphores |
| tasks | RtosalTask | modelled but for the end of the scheduler and the queries; checked, proved |
| software timers | RtosalTimer | modelled but for the queries; checked, safety proved |
| event groups | RtosalEventGroup | every call of rtosal; checked, safety proved |

`PROJECT.json` lists every component with its status, maps every definition to
the lines it stands for, and lists the hazards with the properties that cover
them.

## 3. The modules and the code

**PspInternalMutex** holds the lock words and the operators other modules call:
a lock is a step with the guard that the swap reads 0.

**PspMutex** has one step per shared access of `psp_mutex_eh2.c`: `create_lock`,
`create_scan`, `create_mark`, `create_free`, `create_unlock` are the places in
`pspMutexCreate`, and so for Destroy and the initialisation. The scan is the loop
as written: it never advances its pointer. `held` and `live` record what the
application was told. With `Disciplined` an application uses a mutex only while
it exists and destroys it only when nobody uses it, as `psp_mutex_eh2.h` asks;
without it any call may be made at any time. Start-up is that of the demo: the
boot hart initialises, then the other starts.

**MutexService** is what the API promises: a pool of mutexes with a creator and
an owner each. `ImplementsMutexService` is the refinement; Create and Destroy
take effect when they return.

**PspDemoMultiHarts** extends PspMutex with the demo as the application: the
atomics' `lr`/`sc` pairs are a read and a compare-and-set that may fail, the
shared timer is one bit `due`, the ISR counts and re-arms. It runs PspMutex with
`Disciplined = FALSE`; that the demo keeps the discipline is a result
(`ImplementsMutexService` again).

**PspExtInterrupts** gives a hart two contexts: the application, and one
interrupt that arrives wherever MIE is set. A call is a record of the service,
its line and the places of its code. A service is lock, disable, write, unlock;
`pspMachineExtInterruptRegisterISR` nests two of them inside its own disable.
`Trap` is the hardware, `Capture` the write of MEICPCT, `CallHandler` the jump
through the table. `requested`, `registered` and `triggered` record what was
asked, to compare with the registers. A disciplined application gives a line its type and
polarity before it enables it; the handler may come later, as in
`demoDefaultInitialization`, as long as all interrupts are off, and they are turned on
when every enabled line has one (`SetUp`, `EnableInterrupts`).

**RtosalPort** has a step per access of the two globals and of `mstatus`:
`clear`, `load`, `store`, `nest` in `vTaskEnterCritical` through
`portDISABLE_INTERRUPTS`, `reset` and `enable` on the way out, `trap` for entry,
handler and return. `calm` says that until now no interrupt came before the first
section was left and no task yielded inside one. `raced` says that a trap has returned,
interrupts off, between the test of the counter and the clearing: what
`portDISABLE_INTERRUPTS` then saves is the MIE of the task that ran before.

**RtosLists** is `list.c` as far as the proofs reach: a list is the sequence of its
items, `Drop` takes items out of it, wherever they stand, and `Turn` moves the index of
a ring on. `Drop` is a recursive function of the place in the list, so that it can be proved about; the loops of
RtosKernel and RtosScheduler over lists and pended ticks are recursive functions
for the same reason.

**RtosKernel** gives the kernel functions as operators: `RemoveFromEventList`,
`vTaskPlaceOnEventList`, `ResumeAll`, `TickInterrupt`, `AbortState` and
`AbortEvent`. A critical section is one step, which RtosalPort justifies as long
as the program is calm. Lists of tasks are a function from tasks to list names;
event lists and the pending list are sequences because their order matters.
Which ready task runs is left open: every priority scheme is a subset of the
behaviours, so that what holds for the queue holds for every assignment of
priorities. Which task runs is the subject of RtosScheduler.

**RtosalQueue** extends it with the queue. The places of a call are those of
`xQueueGenericSend` and `xQueueReceive`: `try` (the first critical section),
`suspend`, `lock`, `check` (`xTaskCheckForTimeOut`), `full`, `place`,
`unlock_tx`, `unlock_rx`, `resume`, `recheck`. `IsrSend`, `IsrReceive` and `Tick`
come between any two. `clock` counts the ticks of a call and `aborted` remembers
aborts; both are only there for the properties.

**MessageQueue** is the promise of the queue: a sequence with two entrances and
one exit, and the value each call was given.

**RtosScheduler** is the other half of the kernel. The scheduler's variables are
one record, and a kernel function is an operator from the record before to the one
after: `vTaskSwitchContext`, `xTaskRemoveFromEventList`, `xTaskResumeAll`,
`xTaskPriorityInherit`, `xTaskPriorityDisinherit`,
`vTaskPriorityDisinheritAfterTimeout`, the tick. A caller composes them in the
order of the code. A ready list is a sequence with the end marker in it, written
from behind the index, so that round robin and the place of a new item are those
of `list.h`. Time is relative here: a delayed task has the ticks still to come. The
absolute tick count and its wrap are in RtosKernel and RtosalTimer. A yield in a
critical section switches at once (it is an `ecall`), so it is the last thing an
operator does. A call that resumes the scheduler and then yields is one step
(`ResumeAndYield`): for the properties stated, an interrupt between the two is as one
after the yield (`queue.c:1567-1569`, `tasks.c:1354-1365`). `configASSERT` stops the system: `halted`.

**RtosalMutex** extends it with the queues without items. The places are those of
`xQueueSemaphoreTake`: `try`, `suspend`, `wait` (look at the time-out, look at the
count, inherit, block), `unlock...`, `recheck`, `disinherit`. Only the task that
was selected takes steps; `GiveFromISR`, `TakeFromISR` and `Tick` come between any
two. The last part of the module is the inductive invariant.

**RtosalTask** extends RtosalMutex with the task services, so that their targets
are in the middle of waits. `created`, `dontStart` and `suspendNew` are the
places of `rtosalTaskCreate`, `abort` is between the two halves of
`xTaskAbortDelay`, and `yield` between a critical section and the yield behind it.
A task that is created starts without a call, whatever the one that had its control
block before was doing. The last part of the module is the inductive invariant.

**RtosalTimer** has the daemon's loop as places (`process`, `blocked`, `expired`,
`switch`, `commands`, `handle`), with its local variables in a record, the two lists
and the queue of commands; `Post` is `xTimerGenericCommand` called by anybody. The
arithmetic is the code's, modulo `Wrap`. A start carries the tick count its caller
read before it posted, up to `MaxLate` ticks ago. `left` counts down to the time a timer
ought to expire, and `overtaken` remembers whose own command of the daemon was
overtaken: both are there for the properties only. The last part of the module, like
that of RtosalQueue, is the inductive invariant, so that TLC can check it too.

**RtosalEventGroup** is over RtosScheduler too: `Get` and `Return` are the halves of
`xEventGroupWaitBits`, `Visit` is the body of the loop in `xEventGroupSetBits`,
`VisitAll` and `RemoveAll` are the loops of a set and of the destruction, as recursive
functions, and the daemon is the task that carries out what interrupts post.

MC modules give the constants values, and for the queue a symmetry over the items
and a view that forgets the overflow parity where no call has recorded one, and
stale slots of the ring.

## 4. The runs

| run | what it shows |
|---|---|
| `mutex_safety` | two harts under the documented discipline: blocks agree with handles, a created mutex is fresh, holders exclude, the API implements MutexService, and a hart spins for ever for heap management only under endless traffic of others |
| `mutex_create_full` (violation) | Create returns NULL although another block is free |
| `port` | three tasks that nest, yield and are interrupted: the interrupt-context count is exact; while calm, sections exclude and are not interrupted, and MIE comes back; and calm or not, a task that takes over MIE from one that yields in a section does not keep it off past a section of its own, but for the race of `port_lost` |
| `port_lost` (violation) | a task preempted inside the disable saves the cleared MIE of another; MIE never comes back |
| `pic_owner` | two harts with a line each: a trap finds handler, line and priority, interrupts come back on |
| `pic_edge` | an edge line whose gateway both harts configure: registers change under the lock, no bit is lost, the line is served |
| `demo_multi_harts` | the demo's sync points are barriers up to the end message, no increment is lost, and it always ends |
| `queue` | tasks wait in one place, no wakeup is lost, waits end on time and not early, the queue implements MessageQueue |
| `rtosal_mutex` | three priorities, a mutex and a semaphore: ready lists and their bits stay exact, no inversion, a raised priority always has a waiter, no give is lost, the switch a call needs happens |
| `rtosal_task` | tasks act on each other in any state, a semaphore's waits included: every task is in exactly the lists its state asks for, the highest ready one runs, a suspended one stays so |
| `rtosal_timer` | a periodic and a one-shot timer over a wrapping tick count and a lagging daemon: the two lists are one schedule, no callback is early, the daemon does not oversleep, missed periods are caught up in rhythm, due timers expire |
| `event_group` | any and all, clearing, time-outs, sets from tasks and interrupts, destruction: no event is missed, a set reaches every waiter it satisfies, the daemon gets its turn |

Runs that allow a state without successor say so: the demo ends, and in the PIC
runs a handler can wait for a lock its own hart holds
(`PspExtInterrupts_clear.cfg`), and an assertion of the kernel that fails stops
the models of mutexes, tasks, timers and event groups as it does the system.

Eleven more configurations are not among the runs above; each checks one property
and ends in a counterexample that section 8 explains: `RtosalPort_early.cfg`,
`RtosalPort_mstatus.cfg`, `PspExtInterrupts_spurious.cfg`, `PspExtInterrupts_clear.cfg`,
`RtosalQueue_abort.cfg`, `RtosalMutex_race.cfg`, `RtosalMutex_yield.cfg`,
`RtosalTask_abort.cfg`, `RtosalTimer_stop.cfg`, `RtosalTimer_flood.cfg` and
`RtosalEventGroup_destroyed.cfg`.

Some hazards of `PROJECT.json` name no property of a passing run, because the code does
not keep them off: the wait of a handler for its own hart, a line that the other hart
disables between trap and capture, an abort that ends a later wait, the assertion about
inheritance, and a wait that outlives its event group. A configuration above shows each.
`HandlerFound` and `ClaimIsCurrent` hold because no hart touches a line of the other, and
`EarlyReturnNeedsAbort` counts any abort of the task. `KeepsPeriod` says nothing of a
catch-up that a command overtakes, and `DueTimersExpire` nothing of timers under an endless
stream of commands; the two timer configurations show these. What a task that is not to
start does before its suspension is in the model of tasks without a property, and the
halves of `mtime` are in no model.

Each property of a passing run has a mutant in `PROJECT.json`: a definition
changed as a plausible bug would, such as a dropped lock, a missing count or a
late wrap of a pointer, under which TLC finds the property violated.

## 5. Bounds, and why they are enough

- Two harts are all EH2 has. Two blocks show everything the heap does: the scan
  never passes the first, and one other is what it should have found.
- `Iterations = 3`, `ArraySize = 2` and two and three timer interrupts in the demo:
  enough that both harts are inside each loop at different turns and that a
  hart's timer is armed over the other's.
- PIC: one or two lines with two priorities. Two lines of different harts show
  delegation and the rows of the table; two priorities show threshold and nesting
  registers. Each run has the services its question needs (`Services`), since
  together they exceed what can be searched; the theorems about this module hold
  for every mix of services, lines and priorities. `Shared` names the services both harts call for any
  line.
- Port: three tasks, nesting of two, a counter up to `MaxDisables = 4`, at which
  no section nests further and no interrupt comes. Three tasks are one that is
  switched out, one that runs and one that is switched to. The theorems about
  this module hold for any bounds.
- Queue: two tasks, length two, `TickModulus = 4` (so the tick count wraps in
  every other wait, and portMAX_DELAY is 3), one pended tick, one count on a
  locked queue, three ticks per call that counts them (`MaxElapsed`). Requests:
  one task receives with time-out 2 or sends without end, the other receives with
  time-out 1 and aborts the first; handlers do everything. A call counts no more
  ticks than there are in one turn of the tick count (`MaxElapsed <= TickModulus`,
  an assumption of the theorems too): a time-out is below that by its type, and
  beyond it what the code records does not tell the time (section 8). `MaxLock`
  bounds the count of a locked queue, an `int8_t` in the code, far below 127: the
  overflow after 128 posts in one suspension is not reached.
- Mutex: three tasks of three priorities are what an inversion takes, with one
  mutex and one semaphore, time-outs of one tick or none at all, one tick and two
  gives of interrupts in one suspension (`MaxPendedTicks`, `MaxLockedGives`).
  `Nested = FALSE`: a task that holds a mutex does not wait for another; holding
  a mutex while waiting for the semaphore is allowed and happens. What two mutexes
  add is in section 7.
- Task: two tasks beside the idle task, of which one creates and commands the other,
  and a semaphore to wait for. Priorities range over all there are, so either can be
  the higher. There is no mutex in this run: a change of priority of a task that has
  inherited one and then loses it to a time-out is not reached (section 8).
- Timer: `Wrap = 8` with periods of 1 and 2, a queue of two commands, and a daemon
  that lags up to `MaxLate = 2` ticks: every order of command, handling, expiry and
  wrap fits into one round. `MaxLate` bounds how late a listed timer, a queued command
  and the daemon's next look at the time may be, and how old the tick count is that a start
  carries: its caller may have been preempted since it read it. The model and the theorems assume
  `MaxLate >= 1`, `Wrap > MaxLate + 2` and periods up to `Wrap - MaxLate - 2`: with a
  32-bit tick count, that the daemon never lags so far that its lag and a period
  together make a turn of the count. The code's unsigned differences need that.
- Event group: three tasks, of which one has the daemon's priority, two bits, any, all
  and clearing requests so that two waiters are satisfied by one set, a queue of two
  calls for the daemon.

## 6. Fairness

- PspMutex: weak fairness of a hart's steps inside PSP (a hart does not stop),
  strong fairness of the unlock of a mutex it holds (documented use: a holder
  unlocks). Nothing is assumed of the spin lock: the liveness properties say that
  a hart starves only if others lock and unlock for ever.
- PspExtInterrupts: weak fairness of a hart's steps in a call, and strong fairness
  of the trap: the hardware takes an interrupt that is offered whenever MIE is
  set again and again. Applications need not do anything.
- PspDemoMultiHarts: weak fairness of the harts and of time, and strong fairness
  of the compare-and-set: the ISA guarantees that `lr`/`sc` loops of this form
  eventually succeed.
- RtosalTimer: weak fairness of the daemon, which has the highest priority and does
  not stop by itself, and of the tick. Posts have none: they may stop
  or never stop. `DueTimersExpire` says that a timer that is due does expire unless the
  system has halted, or posts go on for ever and the daemon never comes back to its
  lists; `RtosalTimer_flood.cfg` shows that the last case happens. Callbacks take no
  time beyond the lag: overload by callbacks alone is out of the model's reach.
- RtosalEventGroup: weak fairness of the tick alone (`TickCounted`). Who runs is the
  scheduler's decision, and a task that never blocks may keep running; that the
  daemon runs nevertheless is what `DaemonIsNotStarved` says.
- RtosalPort, RtosalQueue, RtosalMutex and RtosalTask: none; only safety is claimed. Lost wakeups are
  stated as an invariant (`NoLostWakeup`), which needs no fairness and no
  assumption about the scheduler.

## 7. Proofs

All in `*Proofs` modules, checked by tlapm, for every value of the constants that
the named assumptions allow.

**PspMutexProofs.** `TypeCorrectness`, `HeapManagementIsExclusive` and
`BlocksAgreeWithHandles` hold for any application; `MutualExclusion`,
`DestroyIsTheCreators`, `CreatedMutexIsFresh` and `MutexesImplementTheService`, the
refinement of MutexService, assume `Disciplined`. None of these properties is
inductive. `IndInv` adds the order of start-up (`StartUpInv`),
what a hart's locals mean at each place (`LocalsInv`), that what Create and
Destroy checked still holds when they act (`CheckedInv`, which needs that only
one hart is in heap management), and what a block says while it is being created
or destroyed (`BlockInv`). `LockWordInv` adds that the lock word is set exactly
while one hart holds it. The refinement needs `RemovalInv` besides: a Destroy that
has cleared a block was called by the hart the block belongs to, which the cleared
block no longer says. Four steps are steps of the service (`ServiceStep`): Create and
Destroy at their returns, Lock at the swap that reads 0, Unlock at its store; all
others leave it alone. Assumptions: the harts are among 0 and 1 (one creator
bit), the boot hart is one of them, the heap has at least one block.

The second part of the module is about the demo: `SyncPointsHold` and
`AccumulationIsExact`, for every number of iterations, array size and number of timer
interrupts. `DemoInv` says which
places of a hart go together (`PlaceInv`), that each sync-point counter is the number
of harts that have arrived there (`SyncInv`), that the shared counter is the
sum of what the two harts have added so far (`AccumulatedInv`), how many timer interrupts each hart has counted
(`TimerInv`) and that the end is printed after both (`EndInv`). Assumptions: the harts
are among 0 and 1, the boot hart is 0, the numbers are positive.

**RtosalPortProofs.** `PortTypeCorrectness` and `InterruptContextIsExact` hold of
every program, from `PortInv`. `ForeignMieIsGivenBack` holds of
every program too, with yields inside sections and early interrupts. It needs `MaskInv`:
without the race, MIE is clear only where the counter, or a place after the clearing, tells
so, and then the mask is 1, whoever cleared MIE; so the end of the outermost section sets
it. The three `Calm...` theorems rest on `CalmInv`:
a task that does not run is at a place where it has disabled nothing
(`Suspended`), the counter is not 0 until the first section is left (`StartInv`),
and from then on counter, mask and MIE tell where the current task is
(`SettledInv`). The `calm` guard is what the code needs: `port_early` and
`port_lost` show what happens without it.

**PspExtInterruptsProofs.** `PicTypeCorrectness`, `PicSectionsAreExclusive`,
`NoGatewayBitIsLost` and `InterruptsAlwaysComeBack` hold for every set of lines,
every owner, and whatever services the applications call for whatever line
(`Disciplined` or not). `CallInv` says what a call's record means at each place;
`SectionInv` that one context of one hart, application or handler, is between
lock and unlock; `GatewayInv` that what SetType or SetPolarity loaded is still in
the register when it stores, which needs `SectionInv`; `MieInv` where MIE is clear
and who has saved which value of it: the services restore what they saved,
`RegisterISR` restores what it saved around two of them, and a trap comes only
where nobody has saved anything. Each step is first reduced to what it does to
the running context (`StepsMove`, `CallsMove`, `TrapsMove`). Assumption: the harts
are among 0 and 1.

The last part of the module is about who owns a line. `HandlerIsFound` and
`ClaimsAreCurrent` assume `Disciplined` and that no service is shared, for every set of lines, owners and
services. `DisciplinedInv` has four parts beside `PicInv`: a call in progress is for
a line of its own hart (`OwnedInv`), a registered line keeps its handler and its
delegation and an enabled one is set up (`LinesInv`), the board raises one line, and
one hart clears it (`BoardInv`), and from the trap to the handler that line stays
deliverable (`ClaimInv`). The argument is one of frames: no step takes back what a
set-up has reached (`SteadyStep`), and a hart does not touch the triggered line of
the other (`OthersUntouched`), so what a trap saw is there at the write of MEICPCT
and at the load of the handler. `PspExtInterrupts_spurious.cfg`, where either
hart may disable the line, shows that the assumption is needed.

**RtosalQueueProofs.** `QueueImplementsFifo`: for every length, set of tasks,
priority, request and abort the queue implements MessageQueue. A step does one of
three things to the ring (`StepsOfTheRing`): it copies an item in where there is
room, it copies one out where there is one, or it leaves the ring alone. Copying
in at the back appends (`BackAppends`), at the front prepends (`FrontPrepends`),
and copying out takes the head (`ReceiveTakesHead`). The inductive invariant
`RingInv` says that the write pointer stands behind the last item
(`RingIsSound`); without it a send at the back could land anywhere. Assumption:
`uxLength` is positive.

The other half of the module is about the waits: `EachTaskWaitsOnce`,
`WakeupsAreNotLost`, `WaitsEndOnTime` and the action property `EarlyReturnsAreAborts`,
for every set of tasks, priorities, time-outs, aborts and every width of the tick
count. They follow from `WaitInvariant`, an invariant in parts, each of which has a
lemma for the steps that can disturb it:

- `CallsInv`: who has suspended the scheduler and at which of its places, and what a
  call has recorded there. The steps under suspension need that there is one such
  task.
- `ListInv`: each event list holds distinct tasks, each there because of its call; a
  task is on an event list or pending exactly if it is not ready; only the abort under
  way explains a task in no list at all.
- `TimeInv`: time recorded, overflow count, tick count and ticks passed fit together,
  and so do a blocked task's list, its wake time, and what is left. `WakesOnTime` speaks
  of the end of a wait; this speaks of all its steps.
- `AbortInv`: a call that is about to give up has had its time or an abort.
- `WakeInv`: `NoLostWakeup` with what handlers have counted on a locked queue, also for
  a task that has looked at the queue and is about to place itself on the list.

Assumptions: the tasks are finitely many, and `MaxElapsed <= TickModulus`. TLC checked
the parts on the instance of the run `queue` (3.8 million states) before they were
proved.

**RtosLemmas.** What the proofs about lists rest on: an induction over the natural
numbers (`Induction`: the counterexamples would have a least number, and the intervals
below it a least one among finite sets), from which it follows what `Drop` leaves
(`DropProperties`, `DropKeepsOrder`); what appending, inserting and concatenating do to
members and order, also of a list kept in descending order; what the turns of a ring reach;
that a finite set can be listed, and a loop over a list taken apart
into its turns (`IterationExists`); and the differences of unsigned numbers (`UnsignedDifference`,
`UnsignedSum`).

**RtosalTimerProofs.** `PlaceIsRight`: for every wrap of the tick count, every
time, every period and every age of a command below a whole wrap,
`prvInsertTimerInActiveList` calls a timer due exactly if its period has passed
since the command, and else puts it into the overflow list exactly if the count
wraps before the rest of the period has passed. It rests on what the two unsigned
differences of the code are (`Age`, `ExpiryTime`).

`ScheduleIsKept`, `DaemonNeverOversleeps`, `PeriodsAreKept` and the action property
`CallbacksAreNeverEarly` hold for every wrap, lag, set of timers, periods, length of the
command queue, and for every order of commands, expiries and wraps. They follow from
`TimerInvariant`. The idea of the invariant is to measure everything from the daemon's
last look at the time: `Now` is the tick count carried on from there across a wrap, and
each list has a round (0, one turn later, and during the switch one turn earlier) in which
its items' values are times on that scale. Its parts:

- `ListsInv`: both lists are sorted, no timer stands twice, each item fits what is left
  of its timer.
- `HandInv`: what the daemon has in hand at each place. A command's timer is in no list,
  its age is that of its post; a timer whose callback runs is due.
- `RestartInv`: the start by which the daemon catches up asks for what is left and is the
  only one for its timer, unless a command of somebody else has overtaken it.
- `SleepInv`: the daemon waits no longer than any listed timer has left. `LateInv`: none
  is a whole turn late.

There is a lemma for each of the daemon's steps, and TLC checked the invariant on the
run's instance and on one with another wrap and lag before it was proved.

**RtosalTaskProofs** is about RtosScheduler, RtosalMutex and RtosalTask. What its lemmas
say of a kernel (`Good`, `Covered`, `Wakes`, `Highest`, ...) is defined in
RtosalTaskRelations, which states no theorem. Both
invariants below have the same condition on the kernel's lists, and the first part of
the module has one lemma for each kernel function, from `uxListRemove` to
`xTaskResumeAll`, `xTaskIncrementTick` and the three functions of inheritance: it keeps
`KernelOK`, and these are the tasks that it moves; and for what happens under suspension,
every higher task that becomes ready leaves `xYieldPending` behind (`Covered`). The loops
(tasks due, pending tasks, pended ticks) go by the induction of RtosLemmas over their
recursive functions.

The second part is about mutexes and semaphores: `ReadyListsAreExact`, `NoInversion`,
`RaisedForWaiters`, `NoGiveIsLost` and the action property `SwitchFollows`, for every
finite set of tasks, any semaphores, every assignment of priorities, and every order of
takes, gives, time-outs, ticks and interrupts. They follow from `MutexInvariant`, which
states `MutexInv` of the module RtosalMutex. Beside `KernelOK` and `NoLostGive` it has
these parts:

- `CallsInv`: the scheduler is suspended exactly at the places between suspension and
  resumption, only of the task that runs, and a queue is locked there and nowhere else.
- `WaitsInv`: who is blocked waits for the object of his call, at the place behind the
  wait; only gives of interrupts make a task pending, and only for a semaphore.
- `HoldersInv`: the count of mutexes held is the number of mutexes held, and nobody
  calls for a mutex that he holds.
- `PrioritiesInv`: only a holder's priority differs from its base, an event item
  carries its task's priority, and a mutex's waiters stand in order of priority, which
  is why `vTaskPriorityDisinheritAfterTimeout` may look at the first only.
- `LentInv`: a holder is no lower than any waiter, a waiter above the holder's base
  has lent its priority and will take it back (`inherited`), and the holder's priority is
  its own or that of such a caller.
- `FreeInv`: while a mutex is free and tasks wait for it, the running task is no lower
  than they are, and one that is no lower has been woken and is on its way. Thus whoever
  takes the mutex ahead of the waiters is above them all.

`LentInv` is what makes the wrong ready bit of `tasks.c:4190` (section 8) harmless
here (`TimeoutLowers`): the caller that takes its priority back is itself ready at that
priority, so the list whose bit stays set is not empty, and the bit that is reset is put
back by the insertion that follows. There is one lemma for each step, each of which shows
that the step keeps the invariant and that the switch follows (`SwitchKept`). TLC checked
`MutexInv` on the run's instance (1,150,003 states) before it was proved.

Hypothesis: `AtMostOneMutex`, as in the run. With two mutexes `NoPriorityInversion` is not
true of the code. A task that gives the first one and falls back to its own
priority without a switch (the finding of `RtosalMutex_yield.cfg`) goes on and takes the
second, which has been given to a task that has not run yet, ahead of a waiter of higher
priority. TLC confirms that sequence with six tasks (priorities 0, 0, 1, 1, 1, 2), also with
`Nested = FALSE`: the inversion lasts until the task the mutex was given to runs and
lends its priority.

The third part is about tasks: `ListsAreExact`, `HighestTaskRuns` and the action property
`SuspendedStaySuspended`, for every finite set of tasks, all semaphores, every
assignment of priorities, and every order of calls, ticks, gives and takes of
interrupts. They follow from `TaskInvariant`, which states `TaskInv`:

- `KernelOK`: each ready list is a ring through its end marker, holds tasks of its own
  priority only, and its bit in the map says whether it holds any (`RingOK`); each of
  a task's two list items is in one list (`StateItemsOK`, `EventItemsOK`).
  `WaitersAreBlocked`: who is in an event list or pending is delayed or suspended.
- `ObjectOf`, `WaiterOf`: a task's call is about an object or a task that exists,
  whose queue is locked at the places where the code has locked it, and a task waits
  for the object of its call, at the place behind the wait, and for nothing else.
- `SuspensionInv`: the scheduler is suspended once, by the task that runs, at the
  places between suspension and resumption; else no task is pending.
- `LifeInv`: the lists know the tasks that are alive, and the idle task is ready and
  calls nothing.
- `RunningInv`: the running task is ready unless it has blocked or suspended itself
  and is about to switch, and no ready task is higher, except before a yield and for a
  task it has just created. `HighestRuns` alone is not inductive: that the scheduler
  finds the highest task takes `RingOK`, and a resumption moves tasks of which it says
  nothing.
- `PlainInv`: no priority is inherited and the system has not halted: no assertion
  of the modelled kernel functions can fail.

This part has one lemma for each step of RtosalTask. It splits a step by what it does to
the calls: `StepOK` and `CallStep` for a step of the running task, `OtherStep` for one
that disturbs no call (an interrupt, the idle task), so that the parts of the invariant
about calls are argued once and not for each action.

Hypotheses: `IsFiniteSet(Tasks)`, without which there need be no highest ready task
(an assumption of RtosScheduler), and `Mutexes = {}`, as in the run `rtosal_task`. With
mutexes and changes of priority together the invariant is too much: the caller that
takes its priority back need not be ready at that priority any more, so the end of an
inheritance that resets the bit of the wrong list (section 8) may break `RingOK`.

**RtosalEventGroupProofs.** `NoEventIsMissed` and the action property
`SetsReachAllWaiters`, for every finite set of tasks, every set of bits, all requests and
time-outs, and every order of sets (of tasks, and of interrupts through the daemon), gets,
time-outs, destruction and creation. They follow from `GroupInvariant`, which states
`GroupInv`: between two steps the scheduler is not suspended and nothing is pended
(`Settled`), and who stands in the group's list has not been unblocked and waits for
what the bits do not satisfy. The steps are about the list alone, so the lemmas follow
only who leaves it (`Leave`), through the kernel's functions and the loops of the tick,
the destruction and the set. The set is the hard one (`VisitAllWakes`): after n turns of
the loop exactly the satisfied among the first n waiters have left, each with the bits of
the moment of the set, and the bits to clear are collected but still there for the
waiters to come. No hypothesis beside the modules' assumptions on the constants. TLC
checked `GroupInv` on the run's instance (403,318 states).

## 8. Findings

The first two are runs of `PROJECT.json`, with their quotes. Each of the others has
a configuration of its own that ends in a counterexample.

1. `pspMutexCreate` looks at the first block only (`psp_mutex_eh2.c:144`): it
   returns NULL while others are free. Run `mutex_create_full`.
2. A preemption between the test of the counter and the clearing of MIE can leave
   interrupts off for all tasks, if another task yields in a section
   (`portmacro.h:109`). Run `port_lost`.
3. The first critical section after `vTaskStartScheduler` does not disable
   interrupts: the counter is not 0 when MIE is set (`portASM.S:110`).
   `RtosalPort_early.cfg`.
4. The external-interrupt ISR may claim line 0, which has no handler
   (`psp_ext_interrupts_eh2.c:511`): the other hart disables the line between trap
   and capture. `PspExtInterrupts_spurious.cfg`.
5. PSP services lock before they disable interrupts: a handler that calls a
   service can wait for its own hart (`psp_ext_interrupts_eh2.c:417`).
   `PspExtInterrupts_clear.cfg`.
6. The abort of one wait can end a later one (`tasks.c:2620`): `ucDelayAborted` is
   set for a task that was woken in the meantime, or is not looked at by the call it
   aborts. `rtosal_queue.c` promises QUEUE_EMPTY only after the waiting time.
   `RtosalQueue_abort.cfg`, and for semaphores `RtosalTask_abort.cfg`.
7. A task that waits for a mutex with a time-out, has raised the holder's priority,
   times out, finds the mutex free and tries again, may find it taken again. Its
   time-out is 0 by then, and `configASSERT( xInheritanceOccurred == pdFALSE )`
   (`queue.c:1505`) stops the system; the comment there says that inheritance cannot
   have occurred with a time-out of 0. `RtosalMutex_race.cfg`.
8. A task that gives a mutex and falls back to its base priority runs on although a
   task of a higher one is ready, if the mutex has a waiter that is itself no higher:
   `xQueueGenericSend` looks at the waiter and drops what
   `xTaskPriorityDisinherit` returned. The comment at `tasks.c:4092` says a context
   switch should occur when the last mutex is returned, whether or not a task waits
   on it. The next tick switches only if it finds another task of the same priority.
   `RtosalMutex_yield.cfg`; `SwitchesWhenNeeded` has the exception `LowersItself`
   for exactly this case.
9. A stopped timer can start again by itself: the daemon's own start, posted to catch
   up on a missed period (`timers.c:503`, `:786`, `:899`), stands behind a stop that
   is already in the queue. `timers.h:520` says "Stopping a timer ensures the timer
   is not in the active state." `RtosalTimer_stop.cfg`. The same posts assert that
   the queue has room (`timers.c:504`, `:787`, `:900`): with a full queue the system
   stops; the model has the place `halted`.
10. `mstatus` is not part of a task's context: the comment of `rtosal_macros.inc:63` says
   that `M_RTOSAL_SAVE_CONTEXT` saves it, and the macro saves `mepc` only. A task that is
   switched in when another yields inside its section resumes with interrupts off.
   `RtosalPort_mstatus.cfg`. `ForeignMieIsNotKept` bounds for how long.
11. The daemon of the timers reads commands as long as there are any (`timers.c:716`), so
   that a task that never stops posting keeps timers that are due from expiring.
   `RtosalTimer_flood.cfg`.
12. The destruction of an event group does not reach a task that has timed out and not run
   since: the task reads, and may clear, bits of a group that is gone, or of the next one
   in its storage (`event_groups.c:425`). `RtosalEventGroup_destroyed.cfg`.

Seen while modelling or proving, without a run.

- PSP: `pspMutexDestroy` returns NULL on success, against `psp_mutex_eh2.h:102`. The
  creator of a fresh or destroyed block reads as hart 0, so hart 0 passes the
  creator check for a block nobody created (`psp_mutex_eh2.c:187`). SetType and
  SetPolarity only add bits, so a line cannot be set back
  (`psp_ext_interrupts_eh2.c:361`). IsPending computes the bit from the register's
  address instead of its index (`psp_ext_interrupts_eh2.c:331`).
  `bspGenerateExtInterrupt` replaces the byte of both triggers, and
  `bspClearExtInterrupt` reads and writes it unprotected
  (`bsp_external_interrupts.c:140`). A new threshold of an error counter is ORed into
  the old one (`psp_corr_err_cnt_eh2.c:89`). The demo's memset of the sync variables
  clears fewer bytes than words.
- rtosal: `D_RTOSAL_WAIT_ABORTED` is documented (`rtosal_queue.c:166`, `:274`) and never
  returned. `rtosalTaskResume` from an ISR reports no instance. `rtosalEventGroupGet`
  returns success on a time-out (`rtosal_event.c:208`). A release of a mutex by a task
  that does not own it ends in `configASSERT`. A task created with
  D_RTOSAL_DONT_START is ready, and may run, before it is suspended.
- Time: a time-out is told from the tick count and the count of its overflows, of which
  `xTaskCheckForTimeOut` uses only whether it has changed (`tasks.c:3258`). When more than a turn
  of the count passes in one call, a wait may end late. The proof of `WaitsEndOnTime` needs the bound
  `MaxElapsed <= TickModulus`; with 7 and 4 TLC violates `WakesOnTime`. At 32 bits and
  a tick of a millisecond, that is 49 days.
- Timers: when the lists are switched, the code reloads a timer left in the old list
  (`timers.c:892`) on the premise that it is less than a turn late. The invariant
  (`HandInv`) has that as a clause, and it holds because the lag is bounded.
- Kernel: a task that times out of a wait for a mutex resets the ready bit of the
  holder's new priority instead of the old one (`tasks.c:4190`); after a change of
  the priorities by `rtosalTaskPriorityChange` in between, the old bit may stay with
  an empty list. A change of priority does not re-sort an event list. A one-shot timer
  that is due when it is started, or when the lists are switched, keeps its active
  status (`timers.c:779`, `:880`). The lock count of a queue is an `int8_t`. Bits an interrupt sets are dropped when the daemon's queue is
  full; the call reports it.

## 9. Only model-checked

Liveness (`HeapLockStarvesOnlyUnderTraffic`, `InterruptsAreServed`, `DemoEnds`,
`DueTimersExpire`, `DaemonIsNotStarved`) is out of the prover's reach.

Every other property of the runs that are expected to pass is a theorem. Those about
mutexes are proved for at most one mutex, and those of RtosalTask without mutexes, as
they are checked. Two mutexes, and a change of priority of a task that has inherited
one, are in no theorem: `NoPriorityInversion` does not hold with the first (section 7), and
the ready bits may be wrong after the second (section 8).

## 10. Not modelled, and why

Printing, the UART and device routing are pure I/O. FreeRTOS's allocators, stream
buffers, co-routines, MPU wrappers, task notifications, queue sets and tickless
idle are vendored and not reached from rtosal, and most of the lines of the tree
are such code, headers of declarations and comments, and other boards' register
definitions. The ComRV engine is not in the tree. Build scripts, linker scripts and
debugger configurations have no state of the firmware. The fast-interrupt mode of
the core is hardware. EH1's and EL2's versions of modelled parts are the one-hart
special case. The tables of `psp_interrupts*.c` and `psp_nmi_*.c`, the cache
control, the error counters, the internal timers and the performance counters are
reads and writes of single registers or table entries by one hart, or under the
internal mutex of PspInternalMutex. The CTI is a sequential driver. The destruction
of queues, semaphores and mutexes that tasks wait for is left out: the caller must
not do it, and the code does nothing about the waiters.

## 11. How the project grew

In this order: PspMutex with proofs, RtosalPort with proofs, PspExtInterrupts with
proofs, PspDemoMultiHarts (composes PspMutex with a program) with proofs, RtosKernel and
RtosalQueue (composes the kernel with an object) with the FIFO proof, then
RtosScheduler with RtosalMutex, RtosalTask (composes tasks with the waits of
RtosalMutex) and RtosalEventGroup over it, and RtosalTimer with its arithmetic.
RtosalSemaphore of the first plan became RtosalMutex, since a mutex and a
semaphore are the same code. The runs are those whose question no other run asks;
where a document and the code disagree and the disagreement is stated in section 8,
its configuration is kept beside them.

Then the lists and loops of the kernel became recursive functions (RtosLists,
RtosScheduler), and the waits of the queue, the schedule of the timers, and the lists and
the running task of RtosalTask were proved on the lemmas about them.

The invariant of inheritance and the lost gives were proved next, with the lemmas about
the kernel functions extended to those that change priorities, and last the event
groups, whose loops became recursive functions for that.

What would add most from here: a weaker statement about inversion that holds with several
mutexes, with its bound on how long an inversion lasts; an invariant of the ready bits
that survives changes of priority, or a fix of `tasks.c:4190` under which it does; and the
composition of the queue with the daemon's command queue of RtosalTimer.

## 12. Running it

    tlasany PspMutex.tla
    tlc -workers 2 -config RtosalQueue.cfg MCRtosalQueue
    tlapm RtosalQueueProofs.tla

The largest runs are `queue` (2.1 million states, about three minutes) and those over
RtosScheduler. The longest proof is that of RtosalTaskProofs, about a quarter of an hour; the
others take a few minutes or less.
