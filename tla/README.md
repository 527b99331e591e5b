# TLA+ models of libcortex

libcortex is an event library in C. Sources of events (file descriptors,
signals, timers, D-Bus, netlink, ...) are *listeners*; each has a *graph*, a
queue of *events* plus a list of *tasks* that handle them. Graphs are processed
by the thread that runs the *event loop*, or by threads of a *pool*. This
directory holds TLA+ modules of the library, the TLC configurations that check
them on small instances, and TLAPS proofs. Paths below are relative to the root
of the repository (`src/core.c` and so on).

## 1. Inventory

### Events and graphs (`src/core.c`, `src/core.h`, `src/llist.c`)

*State.* An event has two counters, `refs_before_response` and
`refs_before_release`, the flags `error` and `release_in_progress`, a mutex and
two condition variables. A graph has `tasks`, `equeue`, `claimed`, `mutex`,
`queue_mutex`, `queue_cond` and a processing mode.

*Operations.* `crtx_create_event`, `crtx_add_event`, `crtx_push_new_event`,
(de)reference of either counter, `crtx_wait_on_event`, `crtx_invalidate_event`,
`crtx_free_event`; `crtx_claim_next_event_of_graph`, `crtx_process_one_event`,
`crtx_wait_on_graph_empty`, `crtx_flush_events`, `crtx_add_task`.

*Interaction.* Adding an event writes a request to the control pipe of the event
loop or starts a job in the pool. Processing the last event of a listener that
was shut down completes the shutdown.

*Hard.* The last reference frees the event after its mutex was unlocked; waiters
and workers hold the same pointer; the flush at the end of the process takes
references away from workers that still run.

*Correct when* nobody touches a freed event, every event is handled once and
released once, and a requester reads its response after the handlers ran.

### Listeners (`src/core.c`)

*State.* `state` (STOPPED, STARTING, STARTED, STOPPING, SHUTTING_DOWN, SHUTDOWN),
`state_mutex`, the graph, the default callback in the event loop, a thread of the
pool, dependencies and reverse dependencies, membership in the global list.

*Operations.* `crtx_setup_listener`, `crtx_start_listener`,
`crtx_update_listener`, `crtx_stop_listener`, `crtx_shutdown_listener` with
`shutdown_listener_intern`; `free_after_event`; the default error callback.

*Hard.* Any thread and any handler may call them; a shutdown with pending events
is completed later by the loop thread; two mutexes are taken in different orders.

*Correct when* a shutdown is completed exactly once, a stopped listener is quiet,
and every call returns with its mutexes released.

### Threads and signals between them (`src/threads.c`)

*State.* A list of pool entries (`in_use`, `stop`, `job`), each with a `start`
and a `finished` signal: a condition, a mutex, and a count of consumers.

*Operations.* assign, start, stop, cancel; stop all, finish; wait, send,
reset, reference and dereference of a signal.

*Hard.* The thread recycles its own entry while others stop it or wait for it.

*Correct when* a started job runs, an entry has one user at a time, and stopping
returns.

### Event loop (`src/evloop.c`, `src/epoll.c`)

*State.* Descriptor entries with callbacks, the epoll set, timeouts, the events
`epoll_wait` returned and the position in them, `stop`, `phase_out`, the control
pipe.

*Operations.* create, enable, disable and remove callbacks, change or close a
descriptor, set and disable timeouts, run, run once (nested), stop, queue a
graph, trigger a callback.

*Hard.* Handlers change the lists that the loop iterates over and enter the loop
again; other threads stop it while it sleeps.

*Correct when* the kernel watches what the active callbacks want, no freed entry
is followed, no timeout is slept through, and a stop ends the loop.

### The process (`src/core.c`)

`crtx_root`: the table of graphs, plugins and their listener repository, the
detached loop, the self pipe through which other threads have functions called
in the loop. `crtx_init` and `crtx_finish` may be repeated, by an application or
by a child after `fork`. *Hard:* pointers that survive `crtx_finish`; a request
to the self pipe is three writes. *Correct when* every slot of the table and
every plugin is released once, and what was put into the pipe is called.

### Data (`src/llist.c`, `src/dict.c`, `src/cache.c`)

Doubly and singly linked lists; dictionaries with typed items, owned or borrowed
memory, nested and reference-counted; conversions between number types; the cache
task that answers an event from a dictionary before the handlers run and stores
their answer afterwards. *Hard:* memory shared between dictionaries; integers at
the limits of their width; two events of the same key that miss at the same time.
*Correct when* a list is the sequence its users expect, memory is freed once and
not used afterwards, a number is converted exactly or refused (a double loses its
fraction), and an answer from the cache is one the handlers gave and that did not
expire.

### Services of the loop

| part | state | hard | correct when |
|---|---|---|---|
| signals (`signals.c`) | listeners per signal, installed action, pipe | a signal between start and stop of listeners | a handler is installed exactly while somebody listens; a fatal signal ends the loop |
| fork (`fork.c`, `signals.c`) | child handlers, triggers, children | merged SIGCHLDs; a child ends before its pid is stored | the end of each child is reported, to the listener that started it |
| popen (`popen.c`, `pipe.c`) | a fork listener, two pipes, a write queue | a restart while events of the last run are under way | a run reads and writes its own pipes, or what the last run left in a pipe that is kept; each run gets its result |
| timer (`timer.c`) | timerfd, one-shot and retry timers | a timer that frees itself, or that is set again while its handler runs; a retry of a listener that restarted or fails to start | every timer fires, each one-shot is freed once |
| write queue (`writequeue.c`) | items, enabled callback | EAGAIN, other errors and self-stop racing an added item | items are sent in order and none is left behind |
| state machine (`sm.c`) | state, scheduled changes, release flag | release with changes pending | nothing runs after the release, which happens |
| D-Bus (`sdbus.c`) | bus, calls waiting, timeout | calls from workers while the loop processes messages | a callback finds its caller's frame; calls return |
| curl (`curl.c`) | sockets, timeout, transfers | libcurl calls back during its own calls | a running transfer has a socket or timeout it is driven by |

### Adapters and helpers

The listeners around a descriptor or a foreign library (netlink, libnl, CAN,
V4L, evdev, udev, uio, fanotify, inotify, journal, MQTT, PulseAudio, netfilter
queues, avahi, curl in a child) and `src/layer2`. *State:* the resources they
hold. *Hard:* one of many calls fails, then the listener is started again or shut
down. *Correct when* each resource is released exactly once and a started
listener has its source. `layer2/netconf.c` also has a protocol: it asks for the
existing objects while the kernel reports changes to them.

The hazards are in `PROJECT.json`, each with the line where it bites and the
properties that would catch it.

## 2. Modules

| module | models | main correspondence |
|---|---|---|
| `EventGraph` | events and one graph | one action per critical section of `event->mutex` or `queue_mutex`, or per access outside of any |
| `EventDelivery` | what a graph promises | abstract specification, implemented by `EventGraph` |
| `EventGraphProofs`, `EventResponseProofs` | - | TLAPS proofs about `EventGraph` |
| `ListenerProofs`, `ThreadPoolProofs`, `EpollLoopProofs` | - | TLAPS proofs about the rest of the core |
| `ServiceProofs`, `ProcessProofs` | - | TLAPS proofs about `Signals`, `Timer`, `WriteQueue`, `StateMachine`; `Fork`, `Popen`, `Root`, `Sdbus` |
| `ComponentProofs` | - | TLAPS proofs about `Lists`, `Dict`, `DictValue`, `Cache`, `Curl`, `Netconf` |
| `Listener` | life cycle of listeners | one action per section between taking or releasing `state_mutex` and `queue_mutex` |
| `ThreadPool` | pool and signals, with the callers in `core.c` | one action per access to a signal or a field of an entry |
| `EpollLoop` | callbacks, epoll set, loop | one action per operation of a handler and per callback, timeout or `epoll_wait` of the loop |
| `Root` | `crtx_root`, plugins, self pipe | one action per function; one per `write` to the pipe |
| `Lists` | `llist.c`, the task list | pointers as functions, one action per list function |
| `Dict`, `DictValue` | `dict.c`, event payloads | items, cells of a heap, counters; a number read as another type |
| `Cache` | `cache.c` | one action per hold of `cache->mutex`, and one for the handlers between them |
| `Signals`, `Fork`, `Popen` | `signals.c`, `fork.c`, `popen.c`, `pipe.c` | one action per handler, API function, and step of the kernel or child |
| `Timer`, `WriteQueue`, `StateMachine` | `timer.c`, `writequeue.c`, `sm.c` | one action per function the loop or the application calls |
| `Sdbus`, `SdbusMsg` | `sdbus.c` | one action per call of `sd_bus_process`, per step of `crtx_sdbus_call`; messages to dictionary items |
| `Curl` | `curl.c` | one action per callback of libcurl or of the loop |
| `AdapterSteps`, `NetAdapters`, `DeviceAdapters`, `ServiceAdapters`, `Adapters` | the adapters and `layer2` | a function is the sequence of its calls with their error paths |
| `Netconf` | `layer2/netconf.c` | one action per question, received message and change of the kernel |
| `MC*` | - | constants, symmetry and instances for TLC |

Operators with the comment *Faulty variant* are plausible bugs of the
definition that follows them. No specification uses them: they exist to show that
each checked property fails when the code is changed that way.

### EventGraph and EventDelivery

`life`, `rel`, `resp`, `rip` and `err` are the fields of an event; `handled` is a
history variable (the handlers ran). `equeue` is a sequence, `claimed` a set.
A producer runs `crtx_create_event` and `crtx_add_event`; with `req` it is a
requester as in `nf_queue.c`: it keeps a reference, waits, reads the response and
drops the reference. Workers run `crtx_process_one_event`: in loop mode the
thread `LoopThread` after it read a request from the pipe, in thread mode any
worker that was started by an added event. `crtx_free_event` is split at the
compare-and-swap, the invalidation, the test of the counter and the release of
the memory. The flusher (`SpecFlush` only) is `crtx_flush_events`, which holds
`queue_mutex` over all its steps. Abstracted: payload and type of events, the
order of tasks, the owner of a pool thread (see ThreadPool). The counters are
`unsigned char` in C; the invariant of the proofs shows that an event never has
more than two references here, so they are naturals in the model.

`EventDelivery` has an event's fate and a queue, and no threads, references or
locks: accepted events are taken in order, handled at most once, then released;
an event the graph refuses is released unhandled. `EventGraph` maps `Fate` and
`equeue` to it. That the *first* event is taken needs an argument, since
`crtx_claim_next_event_of_graph` skips invalidated events (section 4).

### Listener

`sm` and `qm` are the owners of the two mutexes; `queued` and `claimed` count the
events of the listener's graph. A thread in an API function has `op` and `on`; a
handler of the loop thread returns into `crtx_process_one_event` (`cb`).
`ShutdownDelay` contains the unlock of a mutex the thread does not hold, which is
undefined behaviour: it has no effect or it unlocks. `CheckShutdown` may free the
graph whose mutex `UnlockQueue` then unlocks and whose listener it reads; that too
has an effect or none, and `ClaimEvent` may find events in a freed graph, because
the control pipe handler looks the graph up only once. `orphan` is a thread of the
listener that a second start made `eloop_thread` forget. The state event is queued
only when `state_graph` is the listener's own graph, the case that involves its
own mutex; this graph has a task. `MayFail` are the listeners whose start callback
may fail, `MayBreak` those whose descriptor may report an error, after which the
error callback releases them. Preconditions on the callers (a listener is not
started once it is released, nor released while it is being started) are guards
of `Call...` and commented there. `CRTX_LSTNR_STARTUP_TRIGGER` only writes a
request to the control pipe and has no effect on this state.

### ThreadPool

Entries are positions 1..`n_threads`. `told` is the effect of `do_stop`. A user
is a listener with a thread (`crtx_start_listener` and `crtx_stop_listener`), the
adder of an event in thread mode (kind `graph`: `process_graph_tmain` never returns,
whatever `graph_consumer_stop` sets) or the application with a job of its own
through `threads.h` (kind `short`). A job that runs until it is stopped may also end
before (`JobEndsEarly`), which no fairness requires. Waiting for a signal is a guard:
the condition is set and tested under the same mutex.

### EpollLoop

`mask` is the kernel's epoll set, `fd_added`, `fds` and `callbacks` are the
library's bookkeeping, `evloop` says whether an entry was ever enabled: the
default callback of a listener is marked active before that. The lists keep their
order (`Unlink` takes an element out), since the loop iterates over them while
handlers change them. `stack` has a frame
for each nested `evloop_start_intern`; `batch` is shared by them, as in the code.
An iteration that stands on an unlinked list element ends there (`NextIn`),
because `llist.c` clears the next pointer. The clock is a counter; what
`epoll_wait` reports, the peers of the descriptors and the clock are external.

### Root, Lists, Dict, DictValue, Cache

`Root` numbers the calls of `crtx_init`, so that a pointer left over from an
earlier one can be told from a current one (`spipeOf`, `evthread`, `repo`);
`stale` collects the uses of such pointers, among them those of a second
`crtx_finish`, which frees `selfpipe_lstnr` again and uses the old `evloop_thread`.
`SelfpipeWrite` is one of the three `write`s of `crtx_selfpipe_enqueue_cb`.

`Lists` keeps next and prev of all nodes, whether they are in the list or not, and
compares them with `order`, the sequence the callers expect; tasks are also sorted
by position. Appending the last node of a `crtx_dll` once more is left out of
`ListAppend`: the loop of `append` (`llist.c`, lines 19-34) does not look at the
last node, so instead of -EALREADY the node gets itself as `prev`. `Dict` has a
heap: strings, buffers and copied keys are cells, `Malloc` takes cells that are
not in use, `wild` records a free of something not allocated or a use of a freed
dictionary. The recursive `crtx_dict_unref` is a stack of calls (`unrefs`), one
action per dictionary. The loop of `crtx_dict_create_copy` is written without
recursion: an item of the array is copied to the place that its number among the
copied items gives (`CopyPlace`). A copied number arrives without type, and a
pointer without a size (`P`) is shared. The payload of an event is set by
`SetRawData`, `SetDictDataNew` and `SetDictDataAgain` (the branches of
`crtx_event_set_dict_data`), and `SetDict`, which leaves the item without a key;
all orders of them are possible, those the code cannot cope with under the
constant `Misuses`. `DictValue` keeps the width of the types (`Half` stands for
2^31; a wide type has twice the bits; `z` and `Z` are wide) and is checked against
mathematical conversion. A double is a number of halves, so that the cast to an
integer, which truncates, is seen (`WholePart`); one beyond the range of the type
is refused. `Cache` lets several pool threads carry events through the graph; an
event is looked up, handled and stored in three steps. A response has a type: a
number is copied into the entry without it (`CopiedResponse`) but fills the
response of the next event, which therefore skips the handlers. A miss stores the
payload of the event, an update of a tracking cache the dictionary around it.

### Signals, Fork, Popen, Timer, WriteQueue, StateMachine

In `Signals` the kernel's disposition (`disp`) is separate from the library's
table, which counts the nodes a listener has per signal; a signal that meets the
default action kills the process. In `Fork`, `SigchldHandler` reaps all zombies
for one event because signals may be merged; a child inherits the listeners, the
epoll instance and its watched descriptors, and executes the shutdown and
re-initialisation of `core.c` in `Child...`. `Popen` numbers runs and pipes, so
that an end of a pipe or an event of an earlier run can be recognised; `inpipe`
and `outpipe` hold who wrote what is not read yet, `input` and `output` who read
it, since `start_listener` keeps a stdin pipe that was not closed and always keeps
the stdout pipe. `fork()` may fail. In `Timer` the target is a listener that stops
by itself and is started again by a one-shot or a periodic retry timer; its start
may fail. The handler of a timer is two steps, the callback (`TimerHandler`) and
the test of the interval with the stop (`HandlerEnds`), between which the timer
may be set again. In `WriteQueue` adding an item and starting or triggering the
queue are two steps; `write` may fail with EAGAIN, ENOBUFS or another error.
`StateMachine` separates setting `CRTX_SMF_RELEASE` from reading `n_schedules`.

### Sdbus, SdbusMsg, Curl

The libraries are external, with the behaviour `sdbus.c` and `curl.c` rely on
stated in the header of the modules. `sbCall` holds the caller's stack frame
(`active`) that a callback writes to; `Deadline` is the timeout of a call that
races its answer. `crtx_sdbus_get_objects` (`Objects`) neither takes the source
lock for its call nor notices that it failed, and then waits for ever. When
`sd_bus_process` fails the handler ends as the code does, and when the socket
breaks `fd_error_handler` runs again and again. `SdbusMsg` converts nested
messages; it is a recursive operator and checked against the structure of the
message. In `Curl`, `wish` and `wake` are what libcurl asked for, `csock` and
`ctimer` what the loop does, with the callbacks of a socket enabled and disabled
as `evloop.c` does it. Adding a handle and setting the timer may fail
(`CurlFaults`).

### Adapters and Netconf

The interesting part of an adapter is which calls are made on which resource when
one of them fails. Each function of an adapter is a sequence of steps
(`NetAdapters`, `DeviceAdapters`, `ServiceAdapters`); `AdapterSteps` computes all
outcomes of a sequence, following the error path of each step that can fail;
`Adapters` calls the functions in the order `core.c` does, with all repetitions.
`lost` collects what was overwritten or freed while held, `bad` what was used or
released while not held.

The adapters have faults of this kind. So that the property says something about
all 24 of them, the tables `KnownLost` and `KnownBad` of `Adapters` list them by
adapter, operation and resource, `StartsSilently` and `RunsOn` by adapter, with the
reason; every other operation of the same adapter, and every other resource, is
checked. Section 6 names the causes.

`Netconf` has the kernel answer a question in order with the changes it reports.
The application's view is built from the events alone.

## 3. Runs

| run | configuration | shows |
|---|---|---|
| `event_graph` | 2 events, 2 producers, 2 workers, 1 waiter, pipe of 1, fair | type, no use after free, ownership of the queue, response after handling, created events are released, the waiter returns; `EventGraph` implements `EventDelivery` |
| `flush_while_processing` | 2 events, 1 producer, 2 workers, flusher | **violation**: an event is freed while a worker uses it |
| `listener` | 2 listeners (b depends on a), 2 callers, loop thread | shutdown completed at most once, stopped means quiet, no mutex is kept |
| `delayed_shutdown` | 1 listener, 1 caller | **violation**: a delayed shutdown is never completed |
| `stop_deadlock` | 1 listener with `state_graph = graph` | **violation**: lock order, the stop never returns |
| `thread_pool` | 4 users with different jobs, 2 threads, `crtx_finish` | jobs keep their entry, no start is lost, the pool is joined unless a thread is a worker of a graph |
| `stop_before_start` | 1 user | **violation**: the finished signal is not sent |
| `epoll_loop` | control pipe and a socket with a read and a write callback, 2 operations, 2 nested loops | epoll set as wanted, no freed entry is followed |
| `epoll_loop_live` | the same, 1 operation, fair | stop ends the loop, timeouts expire |
| `phase_out` | no operations, fair | **violation**: the loop sleeps on |
| `components` | `Lists`, `Dict`, `DictValue`, `SdbusMsg`, `Cache`, `Curl`, `Adapters`, `Netconf` | their invariants |
| `services` | `Root`, `Timer`, `WriteQueue`, `StateMachine`, `Sdbus`, `Signals`, `Fork`, `Popen`, fair | their invariants and progress |

In `components` and `services` the parts share no state; `part` is the one that a
behaviour exercises, so the state space is the sum of the parts' and a fair action
of another part is never enabled.

A violation run states what a line of the code says about itself; `PROJECT.json`
quotes the line and explains the counterexample under "findings".

*Bounds.* Two workers and two producers are what a race on an event, on the queue
and on the claimed list needs; the proofs cover any number. A pipe of one request
makes blocking writes happen. Two callers plus the loop thread make every pair of
life cycle functions overlap; one produced event plus the state event give a queue
with several elements. Two pool threads for four users that run their jobs twice
force reuse of an entry. Two operations in handlers and nesting depth two give
every pair of operations in one or in two loops; time runs one tick beyond the
timeout. Four nodes are a list with a first, an inner and a last node and one to
insert. Three dictionaries of up to two items give a copy and a nested one that
grow; three-bit numbers have both limits of each type, and wide ones beyond them.
Three events of two keys make two of them miss, or expire, together. Two
transfers, each started twice, share a timeout. Two changes of the kernel lie
before, between and after netconf's questions. Two forks with two pids and two
runs of a popen listener overlap an old end with a new start; the proofs cover any
number of runs. A one-shot and a periodic retry, a one-shot timer of the
application and one failing start show every order of retries; more failures only
repeat it. One failing `sd_bus_process` and a
broken socket do the same for the bus: progress is claimed for finitely many
failures (`MaxStartFails`, `MaxFails`). Three graphs need a free slot and a grown
table; a fourth item meets a full descriptor (`Room` 2). `CHECK_DEADLOCK FALSE` is
set because all bounded instances come to rest when everything was produced and
released.

*Fairness.* Weak fairness of each thread's steps and of the loop's handlers: a
thread that can run is scheduled and handlers return. Creating events, starting
to wait, calling the API and stopping are never required, except that users stop
their jobs once the pool is stopped (`crtx_init_shutdown` does so). Of the
environment it is assumed that an armed timer expires, a pipe is read, and a
deadline of the bus passes. Strong fairness is used three times. The clock
advances although the loop keeps leaving the places where time matters. A caller
of `crtx_sdbus_call` takes the lock of the source although the loop takes it
again and again, which is what a mutex on Linux does in practice, not what POSIX
promises. `SigchldHandler` runs although the loop is kept busy by other starts,
because its event stays in the queue.

*Preconditions on the application.* Some constants exclude behaviour for which the
code is known to be wrong, so that the properties can be checked for the rest.
Setting them to `TRUE`, or to a set with the element named, shows the fault:

| constant | allows | what fails then |
|---|---|---|
| `Threaded` | the loop in a thread of its own, so that `do_fork` runs before `crtx_start_listener` returned | `StoppedHasNoChild` |
| `EarlyStops` | stopping a fork listener before `do_fork` ran | `StoppedHasNoChild`: the trigger is not taken back |
| `StopsRunning` | stopping a popen listener before its child ended | `PopenCanRestart` |
| `Leftovers`: `"stdin"`, `"stdout"` | starting a popen listener again with input its last child did not read in a stdin pipe that was not closed, or with output nobody read | `PipesAreNotShared`: the next run reads it |
| `StaleUses`: `"selfpipe"`, `"evloop"`, `"plugin"` | another `crtx_init` after the self pipe or the detached loop was used; setting up listeners of plugins then | `ReinitStartsAfresh`: the second `crtx_finish` frees `selfpipe_lstnr` again, `evloop_thread` and the plugin entries are those of the last life |
| `Misuses`: `"replace"`, `"unsized"` | setting the data of an event over other data; copying a pointer without a size | `DictMemory`: what was there is not released; two owners |
| `Misuses`: `"wrap"` | raw data after `crtx_event_set_dict_data` | `StoredIsFound`: `crtx_event_get_payload` returns the wrapper |
| `CurlFaults`: `"add"`, `"timer"` | `curl_multi_add_handle` or the update of the timer fails | `TransfersAreDriven`: the started transfer never ends, the timeout is dropped |
| `EarlyRearms` | setting a timer to expire once while its own handler runs | `ArmedTimerIsWatched`: the handler stops it |
| `WriteFails` | an error of `write` other than EAGAIN and ENOBUFS | `AddedIsSent`: the queue stops and nothing starts it |
| two `Writers` | two threads that write to the self pipe | `CallbacksAsQueued`: their three writes mix |
| `Partial` | `write` takes a part of an item | `SentInOrder`: the default write callback keeps the whole item and sends it again |
| `OtherThread` | releasing a state machine outside of the loop's thread | `NothingAfterRelease` |
| `Quits` | `crtx_init_shutdown` while `crtx_sdbus_get_objects` waits | `FrameOutlivesCallback` |
| `GraphThreads` | curl's timer graph processed by pool threads | `CurlIsDriven` |
| `<<"complex", "tracking">>` in `CacheSetups` | a tracking cache with the complex layout | `TrackedOnce`: the update exchanges the dictionary that holds the key, so the slot counts as unused |
| `MayBreak` with a listener that is started twice | an error of the descriptor while a second start waits for `state_mutex` | `StoppedIsQuiet`: the released listener is started |
| `MayFail` with a listener that others depend on | a start that fails after a refused stop | `StoppedIsQuiet`: the listener is STOPPED and watched |
| a listener in mode `thread` that others depend on | a start that succeeds after a refused stop | `StoppedIsQuiet`: `eloop_thread` is overwritten, the stop waits for the new thread only |
| `FreesInUse` | freeing a listener out of a handler while a loop, or an outer one, goes through its callbacks | `NoStaleEntry`: `epoll.c` goes on with `el_cb->ll.next` of a freed callback |
| `max_n_events` 2 | several events per `epoll_wait` | `NoStaleEntry`: a handler frees the entry of the next event |

Two faults are excluded by a property instead. A stopped thread leaves its entry
with `stop` set, and a job that is later given that entry is never executed:
`StartIsNotLost` makes no claim for such an entry. The worker of a graph never ends:
`graph_consumer_stop` (`core.c`, line 768), "callback function to stop an event
processing thread", sets `graph->stop`, which `process_graph_tmain` (lines 662-674)
does not read. `JobReturns` has no case for it, `pthread_join` in
`crtx_threads_finish` waits for ever, and `FinishReturns` makes no claim while there
is such a worker.

## 4. Proofs

The theorems hold for every value of the constants that meets the named
assumptions of the modules (sets of threads are disjoint, null pointers are not
elements, bounds are natural numbers), so for any number of events, threads,
listeners, descriptors, timers, processes and so on, and any bound. Where the code
is right only for a careful application, that is a hypothesis of the theorem, and
section 3 shows what fails without it. Every theorem has the same form: an
inductive invariant holds initially, each action preserves it, and it implies the
property. TLC confirmed each of the invariants before it was proved.

| module | theorem | hypothesis | states |
|---|---|---|---|
| `EventGraphProofs` | `Invariance`, `TypeCorrect`, `EventsAreSafe`, `QueueIsOwned` | - | `IInv`, `TypeOK`, `NoUseAfterFree`, `QueueOwnership` |
| `EventResponseProofs` | `AnsweringInvariance`, `ResponsesAreComplete`, `GraphDelivers` | - | `Answering`, `ResponseAfterHandling`, `DeliversEvents` |
| `ListenerProofs` | `LifeCycleInvariance`, `LifeCycleTypes`, `ShutdownCompletesOnce`, `StopsAreQuiet`, `LocksAreReturned` | `SafeUse` | `LifeInv`, `TypeOK`, `InternedOnce`, `StoppedIsQuiet`, `NoLockLeaked` |
| `ThreadPoolProofs` | `PoolInvariance`, `PoolTypeCorrect`, `JobsStayExclusive` | - | `PoolInv`, `TypeOK`, `JobsAreExclusive` |
| `EpollLoopProofs` | `KernelWatchesWhatIsWanted`, `LoopInvariance`, `LoopTypeCorrect` | - | `WatchedAsWanted`, `LoopInv`, `TypeOK` |
| | `FreedEntriesAreNotUsed` | `max_n_events <= 1`, `~FreesInUse` | `NoStaleEntry` |
| `ServiceProofs` | `SignalsFollowListeners` | - | `HandlersFollowListeners` |
| | `TimersAreSound` | `~EarlyRearms` | `TimersFire` |
| | `ItemsAreSentInOrder` | `~Partial` | `SentInOrder` |
| | `MachineIsReleasedOnce` | `~OtherThread` | `NothingAfterRelease` |
| `ProcessProofs` | `ChildrenHaveListeners` | `~Threaded`, `~EarlyStops` | `ChildrenAreKept` |
| | `RunsStaySeparate` | `~StopsRunning`, `Leftovers = {}` | `RunsAreSeparate` |
| | `RootStaysSound` | `StaleUses = {}`, one writer | `RootIsSound` |
| | `CallbacksFindTheirFrame` | `~Quits` | `FrameOutlivesCallback` |
| `ComponentProofs` | `DictMemoryIsRight`, `StoredStaysFound` | `Misuses = {}` | `DictMemory`, `StoredIsFound` |
| | `ListsStayChains` | - | `ListsAreChains` |
| | `CacheServesRightly` | no complex tracking cache | `CacheIsRight` |
| | `NumbersAreExact` | - | `ConvertedOrRefused` |
| | `TransfersEnd` | `~GraphThreads`, `CurlFaults = {}` | `TransfersAreDriven` |
| | `ViewIsRight` | - | `NetconfIsRight` |

### Events

`NoUseAfterFree` is not inductive: that an event a thread holds is allocated
follows only from the counter. `IInv` is `TypeOK` and the parts of `Shape`:
threads stay in their own program (`Programs`), have an event when they need one
(`Pointers`), events not yet created are unknown to all (`Created`), an event has
one producer and is in one place, the queue or one worker (`Exclusive`),
`refs_before_release` is the number of holders: the requester, and the queue or
worker that has the event (`Counted`), only a thread that found 0 frees and only
one does (`Freeing`, `Claiming`), and what somebody holds or queues is allocated
(`Allocated`). The proof treats a step that changes only one program counter once
(`SilentStep`) and has one lemma for each kind of step that changes the counters
or the queue.

`Answering` adds the second counter: from the references the queue takes until
the worker drops the first of them, `refs_before_response` is positive, so a
requester that finds it 0 is reading after the handlers. It also says who may
invalidate: only the thread that frees an event, and it is alone with it, so no
event in the queue is invalid. Therefore the first valid event, which the code
claims, is the first event, which `EventDelivery` demands; every other step of
`EventGraph` is a stutter or changes the fate of one event.

### Listeners

None of the three properties is inductive: that a stop leaves a listener quiet
depends on who holds `state_mutex` while the callbacks run, and that a shutdown is
completed once on who may be between SHUTTING_DOWN and its end. `LifeInv` says
that threads stay in their program (`Programs`), which states the mutex protects
(`Locked`), that only threads at such places own a mutex (`Owners`), that one
thread at most releases a listener (`Releases`), that a completed shutdown is
final (`Completed`), what is off already in the middle of a stop (`Quieted`), and
that a listener that is started once is untouched before that (`Fresh`).

`SafeUse` is what the proof attempt demanded beyond the model's preconditions: a
listener whose descriptor may break is started once, and a listener whose start may
fail or that has a thread has no dependants. All three have counterexamples
(section 6).

### Thread pool

That an entry is not recycled while somebody waits for it rests on `n_refs`, which
is 1 exactly for the entry of a user that will wait
(`Referenced`, `Recycling`); that a thread does not run before its job is set rests
on the start signal, which is reset with the entry, so it is off in every entry that
is free or prepared unless the thread was stopped (`Free`, `Pending`, `Startable`).
`Owned` and `Kept` give the property.

### Event loop

`FdInv` adds to `WatchedAsWanted` that a callback is only in the list of its own
entry, and that an entry which was freed has no callback left and is not in the
loop's list. It is about the operations only and does not depend on where the loop
is, so it is proved first. `LoopInv` adds the frames of the
nested loops (an outer frame is in the handler that entered the loop again), that
the shared batch has one event per descriptor, and that a request is in the control
pipe as long as an event for it is not handled (`CtrlInv`): the handler of the pipe
never blocks in `read`. `FreshInv`, for one event per `epoll_wait`, says that no event
is waiting while a handler runs, so nothing a handler frees is still to be used;
that it is not what a loop stands on is assumed (`~FreesInUse`).
Lemmas about the lists (appending, `Unlink`, what a sequence without duplicates
holds) are stated once; that the earliest timeout exists follows from the order of
the naturals being well-founded.

### Services and processes

`Signals`: the kernel has the action of the table, and the table has it exactly
while a node is listed. `Timer`: a one-shot is in one place, armed, expired or in
the self pipe (`OneshotLife`), and an expiration that is handled belongs to the
latest time that was set (`NotArmedAgain`), so the handler stops no newer one.
`WriteQueue`: what was sent and what is queued together are the added items; the
triggers are bounded by the items. `StateMachine`: `n_schedules` is the length of
the queue, and a machine that is being released has a change scheduled or is about
to schedule one until `release_cb` ran.

`Fork`: a running child that nobody asked to end is the one its listener knows, the
listener is started and has no fork pending (`KeptChildren`); that needs that pid
and flag were cleared before `do_fork` ran (`ListenerKnows`). `Popen`: all runs
before the current one were waited for, and the pipe and the write queue that
`start_listener` leaves belong to the next child (`ProcsInOrder`, `InputPipes`); what
is in the pipes was written by the current run (`PipeContents`).
`Root`: the table is one to one (`GraphsListed`), a name has at most one entry per
`crtx_init` (`PluginsListed`), and the parts in the self pipe follow each other and
start with a value, also across what was read (`PartsInOrder`); self pipe and
detached loop are unused or of the current life (`NothingStale`). `Sdbus`: the bus
knows a call only until its callback ran, and the frame ends after that
(`BusFrames`).

### Data structures

`Dict`: the two properties need each other, because the counters are only right
if no loop ends before the last item, and a dictionary is only freed with what it
owns if its items are well formed. `DictInv` says of every array that LAST_ITEM is
on its last item only and that an item has a dictionary, or cells, or neither
(`WellArray`); that no cell is owned by two items, two arrays or an array and the
event, and that the cells in use are exactly the owned ones (`OwnedApart`,
`Owning`); that memory which is not allocated has no items; that the counters are
the sum of the references of the application, the items, the event and the calls
of `crtx_dict_unref` still to come (`Counted`); and that the event has the only
reference to the dictionary `crtx_event_set_dict_data` made for it
(`PayloadKept`). Two lemmas carry the proof: when one array is replaced, the
references change by those in it (`CountChanges`) and so do the owned cells
(`OwningChanges`). A copy has as many references as its source because the places
of its items differ (`CopyPlacesDiffer`, `CopyIsRight`); that `malloc` finds enough
cells is a fact on injections between finite sets (`MallocIsFresh`).

`Lists`: the pointers of a node are a function of its index in `order`, so
insertion and removal are compared with the sequence index by index and the
definition of the chain, which follows pointers step by step, is only unfolded
once per list. `ListInv` adds to the chain that members occur once, and that nodes
outside of the list point nowhere in a `crtx_dll`.

`Cache`: `CacheInv` relates the entries to the events that were answered. A stored
response belongs to an event that is done and has the key of the entry
(`StoredAreDone`), so what a later event is served with is the answer the handlers
gave for the same key, and not older than the timeout (`Justified`, with
`BornBefore` for the age). For a tracking cache (`TrackInv`) an entry is in use
exactly when it has a key, no key is there twice, and the entries are those of the
`latest` events. `DictValue` needs only arithmetic on
the limits: a wide type has room for a narrow one (`WideIsWider`).

### Curl and netconf

`Curl`: besides the property `CurlInv` says that while the timer's handler runs the
event it added is still queued, which is where a timeout is between its expiry and
`timeout_handler`. `Netconf`: for each kind of object, the last message about it in
the socket is true of the kernel, or, if there is none, the view of the application
is or the kind has yet to be asked for (`KindIsKnown`); at most one question is
open, and what was asked is what was answered plus that question (`OneOpen`).

### Only model-checked

Liveness (`CreatedIsReleased`, `WaiterReturns`, `StartIsNotLost`, `FinishReturns`,
`StopEndsLoop`, `TimeoutExpires`, `EndsAreReported`, `BusCallsEnd`,
`QueuedWorkIsDone`), since fairness is beyond the prover, and the violations. Of
the invariants `MessageIsKept` and `AdaptersAreSound`: the operators of `SdbusMsg`
and `Adapters` are declared `RECURSIVE`, and what they compute for every input
needs induction over data. No module with a theorem reaches them.

## 5. Not modelled, and the plan

Not composed: the core modules are checked one by one. Where one uses another it
has the other's promise as a guard or an action (the pool thread in `Listener`,
the request pipe in `EventGraph`).

Left out of modelled parts: finding graphs by event type; `crtx_push_new_event`
callers that keep the pointer; freeing a graph with events in it;
`crtx_update_listener`; several event loops; graphs shared between listeners;
`crtx_threads_interrupt_thread` and the main thread as a worker; edge-triggered
descriptors; `crtx_dict_locate` with wildcards, printing and JSON; cache files and
pattern keys; the signalfd and direct modes of signals; tracking of D-Bus peers,
`sdbus_remote_ctrl.c`; what kernel and bus messages say (the `raw2dict`
functions); ping's statistics. Some of the hazards in `PROJECT.json` are therefore
covered by a note and not by a property.

Left out for good: `libvirt.c` and `layer2/wifi.c` (their state is in the foreign
library), the readline, xcb and similar thin adapters, the daemon, examples and
tests (users of the library), `src/attic` (not built).

The plan from here:

1. A composition of `EventGraph` and `Listener`: freeing a graph with events in
   it, handlers that add events to a full pipe.
2. `crtx_update_listener` and the main thread as a worker.
3. `SdbusMsg` and `Adapters` without recursion, so that their invariants can be
   proved too.

## 6. What the models showed besides the runs

Observed while translating or as counterexamples under the constants of section
3. Each is in the code at this commit.

* `dict.c`: a copied number loses its type, and an unsized `p` copy shares its
  pointer; `crtx_append_to_dict` (not declared) doubles `signature_length`;
  removing a missing key dereferences NULL; `I` read as `i` refuses the limits of
  the type and 0; `U` read as `u` copies four bytes.
* `cache.c`: concurrent misses store duplicates, concurrent expiry leaks a slot;
  a numeric response is served with type 0 (dict.c:1353) and skips the handlers; an
  update stores the dictionary around the payload (cache.c:457), a miss the payload
  (cache.c:468); an update of a tracking cache with the complex layout loses the key
  of the entry.
* `core.c`, payload of events: `crtx_event_set_raw_data` after
  `crtx_event_set_dict_data` wraps the wrapper again; the setters overwrite what was
  set before without releasing it; `crtx_event_set_dict` (used by `mqtt.c`) leaves the
  key NULL, which `crtx_event_get_payload` passes to `strcmp`; `crtx_event_raw2dict`
  is only called where it returns an error.
* `core.c`: a start that waits for `state_mutex` while the error callback releases
  the listener starts it again afterwards (SHUTTING_DOWN becomes STARTING); a stop
  that is refused because of a dependency leaves the listener STOPPING and watched,
  and a start that fails then declares it STOPPED although it is watched; one that
  succeeds overwrites `eloop_thread`, so the first thread is never stopped.
* `core.c`: `crtx_process_one_event` completes a delayed shutdown, which frees the
  graph, and then unlocks the graph's mutex and reads `graph->listener`
  (core.c:646-654); the control pipe handler goes on with the same pointer
  (evloop.c:129). Freeing a graph with queued events waits for the reference of the
  queue, which nobody returns (core.c:1134).
* `core.c`: the searches for graphs dereference emptied slots; `selfpipe_lstnr`,
  `evloop_thread` and the repository keep pointers after `crtx_finish`: a second
  `crtx_finish` frees and uses them, and the plugin entries of the last life come
  first in the repository.
* `llist.c`: appending the last node of a `crtx_dll` again makes it its own `prev`.
* `signals.c`: `sigchld_lstnr` is cleared inside its own event; the write to the
  pipe in the signal handler may block. `fork.c`: the pid is cleared after the
  fork was triggered, and -1 is stored as a pid.
* `popen.c`: output that was not read when the child ended stays in the pipe and is
  read in the next run, and so is input the child left in a stdin pipe that was not
  closed; after a failed `fork` the listeners stay started and nothing is reported.
* `timer.c`: a timer that is set again between the callback of its handler and the
  end of it (lines 53 and 61) is stopped; a one-shot retry whose start fails is
  not repeated, unless the listener asks for another one; the shutdown never
  closes the timerfd; the retry listener is freed without a shutdown.
  `writequeue.c`: an error other than EAGAIN and ENOBUFS stops the queue with its
  items; a last item of as many bytes as the value of EAGAIN or ENOBUFS keeps it
  enabled for one more call. `sm.c`: releasing a machine that never started
  dereferences NULL.
* `sdbus.c`: `crtx_sdbus_get_objects` leaves the address of a local variable with
  the bus, takes no lock for its call and waits for ever when `sd_bus_call_async`
  failed; it ignores a failed conversion and hands out a partial dictionary;
  `fd_error_handler` is called again and again, because the descriptor stays watched;
  endless calls starve received messages; `track_remove` frees twice.
* `curl.c`: a failing `curl_multi_add_handle` counts as a started transfer
  (lines 131-135), a failing update of the timer drops the timeout (233-237); a done
  callback that frees its listener causes a use after free; a
  timeout of -1 becomes one nanosecond; socket entries are not freed.
* Adapters: `default_el_cb` is appended again by a restart (journal, MQTT, uio) or
  used before it was appended (CAN, avahi, dynamic evdev); descriptors closed
  twice (libnl, fanotify) or leaked when a setup fails (netlink_raw, fanotify,
  ping); uevents cannot be stopped; MQTT's retry timer outlives its listener;
  PulseAudio's free callback uses a thread pointer that the stop cleared.
* `netconf.c`: a deleted neighbour is reported like a new one (neighbours are
  excluded from `ViewIsComplete` for that reason), an overrun of the socket is only
  logged, and a question that could not be sent is not sent again.
