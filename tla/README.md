# uringcore: a TLA+ verification project

uringcore is an asyncio event loop whose I/O engine is a Rust extension over
io_uring. This directory models the engine, the loop's scheduler, the stream
transport on top of both, the server, the transports that use readers and
writers (pipes, datagrams, child processes), and the table of registered files. The models are
checked on small instances with TLC; every safety property that holds there is
proved for all instances with TLAPS. Paths below are relative to the repository.

## 1. Inventory

| Component | State | Operations | Interacts with |
|---|---|---|---|
| Engine `UringCore` (`src/lib.rs`) | `futures`, `inflight_recv_buffers`, `recvmsg_states`, `sendmsg_states` (all keyed by descriptor) | `register_fd`, `unregister_fd`, `pause/resume_reading`, `submit_*`, `run_tick` | pool, credits, ring below; loop and transports above |
| Buffer pool (`src/buffer.rs`) | free list of indices | `acquire`, `release` | engine |
| Descriptor state (`src/state.rs`) | in-flight count, pause flag | `on_submit`, `should_submit_recv`, pause, resume | engine |
| Ring (`src/ring.rs`) | submission and completion queue, eventfd | `prep_*`, `submit`, `drain_completions` | kernel |
| Registered files (`src/fixed_fd.rs`, `src/ring.rs`) | map, array, free indices | `register_file`, `unregister_file`, `lookup_fixed`, `shutdown` | kernel; `prep_*` look slots up |
| Scheduling (`loop.py`, `src/scheduler.rs`, `src/timer.rs`, `src/handle.rs`) | ready queue, timer heap, `_stopping`, readers and writers, epoll masks | `run_forever`, `run_until_complete`, `stop`, `close`, `call_soon`, `call_soon_threadsafe`, `call_at`, cancel, `add/remove_reader/writer` | engine's `run_tick`; other threads |
| Stream transport (`transport.py`) and dispatch (`loop.py`) | flags of the transport, `_transports`, `_io_futures` | `write`, `pause/resume_reading`, `close`, `abort`, done-callbacks, completion handlers | engine, scheduling, protocol |
| Server (`server.py`) and accept dispatch (`loop.py`) | `_servers`, `_sockets`, `_serving`, accepts in the kernel | `create_server`, `create_unix_server`, `close`, `start_serving`, `serve_forever`, the accept handler | engine; protocol factories; clients |
| Pipe transports (`pipes.py`) | `_closing`, `_paused`, `_buffer`, entries in `_readers` and `_writers` | `connect_read_pipe`, `connect_write_pipe`, `_read_ready`, `_write_ready`, `write`, pause, resume, `close`, `abort` | readers and writers of the loop; protocol |
| Datagram transport (`datagram.py`) | `_closing`, entry in `_readers` | `create_datagram_endpoint`, `_read_ready`, `sendto`, `close`, `abort` | the same |
| Subprocess transport (`subprocess.py`) | return code, waiters, pidfd, three pipe transports | `subprocess_exec`, `subprocess_shell`, exit handling, `_wait`, signals, `close` | the same; a thread; the child |
| `sock_*`, TLS, `UringFuture`, provided buffers | see section 8 | | not modelled |

What is hard here:

* A completion carries only a descriptor and an operation type; everything
  else is found again through maps keyed by descriptor, while the kernel
  finishes operations in any order.
* One completion is handled twice per turn of the loop, first in `run_tick`
  (which resolves a future, whose callback may submit the next operation) and
  then in `_process_completions`.
* Submissions fail half way: no buffer, a full queue, a flush that fails and
  leaves its entry queued.
* Other threads schedule callbacks while the loop tests its queue, sleeps in
  epoll and drains its eventfd.
* Callbacks cancel each other, stop the loop, reschedule themselves.
* The kernel may refuse an update of the registered files after the table has
  changed, and neither the table nor the maps of readers and writers learn that a
  descriptor was closed and its number given to another file.
* `remove_reader` does not take back a callback that is already queued, so
  transports get called after they paused or closed.
* An accept outlives the server that submitted it, and its completion names a
  descriptor number that may belong to another server by then.
* A child's exit, its last output and the closing of its pipes come in any
  order, by way of epoll or of a thread.

`PROJECT.json` lists each hazard at its line with the properties that cover it.

What makes each component correct: the engine never gives a buffer to two
holders, keeps what the kernel uses reserved, and hands a completion to the
future of its operation; the transport delivers each piece of data once and in
order, reports the loss once, keeps its reader alive and releases its writer;
the loop runs callbacks once, in order and eventually; a registered slot has one
owner, the one the kernel has in it; a server keeps an accept outstanding and
loses no accepted descriptor; a pipe transport writes what it was given, in
order, before it closes; a child's output is delivered before its exit, and
nothing after it.

## 2. Modules

| Module | Models |
|---|---|
| `UringCore` | engine, pool, credits, ring |
| `StreamTransport` | extends `UringCore` with transport, loop turn and completion handlers |
| `CallbackQueue` | abstract specification: a FIFO queue of callbacks |
| `EventLoop` | scheduling; implements `CallbackQueue` |
| `FixedFiles` | registered files and the kernel's array |
| `FdLoop` | what a transport on readers and writers sees of the loop |
| `Pipes`, `Datagram`, `Subprocess` | extend `FdLoop`: the three kinds of transports with their peers |
| `Server` | servers, accepts in the kernel, accept dispatch |
| `MC*` | constants, symmetry and views for TLC |
| `UringCoreProofs`, `EventLoopProofs`, `FixedFilesProofs`, `DatagramProofs`, `PipesProofs`, `SubprocessProofs`, `ServerProofs` | theorems about the module of that name |
| `StreamTransportProofs` | theorems about `StreamTransport`; extends `UringCoreProofs` |

Definitions named `Bug...` are faulty variants of the definition that follows
them. Nothing uses them; they are what `PROJECT.json` substitutes to see that
each property notices the fault.

### UringCore

All entry points run under the GIL, so one call is one step; the kernel
(`KernelComplete`) is concurrent and finishes what it holds in any order, with a
positive, zero or negative result. Each path through a `submit_` function is an
action: skipped, no buffer, full queue, queued and flushed, queued with a failed
flush, and the panic of `submit_send` on data longer than a buffer, which keeps
the buffer it took (`SubmitSendTooLong`). `RunTick` is the completion part of `run_tick`: phase 1 takes the tracked
buffer of a descriptor, phase 2 its future, phase 3 resolves it. An operation is
named by the number of its call; the code has no such name, and `RunTick` only
looks at descriptor and kind. `sendHeld` and `mem` are ghosts: buffers taken by
sends (the code records them nowhere and never releases them), and what the
kernel wrote into which buffer. The free list is a count per index instead of a
queue: which free index `acquire` returns is left open, a double release shows
as a count of two.

Abstractions: a positive result is a byte count without its value; addresses,
sizes and error texts are left out; an address that `submit_sendto` rejects
changes nothing and is a stuttering step. The generation never changes in this
code base (nothing calls `increment_generation`), so the checks on it are left
out, and so is the quarantine, which nothing fills. A `run_tick` whose flush
fails changes nothing here; its effect on timers and on the loop is
`EventLoop!TickFails`.

With `SingleOp` the callers keep at most one operation outstanding per
descriptor and unregister only idle ones. The engine does not enforce this and
the transport does not follow it: it has a receive and any number of sends
outstanding. The constant separates what the engine guarantees to anyone from
what it guarantees only to such callers.

### StreamTransport

The loop thread goes round `tick`, `batch`, `process`: `Tick` is `RunTick` plus
the scheduling of the done-callbacks, the batch runs callbacks one at a time
with the application's own calls in between, and `process` is
`_process_completions` over the list `run_tick` returned. The done-callbacks are
those of the completions that resolve a future (`Resolving`), in the order of the
completion queue (`InOrder`). A callback that ends
in `_rearm_recv` is split at that call (`rearming`), since the protocol may use
the transport before it (inside `data_received`, or in `connection_made`). A
write has length one and completes with count one or an error. It ends in one of
four ways: queued; queued with a `pause_writing` that raises, which closes the
transport; refused by `submit_send`, which closes it too; or with the panic of an
oversized send, which `except Exception` does not catch and which goes to the
caller of `write`. A `data_received` that lets this exception pass ends
`run_forever`; the model does not follow it there. The high-water mark is a
constant. Transports do not
follow `SingleOp`, and connections are numbered in the order in which they are
made; `TransportAssumption` says both. `Connect` is
`create_connection`; it allows a descriptor number to be used again after its
transport closed.

### EventLoop

`phase` is the position of the loop thread in `run_forever`, `_run_once` and
`run_tick`. `call_soon_threadsafe` is two steps, the push and the write to the
eventfd. Handle numbers are reused as soon as their callback is gone, so two of
them suffice for a callback that reschedules itself for ever. Futures given to
`run_until_complete` carry the stop callback that the code adds; a stop callback
is an item of the ready queue. Completions appear as a signal on the eventfd and
as the phase `process`, in which `_process_completions` runs handlers: what they
call may use the loop like any callback, and one that raises leaves
`run_forever`, as does a `run_tick` whose flush fails (`LeavesLoop`).

`watched` is what `_readers` and `_writers` say, `mask` what epoll has. The two
change by calls of their own: `add_reader` removes the old callback first and may
then be refused by the kernel (`AddWatchFails`), the failures of the removals are
ignored (`MaskWithout`), and a close makes epoll forget a descriptor that the maps
keep. `abandoned` has the descriptors closed in that state; their number may be
opened again, and then `add_reader` fails as long as the map of the other
direction has the old entry. A descriptor that was duplicated, which epoll does
not forget on close, is left out.

### FixedFiles

A call is one step under the ring's mutex. A number is not a file: `file` says
what each number refers to, numbers are closed and opened again, and the kernel's
array keeps a file whatever becomes of the number. `queued` is the submission
queue with the slot each entry was given; `stale` has the numbers that were closed
while the table had a slot for them, which Ring does not learn. `Unregister` and `Shutdown` take the
kernel's answer as a parameter, `RegisterOk` and `RegisterRefused` are its two
answers to an update. The comment in `fixed_fd.rs` that the table "mirrors the
kernel's registered files array" holds for the slots that have an owner
(`KernelAgrees`) and whose number was not closed meanwhile; after a refused removal
a free slot may still hold a file. What the program does to itself is the
exception of `QueuedReachesItsFile`: the field `sound` of an entry is cleared when
its own number is unregistered or, for an entry without a slot, closed.

### FdLoop, Pipes, Datagram, Subprocess

`FdLoop` has the set of callbacks that epoll watches a descriptor for and the
ready queue. `Poll` is the part of `_run_once` that asks epoll, which happens
only when nothing is ready; the order of the events is free. A callback that
runs is the head of the queue, watched or not. A transport's method called by
the application is one step at any time; a callback is one step, since nothing
else runs on the loop's thread meanwhile. A protocol method that is called last
in a handler may use the transport like any application step that follows; the
one called in the middle with an effect of its own, `resume_writing` that
closes, is the action `WriteLastAndClose`.

In `Pipes` the two transports are the ends of one pipe, so data can be followed
from `write` to `data_received`; another process may share the read end, which
is how a readable pipe comes to be empty when it is read. A unit of data is the
number of the `write` that brought it. `limits` are the two marks, which
`set_write_buffer_limits` changes at any time to any values, 0 included. Sizes, `os.set_blocking` and the waiter
of the constructor (never passed) are left out. In `Datagram` the call of
`datagram_received` is a phase of `_read_ready` of its own (`busy`), in which the
protocol may close the transport or send; when it raises, the same `_read_ready`
calls `error_received`, closed or not. In `Subprocess` the child
writes, reads, exits and starts a process (`heir`) that keeps the output pipes
open, and perhaps reads stdin after the child has gone; `owed` is what the child itself had written. `_process_exited` is one step with
two outcomes: `ExitHandled`, and `ExitCutShort` when a pipe closed before or
a protocol that raises ends it in the middle.

### Server

`armed` counts the accepts the kernel has on a server's socket, which stays
there after `close()`. A completion carries a descriptor number; `_servers`
says whose it is when the handler runs. `running` separates the two parts of a
turn of the loop: `run_tick` has taken the completions (`todo`) and runs
callbacks, then `_process_completions` handles `todo`. `handling` is the moment
between `connection_made` and the rearming, in which the protocol may close the
server. A server has one listening socket; several would be several entries
with one `close`. `submit_accept` may raise with nothing submitted, or because only the flush
failed: the accept is then `queued` and is sent by the next `submit` of any kind,
`run_tick`'s at the latest, so that a server whose `create_server` raised may
still accept. The future of an accept is awaited by nobody and left out.
What the transport of an accepted connection does is in `StreamTransport`.

## 3. Runs

| Run | Instance | Result |
|---|---|---|
| `core_any_caller` | 2 descriptors, 2 buffers, 3 calls, queue of 1, credit 2; recv, send, sendmsg | `TypeOK`, `BufferAccounting`, `StoredFutureHasOperation` hold |
| `core_single_op` | the same with recvmsg, sendmsg, accept, credit 1, `SingleOp` | `KernelBufferReserved`, `MessageStateAlive`, `OwnCompletion` hold |
| `core_kernel_buffer` | 1 descriptor, 2 receives, any caller | `KernelBufferReserved` is violated |
| `core_credits` | 1 descriptor, 2 receives, `SingleOp` | `CreditsMatchRing` is violated |
| `stream_one_conn` | 1 connection, 2 buffers, 4 calls, every application move | five properties of the transport hold |
| `stream_fifo` | 1 connection that only receives | `DeliveredFifo` is violated |
| `event_loop` | 2 handles, 1 timer tick, 1 thread, 1 future | FIFO refinement, wakeups, timers and liveness hold |
| `loop_watches` | 1 descriptor with reader and writer, closed and reopened, failing epoll calls, 1 handle | masks and FIFO refinement hold |
| `fixed_files` | 3 descriptor numbers, 2 files, 2 slots, a queue of 2 entries | all four properties hold |
| `transports` | a pipe of 2 units and 3 writes, marks 0 and 1; 3 datagrams; a child with 1 output pipe, 2 units of output and of input; 2 servers with 1 descriptor number, 2 clients, 1 error | 17 properties hold |
| `reader_gone` | a pipe of 1 unit, 2 writes | `WriterSeesError` is violated |
| `closed_server` | 2 servers, 2 descriptor numbers, 1 client | `ClosedStopsServing` is violated |

The violations:

1. **A buffer in use by the kernel is released** (`src/lib.rs:583`, `:291`).
   A second receive on a descriptor, or `unregister_fd`, frees the tracked
   buffer while its operation is outstanding.
2. **Credit is never given back** (`src/lib.rs`, `run_tick`). The decrement is
   only in `drain_completions`, which the loop does not call. A descriptor that
   is registered once gets 64 receives and then `submit_recv` returns without
   submitting; `_recv_pending` stays set and the connection is silent.
3. **Data is delivered twice** (`loop.py:347`). The second handling of a
   completion resolves the future of the next receive with the old data.
4. **A writer is not told that its reader is gone** (`loop.py:302`). On a full
   pipe epoll reports `EPOLLERR` without `EPOLLOUT`, and that is looked up among
   the readers only. The subprocess's stdin has the same writer.
5. **A closed server goes on accepting** (`server.py:51`). Its accept stays in
   the kernel; the connection goes to whichever server has the number now, or
   its descriptor is leaked.

What `transports` shows, by property:

* `PipeKeepsData`, `PausedHasBacklog`, `CloseFlushes`: partial writes lose,
  repeat and reorder nothing; a paused protocol is resumed, unless the low mark
  has been 0, for which `pipes.py:134` resumes nobody; `close()` writes the rest
  if the reader reads.
* `PipeEndedOnce`, `PipeWatchesLive`, `SubprocessWatchesLive`: descriptors are
  closed once together with `connection_lost(None)`, and no watch outlives its
  descriptor, except for a pipe that `resume_writing` closed. After an error
  `connection_lost(exc)` comes on top of that (`pipes.py:150`).
* `DataOnlyWhileReading`, `DatagramQuietAfterClose`, `ExitIsFinal`: a callback
  that was queued before a pause, a close or the exit delivers nothing after it.
  The one call after a datagram endpoint's close, before `connection_lost`, is
  `error_received` for a `datagram_received` that closed and raised.
* `OutputBeforeExit`, `ExitNoticed`, `StdinClosesWhenFlushed`,
  `DatagramLostCalled`: what must come, comes, and before what it must precede.
* `AcceptPending`, `BacklogServed`: the chain of accepts does not break, whatever
  protocols raise and whenever servers are closed and made.
* `LeakOnlyAfterClose`, `ClosedServesNobody`: an accepted descriptor is lost only
  through violation 5 or an exception while rearming, and a closed server's
  factory is not called again.

Two more disagreements with comments in the code are visible in the models and
have no run. A failed send whose future was replaced by a later write is ignored
(`transport.py:279`, `SendCompleted`): nothing closes the transport or resumes
its protocol. The stop callback of a `run_until_complete` that was left early
stays on its future and ends a later run (`loop.py:213`, `StopItem`).

### Bounds

`MaxCalls` bounds submissions. Three are enough for two operations on one
descriptor and one on the other, and for a failed flush followed by a push on
the full queue; four are enough for a connection to receive, rearm and have two
writes overwrite each other's future. `SqEntries = 1` makes the full queue
reachable by one failed flush, and two buffers make the pool run dry. In the
transport runs `CreditBudget` exceeds `MaxCalls`, so that violation 2 does not
hide everything else: `ReaderAlive` is therefore a statement about connections
that still have credit, and `core_credits` about those that run out. Two handles
and one clock tick give two timers with equal and with different expirations,
next to pushes from a thread. Three descriptors on two slots fill the table, and
two entries in the queue meet a slot that changes its owner in between.

A pipe of two units under three writes is written in parts and blocks; with both
marks at one, writing pauses and resumes, and with a low mark of 0 it does not
resume. A stdin pipe of one unit makes the
flush of two take two rounds. Two servers on one descriptor number are the case
of reuse, and an accept of the first that completes late leaves the second with
two accepts; the invariants of `Server` also hold with two numbers, two servers
open at once and two clients (660 000 states), and those of `Subprocess` with
stdout and stderr (410 000 states), which take too long together. The four
scenarios of `MCTransports` share nothing but the loop, so one run explores them
side by side from four initial states.

Descriptors and buffers are interchangeable (`Symmetry`); no liveness property
is checked under symmetry. The views drop variables that no guard, no other
variable and no property of the run reads: `results` always; in
`core_any_caller` also buffer contents and future values (`TypeOK` is the one
property that mentions them, and it is proved in full); in the transport runs
the message states, which no operation used there touches.

Deadlock is not checked, as these systems may legitimately stop: all bounded
calls used up and nothing in the kernel, a closed loop, or a transport whose peers have nothing more to say.

### Fairness

`LoopSpec` assumes that the clock advances and that the thread inside
`run_forever` keeps making steps, which includes that callbacks return and that
`epoll.poll` does (it has a timeout of at most 10 ms). Nothing is assumed of the
application, other threads, completions or events.

`MCSpec` assumes that the loop polls and runs what is ready (`LoopSteps`), that
the thread waiting for a child runs once the child has exited and that the
kernel accepts a client that waits while an accept is outstanding
(`OutsideSteps`), and, strongly, that a pipe found with room again and again does
not refuse every write. Polling is fair only as long as callbacks do not keep the
ready queue filled for ever. Children, clients, readers and applications owe
nothing: `CloseFlushes` ends where the reader stops reading. The other
specifications state safety only and have no fairness.

`EveryCallbackRuns` covers callbacks and timers. The code gives no such promise
to readers and writers: `_run_once` skips epoll while anything is ready, so
callbacks that reschedule themselves keep descriptor events waiting.

## 4. Proofs

The theorems hold for every value of the constants that the assumption of the
module allows: any number of descriptors, buffers, calls, connections, handles,
threads, writes and clients.

| Theorem | Assumes | Shows |
|---|---|---|
| `TypeCorrect`, `AccountingCorrect`, `StoredFutureCorrect` | `ConstantsAssumption` | `TypeOK`, `BufferAccounting`, `StoredFutureHasOperation` for any caller |
| `ReservedCorrect`, `MessageStateCorrect`, `OwnCompletionCorrect` | the same and `SingleOp` | `KernelBufferReserved`, `MessageStateAlive`, `OwnCompletion` |
| `TransportTypeCorrect`, `TransportAccountingCorrect`, `EngineBelow`, `ResolvedOnce`, `ConnectionLostCorrect`, `PauseInSyncCorrect`, `NoDataAfterCloseCorrect` | `TransportAssumption` | `TransportTypeOK`, the engine's accounting below the transports, its steps there, no future resolved twice, `ConnectionLostOnce`, `PauseInSync`, `NoDataAfterClose` |
| `ReaderAliveCorrect` | the same and `MaxCalls <= CreditBudget` | `ReaderAlive` |
| `LoopTypeCorrect`, `QueueRefinement`, `TimersCorrect`, `WakeupCorrect`, `EpollCorrect` | `LoopAssumption` | `LoopTypeOK`, `ImplementsCallbackQueue`, `TimersInOrder`, `NoLostWakeup`, `EpollMatchesWatches` |
| `FilesTypeCorrect`, `SlotOwnedOnceCorrect`, `KernelAgreesCorrect`, `QueuedReachesItsFileCorrect` | `FilesAssumption`, `NoneAssumption` | the four properties of `FixedFiles` |
| `PipeKeepsDataCorrect`, `PipeEndedOnceCorrect`, `PipeWatchesLiveCorrect`, `PausedHasBacklogCorrect`, `DataOnlyWhileReadingCorrect` | `PipeAssumption` (any marks) | the five safety properties of `Pipes` |
| `DatagramQuietCorrect` | `DatagramAssumption` | `DatagramQuietAfterClose` |
| `OutputBeforeExitCorrect`, `ExitIsFinalCorrect`, `SubprocessWatchesLiveCorrect`, `StdinClosesCorrect` | `SubprocessAssumption` | the four safety properties of `Subprocess` |
| `LeakCorrect`, `ServesNobodyCorrect`, `AcceptPendingCorrect` | `ServerAssumption` | `LeakOnlyAfterClose`, `ClosedServesNobody`, `AcceptPending` |

**Engine.** `TypeInv` strengthens the type with what an operation record holds
once it has been queued (its descriptor is a descriptor, a receive's buffer is a
buffer), which `RunTick` needs to look things up. `BufferAccounting` is
inductive relative to it: the one subtle step is `RunTick`, which adds to each
index the number of descriptors that release it; since no two descriptors track
the same buffer this number is at most one (`ReleaseCount`). `QueueInv` says that
the completion queue and the operations at stage `cq` correspond, with matching
descriptor and kind; without it, a future could be left whose completion is
already consumed. `StoredFutureHasOperation` is inductive with it, since
`RunTick` removes the future of every descriptor it has a completion for.

For callers that keep one operation per descriptor, `OnePerFd` (where their
discipline enters) makes `ReceiveTracked` (an outstanding receive's buffer is
the tracked one) inductive; with the accounting this excludes the free list and
every send. `MessageStateAlive` is inductive with `OnePerFd`: only a second
message operation on the descriptor would replace the state. `OwnCompletion`
needs two more facts. `QueuedOnce`: an operation is in the completion queue once.
`BytesKept`: the bytes of a queued receive are still in its buffer, since the
kernel writes only into buffers of other outstanding receives, which are
different ones (`OwnBuffer`).

**Stream transport.** The engine's invariants hold below the transports because
every step is an engine step or leaves the engine alone, with one exception:
`_handle_recv_completion` resolves a future by itself, and `ResolvesOnly` says
that it changes nothing else. `EngineBelow` states this as a theorem, and
`ResolvedOnce` follows from it: the two places that resolve a receive's future
both look whether it is pending. `TransportInv` adds to these: `MadeFirst` (nothing
in the tables or queues mentions a connection before it is made, which makes a
descriptor number safe to use again), `BatchDone` (callbacks run in their phase),
`LostOnce` (a force-closed transport was told, or the call is queued exactly
once, and otherwise neither) and `PauseInSync` itself.

`ReaderAlive` needs to know why a receive that is outstanding can still find its
future. `Readers` follows a pending receive through its stages: outstanding with
its future stored in the engine or in `_io_futures`, resolved with its callback
queued, or in the list that `_process_completions` still has to go through
(`TodoDone`: that list is empty at the next tick). A call number that was not
used has left no trace (`CallFresh`). The hypothesis on the credit is needed and
not a convenience: `run_tick` gives no credit back (violation 2), so that a
descriptor that has used it up is skipped by `submit_recv` and its transport
waits for ever.

**Loop.** `NoLostWakeup` is inductive with the type of `pc` alone: the queue is empty when the
loop goes to epoll, only a push by a thread in that phase changes that, the
thread that pushed is then between its two steps, and its second step makes the
eventfd readable. The eventfd is drained only in the next phase.
`EpollMatchesWatches` is inductive with the types of the two maps (`WatchesOK`).

`LoopInv` is the type, `PhaseInv` (the batch and the running callback belong to
their phases, and the events that epoll reported are not queued yet) and `Apart`: nothing is pending twice, a timer in the heap is not
pending, nor is the stop callback of a future that is not finished. Its proof
rests on one fact about all actions but `Execute`: they append new callbacks to
the pending ones and take none away (`Grows`, `LoopGrows`); `Execute` removes the
first (`Popped`). These are the two actions of `CallbackQueue`, so the refinement
follows from the same facts. For `TimersInOrder`, only `Tick` takes timers out of
the heap, and it appends the expired ones sorted by time (`TickInOrder`); as none
of them was pending before, each has one place in the queue.

**Registered files.** `FilesInv` collects type, ownership and agreement with the
kernel; `GoodTable` is its part about a table by itself. `NewTableGood`,
`InsertGood` and `RemoveGood` say that each table operation keeps it; the
rollback after a refused update is the two in sequence. `QueueInv` says why a
queued entry is safe: a sound one on a slot belongs to a number that still owns
the slot, with the entry's file in it, and one without a slot to a number that
still refers to that file. So no registration can take its slot.

**Pipes.** `PipeInv` adds to the properties what ties flags, descriptors and
buffer together: `ReaderLife` (the descriptor is open until `_closing`),
`WriterLife` (what is buffered has an open pipe to go to, and an open pipe was
not ended, unless the writer was made on a closed pipe object), and `MadeFirst` (`connection_made` is queued ahead of every
`_read_ready`, which is why data never precedes it). `PipeKeepsData` is about
one line of units: delivered, in the pipe, buffered. Each action moves a part of
the line over one of the two boundaries, takes a part out, or appends the next
unit; `Keeps` is the property of such a line, and there is a lemma for each move.

**Datagrams.** `LostPending`: `_call_connection_lost` is queued at most once, by
`close()`, and not after it has run. It also says that a `datagram_received` in
progress is at the head of the queue, hence ahead of `connection_lost`.

**Subprocess.** `OutputInOrder`: the output is delivered or in the pipe, numbered
without a gap. `OutputDone`: `process_exited` leaves the pipes empty and closed.
`ExitOnce`: the exit is under way in at most one place, a watched or queued pidfd,
the waiting thread or the callback it scheduled; this is what excludes a second
`process_exited`. `StdinLife`: stdin is watched only while something is buffered
and its pipe is open.

**Server.** `ServerInv` adds two things to the type. `ServersMatch`: `_servers`
has exactly the sockets that are open, under their own numbers; so a completion
that finds a server finds an open one, which is `ClosedServesNobody`. `Routed`:
a completion with a client, in the ring or taken by `run_tick`, has the number of
the server that the client asked for. A completion that finds no server thus
belongs to one that is not open any more, which is why a descriptor is only lost
then. `RoutedStays`, `RoutedAppend` and `QueueParts` say what appending and
taking do to such a queue. `AcceptPending` is not inductive as it stands: a
completion on its way may be an error, after which nothing is submitted.
`AcceptChain` requires one that carries a client.

Only model-checked are the six liveness properties: `EveryCallbackRuns`,
`StopEndsLoop`, `CloseFlushes`, `DatagramLostCalled`, `ExitNoticed` and
`BacklogServed`. Liveness under fairness is beyond the prover. The five
properties that the code violates have runs and no theorems.

## 5. Running

    tlc -workers 2 -config CoreAnyCaller.cfg MCUringCore
    tlapm StreamTransportProofs.tla

The longest run takes about two minutes, the proofs together about ten
minutes.

## 6. Reading guide

Start with `UringCore` (state, `SubmitRecvQueued`, `RunTick`), then
`StreamTransport` (`Tick`, `OnRecvComplete`, `HandleRecv`), then
`CallbackQueue` and `EventLoop`. `FdLoop` with one of its three transports,
`Server` and `FixedFiles` each stand alone.

## 7. Plan

Done: all modules of section 2, their runs and the theorems of section 4.

Next: accepted connections inside `StreamTransport` (`connection_made` before
`register_fd`), and a run with two connections on one descriptor number and
operations of the first still in the kernel. The theorems of
`StreamTransportProofs` hold there too; which connection such an operation's data
goes to is the open question (the hazard at `src/ring.rs:67`).

## 8. Not modelled

* `sock_*` coroutines: each is `register_fd` and one submission awaited, which
  `UringCore` covers for callers of any kind.
* TLS: `start_tls` creates its protocol object but never installs it on the base
  transport, so it receives nothing; a model would be one of the `ssl` module.
* `UringFuture`: `create_future` returns `asyncio.Future`.
* `drain_completions`, `run_until_stopped`, the multishot submissions and their
  handlers, provided buffers, linked timeouts, zero-copy send, `register_fds`:
  no caller in the Python code.
* The numbers of accepted descriptors and the lifetime of Python objects. When
  `connection_made` raises, `loop.py:432` closes the descriptor under a socket
  object that `_transports` keeps; the object may close the number again after it
  was given to the next connection.
* `buffer_count as u16` at the creation of the pool (`src/buffer.rs:139`): a count
  of 65536 gives an empty free list.
* Descriptors that were duplicated: epoll and the kernel's array identify files,
  and `EventLoop` takes a closed number for a closed file.
* Fork: the generation counters exist but nothing increments them.
* Memory mapping, locking of memory, SQPOLL wakeups: outside the model's level.
* Executor, signals and name resolution: wrappers that end in
  `call_soon_threadsafe`. Policy, metrics, error types, benchmarks: no control
  flow of their own.
