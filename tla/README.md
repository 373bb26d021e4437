# A verification of DownloadKit's libx and libx++ in TLA+

This directory specifies the concurrent and re-entrant core of libx
(`src/libx/x`): the agent's tool loop and conversation, the event loop with its
cross-thread entries, the thread pool and the lock-free structures below it, the
commands it runs, the file transfer and the peer to peer stack that carries it; and of the runtime of
libx++ (`src/libx++/xpp`): its work-stealing queue and its spawned tasks. TLC
checks each module on small instances, TLAPS proves theorems about some of them
for every instance. Paths below are relative to `src/libx/x`, those that start
with `xpp/` to `src/libx++`, those that start with `docs/` to `src`.

## Inventory

| Part | State it keeps | Operations | What is hard |
| --- | --- | --- | --- |
| Agent query (`agent/query.c`) | running, cancelled, turn, the calls of the round, calls that wait for the user or for an operation, what the run produced | create, run, cancel, destroy, tool completion, confirm resolve, provider text / tool call / done | callbacks re-enter while a loop is on the C stack; storage is recycled while late events are still to come |
| Provider (`agent/provider_openai.c`) | one flight, its cancelled flag, tool-call deltas | submit, cancel, stream event, stream end | one flight per provider: a cancelled one makes the next submit Busy |
| Shell tool (`agent/tool_shell.c`) | one command per Pending call | handler, cancel, command done | completes after the run that started it |
| Session and budget (`agent/session.c`, `budget.c`) | history, the stored prefix, the query, one queued input, the prompt estimate | input, done of a run or a summary, retry, cancel, window change, destroy | summaries replace a range while an input waits; callbacks send new inputs |
| Memory store (`agent/memory_jsonl.c`) | one file per session | append, retrieve | torn or repeated lines |
| Event loop (`base/event_*.c`, `heap.c`) | descriptor sources, a heap of timers, the done queue, the wake flag, inflight | post, submit, cancel, wake, wait, run, stop, destroy | several threads, a coalesced wake, work that outlives its caller |
| Work item pool (`base/event_private.h`) | a Treiber stack | alloc, free | ABA |
| MPSC queue (`base/mpsc.c`) | head, tail, links | push, pop | the queue is broken in the middle of a push |
| Task group (`base/task.c`) | task queue, idle and pending counts, done list, one state per task | submit, wait, cancel, group wait, destroy | who is signalled, who may still read a task that is reclaimed |
| Command executor (`base/command_posix.c`) | a child, the outputs that are watched, two timers; a SIGCHLD watch shared by all | submit, cancel, destroy, readable, timeout, grace, SIGCHLD | exit, ends of the outputs and timeout in any order; one signal for many children; callbacks during the walk over the executors |
| Timer thread (`base/timer.c`), slab (`base/slab.c`) | a heap, per-thread slabs | after, cancel, fire; alloc, free | due timers handed to another thread; remote frees |
| Transfer (`fer/`) | both transfers' states, the received bitmap, `.part` and `.bitmap` on disk | open, resume, chunk, done, ack, dry, cancel | a crash between two writes, a source that is edited, a full socket, a peer that is gone |
| ICE agent (`p2p/ice_agent.c`, `stun_txn.c`) | candidates, pairs, transactions, five timers, the nominated pair | gather, set remote, add candidate, STUN messages, timers, destroy | answers that arrive after the list changed, timers that outlive their purpose |
| Peer connection (`p2p/peer_connection.c`, `dtls_transport.c`, `sctp_transport.c`, `datachannel.c`) | one state per layer, the channel table, channels that wait for SCTP | describe, set remote, state callbacks, create, send, close, destroy | each layer is started by the callback of the one below and fails on its own |
| TURN, STUN codec, SDP (`p2p/`), HTTP and WebSocket (`http/`), network (`net/`) | protocol state per connection | handlers of messages, timers and errors | parsing, connection races |
| Work-stealing queue (`xpp/runtime/queue.h`) | head, tail, a ring of slots | push and pop of the owner, steal | the last item, slots that are reused under a slow thief |
| Schedulers (`xpp/runtime/*scheduler*`) | workers, global queue, run queue of the current thread | spawn, claim, poll, settle, park, shut down | a wake during a poll, an entry that is stale when popped |
| Tasks and promises (`xpp/promise_node.h`, `runtime/task.h`, `blocking_pool.h`) | per task state, join state, resolved flag, waker | poll, join, detach, delete | who deletes the task, and who still reads it |
| Scheduled I/O, sockets (`xpp/runtime/scheduled_io.h`, `net/`), asynchronous mutex (`sync/mutex.h`) | readiness bits and two wakers; a list of waiters | poll, event, close; lock, unlock | readiness against registration; waiters that were dropped |
| Logger, buffers, containers, hashes, terminal, line editor, JavaScript, CLI, C++ value types | - | - | sequential, vendored or glue |

How they meet. A host calls `xAgentSessionInput`; the session gates the input on
its budget, creates an `AgentQuery` and runs it. The query submits rounds to the
provider, whose HTTP client reports on the loop thread; tools complete through
`ai_query_async_tool_complete` on the same thread. The session destroys the
query from inside the query's own `on_done`, merges what it produced, and
perhaps submits the input that was waiting. Everything of the agent is on one
thread: its interleavings are re-entrant calls. Threads meet only at the loop's
done queue: `xEventLoopPost` and the workers of `xEventLoopSubmit` take an item
from the pool, push it on the queue and wake the loop.

A transfer owns a peer connection, which owns an ICE agent, a DTLS and an SCTP
transport and the channels. Signalling carries the descriptions; when the agent
reports Connected the handshake starts, when that ends the association, and when
that is up the channels that were created open. Everything of it runs on one
loop, timers and datagrams included; the two ends meet only in messages. A
transfer sends one chunk per timer tick until the channel is full, stops, and is
called again when it is dry.

The runtime of libx++ sits on that loop. `spawn` makes a task and puts it on the
ring of the worker that calls it, or on a global queue; a worker pops, grabs or
steals an entry, claims the task by its state, polls it and settles it. What it
waits for keeps a waker that queues it again; the handle joins the task or
detaches it. `block_on` drives a main future, and with the current-thread
flavour the tasks as well, on one thread.

What makes each part correct: a query reports once, never while a call of it is
unanswered, and always in the end; a session loses nothing of the conversation
and records nothing twice; the queue is a FIFO in the order of the exchanges; a
work item has one owner; the loop never sleeps over work and calls every
callback once; a finished task is freed when nobody can read it any more; the
name of a file only ever holds one version of the source, and what a saved
bitmap claims is on the disk; an answer to a check is credited to the pair it
was sent on, every phase of the agent ends, Connected means that all layers are
up, and a message comes out of the channel it was sent on; an item of the ring is handed out once; a task that was woken is
polled again, deleted once and not touched afterwards; a command reports once,
after its child was reaped and everything it wrote was read, and no timer
outlives it. `PROJECT.json` lists the
hazards line by line.

## Modules

| Module | Models | Kind |
| --- | --- | --- |
| `AgentQuery` | `agent/query.c` with the flight of `provider_openai.c` and the operations of `tool_shell.c` | state machine |
| `AgentRun` | the contract of a run in `agent/query.h` | abstract specification |
| `AgentSession` | `agent/session.c`, `budget.c` | state machine |
| `AgentProofs` | theorems about `AgentQuery` and `AgentSession` | proofs |
| `Mpsc` / `MpscQueue` | `base/mpsc.c` / the FIFO it promises | state machine / abstract |
| `WorkPool` | `event_work_alloc` and `event_work_free` | state machine |
| `DoneQueue` | the two joined: items that go round through pool, task group and queue | composition of `Mpsc` and `WorkPool` |
| `DoneQueueProofs` | theorems about `Mpsc`, `WorkPool` and `DoneQueue` | proofs |
| `EventLoop` | post, submit, cancel, timers, sources, wake, run, a turn's events and timers, dispatch, destroy (epoll backend) | state machine |
| `EventLoopProofs` | theorems about `EventLoop` | proofs |
| `StealQueue` / `WorkDeque` | `xpp/runtime/queue.h` / the deque it promises | state machine / abstract |
| `Executor` | spawned tasks: `xpp/promise_node.h`, `runtime/task.h`, the runners and `block_on` of `runtime/` | state machine |
| `XppProofs` | theorems about `StealQueue` and `Executor` | proofs |
| `TaskGroup` | `base/task.c` | state machine |
| `TaskGroupProofs` | theorems about `TaskGroup` | proofs |
| `Command` | `base/command_posix.c` with its children | state machine |
| `CommandProofs` | theorems about `Command` | proofs |
| `Xfer` | `fer/xfer*.c`, both sides and the receiver's disk | state machine |
| `XferProofs` | theorems about `Xfer` | proofs |
| `IceAgent` / `IcePhases` | `p2p/ice_agent.c`, `stun_txn.c`, `ice_pair.c`, `ice_candidate.c` / the order of the states it reports | state machine / abstract |
| `PeerConnection` | `p2p/peer_connection.c`, `dtls_transport.c`, `sctp_transport.c`, `datachannel.c`, two peers | state machine, on top of `IcePhases` |
| `P2pProofs` | theorems about `PeerConnection` and `IceAgent` | proofs |
| `MC*` | model values and symmetry for TLC | instances |

### AgentQuery

`gen` counts the queries created; the storage holds the last one, and `fate`
and `reports` remember what became of each. The fields `cancelled`, `turn`,
`pending` (`pending_arr`) and `entry` (`async_pending_arr`, by tool-use id, with
its stage) are the struct's. `stack` holds the active frames of `query.c`: a
dispatch or drive frame at the bottom, and on top of it a frame that is in a
callback of the host (`started`, `ended`, `confirm`). An action is one stretch
of code between two callbacks, so that the host's calls (`Resolve`, `Cancel`)
happen exactly where C lets them happen. `flight` remembers for which query the
provider is streaming and `halted` its cancelled flag; `job` is the operation of
a tool that returned Pending, `resolver` a confirmation handle in the host's
hands (`stale` once its query pointer was cleared).

`Start` is Create and Run, whose submit may be refused, upon which the session
destroys the query in silence. `ProviderDone` is `oai_finish_flight` and
`on_provider_done`; the three `Dispatch...` actions are iterations of
`dispatch_pending_tools`, `HandlerReturns` is `invoke_tool_inline_` from the
handler on, `DispatchDone` the continuation after the loop, `JobDone` and
`Resolve` the two asynchronous entries, `Drive` their common tail. `Finish` is
`query_finalize` together with the session's forwarder, which destroys the
query: `Zeroed` is what remains, and a later event reads `running = 0` there.

Three constants say what the host may do: resolve inside `on_tool_confirm`
(`SyncResolve`), cancel inside a callback (`CallbackCancel`), cancel while a
confirmation is outstanding (`CancelWhileConfirming`). The first and the last
are separate because each leads to a finding, and are FALSE in the run.

Abstracted: texts, usage sums, arguments and outputs (an answer is counted, not
read), allocation failures, `on_error`, and the number of tools.

### AgentSession

Entries are `[kind, id]`; an input, the texts and calls of its run and the
result bear the id of the input. `Size` counts one per entry and one more for
an untrimmed result, which is all the gate tells apart. `Admit` is
`session_enforce_budget_` with the submit that follows: estimate, trim, estimate
again, summarise (`Compact`) or refuse. `SummaryDone` is the forwarder's branch
for a summary with the three cases of `persisted_prefix` (`PrefixAfter`); it
leaves `retrying` set while CompactDone is announced, so that `Input` may come
from that callback, and `AutoRetry` follows. The summary bears the id of the last
turn it replaces, which tells summaries apart. `RunDone` merges what a run
produced; runs themselves are AgentQuery's. `inputFate` and `withdrawn` are history
variables about inputs, `overcounted` says that a refused run's message stayed
counted in `delta_entries`, `store` is what the memory store was given. The names
differ from `AgentQuery`'s where one proof module extends both.

### Mpsc, MpscQueue

One action per shared access: `PushSwap` is the exchange of `tail`, `PushLink`
the store behind it, `PopCas` / `PopClear` the two compare-and-swaps of the last
node, `PopSpin` the wait for a link. `order` and `got` are history variables;
the refinement maps the FIFO's `queue` to `order`, so a push takes effect at its
exchange and a pop when the node can no longer be refused. Nodes are recycled,
which is what the work item pool does with them. Accesses are sequentially
consistent.

### WorkPool

The Treiber stack through `next_free`: load the top, read its successor, swing
the top. The compare-and-swap may fail spuriously (it is the weak one). The done
queue is a set. `OnStack` follows the links, so a corrupted stack shows as an
item with two owners or with none.

### DoneQueue

`Mpsc` and an instance of `WorkPool` over the same items. The poster takes an
item (`Allocate`) and then pushes it (`Post`) or leaves it to the task group
(`Offload`), from which any other thread pushes it (`Complete`: a worker, or a
thread whose cancel came first). The pop that returns is the dispatch
(`PopReturns`), and the loop begins no other one before it has given the item
back (`GiveBack`). In `Mpsc` alone a producer may take any node that is free;
here it gets the one the stack yields, with the loop still inside
`event_work_free`. The refusal of `xTaskSubmit`, upon which the poster gives the
item back itself, is left out.

### EventLoop

Pushers (callers and workers) push in two steps and wake in two: raise the flag,
write the eventfd. The loop thread turns, waits, reads the eventfd, clears the
flag and dispatches; an offloaded item is joined (`xTaskWait`) before its
callback. `SubmitTask` and `SubmitSettle` separate `xTaskSubmit` from the stores
after it: on the loop thread (`SubmitElsewhere = FALSE`) nothing of the loop can
come between, but workers can. The queue behaves as `Mpsc` shows it does: a pop
sees an empty queue while the first push is unfinished and waits while the
second is. Items are fresh, recycling is DoneQueue's.

A turn is `xEventWait`: `Turn` reads the stop flag and computes the timeout from
the timers armed by then (`watched`; the two reads are one step, since a stop or
a timer between them is like one just after both), `WaitReturns` reports the
eventfd if it is readable and any live sources, `Event` handles what was reported
one by one in any order, `Expire` pops the timers that are due under the lock,
`Fire` runs their callbacks without it, `Sweep` frees the sources that were
removed meanwhile. Time is only the set `due`: `TimePasses` lets a deadline pass.
Threads arm timers (`TimerAt`, heap then wake) and cancel them (`TimerCancel`; a
refused cancel changes nothing); sources are added and removed on the loop thread
in callbacks (`InCallback`). The heap is the set of armed timers, and the batch
has no order among timers due together. Each timer is armed once and its handle
dropped when it ran. `epoll_wait` may also return with nothing, as it does for a
signal.

### StealQueue, WorkDeque

`head`, `tail` and `slots` are the ring's words; `pc` with the locals `h` and
`t` says where a thread is inside push, pop or steal. A pop first lowers `head`
(`PopLower`), then looks at `tail` again (`PopLook`): more than one item,
exactly one, for which it races the thieves with their own compare-and-swap
(`PopRace`), or none. Indexes are modulo `W`, which stands for 2^32, and are
compared as numbers, as the code does. Accesses are sequentially consistent: the
fences of pop and steal order the only pair of accesses for which this matters.
`First`, `Limit` and `Deque` say what is inside while a pop is undecided; the
refinement maps the abstract `deque` to `Deque`, so a pop takes effect at its
look or at its restoring store, a steal at its compare-and-swap. `Wakers` are
other threads that push, which the class does not allow and the scheduler does.

### Executor

A task has the code's `state`, `m_resolved` and join state, and `held`, `alive`
for its handle and its storage. `stage` is how far a future has come: at its
first poll it spawns its kid, then joins it or drops the handle, then waits for
an event that another thread delivers, `main` only for its kid. `ready` counts a
task's entries in all queues together: a runner may pop any of them, and which
queue holds an entry only decides who is first. `Claim`, `Resolve`, `Exchange`,
`WakeJoin`, `Free` and `Suspend` are the steps of `worker_main` and
`run_local_task`, `JoinLook`, `JoinStore` and `Take` those of the handle, each
with one shared access. A coroutine that awaits a handle polls it once and takes
the value when it is resumed: with `MainRepolls = FALSE` main behaves so, and
its second look always finds the task resolved. `MainRepolls = TRUE` is a main
that is a bare handle, which `drive_current_thread` polls after every drain.
`MainOnRunner` is the current-thread flavour; once its `block_on` has returned
nothing runs any more. The registration of a waker with its event is one step
(`AtomicWaker` is planned), and so is spawning: in the code a task is queued
just before its handle exists. `XppProofs` extends this module and `StealQueue`
together, so names that both would have are longer here: `TasksInit`,
`TasksNext`, `TasksSpec`, `taskVars`, `TasksTypeOK`, and `step` for the `pc` of a
thread.

### TaskGroup

A critical section under `qlock` is one step, and so is every access outside of
it: `Sleep`, `Leave` and `Dequeue` are what a worker may do with the lock
(`Fetch`), `Claim` is the compare-and-swap against `xTaskCancel`, then come the
function (`Finish`), the done list (`Push`), the note (`Note`), the counters
(`Count`) and the signal (`Wake`). `idle` counts the workers that announced
themselves, also those already woken: pc `woken` covers both, and `asleep` says
who really sleeps. A task is a slot of the slab and is submitted again once
freed, so a thread that still holds it (`cur`) would read another task.
`Disciplined` says that no thread submits or waits for a task while another is
in `xTaskGroupWait`; without it the code frees tasks under their readers (below).

### Command

`ex` holds the fields of each executor, `proc` its child: whether it runs, is a
zombie or was reaped, who still writes its outputs (`open`, descendants
included), and which outputs have an event the loop has not seen (`ready`).
`chld` is the list, the count and the watch of SIGCHLD; any number of signals
leaves one `pend`. Each handler is one step with the completion it may lead to
(`Settle`, which is `cmd_check_completion` and `cmd_fire_done`) and with the next
`Submit` if `on_done` makes one. Only the walk of `sigchld_handler` takes a step
per executor (`cur`), because children end between two calls of `waitpid`;
`After` is `exec->next` as the code reads it, after the callback.

`Confs` says what each executor is used for: piped or on a terminal, which
outputs are watched, a timeout or not. `FastConfs` are the configurations whose
child may be gone when `Submit` probes it; terminals and commands without a
watched output are left out of it in the run, `Careful` keeps owners from
destroying an executor whose timer is armed: each leads to a finding. `Thief`
lets another part of the program reap a child (ECHILD). `SubmitFails` is every
refusal of `Submit` on an idle executor, also the one that leaves a source
behind. What is written and read, the child's input and leaked descriptors are
left out.

### Xfer

A file is a sequence of chunks and a chunk is the version of the source it was
read from, 0 where nothing was written, so that the hash is equality of
sequences. `s` and `r` are the two transfers, `part`, `bits`, `final` the
receiver's `.part`, `.bitmap` and final file, `dirty` what a write left in the
stdio buffer. The receiver's handlers are cut where a crash would leave another
disk (`step`): truncating the bitmap and writing it, answering and renaming and
removing. `toR` and `toS` are the ordered channel. `Pause`, `SendChunk`,
`SendDone` and `ChunkFails` are the exits of `sender_send_next_chunk`, called by
the timer, by `Resume` and by `Dry`. `Restart` is the user trying again with what
the disk holds. `Cut` reports nothing, because nothing in `p2p/` reports the loss
of a connection that was established.

### IceAgent, IcePhases

`agent` is the struct. The helpers (`TryNominate`, `StartChecks`, `StartSpray`,
`SendCheck`, `AppendPairs`, ...) take an agent and return it, each an operator
per C function, and an action composes them as the handler calls them. A timer
is a count of what the loop has armed and a flag for the handle the agent holds,
which is how a handle that is overwritten shows. `txns` is the transaction table:
an entry is free, a request of gathering (`Ask`), a check with the index its
context points at and the pair it was sent for (`Check`), or one that timed out
and still fills the table (`Dead`). `Enter` takes free entries in order and drops
the requests that find none, as `xStunTxnMgrSendRaw` does. Any transaction may be
answered, refused, refused with 487 or lost. Tables that the code fills in one
loop are given entry by entry: a pair's place in the sorted list is the number of
pairs before it, the n-th of some indices the one with n - 1 of them below
(`Nth`), and what is too much for a table is cut off (`Cut`). An agent that was
destroyed is a fresh record in state Closed, of which only the timers of the loop
are left. Three constants bound the environment because of findings: a second
remote description (`Renegotiate`), a late candidate while checks of a failed
attempt are outstanding (`Patient`), a destroy while it gathers or checks
(`Careful`). The names of the specification begin with `Ice` (`IceInit`, `IceNext`,
`IceSpec`; `FairIce` is the one with fairness), and `DestroyAgent` is
`xIceAgentDestroy`, so that the proofs can use it together with `PeerConnection`.
`IcePhases` is the order of the states the peer connection may see, and
`ReportsPhases` is the refinement.

### PeerConnection

Two records of layer states and the streams between them. The agent is replaced
by `IcePhases`: whatever it allows, subject to both descriptions being there,
may be reported (`Reports`), so what is shown of the stack rests on what
`IceAgent` is shown to implement. `OnIce`, `DtlsDone`, `SctpUp` are the callbacks
that start the next layer, `HandshakeFails` and `AssocTimeout` its timers. A
channel is named by its stream on the wire and by its creator in `id`, which the
code does not have: `routed` compares the two. The table never shrinks, as in the
code; a message on the wire is an open, an ack, data, or a stream reset and its
confirmation.

## Runs

| Run | Instance | Shows |
| --- | --- | --- |
| `AgentQuery` | two queries, calls `a b` plain, `g` guarded, `u` unknown, two per round, `max_turns` 2, cancels from callbacks | the safety and liveness of runs, refinement of `AgentRun` |
| `AgentSession` | four inputs, windows 3 and 5, keep one tail turn, a provider figure of 2 | the record of the conversation, summaries and retries |
| `DoneQueue` | a poster, two threads that push, the loop, three items, three pushes | refinement of `MpscQueue`, one owner, no leak, progress |
| `EventLoop` | one caller, one worker, one stop, four programs: a post and two jobs; a post and two timers; a job, a timer and a source; a timer and two sources | no lost wake, callbacks once, true cancels, progress |
| `StealQueue` | owner, two thieves, two slots, five pushes, `W` = 8 | refinement of `WorkDeque`, nothing lost |
| `Executor` | current-thread flavour, three tasks in a chain | no use after free, joins of finished tasks, progress |
| `Xfer` | versions of 3, 3, 0 and 2 chunks, a save every 2 chunks, a high-water mark and a socket of 2 messages, 3 attempts, 1 fault, 1 crash | whole files only, an honest bitmap, delivery |
| `TaskGroup` | two workers, two clients, three tasks, a queue of two, spawning may fail | no use after free, no lost wake, honest cancel, calls return |
| `IceAgent` | both roles, one socket, two STUN servers, one signalled and one other address, tables of 2 candidates, 3 pairs, 2 transactions | credits, timers, phases, refinement of `IcePhases` |
| `PeerConnection` | the offerer creates three channels, tables of two, one message in flight per stream | the stack, routing, settling, channels that open |
| `Command` | two executors; two commands of four configurations on the first, one without outputs on the second; a thief | results, the shared watch, timers, commands that end |
| `ChildrenEndTogether` | two executors with one piped command each | violated: a child that ended is overlooked |

Small facts that belong together are conjuncts of one invariant: `RecordInv` of
`AgentSession` (types, `PrefixIsStored`, `StoredOnce`, `PairsKept`,
`QueuedIsPending`), `DoneQueueInv` of `DoneQueue` (`ListInv` of `Mpsc`: types,
`LinksIntoQueue`, `WellLinked`; `PoolInv` of `WorkPool`: types, `OneOwner`;
`NodesAreOut`), `LoopInv` of `EventLoop` (types,
`NoLostWake`, `CallbackOnce`, `WorkersStaySafe`), `TaskInv` of `Executor` (types,
`NoUseAfterFree`, `TakesDone`), `StackInv` of `PeerConnection` (types,
`ConnectedMeansStack`, `RolesDiffer`), `GroupInv` of `TaskGroup` (types,
`NoUseAfterFree`), `FilesInv` of `Xfer` (types, `ResumeIsHonest`), `AgentInv` of
`IceAgent` (types, `TimersOwned`), and of `Command` `ExecutorInv` (types,
`Registered`, `OneResult`, `AllMetIsDone`) and `ResultHolds` (`ResultIsWhole`,
`StatusIsTrue`). `Progress` is `Settles` and `ChannelsOpen` in `PeerConnection`, `WorkArrives` and
`StopIsObeyed` in `EventLoop`, `EveryTaskCompletes` and `MainReturns` in
`Executor`.

Every property of a passing run has a mutant, an operator next to the original
that makes a plausible mistake, under which TLC finds the property violated.

Why the bounds are enough. Two queries are the smallest number that lets an
event of one reach the other in its recycled storage; two calls of a round give
every order of completion, and the unknown, guarded and plain branches all meet
in one batch; two rounds reach `max_turns`. In `AgentSession` windows of 3 and 5
put trimming, a summary, a second summary over the first and the anti-loop
within four inputs. Three nodes allow the last-node, two-node and many-node
paths of a pop with one node in each producer's hands; since the pool is asked
before the heap, one item may also be pushed three times, and a successor is
taken and given back while the poster looks at it. Two jobs on one worker let one wait behind the other, be cancelled while
queued, and finish while the loop is anywhere. Two slots and two thieves let one
thief hold an index while the other and the owner take and refill its slot, and
let all three meet at the last item; five pushes go round the ring twice. Three
tasks in a chain give one that is both joined and joining, and every order of
events, drops and joins around it. `MaxRuns`, `MaxBatch`, `MaxIds`, `MaxPush`
and `MaxStops` bound only what the environment does; `max_turns` is a limit of
the code itself. In `TaskGroup` two workers and three tasks let one task wait
behind a worker that runs, one that sleeps and one that is not born, and a slot
is reused while the other client still waits for it. In `Xfer` three chunks with
a save every second leave one chunk beyond the last save, a socket of two fills
before the third and before FILE_DONE, three attempts allow a resume after a
crash and another after a fault, and the versions change the contents, the
length and the emptiness of the source. In `IceAgent` every table is full within
reach: two candidates (the guess of a spray or an observed address fills it),
three pairs, two transactions against four that gathering and checking ask for.
In `PeerConnection` the third channel finds the table of its peer full. In
`Command` two executors are what a walk needs to lose one, a second command shows
what the first left behind, and a third would add nothing: `Submit` clears every
field. The second executor watches no output, so that only the walk completes it.
`MaxAttempts`, `MaxFaults`, `MaxCrashes`, `MaxCreates`, `MaxWire` bound the
environment; `MaxCandidates`, `MaxPairs`, `MaxTxns`, `MaxChannels` are the code's
`XICE_MAX_CANDIDATES` (512), `XICE_MAX_PAIRS` (1536), `XSTUN_TXN_MAX` (32) and
`XDC_MAX_CHANNELS`.

Deadlock checking is off in all runs since every instance may come to rest: the
host sends no more inputs, producers are done, the loop was destroyed.

### Fairness

- `AgentQuery`: frames return (they are C calls); the transport ends every
  stream, cancelled or not (libcurl's done callback); an operation a handler
  started ends (a command exits or is killed); the user answers a confirmation
  that is still valid. Nothing makes the host cancel, destroy or start.
- `AgentSession`: a run and a summary end, which is `EveryRunEnds` of
  `AgentQuery`, and callbacks return.
- `DoneQueue`: a thread inside a push goes on; the loop keeps draining, as it
  does while it is woken, and its compare-and-swap does not fail for ever.
- `EventLoop`: threads inside a call go on; `epoll_wait` returns when the
  eventfd is readable or the deadline its timeout was computed from has passed,
  and is not assumed to return otherwise; a program whose loop has stopped runs
  it again or destroys it.
- `Executor`: runners and main keep running, every event comes once (a socket or
  a timer of the program); nobody has to drop a handle.
- `Command`: the loop dispatches readable outputs, the signal and expired timers,
  and a walk ends; SIGKILL ends the child and whoever of its group holds an
  output. Nothing is promised of a command that nobody kills, and descendants
  that left the group (`setsid`) are not among those who hold an output.
- `Xfer`: the loops dispatch messages, timers and dry events that are ready; a
  user whose transfer failed, or whose peer is gone, tries again.
- `TaskGroup`: every thread goes on; functions return. Nobody has to call.
- `IceAgent`: an armed timer of the loop fires (gather, pacing, timeout). Nothing
  is promised of answers. `TxnTimeout` and `SrflxTimeout` come after the timers
  of the attempt, which is real time: a transaction gives up after 127.5 s
  (eight doubling timers from 500 ms, `stun_txn.c`), an attempt after 10 s and at
  most 30 s more.
- `PeerConnection`: a check ends (`PhasesEnd` of `IceAgent`), the handshake's and
  the association's timers fire, and an association delivers what it carries.

## Findings

**Of two commands that end together one is forgotten** (`ChildrenEndTogether`).
`sigchld_handler` drains the self-pipe's one notice and walks the list of
executors, "and call waitpid(WNOHANG) for each" (`command_posix.c:119-120`). The
walk goes on with `exec->next` (`:966`) after `cmd_check_completion`, which has
removed `exec` from the list and set its `next` to NULL when it completed
(`:152-160`): the walk ends there. Another child that had ended stays a zombie;
no signal will come for it, `on_done` never runs, and neither its timeout nor a
cancel ends it, since killing a zombie does nothing. `docs/libx/base/command.md:378`
calls `on_done` the only way to know that a command finished. In the run of
`Command`, `ReapedUnlessCutShort` and `CommandEnds` say that this is the only way
to get there.

Findings without a run of their own. Each is a definition of a module and an
instance in which TLC finds it violated:

- `TimersOwned` of `IceAgent` with `Careful` FALSE, destroying an agent that
  gathers or checks: `xIceAgentDestroy` cancels the timers
  (`ice_agent.c:1949-1964`) and then drops the transactions (`:1990`), whose
  callbacks run as if they had timed out: `try_nominate` starts the spray,
  `gather_check_done` starts the checks, and their timers fire into the freed
  agent, against `ice_agent.h:125` ("cancels timers, frees memory"). Cancelling a
  transfer while it connects is enough.
- `OneResult` of `Command` with one executor for terminals, `FastConfs` the same:
  a command on a pseudo-terminal that is gone at the probe completes inside
  `Submit` (`command_posix.c:709`), which then arms the timeout and sets Running
  (`:713-718`). The executor is busy for ever, against
  `docs/libx/base/command.md:110` ("After on_done fires, the executor can be
  reused"), and leaves the SIGCHLD list a second time when it is destroyed.
- `AllMetIsDone` of `Command` with one executor that watches no output, `FastConfs`
  the same: the probe reaps the child (`:488-499`) and nobody checks for
  completion; `sigchld_handler` skips an executor whose child was seen (`:948`).
- `TimersOfBusy` of `Command` with `Careful` FALSE: `cmd_cleanup` (`:1028-1075`)
  cancels neither timer, and both fire into the freed executor, against
  `command.h:145-146`. `shell_ctx_destroy` (`agent/tool_shell.c:548-555`)
  destroys so.
- `RoundAnswersCalls` of `AgentQuery` with calls `a`, `g`, `h`, `Guarded` = {g, h},
  `MaxRuns` 1, `SyncResolve` TRUE: a resolve inside `on_tool_confirm`, which
  `query.c:892-898` calls safe, drives the next round when its entry is the only
  one waiting, and `submit_round` resets `pending_arr` under the loop that walks
  it: the rest of the round is dropped.
- `NeverStranded` of `AgentQuery` in the same instance with
  `CancelWhileConfirming` TRUE: `session.h:251-254` promises a synthesised result,
  `query.h:449-452` an Aborted `on_done`. The code clears the resolver's pointer
  and keeps the entry, and nobody will end the run.
- `PrefixIsStored` of `AgentSession` with `KeepHead` 1, `KeepTail` 1, `Primed` 0,
  `Limits` {3, 5}, `Reports` {2}, `MaxIds` 5: head turns are counted as stored;
  the comment at `session.c:1691-1694` holds only for sessions primed from the
  store.
- `StoredOnce` of `AgentSession` with `KeepHead` 0, `KeepTail` 1, `Primed` 2,
  `Limits` {3, 5}, `Reports` {}, `MaxIds` 5: two turns replayed from the store, one
  of them kept at the tail. `persisted_prefix` then lies beyond the summarised range,
  `session.c:1655` lowers it by the overlap, and the summary inserted at `:1667` in
  front of it does not raise it by one. The last stored entry falls out of the prefix
  and is appended again, against the comments at `session.c:1630-1632` and
  `:1691-1692` ("so future flushes don't re-append it").
- `QueuedIsPending` of `AgentSession` without its disjunct `overcounted`, with `KeepHead` 0, `KeepTail` 0, `Primed` 0,
  `Limits` {3, 5}, `Reports` {1}, `MaxIds` 6: a refused run leaves its message
  counted in `delta_entries` (`session.c:2012`) when the message is popped, and once
  there are more of them than entries the estimate reads past the history
  (`session.c:449-451`). A message sent from the CompactDone callback may then pass
  the gate that the summary was started for, which forgets the anti-loop length;
  if its run is refused too, the next one starts another summary and takes the
  place of the message that waits (`session.c:785`), which is never submitted. The
  property is therefore stated for sessions that were not overcounted.
- `OneOwner` of `WorkPool` with two posters: ABA on the pool's top, against
  `event_private.h:275` and `docs/libx/base/event.md:197`.
- `EveryTaskCompletes` of `Executor` with `Runners` = {r1, r2}, `MainOnRunner` and
  `MayDrop` FALSE: the waker puts the task on its worker's ring while that worker
  is still between `poll` and `state.store(Pending)`; another worker steals the
  entry, cannot claim the task and drops the entry
  (`multi_thread_scheduler.cpp:59-69`, `:84`), against `xpp/promise_node.h:226`.
- `NoUseAfterFree` of `TaskGroup` with `Disciplined` FALSE: a task submitted after
  `pending` reached 0 finishes and is freed by the drain, which runs without the
  lock, while another thread waits for it; the comment at `task.c:383-385` says
  that no worker can be producing.
- `ResumeIsHonest` of `Xfer` with `MaxCrashes` 2 and `MaxFaults` 0: a crash between
  the rename and the removal (`xfer_receiver.c:251`, `:256`) leaves a bitmap of a
  file that is gone; the next `FILE_META` truncates a `.part` of holes beside it
  (`:96-102`) and saves its empty bitmap only after the answer (`:144`). A second
  crash between the two leaves a bitmap that claims every chunk of the holes, and
  no later attempt of that file succeeds: the hash refuses what was never sent.
- `ResumeIsHonest` of `Xfer` with `Kept` = {2}, `PersistEvery` 3: the bitmap is
  saved while the tail of the last chunk is still in the stdio buffer
  (`xfer_vfs_posix.c:37`), and after a crash claims a chunk the disk does not
  hold. The hash catches it, and every later attempt fails again.
- `CancelSticks` of `Xfer` (the run's instance): cancelled before the channel
  opens, a transfer is set to Transferring when it does (`xfer_sender.c:250`),
  against `xfer.h:193` and `docs/libx/fer/README.md:270-274`.
- `AnswersCreditTheirPair` and `TimersOwned` of `IceAgent` with `Patient` FALSE: a
  candidate that arrives after a failure regenerates the pairs while checks of
  the failed attempt are outstanding, what the comment at `ice_agent.c:1723-1726`
  warns of, and starts timers whose handles are still held.
- `ReportsPhases` and `PhasesEnd` of `IceAgent` with `Renegotiate` TRUE: a second
  remote description restarts a connected agent, which keeps its old nomination
  and therefore never nominates again (`ice_agent.c:2273`).
- `ChannelsOpen` and `MessagesStay` of `PeerConnection` with both peers in
  `Creators`, `MaxCreates` 1: both number their streams from 0
  (`datachannel.c:314-315`), so two channels created at the same time share one,
  and messages and resets of one reach the other.
- `CancelledNeverRuns` of `AgentSession` (the instance of the `AgentSession`
  run): a cancelled summary still runs the input behind it and no `on_done` tells
  the host, against `session.h:790-797`.
- `CallbackOnce` of `EventLoop` with `SubmitElsewhere = TRUE`: `xEventLoopSubmit`
  off the loop thread (`docs/libx/base/event.md:198` calls it thread-safe) lets
  the loop take the item for a posted one. The library itself submits only from
  the loop thread (`net/dns.c`).
- `DestroyReturns` of `EventLoop` (the run's instance): `xEventLoopDestroy` waits
  for ever for a completion that was not dispatched, against
  `event_private.c:152-156`.
- `NothingLost` of `StealQueue` with `Wakers = {w1}`: `WorkerSchedule::schedule`
  pushes on the ring of another thread (`multi_thread_scheduler.cpp:104-105`),
  which is for its owner only (`queue.h:40`); two pushes overwrite each other.
- `EmptyIsHonest` of `StealQueue` with `W = 4`, `MaxPush = 6`: at the wrap of the
  indexes a pop takes a ring with items for an empty one (`queue.h:64`).
- `DetachedIsFreed` of `Executor` (the run's instance): a task whose handle is
  dropped before its first poll is claimed Detached to Running, its exchange
  returns Running, and nobody deletes it, against `xpp/runtime/task.h:75-77`.
- `NoUseAfterFree` of `Executor` with `MainOnRunner = FALSE`: a joiner that sees
  `m_resolved` takes the value and deletes the task while its worker is before
  `exchange` or in `wake_join` (`multi_thread_scheduler.cpp:76-78`).
- `OnePoller` of `Executor` with two runners: dropping the handle of a running
  task stores Detached, an entry queued meanwhile is claimed from it, and two
  workers poll the task at once (`task.h:88`, `multi_thread_scheduler.cpp:65`).
- `TakesDone` of `Executor` with `MainRepolls = TRUE`: the second `join_poll`
  finds JoinStored and takes it for JoinWoken (`promise_node.h:139-141`), so the
  value of an unfinished task is taken.

Read in the code and not given a run: a resolver resolved twice reads freed
memory (`query.c:1458`, `query.h:118` says no-op); `xAgentQueryDestroy` of a
running query reports no `on_done` although `query.h:432-434` says so; a cancel
between `on_tool(started)` and a handler's Pending never reaches its cancel
function; `delta_entries` is not taken back when a run is refused
(`session.c:2012`); the sidecar's query can never be created while the main one
is set (`query.c:1293`); a stop before `xEventLoopRun` is forgotten
(`event_run.c:16`); a timer's structure is recycled after its callback, so a
handle kept longer, by another thread say, cancels whatever timer has it now
(`event_timer.c:68-76`, `event.h:206` promises an error); when the batch of
expired timers cannot grow, the timer just popped is dropped, although the
comment says it is retried later (`event_private.c:92`); a deadline more than
2^31 ms away becomes a negative timeout, which waits for ever
(`event_epoll.c:239`); an `xEventLoopWait` inside a callback, for which
`event_run.c:47` provides, sweeps sources that the outer batch still refers to,
and is deaf to wakes when the eventfd's edge is among the events the outer batch
has not come to (nothing on POSIX nests); `xEventLoopWorkCancel` on another thread may dereference a
recycled item; posted items are dropped in silence at destroy; a crash while the
bitmap is rewritten leaves none and costs all progress, against
`xfer_private.h:41-46` ("at most N chunks worth of progress may be lost"); a FILE_DONE that
finds the socket full is lost and both sides wait (`xfer_sender.c:62`); an empty
file fails at the receiver and hangs at the sender (`xfer_receiver.c:90`); a
renamed file is reported Done whatever rename returned (`xfer_receiver.c:251`);
`Failed` is reported for agents with pairs that were never checked
(`ice_agent.c:630`); pairs appended after the pacing ended wait for a triggered
check (`:1749`); a nomination by `check_timeout_cb` starts no consent timer
(`:736`), and consent that is not answered changes nothing (`:1075`); an
association that fails or is lost is reported to nobody
(`peer_connection.c:229`, against `docs/libx/p2p/pc.md:415`); an `on_done` that
destroys its executor leaves the walk over the executors with freed memory
(`command_posix.c:965-966`); the list of executors is global and has no lock
(`:124`), so two loops share the first one's watch; a child that was reaped
elsewhere is reported as exit 0; a command that ended by itself while its timeout
was on the way is reported as timed out.

## Proofs

`AgentProofs` proves about `AgentQuery`, for every set of calls, every bound and every
choice of the host constants, from the assumptions named in the module alone:

- `TypeCorrect`: `Spec => []TypeOK`.
- `Invariance`: `Spec => []IInv`, from which `ResolversStayOwned` and, for a host
  that does not cancel during a confirmation, `NoRunIsStranded`.
- `RunInvariance`: `Spec => []RunInv`, from which `ReportsOnce`, `FlightIsOwned`
  and `TurnsAreBounded`.
- `CancelIsFinal`: the action property `CancelWins`.
- For a host that does not resolve inside `on_tool_confirm` (`~SyncResolve`),
  `RoundsAreWhole`: `Spec => []RoundAnswersCalls`, and `Implements`: the
  refinement `Spec => FollowsContract` of `AgentRun`. A finding above shows why
  the hypothesis is needed.

`ResolverOwned` and `NeverStranded` are not inductive. A dispatch registers an
entry for the call at the cursor, so one must know that the calls the loop has
still to visit are untouched and belong to the live query (`Queued`), that calls
nobody committed have left no trace (`Fresh`), and what a destroyed query leaves
behind (`DeadIsClean`). `NeverStranded` holds only between events; in between
somebody else owes the continuation, so the invariant also describes the stack:
its bottom frame is a dispatch or a drive (`Bottom`), only the innermost frame
can be about to enter a handler (`StartedOnTop`, `StartedIsIdle`), and when the
last frame returns the query waits for its flight or for an entry (`Owed`). An
entry in turn is backed by an operation or a live resolver (`RunningHasJob`,
`ConfirmIsLive`). The proof has one lemma per action (`StartInv`,
`ProviderDoneInv`, ...), on top of lemmas about pushing and popping frames.

`RunInv` rests on `Effects`, which classifies every step by what it does to the
reports, the flight and the rounds: it is quiet, starts, asks, ends, hears,
misses or marks.

`RoundAnswersCalls` speaks of the moment a round is submitted; `Exchange` says what
holds in between. A call of the live run is open or has exactly one result
(`Answered`), and it is open only while it is still to be visited by the loop,
waits in `async_pending_arr`, or is about to enter its handler. `Placed` adds that
the stack is at most one callback above one dispatch or drive frame (`Flat`), that
calls are left to visit only under a dispatch frame, and that no frame runs while a
round is at the model. So a continuation that submits has nothing open. The
refinement then maps each step to a begin, a reply, an answer, a question, an end
or a stutter.

About `AgentSession` it proves, for every policy, window, provider and number of
inputs:

- `SessionTypes` (`SessionTypeOK`), `SessionPairs` (`PairsKept`), `SessionQueue`
  (`QueuedIsPending`) and the action property `SessionKeepsTail`
  (`LatestTurnsKept`), without a hypothesis.
- `SessionPrefix` (`PrefixIsStored`) and the action property
  `SessionForgetsNothing` (`NothingForgotten`) for sessions whose head was replayed
  from the store (`KeepHead <= Primed`).
- `SessionOnce` (`StoredOnce`) when nothing that was replayed can lie behind a
  summary (`Primed <= KeepHead` or `KeepTail = 0`).
- `SessionRecord` (`RecordInv`) under both. Neither can be dropped: a head that was
  never stored is counted as stored, and a prefix beyond the range is one too short
  (two of the findings above). Together they cover an empty session that keeps no
  head, one that keeps exactly its replayed turns, and any replayed session that
  keeps no tail.

The invariant is `SessionInv`: the types, `RecordKept` and `QueueWaits`. `Ordered` is
what every step keeps of the history's order: no turn is scattered (`Apart`), no
entry is there twice (`Unlike`), a call and its result are both there or neither
(`Paired`), summaries gather behind the head (`SummariesFirst`), and a turn that a
summary replaced has left (`Replaced`). A summary in flight has the range of this
very history (`Ranged`), which is whole turns between the head and the tail
(`Cuts`); the lemmas about such a cut (`Cut...`) show that the history around the
summary has the same order again. `HeadKept` says that the stored prefix covers the
head, `OnceKept` that what is stored is stored once and that the prefix counts all of
it that is still in the history. `RunIsLast` says that a run's message is the last
entry, so that what the run produced joins its own turn. `QueueWaits` is the argument
about retries: while an input waits behind a summary no other one can start a second
summary, because one was just tried at this length of the history, or because the
summary made the history fit. `GrowKeeps` serves the steps that append, the `Admit...`
lemmas the outcomes of the gate.

`XppProofs` proves about `StealQueue` `TypeCorrect`, `ItemsAreKept`, `PopIsHonest` and, as
`Implements`, the refinement `Spec => FollowsContract`, for every number of
slots, thieves and pushes, under `Contract`: one pushing thread (what the class
asks for) and fewer pushes than indexes (`MaxPush < W`). Neither half can be
dropped, as two of the findings above show. The invariant has three parts.
`OwnerInv` says what the owner knows at each step, above all that a pop in
`race` holds the last index and that `tail` never passes the limit of what is
inside. `ThiefInv` says when a thief's compare-and-swap can succeed: a thief
that still has the queue's `tail` has read the item that lies there. `ItemInv`
says that the slots of the window hold different items and exactly those that
were pushed and not handed out. The steps that take a slot use that indexes less
than a ring apart fall into different slots (`ModUnique`). For the refinement
every step is quiet, a push, a pop of the last or a steal of the first item of
`Deque`.

About `Executor` it proves `TaskHolds`, `TasksSpec => []TaskInv`, for any number of
tasks and any family of them, handles dropped or not, in the current-thread flavour
with a coroutine for main (`CurrentThread`: `MainOnRunner`, no `MainRepolls`, one
runner). Neither of the first two can be dropped: with a thread of its own for main a
task is freed under its runner, and with a main that polls a bare handle again a
value is taken that is not there (findings above). A task is freed when its handle
takes the value or is dropped, so what must be shown is that nothing leads back to it
by then. `Parked` says that a task that is not polled and has not ended has exactly
one thing to bring it back: an entry in a queue, a registered event, or its waker
stored in the kid it joins and not fired yet (`Stored`). Hence the entry that is
popped is the last one, a task that is polled has none (`Still`), and one that ended
never gets another. `Life` carries that for the tasks nobody polls, `AtTask` for the
one that is polled, `AtStep` what its thread has read, and `Family` that a kid is
held and alive from the first poll of its parent until the join is over.

`XferProofs` proves `Delivered`, `Spec => []DeliveredWhole`, for every number and
size of versions, every buffering and any number of attempts, faults, crashes and
edits, assuming only that "no file" is not the content of a file
(`NoneAssumption`). For it nothing about the chunks in `.part` is needed, which is the
point: the hash carries the promise. What must be shown is that nothing writes
`.part` between the hash and the name. `Ends` says so across both machines and
the wire: once a `FILE_DONE` is in flight or was taken, the sender has sent all
its chunks and does not wait for a `RESUME` that would set it going again
(`Ended`); no data follows a `FILE_DONE` on the wire (`DoneLast`); and after it
was taken no data is in flight and nothing is left in the stdio buffer, so that a
crash loses nothing. `Keeps` follows the hashed file from `.part` to its name.
Each action has a lemma; the steps that send share `SendingInv`, those that take
data `TakesData`, the receiver's own steps `LocalStep` and the faults
`QuietStep`.

The bitmap needs the two ends as well. `EndsAgree`, `Spec => []Talk`, holds with no
further assumption: past the receiver's answer both know the same number of chunks
and every chunk in flight is below it; the sender has a timer, a pause or an answer
to come, one of the three (`Turns`); with an end of the file in flight it has none
(`Quiet`), so there is one end, behind it only resets, and the receiver that took
it meets no chunk again. On that rests `ResumeHolds`, `Spec => []FilesInv`, for a
receiver that has nothing in its stdio buffer (`Flushed`) and dies once at most
(`DiesOnce`), for all sizes, intervals, attempts and faults. `Files` says which
bitmap is on the disk at each step of the receiver: behind the one in memory and
for the same number of chunks (`Behind`), with every chunk it claims in `.part`
(`Held`, `SavedIsHonest`), and alone only between the rename and the removal
(`NoOrphan`). A crash there leaves a bitmap beside which the next `FILE_META` makes
a file of holes; until the save behind it a second crash would leave a bitmap that
claims them, which is why `DiesOnce` cannot be dropped (nor `Flushed`: both are
findings above). `Close` carries the interval: since the last save no more chunks came
than the remainder of their number by `PersistEvery`.

`P2pProofs` proves of `PeerConnection` `StackHolds`, `Spec => []StackInv`, and, when only one
peer creates channels (`OneCreator`), `MessagesKeepTheirChannel`, for every table
size and any number of channels and messages. `Layers` orders the layers of one
peer: a handshake needs a connected agent, an association a finished handshake,
and Connected is reported exactly over a manager; `PhaseOrder` is all that is used
of ICE, that it never leaves Connected. `Role` says why two handshakes cannot meet
with equal roles: an agent connects only after the remote description, which is
where an offerer takes the active role. `Waiting` bounds the channels that wait by
the streams that are left, so that all of them find a stream and a slot at
COMM_UP. `IsWire` says that a message travels on the stream that is part of its
channel's name. `OneCreator` cannot be dropped, as one of the findings above shows.

The second half of `P2pProofs` is about `IceAgent`, for any number of hosts,
servers and signalled candidates and any size of the tables:

- `AgentReports`: `IceSpec => ReportsPhases`, the refinement of `IcePhases`, when the
  remote description is set once (`~Renegotiate`).
- `ChecksCredited`: `IceSpec => []AnswersCreditTheirPair`, when moreover a late
  candidate finds nothing left of a failed attempt (`Patient`).
- `AgentHolds`: `IceSpec => []AgentInv`, when moreover the agent is not destroyed
  while it gathers or checks (`Careful`).

None of the three hypotheses can be dropped: each has a finding above. The first
theorem needs `PhaseInv` alone (no pairs before the checks, no checks without the
remote description) and is therefore free of the other two. The helpers are shown
to keep the state or to end the checks (`KeepsPhase`, `Ended`) and every handler is
put together from them. `AnswersCreditTheirPair` and `AgentInv` are not inductive.
`Tables` adds what the handlers rely on between each other: lists within their
limits whose pairs name candidates (`Lists`), every outstanding check pointing
into the list at its own pair (`Credits`), and no more requests to servers in the
table than answers are pending (`Owes`). `Timed` says that each armed timer has its
handle (`Owned`) and which timers a state leaves alone (`Ready`), from which
follows that nothing starts a timer whose handle is still held. Both are carried
through a handler from helper to helper (`Good`: the tables fit, and the timers if
they did before). A pair list only grows while checks are
outstanding (`Grown`), which is why an index into it stays good; it is built anew
only where the table holds no check. The rest is about orders: that a rank in a
finite set with a total order is taken by exactly one element, hence that
`GeneratePairs` fills its list, for any set.

`CommandProofs` proves `ResultsHold`, `Spec => []ResultHolds`, for every number of
executors and commands and every configuration, those of `FastConfs` that the run
leaves out included, and, when busy executors are not destroyed (`Careful`),
`TimersEnd`: `Spec => []TimersOfBusy`. `Careful` cannot be dropped, as a finding
above shows. The invariant relates one executor to its child and nothing else
(`Fits`): an output that was seen to end has no writer and no event to come
(`Outputs`), what was learnt of the child is what became of it (`Status`), and an
armed timer belongs to a busy executor (`Timers`). Whichever executor the walk
looks at, reaping keeps what fits. `SettleFits` is the one lemma about completion,
whoever asks for it. The watch that the executors share comes on top of it:
`ExecutorsHold`, `Spec => []ExecutorInv`, and `NobodyIsOverlooked`,
`Spec => []ReapedUnlessCutShort`, under `Probed`: a command that is gone when it is
probed watches an output and has no terminal. Neither half can be dropped; a
terminal is drained and the command completed inside `Submit`, and a command that
watches nothing is looked at by nobody (both are findings above). `Shared` says
that the list holds each busy executor once, is as long as its count, and that
the pipe is watched exactly while somebody is on it; `Attended` that a zombie has a
signal to come, is ahead of the walk, or had the walk cut short before it.

`TaskGroupProofs` proves, for any number of workers, callers and tasks,
`CountersCount` (`TypeOK`, the two counters in it), `NoLostWakeup`
(`NobodyOversleeps`), `CancelIsHonest` (`CancelHonest`) and, for callers that keep
the discipline (`Disciplined`), `NobodyMeetsAFreedTask` (`GroupInv`); without it the
finding above applies. The invariant shares the tasks out among the queue, the
workers' hands and the list of finished ones (`Lists`, `Owners`), says who may
sleep (`Sleepers`), and counts: `idle` is the number of workers that were woken and
have not run yet, `pending` what is queued or in a worker's hands. `Enough` is the
wakeup: while a worker sleeps there are as many workers on their way as tasks are
queued. `Kept` is the discipline: who drains is alone, and then nothing is pending.

`EventLoopProofs` proves `NoWakeIsLost`, `TimerCancelIsTrue` and
`ReportedSourcesStay` (`NoLostWake`, `CancelIsTrue`, `SourcesStay`) without a
hypothesis, and `LoopIsRight` (`LoopInv`, all of them and `CallbackOnce`,
`WorkersStaySafe`) when work is submitted on the loop thread (`~SubmitElsewhere`;
see the findings), for any number of callers, workers, items, timers and sources.
`WakeInv` holds the wake: whoever raised `wake_pending` is about to write or has
written, or the loop has read and not yet looked. `QueueInv` and `PlaceInv` say that
an item is carried, queued, joined or given back and nothing else besides, and what
its status tells of its task; `FlightInv` counts the work in flight, so that the
thread that destroys the loop waits for what is still referred to. With
`SubmitElsewhere` only `Inv` is left: `LocalInv` has what the hypothesis gives, a
job that has its task when it is looked at.

`DoneQueueProofs` proves `ListHolds` (`ListInv`) and `Implements` (the refinement of
`MpscQueue`) of `Mpsc`, `PoolHolds` (`PoolInv`) of the pool with one poster, and, for
the two joined, `DoneQueueHolds` (`DoneQueueInv`) and `ItemsComeInOrder` (the
refinement again, while nodes are recycled), for any number of producers, items and
pushes and from no hypothesis. The queue's invariant follows the words along
`order`: the chain is cut exactly where a push has exchanged the tail and not
linked yet (`Chained`, `Places`), and the head is the first node once that one is
linked (`AtHead`). For the pool, `Registers` is the ABA argument: an item whose
successor the poster has read stays on the stack, because nobody else takes from
it, and the successor of an item on the stack does not change; a top that was taken
and came back therefore still has the successor that was read. What is on the stack
is a recursive function of the top and the links (`OnStack`); it is characterised
by the sequence from the top down (`IsStack`), by the least counterexample in place
of an induction. The joined system is shown to do a step of each part or none
(`Parts`), so its theorems rest on those of the parts.

`TypeOK`, `FlightOwned` and `TurnBound` of `AgentQuery` and `TypeOK` of
`StealQueue` are proved for every instance and therefore not checked by a run.

Only model-checked: liveness (`EveryRunEnds`, `EveryInputSettles`,
`EveryNodeComesOut`, `Progress`, `TransferCompletes`, `CallsReturn`, `PhasesEnd`,
`CommandEnds`), which the prover does not reach; `Executor` in the flavours that `CurrentThread`
leaves out; `AgentSession` with heads that were not replayed or stored turns behind
a summary; and `IceAgent` without the hypotheses above.

## Plan

In this order:

1. `TaskGroup` composed with `EventLoop`, whose join waits for a task that a
   group wait may have reclaimed.
2. `AtomicWaker` with the adapter's double check (`xpp/promise_node.h:464-640`),
   `ScheduledIo` (readiness against registration, close), `AsyncMutex`
   (`xpp/sync/mutex.h`: hand-over to a waiter that may have gone), and the
   parking and shutdown of workers.
3. `Timer` (`timer.c`); the heap's index bookkeeping (`heap.c`) against a set;
   nested waits and signal watches in `EventLoop`.
4. The TURN client (`p2p/turn_client.c`: allocate, refresh, permissions) and
   relay candidates in `IceAgent`; the signalling of `fer/`.
5. The memory store's append and replay, and the WebSocket close handshake.

Not modelled, and not planned: vendored code (`line/`), wrappers (`js/`), the
value types of libx++ (`arc.h`, `box.h`, `vec.h`, `option.h`), rendering
(`tui/`, `src/cli`), hashes, codecs and containers (sequential, densely tested), the command executor on Windows
(`base/command_windows.c`, another implementation on threads), the inside of OpenSSL, mbedTLS and usrsctp. The parts named above are a small
share of the repository's lines: most of the others are platform backends,
parsers, vendored code and value types.
