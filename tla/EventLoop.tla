------------------------------ MODULE EventLoop ------------------------------
(***************************************************************************)
(* The event loop of libx/x/base with its ways in from other threads:      *)
(* xEventLoopPost (a callback for the loop thread), xEventLoopSubmit (work *)
(* for a task group's worker, then a callback), both ending in a push on   *)
(* the done queue, and the timers; each wakes the loop, which coalesces    *)
(* wakes.  A turn of the loop (xEventWait of the epoll backend) handles    *)
(* the events reported, then the timers that expired, then frees the       *)
(* sources that were removed.                                              *)
(* Callers are threads that post, cancel and stop; a callback that does so *)
(* on the loop thread is a caller whose steps happen to be contiguous.     *)
(* The queue behaves as Mpsc shows, and items are fresh (see DoneQueue).   *)
(* Time is a set of timers whose deadline has passed.                      *)
(***************************************************************************)
EXTENDS Naturals, Sequences, FiniteSets

CONSTANTS
  Callers, Workers,
  Posts, Jobs,       \* items: posted callbacks and offloaded work
  Timers, Sources,
  Programs,          \* which of all these a program uses, one set per program
  WAKE,              \* the event of the loop's own eventfd
  NULL,
  MaxStops,          \* bound on calls of xEventLoopStop
  SubmitElsewhere    \* whether xEventLoopSubmit is called off the loop thread

Items   == Posts \cup Jobs
Pushers == Callers \cup Workers

ASSUME ConstantsAssumption ==
  /\ Callers \cap Workers = {} /\ Posts \cap Jobs = {} /\ NULL \notin Items
  /\ Timers \cap Items = {} /\ WAKE \notin Sources
  /\ Programs \subseteq SUBSET (Items \cup Timers \cup Sources)
  /\ IsFiniteSet(Jobs) /\ MaxStops \in Nat /\ SubmitElsewhere \in BOOLEAN

VARIABLES
  uses,         \* the program
  lpc,          \* loop thread: out, turn, wait, events, read, clear, dispatch, join,
                \* fire, drain, gone
  cur,          \* the item it waits for in xTaskWait
  stopped, wake_pending,
  readable,     \* the eventfd's counter is not zero
  queue,        \* done queue, in the order of the exchanges of tail
  linked,       \* its items whose push has completed
  inflight,
  pc, held,     \* per pusher: idle, run, push, link, wake, write or note; its item
  tasks,        \* the task group's queue
  status,       \* per job: new, queued, running, done or cancelled
  hasTask,      \* jobs whose w->task has been stored
  noted,        \* jobs whose task has signalled its note
  sub,          \* the job being submitted, between xTaskSubmit and its return
  freed,        \* items given back to the pool
  called,       \* per item and timer: how often its callback ran
  mistaken,     \* jobs whose done_fn was called as if it were a post_fn
  stops,        \* calls of xEventLoopStop
  watched,      \* the timers that the timeout of epoll_wait was computed from
  reported,     \* the events it returned that are still to be handled
  sources,      \* per source: new, live, deleted or freed
  timers,       \* per timer: new, armed, fired, cancelled or dropped
  due,          \* armed timers whose deadline has passed
  firing        \* fired timers whose callback is still to run

loop   == <<lpc, cur>>
wake   == <<wake_pending, readable>>
done   == <<queue, linked>>
pool   == <<tasks, status, noted>>
submit == <<hasTask, inflight, sub>>
ended  == <<freed, called, mistaken>>
stop   == <<stopped, stops>>
clock  == <<timers, due, firing>>
turn   == <<uses, watched, reported, sources, clock>>
vars   == <<loop, wake, done, pool, submit, ended, stop, turn, pc, held>>

Init ==
  /\ lpc = "out" /\ cur = NULL /\ stopped = FALSE
  /\ wake_pending = FALSE /\ readable = FALSE
  /\ queue = <<>> /\ linked = {} /\ inflight = 0
  /\ pc = [a \in Pushers |-> "idle"] /\ held = [a \in Pushers |-> NULL]
  /\ tasks = <<>> /\ status = [j \in Jobs |-> "new"]
  /\ hasTask = {} /\ noted = {} /\ sub = NULL
  /\ freed = {} /\ called = [i \in Items \cup Timers |-> 0] /\ mistaken = {}
  /\ stops = 0
  /\ uses \in Programs /\ watched = {} /\ reported = {}
  /\ sources = [s \in Sources |-> "new"]
  /\ timers = [t \in Timers |-> "new"] /\ due = {} /\ firing = {}

(* the loop thread may be in the program's code *)
InCallback == lpc \in {"out", "events", "dispatch", "fire"}

Alive == lpc \notin {"drain", "gone"}

-------------------------------------------------------------------------------
(* The calls.  xEventLoopPost, for an item nobody has posted. *)
Post(c) ==
  /\ Alive /\ pc[c] = "idle"
  /\ \E p \in Posts \cap uses :
       /\ p \notin freed /\ \A i \in DOMAIN queue : queue[i] # p
       /\ \A a \in Pushers : held[a] # p
       /\ held' = [held EXCEPT ![c] = p]
  /\ pc' = [pc EXCEPT ![c] = "push"]
  /\ UNCHANGED <<loop, wake, done, pool, submit, ended, stop, turn>>

(* xEventLoopWorkCancel: the compare-and-swap from QUEUED; when it fails *)
(* the call returns Busy and nothing changes.                            *)
WorkCancel(c) ==
  /\ Alive /\ pc[c] = "idle"
  /\ \E j \in hasTask : /\ status[j] = "queued"
                        /\ status' = [status EXCEPT ![j] = "cancelled"]
                        /\ held' = [held EXCEPT ![c] = j]
  /\ pc' = [pc EXCEPT ![c] = "push"]
  /\ UNCHANGED <<loop, wake, done, tasks, noted, submit, ended, stop, turn>>

(* xEventLoopStop sets the flag, then wakes. *)
Stop(c) ==
  /\ Alive /\ pc[c] = "idle" /\ stops < MaxStops
  /\ stopped' = TRUE /\ stops' = stops + 1
  /\ pc' = [pc EXCEPT ![c] = "wake"] /\ held' = [held EXCEPT ![c] = NULL]
  /\ UNCHANGED <<loop, wake, done, pool, submit, ended, turn>>

(* submit_timer puts the timer in the heap, then wakes. *)
TimerAt(c) ==
  /\ Alive /\ pc[c] = "idle"
  /\ \E t \in Timers \cap uses : /\ timers[t] = "new"
                                 /\ timers' = [timers EXCEPT ![t] = "armed"]
  /\ pc' = [pc EXCEPT ![c] = "wake"] /\ held' = [held EXCEPT ![c] = NULL]
  /\ UNCHANGED <<loop, wake, done, pool, submit, ended, stop, uses, watched, reported,
                 sources, due, firing>>

(* xEventLoopTimerCancel, of a timer still in the heap; of any other the *)
(* call returns InvalidState and nothing changes.                        *)
TimerCancel ==
  /\ Alive
  /\ \E t \in Timers : /\ timers[t] = "armed"
                        /\ timers' = [timers EXCEPT ![t] = "cancelled"]
                        /\ due' = due \ {t}
  /\ UNCHANGED <<loop, wake, done, pool, submit, ended, stop, uses, watched, reported,
                 sources, firing, pc, held>>

TimePasses ==
  /\ Alive
  /\ \E t \in Timers \ due : timers[t] = "armed" /\ due' = due \cup {t}
  /\ UNCHANGED <<loop, wake, done, pool, submit, ended, stop, uses, watched, reported,
                 sources, timers, firing, pc, held>>

(* xEventAdd, with the source put aside at once when epoll refuses it; *)
(* xEventDel only marks it.                                            *)
EventAdd(s) ==
  /\ InCallback /\ s \in uses /\ sources[s] = "new"
  /\ \E to \in {"live", "deleted"} : sources' = [sources EXCEPT ![s] = to]
  /\ UNCHANGED <<loop, wake, done, pool, submit, ended, stop, uses, watched, reported,
                 clock, pc, held>>

EventDel(s) ==
  /\ InCallback /\ sources[s] = "live"
  /\ sources' = [sources EXCEPT ![s] = "deleted"]
  /\ UNCHANGED <<loop, wake, done, pool, submit, ended, stop, uses, watched, reported,
                 clock, pc, held>>

(* xEventLoopSubmit hands the work to the group ... *)
SubmitTask(j) ==
  /\ Alive /\ sub = NULL /\ j \in uses /\ status[j] = "new"
  /\ SubmitElsewhere \/ InCallback
  /\ status' = [status EXCEPT ![j] = "queued"]
  /\ tasks' = Append(tasks, j) /\ sub' = j
  /\ UNCHANGED <<loop, wake, done, noted, hasTask, inflight, ended, stop, pc, held, turn>>

(* ... and then stores the task in the item and counts it. *)
SubmitSettle ==
  /\ sub # NULL
  /\ hasTask' = hasTask \cup {sub} /\ inflight' = inflight + 1 /\ sub' = NULL
  /\ UNCHANGED <<loop, wake, done, pool, ended, stop, pc, held, turn>>

-------------------------------------------------------------------------------
(* A push and the wake that follows it, by any thread. *)
PushSwap(a) ==
  /\ pc[a] = "push" /\ pc' = [pc EXCEPT ![a] = "link"]
  /\ queue' = Append(queue, held[a])
  /\ UNCHANGED <<linked, loop, wake, pool, submit, ended, stop, held, turn>>

PushLink(a) ==
  /\ pc[a] = "link" /\ pc' = [pc EXCEPT ![a] = "wake"]
  /\ linked' = linked \cup {held[a]}
  /\ UNCHANGED <<queue, loop, wake, pool, submit, ended, stop, held, turn>>

(* What a pusher does when its call is over: a worker still has to end its *)
(* task.                                                                   *)
Home(a) == IF a \in Workers THEN "note" ELSE "idle"
Drops(a) == IF a \in Workers THEN held ELSE [held EXCEPT ![a] = NULL]

(* xEventWake: only the thread that raises wake_pending writes. *)
WakeFlag(a) ==
  /\ pc[a] = "wake"
  /\ \/ wake_pending /\ pc' = [pc EXCEPT ![a] = Home(a)] /\ held' = Drops(a)
        /\ UNCHANGED wake_pending
     \/ ~wake_pending /\ wake_pending' = TRUE /\ pc' = [pc EXCEPT ![a] = "write"]
        /\ UNCHANGED held
  /\ UNCHANGED <<readable, loop, done, pool, submit, ended, stop, turn>>

WakeWrite(a) ==
  /\ pc[a] = "write" /\ readable' = TRUE
  /\ pc' = [pc EXCEPT ![a] = Home(a)] /\ held' = Drops(a)
  /\ UNCHANGED <<wake_pending, loop, done, pool, submit, ended, stop, turn>>

-------------------------------------------------------------------------------
(* worker_loop takes a task; one that was cancelled is not run. *)
WorkerTake(k) ==
  /\ pc[k] = "idle" /\ tasks # <<>>
  /\ LET j == Head(tasks) IN
     /\ held' = [held EXCEPT ![k] = j]
     /\ \/ status[j] = "queued" /\ status' = [status EXCEPT ![j] = "running"]
           /\ pc' = [pc EXCEPT ![k] = "run"]
        \/ status[j] = "cancelled" /\ pc' = [pc EXCEPT ![k] = "note"] /\ UNCHANGED status
  /\ tasks' = Tail(tasks)
  /\ UNCHANGED <<noted, loop, wake, done, submit, ended, stop, turn>>

(* offload_worker: the work function returns, the item is pushed *)
WorkerRun(k) ==
  /\ pc[k] = "run" /\ pc' = [pc EXCEPT ![k] = "push"]
  /\ UNCHANGED <<loop, wake, done, pool, submit, ended, stop, held, turn>>

(* the task is over: DONE unless it was cancelled, and its note is signalled *)
WorkerNote(k) ==
  /\ pc[k] = "note" /\ pc' = [pc EXCEPT ![k] = "idle"]
  /\ status' = IF status[held[k]] = "running"
               THEN [status EXCEPT ![held[k]] = "done"] ELSE status
  /\ noted' = noted \cup {held[k]} /\ held' = [held EXCEPT ![k] = NULL]
  /\ UNCHANGED <<tasks, loop, wake, done, submit, ended, stop, turn>>

-------------------------------------------------------------------------------
(* The loop thread.  It is busy while one of its callbacks submits. *)
At(from) == lpc = from /\ (sub = NULL \/ SubmitElsewhere)

Run ==
  /\ At("out") /\ lpc' = "turn" /\ stopped' = FALSE
  /\ UNCHANGED <<cur, wake, done, pool, submit, ended, stops, pc, held, turn>>

(* the loop condition of xEventLoopRun; then xEventWait computes its timeout *)
Turn ==
  /\ At("turn")
  /\ \/ stopped /\ lpc' = "out" /\ UNCHANGED watched
     \/ ~stopped /\ lpc' = "wait" /\ watched' = {t \in Timers : timers[t] = "armed"}
  /\ UNCHANGED <<cur, wake, done, pool, submit, ended, stop, uses, reported, sources,
                 clock, pc, held>>

(* epoll_wait returns with the events there are, after its timeout or a *)
(* signal with none                                                     *)
WaitReturns ==
  /\ At("wait") /\ lpc' = "events"
  /\ \E ready \in SUBSET {s \in Sources : sources[s] = "live"} :
       reported' = ready \cup {w \in {WAKE} : readable}
  /\ UNCHANGED <<cur, wake, done, pool, submit, ended, stop, uses, watched, sources,
                 clock, pc, held>>

(* The events are handled one by one.  A deleted source is passed over; the *)
(* callback of another may do what a callback may.                          *)
Event(e) ==
  /\ At("events") /\ e \in reported /\ reported' = reported \ {e}
  /\ lpc' = IF e = WAKE THEN "read" ELSE "events"
  /\ UNCHANGED <<cur, wake, done, pool, submit, ended, stop, uses, watched, sources,
                 clock, pc, held>>

(* loop_fire_expired_timers: all that expired leave the heap ... *)
Expire ==
  /\ At("events") /\ reported = {} /\ lpc' = "fire"
  /\ timers' = [t \in Timers |-> IF t \in due THEN "fired" ELSE timers[t]]
  /\ firing' = due /\ due' = {}
  /\ UNCHANGED <<cur, wake, done, pool, submit, ended, stop, uses, watched, reported,
                 sources, pc, held>>

(* ... and then their callbacks run. *)
Fire ==
  /\ At("fire")
  /\ \E t \in firing : /\ firing' = firing \ {t}
                        /\ called' = [called EXCEPT ![t] = @ + 1]
  /\ UNCHANGED <<loop, wake, done, pool, submit, freed, mistaken, stop, uses, watched,
                 reported, sources, timers, due, pc, held>>

(* source_array_sweep *)
Swept == [s \in Sources |-> IF sources[s] = "deleted" THEN "freed" ELSE sources[s]]
Sweep ==
  /\ At("fire") /\ firing = {} /\ lpc' = "turn" /\ sources' = Swept
  /\ UNCHANGED <<cur, wake, done, pool, submit, ended, stop, uses, watched, reported,
                 clock, pc, held>>

(* Mutant: the flag is cleared before the eventfd is read. *)
WakeDrainSwapped ==
  /\ \/ At("read") /\ lpc' = "clear" /\ wake_pending' = FALSE /\ UNCHANGED readable
     \/ At("clear") /\ lpc' = "dispatch" /\ readable' = FALSE /\ UNCHANGED wake_pending
  /\ UNCHANGED <<cur, done, pool, submit, ended, stop, pc, held, turn>>

(* The eventfd is read, then the flag is cleared; only then is the queue *)
(* looked at.                                                            *)
WakeDrain ==
  /\ \/ At("read") /\ lpc' = "clear" /\ readable' = FALSE /\ UNCHANGED wake_pending
     \/ At("clear") /\ lpc' = "dispatch" /\ wake_pending' = FALSE /\ UNCHANGED readable
  /\ UNCHANGED <<cur, done, pool, submit, ended, stop, pc, held, turn>>

(* xMpscPop: none while the first push is unfinished; it spins while the *)
(* second is.                                                            *)
QueueLooksEmpty == queue # <<>> => Head(queue) \notin linked
CanPop == /\ ~QueueLooksEmpty
          /\ Len(queue) > 1 => queue[2] \in linked

(* An item is finished: its callback runs or is skipped, the item is free. *)
Finish(i, runs) ==
  /\ called' = [called EXCEPT ![i] = @ + (IF runs THEN 1 ELSE 0)]
  /\ freed' = freed \cup {i}

(* loop_dispatch_done: an item with a task is joined first; any other is *)
(* taken for a posted one.  The post_fn of a job is its done_fn, which   *)
(* shares a union with it.                                               *)
Dispatch ==
  /\ At("dispatch") /\ CanPop
  /\ queue' = Tail(queue) /\ linked' = linked \ {Head(queue)}
  /\ \/ Head(queue) \in hasTask
        /\ lpc' = "join" /\ cur' = Head(queue) /\ UNCHANGED ended
     \/ Head(queue) \notin hasTask
        /\ Finish(Head(queue), TRUE) /\ UNCHANGED loop
        /\ mistaken' = mistaken \cup ({Head(queue)} \cap Jobs)
  /\ UNCHANGED <<wake, pool, submit, stop, pc, held, turn>>

(* xTaskWait returns *)
Join ==
  /\ At("join") /\ cur \in noted
  /\ Finish(cur, status[cur] # "cancelled") /\ UNCHANGED mistaken
  /\ inflight' = inflight - 1
  /\ lpc' = "dispatch" /\ cur' = NULL
  /\ UNCHANGED <<wake, done, pool, hasTask, sub, stop, pc, held, turn>>

(* Mutant: the dispatch stops looking before the queue is empty. *)
DispatchEndsEarly ==
  /\ At("dispatch") /\ lpc' = "events"
  /\ UNCHANGED <<cur, wake, done, pool, submit, ended, stop, pc, held, turn>>

DispatchEnds ==
  /\ At("dispatch") /\ QueueLooksEmpty /\ lpc' = "events"
  /\ UNCHANGED <<cur, wake, done, pool, submit, ended, stop, pc, held, turn>>

(* xEventLoopDestroy, once no thread is in a call any more; workers may be. *)
(* It drops the timers first.                                               *)
Destroy ==
  /\ At("out") /\ sub = NULL /\ \A c \in Callers : pc[c] = "idle"
  /\ lpc' = "drain" /\ due' = {}
  /\ timers' = [t \in Timers |-> IF timers[t] = "armed" THEN "dropped" ELSE timers[t]]
  /\ UNCHANGED <<cur, wake, done, pool, submit, ended, stop, uses, watched, reported,
                 sources, firing, pc, held>>

(* loop_wait_inflight is over; loop_cleanup_done drops what is queued, and *)
(* the sources are freed.                                                  *)
Drained ==
  /\ At("drain") /\ inflight = 0
  /\ queue # <<>> => CanPop
  /\ lpc' = "gone" /\ queue' = <<>> /\ linked' = {}
  /\ freed' = freed \cup {queue[i] : i \in DOMAIN queue}
  /\ sources' = [s \in Sources |-> IF sources[s] = "new" THEN "new" ELSE "freed"]
  /\ UNCHANGED <<cur, wake, called, mistaken, pool, submit, stop, uses, watched, reported,
                 clock, pc, held>>

-------------------------------------------------------------------------------
Caller(c) == Post(c) \/ WorkCancel(c) \/ Stop(c) \/ TimerAt(c)
Pusher(a) == PushSwap(a) \/ PushLink(a) \/ WakeFlag(a) \/ WakeWrite(a)
Worker(k) == WorkerTake(k) \/ WorkerRun(k) \/ WorkerNote(k)
LoopStep  == \/ Turn \/ WaitReturns \/ (\E e \in Sources \cup {WAKE} : Event(e))
             \/ WakeDrain \/ Dispatch \/ Join \/ DispatchEnds
             \/ Expire \/ Fire \/ Sweep \/ Drained

Next == \/ LoopStep \/ Run \/ Destroy \/ SubmitSettle \/ TimerCancel \/ TimePasses
        \/ \E s \in Sources : EventAdd(s) \/ EventDel(s)
        \/ \E j \in Jobs : SubmitTask(j)
        \/ \E c \in Callers : Caller(c)
        \/ \E a \in Pushers : Pusher(a)
        \/ \E k \in Workers : Worker(k)

Spec == Init /\ [][Next]_vars

(* Threads keep running; epoll_wait returns for a readable eventfd and     *)
(* after its timeout; a program that has stopped its loop runs it again or *)
(* destroys it.                                                            *)
Wakes == At("wait") /\ (readable \/ watched \cap due # {}) /\ WaitReturns
FairSpec ==
  /\ Spec /\ WF_vars(LoopStep /\ lpc # "wait") /\ WF_vars(Wakes)
  /\ WF_vars(Run \/ Destroy) /\ WF_vars(SubmitSettle)
  /\ \A a \in Pushers : WF_vars(Pusher(a))
  /\ \A k \in Workers : WF_vars(Worker(k))

-------------------------------------------------------------------------------
(* Type correctness of the loop, its queues and its threads. *)
TypeOK ==
  /\ lpc \in {"out", "turn", "wait", "events", "read", "clear", "dispatch", "join", "fire",
              "drain", "gone"}
  /\ cur \in Jobs \cup {NULL} /\ (lpc = "join") = (cur # NULL)
  /\ {stopped, wake_pending, readable} \subseteq BOOLEAN
  /\ queue \in Seq(Items) /\ linked \subseteq {queue[i] : i \in DOMAIN queue}
  /\ inflight \in 0..Cardinality(Jobs)
  /\ pc \in [Pushers -> {"idle", "run", "push", "link", "wake", "write", "note"}]
  /\ held \in [Pushers -> Items \cup {NULL}]
  /\ tasks \in Seq(Jobs)
  /\ status \in [Jobs -> {"new", "queued", "running", "done", "cancelled"}]
  /\ hasTask \subseteq Jobs /\ noted \subseteq Jobs /\ sub \in Jobs \cup {NULL}
  /\ freed \subseteq Items /\ called \in [Items \cup Timers -> Nat] /\ mistaken \subseteq Jobs
  /\ stops \in 0..MaxStops /\ uses \in Programs
  /\ watched \subseteq Timers /\ reported \subseteq Sources \cup {WAKE}
  /\ sources \in [Sources -> {"new", "live", "deleted", "freed"}]
  /\ timers \in [Timers -> {"new", "armed", "fired", "cancelled", "dropped"}]
  /\ due \subseteq {t \in Timers : timers[t] = "armed"} /\ firing \subseteq Timers

(* No wake is lost: the loop never sleeps over a finished push, a stop or  *)
(* a deadline that its timeout does not cover, unless the eventfd is       *)
(* readable or some thread is still to write it.                           *)
NoLostWake ==
  /\ lpc = "wait"
  /\ ~QueueLooksEmpty \/ stopped \/ (due # {} /\ due \cap watched = {})
  => readable \/ \E a \in Pushers : pc[a] \in {"wake", "write"}

(* Every item's callback runs exactly once before the item is given back   *)
(* by the dispatch: that of a job unless the job was cancelled, and then   *)
(* never; that of a posted item unless the loop was destroyed first.  The  *)
(* callback of a job is told its result.                                   *)
CallbackOnce ==
  /\ mistaken = {}
  /\ \A i \in Items :
       /\ called[i] <= 1 /\ (called[i] = 1 => i \in freed)
       /\ i \in freed /\ i \in Jobs => called[i] = (IF status[i] = "cancelled" THEN 0 ELSE 1)
       /\ i \in freed /\ i \in Posts => called[i] = 1 \/ lpc = "gone"

(* A worker never touches an item that was given back, nor a loop that was *)
(* destroyed: the loop joins the task first, and Destroy waits for the     *)
(* work in flight.                                                         *)
WorkersStaySafe ==
  \A k \in Workers :
    pc[k] \in {"run", "push", "link", "wake", "write"} =>
      held[k] \notin freed /\ lpc # "gone"

(* What xEventLoopTimerCancel answers is true: a timer it cancelled never  *)
(* runs, and one it refuses has run or will, once.                         *)
CancelIsTrue ==
  \A t \in Timers : /\ called[t] <= 1 /\ (t \in firing => called[t] = 0)
                    /\ (timers[t] = "fired") = (t \in firing \/ called[t] = 1)

(* No event still to be handled is of a source that was freed, whichever   *)
(* callback of the same batch removed it.                                  *)
SourcesStay == \A s \in reported \cap Sources : sources[s] \in {"live", "deleted"}

(* The loop, its callers and its workers between any two shared accesses. *)
LoopInv == /\ TypeOK /\ NoLostWake /\ CallbackOnce /\ WorkersStaySafe
           /\ CancelIsTrue /\ SourcesStay

(* Work that was submitted is finished or cancelled and its item given     *)
(* back, and a posted item is dispatched, unless the loop is destroyed.    *)
WorkArrives ==
  /\ \A j \in Jobs : status[j] = "queued" ~> j \in freed \/ ~Alive
  /\ \A c \in Callers, p \in Posts :
       pc[c] = "push" /\ held[c] = p ~> p \in freed \/ ~Alive

(* xEventLoopStop makes a running xEventLoopRun return. *)
StopIsObeyed == stopped /\ lpc # "out" ~> lpc = "out" \/ ~Alive

(* A timer whose deadline has passed fires, unless it is cancelled or the  *)
(* loop destroyed.                                                         *)
TimersFire ==
  \A t \in Timers : t \in due ~> called[t] = 1 \/ timers[t] = "cancelled" \/ ~Alive

(* What the loop was given or told takes effect. *)
Progress == WorkArrives /\ StopIsObeyed /\ TimersFire

(* xEventLoopDestroy returns (event_private.c:152-156: it waits until the  *)
(* workers have finished and pushed their results).                        *)
DestroyReturns == lpc = "drain" ~> lpc = "gone"
=============================================================================
