----------------------------- MODULE TaskGroup ------------------------------
(***************************************************************************)
(* The thread pool of libx/x/base/task.c: workers spawned on demand up to  *)
(* a limit, a bounded queue behind a mutex with one condition for idle     *)
(* workers and one for xTaskGroupWait, a compare-and-swap that decides     *)
(* between running and cancelling a task, and a list of finished tasks     *)
(* that xTaskGroupWait and xTaskGroupDestroy free.                         *)
(*                                                                         *)
(* A critical section is one step; outside of it every shared access is.   *)
(* A task is a slot of the slab: freed slots are submitted again.          *)
(***************************************************************************)
EXTENDS Integers, FiniteSets, Sequences

CONSTANTS Workers, Clients, Tasks, None,
  QueueCap,      \* queue_cap, 0 for none
  MaySpawnFail,  \* xThreadCreate may fail
  Disciplined    \* nobody submits or waits for a task during GroupWait

ASSUME TaskGroupAssumption ==
  /\ None \notin Workers \cup Clients \cup Tasks
  /\ Workers \cap Clients = {} /\ IsFiniteSet(Workers)
  /\ QueueCap \in Nat /\ {MaySpawnFail, Disciplined} \subseteq BOOLEAN

VARIABLES
  queue,    \* qhead ... qtail
  idle,     \* the counter
  pending,  \* the counter
  shutdown,
  asleep,   \* workers that wait on qcond and clients that wait on wcond
  done,     \* the list of finished tasks
  state,    \* per task: free, QUEUED, RUNNING, DONE or CANCELLED
  noted,    \* tasks whose note is signalled
  ran,      \* per task: how often its function was called
  pc, cur   \* per thread: its step and the task it has there

shared == <<queue, idle, pending, shutdown, asleep>>
task   == <<done, state, noted, ran>>
vars   == <<shared, task, pc, cur>>

Threads == Workers \cup Clients
Started == {w \in Workers : pc[w] # "unborn"}

Init ==
  /\ queue = <<>> /\ idle = 0 /\ pending = 0 /\ shutdown = FALSE /\ asleep = {}
  /\ done = <<>> /\ state = [t \in Tasks |-> "free"]
  /\ noted = {} /\ ran = [t \in Tasks |-> 0]
  /\ pc = [p \in Threads |-> IF p \in Workers THEN "unborn" ELSE "idle"]
  /\ cur = [p \in Threads |-> None]

At(p, from, to) == pc[p] = from /\ pc' = [pc EXCEPT ![p] = to]

(* xCondSignal: one of the threads of that kind that sleep is woken. *)
Signal(kind) ==
  IF asleep \cap kind = {} THEN UNCHANGED asleep
  ELSE \E p \in asleep \cap kind : asleep' = asleep \ {p}

-------------------------------------------------------------------------------
(* worker_loop, under qlock: sleep, leave or take the oldest task.  counted *)
(* is 1 when the worker is already in the idle counter.                     *)
Sleep(w, from, counted) ==
  /\ At(w, from, "woken") /\ queue = <<>> /\ ~shutdown
  /\ idle' = idle + 1 - counted /\ asleep' = asleep \cup {w}
  /\ UNCHANGED <<queue, pending, shutdown, task, cur>>

Leave(w, from, counted) ==
  /\ At(w, from, "exit") /\ queue = <<>> /\ shutdown
  /\ idle' = idle - counted
  /\ UNCHANGED <<queue, pending, shutdown, asleep, task, cur>>

Dequeue(w, from, counted) ==
  /\ At(w, from, "claim") /\ queue # <<>>
  /\ cur' = [cur EXCEPT ![w] = Head(queue)] /\ queue' = Tail(queue)
  /\ idle' = idle - counted
  /\ UNCHANGED <<pending, shutdown, asleep, task>>

Fetch(w) ==
  /\ w \notin asleep
  /\ \E from \in {"loop", "woken"} :
       LET counted == IF from = "woken" THEN 1 ELSE 0
       IN Sleep(w, from, counted) \/ Leave(w, from, counted) \/ Dequeue(w, from, counted)

(* Mutant: the state is set without looking whether a cancel was first. *)
ClaimBlindly(w) ==
  /\ At(w, "claim", "run")
  /\ state' = [state EXCEPT ![cur[w]] = "RUNNING"]
  /\ ran' = [ran EXCEPT ![cur[w]] = @ + 1]
  /\ UNCHANGED <<shared, done, noted, cur>>

(* The compare-and-swap from QUEUED to RUNNING, and the call. *)
Claim(w) ==
  LET t == cur[w]
  IN /\ pc[w] = "claim"
     /\ IF state[t] = "QUEUED"
        THEN /\ state' = [state EXCEPT ![t] = "RUNNING"]
             /\ ran' = [ran EXCEPT ![t] = @ + 1] /\ pc' = [pc EXCEPT ![w] = "run"]
        ELSE pc' = [pc EXCEPT ![w] = "push"] /\ UNCHANGED <<state, ran>>
     /\ UNCHANGED <<shared, done, noted, cur>>

Finish(w) ==
  /\ At(w, "run", "push") /\ state' = [state EXCEPT ![cur[w]] = "DONE"]
  /\ UNCHANGED <<shared, done, noted, ran, cur>>

Push(w) ==
  /\ At(w, "push", "note") /\ done' = Append(done, cur[w])
  /\ UNCHANGED <<shared, state, noted, ran, cur>>

Note(w) ==
  /\ At(w, "note", "count") /\ noted' = noted \cup {cur[w]}
  /\ UNCHANGED <<shared, done, state, ran, cur>>

(* The task is not touched from here on. *)
Count(w) ==
  /\ pc[w] = "count" /\ pending' = pending - 1 /\ cur' = [cur EXCEPT ![w] = None]
  /\ pc' = [pc EXCEPT ![w] = IF pending = 1 THEN "wake" ELSE "loop"]
  /\ UNCHANGED <<queue, idle, shutdown, asleep, task>>

(* Mutant: the last task signals the condition of the idle workers. *)
WakeWorker(w) ==
  /\ At(w, "wake", "loop") /\ Signal(Workers)
  /\ UNCHANGED <<queue, idle, pending, shutdown, task, cur>>

Wake(w) ==
  /\ At(w, "wake", "loop") /\ Signal(Clients)
  /\ UNCHANGED <<queue, idle, pending, shutdown, task, cur>>

-------------------------------------------------------------------------------
Quiet == \A c \in Clients : pc[c] \notin {"groupwait", "drain", "shutdown", "join"}
Using == {c \in Clients : pc[c] = "wait"}

(* Mutant: a worker is signalled only when the queue was empty. *)
SubmitToEmpty(c) ==
  LET t == CHOOSE x \in Tasks : state[x] = "free"
      w == CHOOSE x \in Workers : pc[x] = "unborn"
  IN
  /\ pc[c] = "idle" /\ (\E x \in Tasks : state[x] = "free") /\ ~shutdown /\ (Disciplined => Quiet)
  /\ QueueCap = 0 \/ Len(queue) < QueueCap
  /\ state' = [state EXCEPT ![t] = "QUEUED"]
  /\ queue' = Append(queue, t) /\ pending' = pending + 1
  /\ \/ idle > 0 /\ queue = <<>> /\ Signal(Workers) /\ UNCHANGED pc
     \/ idle > 0 /\ queue # <<>> /\ UNCHANGED <<asleep, pc>>
     \/ /\ idle = 0 /\ Started # Workers
        /\ pc' = [pc EXCEPT ![w] = "loop"] /\ UNCHANGED asleep
  /\ UNCHANGED <<idle, shutdown, done, noted, ran, cur>>

(* xTaskSubmit; a full queue refuses, which leaves nothing behind.  An idle *)
(* worker is signalled, or a thread is spawned; at the limit, or when that  *)
(* fails, the task stays in the queue.                                      *)
Submit(c) ==
  LET t == CHOOSE x \in Tasks : state[x] = "free"
      w == CHOOSE x \in Workers : pc[x] = "unborn"
  IN
  /\ pc[c] = "idle" /\ (\E x \in Tasks : state[x] = "free") /\ ~shutdown /\ (Disciplined => Quiet)
  /\ QueueCap = 0 \/ Len(queue) < QueueCap
  /\ state' = [state EXCEPT ![t] = "QUEUED"]
  /\ queue' = Append(queue, t) /\ pending' = pending + 1
  /\ \/ idle > 0 /\ Signal(Workers) /\ UNCHANGED pc
     \/ /\ idle = 0 /\ Started # Workers
        /\ pc' = [pc EXCEPT ![w] = "loop"] /\ UNCHANGED asleep
     \/ /\ idle = 0 /\ (Started = Workers \/ MaySpawnFail)
        /\ UNCHANGED <<asleep, pc>>
  /\ UNCHANGED <<idle, shutdown, done, noted, ran, cur>>

(* xTaskCancel; when it is too late nothing changes. *)
Cancel(c, t) ==
  /\ pc[c] = "idle" /\ state[t] = "QUEUED"
  /\ state' = [state EXCEPT ![t] = "CANCELLED"]
  /\ UNCHANGED <<shared, done, noted, ran, pc, cur>>

(* xTaskWait: block on the note, then read the task. *)
WaitTask(c, t) ==
  /\ At(c, "idle", "wait") /\ state[t] # "free"
  /\ ~shutdown /\ (Disciplined => Quiet)
  /\ cur' = [cur EXCEPT ![c] = t] /\ UNCHANGED <<shared, task>>

Waited(c) ==
  /\ At(c, "wait", "idle") /\ cur[c] \in noted
  /\ cur' = [cur EXCEPT ![c] = None] /\ UNCHANGED <<shared, task>>

(* xTaskGroupWait, under qlock: sleep until nothing is pending. *)
GroupWait(c) ==
  /\ At(c, "idle", "groupwait") /\ ~shutdown /\ (Disciplined => Quiet /\ Using = {})
  /\ UNCHANGED <<shared, task, cur>>

(* Mutant: what counts is that the queue is empty. *)
GroupCheckQueue(c) ==
  /\ pc[c] = "groupwait" /\ c \notin asleep
  /\ IF queue # <<>> THEN asleep' = asleep \cup {c} /\ UNCHANGED pc
     ELSE pc' = [pc EXCEPT ![c] = "drain"] /\ UNCHANGED asleep
  /\ UNCHANGED <<queue, idle, pending, shutdown, task, cur>>

GroupCheck(c) ==
  /\ pc[c] = "groupwait" /\ c \notin asleep
  /\ IF pending > 0 THEN asleep' = asleep \cup {c} /\ UNCHANGED pc
     ELSE pc' = [pc EXCEPT ![c] = "drain"] /\ UNCHANGED asleep
  /\ UNCHANGED <<queue, idle, pending, shutdown, task, cur>>

Free(ts) ==
  /\ state' = [t \in Tasks |-> IF t \in ts THEN "free" ELSE state[t]]
  /\ ran' = [t \in Tasks |-> IF t \in ts THEN 0 ELSE ran[t]] /\ noted' = noted \ ts

(* drain_done frees one finished task after the other. *)
Drain(c) ==
  /\ pc[c] = "drain"
  /\ IF done = <<>> THEN pc' = [pc EXCEPT ![c] = "idle"] /\ UNCHANGED <<done, state, noted, ran>>
     ELSE done' = Tail(done) /\ Free({Head(done)}) /\ UNCHANGED pc
  /\ UNCHANGED <<shared, cur>>

(* xTaskGroupDestroy, when no other call is in progress: wake everybody,   *)
(* join, and free what is left.                                            *)
Shutdown(c) ==
  /\ At(c, "idle", "join") /\ ~shutdown /\ Quiet /\ Using = {}
  /\ shutdown' = TRUE /\ asleep' = asleep \ Workers
  /\ UNCHANGED <<queue, idle, pending, task, cur>>

Join(c) ==
  /\ At(c, "join", "gone") /\ \A w \in Started : pc[w] = "exit"
  /\ queue' = <<>> /\ done' = <<>> /\ Free(Tasks)
  /\ UNCHANGED <<idle, pending, shutdown, asleep, cur>>

-------------------------------------------------------------------------------
WorkerStep(w) ==
  Fetch(w) \/ Claim(w) \/ Finish(w) \/ Push(w) \/ Note(w) \/ Count(w) \/ Wake(w)
ClientStep(c) == Waited(c) \/ GroupCheck(c) \/ Drain(c) \/ Join(c)
Call(c) ==
  \/ \E t \in Tasks : Cancel(c, t) \/ WaitTask(c, t)
  \/ Submit(c) \/ GroupWait(c) \/ Shutdown(c)
Next ==
  \/ \E w \in Workers : WorkerStep(w)
  \/ \E c \in Clients : ClientStep(c) \/ Call(c)

(* Threads run and functions return; nobody has to call anything. *)
Fairness ==
  /\ \A w \in Workers : WF_vars(WorkerStep(w))
  /\ \A c \in Clients : WF_vars(ClientStep(c))
Spec == Init /\ [][Next]_vars /\ Fairness
-------------------------------------------------------------------------------
Held == {cur[p] : p \in Threads} \ {None}
InQueue == {queue[i] : i \in DOMAIN queue}
Finished == {done[i] : i \in DOMAIN done}

(* The two counters say what they are read for: the workers that wait for  *)
(* work, and the tasks that are not yet counted as finished.               *)
TypeOK ==
  /\ asleep \subseteq Threads /\ noted \subseteq Tasks
  /\ state \in [Tasks -> {"free", "QUEUED", "RUNNING", "DONE", "CANCELLED"}]
  /\ idle = Cardinality({w \in Workers : pc[w] = "woken"})
  /\ pending = Cardinality(InQueue) + Cardinality({w \in Workers : cur[w] # None})
               \/ \E c \in Clients : pc[c] = "gone"

(* No thread holds, and no list links, a task whose memory was given back. *)
NoUseAfterFree ==
  \A t \in Held \cup InQueue \cup Finished : state[t] # "free"

(* The group's counters and its tasks, between any two steps. *)
GroupInv == TypeOK /\ NoUseAfterFree

(* While a worker sleeps, every queued task has a worker that is awake and *)
(* on its way to the queue: no signal of a submit is lost.                 *)
NobodyOversleeps ==
  asleep \cap Workers # {} =>
    Len(queue) <= Cardinality({w \in Workers \ asleep : pc[w] \in {"loop", "woken"}})

(* A task whose cancel succeeded is never called, so its argument may be   *)
(* released at once, and no task is called twice.                          *)
CancelHonest ==
  [][\A t \in Tasks :
       /\ state[t] = "CANCELLED" => state'[t] \in {"CANCELLED", "free"} /\ ran'[t] = 0
       /\ ran'[t] <= 1]_vars

(* As long as one thread could be spawned, queued tasks settle, and the    *)
(* calls that wait for them return.                                        *)
CallsReturn ==
  /\ \A t \in Tasks : t \in InQueue /\ Started # {} ~> t \in noted
  /\ \A c \in Clients :
       pc[c] \in {"wait", "groupwait", "drain", "join"} /\ Started # {} ~>
         pc[c] \in {"idle", "gone"}
=============================================================================
