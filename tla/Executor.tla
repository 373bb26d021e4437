------------------------------ MODULE Executor ------------------------------
(***************************************************************************)
(* Spawned tasks of libx++ (xpp/runtime): how a runner claims, polls and   *)
(* settles a task (worker_main, and run_local_task of the current-thread   *)
(* flavour), how its handle joins or detaches it (SpawnTaskBase,           *)
(* JoinPromiseNode) and how block_on drives the main future.  One step per *)
(* shared access of a task.                                                *)
(*                                                                         *)
(* A future may spawn its kid at its first poll, join it through the       *)
(* handle or drop the handle, then wait for an event that some thread      *)
(* delivers.  The queues are one bag: a worker takes from its own queue,   *)
(* from the global one and from the others'.                               *)
(***************************************************************************)
EXTENDS Naturals, FiniteSets

CONSTANTS Runners, Tasks, Main, None,
  Kid,            \* per future: the task it spawns, or None
  MainOnRunner,   \* the current-thread flavour: one thread does both
  MainRepolls,    \* main is a bare handle, not a coroutine that awaits it
  MayDrop         \* handles may be dropped

ASSUME KidAssumption ==
  /\ Main \notin Tasks /\ None \notin Tasks \cup {Main}
  /\ Kid \in [Tasks \cup {Main} -> Tasks \cup {None}]
  /\ \A f, g \in DOMAIN Kid : Kid[f] = Kid[g] /\ Kid[f] # None => f = g
  /\ \A f \in DOMAIN Kid : Kid[f] # f
ASSUME FlavourAssumption ==
  /\ {MainOnRunner, MainRepolls, MayDrop} \subseteq BOOLEAN
  /\ Main \notin Runners /\ (MainOnRunner => Cardinality(Runners) = 1)

VARIABLES
  state,    \* per task: state, or unborn
  resolved, \* per task: m_resolved
  join,     \* per task: m_join_state; Stored with the spawner's waker
  held,     \* per task: its JoinPromiseNode exists
  alive,    \* per task: not deleted yet
  stage,    \* per future: start, join, event or end of its node
  event,    \* per task: idle, armed (waker registered) or fired
  ready,    \* per task: its entries in the run queues
  step, cur, \* per thread: the step it is at, the future it polls
  prev,     \* per runner: what its exchange of the state returned
  fired     \* block_on's flag: main's waker was fired

task     == <<state, resolved, join, held, alive>>
thread   == <<step, cur, prev>>
taskVars == <<task, stage, event, ready, thread, fired>>

Futures == Tasks \cup {Main}
Pollers == Runners \cup {Main}
Spawner(t) == CHOOSE f \in Futures : Kid[f] = t

TasksInit ==
  /\ state = [t \in Tasks |-> "unborn"] /\ resolved = [t \in Tasks |-> FALSE]
  /\ join = [t \in Tasks |-> "Empty"] /\ held = [t \in Tasks |-> FALSE]
  /\ alive = [t \in Tasks |-> FALSE]
  /\ stage = [f \in Futures |-> "start"] /\ event = [t \in Tasks |-> "idle"]
  /\ ready = [t \in Tasks |-> 0]
  /\ step = [p \in Pollers |-> "idle"] /\ cur = [p \in Pollers |-> None]
  /\ prev = [r \in Runners |-> "unborn"] /\ fired = TRUE

Goes(p, from, to) == step[p] = from /\ step' = [step EXCEPT ![p] = to]

(* Waker::wake: a task is queued again, main's flag is set. *)
Wake(f) ==
  IF f = Main THEN fired' = TRUE /\ UNCHANGED ready
  ELSE ready' = [ready EXCEPT ![f] = @ + 1] /\ UNCHANGED fired

-------------------------------------------------------------------------------
(* The thread of the current-thread flavour is in the drive loop of        *)
(* block_on and not inside main.                                           *)
Driven == MainOnRunner => step[Main] = "idle" /\ stage[Main] # "end"

(* Pop an entry.  Only a Pending or Detached task is claimed, an entry of  *)
(* any other one is thrown away.                                           *)
Claim(r, t) ==
  /\ step[r] = "idle" /\ ready[t] > 0 /\ Driven
  /\ ready' = [ready EXCEPT ![t] = @ - 1]
  /\ IF state[t] \in {"Pending", "Detached"}
     THEN /\ state' = [state EXCEPT ![t] = "Running"]
          /\ step' = [step EXCEPT ![r] = "poll"] /\ cur' = [cur EXCEPT ![r] = t]
     ELSE UNCHANGED <<state, step, cur>>
  /\ UNCHANGED <<resolved, join, held, alive, stage, event, prev, fired>>

(* First poll: m_func() spawns the kid and holds its handle. *)
Spawn(p) ==
  LET f == cur[p]
      k == Kid[f]
  IN /\ step[p] = "poll" /\ stage[f] = "start" /\ UNCHANGED thread
     /\ IF k = None
        THEN /\ stage' = [stage EXCEPT ![f] = "event"]
             /\ UNCHANGED <<state, held, alive, ready>>
        ELSE /\ stage' = [stage EXCEPT ![f] = "join"]
             /\ state' = [state EXCEPT ![k] = "Pending"]
             /\ held' = [held EXCEPT ![k] = TRUE]
             /\ alive' = [alive EXCEPT ![k] = TRUE] /\ ready' = [ready EXCEPT ![k] = 1]
     /\ UNCHANGED <<resolved, join, event, fired>>

(* Mutant: the task is deleted unless a runner has it. *)
DetachFrees(f) ==
  LET k == Kid[f]
  IN /\ MayDrop /\ stage[f] = "join" /\ held[k]
     /\ state' = [state EXCEPT ![k] = "Detached"]
     /\ alive' = [alive EXCEPT ![k] = alive[k] /\ state[k] = "Running"]
     /\ held' = [held EXCEPT ![k] = FALSE] /\ stage' = [stage EXCEPT ![f] = "event"]
     /\ UNCHANGED <<resolved, join, event, ready, thread>>

(* ~JoinPromiseNode: mark the task detached, delete it if it is done. *)
Detach(f) ==
  LET k == Kid[f]
  IN /\ MayDrop /\ stage[f] = "join" /\ held[k]
     /\ state' = [state EXCEPT ![k] = "Detached"]
     /\ alive' = [alive EXCEPT ![k] = alive[k] /\ state[k] # "Completed"]
     /\ held' = [held EXCEPT ![k] = FALSE] /\ stage' = [stage EXCEPT ![f] = "event"]
     /\ UNCHANGED <<resolved, join, event, ready, thread>>

(* A future drops the handle instead of joining. *)
Drop(p) == step[p] = "poll" /\ Detach(cur[p]) /\ UNCHANGED fired

(* join_poll: m_resolved is the fast path *)
JoinLook(p) ==
  /\ step[p] = "poll" /\ stage[cur[p]] = "join"
  /\ UNCHANGED <<task, stage, event, ready, cur, prev, fired>>
  /\ \/ Goes(p, "poll", "take") /\ resolved[Kid[cur[p]]]
     \/ Goes(p, "poll", "store") /\ ~resolved[Kid[cur[p]]]

(* join_poll: store the waker and swing JoinEmpty to JoinStored; if that   *)
(* fails the task is taken for done.                                       *)
JoinStore(p) ==
  LET k == Kid[cur[p]]
  IN /\ step[p] = "store"
     /\ IF join[k] = "Empty"
        THEN Goes(p, "store", "suspend") /\ join' = [join EXCEPT ![k] = "Stored"]
        ELSE Goes(p, "store", "take") /\ UNCHANGED join
     /\ UNCHANGED <<state, resolved, held, alive, stage, event, ready, cur, prev, fired>>

(* JoinPromiseNode::take: take the value, delete the task. *)
Take(p) ==
  LET f == cur[p]
      k == Kid[f]
  IN /\ Goes(p, "take", "poll")
     /\ alive' = [alive EXCEPT ![k] = FALSE] /\ held' = [held EXCEPT ![k] = FALSE]
     /\ stage' = [stage EXCEPT ![f] = "event"]
     /\ UNCHANGED <<state, resolved, join, event, ready, cur, prev, fired>>

(* The last node: the event has come, or the waker waits for it; a task    *)
(* without one is done as well.  Main only waits for its kid.              *)
PollEvent(p) ==
  LET f == cur[p]
  IN /\ step[p] = "poll" /\ stage[f] = "event"
     /\ \/ /\ Goes(p, "poll", "done") /\ (f # Main => event[f] # "armed")
           /\ stage' = [stage EXCEPT ![f] = "end"] /\ UNCHANGED event
        \/ /\ Goes(p, "poll", "suspend") /\ f # Main /\ event[f] # "fired"
           /\ event' = [event EXCEPT ![f] = "armed"] /\ UNCHANGED stage
     /\ UNCHANGED <<task, ready, cur, prev, fired>>

(* SpawnTask::poll: m_resolved, ahead of everything the runner does next *)
Resolve(r) ==
  /\ Goes(r, "done", "exchange")
  /\ resolved' = [resolved EXCEPT ![cur[r]] = TRUE]
  /\ UNCHANGED <<state, join, held, alive, stage, event, ready, cur, prev, fired>>

(* state.exchange(Completed) *)
Exchange(r) ==
  /\ Goes(r, "exchange", "wake")
  /\ prev' = [prev EXCEPT ![r] = state[cur[r]]]
  /\ state' = [state EXCEPT ![cur[r]] = "Completed"]
  /\ UNCHANGED <<resolved, join, held, alive, stage, event, ready, cur, fired>>

(* Mutant: nobody is woken. *)
WakeNobody(r) ==
  /\ Goes(r, "wake", "free")
  /\ join' = [join EXCEPT ![cur[r]] = "Woken"]
  /\ UNCHANGED <<state, resolved, held, alive, stage, event, ready, cur, prev, fired>>

(* wake_join: JoinEmpty to JoinWoken, or fire the stored waker *)
WakeJoin(r) ==
  /\ Goes(r, "wake", "free")
  /\ IF join[cur[r]] = "Empty"
     THEN join' = [join EXCEPT ![cur[r]] = "Woken"] /\ UNCHANGED <<ready, fired>>
     ELSE Wake(Spawner(cur[r])) /\ UNCHANGED join
  /\ UNCHANGED <<state, resolved, held, alive, stage, event, cur, prev>>

(* A task that was detached while it ran is deleted (posted to the loop). *)
Free(r) ==
  /\ Goes(r, "free", "idle")
  /\ alive' = [alive EXCEPT ![cur[r]] = alive[cur[r]] /\ prev[r] # "Detached"]
  /\ cur' = [cur EXCEPT ![r] = None]
  /\ UNCHANGED <<state, resolved, join, held, stage, event, ready, prev, fired>>

(* Not ready: state.store(Pending) *)
Suspend(r) ==
  /\ Goes(r, "suspend", "idle")
  /\ state' = [state EXCEPT ![cur[r]] = "Pending"]
  /\ cur' = [cur EXCEPT ![r] = None]
  /\ UNCHANGED <<resolved, join, held, alive, stage, event, ready, prev, fired>>

-------------------------------------------------------------------------------
(* block_on: poll main at the start and when it was woken; the thread of   *)
(* the current-thread flavour does so between two tasks, and polls a bare  *)
(* handle again after every drain of the queue.                            *)
MainPoll ==
  /\ Goes(Main, "idle", "poll") /\ stage[Main] # "end"
  /\ fired \/ (MainRepolls /\ \A t \in Tasks : ready[t] = 0)
  /\ MainOnRunner => \A r \in Runners : step[r] = "idle"
  /\ cur' = [cur EXCEPT ![Main] = Main] /\ fired' = FALSE
  /\ UNCHANGED <<task, stage, event, ready, prev>>

(* Not ready: park until woken; ready: return. *)
MainRests ==
  /\ \/ Goes(Main, "suspend", "idle")
     \/ Goes(Main, "done", "idle")
  /\ UNCHANGED <<task, stage, event, ready, cur, prev, fired>>

(* Main gives up the handle it waits for; whatever made it do so has woken *)
(* it.                                                                     *)
MainDrop ==
  /\ step[Main] = "idle" /\ Detach(Main) /\ fired' = TRUE
  /\ MainOnRunner => \A r \in Runners : step[r] = "idle"

(* The event arrives, on any thread: a registered waker is fired. *)
EventFires(t) ==
  /\ state[t] # "unborn" /\ stage[t] # "end" /\ event[t] # "fired"
  /\ event' = [event EXCEPT ![t] = "fired"]
  /\ IF event[t] = "armed" THEN Wake(t) ELSE UNCHANGED <<ready, fired>>
  /\ UNCHANGED <<task, stage, thread>>

-------------------------------------------------------------------------------
Poll(p) == Spawn(p) \/ Drop(p) \/ JoinLook(p) \/ JoinStore(p) \/ Take(p) \/ PollEvent(p)
Settle(r) == Resolve(r) \/ Exchange(r) \/ WakeJoin(r) \/ Free(r) \/ Suspend(r)
RunnerStep(r) == Poll(r) \/ Settle(r) \/ \E t \in Tasks : Claim(r, t)
MainStep == MainPoll \/ Poll(Main) \/ MainRests

TasksNext ==
  \/ \E r \in Runners : RunnerStep(r)
  \/ MainStep \/ MainDrop
  \/ \E t \in Tasks : EventFires(t)

TasksSpec == TasksInit /\ [][TasksNext]_taskVars

(* Threads keep running and events arrive; nobody has to drop a handle. *)
Fairness ==
  /\ \A r \in Runners : WF_taskVars(RunnerStep(r))
  /\ WF_taskVars(MainStep)
  /\ \A t \in Tasks : WF_taskVars(EventFires(t))

FairSpec == TasksSpec /\ Fairness

-------------------------------------------------------------------------------
(* Every word holds a value of its type (promise_node.h:112-123). *)
TasksTypeOK ==
  /\ state \in [Tasks -> {"unborn", "Pending", "Running", "Completed", "Detached"}]
  /\ resolved \in [Tasks -> BOOLEAN] /\ held \in [Tasks -> BOOLEAN]
  /\ join \in [Tasks -> {"Empty", "Stored", "Woken"}]
  /\ alive \in [Tasks -> BOOLEAN]
  /\ stage \in [Futures -> {"start", "join", "event", "end"}]
  /\ event \in [Tasks -> {"idle", "armed", "fired"}]
  /\ ready \in [Tasks -> Nat]
  /\ step \in [Pollers -> {"idle", "poll", "store", "take", "suspend", "done",
                         "exchange", "wake", "free"}]
  /\ cur \in [Pollers -> Futures \cup {None}]
  /\ \A r \in Runners : step[r] # "idle" => cur[r] \in Tasks
  /\ prev \in [Runners -> {"unborn", "Running", "Detached"}]
  /\ fired \in BOOLEAN

(* Nobody touches a task that was deleted: not the runner that settles it, *)
(* not a joiner, not an entry of a queue, not an event (task.h:96-102).    *)
NoUseAfterFree ==
  /\ \A r \in Runners : step[r] # "idle" => alive[cur[r]]
  /\ \A p \in Pollers : step[p] \in {"store", "take"} => alive[Kid[cur[p]]]
  /\ \A t \in Tasks : ready[t] > 0 \/ (event[t] = "armed" /\ stage[t] # "end") => alive[t]

(* One runner at a time polls a task (Pending or Detached to Running).     *)
OnePoller == \A q, r \in Runners : step[q] # "idle" /\ cur[q] = cur[r] => q = r

(* A value is taken from a task that has one (task.h:64): join_poll says   *)
(* true only of a resolved task (promise_node.h:132).                      *)
TakesDone == \A p \in Pollers : step[p] = "take" => resolved[Kid[cur[p]]]

(* Who may touch a task, and when its value is there. *)
TaskInv == TasksTypeOK /\ NoUseAfterFree /\ TakesDone

(* A detached task runs to completion and then deletes itself              *)
(* (task.h:75-77).                                                         *)
DetachedIsFreed == \A t \in Tasks :
  state[t] = "Completed" /\ alive[t] =>
    held[t] \/ \E r \in Runners : step[r] # "idle" /\ cur[r] = t

(* Every spawned task runs to completion, no wake of it is lost            *)
(* (promise_node.h:226); when block_on of the current-thread flavour has   *)
(* returned, nothing is run any more.                                      *)
EveryTaskCompletes == \A t \in Tasks :
  state[t] # "unborn" ~> resolved[t] \/ (MainOnRunner /\ stage[Main] = "end")

(* block_on returns: main's waker is fired or the join sees the end        *)
(* (promise_node.h:147-151).                                               *)
MainReturns == <>(stage[Main] = "end")

(* Every future comes to its end, the spawned ones and main. *)
Progress == EveryTaskCompletes /\ MainReturns
===============================================================================
