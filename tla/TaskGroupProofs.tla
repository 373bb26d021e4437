-------------------------- MODULE TaskGroupProofs ---------------------------
(***************************************************************************)
(* The thread pool's counters are right, no signal of a submit is lost and *)
(* a cancel is honest, for any number of workers, callers and tasks; and   *)
(* among callers that keep the discipline nobody touches a freed task.     *)
(***************************************************************************)
EXTENDS TaskGroup, FiniteSetTheorems, SequenceTheorems, TLAPS

Owns == {"claim", "run", "push"}      \* the worker's task is in no list
Has  == Owns \cup {"note", "count"}
WorkerSteps == Has \cup {"unborn", "loop", "woken", "wake", "exit"}
ClientSteps == {"idle", "wait", "groupwait", "drain", "join", "gone"}
States == {"free", "QUEUED", "RUNNING", "DONE", "CANCELLED"}

Woken   == {w \in Workers : pc[w] = "woken"}
Holding == {w \in Workers : cur[w] # None}
Awake   == {w \in Workers \ asleep : pc[w] \in {"loop", "woken"}}

Typed ==
  /\ queue \in Seq(Tasks) /\ done \in Seq(Tasks) /\ idle \in Int /\ pending \in Int
  /\ shutdown \in BOOLEAN /\ asleep \subseteq Threads /\ noted \subseteq Tasks
  /\ state \in [Tasks -> States] /\ ran \in [Tasks -> Int]

(* What a thread has in its hands goes with its step. *)
Stepped ==
  /\ pc \in [Threads -> WorkerSteps \cup ClientSteps] /\ cur \in [Threads -> Tasks \cup {None}]
  /\ \A w \in Workers : pc[w] \in WorkerSteps /\ (cur[w] # None <=> pc[w] \in Has)
  /\ \A c \in Clients : pc[c] \in ClientSteps /\ (cur[c] # None <=> pc[c] = "wait")

(* Who sleeps, and that nobody does once the group is shut down. *)
Sleepers ==
  /\ \A w \in asleep \cap Workers : pc[w] = "woken"
  /\ \A c \in asleep \cap Clients : pc[c] = "groupwait"
  /\ shutdown => asleep \cap Workers = {}

Once(s) == \A i, j \in DOMAIN s : s[i] = s[j] => i = j

(* A task is queued, owned by a worker or on the list of finished tasks. *)
Lists ==
  /\ Once(queue) /\ Once(done) /\ IsFiniteSet(InQueue)
  /\ \A t \in InQueue : state[t] \in {"QUEUED", "CANCELLED"} /\ t \notin Finished
  /\ \A t \in Finished : state[t] \in {"DONE", "CANCELLED"}

Owners ==
  /\ \A w \in Workers :
       /\ pc[w] \in Owns => cur[w] \notin InQueue \cup Finished
       /\ pc[w] = "claim" => state[cur[w]] \in {"QUEUED", "CANCELLED"}
       /\ pc[w] = "run" => state[cur[w]] = "RUNNING"
       /\ pc[w] = "push" => state[cur[w]] \in {"DONE", "CANCELLED"}
  /\ \A v, w \in Workers : pc[v] \in Owns /\ pc[w] \in Owns /\ cur[v] = cur[w] => v = w

Calls == \A t \in Tasks : ran[t] = IF state[t] \in {"RUNNING", "DONE"} THEN 1 ELSE 0

Idle == idle = Cardinality(Woken)
Pending == (\E c \in Clients : pc[c] = "gone")
           \/ pending = Cardinality(InQueue) + Cardinality(Holding)

Enough == asleep \cap Workers # {} => Len(queue) <= Cardinality(Awake)

(* The caller of xTaskGroupDestroy is alone. *)
Ending ==
  /\ shutdown => \A c \in Clients : pc[c] \notin {"wait", "groupwait", "drain"}
  /\ \A c \in Clients : pc[c] \in {"join", "gone"} =>
       shutdown /\ \A d \in Clients : pc[d] \in {"join", "gone"} => c = d
  /\ \A c \in Clients : pc[c] = "gone" =>
       queue = <<>> /\ done = <<>> /\ \A w \in Workers : pc[w] \in {"unborn", "exit"}

(* With discipline: whoever waits for the group is alone and finds nothing *)
(* pending, so that what is freed is in nobody's hands.                    *)
Kept ==
  /\ \A p \in Threads : cur[p] # None => state[cur[p]] # "free"
  /\ \A c, d \in Clients :
       pc[c] \in {"groupwait", "drain"} /\ pc[d] \in {"wait", "groupwait", "drain"} => c = d
  /\ \A c \in Clients : pc[c] = "drain" => InQueue = {} /\ Holding = {}

Inv == /\ Typed /\ Stepped /\ Sleepers /\ Lists /\ Owners /\ Calls /\ Idle /\ Pending
       /\ Enough /\ Ending /\ (Disciplined => Kept)

-------------------------------------------------------------------------------
Elems(s) == {s[i] : i \in DOMAIN s}

LEMMA ListAppend ==
  ASSUME NEW S, NEW s \in Seq(S), NEW x \in S
  PROVE  /\ Append(s, x) \in Seq(S) /\ Len(Append(s, x)) = Len(s) + 1
         /\ Elems(Append(s, x)) = Elems(s) \cup {x}
         /\ Once(s) /\ x \notin Elems(s) => Once(Append(s, x))
<1>1. /\ Append(s, x) \in Seq(S) /\ Len(Append(s, x)) = Len(s) + 1
      /\ \A i \in 1..Len(s) : Append(s, x)[i] = s[i]
      /\ Append(s, x)[Len(s) + 1] = x
  BY AppendProperties
<1>2. DOMAIN s = 1..Len(s) /\ DOMAIN Append(s, x) = 1..(Len(s) + 1) /\ Len(s) \in Nat
  BY <1>1, LenProperties
<1>3. Elems(Append(s, x)) = Elems(s) \cup {x}
  BY <1>1, <1>2 DEF Elems
<1>4. ASSUME Once(s), x \notin Elems(s) PROVE Once(Append(s, x))
  BY <1>1, <1>2, <1>4 DEF Elems, Once
<1> QED BY <1>1, <1>3, <1>4

LEMMA ListTail ==
  ASSUME NEW S, NEW s \in Seq(S), s # <<>>
  PROVE  /\ Tail(s) \in Seq(S) /\ Len(Tail(s)) = Len(s) - 1 /\ Len(s) \in Nat
         /\ Head(s) \in S /\ Head(s) \in Elems(s) /\ Elems(Tail(s)) \subseteq Elems(s)
         /\ Once(s) => Once(Tail(s)) /\ Elems(Tail(s)) = Elems(s) \ {Head(s)}
<1>1. /\ Tail(s) \in Seq(S) /\ Head(s) \in S /\ Len(Tail(s)) = Len(s) - 1
      /\ \A i \in 1..Len(Tail(s)) : Tail(s)[i] = s[i + 1]
  BY HeadTailProperties
<1>2. /\ DOMAIN s = 1..Len(s) /\ DOMAIN Tail(s) = 1..(Len(s) - 1) /\ Len(s) \in Nat \ {0}
      /\ Head(s) = s[1]
  BY <1>1, LenProperties, EmptySeq
<1>3. Head(s) \in Elems(s) /\ Elems(Tail(s)) \subseteq Elems(s)
  BY <1>1, <1>2 DEF Elems
<1>4. ASSUME Once(s) PROVE Once(Tail(s))
  BY <1>1, <1>2, <1>4 DEF Once
<1>5. ASSUME Once(s) PROVE Elems(Tail(s)) = Elems(s) \ {Head(s)}
  <2>1. Elems(Tail(s)) \subseteq Elems(s) \ {Head(s)}
    BY <1>1, <1>2, <1>5 DEF Elems, Once
  <2>2. ASSUME NEW i \in DOMAIN s, s[i] # Head(s) PROVE s[i] \in Elems(Tail(s))
    <3>1. i - 1 \in DOMAIN Tail(s) /\ Tail(s)[i - 1] = s[i]
      BY <1>1, <1>2, <2>2
    <3> QED BY <3>1 DEF Elems
  <2> QED BY <2>1, <2>2 DEF Elems
<1> QED BY <1>1, <1>2, <1>3, <1>4, <1>5

(* Sets of workers, and what one worker more or less does to their number. *)
LEMMA Finite ==
  /\ IsFiniteSet(Woken) /\ IsFiniteSet(Holding) /\ IsFiniteSet(Awake)
  /\ Cardinality(Woken) \in Nat /\ Cardinality(Holding) \in Nat /\ Cardinality(Awake) \in Nat
<1>1. Woken \in SUBSET Workers /\ Holding \in SUBSET Workers /\ Awake \in SUBSET Workers
  BY DEF Woken, Holding, Awake
<1> QED BY <1>1, FS_Subset, FS_CardinalityType, TaskGroupAssumption

LEMMA More ==
  ASSUME NEW S, NEW T, NEW x, IsFiniteSet(S), x \notin S, T = S \cup {x}
  PROVE  IsFiniteSet(T) /\ Cardinality(T) = Cardinality(S) + 1
BY FS_AddElement

LEMMA Less ==
  ASSUME NEW S, NEW T, NEW x, IsFiniteSet(S), x \in S, T = S \ {x}
  PROVE  IsFiniteSet(T) /\ Cardinality(T) = Cardinality(S) - 1
BY FS_RemoveElement

-------------------------------------------------------------------------------
LEMMA InitInv == Init => Inv
<1> SUFFICES ASSUME Init PROVE Inv
  OBVIOUS
<1>0. /\ \A w \in Workers : pc[w] = "unborn" /\ cur[w] = None
      /\ \A c \in Clients : pc[c] = "idle" /\ cur[c] = None
  BY TaskGroupAssumption DEF Init, Threads
<1>1. Typed
  <2>1. queue \in Seq(Tasks) /\ done \in Seq(Tasks)
    BY EmptySeq DEF Init
  <2>2. state \in [Tasks -> States] /\ ran \in [Tasks -> Int]
    BY DEF Init, States
  <2>3. idle \in Int /\ pending \in Int
    BY DEF Init
  <2>6. shutdown \in BOOLEAN
    BY Zenon DEF Init
  <2>4. asleep = {} /\ noted = {}
    BY DEF Init
  <2>5. asleep \subseteq Threads /\ noted \subseteq Tasks
    BY <2>4
  <2> QED BY <2>1, <2>2, <2>3, <2>5, <2>6 DEF Typed
<1>3. Stepped
  <2>1. pc \in [Threads -> WorkerSteps \cup ClientSteps] /\ cur \in [Threads -> Tasks \cup {None}]
    BY DEF Init, Threads, WorkerSteps, ClientSteps
  <2>3. "unborn" \in WorkerSteps /\ "unborn" \notin Has /\ "idle" \in ClientSteps /\ "idle" # "wait"
    BY DEF WorkerSteps, ClientSteps, Has, Owns
  <2> QED BY <1>0, <2>1, <2>3 DEF Stepped
<1>2. InQueue = {} /\ Finished = {} /\ Woken = {} /\ Holding = {}
  BY TaskGroupAssumption DEF Init, InQueue, Finished, Woken, Holding, Threads
<1>6. Sleepers /\ Owners /\ Calls /\ Enough /\ Ending /\ Kept
  BY <1>0, <1>1, <1>2, TaskGroupAssumption
     DEF Init, Sleepers, Owners, Calls, Enough, Ending, Kept, Threads, Owns, Has
<1>4. Lists
  BY <1>2, FS_EmptySet DEF Init, Lists, Once
<1>5. Idle /\ Pending
  BY <1>2, FS_EmptySet DEF Init, Idle, Pending
<1> QED BY <1>1, <1>3, <1>4, <1>5, <1>6 DEF Inv

(* A worker moves, and holds something else; a worker or a client moves on. *)
LEMMA WorkerMoves ==
  ASSUME Stepped, NEW w \in Workers, NEW x \in WorkerSteps, NEW t \in Tasks \cup {None},
         x \in Has <=> t # None,
         pc' = [pc EXCEPT ![w] = x], cur' = [cur EXCEPT ![w] = t]
  PROVE  /\ Stepped' /\ pc'[w] = x /\ cur'[w] = t
         /\ \A v \in Workers \ {w} : pc'[v] = pc[v] /\ cur'[v] = cur[v]
         /\ \A c \in Clients : pc'[c] = pc[c] /\ cur'[c] = cur[c]
<1>1. w \in Threads /\ w \notin Clients
  BY TaskGroupAssumption DEF Threads
<1>2. /\ pc' \in [Threads -> WorkerSteps \cup ClientSteps] /\ cur' \in [Threads -> Tasks \cup {None}]
      /\ pc'[w] = x /\ cur'[w] = t
      /\ \A p \in Threads \ {w} : pc'[p] = pc[p] /\ cur'[p] = cur[p]
  BY <1>1 DEF Stepped
<1> QED BY <1>1, <1>2 DEF Stepped, Threads

LEMMA WorkerGoesOn ==
  ASSUME Stepped, NEW w \in Workers, NEW x \in WorkerSteps, x \in Has <=> pc[w] \in Has,
         pc' = [pc EXCEPT ![w] = x], cur' = cur
  PROVE  /\ Stepped' /\ pc'[w] = x
         /\ \A v \in Workers \ {w} : pc'[v] = pc[v]
         /\ \A c \in Clients : pc'[c] = pc[c]
<1>1. w \in Threads /\ w \notin Clients
  BY TaskGroupAssumption DEF Threads
<1>2. /\ pc' \in [Threads -> WorkerSteps \cup ClientSteps] /\ pc'[w] = x
      /\ \A p \in Threads \ {w} : pc'[p] = pc[p]
  BY <1>1 DEF Stepped
<1> QED BY <1>1, <1>2 DEF Stepped, Threads

LEMMA ClientMoves ==
  ASSUME Stepped, NEW c \in Clients, NEW x \in ClientSteps, NEW t \in Tasks \cup {None},
         x = "wait" <=> t # None,
         pc' = [pc EXCEPT ![c] = x], cur' = [cur EXCEPT ![c] = t]
  PROVE  /\ Stepped' /\ pc'[c] = x /\ cur'[c] = t
         /\ \A d \in Clients \ {c} : pc'[d] = pc[d] /\ cur'[d] = cur[d]
         /\ \A w \in Workers : pc'[w] = pc[w] /\ cur'[w] = cur[w]
<1>1. c \in Threads /\ c \notin Workers
  BY TaskGroupAssumption DEF Threads
<1>2. /\ pc' \in [Threads -> WorkerSteps \cup ClientSteps] /\ cur' \in [Threads -> Tasks \cup {None}]
      /\ pc'[c] = x /\ cur'[c] = t
      /\ \A p \in Threads \ {c} : pc'[p] = pc[p] /\ cur'[p] = cur[p]
  BY <1>1 DEF Stepped
<1> QED BY <1>1, <1>2 DEF Stepped, Threads

LEMMA ClientGoesOn ==
  ASSUME Stepped, NEW c \in Clients, NEW x \in ClientSteps, x # "wait", pc[c] # "wait",
         pc' = [pc EXCEPT ![c] = x], cur' = cur
  PROVE  /\ Stepped' /\ pc'[c] = x
         /\ \A d \in Clients \ {c} : pc'[d] = pc[d]
         /\ \A w \in Workers : pc'[w] = pc[w]
<1>1. c \in Threads /\ c \notin Workers
  BY TaskGroupAssumption DEF Threads
<1>2. /\ pc' \in [Threads -> WorkerSteps \cup ClientSteps] /\ pc'[c] = x
      /\ \A p \in Threads \ {c} : pc'[p] = pc[p]
  BY <1>1 DEF Stepped
<1> QED BY <1>1, <1>2 DEF Stepped, Threads

LEMMA InTasks ==
  ASSUME Typed
  PROVE  InQueue \subseteq Tasks /\ Finished \subseteq Tasks
BY DEF Typed, InQueue, Finished

(* What the lists, the workers' tasks and the calls say when no list and no *)
(* task's state changes.                                                    *)
LEMMA SameLists ==
  ASSUME Lists, Calls, UNCHANGED <<queue, done, state, ran>>
  PROVE  Lists' /\ Calls' /\ InQueue' = InQueue /\ Finished' = Finished
BY DEF Lists, Calls, InQueue, Finished

-------------------------------------------------------------------------------
LEMMA SleepInv ==
  ASSUME Inv, NEW w \in Workers, w \notin asleep, NEW counted, NEW from,
         \/ from = "loop" /\ counted = 0
         \/ from = "woken" /\ counted = 1,
         Sleep(w, from, counted)
  PROVE  Inv'
<1> USE DEF Inv
<1>0. /\ pc[w] = from /\ pc' = [pc EXCEPT ![w] = "woken"] /\ cur' = cur
      /\ queue = <<>> /\ ~shutdown /\ asleep' = asleep \cup {w} /\ idle' = idle + 1 - counted
      /\ UNCHANGED <<queue, pending, shutdown, done, state, noted, ran>>
      /\ "woken" \in WorkerSteps /\ "woken" \notin Has /\ from \notin Has
  BY DEF Sleep, At, task, WorkerSteps, Has, Owns
<1>1. Stepped' /\ pc'[w] = "woken" /\ (\A v \in Workers \ {w} : pc'[v] = pc[v])
      /\ \A c \in Clients : pc'[c] = pc[c]
  BY <1>0, WorkerGoesOn
<1>2. Lists' /\ Calls' /\ InQueue' = InQueue /\ Finished' = Finished /\ Holding' = Holding
  BY <1>0, SameLists DEF Holding
<1>3. Typed'
  BY <1>0 DEF Typed, Threads
<1>4. Sleepers'
  BY <1>0, <1>1, TaskGroupAssumption DEF Sleepers
<1>5. Owners'
  BY <1>0, <1>1, <1>2 DEF Owners, Owns
<1>6. Idle'
  <2>1. CASE from = "loop"
    <3>1. w \notin Woken /\ Woken' = Woken \cup {w}
      BY <1>0, <1>1, <2>1 DEF Woken
    <3>2. Cardinality(Woken') = Cardinality(Woken) + 1
      BY <3>1, Finite, More
    <3> QED BY <1>0, <2>1, <3>2, Finite DEF Idle
  <2>2. CASE from = "woken"
    <3>1. Woken' = Woken
      BY <1>0, <1>1, <2>2 DEF Woken
    <3> QED BY <1>0, <2>2, <3>1 DEF Idle, Typed
  <2> QED BY <2>1, <2>2
<1>7. Pending'
  BY <1>0, <1>1, <1>2 DEF Pending
<1>8. Enough'
  <2>1. Awake' \in SUBSET Workers
    BY DEF Awake
  <2>2. Cardinality(Awake') \in Nat /\ Len(queue') = 0
    BY <1>0, <2>1, FS_Subset, FS_CardinalityType, TaskGroupAssumption
  <2> QED BY <2>2 DEF Enough
<1>9. Ending'
  BY <1>0, <1>1 DEF Ending
<1>10. Disciplined => Kept'
  BY <1>0, <1>1, <1>2 DEF Kept
<1> QED BY <1>1, <1>2, <1>3, <1>4, <1>5, <1>6, <1>7, <1>8, <1>9, <1>10

LEMMA LeaveInv ==
  ASSUME Inv, NEW w \in Workers, w \notin asleep, NEW counted, NEW from,
         \/ from = "loop" /\ counted = 0
         \/ from = "woken" /\ counted = 1,
         Leave(w, from, counted)
  PROVE  Inv'
<1> USE DEF Inv
<1>0. /\ pc[w] = from /\ pc' = [pc EXCEPT ![w] = "exit"] /\ cur' = cur
      /\ shutdown /\ idle' = idle - counted
      /\ UNCHANGED <<queue, pending, shutdown, asleep, done, state, noted, ran>>
      /\ "exit" \in WorkerSteps /\ "exit" \notin Has /\ from \notin Has
  BY DEF Leave, At, task, WorkerSteps, Has, Owns
<1>1. Stepped' /\ pc'[w] = "exit" /\ (\A v \in Workers \ {w} : pc'[v] = pc[v])
      /\ \A c \in Clients : pc'[c] = pc[c]
  BY <1>0, WorkerGoesOn
<1>2. Lists' /\ Calls' /\ InQueue' = InQueue /\ Finished' = Finished /\ Holding' = Holding
  BY <1>0, SameLists DEF Holding
<1>3. Typed'
  BY <1>0 DEF Typed, Threads
<1>4. Sleepers' /\ Enough'
  BY <1>0, <1>1 DEF Sleepers, Enough
<1>5. Owners'
  BY <1>0, <1>1, <1>2 DEF Owners, Owns
<1>6. Idle'
  <2>1. CASE from = "loop"
    <3>1. Woken' = Woken
      BY <1>0, <1>1, <2>1 DEF Woken
    <3> QED BY <1>0, <2>1, <3>1 DEF Idle, Typed
  <2>2. CASE from = "woken"
    <3>1. w \in Woken /\ Woken' = Woken \ {w}
      BY <1>0, <1>1, <2>2 DEF Woken
    <3>2. Cardinality(Woken') = Cardinality(Woken) - 1
      BY <3>1, Finite, Less
    <3> QED BY <1>0, <2>2, <3>2 DEF Idle
  <2> QED BY <2>1, <2>2
<1>7. Pending'
  BY <1>0, <1>1, <1>2 DEF Pending
<1>8. Ending'
  BY <1>0, <1>1 DEF Ending
<1>9. Disciplined => Kept'
  BY <1>0, <1>1, <1>2 DEF Kept
<1> QED BY <1>1, <1>2, <1>3, <1>4, <1>5, <1>6, <1>7, <1>8, <1>9

LEMMA DequeueInv ==
  ASSUME Inv, NEW w \in Workers, w \notin asleep, NEW counted, NEW from,
         \/ from = "loop" /\ counted = 0
         \/ from = "woken" /\ counted = 1,
         Dequeue(w, from, counted)
  PROVE  Inv'
<1> USE DEF Inv
<1> DEFINE h == Head(queue)
<1>0. /\ pc[w] = from /\ pc' = [pc EXCEPT ![w] = "claim"] /\ cur' = [cur EXCEPT ![w] = h]
      /\ queue # <<>> /\ queue' = Tail(queue) /\ idle' = idle - counted
      /\ UNCHANGED <<pending, shutdown, asleep, done, state, noted, ran>>
      /\ "claim" \in WorkerSteps /\ "claim" \in Has /\ from \notin Has
  BY DEF Dequeue, At, task, WorkerSteps, Has, Owns
<1>1. /\ queue' \in Seq(Tasks) /\ Len(queue') = Len(queue) - 1 /\ Len(queue) \in Nat
      /\ h \in Tasks /\ h \in InQueue /\ Once(queue') /\ InQueue' = InQueue \ {h}
  <2>1. queue \in Seq(Tasks) /\ Once(queue) /\ InQueue = Elems(queue) /\ InQueue' = Elems(queue')
    BY DEF Typed, Lists, Elems, InQueue
  <2> QED BY <1>0, <2>1, ListTail
<1>2. /\ Stepped' /\ pc'[w] = "claim" /\ cur'[w] = h
      /\ \A v \in Workers \ {w} : pc'[v] = pc[v] /\ cur'[v] = cur[v]
      /\ \A c \in Clients : pc'[c] = pc[c] /\ cur'[c] = cur[c]
  BY <1>0, <1>1, WorkerMoves, TaskGroupAssumption
<1>3. Typed' /\ Finished' = Finished
  BY <1>0, <1>1 DEF Typed, Finished
<1>4. Sleepers'
  BY <1>0, <1>2 DEF Sleepers
<1>5. Lists' /\ Calls'
  <2>1. IsFiniteSet(InQueue')
    BY <1>1, FS_Subset DEF Lists
  <2> QED BY <1>0, <1>1, <1>3, <2>1 DEF Lists, Calls
<1>6. Owners'
  BY <1>0, <1>1, <1>2, <1>3 DEF Owners, Owns, Lists
<1>7. Idle'
  <2>1. CASE from = "loop"
    <3>1. Woken' = Woken
      BY <1>0, <1>2, <2>1 DEF Woken
    <3> QED BY <1>0, <2>1, <3>1 DEF Idle, Typed
  <2>2. CASE from = "woken"
    <3>1. w \in Woken /\ Woken' = Woken \ {w}
      BY <1>0, <1>2, <2>2 DEF Woken
    <3>2. Cardinality(Woken') = Cardinality(Woken) - 1
      BY <3>1, Finite, Less
    <3> QED BY <1>0, <2>2, <3>2 DEF Idle
  <2> QED BY <2>1, <2>2
<1>8. Pending'
  <2>1. w \notin Holding /\ Holding' = Holding \cup {w}
    BY <1>0, <1>1, <1>2, TaskGroupAssumption DEF Holding, Stepped
  <2>2. /\ Cardinality(Holding') = Cardinality(Holding) + 1
        /\ Cardinality(InQueue') = Cardinality(InQueue) - 1
    BY <1>1, <2>1, Finite, More, Less DEF Lists
  <2>3. Cardinality(InQueue) \in Nat
    BY FS_CardinalityType DEF Lists
  <2> QED BY <1>0, <1>2, <2>2, <2>3, Finite DEF Pending
<1>9. Enough'
  <2>1. w \in Awake /\ Awake' = Awake \ {w}
    BY <1>0, <1>2 DEF Awake
  <2>2. Cardinality(Awake') = Cardinality(Awake) - 1
    BY <2>1, Finite, Less
  <2> QED BY <1>0, <1>1, <2>2, Finite DEF Enough
<1>10. Ending'
  BY <1>0, <1>2 DEF Ending
<1>11. Disciplined => Kept'
  <2>1. \A p \in Threads : cur'[p] = cur[p] \/ cur'[p] = h
    BY <1>2 DEF Threads
  <2> QED BY <1>0, <1>1, <1>2, <2>1 DEF Kept, Lists, Holding
<1> QED BY <1>2, <1>3, <1>4, <1>5, <1>6, <1>7, <1>8, <1>9, <1>10, <1>11

LEMMA FetchInv ==
  ASSUME Inv, NEW w \in Workers, Fetch(w)
  PROVE  Inv'
<1>1. PICK from \in {"loop", "woken"} :
        LET counted == IF from = "woken" THEN 1 ELSE 0
        IN Sleep(w, from, counted) \/ Leave(w, from, counted) \/ Dequeue(w, from, counted)
  BY DEF Fetch
<1> DEFINE counted == IF from = "woken" THEN 1 ELSE 0
<1>2. /\ w \notin asleep
      /\ \/ from = "loop" /\ counted = 0
         \/ from = "woken" /\ counted = 1
  BY DEF Fetch
<1>3. Sleep(w, from, counted) \/ Leave(w, from, counted) \/ Dequeue(w, from, counted)
  BY <1>1
<1> QED BY <1>2, <1>3, SleepInv, LeaveInv, DequeueInv

LEMMA ClaimInv ==
  ASSUME Inv, NEW w \in Workers, Claim(w)
  PROVE  Inv'
<1> USE DEF Inv
<1> DEFINE t == cur[w]
<1>0. /\ pc[w] = "claim" /\ cur' = cur
      /\ \/ state[t] = "QUEUED" /\ state' = [state EXCEPT ![t] = "RUNNING"]
            /\ ran' = [ran EXCEPT ![t] = @ + 1] /\ pc' = [pc EXCEPT ![w] = "run"]
         \/ state[t] # "QUEUED" /\ UNCHANGED <<state, ran>> /\ pc' = [pc EXCEPT ![w] = "push"]
      /\ UNCHANGED <<queue, idle, pending, shutdown, asleep, done, noted>>
  BY DEF Claim, shared
<1>1. t \in Tasks /\ t \notin InQueue \cup Finished /\ state[t] \in {"QUEUED", "CANCELLED"}
  BY <1>0 DEF Stepped, Owners, Threads, Has, Owns
<1>2. /\ Stepped' /\ pc'[w] \in {"run", "push"}
      /\ \A v \in Workers \ {w} : pc'[v] = pc[v]
      /\ \A c \in Clients : pc'[c] = pc[c]
  <2>1. /\ {"run", "push"} \subseteq WorkerSteps /\ {"run", "push"} \subseteq Has /\ "claim" \in Has
    BY DEF WorkerSteps, Has, Owns
  <2> QED BY <1>0, <2>1, WorkerGoesOn
<1>3. /\ Typed' /\ InQueue' = InQueue /\ Finished' = Finished /\ Holding' = Holding
      /\ \A x \in Tasks \ {t} : state'[x] = state[x] /\ ran'[x] = ran[x]
  <2>1. InQueue' = InQueue /\ Finished' = Finished /\ Holding' = Holding
    BY <1>0 DEF InQueue, Finished, Holding
  <2>2. state' \in [Tasks -> States] /\ ran' \in [Tasks -> Int]
    <3>1. state \in [Tasks -> States] /\ ran \in [Tasks -> Int] /\ "RUNNING" \in States
      BY DEF Typed, States
    <3>2. state' = [state EXCEPT ![t] = "RUNNING"] \/ state' = state
      BY <1>0
    <3>3. ran' = [ran EXCEPT ![t] = @ + 1] \/ ran' = ran
      BY <1>0
    <3> HIDE DEF t
    <3> QED BY <3>1, <3>2, <3>3, <1>1
  <2>3. \A x \in Tasks \ {t} : state'[x] = state[x] /\ ran'[x] = ran[x]
    BY <1>0, <1>1 DEF Typed
  <2> QED BY <1>0, <2>1, <2>2, <2>3 DEF Typed, Threads
<1>4. \/ pc'[w] = "run" /\ state'[t] = "RUNNING" /\ state[t] = "QUEUED" /\ ran'[t] = ran[t] + 1
      \/ pc'[w] = "push" /\ state'[t] = "CANCELLED" /\ state[t] = "CANCELLED" /\ ran'[t] = ran[t]
  BY <1>0, <1>1 DEF Typed, Stepped, Threads
<1>5. Sleepers'
  BY <1>0, <1>2 DEF Sleepers
<1>6. Lists'
  <2>1. InQueue \subseteq Tasks /\ Finished \subseteq Tasks
    BY InTasks
  <2> QED BY <1>0, <1>1, <1>3, <2>1 DEF Lists
<1>7. Calls'
  BY <1>1, <1>3, <1>4 DEF Calls
<1>8. Owners'
  <2>1. \A v \in Workers : pc[v] \in Owns => cur[v] \in Tasks
    BY DEF Stepped, Threads, Has
  <2> QED BY <1>0, <1>1, <1>2, <1>3, <1>4, <2>1 DEF Owners, Owns
<1>9. Idle' /\ Enough'
  <2>1. Woken' = Woken /\ Awake' = Awake
    BY <1>0, <1>2 DEF Woken, Awake
  <2> QED BY <1>0, <2>1 DEF Idle, Enough
<1>10. Pending' /\ Ending'
  BY <1>0, <1>2, <1>3 DEF Pending, Ending
<1>11. Disciplined => Kept'
  <2>1. \A x \in Tasks : state[x] # "free" => state'[x] # "free"
    BY <1>3, <1>4
  <2> QED BY <1>0, <1>2, <1>3, <2>1 DEF Kept, Stepped
<1> QED BY <1>2, <1>3, <1>5, <1>6, <1>7, <1>8, <1>9, <1>10, <1>11

LEMMA FinishInv ==
  ASSUME Inv, NEW w \in Workers, Finish(w)
  PROVE  Inv'
<1> USE DEF Inv
<1> DEFINE t == cur[w]
<1>0. /\ pc[w] = "run" /\ pc' = [pc EXCEPT ![w] = "push"] /\ cur' = cur
      /\ state' = [state EXCEPT ![t] = "DONE"]
      /\ UNCHANGED <<queue, idle, pending, shutdown, asleep, done, noted, ran>>
  BY DEF Finish, At, shared
<1>1. t \in Tasks /\ t \notin InQueue \cup Finished /\ state[t] = "RUNNING"
  BY <1>0 DEF Stepped, Owners, Threads, Has, Owns
<1>2. /\ Stepped' /\ pc'[w] = "push"
      /\ \A v \in Workers \ {w} : pc'[v] = pc[v]
      /\ \A c \in Clients : pc'[c] = pc[c]
  <2>1. "push" \in WorkerSteps /\ "push" \in Has /\ "run" \in Has
    BY DEF WorkerSteps, Has, Owns
  <2> QED BY <1>0, <2>1, WorkerGoesOn
<1>3. /\ Typed' /\ InQueue' = InQueue /\ Finished' = Finished /\ Holding' = Holding
      /\ state'[t] = "DONE" /\ \A x \in Tasks \ {t} : state'[x] = state[x]
  <2>1. InQueue' = InQueue /\ Finished' = Finished /\ Holding' = Holding
    BY <1>0 DEF InQueue, Finished, Holding
  <2>2. /\ state' \in [Tasks -> States] /\ state'[t] = "DONE"
        /\ \A x \in Tasks \ {t} : state'[x] = state[x]
    BY <1>0, <1>1 DEF Typed, States
  <2> QED BY <1>0, <2>1, <2>2 DEF Typed, Threads
<1>5. Sleepers'
  BY <1>0, <1>2 DEF Sleepers
<1>6. Lists' /\ Calls'
  BY <1>0, <1>1, <1>3, InTasks DEF Lists, Calls
<1>8. Owners'
  <2>1. \A v \in Workers : pc[v] \in Owns => cur[v] \in Tasks
    BY DEF Stepped, Threads, Has
  <2> QED BY <1>0, <1>1, <1>2, <1>3, <2>1 DEF Owners, Owns
<1>9. Idle' /\ Enough'
  <2>1. Woken' = Woken /\ Awake' = Awake
    BY <1>0, <1>2 DEF Woken, Awake
  <2> QED BY <1>0, <2>1 DEF Idle, Enough
<1>10. Pending' /\ Ending'
  BY <1>0, <1>2, <1>3 DEF Pending, Ending
<1>11. Disciplined => Kept'
  BY <1>0, <1>2, <1>3 DEF Kept, Stepped
<1> QED BY <1>2, <1>3, <1>5, <1>6, <1>8, <1>9, <1>10, <1>11

LEMMA PushInv ==
  ASSUME Inv, NEW w \in Workers, Push(w)
  PROVE  Inv'
<1> USE DEF Inv
<1> DEFINE t == cur[w]
<1>0. /\ pc[w] = "push" /\ pc' = [pc EXCEPT ![w] = "note"] /\ cur' = cur
      /\ done' = Append(done, t)
      /\ UNCHANGED <<queue, idle, pending, shutdown, asleep, state, noted, ran>>
  BY DEF Push, At, shared
<1>1. t \in Tasks /\ t \notin InQueue \cup Finished /\ state[t] \in {"DONE", "CANCELLED"}
  BY <1>0 DEF Stepped, Owners, Threads, Has, Owns
<1>2. /\ Stepped' /\ pc'[w] = "note"
      /\ \A v \in Workers \ {w} : pc'[v] = pc[v]
      /\ \A c \in Clients : pc'[c] = pc[c]
  <2>1. "push" \in Has /\ "note" \in Has /\ "note" \in WorkerSteps
    BY DEF WorkerSteps, Has, Owns
  <2> QED BY <1>0, <2>1, WorkerGoesOn
<1>3. done' \in Seq(Tasks) /\ Once(done') /\ Finished' = Finished \cup {t}
  <2>1. done \in Seq(Tasks) /\ Once(done) /\ Finished = Elems(done) /\ Finished' = Elems(done')
    BY DEF Typed, Lists, Elems, Finished
  <2> QED BY <1>0, <1>1, <2>1, ListAppend
<1>4. Typed' /\ InQueue' = InQueue /\ Holding' = Holding
  BY <1>0, <1>3 DEF Typed, InQueue, Holding
<1>5. Sleepers' /\ Calls'
  BY <1>0, <1>2 DEF Sleepers, Calls
<1>6. Lists'
  BY <1>0, <1>1, <1>3, <1>4 DEF Lists
<1>7. Owners'
  BY <1>0, <1>2, <1>3, <1>4 DEF Owners, Owns
<1>8. Idle' /\ Enough'
  <2>1. Woken' = Woken /\ Awake' = Awake
    BY <1>0, <1>2 DEF Woken, Awake
  <2> QED BY <1>0, <2>1 DEF Idle, Enough
<1>9. Pending' /\ Ending'
  BY <1>0, <1>2, <1>4 DEF Pending, Ending
<1>10. Disciplined => Kept'
  BY <1>0, <1>2, <1>4 DEF Kept
<1> QED BY <1>2, <1>3, <1>4, <1>5, <1>6, <1>7, <1>8, <1>9, <1>10

LEMMA NoteInv ==
  ASSUME Inv, NEW w \in Workers, Note(w)
  PROVE  Inv'
<1> USE DEF Inv
<1>0. /\ pc[w] = "note" /\ pc' = [pc EXCEPT ![w] = "count"] /\ cur' = cur
      /\ noted' = noted \cup {cur[w]}
      /\ UNCHANGED <<queue, idle, pending, shutdown, asleep, done, state, ran>>
  BY DEF Note, At, shared
<1>1. cur[w] \in Tasks
  BY <1>0 DEF Stepped, Threads, Has
<1>2. /\ Stepped' /\ pc'[w] = "count"
      /\ \A v \in Workers \ {w} : pc'[v] = pc[v]
      /\ \A c \in Clients : pc'[c] = pc[c]
  <2>1. "count" \in Has /\ "note" \in Has /\ "count" \in WorkerSteps
    BY DEF WorkerSteps, Has
  <2> QED BY <1>0, <2>1, WorkerGoesOn
<1>3. Lists' /\ Calls' /\ InQueue' = InQueue /\ Finished' = Finished /\ Holding' = Holding
  BY <1>0, SameLists DEF Holding
<1>4. Typed' /\ Sleepers'
  BY <1>0, <1>1, <1>2 DEF Typed, Sleepers
<1>5. Owners'
  BY <1>0, <1>2, <1>3 DEF Owners, Owns
<1>6. Idle' /\ Enough'
  <2>1. Woken' = Woken /\ Awake' = Awake
    BY <1>0, <1>2 DEF Woken, Awake
  <2> QED BY <1>0, <2>1 DEF Idle, Enough
<1>7. Pending' /\ Ending'
  BY <1>0, <1>2, <1>3 DEF Pending, Ending
<1>8. Disciplined => Kept'
  BY <1>0, <1>2, <1>3 DEF Kept
<1> QED BY <1>2, <1>3, <1>4, <1>5, <1>6, <1>7, <1>8

LEMMA CountInv ==
  ASSUME Inv, NEW w \in Workers, Count(w)
  PROVE  Inv'
<1> USE DEF Inv
<1> DEFINE x == IF pending = 1 THEN "wake" ELSE "loop"
<1>0. /\ pc[w] = "count" /\ pc' = [pc EXCEPT ![w] = x] /\ cur' = [cur EXCEPT ![w] = None]
      /\ pending' = pending - 1
      /\ UNCHANGED <<queue, idle, shutdown, asleep, done, state, noted, ran>>
  BY DEF Count, task
<1>1. x \in WorkerSteps /\ x \notin Has /\ x \in {"wake", "loop"} /\ "count" \in Has
  BY DEF WorkerSteps, Has, Owns
<1>2. /\ Stepped' /\ pc'[w] = x /\ cur'[w] = None
      /\ \A v \in Workers \ {w} : pc'[v] = pc[v] /\ cur'[v] = cur[v]
      /\ \A c \in Clients : pc'[c] = pc[c] /\ cur'[c] = cur[c]
  <2>1. None \in Tasks \cup {None} /\ (x \in Has <=> None # None)
    BY <1>1
  <2> HIDE DEF x
  <2> QED BY <1>0, <1>1, <2>1, WorkerMoves
<1> HIDE DEF x
<1>3. Lists' /\ Calls' /\ InQueue' = InQueue /\ Finished' = Finished
  BY <1>0, SameLists
<1>4. Typed' /\ Sleepers'
  BY <1>0, <1>2 DEF Typed, Sleepers
<1>5. Owners'
  BY <1>0, <1>1, <1>2, <1>3 DEF Owners, Owns
<1>6. Idle'
  <2>1. Woken' = Woken
    BY <1>0, <1>1, <1>2 DEF Woken
  <2> QED BY <1>0, <2>1 DEF Idle
<1>7. w \in Holding /\ Holding' = Holding \ {w}
  BY <1>0, <1>1, <1>2 DEF Holding, Stepped
<1>8. Pending'
  <2>1. Cardinality(Holding') = Cardinality(Holding) - 1
    BY <1>7, Finite, Less
  <2>2. Cardinality(InQueue) \in Nat
    BY FS_CardinalityType DEF Lists
  <2> QED BY <1>0, <1>2, <1>3, <2>1, <2>2, Finite DEF Pending
<1>9. Enough'
  <2>1. Awake' = Awake \/ (w \notin Awake /\ Awake' = Awake \cup {w})
    <3>1. CASE x = "wake"
      <4>1. w \notin Awake /\ w \notin Awake'
        BY <3>1, <1>0, <1>2 DEF Awake
      <4> QED BY <4>1, <1>0, <1>2 DEF Awake
    <3>2. CASE x = "loop"
      <4>1. w \notin Awake /\ w \notin asleep
        BY <1>0 DEF Awake, Sleepers
      <4> QED BY <3>2, <4>1, <1>0, <1>2 DEF Awake
    <3> QED BY <1>1, <3>1, <3>2
  <2>2. Cardinality(Awake') \in {Cardinality(Awake), Cardinality(Awake) + 1}
    BY <2>1, Finite, More
  <2>3. Len(queue) \in Nat
    BY LenProperties DEF Typed
  <2> QED BY <1>0, <2>2, <2>3, Finite DEF Enough
<1>10. Ending'
  BY <1>0, <1>1, <1>2 DEF Ending
<1>11. Disciplined => Kept'
  <2>1. \A p \in Threads : cur'[p] # None => cur'[p] = cur[p]
    BY <1>2 DEF Threads
  <2> QED BY <1>0, <1>2, <1>3, <1>7, <2>1 DEF Kept
<1> QED BY <1>2, <1>3, <1>4, <1>5, <1>6, <1>8, <1>9, <1>10, <1>11

LEMMA WakeInv ==
  ASSUME Inv, NEW w \in Workers, Wake(w)
  PROVE  Inv'
<1> USE DEF Inv
<1>0. /\ pc[w] = "wake" /\ pc' = [pc EXCEPT ![w] = "loop"] /\ cur' = cur
      /\ \/ asleep' = asleep
         \/ \E c \in asleep \cap Clients : asleep' = asleep \ {c}
      /\ UNCHANGED <<queue, idle, pending, shutdown, done, state, noted, ran>>
  BY DEF Wake, At, Signal, task
<1>1. asleep' \subseteq asleep /\ asleep' \cap Workers = asleep \cap Workers
  BY <1>0, TaskGroupAssumption
<1>2. /\ Stepped' /\ pc'[w] = "loop"
      /\ \A v \in Workers \ {w} : pc'[v] = pc[v]
      /\ \A c \in Clients : pc'[c] = pc[c]
  <2>1. "loop" \in WorkerSteps /\ "loop" \notin Has /\ "wake" \notin Has
    BY DEF WorkerSteps, Has, Owns
  <2> QED BY <1>0, <2>1, WorkerGoesOn
<1>3. Lists' /\ Calls' /\ InQueue' = InQueue /\ Finished' = Finished /\ Holding' = Holding
  BY <1>0, SameLists DEF Holding
<1>4. Typed'
  BY <1>0, <1>1 DEF Typed
<1>5. Sleepers'
  BY <1>0, <1>1, <1>2 DEF Sleepers
<1>6. Owners'
  BY <1>0, <1>2, <1>3 DEF Owners, Owns
<1>7. Idle'
  <2>1. Woken' = Woken
    BY <1>0, <1>2 DEF Woken
  <2> QED BY <1>0, <2>1 DEF Idle
<1>8. Enough'
  <2>1. w \notin Awake /\ w \notin asleep
    BY <1>0 DEF Awake, Sleepers
  <2>2. Awake' = Awake \cup {w}
    BY <1>0, <1>1, <1>2, <2>1 DEF Awake
  <2>3. Cardinality(Awake') = Cardinality(Awake) + 1
    BY <2>1, <2>2, Finite, More
  <2>4. Len(queue) \in Nat
    BY LenProperties DEF Typed
  <2> QED BY <1>0, <1>1, <2>3, <2>4, Finite DEF Enough
<1>9. Pending' /\ Ending'
  BY <1>0, <1>2, <1>3 DEF Pending, Ending
<1>10. Disciplined => Kept'
  BY <1>0, <1>2, <1>3 DEF Kept
<1> QED BY <1>2, <1>3, <1>4, <1>5, <1>6, <1>7, <1>8, <1>9, <1>10

-------------------------------------------------------------------------------
(* The same for the callers.  What only the workers do stays. *)
LEMMA WorkersStay ==
  ASSUME Inv, UNCHANGED <<queue, done, state, ran, idle>>, asleep' \cap Workers = asleep \cap Workers,
         \A w \in Workers : pc'[w] = pc[w] /\ cur'[w] = cur[w]
  PROVE  /\ Lists' /\ Calls' /\ Owners' /\ Idle' /\ Enough'
         /\ InQueue' = InQueue /\ Finished' = Finished /\ Holding' = Holding
<1> USE DEF Inv
<1>1. Lists' /\ Calls' /\ InQueue' = InQueue /\ Finished' = Finished
  BY SameLists
<1>2. Woken' = Woken /\ Awake' = Awake /\ Holding' = Holding
  BY DEF Woken, Awake, Holding
<1>3. Owners'
  BY <1>1 DEF Owners, Owns
<1> QED BY <1>1, <1>2, <1>3 DEF Idle, Enough

LEMMA SubmitInv ==
  ASSUME Inv, NEW c \in Clients, Submit(c)
  PROVE  Inv'
<1> USE DEF Inv
<1> DEFINE t == CHOOSE x \in Tasks : state[x] = "free"
           w == CHOOSE x \in Workers : pc[x] = "unborn"
<1>0. /\ pc[c] = "idle" /\ ~shutdown /\ (Disciplined => Quiet) /\ cur' = cur
      /\ state' = [state EXCEPT ![t] = "QUEUED"]
      /\ queue' = Append(queue, t) /\ pending' = pending + 1
      /\ UNCHANGED <<idle, shutdown, done, noted, ran>>
  BY DEF Submit
<1>1. t \in Tasks /\ state[t] = "free"
  BY DEF Submit
<1>2. \/ idle > 0 /\ Signal(Workers) /\ pc' = pc
      \/ idle = 0 /\ w \in Workers /\ pc[w] = "unborn"
         /\ pc' = [pc EXCEPT ![w] = "loop"] /\ asleep' = asleep
      \/ idle = 0 /\ pc' = pc /\ asleep' = asleep
  BY DEF Submit, Started
<1> HIDE DEF t, w
<1>3. /\ Stepped'
      /\ \A v \in Workers : pc'[v] = pc[v] \/ (pc[v] = "unborn" /\ pc'[v] = "loop")
      /\ \A d \in Clients : pc'[d] = pc[d]
  <2>1. CASE pc' = pc
    <3>1. Stepped'
      BY <1>0, <2>1 DEF Stepped
    <3> QED BY <2>1, <3>1
  <2>2. CASE w \in Workers /\ pc[w] = "unborn" /\ pc' = [pc EXCEPT ![w] = "loop"]
    <3>1. "loop" \in WorkerSteps /\ "loop" \notin Has /\ "unborn" \notin Has
      BY DEF WorkerSteps, Has, Owns
    <3>2. /\ Stepped' /\ pc'[w] = "loop"
          /\ \A v \in Workers \ {w} : pc'[v] = pc[v]
          /\ \A d \in Clients : pc'[d] = pc[d]
      BY <1>0, <2>2, <3>1, WorkerGoesOn
    <3> QED BY <2>2, <3>2
  <2> QED BY <1>2, <2>1, <2>2
<1>4. /\ t \notin InQueue \cup Finished
      /\ \A v \in Workers : pc[v] \in Owns => cur[v] # t
  BY <1>1 DEF Lists, Owners, Owns
<1>5. /\ queue' \in Seq(Tasks) /\ Len(queue') = Len(queue) + 1 /\ Len(queue) \in Nat
      /\ Once(queue') /\ InQueue' = InQueue \cup {t}
  <2>1. queue \in Seq(Tasks) /\ Once(queue) /\ InQueue = Elems(queue) /\ InQueue' = Elems(queue')
    BY DEF Typed, Lists, Elems, InQueue
  <2> QED BY <1>0, <1>1, <1>4, <2>1, ListAppend, LenProperties
<1>6. /\ state' \in [Tasks -> States] /\ state'[t] = "QUEUED"
      /\ \A x \in Tasks \ {t} : state'[x] = state[x]
  BY <1>0, <1>1 DEF Typed, States
<1>7. asleep' \subseteq asleep
  BY <1>2 DEF Signal
<1>8. Typed' /\ Finished' = Finished /\ Holding' = Holding
  BY <1>0, <1>5, <1>6, <1>7 DEF Typed, Finished, Holding
<1>9. Sleepers'
  BY <1>0, <1>3, <1>7 DEF Sleepers
<1>10. Lists'
  <2>1. IsFiniteSet(InQueue')
    BY <1>4, <1>5, More DEF Lists
  <2> QED BY <1>0, <1>4, <1>5, <1>6, <1>8, <2>1, InTasks DEF Lists
<1>11. Calls'
  BY <1>0, <1>1, <1>6 DEF Calls
<1>12. Owners'
  <2>1. \A v \in Workers : pc'[v] \in Owns => pc'[v] = pc[v] /\ cur[v] \in Tasks
    BY <1>3 DEF Stepped, Threads, Has, Owns
  <2> QED BY <1>0, <1>4, <1>5, <1>6, <1>8, <2>1 DEF Owners, Owns
<1>13. Woken' = Woken /\ Idle'
  <2>1. Woken' = Woken
    BY <1>3 DEF Woken
  <2> QED BY <1>0, <2>1 DEF Idle
<1>14. Pending'
  <2>1. Cardinality(InQueue') = Cardinality(InQueue) + 1
    BY <1>4, <1>5, More DEF Lists
  <2>2. Cardinality(InQueue) \in Nat
    BY FS_CardinalityType DEF Lists
  <2> QED BY <1>0, <1>3, <1>8, <2>1, <2>2, Finite DEF Pending
<1>15. Enough'
  <2>1. CASE idle = 0
    <3>1. Woken = {}
      BY <2>1, Finite, FS_EmptySet DEF Idle
    <3> QED BY <3>1, <1>7 DEF Woken, Sleepers, Enough
  <2>2. CASE Signal(Workers) /\ pc' = pc
    <3>1. CASE asleep \cap Workers = {}
      BY <3>1, <1>7 DEF Enough
    <3>2. CASE asleep \cap Workers # {}
      <4>1. PICK p \in asleep \cap Workers : asleep' = asleep \ {p}
        BY <2>2, <3>2 DEF Signal
      <4>2. p \notin Awake /\ Awake' = Awake \cup {p}
        BY <2>2, <4>1 DEF Awake, Sleepers
      <4>3. Cardinality(Awake') = Cardinality(Awake) + 1
        BY <4>2, Finite, More
      <4> QED BY <1>5, <3>2, <4>3, Finite DEF Enough
    <3> QED BY <3>1, <3>2
  <2> QED BY <1>2, <2>1, <2>2
<1>16. Ending'
  BY <1>0, <1>3 DEF Ending
<1>17. Disciplined => Kept'
  <2>1. \A x \in Tasks : state[x] # "free" => state'[x] # "free"
    BY <1>6
  <2> QED BY <1>0, <1>3, <1>8, <2>1 DEF Kept, Stepped, Quiet
<1> QED BY <1>3, <1>8, <1>9, <1>10, <1>11, <1>12, <1>13, <1>14, <1>15, <1>16, <1>17

LEMMA CancelInv ==
  ASSUME Inv, NEW c \in Clients, NEW t \in Tasks, Cancel(c, t)
  PROVE  Inv'
<1> USE DEF Inv
<1>0. /\ state[t] = "QUEUED" /\ state' = [state EXCEPT ![t] = "CANCELLED"]
      /\ UNCHANGED <<queue, idle, pending, shutdown, asleep, done, noted, ran, pc, cur>>
  BY DEF Cancel, shared
<1>1. /\ state' \in [Tasks -> States] /\ state'[t] = "CANCELLED"
      /\ \A x \in Tasks \ {t} : state'[x] = state[x]
  BY <1>0 DEF Typed, States
<1>2. /\ InQueue' = InQueue /\ Finished' = Finished
      /\ Holding' = Holding /\ Woken' = Woken /\ Awake' = Awake
  BY <1>0 DEF InQueue, Finished, Holding, Woken, Awake
<1>3. Typed' /\ Stepped' /\ Sleepers' /\ Ending'
  BY <1>0, <1>1 DEF Typed, Stepped, Sleepers, Ending
<1>4. Lists' /\ Calls'
  BY <1>0, <1>1, <1>2, InTasks DEF Lists, Calls
<1>5. Owners'
  <2>1. \A v \in Workers : pc[v] \in Owns => cur[v] \in Tasks
    BY DEF Stepped, Threads, Has
  <2> QED BY <1>0, <1>1, <1>2, <2>1 DEF Owners, Owns
<1>6. Idle' /\ Pending' /\ Enough'
  BY <1>0, <1>2 DEF Idle, Pending, Enough
<1>7. Disciplined => Kept'
  <2>1. \A x \in Tasks : state[x] # "free" => state'[x] # "free"
    BY <1>0, <1>1
  <2> QED BY <1>0, <1>2, <2>1 DEF Kept, Stepped
<1> QED BY <1>3, <1>4, <1>5, <1>6, <1>7

LEMMA WaitTaskInv ==
  ASSUME Inv, NEW c \in Clients, NEW t \in Tasks, WaitTask(c, t)
  PROVE  Inv'
<1> USE DEF Inv
<1>0. /\ pc[c] = "idle" /\ pc' = [pc EXCEPT ![c] = "wait"] /\ cur' = [cur EXCEPT ![c] = t]
      /\ state[t] # "free" /\ ~shutdown /\ (Disciplined => Quiet)
      /\ UNCHANGED <<queue, idle, pending, shutdown, asleep, done, state, noted, ran>>
  BY DEF WaitTask, At, shared, task
<1>1. /\ Stepped' /\ pc'[c] = "wait" /\ cur'[c] = t
      /\ \A d \in Clients \ {c} : pc'[d] = pc[d] /\ cur'[d] = cur[d]
      /\ \A w \in Workers : pc'[w] = pc[w] /\ cur'[w] = cur[w]
  <2>1. "wait" \in ClientSteps /\ t # None
    BY TaskGroupAssumption DEF ClientSteps
  <2> QED BY <1>0, <2>1, ClientMoves
<1>2. /\ Lists' /\ Calls' /\ Owners' /\ Idle' /\ Enough'
      /\ InQueue' = InQueue /\ Holding' = Holding
  BY <1>0, <1>1, WorkersStay
<1>3. Typed' /\ Sleepers'
  BY <1>0, <1>1 DEF Typed, Sleepers
<1>4. Pending' /\ Ending'
  BY <1>0, <1>1, <1>2 DEF Pending, Ending
<1>5. Disciplined => Kept'
  BY <1>0, <1>1, <1>2 DEF Kept, Quiet, Threads
<1> QED BY <1>1, <1>2, <1>3, <1>4, <1>5

LEMMA WaitedInv ==
  ASSUME Inv, NEW c \in Clients, Waited(c)
  PROVE  Inv'
<1> USE DEF Inv
<1>0. /\ pc[c] = "wait" /\ pc' = [pc EXCEPT ![c] = "idle"] /\ cur' = [cur EXCEPT ![c] = None]
      /\ UNCHANGED <<queue, idle, pending, shutdown, asleep, done, state, noted, ran>>
  BY DEF Waited, At, shared, task
<1>1. /\ Stepped' /\ pc'[c] = "idle" /\ cur'[c] = None
      /\ \A d \in Clients \ {c} : pc'[d] = pc[d] /\ cur'[d] = cur[d]
      /\ \A w \in Workers : pc'[w] = pc[w] /\ cur'[w] = cur[w]
  <2>1. "idle" \in ClientSteps
    BY DEF ClientSteps
  <2> QED BY <1>0, <2>1, ClientMoves
<1>2. /\ Lists' /\ Calls' /\ Owners' /\ Idle' /\ Enough'
      /\ InQueue' = InQueue /\ Holding' = Holding
  BY <1>0, <1>1, WorkersStay
<1>3. Typed' /\ Sleepers'
  BY <1>0, <1>1 DEF Typed, Sleepers
<1>4. Pending' /\ Ending'
  BY <1>0, <1>1, <1>2 DEF Pending, Ending
<1>5. Disciplined => Kept'
  BY <1>0, <1>1, <1>2 DEF Kept, Threads
<1> QED BY <1>1, <1>2, <1>3, <1>4, <1>5

LEMMA GroupWaitInv ==
  ASSUME Inv, NEW c \in Clients, GroupWait(c)
  PROVE  Inv'
<1> USE DEF Inv
<1>0. /\ pc[c] = "idle" /\ pc' = [pc EXCEPT ![c] = "groupwait"] /\ cur' = cur
      /\ ~shutdown /\ (Disciplined => Quiet /\ Using = {})
      /\ UNCHANGED <<queue, idle, pending, shutdown, asleep, done, state, noted, ran>>
  BY DEF GroupWait, At, shared, task
<1>1. /\ Stepped' /\ pc'[c] = "groupwait"
      /\ \A d \in Clients \ {c} : pc'[d] = pc[d]
      /\ \A w \in Workers : pc'[w] = pc[w]
  <2>1. "groupwait" \in ClientSteps
    BY DEF ClientSteps
  <2> QED BY <1>0, <2>1, ClientGoesOn
<1>2. /\ Lists' /\ Calls' /\ Owners' /\ Idle' /\ Enough'
      /\ InQueue' = InQueue /\ Holding' = Holding
  BY <1>0, <1>1, WorkersStay
<1>3. Typed' /\ Sleepers'
  BY <1>0, <1>1 DEF Typed, Sleepers
<1>4. Pending' /\ Ending'
  BY <1>0, <1>1, <1>2 DEF Pending, Ending
<1>5. Disciplined => Kept'
  BY <1>0, <1>1, <1>2 DEF Kept, Quiet, Using
<1> QED BY <1>1, <1>2, <1>3, <1>4, <1>5

LEMMA GroupCheckInv ==
  ASSUME Inv, NEW c \in Clients, GroupCheck(c)
  PROVE  Inv'
<1> USE DEF Inv
<1>0. /\ pc[c] = "groupwait" /\ c \notin asleep /\ cur' = cur
      /\ UNCHANGED <<queue, idle, pending, shutdown, done, state, noted, ran>>
  BY DEF GroupCheck, task
<1>1. CASE pending > 0 /\ asleep' = asleep \cup {c} /\ pc' = pc
  <2>1. asleep' \cap Workers = asleep \cap Workers
    BY <1>1, TaskGroupAssumption
  <2>2. /\ Lists' /\ Calls' /\ Owners' /\ Idle' /\ Enough'
        /\ InQueue' = InQueue /\ Holding' = Holding
    BY <1>0, <1>1, <2>1, WorkersStay
  <2>3. Stepped'
    BY <1>0, <1>1 DEF Stepped
  <2>4. Typed' /\ Sleepers'
    BY <1>0, <1>1, <2>1 DEF Typed, Sleepers, Threads
  <2>5. Pending' /\ Ending'
    BY <1>0, <1>1, <2>2 DEF Pending, Ending
  <2>6. Disciplined => Kept'
    BY <1>0, <1>1, <2>2 DEF Kept
  <2> QED BY <2>2, <2>3, <2>4, <2>5, <2>6
<1>2. CASE ~(pending > 0) /\ pc' = [pc EXCEPT ![c] = "drain"] /\ asleep' = asleep
  <2>1. /\ Stepped' /\ pc'[c] = "drain"
        /\ \A d \in Clients \ {c} : pc'[d] = pc[d]
        /\ \A w \in Workers : pc'[w] = pc[w]
    <3>1. "drain" \in ClientSteps
      BY DEF ClientSteps
    <3> QED BY <1>0, <1>2, <3>1, ClientGoesOn
  <2>2. /\ Lists' /\ Calls' /\ Owners' /\ Idle' /\ Enough'
        /\ InQueue' = InQueue /\ Holding' = Holding
    BY <1>0, <1>2, <2>1, WorkersStay
  <2>3. InQueue = {} /\ Holding = {}
    <3>1. pending = Cardinality(InQueue) + Cardinality(Holding)
      BY <1>0 DEF Pending, Ending
    <3>2. Cardinality(InQueue) \in Nat
      BY FS_CardinalityType DEF Lists
    <3>3. Cardinality(InQueue) = 0 /\ Cardinality(Holding) = 0
      BY <1>2, <3>1, <3>2, Finite
    <3> QED BY <3>3, Finite, FS_EmptySet DEF Lists
  <2>4. Typed' /\ Sleepers'
    BY <1>0, <1>2, <2>1, TaskGroupAssumption DEF Typed, Sleepers
  <2>5. Pending' /\ Ending'
    BY <1>0, <2>1, <2>2 DEF Pending, Ending
  <2>6. Disciplined => Kept'
    BY <1>0, <2>1, <2>2, <2>3 DEF Kept
  <2> QED BY <2>1, <2>2, <2>4, <2>5, <2>6
<1> QED BY <1>1, <1>2 DEF GroupCheck

LEMMA DrainInv ==
  ASSUME Inv, NEW c \in Clients, Drain(c)
  PROVE  Inv'
<1> USE DEF Inv
<1>0. /\ pc[c] = "drain" /\ cur' = cur
      /\ UNCHANGED <<queue, idle, pending, shutdown, asleep>>
  BY DEF Drain, shared
<1>1. CASE done = <<>> /\ pc' = [pc EXCEPT ![c] = "idle"] /\ UNCHANGED <<done, state, noted, ran>>
  <2>1. /\ Stepped' /\ pc'[c] = "idle"
        /\ \A d \in Clients \ {c} : pc'[d] = pc[d]
        /\ \A w \in Workers : pc'[w] = pc[w]
    <3>1. "idle" \in ClientSteps
      BY DEF ClientSteps
    <3> QED BY <1>0, <1>1, <3>1, ClientGoesOn
  <2>2. /\ Lists' /\ Calls' /\ Owners' /\ Idle' /\ Enough'
        /\ InQueue' = InQueue /\ Holding' = Holding
    BY <1>0, <1>1, <2>1, WorkersStay
  <2>3. Typed' /\ Sleepers'
    BY <1>0, <1>1, <2>1 DEF Typed, Sleepers
  <2>4. Pending' /\ Ending'
    BY <1>0, <1>1, <2>1, <2>2 DEF Pending, Ending
  <2>5. Disciplined => Kept'
    BY <1>0, <1>1, <2>1, <2>2 DEF Kept
  <2> QED BY <2>1, <2>2, <2>3, <2>4, <2>5
<1>2. CASE done # <<>> /\ done' = Tail(done) /\ Free({Head(done)}) /\ pc' = pc
  <2> DEFINE h == Head(done)
  <2>1. done' \in Seq(Tasks) /\ h \in Finished /\ Once(done') /\ Finished' = Finished \ {h}
    <3>1. done \in Seq(Tasks) /\ Once(done) /\ Finished = Elems(done) /\ Finished' = Elems(done')
      BY DEF Typed, Lists, Elems, Finished
    <3> QED BY <1>2, <3>1, ListTail
  <2>2. h \in Tasks /\ h \notin InQueue
    BY <2>1, InTasks DEF Lists
  <2> HIDE DEF h
  <2>3. /\ state' \in [Tasks -> States] /\ ran' \in [Tasks -> Int] /\ noted' \subseteq noted
        /\ state'[h] = "free" /\ ran'[h] = 0
        /\ \A t \in Tasks \ {h} : state'[t] = state[t] /\ ran'[t] = ran[t]
    <3>1. /\ state' = [t \in Tasks |-> IF t = h THEN "free" ELSE state[t]]
          /\ ran' = [t \in Tasks |-> IF t = h THEN 0 ELSE ran[t]] /\ noted' = noted \ {h}
      BY <1>2 DEF Free, h
    <3> QED BY <2>2, <3>1 DEF Typed, States
  <2>4. /\ InQueue' = InQueue /\ Holding' = Holding /\ Woken' = Woken /\ Awake' = Awake
        /\ Typed' /\ Stepped' /\ Sleepers'
    <3>1. InQueue' = InQueue /\ Holding' = Holding /\ Woken' = Woken /\ Awake' = Awake
      BY <1>0, <1>2 DEF InQueue, Holding, Woken, Awake
    <3>2. Typed'
      BY <1>0, <2>1, <2>3 DEF Typed
    <3>3. Stepped' /\ Sleepers'
      BY <1>0, <1>2 DEF Stepped, Sleepers
    <3> QED BY <3>1, <3>2, <3>3
  <2>5. Lists' /\ Calls'
    BY <1>0, <2>1, <2>2, <2>3, <2>4, InTasks DEF Lists, Calls
  <2>6. Owners'
    <3>1. \A v \in Workers : pc[v] \in Owns => cur[v] \in Tasks /\ cur[v] # h
      BY <2>1 DEF Stepped, Threads, Has, Owners
    <3> QED BY <1>0, <1>2, <2>1, <2>3, <2>4, <3>1 DEF Owners, Owns
  <2>7. Idle' /\ Pending' /\ Enough'
    BY <1>0, <1>2, <2>4 DEF Idle, Pending, Enough
  <2>8. Ending'
    BY <1>0, <1>2 DEF Ending
  <2>9. ASSUME Disciplined PROVE Kept'
    <3>1. \A p \in Threads : cur[p] = None
      BY <1>0, <2>9 DEF Kept, Holding, Stepped, Threads
    <3> QED BY <1>0, <1>2, <2>4, <2>9, <3>1 DEF Kept
  <2> QED BY <2>4, <2>5, <2>6, <2>7, <2>8, <2>9
<1> QED BY <1>1, <1>2 DEF Drain

LEMMA ShutdownInv ==
  ASSUME Inv, NEW c \in Clients, Shutdown(c)
  PROVE  Inv'
<1> USE DEF Inv
<1>0. /\ pc[c] = "idle" /\ pc' = [pc EXCEPT ![c] = "join"] /\ cur' = cur
      /\ ~shutdown /\ Quiet /\ Using = {} /\ asleep' = asleep \ Workers
      /\ UNCHANGED <<queue, idle, pending, done, state, noted, ran>>
  BY DEF Shutdown, At, task
<1>1. shutdown' = TRUE
  BY Zenon DEF Shutdown
<1>2. /\ Stepped' /\ pc'[c] = "join"
      /\ \A d \in Clients \ {c} : pc'[d] = pc[d]
      /\ \A w \in Workers : pc'[w] = pc[w]
  <2>1. "join" \in ClientSteps
    BY DEF ClientSteps
  <2> QED BY <1>0, <2>1, ClientGoesOn
<1>3. Lists' /\ Calls' /\ InQueue' = InQueue /\ Finished' = Finished /\ Holding' = Holding
  BY <1>0, SameLists DEF Holding
<1>4. Typed'
  <2>1. shutdown' \in BOOLEAN
    BY Zenon, <1>1
  <2>2. asleep' \subseteq Threads
    BY <1>0 DEF Typed
  <2> QED BY <1>0, <2>1, <2>2 DEF Typed
<1>5. Sleepers' /\ Enough'
  BY <1>0, <1>2 DEF Sleepers, Enough
<1>6. Owners'
  BY <1>0, <1>2, <1>3 DEF Owners, Owns
<1>7. Idle'
  <2>1. Woken' = Woken
    BY <1>2 DEF Woken
  <2> QED BY <1>0, <2>1 DEF Idle
<1>8. Ending'
  <2>1. \A d \in Clients : pc[d] \notin {"wait", "groupwait", "drain", "join", "gone"}
    BY <1>0 DEF Quiet, Using, Ending
  <2>2. \A d \in Clients \ {c} : pc'[d] \notin {"wait", "groupwait", "drain", "join", "gone"}
    BY <1>2, <2>1
  <2> QED BY <1>1, <1>2, <2>2 DEF Ending
<1>9. Pending'
  BY <1>0, <1>2, <1>3 DEF Pending, Ending
<1>10. Disciplined => Kept'
  BY <1>0, <1>2, <1>3 DEF Kept
<1> QED BY <1>2, <1>3, <1>4, <1>5, <1>6, <1>7, <1>8, <1>9, <1>10

LEMMA JoinInv ==
  ASSUME Inv, NEW c \in Clients, Join(c)
  PROVE  Inv'
<1> USE DEF Inv
<1>0. /\ pc[c] = "join" /\ pc' = [pc EXCEPT ![c] = "gone"] /\ cur' = cur
      /\ queue' = <<>> /\ done' = <<>> /\ Free(Tasks)
      /\ UNCHANGED <<idle, pending, shutdown, asleep>>
      /\ \A w \in Workers : pc[w] \in {"unborn", "exit"}
  BY DEF Join, At, Started
<1>1. /\ Stepped' /\ pc'[c] = "gone"
      /\ \A d \in Clients \ {c} : pc'[d] = pc[d]
      /\ \A w \in Workers : pc'[w] = pc[w]
  <2>1. "gone" \in ClientSteps
    BY DEF ClientSteps
  <2> QED BY <1>0, <2>1, ClientGoesOn
<1>2. /\ state' = [t \in Tasks |-> "free"] /\ ran' = [t \in Tasks |-> 0] /\ noted' \subseteq noted
  <2>1. /\ state' = [t \in Tasks |-> IF t \in Tasks THEN "free" ELSE state[t]]
        /\ ran' = [t \in Tasks |-> IF t \in Tasks THEN 0 ELSE ran[t]]
        /\ noted' = noted \ Tasks
    BY <1>0 DEF Free
  <2> QED BY <2>1
<1>3. Typed'
  <2>1. queue' \in Seq(Tasks) /\ done' \in Seq(Tasks)
    BY <1>0, EmptySeq
  <2>2. state' \in [Tasks -> States] /\ ran' \in [Tasks -> Int] /\ noted' \subseteq Tasks
    BY <1>2 DEF States, Typed
  <2> QED BY <1>0, <2>1, <2>2 DEF Typed
<1>4. InQueue' = {} /\ Finished' = {} /\ Woken' = Woken /\ \A w \in Workers : pc[w] \notin Has
  BY <1>0, <1>1 DEF InQueue, Finished, Woken, Has, Owns
<1>5. Sleepers'
  BY <1>0, <1>1 DEF Sleepers
<1>6. Lists' /\ Calls'
  BY <1>0, <1>2, <1>4, FS_EmptySet DEF Lists, Calls, Once
<1>7. Owners'
  BY <1>0, <1>1, <1>4 DEF Owners, Owns
<1>8. Idle' /\ Pending' /\ Enough'
  BY <1>0, <1>1, <1>4 DEF Idle, Pending, Enough, Sleepers
<1>9. Ending'
  BY <1>0, <1>1 DEF Ending
<1>10. Disciplined => Kept'
  <2>1. \A p \in Threads : cur[p] = None
    BY <1>0, <1>4 DEF Stepped, Ending, Threads
  <2>2. \A d \in Clients : pc'[d] \notin {"wait", "groupwait", "drain"}
    BY <1>0, <1>1 DEF Ending
  <2> QED BY <1>0, <2>1, <2>2 DEF Kept
<1> QED BY <1>1, <1>3, <1>5, <1>6, <1>7, <1>8, <1>9, <1>10

LEMMA StutterInv == Inv /\ UNCHANGED vars => Inv'
<1> SUFFICES ASSUME Inv, UNCHANGED vars PROVE Inv'
  OBVIOUS
<1> USE DEF Inv
<1>1. UNCHANGED <<queue, idle, pending, shutdown, asleep, done, state, noted, ran, pc, cur>>
  BY DEF vars, shared, task
<1>2. /\ Lists' /\ Calls' /\ Owners' /\ Idle' /\ Enough'
      /\ InQueue' = InQueue /\ Holding' = Holding
  BY <1>1, WorkersStay
<1>3. Typed' /\ Stepped' /\ Sleepers'
  BY <1>1 DEF Typed, Stepped, Sleepers
<1>4. Pending' /\ Ending' /\ (Disciplined => Kept')
  BY <1>1, <1>2 DEF Pending, Ending, Kept
<1> QED BY <1>2, <1>3, <1>4

LEMMA NextInv == Inv /\ [Next]_vars => Inv'
<1> SUFFICES ASSUME Inv, [Next]_vars PROVE Inv'
  OBVIOUS
<1>1. ASSUME NEW w \in Workers, WorkerStep(w) PROVE Inv'
  BY <1>1, FetchInv, ClaimInv, FinishInv, PushInv, NoteInv, CountInv, WakeInv DEF WorkerStep
<1>2. ASSUME NEW c \in Clients, ClientStep(c) PROVE Inv'
  BY <1>2, WaitedInv, GroupCheckInv, DrainInv, JoinInv DEF ClientStep
<1>3. ASSUME NEW c \in Clients, Call(c) PROVE Inv'
  BY <1>3, CancelInv, WaitTaskInv, SubmitInv, GroupWaitInv, ShutdownInv DEF Call
<1> QED BY <1>1, <1>2, <1>3, StutterInv DEF Next

-------------------------------------------------------------------------------
(* The inductive invariant of the pool: the lists and the workers share the *)
(* tasks out among themselves, the two counters count, and there are awake  *)
(* workers for whatever is queued while one sleeps.                         *)
THEOREM Invariance == Spec => []Inv
BY InitInv, NextInv, PTL DEF Spec

(* The idle counter is the number of workers that wait for work and the     *)
(* pending counter the number of tasks not yet counted as finished, whoever *)
(* submits, cancels and waits at the same time.                             *)
THEOREM CountersCount == Spec => []TypeOK
<1>1. Inv => TypeOK
  BY DEF Inv, Typed, Idle, Pending, Woken, Holding, States, TypeOK
<1> QED BY <1>1, Invariance, PTL

(* While a worker sleeps, the queued tasks are at most as many as the       *)
(* workers on their way to the queue: no wakeup is lost between the queue's *)
(* mutex, the idle counter and the condition variable.                      *)
THEOREM NoLostWakeup == Spec => []NobodyOversleeps
<1>1. Inv => NobodyOversleeps
  BY DEF Inv, Enough, Awake, NobodyOversleeps
<1> QED BY <1>1, Invariance, PTL

(* Callers that neither submit nor wait for a task while another waits for *)
(* the whole group never meet a task that drain_done has freed.            *)
THEOREM NobodyMeetsAFreedTask ==
  ASSUME Disciplined
  PROVE  Spec => []GroupInv
<1>1. Inv => NoUseAfterFree
  <2> SUFFICES ASSUME Inv, NEW t \in Held \cup InQueue \cup Finished PROVE state[t] # "free"
    BY DEF NoUseAfterFree
  <2>1. CASE t \in Held
    <3>1. PICK p \in Threads : t = cur[p] /\ cur[p] # None
      BY <2>1 DEF Held
    <3> QED BY <3>1 DEF Inv, Kept
  <2>2. CASE t \in InQueue \cup Finished
    BY <2>2 DEF Inv, Lists
  <2> QED BY <2>1, <2>2
<1>2. Inv => TypeOK
  BY DEF Inv, Typed, Idle, Pending, Woken, Holding, States, TypeOK
<1> QED BY <1>1, <1>2, Invariance, PTL DEF GroupInv

(* What a step may do to a cancelled task: free it. *)
LEMMA CancelledStays ==
  ASSUME Inv, [Next]_vars, NEW t \in Tasks, state[t] = "CANCELLED"
  PROVE  state'[t] \in {"CANCELLED", "free"}
<1> USE DEF Inv
<1>1. state \in [Tasks -> States]
  BY DEF Typed
<1>2. ASSUME NEW w \in Workers, Claim(w) PROVE state'[t] = state[t]
  BY <1>1, <1>2 DEF Claim
<1>3. ASSUME NEW w \in Workers, Finish(w) PROVE state'[t] = state[t]
  <2>1. state[cur[w]] = "RUNNING" /\ state' = [state EXCEPT ![cur[w]] = "DONE"]
    BY <1>3 DEF Finish, At, Owners
  <2> QED BY <1>1, <2>1
<1>4. ASSUME NEW w \in Workers, WorkerStep(w) PROVE state'[t] = state[t]
  BY <1>2, <1>3, <1>4
     DEF WorkerStep, Fetch, Sleep, Leave, Dequeue, Push, Note, Count, Wake, task
<1>5. ASSUME NEW c \in Clients, ClientStep(c) PROVE state'[t] \in {state[t], "free"}
  BY <1>5 DEF ClientStep, Waited, GroupCheck, Drain, Join, Free, task
<1>6. ASSUME NEW c \in Clients, Call(c) PROVE state'[t] = state[t]
  <2>1. CASE Submit(c)
    <3> DEFINE x == CHOOSE u \in Tasks : state[u] = "free"
    <3>1. x \in Tasks /\ state[x] = "free" /\ state' = [state EXCEPT ![x] = "QUEUED"]
      BY <2>1 DEF Submit
    <3> HIDE DEF x
    <3> QED BY <1>1, <3>1
  <2>2. CASE \E u \in Tasks : Cancel(c, u)
    BY <1>1, <2>2 DEF Cancel
  <2>3. CASE GroupWait(c) \/ Shutdown(c) \/ \E u \in Tasks : WaitTask(c, u)
    BY <2>3 DEF GroupWait, Shutdown, WaitTask, task
  <2> QED BY <1>6, <2>1, <2>2, <2>3 DEF Call
<1>7. CASE UNCHANGED vars
  BY <1>7 DEF vars, task
<1> QED BY <1>4, <1>5, <1>6, <1>7 DEF Next

(* Once xTaskCancel has won the compare-and-swap the task's function is     *)
(* never called, and none is called twice, however the workers race for it. *)
THEOREM CancelIsHonest == Spec => CancelHonest
<1> DEFINE Honest(t) ==
      /\ state[t] = "CANCELLED" => state'[t] \in {"CANCELLED", "free"} /\ ran'[t] = 0
      /\ ran'[t] <= 1
<1>1. ASSUME Inv, Inv', [Next]_vars, NEW t \in Tasks PROVE Honest(t)
  <2>1. ran'[t] = IF state'[t] \in {"RUNNING", "DONE"} THEN 1 ELSE 0
    BY <1>1 DEF Inv, Calls
  <2> QED BY <1>1, <2>1, CancelledStays
<1>2. Inv /\ Inv' /\ [Next]_vars => [\A t \in Tasks : Honest(t)]_vars
  BY <1>1
<1> QED BY <1>2, Invariance, PTL DEF Spec, CancelHonest
=============================================================================
