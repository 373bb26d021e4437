-------------------------- MODULE EventLoopProofs ---------------------------
(***************************************************************************)
(* The event loop loses no wake, runs every callback once and touches no   *)
(* item, event source or timer that was given back, for any number of      *)
(* callers, workers, items, timers and sources.                            *)
(***************************************************************************)
EXTENDS EventLoop, FiniteSetTheorems, SequenceTheorems, TLAPS

LoopSteps == {"out", "turn", "wait", "events", "read", "clear", "dispatch", "join", "fire",
              "drain", "gone"}
PushSteps == {"idle", "run", "push", "link", "wake", "write", "note"}
Carrying  == {"run", "push", "link"}        \* the item is not yet linked
Working   == Carrying \cup {"wake", "write"}
Statuses  == {"new", "queued", "running", "done", "cancelled"}

Elems(s) == {s[i] : i \in DOMAIN s}
Once(s)  == \A i, j \in DOMAIN s : s[i] = s[j] => i = j
Signal   == readable \/ \E a \in Pushers : pc[a] \in {"wake", "write"}

(* The loop thread and the two flags it shares. *)
LoopTyped ==
  /\ lpc \in LoopSteps /\ cur \in Jobs \cup {NULL} /\ (lpc = "join" <=> cur # NULL)
  /\ stopped \in BOOLEAN /\ wake_pending \in BOOLEAN /\ readable \in BOOLEAN
  /\ stops \in 0..MaxStops /\ uses \in Programs

(* What a thread has in its hands goes with its step. *)
Stepped ==
  /\ pc \in [Pushers -> PushSteps] /\ held \in [Pushers -> Items \cup {NULL}]
  /\ \A c \in Callers : /\ pc[c] \notin {"run", "note"}
                        /\ pc[c] = "idle" => held[c] = NULL
  /\ \A k \in Workers : IF pc[k] = "idle" THEN held[k] = NULL ELSE held[k] \in Jobs
  /\ \A a \in Pushers : pc[a] \in {"push", "link"} => held[a] # NULL

ItemsTyped ==
  /\ queue \in Seq(Items) /\ linked \subseteq Items
  /\ tasks \in Seq(Jobs) /\ status \in [Jobs -> Statuses]
  /\ hasTask \subseteq Jobs /\ noted \subseteq Jobs /\ sub \in Jobs \cup {NULL}
  /\ freed \subseteq Items /\ called \in [Items \cup Timers -> Nat] /\ mistaken \subseteq Jobs

TurnTyped ==
  /\ watched \subseteq Timers /\ reported \subseteq Sources \cup {WAKE}
  /\ sources \in [Sources -> {"new", "live", "deleted", "freed"}]
  /\ timers \in [Timers -> {"new", "armed", "fired", "cancelled", "dropped"}]
  /\ due \subseteq {t \in Timers : timers[t] = "armed"} /\ firing \subseteq Timers

Typed == LoopTyped /\ Stepped /\ ItemsTyped /\ TurnTyped

TimerInv == (lpc # "fire" => firing = {}) /\ CancelIsTrue

SourceInv ==
  /\ lpc \in {"out", "turn", "wait", "fire", "drain", "gone"} => reported = {}
  /\ SourcesStay

(* Whoever raised wake_pending writes, or the loop is about to look; and    *)
(* whatever the loop has to see is signalled while it is not looking.       *)
WakeInv ==
  /\ wake_pending => readable \/ lpc = "clear" \/ \E a \in Pushers : pc[a] = "write"
  /\ lpc \notin {"clear", "dispatch", "join"} /\ ~QueueLooksEmpty => Signal
  /\ lpc = "wait" /\ stopped => Signal
  /\ lpc = "wait" /\ (\E t \in Timers \ watched : timers[t] = "armed") => Signal

(* An item that is carried, queued, joined or given back is none of the rest. *)
QueueInv ==
  /\ Once(queue) /\ linked \subseteq Elems(queue)
  /\ Elems(queue) \cap freed = {} /\ cur \notin Elems(queue) \cup freed
  /\ \A a \in Pushers :
       /\ pc[a] \in {"run", "push"} => held[a] \notin Elems(queue) \cup freed \cup {cur}
       /\ pc[a] = "link" => held[a] \in Elems(queue) \ linked
  /\ \A a, b \in Pushers :
       pc[a] \in Carrying /\ pc[b] \in Carrying /\ held[a] = held[b] => a = b

(* A job's status says where its task is. *)
PlaceInv ==
  /\ Once(tasks)
  /\ \A j \in Elems(tasks) :
       status[j] \in {"queued", "cancelled"} /\ j \notin noted /\ \A k \in Workers : held[k] # j
  /\ \A k \in Workers :
       /\ pc[k] # "idle" => held[k] \notin noted
       /\ pc[k] \in Working => status[held[k]] = "running"
       /\ pc[k] = "note" => status[held[k]] \in {"running", "cancelled"}
  /\ \A k, m \in Workers : pc[k] # "idle" /\ held[k] = held[m] => k = m
  /\ \A j \in Jobs :
       /\ status[j] = "new" => j \notin hasTask \cup Elems(tasks) /\ j # sub
       /\ status[j] \in {"new", "queued"} =>
            j \notin Elems(queue) \cup freed \cup noted \cup {cur} /\ \A a \in Pushers : held[a] # j
       /\ j \in noted => status[j] \in {"done", "cancelled"}
  /\ cur # NULL => cur \in hasTask

(* Work in flight is counted, and the one who destroys the loop is alone   *)
(* with the workers.                                                       *)
FlightInv ==
  /\ \A j \in Jobs : status[j] # "new" => j \in hasTask \cup {sub}
  /\ sub # NULL => sub \notin hasTask
  /\ inflight \in Int /\ inflight >= Cardinality(hasTask \ freed)
  /\ lpc \in {"drain", "gone"} => sub = NULL /\ \A c \in Callers : pc[c] = "idle"
  /\ lpc = "gone" => hasTask \subseteq freed

Inv == Typed /\ TimerInv /\ SourceInv /\ WakeInv /\ QueueInv /\ PlaceInv /\ FlightInv

(* While xEventLoopSubmit is called on the loop thread only: a job has its *)
(* task when it is looked at, and is given back after its task has ended   *)
(* and its callback has run.                                               *)
LocalInv ==
  /\ sub # NULL => InCallback
  /\ mistaken = {}
  /\ inflight = Cardinality(hasTask \ freed)
  /\ \A i \in Items : i \notin freed => called[i] = 0
  /\ \A i \in Posts \cap freed : called[i] = 1 \/ (called[i] = 0 /\ lpc = "gone")
  /\ \A j \in Jobs \cap freed :
       j \in noted /\ j \in hasTask /\ called[j] = IF status[j] = "cancelled" THEN 0 ELSE 1

-------------------------------------------------------------------------------
(* A list without duplicates, one element more or less. *)
LEMMA ListAppend ==
  ASSUME NEW S, NEW s \in Seq(S), NEW x \in S
  PROVE  /\ Append(s, x) \in Seq(S) /\ Len(Append(s, x)) = Len(s) + 1
         /\ Elems(Append(s, x)) = Elems(s) \cup {x}
         /\ Once(s) /\ x \notin Elems(s) => Once(Append(s, x))
<1>1. /\ Append(s, x) \in Seq(S) /\ Len(Append(s, x)) = Len(s) + 1
      /\ \A i \in 1..Len(s) : Append(s, x)[i] = s[i]
      /\ Append(s, x)[Len(s) + 1] = x
  BY AppendProperties
<1>2. DOMAIN s = 1..Len(s) /\ DOMAIN Append(s, x) = 1..(Len(s) + 1) /\ Len(s) \in Nat
  BY <1>1, LenProperties
<1>3. Elems(Append(s, x)) = Elems(s) \cup {x}
  BY <1>1, <1>2 DEF Elems
<1>4. ASSUME Once(s), x \notin Elems(s) PROVE Once(Append(s, x))
  BY <1>1, <1>2, <1>4 DEF Elems, Once
<1> QED BY <1>1, <1>3, <1>4

LEMMA ElemsOf ==
  ASSUME NEW S, NEW s \in Seq(S)
  PROVE  Elems(s) \subseteq S
BY DEF Elems

LEMMA ListTail ==
  ASSUME NEW S, NEW s \in Seq(S), s # <<>>
  PROVE  /\ Tail(s) \in Seq(S) /\ Len(Tail(s)) = Len(s) - 1 /\ Len(s) \in Nat
         /\ Head(s) \in S /\ Head(s) \in Elems(s) /\ Elems(Tail(s)) \subseteq Elems(s)
         /\ Once(s) => Once(Tail(s)) /\ Elems(Tail(s)) = Elems(s) \ {Head(s)}
<1>1. /\ Tail(s) \in Seq(S) /\ Head(s) \in S /\ Len(Tail(s)) = Len(s) - 1
      /\ \A i \in 1..Len(Tail(s)) : Tail(s)[i] = s[i + 1]
  BY HeadTailProperties
<1>2. /\ DOMAIN s = 1..Len(s) /\ DOMAIN Tail(s) = 1..(Len(s) - 1) /\ Len(s) \in Nat \ {0}
      /\ Head(s) = s[1]
  BY <1>1, LenProperties, EmptySeq
<1>3. Head(s) \in Elems(s) /\ Elems(Tail(s)) \subseteq Elems(s)
  BY <1>1, <1>2 DEF Elems
<1>4. ASSUME Once(s) PROVE Once(Tail(s))
  BY <1>1, <1>2, <1>4 DEF Once
<1>5. ASSUME Once(s) PROVE Elems(Tail(s)) = Elems(s) \ {Head(s)}
  <2>1. Elems(Tail(s)) \subseteq Elems(s) \ {Head(s)}
    BY <1>1, <1>2, <1>5 DEF Elems, Once
  <2>2. ASSUME NEW i \in DOMAIN s, s[i] # Head(s) PROVE s[i] \in Elems(Tail(s))
    <3>1. i - 1 \in DOMAIN Tail(s) /\ Tail(s)[i - 1] = s[i]
      BY <1>1, <1>2, <2>2
    <3> QED BY <3>1 DEF Elems
  <2> QED BY <2>1, <2>2 DEF Elems
<1> QED BY <1>1, <1>2, <1>3, <1>4, <1>5

(* What each kind of step leaves alone. *)
LEMMA CallerFrame ==
  ASSUME NEW c \in Callers, Caller(c)
  PROVE  UNCHANGED <<lpc, cur, wake_pending, readable, queue, linked, tasks, noted, hasTask,
                     inflight, sub, freed, called, mistaken, uses, watched, reported, sources,
                     due, firing>>
BY DEF Caller, Post, WorkCancel, Stop, TimerAt, loop, wake, done, pool, submit, ended, turn, clock

LEMMA PusherFrame ==
  ASSUME NEW a \in Pushers, Pusher(a)
  PROVE  UNCHANGED <<lpc, cur, tasks, status, noted, hasTask, inflight, sub, freed, called,
                     mistaken, stopped, stops, uses, watched, reported, sources, timers, due, firing>>
BY DEF Pusher, PushSwap, PushLink, WakeFlag, WakeWrite,
       loop, done, wake, pool, submit, ended, stop, turn, clock

LEMMA WorkerFrame ==
  ASSUME NEW k \in Workers, Worker(k)
  PROVE  UNCHANGED <<lpc, cur, wake_pending, readable, queue, linked, hasTask, inflight, sub,
                     freed, called, mistaken, stopped, stops, uses, watched, reported, sources,
                     timers, due, firing>>
BY DEF Worker, WorkerTake, WorkerRun, WorkerNote,
       loop, done, wake, pool, submit, ended, stop, turn, clock

(* A step of the loop thread, of the timers' clock, of a callback that adds *)
(* or removes a source, of one that submits.                                *)
LoopMoves   == LoopStep \/ Run \/ Destroy
ClockMoves  == TimerCancel \/ TimePasses
SourceMoves == \E s \in Sources : EventAdd(s) \/ EventDel(s)
SubmitMoves == SubmitSettle \/ \E j \in Jobs : SubmitTask(j)

LEMMA LoopFrame ==
  ASSUME LoopMoves
  PROVE  UNCHANGED <<tasks, status, noted, hasTask, sub, stops, uses, pc, held>>
BY DEF LoopMoves, LoopStep, Run, Destroy, Turn, WaitReturns, Event, WakeDrain, Dispatch, Join,
       DispatchEnds, Expire, Fire, Sweep, Drained, Finish,
       loop, done, wake, pool, submit, ended, stop, turn, clock

LEMMA ClockFrame ==
  ASSUME ClockMoves
  PROVE  UNCHANGED <<lpc, cur, wake_pending, readable, queue, linked, tasks, status, noted, hasTask,
                     inflight, sub, freed, called, mistaken, stopped, stops, uses, watched,
                     reported, sources, firing, pc, held>>
BY DEF ClockMoves, TimerCancel, TimePasses, loop, done, wake, pool, submit, ended, stop

LEMMA SourceFrame ==
  ASSUME SourceMoves
  PROVE  UNCHANGED <<lpc, cur, wake_pending, readable, queue, linked, tasks, status, noted, hasTask,
                     inflight, sub, freed, called, mistaken, stopped, stops, uses, watched,
                     reported, timers, due, firing, pc, held>>
BY DEF SourceMoves, EventAdd, EventDel, loop, done, wake, pool, submit, ended, stop, clock

LEMMA SubmitFrame ==
  ASSUME SubmitMoves
  PROVE  UNCHANGED <<lpc, cur, wake_pending, readable, queue, linked, noted, freed, called,
                     mistaken, stopped, stops, uses, watched, reported, sources, timers, due,
                     firing, pc, held>>
BY DEF SubmitMoves, SubmitSettle, SubmitTask, loop, done, wake, pool, ended, stop, turn, clock

LEMMA StutterFrame ==
  ASSUME UNCHANGED vars
  PROVE  UNCHANGED <<lpc, cur, wake_pending, readable, queue, linked, tasks, status, noted, hasTask,
                     inflight, sub, freed, called, mistaken, stopped, stops, uses, watched,
                     reported, sources, timers, due, firing, pc, held>>
BY DEF vars, loop, done, wake, pool, submit, ended, stop, turn, clock

LEMMA Kinds ==
  ASSUME [Next]_vars
  PROVE  \/ \E c \in Callers : Caller(c)
         \/ \E a \in Pushers : Pusher(a)
         \/ \E k \in Workers : Worker(k)
         \/ LoopMoves \/ ClockMoves \/ SourceMoves \/ SubmitMoves \/ UNCHANGED vars
BY DEF Next, LoopMoves, ClockMoves, SourceMoves, SubmitMoves

-------------------------------------------------------------------------------
(* Types. *)
LEMMA InitTyped == Init => Typed
<1> SUFFICES ASSUME Init PROVE Typed
  OBVIOUS
<1>1. LoopTyped
  <2>1. stopped \in BOOLEAN /\ wake_pending \in BOOLEAN /\ readable \in BOOLEAN
    BY Zenon DEF Init
  <2>2. lpc \in LoopSteps /\ cur \in Jobs \cup {NULL} /\ (lpc = "join" <=> cur # NULL)
    BY DEF Init, LoopSteps
  <2>3. stops \in 0..MaxStops /\ uses \in Programs
    BY ConstantsAssumption DEF Init
  <2> QED BY <2>1, <2>2, <2>3 DEF LoopTyped
<1>2. Stepped
  <2>1. pc \in [Pushers -> PushSteps] /\ held \in [Pushers -> Items \cup {NULL}]
    BY DEF Init, PushSteps
  <2>2. \A a \in Pushers : pc[a] = "idle" /\ held[a] = NULL
    BY DEF Init
  <2> QED BY <2>1, <2>2 DEF Stepped, Pushers
<1>3. ItemsTyped
  <2>1. queue \in Seq(Items) /\ tasks \in Seq(Jobs)
    BY EmptySeq DEF Init
  <2>2. status \in [Jobs -> Statuses] /\ called \in [Items \cup Timers -> Nat]
    BY DEF Init, Statuses
  <2> QED BY <2>1, <2>2 DEF Init, ItemsTyped
<1>4. TurnTyped
  BY DEF Init, TurnTyped
<1> QED BY <1>1, <1>2, <1>3, <1>4 DEF Typed

LEMMA LoopTypedNext ==
  ASSUME Typed, [Next]_vars
  PROVE  LoopTyped'
<1> USE DEF LoopTyped, Typed
<1>1. ASSUME NEW c \in Callers, Caller(c) PROVE LoopTyped'
  <2>1. stopped' \in BOOLEAN
    BY <1>1, Zenon DEF Caller, Post, WorkCancel, Stop, TimerAt, stop
  <2>2. stops' \in 0..MaxStops
    BY <1>1, ConstantsAssumption DEF Caller, Post, WorkCancel, Stop, TimerAt, stop
  <2> QED BY <1>1, <2>1, <2>2, CallerFrame
<1>2. ASSUME NEW a \in Pushers, Pusher(a) PROVE LoopTyped'
  <2>1. wake_pending' \in BOOLEAN /\ readable' \in BOOLEAN
    BY <1>2, Zenon DEF Pusher, PushSwap, PushLink, WakeFlag, WakeWrite, wake
  <2> QED BY <1>2, <2>1, PusherFrame
<1>3. CASE LoopMoves
  <2>1. stopped' \in BOOLEAN
    BY <1>3, Zenon DEF LoopMoves, LoopStep, Run, Destroy, Turn, WaitReturns, Event, WakeDrain,
       Dispatch, Join, DispatchEnds, Expire, Fire, Sweep, Drained, stop
  <2>2. wake_pending' \in BOOLEAN /\ readable' \in BOOLEAN
    BY <1>3, Zenon DEF LoopMoves, LoopStep, Run, Destroy, Turn, WaitReturns, Event, WakeDrain,
       Dispatch, Join, DispatchEnds, Expire, Fire, Sweep, Drained, wake
  <2>3. lpc' \in LoopSteps /\ cur' \in Jobs \cup {NULL} /\ (lpc' = "join" <=> cur' # NULL)
    <3>1. CASE Dispatch
      <4>1. CASE UNCHANGED loop
        BY <4>1 DEF loop
      <4>2. CASE Head(queue) \in hasTask /\ lpc' = "join" /\ cur' = Head(queue)
        BY <4>2, ConstantsAssumption DEF ItemsTyped, LoopSteps, Items
      <4> QED BY <3>1, <4>1, <4>2 DEF Dispatch
    <3>2. CASE Join
      BY <3>2 DEF Join, LoopSteps
    <3>3. CASE Turn \/ WaitReturns \/ WakeDrain \/ DispatchEnds \/ Run \/ Destroy
      BY <3>3 DEF Turn, WaitReturns, WakeDrain, DispatchEnds, Run, Destroy, At, LoopSteps
    <3>4. CASE Expire \/ Fire \/ Sweep \/ Drained \/ \E e \in Sources \cup {WAKE} : Event(e)
      BY <3>4 DEF Expire, Fire, Sweep, Drained, Event, At, LoopSteps, loop
    <3> QED BY <1>3, <3>1, <3>2, <3>3, <3>4 DEF LoopMoves, LoopStep
  <2> QED BY <1>3, <2>1, <2>2, <2>3, LoopFrame
<1> QED BY <1>1, <1>2, <1>3, WorkerFrame, ClockFrame, SourceFrame, SubmitFrame, StutterFrame, Kinds

LEMMA SteppedNext ==
  ASSUME Typed, [Next]_vars
  PROVE  Stepped'
<1> USE DEF Stepped, Typed
<1> USE ConstantsAssumption DEF Pushers, PushSteps
<1>1. ASSUME NEW c \in Callers, Caller(c) PROVE Stepped'
  <2>1. PICK x \in {"push", "wake"}, i \in Items \cup {NULL} :
          /\ pc' = [pc EXCEPT ![c] = x] /\ held' = [held EXCEPT ![c] = i]
          /\ x = "push" => i # NULL
    <3>1. CASE Post(c)
      BY <3>1 DEF Post, Items
    <3>2. CASE WorkCancel(c)
      <4>1. PICK j \in hasTask :
              held' = [held EXCEPT ![c] = j] /\ pc' = [pc EXCEPT ![c] = "push"]
        BY <3>2 DEF WorkCancel
      <4>2. j \in Items /\ j # NULL
        BY DEF Items, ItemsTyped
      <4> QED BY <4>1, <4>2
    <3>3. CASE Stop(c) \/ TimerAt(c)
      BY <3>3 DEF Stop, TimerAt
    <3> QED BY <1>1, <3>1, <3>2, <3>3 DEF Caller
  <2> QED BY <2>1
<1>2. ASSUME NEW a \in Pushers, Pusher(a) PROVE Stepped'
  <2>1. CASE PushSwap(a) \/ PushLink(a)
    BY <2>1 DEF PushSwap, PushLink
  <2>2. CASE WakeFlag(a) /\ ~wake_pending
    BY <2>2 DEF WakeFlag
  <2>3. CASE WakeWrite(a) \/ (WakeFlag(a) /\ wake_pending)
    <3>1. pc[a] \in {"wake", "write"} /\ pc' = [pc EXCEPT ![a] = Home(a)] /\ held' = Drops(a)
      BY <2>3 DEF WakeWrite, WakeFlag
    <3> QED BY <3>1 DEF Home, Drops
  <2> QED BY <1>2, <2>1, <2>2, <2>3 DEF Pusher
<1>3. ASSUME NEW k \in Workers, Worker(k) PROVE Stepped'
  <2>1. CASE WorkerTake(k)
    <3>1. Head(tasks) \in Jobs /\ Head(tasks) # NULL
      BY <2>1, HeadTailProperties DEF WorkerTake, ItemsTyped, Items
    <3>2. PICK x \in {"run", "note"} :
            pc' = [pc EXCEPT ![k] = x] /\ held' = [held EXCEPT ![k] = Head(tasks)]
      BY <2>1 DEF WorkerTake
    <3> QED BY <3>1, <3>2 DEF Items
  <2>2. CASE WorkerRun(k)
    BY <2>2 DEF WorkerRun, Items
  <2>3. CASE WorkerNote(k)
    BY <2>3 DEF WorkerNote
  <2> QED BY <1>3, <2>1, <2>2, <2>3 DEF Worker
<1> QED BY <1>1, <1>2, <1>3, LoopFrame, ClockFrame, SourceFrame, SubmitFrame, StutterFrame, Kinds

LEMMA ItemsTypedNext ==
  ASSUME Typed, [Next]_vars
  PROVE  ItemsTyped'
<1> USE DEF ItemsTyped, Typed
<1>1. ASSUME NEW c \in Callers, Caller(c) PROVE ItemsTyped'
  <2>1. status' \in [Jobs -> Statuses]
    BY <1>1 DEF Caller, Post, WorkCancel, Stop, TimerAt, pool, Statuses
  <2> QED BY <1>1, <2>1, CallerFrame
<1>2. ASSUME NEW a \in Pushers, Pusher(a) PROVE ItemsTyped'
  <2>1. CASE PushSwap(a)
    <3>1. held[a] \in Items
      BY <2>1 DEF PushSwap, Stepped
    <3> QED BY <1>2, <2>1, <3>1, PusherFrame, AppendProperties DEF PushSwap
  <2>2. CASE PushLink(a)
    <3>1. held[a] \in Items
      BY <2>2 DEF PushLink, Stepped
    <3> QED BY <1>2, <2>2, <3>1, PusherFrame DEF PushLink
  <2>3. CASE WakeFlag(a) \/ WakeWrite(a)
    BY <1>2, <2>3, PusherFrame DEF WakeFlag, WakeWrite, done
  <2> QED BY <1>2, <2>1, <2>2, <2>3 DEF Pusher
<1>3. ASSUME NEW k \in Workers, Worker(k) PROVE ItemsTyped'
  <2>1. CASE WorkerTake(k)
    <3>1. Head(tasks) \in Jobs /\ Tail(tasks) \in Seq(Jobs)
      BY <2>1, HeadTailProperties DEF WorkerTake
    <3>2. status' \in [Jobs -> Statuses]
      BY <2>1, <3>1 DEF WorkerTake, Statuses
    <3> QED BY <1>3, <2>1, <3>1, <3>2, WorkerFrame DEF WorkerTake
  <2>2. CASE WorkerRun(k)
    BY <1>3, <2>2, WorkerFrame DEF WorkerRun, pool
  <2>3. CASE WorkerNote(k)
    <3>1. held[k] \in Jobs
      BY <2>3 DEF WorkerNote, Stepped
    <3>2. status' \in [Jobs -> Statuses]
      BY <2>3, <3>1 DEF WorkerNote, Statuses
    <3> QED BY <1>3, <2>3, <3>1, <3>2, WorkerFrame DEF WorkerNote
  <2> QED BY <1>3, <2>1, <2>2, <2>3 DEF Worker
<1>4. CASE LoopMoves
  <2>1. CASE Dispatch
    <3>1. Head(queue) \in Items /\ Tail(queue) \in Seq(Items)
      <4>1. queue # <<>>
        BY <2>1 DEF Dispatch, CanPop, QueueLooksEmpty
      <4> QED BY <4>1, HeadTailProperties
    <3>2. CASE UNCHANGED ended
      BY <1>4, <2>1, <3>1, <3>2, LoopFrame DEF Dispatch, ended
    <3>3. CASE Finish(Head(queue), TRUE) /\ mistaken' = mistaken \cup ({Head(queue)} \cap Jobs)
      <4>1. called' \in [Items \cup Timers -> Nat] /\ freed' \subseteq Items
        BY <3>1, <3>3 DEF Finish
      <4> QED BY <1>4, <2>1, <3>1, <3>3, <4>1, LoopFrame DEF Dispatch
    <3> QED BY <2>1, <3>2, <3>3 DEF Dispatch
  <2>2. CASE Join
    <3>1. cur \in Items
      BY <2>2 DEF Join, At, LoopTyped, Items
    <3>2. called' \in [Items \cup Timers -> Nat] /\ freed' \subseteq Items
      BY <2>2, <3>1 DEF Join, Finish
    <3> QED BY <1>4, <2>2, <3>2, LoopFrame DEF Join, done
  <2>3. CASE Fire
    <3>1. PICK t \in firing : called' = [called EXCEPT ![t] = @ + 1]
      BY <2>3 DEF Fire
    <3>2. called' \in [Items \cup Timers -> Nat]
      BY <3>1 DEF TurnTyped
    <3> QED BY <1>4, <2>3, <3>2, LoopFrame DEF Fire, done
  <2>4. CASE Drained
    <3>1. queue' \in Seq(Items)
      BY <2>4, EmptySeq DEF Drained
    <3>2. {queue[i] : i \in DOMAIN queue} \subseteq Items
      OBVIOUS
    <3> QED BY <1>4, <2>4, <3>1, <3>2, LoopFrame DEF Drained
  <2>5. ASSUME \/ Turn \/ WaitReturns \/ WakeDrain \/ DispatchEnds \/ Run \/ Destroy
               \/ Expire \/ Sweep \/ \E e \in Sources \cup {WAKE} : Event(e)
        PROVE ItemsTyped'
    <3>1. UNCHANGED <<queue, linked, freed, called, mistaken>>
      BY <2>5 DEF Turn, WaitReturns, WakeDrain, DispatchEnds, Run, Destroy, Expire, Sweep, Event,
                  done, ended
    <3> QED BY <1>4, <3>1, LoopFrame
  <2> QED BY <1>4, <2>1, <2>2, <2>3, <2>4, <2>5 DEF LoopMoves, LoopStep
<1>5. CASE SubmitMoves
  <2>1. CASE SubmitSettle
    BY <1>5, <2>1, SubmitFrame DEF SubmitSettle, pool
  <2>2. ASSUME NEW j \in Jobs, SubmitTask(j) PROVE ItemsTyped'
    BY <1>5, <2>2, SubmitFrame, AppendProperties DEF SubmitTask, Statuses
  <2> QED BY <1>5, <2>1, <2>2 DEF SubmitMoves
<1> QED BY <1>1, <1>2, <1>3, <1>4, <1>5, ClockFrame, SourceFrame, StutterFrame, Kinds

LEMMA TurnTypedNext ==
  ASSUME Typed, [Next]_vars
  PROVE  TurnTyped'
<1> USE DEF TurnTyped, Typed
<1>1. ASSUME NEW c \in Callers, Caller(c) PROVE TurnTyped'
  <2>1. CASE TimerAt(c)
    <3>1. PICK t \in Timers : timers[t] = "new" /\ timers' = [timers EXCEPT ![t] = "armed"]
      BY <2>1 DEF TimerAt
    <3> QED BY <1>1, <3>1, CallerFrame
  <2>2. CASE Post(c) \/ WorkCancel(c) \/ Stop(c)
    <3>1. timers' = timers
      BY <2>2 DEF Post, WorkCancel, Stop, turn, clock
    <3> QED BY <1>1, <3>1, CallerFrame
  <2> QED BY <1>1, <2>1, <2>2 DEF Caller
<1>2. CASE ClockMoves
  <2>1. CASE TimerCancel
    <3>1. PICK t \in Timers : /\ timers[t] = "armed" /\ timers' = [timers EXCEPT ![t] = "cancelled"]
                               /\ due' = due \ {t}
      BY <2>1 DEF TimerCancel
    <3> QED BY <1>2, <3>1, ClockFrame
  <2>2. CASE TimePasses
    <3>1. timers' = timers
      BY <2>2 DEF TimePasses
    <3> QED BY <1>2, <2>2, <3>1, ClockFrame DEF TimePasses
  <2> QED BY <1>2, <2>1, <2>2 DEF ClockMoves
<1>3. CASE SourceMoves
  <2>1. sources' \in [Sources -> {"new", "live", "deleted", "freed"}]
    BY <1>3 DEF SourceMoves, EventAdd, EventDel
  <2> QED BY <1>3, <2>1, SourceFrame
<1>4. CASE LoopMoves
  <2>1. watched' \subseteq Timers
    BY <1>4 DEF LoopMoves, LoopStep, Run, Destroy, Turn, WaitReturns, Event, WakeDrain,
       Dispatch, Join, DispatchEnds, Expire, Fire, Sweep, Drained, turn
  <2>2. reported' \subseteq Sources \cup {WAKE}
    BY <1>4 DEF LoopMoves, LoopStep, Run, Destroy, Turn, WaitReturns, Event, WakeDrain,
       Dispatch, Join, DispatchEnds, Expire, Fire, Sweep, Drained, turn
  <2>3. sources' \in [Sources -> {"new", "live", "deleted", "freed"}]
    BY <1>4 DEF LoopMoves, LoopStep, Run, Destroy, Turn, WaitReturns, Event, WakeDrain,
       Dispatch, Join, DispatchEnds, Expire, Fire, Sweep, Drained, Swept, turn
  <2>4. /\ timers' \in [Timers -> {"new", "armed", "fired", "cancelled", "dropped"}]
        /\ due' \subseteq {t \in Timers : timers'[t] = "armed"} /\ firing' \subseteq Timers
    BY <1>4 DEF LoopMoves, LoopStep, Run, Destroy, Turn, WaitReturns, Event, WakeDrain,
       Dispatch, Join, DispatchEnds, Expire, Fire, Sweep, Drained, turn, clock
  <2> QED BY <2>1, <2>2, <2>3, <2>4
<1>5. UNCHANGED <<watched, reported, sources, timers, due, firing>> => TurnTyped'
  OBVIOUS
<1> QED BY <1>1, <1>2, <1>3, <1>4, <1>5, PusherFrame, WorkerFrame, SubmitFrame, StutterFrame, Kinds

LEMMA TypedNext ==
  ASSUME Typed, [Next]_vars
  PROVE  Typed'
BY LoopTypedNext, SteppedNext, ItemsTypedNext, TurnTypedNext DEF Typed

-------------------------------------------------------------------------------
LEMMA TimerNext ==
  ASSUME Typed, TimerInv, [Next]_vars
  PROVE  TimerInv'
<1> USE DEF TimerInv, CancelIsTrue
<1>0. /\ timers \in [Timers -> {"new", "armed", "fired", "cancelled", "dropped"}]
      /\ due \subseteq {t \in Timers : timers[t] = "armed"} /\ firing \subseteq Timers
      /\ called \in [Items \cup Timers -> Nat] /\ Timers \cap Items = {}
  BY ConstantsAssumption DEF Typed, TurnTyped, ItemsTyped
<1>1. UNCHANGED <<timers, firing, called, lpc>> => TimerInv'
  OBVIOUS
<1>2. ASSUME NEW c \in Callers, Caller(c) PROVE TimerInv'
  <2>1. CASE TimerAt(c)
    <3>1. PICK t \in Timers : timers[t] = "new" /\ timers' = [timers EXCEPT ![t] = "armed"]
      BY <2>1 DEF TimerAt
    <3> QED BY <1>0, <1>2, <3>1, CallerFrame
  <2>2. CASE Post(c) \/ WorkCancel(c) \/ Stop(c)
    <3>1. timers' = timers
      BY <2>2 DEF Post, WorkCancel, Stop, turn, clock
    <3> QED BY <1>1, <1>2, <3>1, CallerFrame
  <2> QED BY <1>2, <2>1, <2>2 DEF Caller
<1>3. CASE ClockMoves
  <2>1. CASE TimerCancel
    <3>1. PICK t \in Timers : timers[t] = "armed" /\ timers' = [timers EXCEPT ![t] = "cancelled"]
      BY <2>1 DEF TimerCancel
    <3> QED BY <1>0, <1>3, <3>1, ClockFrame
  <2>2. CASE TimePasses
    BY <1>1, <1>3, <2>2, ClockFrame DEF TimePasses
  <2> QED BY <1>3, <2>1, <2>2 DEF ClockMoves
<1>4. CASE LoopMoves
  <2>1. CASE Expire
    <3>1. firing = {} /\ firing' = due /\ lpc' = "fire" /\ called' = called
      BY <2>1 DEF Expire, At, ended
    <3>2. \A t \in Timers : timers'[t] = IF t \in due THEN "fired" ELSE timers[t]
      BY <2>1 DEF Expire
    <3> QED BY <1>0, <3>1, <3>2
  <2>2. CASE Fire
    <3>1. PICK t \in firing : firing' = firing \ {t} /\ called' = [called EXCEPT ![t] = @ + 1]
      BY <2>2 DEF Fire
    <3>2. timers' = timers /\ lpc' = "fire"
      BY <2>2 DEF Fire, At, loop
    <3> QED BY <1>0, <3>1, <3>2
  <2>3. CASE Sweep
    BY <1>0, <2>3 DEF Sweep, At, clock, ended
  <2>4. CASE Destroy
    <3>1. \A t \in Timers : timers'[t] = IF timers[t] = "armed" THEN "dropped" ELSE timers[t]
      BY <2>4 DEF Destroy
    <3> QED BY <1>0, <2>4, <3>1 DEF Destroy, At, ended
  <2>5. ASSUME Turn \/ WaitReturns \/ WakeDrain \/ DispatchEnds \/ Run \/ Drained
               \/ \E e \in Sources \cup {WAKE} : Event(e)
        PROVE TimerInv'
    <3>1. UNCHANGED <<timers, firing, called>> /\ lpc # "fire"
      BY <2>5 DEF Turn, WaitReturns, WakeDrain, DispatchEnds, Run, Drained, Event, At,
                  turn, clock, ended
    <3> QED BY <3>1
  <2>6. CASE Dispatch \/ Join
    <3>1. UNCHANGED <<timers, firing>> /\ lpc # "fire"
      BY <2>6 DEF Dispatch, Join, At, turn, clock
    <3>2. \A t \in Timers : called'[t] = called[t]
      <4>1. called' = called \/ \E i, n : called' = [called EXCEPT ![i] = n] /\ i \in Items
        <5>1. CASE Join
          BY <5>1 DEF Join, Finish, At, Typed, LoopTyped, Items
        <5>2. CASE Dispatch
          <6>1. Head(queue) \in Items
            <7>1. queue # <<>>
              BY <5>2 DEF Dispatch, CanPop, QueueLooksEmpty
            <7> QED BY <7>1, HeadTailProperties DEF Typed, ItemsTyped
          <6> QED BY <5>2, <6>1 DEF Dispatch, Finish, ended
        <5> QED BY <2>6, <5>1, <5>2
      <4> QED BY <1>0, <4>1
    <3> QED BY <3>1, <3>2
  <2> QED BY <1>4, <2>1, <2>2, <2>3, <2>4, <2>5, <2>6 DEF LoopMoves, LoopStep
<1> QED BY <1>1, <1>2, <1>3, <1>4, PusherFrame, WorkerFrame, SourceFrame, SubmitFrame, StutterFrame, Kinds

LEMMA SourceNext ==
  ASSUME Typed, SourceInv, [Next]_vars
  PROVE  SourceInv'
<1> USE DEF SourceInv, SourcesStay
<1>0. /\ sources \in [Sources -> {"new", "live", "deleted", "freed"}]
      /\ reported \subseteq Sources \cup {WAKE} /\ WAKE \notin Sources
  BY ConstantsAssumption DEF Typed, TurnTyped
<1>1. UNCHANGED <<sources, reported, lpc>> => SourceInv'
  OBVIOUS
<1>2. CASE SourceMoves
  <2>1. PICK s \in Sources, x \in {"live", "deleted"} : sources' = [sources EXCEPT ![s] = x]
    BY <1>2 DEF SourceMoves, EventAdd, EventDel
  <2> QED BY <1>0, <1>2, <2>1, SourceFrame
<1>3. CASE LoopMoves
  <2>1. CASE WaitReturns
    BY <1>0, <2>1 DEF WaitReturns, At
  <2>2. ASSUME NEW e \in Sources \cup {WAKE}, Event(e) PROVE SourceInv'
    BY <2>2 DEF Event, At
  <2>3. CASE Sweep
    BY <2>3 DEF Sweep, At
  <2>4. CASE Expire
    BY <2>4 DEF Expire, At
  <2>5. CASE Drained
    BY <2>5 DEF Drained, At
  <2>6. CASE Turn \/ Run \/ Destroy \/ Fire
    BY <2>6 DEF Turn, Run, Destroy, Fire, At, turn, loop
  <2>7. CASE WakeDrain \/ Dispatch \/ Join \/ DispatchEnds
    BY <2>7 DEF WakeDrain, Dispatch, Join, DispatchEnds, At, turn, loop
  <2> QED BY <1>3, <2>1, <2>2, <2>3, <2>4, <2>5, <2>6, <2>7 DEF LoopMoves, LoopStep
<1> QED BY <1>1, <1>2, <1>3, CallerFrame, PusherFrame, WorkerFrame, ClockFrame, SubmitFrame,
           StutterFrame, Kinds

(* The four parts of WakeInv rest on few variables. *)
LEMMA SameWake ==
  ASSUME WakeInv, UNCHANGED <<lpc, wake_pending, readable, queue, linked, stopped, watched>>,
         \A a \in Pushers : pc[a] \in {"wake", "write"} => pc'[a] = pc[a],
         \A t \in Timers \ watched : timers'[t] = "armed" => timers[t] = "armed"
  PROVE  WakeInv'
BY DEF WakeInv, QueueLooksEmpty, Signal

LEMMA CallerWake ==
  ASSUME Typed, WakeInv, NEW c \in Callers, Caller(c)
  PROVE  WakeInv'
<1>1. UNCHANGED <<lpc, wake_pending, readable, queue, linked, watched>>
  BY CallerFrame
<1>2. pc[c] = "idle" /\ c \in Pushers /\ pc \in [Pushers -> PushSteps]
  BY DEF Caller, Post, WorkCancel, Stop, TimerAt, Typed, Stepped, Pushers
<1>3. CASE Post(c) \/ WorkCancel(c)
  <2>1. pc' = [pc EXCEPT ![c] = "push"] /\ UNCHANGED <<stopped, timers>>
    BY <1>3 DEF Post, WorkCancel, stop, turn, clock
  <2>2. \A a \in Pushers : pc[a] \in {"wake", "write"} => pc'[a] = pc[a]
    BY <1>2, <2>1
  <2> QED BY <1>1, <2>1, <2>2, SameWake
<1>4. CASE Stop(c) \/ TimerAt(c)
  <2>1. pc' = [pc EXCEPT ![c] = "wake"]
    BY <1>4 DEF Stop, TimerAt
  <2>2. pc'[c] = "wake" /\ \A a \in Pushers : pc[a] = "write" => pc'[a] = "write"
    BY <1>2, <2>1
  <2>3. Signal'
    BY <1>2, <2>2 DEF Signal
  <2> QED BY <1>1, <2>2, <2>3 DEF WakeInv
<1> QED BY <1>3, <1>4 DEF Caller

LEMMA PusherWake ==
  ASSUME Typed, WakeInv, QueueInv, NEW a \in Pushers, Pusher(a)
  PROVE  WakeInv'
<1>1. UNCHANGED <<lpc, stopped, watched, timers>>
  BY PusherFrame
<1>2. pc \in [Pushers -> PushSteps] /\ queue \in Seq(Items)
  BY DEF Typed, Stepped, ItemsTyped
<1>3. CASE PushSwap(a)
  <2>1. /\ pc[a] = "push" /\ pc' = [pc EXCEPT ![a] = "link"] /\ queue' = Append(queue, held[a])
        /\ UNCHANGED <<linked, wake_pending, readable>> /\ held[a] \in Items
    BY <1>3 DEF PushSwap, wake, Typed, Stepped
  <2>2. \A b \in Pushers : pc[b] \in {"wake", "write"} => pc'[b] = pc[b]
    BY <1>2, <2>1
  <2>3. QueueLooksEmpty => QueueLooksEmpty'
    <3>1. CASE queue = <<>>
      <4>1. linked = {}
        BY <3>1 DEF QueueInv, Elems
      <4> QED BY <2>1, <4>1 DEF QueueLooksEmpty
    <3>2. CASE queue # <<>>
      <4>1. Head(queue') = Head(queue)
        BY <1>2, <2>1, <3>2, AppendProperties, EmptySeq, LenProperties
      <4> QED BY <2>1, <3>2, <4>1 DEF QueueLooksEmpty
    <3> QED BY <3>1, <3>2
  <2> QED BY <1>1, <2>1, <2>2, <2>3 DEF WakeInv, Signal
<1>4. CASE PushLink(a)
  <2>1. /\ pc[a] = "link" /\ pc' = [pc EXCEPT ![a] = "wake"]
        /\ UNCHANGED <<wake_pending, readable>>
    BY <1>4 DEF PushLink, wake
  <2>2. pc'[a] = "wake" /\ \A b \in Pushers : pc[b] = "write" => pc'[b] = "write"
    BY <1>2, <2>1
  <2>3. Signal'
    BY <2>2 DEF Signal
  <2> QED BY <1>1, <2>1, <2>2, <2>3 DEF WakeInv
<1>5. CASE WakeFlag(a) /\ wake_pending
  <2>1. /\ pc[a] = "wake" /\ pc' = [pc EXCEPT ![a] = Home(a)]
        /\ UNCHANGED <<wake_pending, readable, queue, linked>>
    BY <1>5 DEF WakeFlag, done
  <2>2. \A b \in Pushers : pc[b] = "write" => pc'[b] = "write"
    BY <1>2, <2>1
  <2>3. lpc # "clear" => Signal'
    BY <1>5, <2>1, <2>2 DEF WakeInv, Signal
  <2> QED BY <1>1, <2>1, <2>2, <2>3 DEF WakeInv, QueueLooksEmpty
<1>6. CASE WakeFlag(a) /\ ~wake_pending
  <2>1. pc' = [pc EXCEPT ![a] = "write"]
    BY <1>6 DEF WakeFlag
  <2>2. pc'[a] = "write"
    BY <1>2, <2>1
  <2> QED BY <1>1, <2>2 DEF WakeInv, Signal
<1>7. CASE WakeWrite(a)
  <2>1. readable'
    BY <1>7, Zenon DEF WakeWrite
  <2> QED BY <2>1 DEF WakeInv, Signal
<1> QED BY <1>3, <1>4, <1>5, <1>6, <1>7 DEF Pusher

LEMMA WorkerWake ==
  ASSUME Typed, WakeInv, NEW k \in Workers, Worker(k)
  PROVE  WakeInv'
<1>1. k \in Pushers /\ pc \in [Pushers -> PushSteps]
  BY DEF Typed, Stepped, Pushers
<1>2. pc[k] \notin {"wake", "write"} /\ \E x : pc' = [pc EXCEPT ![k] = x]
  BY DEF Worker, WorkerTake, WorkerRun, WorkerNote
<1>3. \A a \in Pushers : pc[a] \in {"wake", "write"} => pc'[a] = pc[a]
  BY <1>1, <1>2
<1> QED BY <1>3, WorkerFrame, SameWake

LEMMA LoopWake ==
  ASSUME Typed, WakeInv, LoopMoves
  PROVE  WakeInv'
<1> USE DEF WakeInv
<1>1. pc' = pc
  BY LoopFrame
<1>2. CASE Turn \/ Run
  <2>1. UNCHANGED <<wake_pending, readable, queue, linked, timers>>
    BY <1>2 DEF Turn, Run, wake, done, turn, clock
  <2>2. CASE Run
    BY <1>1, <2>1, <2>2 DEF Run, At, QueueLooksEmpty, Signal
  <2>3. CASE Turn /\ lpc' = "out"
    BY <1>1, <2>1, <2>3 DEF Turn, At, QueueLooksEmpty, Signal
  <2>4. CASE Turn /\ ~stopped /\ lpc' = "wait" /\ watched' = {t \in Timers : timers[t] = "armed"}
    BY <1>1, <2>1, <2>4 DEF Turn, At, stop, QueueLooksEmpty, Signal
  <2> QED BY <1>2, <2>2, <2>3, <2>4 DEF Turn
<1>3. CASE WakeDrain
  <2>1. UNCHANGED <<queue, linked, stopped, watched, timers>>
    BY <1>3 DEF WakeDrain, done, stop, turn, clock
  <2>2. CASE lpc' = "clear"
    BY <2>2
  <2>3. CASE lpc' = "dispatch" /\ wake_pending' = FALSE
    BY <2>3
  <2> QED BY <1>3, <2>2, <2>3 DEF WakeDrain
<1>4. CASE Dispatch \/ Join
  <2>1. lpc' \in {"dispatch", "join"} /\ lpc \in {"dispatch", "join"} /\ UNCHANGED <<wake_pending, readable>>
    BY <1>4 DEF Dispatch, Join, At, wake, loop
  <2> QED BY <1>1, <2>1
<1>5. CASE DispatchEnds
  <2>1. /\ QueueLooksEmpty /\ lpc = "dispatch" /\ lpc' = "events"
        /\ UNCHANGED <<wake_pending, readable, queue, linked>>
    BY <1>5 DEF DispatchEnds, At, wake, done
  <2> QED BY <1>1, <2>1 DEF QueueLooksEmpty
<1>6. CASE Drained
  <2>1. /\ queue' = <<>> /\ lpc = "drain" /\ lpc' = "gone" /\ UNCHANGED <<wake_pending, readable>>
    BY <1>6 DEF Drained, At, wake
  <2> QED BY <1>1, <2>1 DEF QueueLooksEmpty
<1>7. ASSUME WaitReturns \/ Expire \/ Fire \/ Sweep \/ Destroy \/ \E e \in Sources \cup {WAKE} : Event(e)
      PROVE WakeInv'
  <2>1. /\ lpc \notin {"clear", "dispatch", "join"} /\ lpc' # "wait"
        /\ UNCHANGED <<wake_pending, readable, queue, linked>>
    BY <1>7 DEF WaitReturns, Expire, Fire, Sweep, Destroy, Event, At, wake, done, loop
  <2> QED BY <1>1, <2>1 DEF QueueLooksEmpty, Signal
<1> QED BY LoopMoves, <1>2, <1>3, <1>4, <1>5, <1>6, <1>7 DEF LoopMoves, LoopStep

LEMMA WakeNext ==
  ASSUME Typed, WakeInv, QueueInv, [Next]_vars
  PROVE  WakeInv'
<1>1. CASE ClockMoves
  <2>1. \A t \in Timers : timers'[t] = "armed" => timers[t] = "armed"
    <3>1. CASE TimerCancel
      BY <3>1 DEF TimerCancel, Typed, TurnTyped
    <3>2. CASE TimePasses
      BY <3>2 DEF TimePasses
    <3> QED BY <1>1, <3>1, <3>2 DEF ClockMoves
  <2> QED BY <1>1, <2>1, ClockFrame, SameWake
<1>2. CASE SourceMoves
  BY <1>2, SourceFrame, SameWake
<1>3. CASE SubmitMoves
  BY <1>3, SubmitFrame, SameWake
<1>4. CASE UNCHANGED vars
  BY <1>4, StutterFrame, SameWake
<1> QED BY <1>1, <1>2, <1>3, <1>4, CallerWake, PusherWake, WorkerWake, LoopWake, Kinds

-------------------------------------------------------------------------------
(* Items.  The guards of the pop: the first item is linked. *)
LEMMA Popped ==
  ASSUME Typed, QueueInv, CanPop
  PROVE  /\ queue # <<>> /\ Head(queue) \in Items /\ Head(queue) \in linked
         /\ Head(queue) \in Elems(queue) /\ Once(Tail(queue))
         /\ Elems(Tail(queue)) = Elems(queue) \ {Head(queue)}
<1>1. queue # <<>> /\ Head(queue) \in linked /\ Once(queue) /\ queue \in Seq(Items)
  BY DEF CanPop, QueueLooksEmpty, QueueInv, Typed, ItemsTyped
<1> QED BY <1>1, ListTail

LEMMA CallerQueue ==
  ASSUME Typed, QueueInv, PlaceInv, NEW c \in Callers, Caller(c)
  PROVE  QueueInv'
<1> USE DEF QueueInv
<1>1. UNCHANGED <<cur, queue, linked, freed>>
  BY CallerFrame
<1>2. /\ c \in Pushers /\ pc \in [Pushers -> PushSteps] /\ held \in [Pushers -> Items \cup {NULL}]
      /\ cur \in Jobs \cup {NULL} /\ Posts \cap Jobs = {} /\ NULL \notin Items
  BY ConstantsAssumption DEF Typed, Stepped, LoopTyped, Pushers
<1>3. ASSUME NEW i \in Items, i \notin Elems(queue) \cup freed \cup {cur}, \A a \in Pushers : held[a] # i,
             pc' = [pc EXCEPT ![c] = "push"], held' = [held EXCEPT ![c] = i]
      PROVE  QueueInv'
  <2>1. /\ pc'[c] = "push" /\ held'[c] = i
        /\ \A a \in Pushers \ {c} : pc'[a] = pc[a] /\ held'[a] = held[a]
    BY <1>2, <1>3
  <2>2. \A a \in Pushers \ {c} : held'[a] # i
    BY <1>3, <2>1
  <2> QED BY <1>1, <1>3, <2>1, <2>2 DEF Carrying
<1>4. CASE Post(c)
  <2>1. PICK i \in Posts :
          /\ i \notin freed /\ (\A n \in DOMAIN queue : queue[n] # i) /\ (\A a \in Pushers : held[a] # i)
          /\ held' = [held EXCEPT ![c] = i]
    BY <1>4 DEF Post
  <2>2. i \in Items /\ i \notin Elems(queue) \cup freed \cup {cur}
    BY <1>2, <2>1 DEF Elems, Items
  <2> QED BY <1>3, <1>4, <2>1, <2>2 DEF Post
<1>5. CASE WorkCancel(c)
  <2>1. PICK j \in hasTask : status[j] = "queued" /\ held' = [held EXCEPT ![c] = j]
    BY <1>5 DEF WorkCancel
  <2>2. j \in Jobs /\ j \in Items
    BY DEF Typed, ItemsTyped, Items
  <2>3. j \notin Elems(queue) \cup freed \cup {cur} /\ \A a \in Pushers : held[a] # j
    BY <2>1, <2>2 DEF PlaceInv
  <2> QED BY <1>3, <1>5, <2>1, <2>2, <2>3 DEF WorkCancel
<1>6. CASE Stop(c) \/ TimerAt(c)
  <2>1. pc' = [pc EXCEPT ![c] = "wake"] /\ held' = [held EXCEPT ![c] = NULL]
    BY <1>6 DEF Stop, TimerAt
  <2>2. pc'[c] = "wake" /\ \A a \in Pushers \ {c} : pc'[a] = pc[a] /\ held'[a] = held[a]
    BY <1>2, <2>1
  <2> QED BY <1>1, <2>2 DEF Carrying
<1> QED BY <1>4, <1>5, <1>6 DEF Caller

LEMMA PusherQueue ==
  ASSUME Typed, QueueInv, NEW a \in Pushers, Pusher(a)
  PROVE  QueueInv'
<1> USE DEF QueueInv
<1>1. UNCHANGED <<cur, freed>>
  BY PusherFrame
<1>2. /\ pc \in [Pushers -> PushSteps] /\ held \in [Pushers -> Items \cup {NULL}]
      /\ queue \in Seq(Items)
  BY DEF Typed, Stepped, ItemsTyped
<1>3. CASE PushSwap(a)
  <2>1. /\ pc[a] = "push" /\ pc' = [pc EXCEPT ![a] = "link"] /\ queue' = Append(queue, held[a])
        /\ UNCHANGED <<linked, held>> /\ held[a] \in Items
    BY <1>3 DEF PushSwap, Typed, Stepped
  <2>2. pc'[a] = "link" /\ \A b \in Pushers \ {a} : pc'[b] = pc[b] /\ held'[b] = held[b]
    BY <1>2, <2>1
  <2>3. held[a] \notin Elems(queue) \cup freed \cup {cur}
    BY <2>1
  <2>4. Once(queue') /\ Elems(queue') = Elems(queue) \cup {held[a]}
    BY <1>2, <2>1, <2>3, ListAppend
  <2>5. \A b \in Pushers \ {a} : pc[b] \in Carrying => held[b] # held[a]
    BY <2>1 DEF Carrying
  <2> QED BY <1>1, <2>1, <2>2, <2>3, <2>4, <2>5 DEF Carrying
<1>4. CASE PushLink(a)
  <2>1. /\ pc[a] = "link" /\ pc' = [pc EXCEPT ![a] = "wake"] /\ linked' = linked \cup {held[a]}
        /\ UNCHANGED <<queue, held>>
    BY <1>4 DEF PushLink
  <2>2. pc'[a] = "wake" /\ \A b \in Pushers \ {a} : pc'[b] = pc[b] /\ held'[b] = held[b]
    BY <1>2, <2>1
  <2>3. \A b \in Pushers \ {a} : pc[b] \in Carrying => held[b] # held[a]
    BY <2>1 DEF Carrying
  <2> QED BY <1>1, <2>1, <2>2, <2>3 DEF Carrying
<1>5. CASE WakeFlag(a) \/ WakeWrite(a)
  <2>1. UNCHANGED <<queue, linked>> /\ pc' \in {[pc EXCEPT ![a] = Home(a)], [pc EXCEPT ![a] = "write"]}
    BY <1>5 DEF WakeFlag, WakeWrite, done
  <2>2. held' = held \/ held' = [held EXCEPT ![a] = NULL]
    BY <1>5 DEF WakeFlag, WakeWrite, Drops
  <2>3. pc'[a] \notin Carrying /\ \A b \in Pushers \ {a} : pc'[b] = pc[b] /\ held'[b] = held[b]
    BY <1>2, <2>1, <2>2 DEF Home, Carrying
  <2> QED BY <1>1, <2>1, <2>3 DEF Carrying
<1> QED BY <1>3, <1>4, <1>5 DEF Pusher

LEMMA WorkerQueue ==
  ASSUME Typed, QueueInv, PlaceInv, NEW k \in Workers, Worker(k)
  PROVE  QueueInv'
<1> USE DEF QueueInv
<1>1. UNCHANGED <<cur, queue, linked, freed>>
  BY WorkerFrame
<1>2. k \in Pushers /\ pc \in [Pushers -> PushSteps] /\ held \in [Pushers -> Items \cup {NULL}]
  BY DEF Typed, Stepped, Pushers
<1>3. CASE WorkerTake(k)
  <2> DEFINE j == Head(tasks)
  <2>1. j \in Jobs /\ j \in Elems(tasks)
    BY <1>3, ListTail DEF WorkerTake, Typed, ItemsTyped
  <2>2. held' = [held EXCEPT ![k] = j]
    BY <1>3 DEF WorkerTake
  <2>3. CASE status[j] = "queued" /\ pc' = [pc EXCEPT ![k] = "run"]
    <3>1. j \notin Elems(queue) \cup freed \cup {cur} /\ \A a \in Pushers : held[a] # j
      BY <2>1, <2>3 DEF PlaceInv
    <3>2. /\ pc'[k] = "run" /\ held'[k] = j
          /\ \A a \in Pushers \ {k} : pc'[a] = pc[a] /\ held'[a] = held[a] /\ held'[a] # j
      BY <1>2, <2>2, <2>3, <3>1
    <3> HIDE DEF j
    <3> QED BY <1>1, <3>1, <3>2 DEF Carrying
  <2>4. CASE pc' = [pc EXCEPT ![k] = "note"]
    <3>1. pc'[k] = "note" /\ \A a \in Pushers \ {k} : pc'[a] = pc[a] /\ held'[a] = held[a]
      BY <1>2, <2>2, <2>4
    <3> QED BY <1>1, <3>1 DEF Carrying
  <2> QED BY <1>3, <2>3, <2>4 DEF WorkerTake
<1>4. CASE WorkerRun(k)
  <2>1. /\ pc[k] = "run" /\ pc'[k] = "push" /\ held' = held
        /\ \A a \in Pushers \ {k} : pc'[a] = pc[a]
    BY <1>2, <1>4 DEF WorkerRun
  <2> QED BY <1>1, <2>1 DEF Carrying
<1>5. CASE WorkerNote(k)
  <2>1. pc'[k] = "idle" /\ \A a \in Pushers \ {k} : pc'[a] = pc[a] /\ held'[a] = held[a]
    BY <1>2, <1>5 DEF WorkerNote
  <2> QED BY <1>1, <2>1 DEF Carrying
<1> QED BY <1>3, <1>4, <1>5 DEF Worker

(* Nobody pushes any more when the loop is done with the work in flight. *)
LEMMA NobodyCarries ==
  ASSUME Typed, QueueInv, PlaceInv, FlightInv, lpc = "drain", inflight = 0
  PROVE  hasTask \subseteq freed /\ \A a \in Pushers : pc[a] \notin Carrying
<1>1. hasTask \subseteq freed
  <2>1. IsFiniteSet(hasTask \ freed)
    BY FS_Subset, ConstantsAssumption DEF Typed, ItemsTyped
  <2>2. Cardinality(hasTask \ freed) = 0
    BY <2>1, FS_CardinalityType DEF FlightInv
  <2> QED BY <2>1, <2>2, FS_EmptySet
<1>2. ASSUME NEW a \in Pushers, pc[a] \in Carrying PROVE FALSE
  <2>1. a \in Workers /\ held[a] \in Jobs
    BY <1>2 DEF FlightInv, Pushers, Carrying, Typed, Stepped
  <2>2. held[a] \in freed
    <3>1. status[held[a]] = "running" /\ sub = NULL /\ held[a] # NULL
      BY <1>2, <2>1, ConstantsAssumption DEF PlaceInv, FlightInv, Working, Items
    <3> QED BY <1>1, <2>1, <3>1 DEF FlightInv
  <2> QED BY <1>2, <2>2 DEF QueueInv, Carrying
<1> QED BY <1>1, <1>2

LEMMA LoopQueue ==
  ASSUME Typed, QueueInv, PlaceInv, FlightInv, LoopMoves
  PROVE  QueueInv'
<1> USE DEF QueueInv
<1>1. pc' = pc /\ held' = held
  BY LoopFrame
<1>2. CASE Dispatch
  <2> DEFINE h == Head(queue)
  <2>1. /\ h \in linked /\ h \in Elems(queue) /\ h \in Items /\ Once(Tail(queue))
        /\ Elems(Tail(queue)) = Elems(queue) \ {h}
    BY <1>2, Popped DEF Dispatch
  <2>2. queue' = Tail(queue) /\ linked' = linked \ {h}
    BY <1>2 DEF Dispatch
  <2>3. \/ cur' = h /\ freed' = freed
        \/ cur' = cur /\ freed' = freed \cup {h}
    BY <1>2 DEF Dispatch, ended, loop, Finish
  <2> HIDE DEF h
  <2> QED BY <1>1, <2>1, <2>2, <2>3 DEF Carrying
<1>3. CASE Join
  <2>1. freed' = freed \cup {cur} /\ cur' = NULL /\ UNCHANGED <<queue, linked>>
    BY <1>3 DEF Join, Finish, done
  <2>2. NULL \notin Elems(queue) \cup freed \cup {cur}
    BY <1>3, ConstantsAssumption DEF Join, At, Typed, LoopTyped, ItemsTyped, Elems
  <2>3. \A a \in Pushers : pc[a] \in {"run", "push"} => held[a] # NULL
    BY ConstantsAssumption DEF Typed, Stepped, Items, Pushers
  <2> QED BY <1>1, <2>1, <2>2, <2>3
<1>4. CASE Drained
  <2>1. /\ queue' = <<>> /\ linked' = {} /\ cur' = cur /\ lpc = "drain" /\ inflight = 0
        /\ freed' = freed \cup Elems(queue)
    BY <1>4 DEF Drained, At, Elems
  <2>2. \A a \in Pushers : pc[a] \notin Carrying
    BY <2>1, NobodyCarries
  <2>3. Once(queue') /\ Elems(queue') = {}
    BY <2>1 DEF Once, Elems
  <2> QED BY <1>1, <2>1, <2>2, <2>3 DEF Carrying
<1>5. ASSUME \/ Turn \/ WaitReturns \/ WakeDrain \/ DispatchEnds \/ Run \/ Destroy
             \/ Expire \/ Fire \/ Sweep \/ \E e \in Sources \cup {WAKE} : Event(e)
      PROVE QueueInv'
  <2>1. UNCHANGED <<cur, queue, linked, freed>>
    BY <1>5 DEF Turn, WaitReturns, WakeDrain, DispatchEnds, Run, Destroy, Expire, Fire, Sweep, Event,
                done, ended, loop
  <2> QED BY <1>1, <2>1
<1> QED BY LoopMoves, <1>2, <1>3, <1>4, <1>5 DEF LoopMoves, LoopStep

LEMMA QueueNext ==
  ASSUME Typed, QueueInv, PlaceInv, FlightInv, [Next]_vars
  PROVE  QueueInv'
<1>1. UNCHANGED <<cur, queue, linked, freed, pc, held>> => QueueInv'
  BY DEF QueueInv
<1> QED BY <1>1, CallerQueue, PusherQueue, WorkerQueue, LoopQueue, ClockFrame, SourceFrame,
           SubmitFrame, StutterFrame, Kinds

-------------------------------------------------------------------------------
LEMMA CallerPlace ==
  ASSUME Typed, PlaceInv, NEW c \in Callers, Caller(c)
  PROVE  PlaceInv'
<1> USE DEF PlaceInv
<1>1. UNCHANGED <<cur, queue, tasks, noted, hasTask, sub, freed>>
  BY CallerFrame
<1>2. /\ c \in Pushers /\ pc \in [Pushers -> PushSteps] /\ held \in [Pushers -> Items \cup {NULL}]
      /\ c \notin Workers /\ Workers \subseteq Pushers /\ status \in [Jobs -> Statuses]
      /\ NULL \notin Items /\ Posts \cap Jobs = {}
  BY ConstantsAssumption DEF Typed, Stepped, ItemsTyped, Pushers
<1>3. ASSUME NEW i, NEW x, pc' = [pc EXCEPT ![c] = x], held' = [held EXCEPT ![c] = i]
      PROVE  /\ \A k \in Workers : pc'[k] = pc[k] /\ held'[k] = held[k]
             /\ held'[c] = i /\ \A a \in Pushers \ {c} : held'[a] = held[a]
  BY <1>2, <1>3
<1>4. CASE Post(c)
  <2>1. PICK i \in Posts : held' = [held EXCEPT ![c] = i]
    BY <1>4 DEF Post
  <2>2. /\ \A k \in Workers : pc'[k] = pc[k] /\ held'[k] = held[k]
        /\ held'[c] = i /\ \A a \in Pushers \ {c} : held'[a] = held[a]
    BY <1>3, <1>4, <2>1 DEF Post
  <2>3. status' = status
    BY <1>4 DEF Post, pool
  <2> QED BY <1>1, <1>2, <2>1, <2>2, <2>3
<1>5. CASE WorkCancel(c)
  <2>1. PICK j \in hasTask : /\ status[j] = "queued" /\ held' = [held EXCEPT ![c] = j]
                             /\ status' = [status EXCEPT ![j] = "cancelled"]
    BY <1>5 DEF WorkCancel
  <2>2. /\ \A k \in Workers : pc'[k] = pc[k] /\ held'[k] = held[k]
        /\ held'[c] = j /\ \A a \in Pushers \ {c} : held'[a] = held[a]
    BY <1>3, <1>5, <2>1 DEF WorkCancel
  <2>3. j \in Jobs /\ status'[j] = "cancelled" /\ \A i \in Jobs \ {j} : status'[i] = status[i]
    BY <1>2, <2>1 DEF Typed, ItemsTyped
  <2>4. \A k \in Workers : held[k] # j
    BY <1>2, <2>1, <2>3
  <2>5. \A i \in Elems(tasks) : status'[i] \in {"queued", "cancelled"}
    BY <2>3, ElemsOf DEF Typed, ItemsTyped
  <2>6. \A k \in Workers : pc[k] # "idle" => held[k] \in Jobs \ {j}
    BY <2>4 DEF Typed, Stepped
  <2>7. \A k \in Workers : /\ pc[k] \in Working => status'[held[k]] = "running"
                           /\ pc[k] = "note" => status'[held[k]] \in {"running", "cancelled"}
    BY <2>3, <2>6 DEF Working, Carrying
  <2> QED BY <1>1, <2>2, <2>3, <2>5, <2>7
<1>6. CASE Stop(c) \/ TimerAt(c)
  <2>1. /\ \A k \in Workers : pc'[k] = pc[k] /\ held'[k] = held[k]
        /\ held'[c] = NULL /\ \A a \in Pushers \ {c} : held'[a] = held[a]
    BY <1>3, <1>6 DEF Stop, TimerAt
  <2>2. status' = status
    BY <1>6 DEF Stop, TimerAt, pool
  <2> QED BY <1>1, <1>2, <2>1, <2>2 DEF Items
<1> QED BY <1>4, <1>5, <1>6 DEF Caller

LEMMA PusherPlace ==
  ASSUME Typed, PlaceInv, NEW a \in Pushers, Pusher(a)
  PROVE  PlaceInv'
<1> USE DEF PlaceInv
<1>1. UNCHANGED <<cur, tasks, status, noted, hasTask, sub, freed>>
  BY PusherFrame
<1>2. /\ pc \in [Pushers -> PushSteps] /\ held \in [Pushers -> Items \cup {NULL}]
      /\ queue \in Seq(Items) /\ Workers \subseteq Pushers /\ NULL \notin Jobs
  BY ConstantsAssumption DEF Typed, Stepped, ItemsTyped, Pushers, Items
<1>3. CASE PushSwap(a)
  <2>1. /\ pc[a] = "push" /\ pc' = [pc EXCEPT ![a] = "link"] /\ queue' = Append(queue, held[a])
        /\ held' = held /\ held[a] \in Items
    BY <1>3 DEF PushSwap, Typed, Stepped
  <2>2. pc'[a] = "link" /\ \A b \in Pushers \ {a} : pc'[b] = pc[b]
    BY <1>2, <2>1
  <2>3. Elems(queue') = Elems(queue) \cup {held[a]}
    BY <1>2, <2>1, ListAppend
  <2> QED BY <1>1, <1>2, <2>1, <2>2, <2>3 DEF Working, Carrying
<1>4. CASE PushLink(a)
  <2>1. pc[a] = "link" /\ pc' = [pc EXCEPT ![a] = "wake"] /\ UNCHANGED <<queue, held>>
    BY <1>4 DEF PushLink
  <2>2. pc'[a] = "wake" /\ \A b \in Pushers \ {a} : pc'[b] = pc[b]
    BY <1>2, <2>1
  <2> QED BY <1>1, <1>2, <2>1, <2>2 DEF Working, Carrying
<1>5. CASE WakeFlag(a) \/ WakeWrite(a)
  <2>1. pc[a] \in {"wake", "write"} /\ queue' = queue
    BY <1>5 DEF WakeFlag, WakeWrite, done
  <2>2. /\ pc'[a] \in {"write", Home(a)} /\ held'[a] \in {held[a], NULL}
        /\ a \in Workers => held'[a] = held[a]
        /\ \A b \in Pushers \ {a} : pc'[b] = pc[b] /\ held'[b] = held[b]
    BY <1>2, <1>5 DEF WakeFlag, WakeWrite, Drops
  <2> QED BY <1>1, <1>2, <2>1, <2>2 DEF Working, Carrying, Home
<1> QED BY <1>3, <1>4, <1>5 DEF Pusher

LEMMA WorkerPlace ==
  ASSUME Typed, PlaceInv, NEW k \in Workers, Worker(k)
  PROVE  PlaceInv'
<1> USE DEF PlaceInv
<1>1. UNCHANGED <<cur, queue, hasTask, sub, freed>>
  BY WorkerFrame
<1>2. /\ k \in Pushers /\ Workers \subseteq Pushers /\ NULL \notin Jobs
      /\ pc \in [Pushers -> PushSteps] /\ held \in [Pushers -> Items \cup {NULL}]
      /\ tasks \in Seq(Jobs) /\ status \in [Jobs -> Statuses]
  BY ConstantsAssumption DEF Typed, Stepped, ItemsTyped, Pushers, Items
<1>3. CASE WorkerTake(k)
  <2> DEFINE j == Head(tasks)
  <2>1. /\ j \in Jobs /\ j \in Elems(tasks) /\ Once(tasks') /\ Elems(tasks') = Elems(tasks) \ {j}
    BY <1>2, <1>3, ListTail DEF WorkerTake
  <2>2. held' = [held EXCEPT ![k] = j] /\ noted' = noted
    BY <1>3 DEF WorkerTake
  <2>3. \/ /\ status[j] = "queued" /\ status' = [status EXCEPT ![j] = "running"]
           /\ pc' = [pc EXCEPT ![k] = "run"]
        \/ status[j] = "cancelled" /\ pc' = [pc EXCEPT ![k] = "note"] /\ status' = status
    BY <1>3 DEF WorkerTake
  <2> HIDE DEF j
  <2>4. /\ held'[k] = j /\ \A a \in Pushers \ {k} : pc'[a] = pc[a] /\ held'[a] = held[a]
        /\ \A i \in Jobs \ {j} : status'[i] = status[i]
        /\ \/ status[j] = "queued" /\ status'[j] = "running" /\ pc'[k] = "run"
           \/ status[j] = "cancelled" /\ status'[j] = "cancelled" /\ pc'[k] = "note"
    BY <1>2, <2>1, <2>2, <2>3
  <2>5. j \notin noted /\ \A m \in Workers : held[m] # j
    BY <2>1
  <2>6. \A m \in Workers \ {k} : held'[m] = held[m] /\ pc'[m] = pc[m] /\ held'[m] # j
    BY <1>2, <2>4, <2>5
  <2>7. \A m \in Workers \ {k} : pc[m] # "idle" => held[m] \in Jobs \ {j}
    BY <2>5 DEF Typed, Stepped
  <2>8. \A i \in Elems(tasks') : i \in Jobs \ {j} /\ status'[i] \in {"queued", "cancelled"}
    BY <1>2, <2>1, <2>4, ElemsOf
  <2>9. \A i \in Elems(tasks') : i \notin noted' /\ \A m \in Workers : held'[m] # i
    BY <2>1, <2>2, <2>4, <2>6
  <2>10. \A m \in Workers :
           /\ pc'[m] # "idle" => held'[m] \notin noted'
           /\ pc'[m] \in Working => status'[held'[m]] = "running"
           /\ pc'[m] = "note" => status'[held'[m]] \in {"running", "cancelled"}
    BY <2>2, <2>4, <2>5, <2>6, <2>7 DEF Working, Carrying
  <2>11. \A m, n \in Workers : pc'[m] # "idle" /\ held'[m] = held'[n] => m = n
    BY <2>4, <2>6
  <2>12. \A i \in Jobs :
       /\ status'[i] = "new" => i \notin hasTask' \cup Elems(tasks') /\ i # sub'
       /\ status'[i] \in {"new", "queued"} =>
            i \notin Elems(queue') \cup freed' \cup noted' \cup {cur'} /\ \A a \in Pushers : held'[a] # i
       /\ i \in noted' => status'[i] \in {"done", "cancelled"}
    BY <1>1, <1>2, <2>1, <2>2, <2>4
  <2> QED BY <1>1, <2>1, <2>8, <2>9, <2>10, <2>11, <2>12
<1>4. CASE WorkerRun(k)
  <2>1. /\ pc[k] = "run" /\ pc'[k] = "push" /\ held' = held /\ UNCHANGED <<tasks, status, noted>>
        /\ \A a \in Pushers \ {k} : pc'[a] = pc[a]
    BY <1>2, <1>4 DEF WorkerRun, pool
  <2> QED BY <1>1, <1>2, <2>1 DEF Working, Carrying
<1>5. CASE WorkerNote(k)
  <2> DEFINE j == held[k]
  <2>1. /\ pc[k] = "note" /\ pc' = [pc EXCEPT ![k] = "idle"] /\ held' = [held EXCEPT ![k] = NULL]
        /\ noted' = noted \cup {j} /\ tasks' = tasks
        /\ status' = IF status[j] = "running" THEN [status EXCEPT ![j] = "done"] ELSE status
    BY <1>5 DEF WorkerNote
  <2>2. j \in Jobs /\ status[j] \in {"running", "cancelled"} /\ j \notin Elems(tasks)
    BY <2>1 DEF Typed, Stepped
  <2>3. \A m \in Workers \ {k} : held[m] # j
    BY <2>1
  <2> HIDE DEF j
  <2>4. /\ pc'[k] = "idle" /\ held'[k] = NULL
        /\ \A a \in Pushers \ {k} : pc'[a] = pc[a] /\ held'[a] = held[a]
        /\ status'[j] \in {"done", "cancelled"} /\ \A i \in Jobs \ {j} : status'[i] = status[i]
    BY <1>2, <2>1, <2>2
  <2>5. \A m \in Workers \ {k} : pc[m] # "idle" => held[m] \in Jobs \ {j}
    BY <2>3 DEF Typed, Stepped
  <2>6. \A i \in Elems(tasks) : /\ i \in Jobs \ {j} /\ status'[i] \in {"queued", "cancelled"}
                                /\ i \notin noted' /\ \A m \in Workers : held'[m] # i
    BY <1>2, <2>1, <2>2, <2>4, ElemsOf
  <2>7. \A m \in Workers :
           /\ pc'[m] # "idle" => held'[m] \notin noted'
           /\ pc'[m] \in Working => status'[held'[m]] = "running"
           /\ pc'[m] = "note" => status'[held'[m]] \in {"running", "cancelled"}
    BY <1>2, <2>1, <2>3, <2>4, <2>5 DEF Working, Carrying
  <2>8. \A m, n \in Workers : pc'[m] # "idle" /\ held'[m] = held'[n] => m = n
    BY <1>2, <2>4, <2>5
  <2>9. \A i \in Jobs :
       /\ status'[i] = "new" => i \notin hasTask' \cup Elems(tasks') /\ i # sub'
       /\ status'[i] \in {"new", "queued"} =>
            i \notin Elems(queue') \cup freed' \cup noted' \cup {cur'} /\ \A a \in Pushers : held'[a] # i
       /\ i \in noted' => status'[i] \in {"done", "cancelled"}
    BY <1>1, <1>2, <2>1, <2>2, <2>4
  <2> QED BY <1>1, <2>1, <2>6, <2>7, <2>8, <2>9
<1> QED BY <1>3, <1>4, <1>5 DEF Worker

LEMMA LoopPlace ==
  ASSUME Typed, QueueInv, PlaceInv, LoopMoves
  PROVE  PlaceInv'
<1> USE DEF PlaceInv
<1>1. UNCHANGED <<tasks, status, noted, hasTask, sub, pc, held>> /\ NULL \notin Jobs
  BY LoopFrame, ConstantsAssumption DEF Items
<1>2. CASE Dispatch
  <2> DEFINE h == Head(queue)
  <2>1. h \in Elems(queue) /\ h \in Items /\ Elems(queue') = Elems(queue) \ {h}
    BY <1>2, Popped DEF Dispatch
  <2>2. \/ h \in hasTask /\ cur' = h /\ freed' = freed
        \/ cur' = cur /\ freed' = freed \cup {h}
    BY <1>2 DEF Dispatch, ended, loop, Finish
  <2> HIDE DEF h
  <2> QED BY <1>1, <2>1, <2>2
<1>3. CASE Join
  <2>1. freed' = freed \cup {cur} /\ cur' = NULL /\ queue' = queue
    BY <1>3 DEF Join, Finish, done
  <2> QED BY <1>1, <2>1
<1>4. CASE Drained
  <2>1. Elems(queue') = {} /\ freed' = freed \cup Elems(queue) /\ cur' = cur
    BY <1>4 DEF Drained, Elems
  <2> QED BY <1>1, <2>1
<1>5. ASSUME \/ Turn \/ WaitReturns \/ WakeDrain \/ DispatchEnds \/ Run \/ Destroy
             \/ Expire \/ Fire \/ Sweep \/ \E e \in Sources \cup {WAKE} : Event(e)
      PROVE PlaceInv'
  <2>1. UNCHANGED <<cur, queue, freed>>
    BY <1>5 DEF Turn, WaitReturns, WakeDrain, DispatchEnds, Run, Destroy, Expire, Fire, Sweep, Event,
                done, ended, loop
  <2> QED BY <1>1, <2>1
<1> QED BY LoopMoves, <1>2, <1>3, <1>4, <1>5 DEF LoopMoves, LoopStep

LEMMA SubmitPlace ==
  ASSUME Typed, PlaceInv, SubmitMoves
  PROVE  PlaceInv'
<1> USE DEF PlaceInv
<1>1. UNCHANGED <<cur, queue, noted, freed, pc, held>> /\ NULL \notin Jobs
  BY SubmitFrame, ConstantsAssumption DEF Items
<1>2. CASE SubmitSettle
  <2>1. sub # NULL /\ hasTask' = hasTask \cup {sub} /\ sub' = NULL /\ UNCHANGED <<tasks, status>>
    BY <1>2 DEF SubmitSettle, pool
  <2>2. sub \in Jobs /\ status[sub] # "new"
    BY <2>1 DEF Typed, ItemsTyped
  <2> QED BY <1>1, <2>1, <2>2
<1>3. ASSUME NEW j \in Jobs, SubmitTask(j) PROVE PlaceInv'
  <2>1. /\ status[j] = "new" /\ status' = [status EXCEPT ![j] = "queued"]
        /\ tasks' = Append(tasks, j) /\ sub' = j /\ hasTask' = hasTask
    BY <1>3 DEF SubmitTask
  <2>2. /\ j \notin Elems(tasks) \cup Elems(queue) \cup freed \cup noted \cup {cur}
        /\ \A a \in Pushers : held[a] # j
    BY <2>1
  <2>3. Once(tasks') /\ Elems(tasks') = Elems(tasks) \cup {j} /\ Elems(tasks) \subseteq Jobs
    BY <2>1, <2>2, ListAppend, ElemsOf DEF Typed, ItemsTyped
  <2>4. status'[j] = "queued" /\ \A i \in Jobs \ {j} : status'[i] = status[i]
    BY <2>1 DEF Typed, ItemsTyped
  <2>5. \A k \in Workers : held[k] # j /\ (pc[k] # "idle" => held[k] \in Jobs \ {j})
    BY <2>2 DEF Typed, Stepped, Pushers
  <2>6. \A k \in Workers : /\ pc[k] \in Working => status'[held[k]] = "running"
                           /\ pc[k] = "note" => status'[held[k]] \in {"running", "cancelled"}
    BY <2>4, <2>5 DEF Working, Carrying
  <2>7. \A i \in Elems(tasks') : /\ status'[i] \in {"queued", "cancelled"} /\ i \notin noted
                                 /\ \A k \in Workers : held[k] # i
    BY <2>2, <2>3, <2>4, <2>5
  <2>8. \A i \in Jobs :
       /\ status'[i] = "new" => i \notin hasTask' \cup Elems(tasks') /\ i # sub'
       /\ status'[i] \in {"new", "queued"} =>
            i \notin Elems(queue) \cup freed \cup noted \cup {cur} /\ \A a \in Pushers : held[a] # i
       /\ i \in noted => status'[i] \in {"done", "cancelled"}
    BY <2>1, <2>2, <2>3, <2>4
  <2> QED BY <1>1, <2>1, <2>3, <2>6, <2>7, <2>8
<1> QED BY SubmitMoves, <1>2, <1>3 DEF SubmitMoves

LEMMA PlaceNext ==
  ASSUME Typed, QueueInv, PlaceInv, [Next]_vars
  PROVE  PlaceInv'
<1>1. UNCHANGED <<cur, queue, tasks, status, noted, hasTask, sub, freed, pc, held>> => PlaceInv'
  BY DEF PlaceInv
<1> QED BY <1>1, CallerPlace, PusherPlace, WorkerPlace, LoopPlace, SubmitPlace, ClockFrame,
           SourceFrame, StutterFrame, Kinds

-------------------------------------------------------------------------------
(* What is in flight, as a number. *)
LEMMA FlightFinite ==
  ASSUME Typed
  PROVE  /\ IsFiniteSet(hasTask \ freed) /\ Cardinality(hasTask \ freed) \in Nat
         /\ Cardinality(hasTask \ freed) <= Cardinality(Jobs)
<1>1. hasTask \ freed \subseteq Jobs
  BY DEF Typed, ItemsTyped
<1> QED BY <1>1, FS_Subset, FS_CardinalityType, ConstantsAssumption

(* One more item is given back: at most one less is in flight. *)
LEMMA OneFreed ==
  ASSUME Typed, NEW i, freed' = freed \cup {i}, hasTask' = hasTask
  PROVE  /\ i \in hasTask \ freed => Cardinality(hasTask' \ freed') = Cardinality(hasTask \ freed) - 1
         /\ i \notin hasTask \ freed => Cardinality(hasTask' \ freed') = Cardinality(hasTask \ freed)
<1>1. hasTask' \ freed' = (hasTask \ freed) \ {i}
  OBVIOUS
<1>2. ASSUME i \notin hasTask \ freed PROVE hasTask' \ freed' = hasTask \ freed
  BY <1>1, <1>2
<1> QED BY <1>1, <1>2, FlightFinite, FS_RemoveElement

(* One more job has its task. *)
LEMMA OneSettled ==
  ASSUME Typed, NEW j, hasTask' = hasTask \cup {j}, freed' = freed
  PROVE  /\ j \notin hasTask \cup freed => Cardinality(hasTask' \ freed') = Cardinality(hasTask \ freed) + 1
         /\ j \in hasTask \cup freed => Cardinality(hasTask' \ freed') = Cardinality(hasTask \ freed)
<1>1. ASSUME j \notin hasTask \cup freed
      PROVE  hasTask' \ freed' = (hasTask \ freed) \cup {j} /\ j \notin hasTask \ freed
  BY <1>1
<1>2. ASSUME j \in hasTask \cup freed PROVE hasTask' \ freed' = hasTask \ freed
  BY <1>2
<1> QED BY <1>1, <1>2, FlightFinite, FS_AddElement

LEMMA FlightNext ==
  ASSUME Typed, QueueInv, PlaceInv, FlightInv, [Next]_vars
  PROVE  FlightInv'
<1> USE DEF FlightInv
<1>0. /\ status \in [Jobs -> Statuses] /\ NULL \notin Jobs /\ Callers \subseteq Pushers
      /\ pc \in [Pushers -> PushSteps] /\ sub \in Jobs \cup {NULL} /\ Callers \cap Workers = {}
  BY ConstantsAssumption DEF Typed, ItemsTyped, Stepped, Items, Pushers
<1>1. ASSUME NEW c \in Callers, Caller(c) PROVE FlightInv'
  <2>1. UNCHANGED <<lpc, hasTask, sub, freed, inflight>> /\ Alive
    BY <1>1, CallerFrame DEF Caller, Post, WorkCancel, Stop, TimerAt
  <2>2. \A j \in Jobs : status'[j] # "new" => status[j] # "new"
    <3>1. CASE WorkCancel(c)
      BY <1>0, <3>1 DEF WorkCancel
    <3>2. CASE Post(c) \/ Stop(c) \/ TimerAt(c)
      BY <3>2 DEF Post, Stop, TimerAt, pool
    <3> QED BY <1>1, <3>1, <3>2 DEF Caller
  <2> QED BY <2>1, <2>2 DEF Alive
<1>2. ASSUME NEW a \in Pushers, Pusher(a) PROVE FlightInv'
  <2>1. pc[a] # "idle" /\ \A b \in Pushers \ {a} : pc'[b] = pc[b]
    BY <1>0, <1>2 DEF Pusher, PushSwap, PushLink, WakeFlag, WakeWrite
  <2> QED BY <1>0, <1>2, <2>1, PusherFrame
<1>3. ASSUME NEW k \in Workers, Worker(k) PROVE FlightInv'
  <2>1. \A c \in Callers : pc'[c] = pc[c]
    BY <1>0, <1>3 DEF Worker, WorkerTake, WorkerRun, WorkerNote
  <2>2. \A j \in Jobs : status'[j] # "new" => status[j] # "new"
    <3>1. CASE WorkerTake(k)
      BY <1>0, <3>1 DEF WorkerTake
    <3>2. CASE WorkerRun(k)
      BY <3>2 DEF WorkerRun, pool
    <3>3. CASE WorkerNote(k)
      BY <1>0, <3>3 DEF WorkerNote
    <3> QED BY <1>3, <3>1, <3>2, <3>3 DEF Worker
  <2> QED BY <1>3, <2>1, <2>2, WorkerFrame
<1>4. CASE LoopMoves
  <2>0. UNCHANGED <<status, hasTask, sub, pc>> /\ Cardinality(hasTask \ freed) \in Nat
    BY <1>4, LoopFrame, FlightFinite
  <2>1. CASE Dispatch
    <3>1. lpc = "dispatch" /\ lpc' \in {"dispatch", "join"} /\ inflight' = inflight
      BY <2>1 DEF Dispatch, At, loop, submit
    <3>2. CASE freed' = freed
      BY <2>0, <3>1, <3>2
    <3>3. CASE freed' = freed \cup {Head(queue)} /\ Head(queue) \notin hasTask
      <4>1. Cardinality(hasTask' \ freed') = Cardinality(hasTask \ freed)
        BY <2>0, <3>3, OneFreed
      <4> QED BY <2>0, <3>1, <4>1
    <3> QED BY <2>1, <3>2, <3>3 DEF Dispatch, ended, Finish
  <2>2. CASE Join
    <3>1. /\ lpc' = "dispatch" /\ inflight' = inflight - 1 /\ freed' = freed \cup {cur}
          /\ lpc = "join"
      BY <2>2 DEF Join, At, Finish
    <3>2. cur \in hasTask \ freed
      BY <3>1 DEF Typed, LoopTyped, PlaceInv, QueueInv
    <3>3. Cardinality(hasTask' \ freed') = Cardinality(hasTask \ freed) - 1
      BY <2>0, <3>1, <3>2, OneFreed
    <3> QED BY <2>0, <3>1, <3>3
  <2>3. CASE Drained
    <3>1. lpc = "drain" /\ inflight = 0 /\ inflight' = inflight /\ freed \subseteq freed'
      BY <2>3 DEF Drained, At, submit
    <3>2. hasTask \subseteq freed
      BY <3>1, NobodyCarries
    <3>3. hasTask \ freed = {} /\ hasTask' \ freed' = {}
      BY <2>0, <3>1, <3>2
    <3> QED BY <2>0, <3>1, <3>2, <3>3
  <2>4. CASE Destroy
    <3>1. sub = NULL /\ (\A c \in Callers : pc[c] = "idle") /\ lpc' = "drain" /\ UNCHANGED <<inflight, freed>>
      BY <2>4 DEF Destroy, submit, ended
    <3> QED BY <2>0, <3>1
  <2>5. ASSUME \/ Turn \/ WaitReturns \/ WakeDrain \/ DispatchEnds \/ Run
               \/ Expire \/ Fire \/ Sweep \/ \E e \in Sources \cup {WAKE} : Event(e)
        PROVE FlightInv'
    <3>1. UNCHANGED <<inflight, freed>> /\ lpc' \notin {"drain", "gone"}
      BY <2>5 DEF Turn, WaitReturns, WakeDrain, DispatchEnds, Run, Expire, Fire, Sweep, Event,
                  submit, ended, loop, At
    <3> QED BY <2>0, <3>1
  <2> QED BY <1>4, <2>1, <2>2, <2>3, <2>4, <2>5 DEF LoopMoves, LoopStep
<1>5. CASE SubmitMoves
  <2>0. UNCHANGED <<lpc, freed, pc>> /\ Cardinality(hasTask \ freed) \in Nat
    BY <1>5, SubmitFrame, FlightFinite
  <2>1. CASE SubmitSettle
    <3>1. /\ sub # NULL /\ hasTask' = hasTask \cup {sub} /\ inflight' = inflight + 1 /\ sub' = NULL
          /\ status' = status
      BY <2>1 DEF SubmitSettle, pool
    <3>2. Cardinality(hasTask' \ freed') \in {Cardinality(hasTask \ freed), Cardinality(hasTask \ freed) + 1}
      BY <2>0, <3>1, OneSettled
    <3> QED BY <2>0, <3>1, <3>2
  <2>2. ASSUME NEW j \in Jobs, SubmitTask(j) PROVE FlightInv'
    <3>1. /\ sub = NULL /\ sub' = j /\ UNCHANGED <<hasTask, inflight>> /\ Alive /\ status[j] = "new"
          /\ status' = [status EXCEPT ![j] = "queued"]
      BY <2>2 DEF SubmitTask
    <3> QED BY <1>0, <2>0, <3>1 DEF PlaceInv, Alive
  <2> QED BY <1>5, <2>1, <2>2 DEF SubmitMoves
<1>6. UNCHANGED <<lpc, status, hasTask, sub, freed, inflight, pc>> => FlightInv'
  OBVIOUS
<1> QED BY <1>1, <1>2, <1>3, <1>4, <1>5, <1>6, ClockFrame, SourceFrame, StutterFrame, Kinds

-------------------------------------------------------------------------------
(* Submitting on the loop thread. *)
LEMMA LoopLocal ==
  ASSUME ~SubmitElsewhere, Inv, LocalInv, LoopMoves
  PROVE  LocalInv'
<1> USE DEF Inv, LocalInv
<1>0. /\ UNCHANGED <<status, noted, hasTask, sub, pc>> /\ called \in [Items \cup Timers -> Nat]
      /\ Timers \cap Items = {} /\ Posts \cap Jobs = {} /\ NULL \notin Items
      /\ Posts \subseteq Items /\ Jobs \subseteq Items
  BY LoopFrame, ConstantsAssumption DEF Typed, ItemsTyped, Items
<1>1. sub = NULL /\ lpc # "gone"
  BY DEF LoopMoves, LoopStep, Run, Destroy, Turn, WaitReturns, Event, WakeDrain, Dispatch, Join,
         DispatchEnds, Expire, Fire, Sweep, Drained, At
<1>2. \A j \in Jobs \cap Elems(queue) : j \in hasTask
  BY <1>0, <1>1 DEF PlaceInv, FlightInv
<1>3. CASE Dispatch
  <2> DEFINE h == Head(queue)
  <2>1. h \in Elems(queue) /\ h \in Items /\ h \notin freed
    BY <1>3, Popped DEF Dispatch, QueueInv
  <2>2. inflight' = inflight
    BY <1>3 DEF Dispatch, submit
  <2>3. CASE UNCHANGED ended
    BY <1>0, <1>1, <2>2, <2>3 DEF ended
  <2>4. CASE /\ h \notin hasTask /\ Finish(h, TRUE) /\ lpc' = lpc
             /\ mistaken' = mistaken \cup ({h} \cap Jobs)
    <3>1. h \in Posts /\ h \notin Jobs
      BY <1>2, <2>1, <2>4 DEF Items
    <3>2. mistaken' = {}
      BY <2>4, <3>1
    <3>3. /\ freed' = freed \cup {h} /\ called'[h] = called[h] + 1
          /\ \A i \in Items \ {h} : called'[i] = called[i]
      BY <1>0, <2>1, <2>4 DEF Finish
    <3>4. inflight' = Cardinality(hasTask' \ freed')
      BY <1>0, <2>2, <2>4, <3>3, OneFreed
    <3>5. called'[h] = 1
      BY <2>1, <3>3
    <3> HIDE DEF h
    <3> QED BY <1>0, <1>1, <2>1, <3>1, <3>2, <3>3, <3>4, <3>5
  <2> QED BY <1>3, <2>3, <2>4 DEF Dispatch, loop
<1>4. CASE Join
  <2>1. /\ cur \in noted /\ inflight' = inflight - 1 /\ mistaken' = mistaken
        /\ Finish(cur, status[cur] # "cancelled") /\ lpc = "join"
    BY <1>4 DEF Join, At
  <2>2. cur \in Jobs /\ cur \in hasTask \ freed /\ cur \in Items
    BY <1>0, <2>1 DEF Typed, LoopTyped, PlaceInv, QueueInv
  <2>3. /\ freed' = freed \cup {cur}
        /\ called'[cur] = called[cur] + (IF status[cur] # "cancelled" THEN 1 ELSE 0)
        /\ \A i \in Items \ {cur} : called'[i] = called[i]
    BY <1>0, <2>1, <2>2 DEF Finish
  <2>4. inflight' = Cardinality(hasTask' \ freed')
    BY <1>0, <2>1, <2>2, <2>3, OneFreed
  <2>5. called'[cur] = IF status[cur] = "cancelled" THEN 0 ELSE 1
    BY <2>2, <2>3
  <2> QED BY <1>0, <1>1, <2>1, <2>2, <2>3, <2>4, <2>5
<1>5. CASE Fire
  <2>1. PICK t \in firing : called' = [called EXCEPT ![t] = @ + 1]
    BY <1>5 DEF Fire
  <2>2. \A i \in Items : called'[i] = called[i]
    BY <1>0, <2>1 DEF Typed, TurnTyped
  <2>3. UNCHANGED <<lpc, freed, mistaken, inflight>>
    BY <1>5 DEF Fire, submit, loop
  <2> QED BY <1>0, <1>1, <2>2, <2>3
<1>6. CASE Drained
  <2>1. /\ lpc = "drain" /\ inflight = 0 /\ lpc' = "gone" /\ UNCHANGED <<inflight, called, mistaken>>
        /\ freed' = freed \cup Elems(queue)
    BY <1>6 DEF Drained, At, submit, Elems
  <2>2. hasTask \subseteq freed
    BY <2>1, NobodyCarries
  <2>3. \A i \in Elems(queue) : i \in Posts /\ i \notin freed
    BY <1>2, <2>2, ElemsOf DEF QueueInv, Typed, ItemsTyped, Items
  <2>4. hasTask \ freed = {} /\ hasTask' \ freed' = {}
    BY <1>0, <2>1, <2>2
  <2> QED BY <1>0, <1>1, <2>1, <2>3, <2>4
<1>7. ASSUME \/ Turn \/ WaitReturns \/ WakeDrain \/ DispatchEnds \/ Run \/ Destroy
             \/ Expire \/ Sweep \/ \E e \in Sources \cup {WAKE} : Event(e)
      PROVE LocalInv'
  <2>1. UNCHANGED <<inflight, freed, called, mistaken>>
    BY <1>7 DEF Turn, WaitReturns, WakeDrain, DispatchEnds, Run, Destroy, Expire, Sweep, Event,
                submit, ended
  <2> QED BY <1>0, <1>1, <2>1
<1> QED BY LoopMoves, <1>3, <1>4, <1>5, <1>6, <1>7 DEF LoopMoves, LoopStep

LEMMA SubmitLocal ==
  ASSUME ~SubmitElsewhere, Inv, LocalInv, SubmitMoves
  PROVE  LocalInv'
<1> USE DEF Inv, LocalInv
<1>1. UNCHANGED <<lpc, noted, freed, called, mistaken>>
  BY SubmitFrame
<1>2. CASE SubmitSettle
  <2>1. /\ sub # NULL /\ hasTask' = hasTask \cup {sub} /\ inflight' = inflight + 1 /\ sub' = NULL
        /\ status' = status
    BY <1>2 DEF SubmitSettle, pool
  <2>2. sub \notin hasTask \cup freed
    BY <2>1 DEF FlightInv, Typed, ItemsTyped
  <2>3. inflight' = Cardinality(hasTask' \ freed')
    BY <1>1, <2>1, <2>2, OneSettled
  <2> QED BY <1>1, <2>1, <2>3
<1>3. ASSUME NEW j \in Jobs, SubmitTask(j) PROVE LocalInv'
  <2>1. /\ sub' = j /\ UNCHANGED <<hasTask, inflight>> /\ InCallback /\ status[j] = "new"
        /\ status' = [status EXCEPT ![j] = "queued"]
    BY <1>3 DEF SubmitTask
  <2>2. j \notin freed /\ \A i \in Jobs \ {j} : status'[i] = status[i]
    BY <2>1 DEF PlaceInv, Typed, ItemsTyped
  <2>3. InCallback'
    BY <1>1, <2>1 DEF InCallback
  <2> QED BY <1>1, <2>1, <2>2, <2>3
<1> QED BY SubmitMoves, <1>2, <1>3 DEF SubmitMoves

LEMMA LocalNext ==
  ASSUME ~SubmitElsewhere, Inv, LocalInv, [Next]_vars
  PROVE  LocalInv'
<1> USE DEF Inv, LocalInv
<1>0. status \in [Jobs -> Statuses]
  BY DEF Typed, ItemsTyped
<1>1. ASSUME UNCHANGED <<lpc, inflight, hasTask, sub, freed, called, mistaken>>, noted \subseteq noted',
             \A j \in Jobs \cap freed : status'[j] = status[j]
      PROVE  LocalInv'
  BY <1>1 DEF InCallback
<1>2. ASSUME NEW c \in Callers, Caller(c) PROVE LocalInv'
  <2>1. \A j \in Jobs \cap freed : status'[j] = status[j]
    <3>1. CASE WorkCancel(c)
      BY <1>0, <3>1 DEF WorkCancel, PlaceInv
    <3>2. CASE Post(c) \/ Stop(c) \/ TimerAt(c)
      BY <3>2 DEF Post, Stop, TimerAt, pool
    <3> QED BY <1>2, <3>1, <3>2 DEF Caller
  <2> QED BY <1>1, <1>2, <2>1, CallerFrame
<1>3. ASSUME NEW k \in Workers, Worker(k) PROVE LocalInv'
  <2>1. noted \subseteq noted' /\ \A j \in Jobs \cap freed : status'[j] = status[j]
    <3>1. CASE WorkerTake(k)
      BY <1>0, <3>1 DEF WorkerTake, PlaceInv
    <3>2. CASE WorkerRun(k)
      BY <3>2 DEF WorkerRun, pool
    <3>3. CASE WorkerNote(k)
      <4>1. held[k] \notin freed
        BY <3>3 DEF WorkerNote, PlaceInv, Typed, Stepped
      <4> QED BY <1>0, <3>3, <4>1 DEF WorkerNote
    <3> QED BY <1>3, <3>1, <3>2, <3>3 DEF Worker
  <2> QED BY <1>1, <1>3, <2>1, WorkerFrame
<1>4. ASSUME \/ \E a \in Pushers : Pusher(a)
             \/ ClockMoves \/ SourceMoves \/ UNCHANGED vars
      PROVE LocalInv'
  BY <1>1, <1>4, PusherFrame, ClockFrame, SourceFrame, StutterFrame
<1> QED BY <1>2, <1>3, <1>4, LoopLocal, SubmitLocal, Kinds

-------------------------------------------------------------------------------
LEMMA InitInv == Init => Inv /\ LocalInv
<1> SUFFICES ASSUME Init PROVE Inv /\ LocalInv
  OBVIOUS
<1>1. Typed
  BY InitTyped
<1>2. /\ \A a \in Pushers : pc[a] = "idle" /\ held[a] = NULL
      /\ \A j \in Jobs : status[j] = "new"
      /\ \A i \in Items \cup Timers : called[i] = 0
      /\ \A t \in Timers : timers[t] = "new"
      /\ Elems(queue) = {} /\ Elems(tasks) = {} /\ linked = {} /\ freed = {} /\ hasTask = {}
      /\ Workers \subseteq Pushers /\ NULL \notin Jobs
  BY ConstantsAssumption DEF Init, Elems, Pushers, Items
<1>3. TimerInv /\ SourceInv
  BY <1>2 DEF Init, TimerInv, CancelIsTrue, SourceInv, SourcesStay
<1>4. WakeInv
  <2>1. ~wake_pending
    BY Zenon DEF Init
  <2> QED BY <2>1 DEF Init, WakeInv, QueueLooksEmpty
<1>5. QueueInv
  BY <1>2 DEF Init, QueueInv, Once, Carrying
<1>6. PlaceInv
  <2>1. Once(tasks)
    BY DEF Init, Once
  <2>2. sub = NULL /\ cur = NULL /\ noted = {}
    BY DEF Init
  <2> QED BY <1>2, <2>1, <2>2 DEF PlaceInv, Working, Carrying
<1>7. Cardinality(hasTask \ freed) = 0
  <2>1. hasTask \ freed = {}
    BY <1>2
  <2> QED BY <2>1, FS_EmptySet
<1>8. FlightInv
  BY <1>2, <1>7 DEF Init, FlightInv
<1>9. LocalInv
  BY <1>2, <1>7 DEF Init, LocalInv, Items
<1> QED BY <1>1, <1>3, <1>4, <1>5, <1>6, <1>8, <1>9 DEF Inv

LEMMA NextInv == Inv /\ [Next]_vars => Inv'
BY TypedNext, TimerNext, SourceNext, WakeNext, QueueNext, PlaceNext, FlightNext DEF Inv

(* The loop's inductive invariant, wherever work is submitted. *)
THEOREM Invariance == Spec => []Inv
BY InitInv, NextInv, PTL DEF Spec

(* The loop never sleeps over a finished push, a stop or a deadline that    *)
(* its timeout does not cover: reading the eventfd before the flag is       *)
(* cleared, and looking only then, loses no wake of any thread.             *)
THEOREM NoWakeIsLost == Spec => []NoLostWake
<1>1. Inv => NoLostWake
  <2> SUFFICES ASSUME Inv, lpc = "wait",
                      ~QueueLooksEmpty \/ stopped \/ (due # {} /\ due \cap watched = {})
               PROVE  Signal
    BY DEF NoLostWake, Signal
  <2>1. CASE ~QueueLooksEmpty
    BY <2>1 DEF Inv, WakeInv
  <2>2. CASE stopped
    BY <2>2 DEF Inv, WakeInv
  <2>3. CASE due # {} /\ due \cap watched = {}
    <3>1. \E t \in Timers \ watched : timers[t] = "armed"
      BY <2>3 DEF Inv, Typed, TurnTyped
    <3> QED BY <3>1 DEF Inv, WakeInv
  <2> QED BY <2>1, <2>2, <2>3
<1> QED BY <1>1, Invariance, PTL

(* A timer that xEventLoopTimerCancel cancelled never runs, one it refuses  *)
(* runs once.                                                               *)
THEOREM TimerCancelIsTrue == Spec => []CancelIsTrue
<1>1. Inv => CancelIsTrue
  BY DEF Inv, TimerInv
<1> QED BY <1>1, Invariance, PTL

(* No event is handled of a source that the sweep has freed, whichever      *)
(* callback of the batch removed it.                                        *)
THEOREM ReportedSourcesStay == Spec => []SourcesStay
<1>1. Inv => SourcesStay
  BY DEF Inv, SourceInv
<1> QED BY <1>1, Invariance, PTL

(* As long as xEventLoopSubmit is called on the loop thread, the loop, its *)
(* callers and its workers are right in every respect: besides the above,  *)
(* every callback runs exactly once before its item is given back, and no  *)
(* worker touches an item that was given back or a loop that is gone.      *)
THEOREM LoopIsRight ==
  ASSUME ~SubmitElsewhere
  PROVE  Spec => []LoopInv
<1>1. Init => Inv /\ LocalInv
  BY InitInv
<1>2. Inv /\ LocalInv /\ [Next]_vars => (Inv /\ LocalInv)'
  BY NextInv, LocalNext
<1>3. Inv /\ LocalInv => TypeOK
  <2> SUFFICES ASSUME Inv, LocalInv PROVE TypeOK
    OBVIOUS
  <2> USE DEF Inv, Typed
  <2>1. inflight \in 0..Cardinality(Jobs)
    BY FlightFinite, FS_CardinalityType, ConstantsAssumption DEF LocalInv
  <2>2. {stopped, wake_pending, readable} \subseteq BOOLEAN
    BY DEF LoopTyped
  <2>3. /\ lpc \in {"out", "turn", "wait", "events", "read", "clear", "dispatch", "join", "fire",
                    "drain", "gone"}
        /\ cur \in Jobs \cup {NULL} /\ (lpc = "join") = (cur # NULL)
        /\ stops \in 0..MaxStops /\ uses \in Programs
    BY DEF LoopTyped, LoopSteps
  <2>4. /\ pc \in [Pushers -> {"idle", "run", "push", "link", "wake", "write", "note"}]
        /\ held \in [Pushers -> Items \cup {NULL}]
    BY DEF Stepped, PushSteps
  <2>5. linked \subseteq {queue[i] : i \in DOMAIN queue}
    BY DEF QueueInv, Elems
  <2> QED BY <2>1, <2>2, <2>3, <2>4, <2>5 DEF ItemsTyped, TurnTyped, Statuses, TypeOK
<1>4. Inv /\ LocalInv => CallbackOnce
  BY DEF Inv, LocalInv, CallbackOnce, Typed, ItemsTyped, Items
<1>5. Inv /\ LocalInv => WorkersStaySafe
  <2> SUFFICES ASSUME Inv, LocalInv, NEW k \in Workers, pc[k] \in Working
               PROVE  held[k] \notin freed /\ lpc # "gone"
    BY DEF WorkersStaySafe, Working, Carrying
  <2>1. held[k] \in Jobs /\ held[k] # NULL /\ held[k] \notin noted /\ status[held[k]] = "running"
    BY ConstantsAssumption DEF Inv, Typed, Stepped, PlaceInv, Working, Carrying, Items
  <2>2. held[k] \notin freed
    BY <2>1 DEF LocalInv
  <2>3. lpc # "gone"
    BY <2>1, <2>2 DEF Inv, FlightInv
  <2> QED BY <2>2, <2>3
<1>6. Spec => [](Inv /\ LocalInv)
  BY <1>1, <1>2, PTL DEF Spec
<1> QED BY <1>3, <1>4, <1>5, <1>6, NoWakeIsLost, TimerCancelIsTrue, ReportedSourcesStay, PTL DEF LoopInv
=============================================================================
