------------------------------ MODULE AgentProofs ------------------------------
(***************************************************************************)
(* Theorems about the agent.  First AgentQuery: one run of the tool loop,  *)
(* for every set of calls, every bound and every choice of what the host   *)
(* may do.  Then AgentSession: the record of a conversation, for every     *)
(* number of inputs, of turns kept and replayed, every window and report.  *)
(***************************************************************************)
EXTENDS AgentQuery, AgentSession, SequenceTheorems, FiniteSetTheorems, WellFoundedInduction, TLAPS

(* Pushing a frame: the new frame is on top and the old stack below it. *)
LEMMA PushFrame ==
  ASSUME NEW s \in Seq(Frames), NEW f \in Frames
  PROVE  /\ <<f>> \o s \in Seq(Frames)
         /\ Len(<<f>> \o s) = Len(s) + 1
         /\ <<f>> \o s # <<>>
         /\ Head(<<f>> \o s) = f
         /\ (<<f>> \o s)[1] = f
         /\ \A i \in 1 .. Len(s) : (<<f>> \o s)[i + 1] = s[i]
<1>1. <<f>> \in Seq(Frames) /\ Len(<<f>>) = 1 /\ <<f>>[1] = f
  OBVIOUS
<1>2. /\ <<f>> \o s \in Seq(Frames)
      /\ Len(<<f>> \o s) = 1 + Len(s)
      /\ \A i \in 1 .. 1 + Len(s) : (<<f>> \o s)[i] = IF i <= 1 THEN <<f>>[i] ELSE s[i - 1]
  BY <1>1, ConcatProperties
<1>3. Len(s) \in Nat
  BY LenProperties
<1>4. (<<f>> \o s)[1] = f
  BY <1>1, <1>2, <1>3
<1>5. \A i \in 1 .. Len(s) : (<<f>> \o s)[i + 1] = s[i]
  BY <1>2, <1>3
<1>6. <<f>> \o s # <<>>
  BY <1>2, <1>3
<1> QED
  BY <1>2, <1>3, <1>4, <1>5, <1>6

(* Two frames at once, the upper one first. *)
LEMMA PushFrames ==
  ASSUME NEW s \in Seq(Frames), NEW f \in Frames, NEW g \in Frames
  PROVE  /\ <<f, g>> \o s \in Seq(Frames)
         /\ Len(<<f, g>> \o s) = Len(s) + 2
         /\ <<f, g>> \o s # <<>>
         /\ Head(<<f, g>> \o s) = f
         /\ (<<f, g>> \o s)[1] = f
         /\ (<<f, g>> \o s)[2] = g
         /\ \A i \in 1 .. Len(s) : (<<f, g>> \o s)[i + 2] = s[i]
<1>1. <<f, g>> \in Seq(Frames) /\ Len(<<f, g>>) = 2 /\ <<f, g>>[1] = f /\ <<f, g>>[2] = g
  OBVIOUS
<1>2. /\ <<f, g>> \o s \in Seq(Frames)
      /\ Len(<<f, g>> \o s) = 2 + Len(s)
      /\ \A i \in 1 .. 2 + Len(s) :
           (<<f, g>> \o s)[i] = IF i <= 2 THEN <<f, g>>[i] ELSE s[i - 2]
  BY <1>1, ConcatProperties
<1>3. Len(s) \in Nat
  BY LenProperties
<1>4. (<<f, g>> \o s)[1] = f /\ (<<f, g>> \o s)[2] = g
  BY <1>1, <1>2, <1>3
<1>5. \A i \in 1 .. Len(s) : (<<f, g>> \o s)[i + 2] = s[i]
  BY <1>2, <1>3
<1>6. <<f, g>> \o s # <<>>
  BY <1>2, <1>3
<1> QED
  BY <1>2, <1>3, <1>4, <1>5, <1>6

(* Popping a frame leaves the frames below it. *)
LEMMA PopFrame ==
  ASSUME NEW s \in Seq(Frames), s # <<>>
  PROVE  /\ Head(s) \in Frames /\ Head(s) = s[1]
         /\ Tail(s) \in Seq(Frames)
         /\ Len(Tail(s)) = Len(s) - 1
         /\ \A i \in 1 .. Len(Tail(s)) : Tail(s)[i] = s[i + 1]
BY HeadTailProperties

(* A frame made of a function and a call, or of no call, is a frame. *)
LEMMA FrameType ==
  ASSUME NEW f \in Fns, NEW c \in Calls \cup {NoCall}
  PROVE  Frame(f, c) \in Frames /\ Frame(f, c).fn = f /\ Frame(f, c).call = c
BY DEF Frame, Frames

(* Every batch of the provider is a sequence of calls, all different. *)
LEMMA BatchType ==
  ASSUME NEW S \in SUBSET Calls, NEW batch \in Batches(S)
  PROVE  /\ batch \in Seq(Calls)
         /\ \A i, j \in DOMAIN batch : i # j => batch[i] # batch[j]
         /\ \A i \in DOMAIN batch : batch[i] \in S
<1>1. PICK n \in 0 .. MaxBatch : /\ batch \in [1 .. n -> S]
                                 /\ \A i, j \in 1 .. n : i # j => batch[i] # batch[j]
  BY DEF Batches
<1>2. n \in Nat
  BY BoundsAssumption
<1>3. batch \in [1 .. n -> Calls]
  BY <1>1
<1> QED
  BY <1>1, <1>2, <1>3, SeqDef

-------------------------------------------------------------------------------
(* The helpers keep the types of what they change. *)
LEMMA FinishType ==
  ASSUME TypeOK, NEW reason \in Reasons, Finish(reason)
  PROVE  /\ fate' \in [Runs -> {"unused", "live", "refused", "finished", "destroyed"}]
         /\ reports' \in [Runs -> Seq(Reasons)]
         /\ cancelled' \in BOOLEAN /\ turn' \in Nat
         /\ pending' \in Seq(Calls)
         /\ entry' \in [Calls -> {"absent", "confirm", "running"}]
         /\ resolver' \in [Calls -> {"none", "live", "stale", "used"}]
         /\ flight' \in 0 .. MaxRuns /\ halted' \in BOOLEAN
<1>1. CASE Live
  <2>1. /\ fate' = [fate EXCEPT ![gen] = "finished"]
        /\ reports' = [reports EXCEPT ![gen] = Append(reports[gen], reason)]
        /\ Zeroed /\ UNCHANGED wire
    BY <1>1 DEF Finish
  <2>2. gen \in Runs /\ reports[gen] \in Seq(Reasons)
    BY <1>1, BoundsAssumption DEF TypeOK, Live, Runs
  <2>3. Append(reports[gen], reason) \in Seq(Reasons)
    BY <2>2
  <2>4. reports' \in [Runs -> Seq(Reasons)]
    BY <2>1, <2>2, <2>3 DEF TypeOK
  <2>5. resolver' \in [Calls -> {"none", "live", "stale", "used"}]
    BY <2>1 DEF Zeroed, InvalidateResolvers, TypeOK
  <2> QED
    BY <2>1, <2>2, <2>4, <2>5, EmptySeq DEF Zeroed, TypeOK, wire
<1>2. CASE ~Live
  BY <1>2 DEF Finish, TypeOK, inner, wire
<1> QED
  BY <1>1, <1>2

(* However a continuation goes on, the fields keep their types. *)
LEMMA NextRoundType ==
  ASSUME TypeOK, NextRound
  PROVE  /\ fate' \in [Runs -> {"unused", "live", "refused", "finished", "destroyed"}]
         /\ reports' \in [Runs -> Seq(Reasons)]
         /\ cancelled' \in BOOLEAN /\ turn' \in Nat
         /\ pending' \in Seq(Calls)
         /\ entry' \in [Calls -> {"absent", "confirm", "running"}]
         /\ resolver' \in [Calls -> {"none", "live", "stale", "used"}]
         /\ flight' \in 0 .. MaxRuns /\ halted' \in BOOLEAN
<1>1. CASE SubmitRound
  <2>1. /\ flight' = gen /\ halted' = FALSE /\ turn' = turn + 1 /\ pending' = <<>>
        /\ cancelled' = cancelled /\ entry' = entry /\ resolver' = resolver
        /\ fate' = fate /\ reports' = reports
    BY <1>1 DEF SubmitRound
  <2>2. turn' \in Nat
    BY <2>1 DEF TypeOK
  <2>3. pending' \in Seq(Calls)
    BY <2>1, EmptySeq
  <2> QED
    BY <2>1, <2>2, <2>3 DEF TypeOK
<1>2. CASE Finish("Aborted")
  BY <1>2, FinishType DEF Reasons
<1>3. CASE Finish("ModelError")
  BY <1>3, FinishType DEF Reasons
<1> QED
  BY <1>1, <1>2, <1>3 DEF NextRound

(* The call a callback frame is about, and the frames below it. *)
LEMMA CalledBack ==
  ASSUME TypeOK, stack # <<>>
  PROVE  Topmost \in Calls \cup {NoCall} /\ Tail(stack) \in Seq(Frames)
BY PopFrame DEF TypeOK, Topmost, Frames

(* A tool_result more for one call keeps the counts natural numbers. *)
LEMMA CountUp ==
  ASSUME NEW f \in [Calls -> Nat], NEW c
  PROVE  [f EXCEPT ![c] = @ + 1] \in [Calls -> Nat]
<1>1. \A d \in Calls : [f EXCEPT ![c] = @ + 1][d] = IF d = c THEN f[d] + 1 ELSE f[d]
  OBVIOUS
<1>2. \A d \in Calls : [f EXCEPT ![c] = @ + 1][d] \in Nat
  BY <1>1
<1> QED
  BY <1>2, Zenon

(* Before the first query every field has its type. *)
LEMMA InitType == Init => TypeOK
<1> SUFFICES ASSUME Init PROVE TypeOK
  OBVIOUS
<1>1. reports \in [Runs -> Seq(Reasons)]
  BY EmptySeq DEF Init
<1>2. pending \in Seq(Calls) /\ stack \in Seq(Frames)
  BY EmptySeq DEF Init
<1>3. gen \in 0 .. MaxRuns /\ owner \in [Calls -> 0 .. MaxRuns] /\ flight \in 0 .. MaxRuns
  BY BoundsAssumption DEF Init
<1> QED
  <2>1. turn \in Nat /\ cursor \in Nat \ {0} /\ answers \in [Calls -> Nat]
    BY DEF Init
  <2>2. cancelled \in BOOLEAN /\ halted \in BOOLEAN
    BY Zenon DEF Init
  <2>3. /\ fate \in [Runs -> {"unused", "live", "refused", "finished", "destroyed"}]
        /\ entry \in [Calls -> {"absent", "confirm", "running"}]
        /\ resolver \in [Calls -> {"none", "live", "stale", "used"}]
        /\ job \in [Calls -> {"none", "active", "stopping"}]
    BY DEF Init
  <2> QED
    BY <1>1, <1>2, <1>3, <2>1, <2>2, <2>3 DEF TypeOK

(* No step of the query, the host or the provider breaks a field's type. *)
LEMMA TypeStep ==
  ASSUME TypeOK, [Next]_vars
  PROVE  TypeOK'
<1>1. CASE Start
  <2>1. gen + 1 \in Runs /\ gen' = gen + 1
    BY <1>1, BoundsAssumption DEF Start, TypeOK, Runs
  <2>2. gen' \in 0 .. MaxRuns
    BY <2>1 DEF Runs
  <2>3. UNCHANGED <<reports, tools, cursor, stack>>
    BY <1>1 DEF Start
  <2>4. CASE /\ fate' = [fate EXCEPT ![gen + 1] = "live"]
             /\ turn' = 1 /\ flight' = gen + 1 /\ halted' = FALSE
             /\ UNCHANGED <<cancelled, pending, entry, resolver>>
    BY <2>1, <2>2, <2>3, <2>4 DEF TypeOK, tools
  <2>5. CASE /\ fate' = [fate EXCEPT ![gen + 1] = "refused"]
             /\ UNCHANGED <<inner, wire>>
    BY <2>1, <2>2, <2>3, <2>5 DEF TypeOK, tools, inner, wire
  <2> QED
    BY <1>1, <2>4, <2>5 DEF Start
<1>2. CASE Cancel
  <2>1. job' \in [Calls -> {"none", "active", "stopping"}]
    BY <1>2 DEF Cancel, StopTools, TypeOK
  <2>2. resolver' \in [Calls -> {"none", "live", "stale", "used"}]
    BY <1>2 DEF Cancel, InvalidateResolvers, TypeOK
  <2>3. flight' = flight /\ halted' \in BOOLEAN
    BY <1>2 DEF Cancel, ProviderCancel, TypeOK
  <2> QED
    BY <1>2, <2>1, <2>2, <2>3 DEF Cancel, TypeOK, run
<1>3. CASE Destroy
  <2>1. job' \in [Calls -> {"none", "active", "stopping"}]
    BY <1>3 DEF Destroy, StopTools, TypeOK
  <2>2. /\ resolver' \in [Calls -> {"none", "live", "stale", "used"}]
        /\ entry' \in [Calls -> {"absent", "confirm", "running"}]
        /\ cancelled' \in BOOLEAN /\ turn' \in Nat /\ pending' \in Seq(Calls)
    BY <1>3, EmptySeq DEF Destroy, Zeroed, InvalidateResolvers, TypeOK
  <2>3. flight' = flight /\ halted' \in BOOLEAN
    BY <1>3 DEF Destroy, ProviderCancel, TypeOK
  <2> QED
    BY <1>3, <2>1, <2>2, <2>3 DEF Destroy, TypeOK
<1>4. ASSUME NEW c \in Calls, NEW allow \in BOOLEAN, Resolve(c, allow)
      PROVE  TypeOK'
  <2>1. /\ resolver' \in [Calls -> {"none", "live", "stale", "used"}]
        /\ entry' \in [Calls -> {"absent", "confirm", "running"}]
        /\ answers' \in [Calls -> Nat]
    <3>1. answers' = answers \/ answers' = [answers EXCEPT ![c] = @ + 1]
      BY <1>4 DEF Resolve
    <3>2. entry' = entry \/ entry' = [entry EXCEPT ![c] = "absent"]
      BY <1>4 DEF Resolve
    <3>3. resolver' = [resolver EXCEPT ![c] = "used"]
      BY <1>4 DEF Resolve
    <3>4. answers' \in [Calls -> Nat]
      BY <3>1, CountUp DEF TypeOK
    <3> QED
      BY <3>2, <3>3, <3>4 DEF TypeOK
  <2>2. stack' \in Seq(Frames)
    <3>1. <<Frame("drive", NoCall)>> \o stack \in Seq(Frames)
      BY PushFrame, FrameType DEF TypeOK, Fns
    <3>2. <<Frame("started", c), Frame("drive", NoCall)>> \o stack \in Seq(Frames)
      BY PushFrames, FrameType DEF TypeOK, Fns
    <3>3. \/ stack' = stack
          \/ stack' = <<Frame("drive", NoCall)>> \o stack
          \/ stack' = <<Frame("started", c), Frame("drive", NoCall)>> \o stack
      BY <1>4 DEF Resolve
    <3> QED
      BY <3>1, <3>2, <3>3 DEF TypeOK
  <2> QED
    BY <1>4, <2>1, <2>2 DEF Resolve, TypeOK, run, wire
<1>5. ASSUME NEW stop \in Stops, NEW batch \in Batches(FreshCalls), ProviderDone(stop, batch)
      PROVE  TypeOK'
  <2>1. batch \in Seq(Calls)
    BY BatchType DEF FreshCalls
  <2>2. Buffered(batch) \in Seq(Calls)
    BY <2>1, EmptySeq DEF Buffered
  <2>3. flight' \in 0 .. MaxRuns /\ halted' \in BOOLEAN
    <3>1. flight' = 0 /\ halted' = FALSE
      BY <1>5 DEF ProviderDone
    <3>2. 0 \in 0 .. MaxRuns
      BY BoundsAssumption
    <3> QED
      BY <3>1, <3>2, Zenon
  <2>4. CASE Live
    <3>1. owner' \in [Calls -> 0 .. MaxRuns]
      <4>1. owner' = [c \in Calls |-> IF \E i \in DOMAIN Buffered(batch) : Buffered(batch)[i] = c
                                     THEN gen ELSE owner[c]]
        BY <1>5, <2>4 DEF ProviderDone
      <4> QED
        BY <4>1 DEF TypeOK
    <3>2. gen \in Runs /\ reports[gen] \in Seq(Reasons)
      BY <2>4, BoundsAssumption DEF TypeOK, Live, Runs
    <3>3. CASE stop = "ToolUse" /\ Buffered(batch) # <<>> /\ RoundsLeft
      <4>1. <<Frame("dispatch", NoCall)>> \in Seq(Frames)
        BY FrameType DEF Fns
      <4>2. /\ pending' = Buffered(batch) /\ cursor' = 1
            /\ stack' = <<Frame("dispatch", NoCall)>>
            /\ UNCHANGED <<fate, reports, cancelled, turn, entry, resolver, gen, answers, job>>
        BY <1>5, <2>4, <3>3 DEF ProviderDone
      <4> QED
        BY <2>2, <2>3, <3>1, <4>1, <4>2 DEF TypeOK
    <3>4. CASE ~(stop = "ToolUse" /\ Buffered(batch) # <<>> /\ RoundsLeft)
      <4> DEFINE reason == IF stop = "ToolUse" /\ Buffered(batch) # <<>> THEN "MaxTurns"
                           ELSE Terminal(stop)
      <4>1. reason \in Reasons
        BY DEF Reasons, Terminal, Stops
      <4>2. Append(reports[gen], reason) \in Seq(Reasons)
        BY <3>2, <4>1
      <4>3. /\ reports' = [reports EXCEPT ![gen] = Append(reports[gen], reason)]
            /\ fate' = [fate EXCEPT ![gen] = "finished"]
            /\ Zeroed /\ UNCHANGED <<cursor, stack, gen, answers, job>>
        BY <1>5, <2>4, <3>4 DEF ProviderDone
      <4>4. reports' \in [Runs -> Seq(Reasons)]
        BY <3>2, <4>2, <4>3 DEF TypeOK
      <4>5. resolver' \in [Calls -> {"none", "live", "stale", "used"}]
        BY <4>3 DEF Zeroed, InvalidateResolvers, TypeOK
      <4> QED
        BY <2>3, <3>1, <3>2, <4>3, <4>4, <4>5, EmptySeq DEF TypeOK, Zeroed
    <3> QED
      BY <3>3, <3>4
  <2>5. CASE ~Live
    BY <1>5, <2>3, <2>5 DEF ProviderDone, TypeOK, inner
  <2> QED
    BY <2>4, <2>5
<1>6. CASE DispatchUnknown
  <2>1. answers' \in [Calls -> Nat]
    BY <1>6, CountUp DEF DispatchUnknown, TypeOK
  <2>2. cursor' \in Nat \ {0}
    BY <1>6 DEF DispatchUnknown, TypeOK
  <2> QED
    BY <1>6, <2>1, <2>2 DEF DispatchUnknown, TypeOK, run, inner, wire
<1>7. CASE DispatchGuarded
  <2>1. pending[cursor] \in Calls
    BY <1>7, CallsAssumption DEF DispatchGuarded
  <2>2. <<Frame("confirm", pending[cursor])>> \o stack \in Seq(Frames)
    BY <2>1, PushFrame, FrameType DEF TypeOK, Fns
  <2>3. cursor' \in Nat \ {0}
    BY <1>7 DEF DispatchGuarded, TypeOK
  <2>4. /\ entry' \in [Calls -> {"absent", "confirm", "running"}]
        /\ resolver' \in [Calls -> {"none", "live", "stale", "used"}]
    BY <1>7, <2>1 DEF DispatchGuarded, TypeOK
  <2> QED
    BY <1>7, <2>2, <2>3, <2>4 DEF DispatchGuarded, TypeOK, run, wire, tools
<1>8. CASE DispatchPlain
  <2>1. pending[cursor] \in Calls
    BY <1>8, ElementOfSeq DEF DispatchPlain, InLoop, TypeOK
  <2>2. <<Frame("started", pending[cursor])>> \o stack \in Seq(Frames)
    BY <2>1, PushFrame, FrameType DEF TypeOK, Fns
  <2> QED
    BY <1>8, <2>2 DEF DispatchPlain, TypeOK, run, inner, wire, tools
<1>9. CASE HandlerReturns
  <2>1. Topmost \in Calls \cup {NoCall} /\ Tail(stack) \in Seq(Frames)
    BY <1>9, CalledBack DEF HandlerReturns, Inside
  <2>2. <<Frame("ended", Topmost)>> \o Tail(stack) \in Seq(Frames)
    BY <2>1, PushFrame, FrameType DEF Fns
  <2>3. stack' \in Seq(Frames)
    BY <1>9, <2>1, <2>2 DEF HandlerReturns
  <2>4. answers' \in [Calls -> Nat]
    <3>1. answers' = answers \/ answers' = [answers EXCEPT ![Topmost] = @ + 1]
      BY <1>9 DEF HandlerReturns
    <3> QED
      BY <3>1, CountUp DEF TypeOK
  <2>5. /\ entry' \in [Calls -> {"absent", "confirm", "running"}]
        /\ job' \in [Calls -> {"none", "active", "stopping"}]
    BY <1>9 DEF HandlerReturns, TypeOK
  <2> QED
    BY <1>9, <2>3, <2>4, <2>5 DEF HandlerReturns, TypeOK, run, wire
<1>10. CASE CallbackReturns
  <2>1. Tail(stack) \in Seq(Frames)
    BY <1>10, CalledBack DEF CallbackReturns, Inside
  <2> QED
    BY <1>10, <2>1 DEF CallbackReturns, TypeOK, run, inner, wire, tools
<1>11. CASE DispatchDone
  <2>1. stack' \in Seq(Frames)
    BY <1>11, CalledBack DEF DispatchDone, Inside
  <2>2. CASE Finish("Aborted")
    BY <1>11, <2>1, <2>2, FinishType DEF DispatchDone, TypeOK, Reasons, tools
  <2>3. CASE NextRound
    BY <1>11, <2>1, <2>3, NextRoundType DEF DispatchDone, TypeOK, tools
  <2>4. CASE pending' = <<>> /\ UNCHANGED <<fate, reports, cancelled, turn, entry, resolver, wire>>
    BY <1>11, <2>1, <2>4, EmptySeq DEF DispatchDone, TypeOK, tools, wire
  <2>5. CASE UNCHANGED <<fate, reports, inner, wire>>
    BY <1>11, <2>1, <2>5 DEF DispatchDone, TypeOK, tools, wire, inner
  <2> QED
    BY <1>11, <2>2, <2>3, <2>4, <2>5 DEF DispatchDone
<1>12. CASE Drive
  <2>1. stack' \in Seq(Frames)
    BY <1>12, CalledBack DEF Drive, Inside
  <2>2. CASE NextRound
    BY <1>12, <2>1, <2>2, NextRoundType DEF Drive, TypeOK, tools
  <2>3. CASE UNCHANGED <<fate, reports, inner, wire>>
    BY <1>12, <2>1, <2>3 DEF Drive, TypeOK, tools, wire, inner
  <2> QED
    BY <1>12, <2>2, <2>3 DEF Drive
<1>13. ASSUME NEW c \in Calls, JobDone(c)
       PROVE  TypeOK'
  <2>1. <<Frame("ended", c), Frame("drive", NoCall)>> \in Seq(Frames)
    BY FrameType DEF Fns
  <2>2. /\ entry' \in [Calls -> {"absent", "confirm", "running"}]
        /\ job' \in [Calls -> {"none", "active", "stopping"}]
        /\ answers' \in [Calls -> Nat]
    <3>1. answers' = answers \/ answers' = [answers EXCEPT ![c] = @ + 1]
      BY <1>13 DEF JobDone
    <3>2. entry' = entry \/ entry' = [entry EXCEPT ![c] = "absent"]
      BY <1>13 DEF JobDone
    <3>3. job' = [job EXCEPT ![c] = "none"]
      BY <1>13 DEF JobDone
    <3>4. answers' \in [Calls -> Nat]
      BY <3>1, CountUp DEF TypeOK
    <3> QED
      BY <3>2, <3>3, <3>4 DEF TypeOK
  <2> QED
    BY <1>13, <2>1, <2>2 DEF JobDone, TypeOK, run, wire
<1>14. CASE UNCHANGED vars
  BY <1>14 DEF vars, run, inner, wire, tools, TypeOK
<1> QED
  BY <1>1, <1>2, <1>3, <1>4, <1>5, <1>6, <1>7, <1>8, <1>9, <1>10, <1>11, <1>12, <1>13, <1>14
     DEF Next, Frames_Next, Provider, Host

(* The fields of the query, of its calls and of the provider always have *)
(* the types query.c gives them, whatever the host and the provider do.  *)
THEOREM TypeCorrect == Spec => []TypeOK
BY InitType, TypeStep, PTL DEF Spec

-------------------------------------------------------------------------------
(* The inductive invariant.  NeverStranded and ResolverOwned speak of calls *)
(* that wait; to carry them through a dispatch one must know that the calls *)
(* the loop has still to visit are untouched, that only the innermost frame *)
(* can be about to enter a handler, and what an ended query leaves behind.  *)

Untouched(c) ==
  answers[c] = 0 /\ entry[c] = "absent" /\ job[c] = "none" /\ resolver[c] = "none"

(* A call nobody has committed to a history has no trace anywhere. *)
Fresh == \A c \in Calls : owner[c] = 0 => Untouched(c)

(* The loop's remaining calls belong to the live query and are untouched. *)
Queued ==
  /\ \A i \in DOMAIN pending : i >= cursor => Untouched(pending[i]) /\ owner[pending[i]] = gen
  /\ \A i, j \in DOMAIN pending : i # j => pending[i] # pending[j]

(* What xAgentQueryDestroy leaves of a query. *)
DeadIsClean == ~Live => pending = <<>> /\ \A c \in Calls : entry[c] = "absent"

(* An entry is backed by what will remove it. *)
ConfirmIsIdle == \A c \in Calls : entry[c] = "confirm" => job[c] = "none" /\ answers[c] = 0
RunningHasJob == \A c \in Calls : entry[c] = "running" => job[c] # "none"
ConfirmIsLive ==
  ~CancelWhileConfirming => \A c \in Calls : entry[c] = "confirm" => resolver[c] = "live"

(* A frame about to enter a handler is the innermost one. *)
StartedOnTop == \A k \in 1 .. Len(stack) : stack[k].fn = "started" => k = 1
StartedIsIdle ==
  Inside("started") =>
    /\ Topmost \in Calls /\ entry[Topmost] = "absent" /\ owner[Topmost] # 0
    /\ \A i \in DOMAIN pending : i >= cursor => pending[i] # Topmost

(* Some frame of the query is always at the bottom of the stack. *)
Bottom == stack # <<>> => stack[Len(stack)].fn \in {"dispatch", "drive"}

(* Between events a running query waits for something. *)
Owed == Live /\ stack = <<>> => flight = gen \/ Waiting # {}

Data ==
  /\ ResolverOwned /\ Fresh /\ Queued /\ DeadIsClean
  /\ ConfirmIsIdle /\ RunningHasJob /\ ConfirmIsLive
Control == StartedOnTop /\ StartedIsIdle /\ Bottom /\ Owed

IInv == TypeOK /\ Data /\ Control

-------------------------------------------------------------------------------
(* Steps on the stack. *)
LEMMA HeadIsFirst ==
  ASSUME TypeOK, stack # <<>>
  PROVE  /\ Len(stack) \in Nat \ {0} /\ Head(stack) = stack[1]
         /\ Head(stack) \in Frames
BY PopFrame, EmptySeq, LenProperties DEF TypeOK

(* A frame that returns leaves the call stack well formed. *)
LEMMA PopControl ==
  ASSUME TypeOK, Bottom, StartedOnTop, stack # <<>>, stack' = Tail(stack)
  PROVE  /\ StartedOnTop' /\ Bottom' /\ StartedIsIdle' /\ ~Inside("started")'
         /\ Head(stack).fn \notin {"dispatch", "drive"} => stack' # <<>>
<1>1. /\ Len(stack') = Len(stack) - 1 /\ stack' \in Seq(Frames)
      /\ \A i \in 1 .. Len(stack') : stack'[i] = stack[i + 1]
  BY PopFrame DEF TypeOK
<1>2. Len(stack) \in Nat \ {0} /\ Head(stack) = stack[1]
  BY HeadIsFirst
<1>3. \A i \in 1 .. Len(stack') : stack'[i].fn # "started"
  BY <1>1, <1>2 DEF StartedOnTop
<1>4. stack' # <<>> => Len(stack') \in Nat \ {0} /\ Head(stack') = stack'[1]
  BY <1>1, PopFrame, EmptySeq
<1>5. ~Inside("started")'
  <2>1. stack' # <<>> => 1 \in 1 .. Len(stack')
    BY <1>4
  <2>2. stack' # <<>> => Head(stack').fn # "started"
    BY <1>3, <1>4, <2>1
  <2> QED
    BY <2>2 DEF Inside
<1>6. Bottom'
  BY <1>1, <1>2, <1>4 DEF Bottom
<1>7. ASSUME Head(stack).fn \notin {"dispatch", "drive"} PROVE stack' # <<>>
  <2>1. Len(stack) # 1
    BY <1>2, <1>7 DEF Bottom
  <2>2. Len(stack') # 0
    BY <1>1, <1>2, <2>1
  <2>3. Len(<<>>) = 0
    OBVIOUS
  <2> QED
    BY <2>2, <2>3
<1> QED
  BY <1>3, <1>5, <1>6, <1>7 DEF StartedOnTop, StartedIsIdle

(* A frame pushed by the dispatch loop leaves the call stack well formed. *)
LEMMA PushControl ==
  ASSUME TypeOK, Bottom, StartedOnTop, ~Inside("started"), NEW f \in Frames,
         stack = <<>> => f.fn \in {"dispatch", "drive"}, stack' = <<f>> \o stack
  PROVE  /\ StartedOnTop' /\ Bottom' /\ stack' # <<>> /\ Topmost' = f.call
         /\ \A fn : Inside(fn)' <=> f.fn = fn
<1>1. /\ Len(stack') = Len(stack) + 1 /\ stack' # <<>>
      /\ Head(stack') = f /\ stack'[1] = f
      /\ \A i \in 1 .. Len(stack) : stack'[i + 1] = stack[i]
  BY PushFrame DEF TypeOK
<1>2. Len(stack) \in Nat
  BY LenProperties DEF TypeOK
<1>3. \A i \in 1 .. Len(stack) : stack[i].fn # "started"
  <2>1. CASE stack = <<>>
    BY <2>1, EmptySeq
  <2>2. CASE stack # <<>>
    BY <2>2, HeadIsFirst DEF StartedOnTop, Inside
  <2> QED
    BY <2>1, <2>2
<1>4. StartedOnTop'
  <2> SUFFICES ASSUME NEW k \in 1 .. Len(stack'), k # 1 PROVE stack'[k].fn # "started"
    BY DEF StartedOnTop
  <2>1. k - 1 \in 1 .. Len(stack) /\ k = (k - 1) + 1
    BY <1>1, <1>2
  <2> QED
    BY <1>1, <1>3, <2>1
<1>5. Bottom'
  <2>1. CASE stack = <<>>
    BY <1>1, <2>1, EmptySeq DEF Bottom
  <2>2. CASE stack # <<>>
    BY <1>1, <2>2, HeadIsFirst DEF Bottom
  <2> QED
    BY <2>1, <2>2
<1> QED
  BY <1>1, <1>4, <1>5 DEF Inside, Topmost

(* The innermost frame goes on as another one. *)
LEMMA SwapControl ==
  ASSUME TypeOK, Bottom, StartedOnTop, stack # <<>>, NEW f \in Frames, f.fn # "started",
         Head(stack).fn \notin {"dispatch", "drive"}, stack' = <<f>> \o Tail(stack)
  PROVE  StartedOnTop' /\ Bottom' /\ stack' # <<>> /\ ~Inside("started")'
<1>1. /\ Len(Tail(stack)) = Len(stack) - 1 /\ Tail(stack) \in Seq(Frames)
      /\ \A i \in 1 .. Len(Tail(stack)) : Tail(stack)[i] = stack[i + 1]
  BY PopFrame DEF TypeOK
<1>2. /\ Len(stack') = Len(Tail(stack)) + 1 /\ stack' # <<>>
      /\ Head(stack') = f /\ stack'[1] = f
      /\ \A i \in 1 .. Len(Tail(stack)) : stack'[i + 1] = Tail(stack)[i]
  BY <1>1, PushFrame
<1>3. Len(stack) \in Nat \ {0} /\ Head(stack) = stack[1] /\ Len(stack') = Len(stack)
  BY <1>1, <1>2, HeadIsFirst
<1>4. \A k \in 2 .. Len(stack) : stack'[k] = stack[k]
  <2> SUFFICES ASSUME NEW k \in 2 .. Len(stack) PROVE stack'[k] = stack[k]
    OBVIOUS
  <2>1. k - 1 \in 1 .. Len(Tail(stack)) /\ k = (k - 1) + 1
    BY <1>1, <1>3
  <2> QED
    BY <1>1, <1>2, <2>1
<1>5. StartedOnTop'
  BY <1>2, <1>3, <1>4 DEF StartedOnTop
<1>6. Bottom'
  <2>1. Len(stack) # 1
    BY <1>3 DEF Bottom
  <2> QED
    BY <1>3, <1>4, <2>1 DEF Bottom
<1> QED
  BY <1>2, <1>5, <1>6 DEF Inside

(* The frames xAgentToolConfirmResolve and ai_query_async_tool_complete     *)
(* push: a callback of the host above the frame that goes on with the run. *)
LEMMA PushBoth ==
  ASSUME TypeOK, Bottom, StartedOnTop, ~Inside("started"),
         NEW f \in Frames, NEW g \in Frames, g.fn = "drive", stack' = <<f, g>> \o stack
  PROVE  /\ StartedOnTop' /\ Bottom' /\ stack' # <<>> /\ Topmost' = f.call
         /\ \A fn : Inside(fn)' <=> f.fn = fn
<1>1. /\ Len(stack') = Len(stack) + 2 /\ stack' # <<>>
      /\ Head(stack') = f /\ stack'[1] = f /\ stack'[2] = g
      /\ \A i \in 1 .. Len(stack) : stack'[i + 2] = stack[i]
  BY PushFrames DEF TypeOK
<1>2. Len(stack) \in Nat
  BY LenProperties DEF TypeOK
<1>3. \A i \in 1 .. Len(stack) : stack[i].fn # "started"
  <2>1. CASE stack = <<>>
    BY <2>1, EmptySeq
  <2>2. CASE stack # <<>>
    BY <2>2, HeadIsFirst DEF StartedOnTop, Inside
  <2> QED
    BY <2>1, <2>2
<1>4. StartedOnTop'
  <2> SUFFICES ASSUME NEW k \in 1 .. Len(stack'), k # 1 PROVE stack'[k].fn # "started"
    BY DEF StartedOnTop
  <2>1. CASE k = 2
    BY <1>1, <2>1
  <2>2. CASE k # 2
    <3>1. k - 2 \in 1 .. Len(stack) /\ k = (k - 2) + 2
      BY <1>1, <1>2, <2>2
    <3> QED
      BY <1>1, <1>3, <3>1
  <2> QED
    BY <2>1, <2>2
<1>5. Bottom'
  <2>1. CASE stack = <<>>
    BY <1>1, <2>1, EmptySeq DEF Bottom
  <2>2. CASE stack # <<>>
    BY <1>1, <2>2, HeadIsFirst DEF Bottom
  <2> QED
    BY <2>1, <2>2
<1> QED
  BY <1>1, <1>4, <1>5 DEF Inside, Topmost

-------------------------------------------------------------------------------
(* Steps on the query's own fields. *)
LEMMA SameData ==
  ASSUME IInv,
         UNCHANGED <<gen, fate, pending, cursor, entry, resolver, owner, answers, job>>
  PROVE  Data' /\ (Live' <=> Live) /\ Waiting' = Waiting
BY DEF IInv, Data, ResolverOwned, Fresh, Queued, DeadIsClean, ConfirmIsIdle, RunningHasJob,
       ConfirmIsLive, Untouched, Live, Waiting

(* A new round, or one that waits for its handlers: nothing is left to visit. *)
LEMMA EmptiedData ==
  ASSUME IInv, pending' = <<>>, UNCHANGED <<gen, fate, entry, resolver, owner, answers, job>>
  PROVE  Data' /\ (Live' <=> Live) /\ Waiting' = Waiting
<1>1. Queued'
  BY DEF Queued
<1> QED
  BY <1>1 DEF IInv, Data, ResolverOwned, Fresh, DeadIsClean, ConfirmIsIdle, RunningHasJob,
              ConfirmIsLive, Untouched, Live, Waiting

(* The teardown of a query that is not running any more. *)
LEMMA ZeroedData ==
  ASSUME IInv, Zeroed, ~Live', answers' = answers,
         \A c \in Calls : owner'[c] = 0 => owner[c] = 0,
         \A c \in Calls : job[c] = "none" => job'[c] = "none"
  PROVE  Data'
<1> USE DEF IInv, Data
<1>1. pending' = <<>> /\ \A c \in Calls : entry'[c] = "absent"
  BY DEF Zeroed
<1>2. \A c \in Calls : resolver'[c] = IF entry[c] = "confirm" /\ resolver[c] = "live"
                                      THEN "stale" ELSE resolver[c]
  BY DEF Zeroed, InvalidateResolvers
<1>3. ResolverOwned'
  BY <1>2 DEF ResolverOwned
<1>4. Fresh'
  BY <1>1, <1>2 DEF Fresh, Untouched
<1>5. Queued' /\ DeadIsClean' /\ ConfirmIsIdle' /\ RunningHasJob' /\ ConfirmIsLive'
  BY <1>1 DEF Queued, DeadIsClean, ConfirmIsIdle, RunningHasJob, ConfirmIsLive
<1> QED
  BY <1>3, <1>4, <1>5

(* query_finalize and the destruction that follows keep the data invariant. *)
LEMMA FinishData ==
  ASSUME IInv, NEW reason, Finish(reason), Live, UNCHANGED <<gen, owner, answers, job>>
  PROVE  Data' /\ ~Live' /\ pending' = <<>> /\ (\A c \in Calls : entry'[c] = "absent")
<1>1. fate' = [fate EXCEPT ![gen] = "finished"] /\ Zeroed
  BY DEF Finish
<1>2. ~Live'
  BY <1>1, BoundsAssumption DEF IInv, TypeOK, Live, Runs
<1> QED
  BY <1>1, <1>2, ZeroedData DEF Zeroed

(* However a continuation goes on, the run has ended or asks the model. *)
LEMMA NextRoundData ==
  ASSUME IInv, NextRound, Live, UNCHANGED <<gen, owner, answers, job>>
  PROVE  Data' /\ (Live' => flight' = gen')
<1>1. CASE SubmitRound
  <2>1. /\ pending' = <<>> /\ flight' = gen
        /\ UNCHANGED <<gen, fate, entry, resolver, owner, answers, job>>
    BY <1>1 DEF SubmitRound
  <2> QED
    BY <2>1, EmptiedData
<1>2. CASE Finish("Aborted")
  BY <1>2, FinishData
<1>3. CASE Finish("ModelError")
  BY <1>3, FinishData
<1> QED
  BY <1>1, <1>2, <1>3 DEF NextRound

-------------------------------------------------------------------------------
(* Every action preserves the invariant. *)
LEMMA InitInv == Init => IInv
<1> SUFFICES ASSUME Init PROVE IInv
  OBVIOUS
<1>1. TypeOK
  BY InitType
<1>2. stack = <<>> /\ Len(stack) = 0 /\ pending = <<>> /\ ~Live
  BY DEF Init, Live
<1>3. Data
  BY <1>2 DEF Init, Data, ResolverOwned, Fresh, Queued, DeadIsClean, ConfirmIsIdle,
              RunningHasJob, ConfirmIsLive, Untouched
<1>4. Control
  BY <1>2 DEF Control, StartedOnTop, StartedIsIdle, Bottom, Owed, Inside
<1> QED
  BY <1>1, <1>3, <1>4 DEF IInv

(* Starting a run keeps the invariant. *)
LEMMA StartInv ==
  ASSUME IInv, TypeOK', Start
  PROVE  IInv'
<1> USE DEF IInv
<1>1. /\ stack = <<>> /\ ~Live /\ gen' = gen + 1 /\ stack' = stack
      /\ UNCHANGED <<pending, cursor, entry, resolver, owner, answers, job>>
  BY DEF Start, inner, tools
<1>2. pending = <<>> /\ \A c \in Calls : entry[c] = "absent" /\ resolver[c] # "live"
  BY <1>1 DEF Data, DeadIsClean, ResolverOwned
<1>3. gen + 1 \in Runs /\ gen \in Nat
  BY BoundsAssumption DEF Start, TypeOK, Runs
<1>4. Live' => flight' = gen'
  <2>1. CASE fate' = [fate EXCEPT ![gen + 1] = "refused"]
    BY <1>1, <1>3, <2>1 DEF Live, TypeOK
  <2>2. CASE flight' = gen + 1
    BY <1>1, <2>2
  <2> QED
    BY <2>1, <2>2 DEF Start
<1>5. Data'
  BY <1>1, <1>2 DEF Data, ResolverOwned, Fresh, Queued, DeadIsClean, ConfirmIsIdle,
                    RunningHasJob, ConfirmIsLive, Untouched
<1>6. Control'
  BY <1>1, <1>4 DEF Control, StartedOnTop, StartedIsIdle, Bottom, Owed, Inside
<1> QED
  BY <1>5, <1>6

(* xAgentQueryCancel keeps the invariant: entries stay, resolvers do not. *)
LEMMA CancelInv ==
  ASSUME IInv, TypeOK', Cancel
  PROVE  IInv'
<1> USE DEF IInv
<1>1. /\ Live /\ Live' /\ Waiting' = Waiting /\ flight' = flight
      /\ UNCHANGED <<gen, fate, pending, cursor, entry, owner, answers, stack>>
  BY DEF Cancel, run, Live, Waiting, ProviderCancel
<1>2. \A c \in Calls : resolver'[c] = IF entry[c] = "confirm" /\ resolver[c] = "live"
                                      THEN "stale" ELSE resolver[c]
  BY DEF Cancel, InvalidateResolvers
<1>3. \A c \in Calls : job'[c] = "none" <=> job[c] = "none"
  BY DEF Cancel, StopTools
<1>4. ~CancelWhileConfirming => \A c \in Calls : resolver'[c] = resolver[c]
  BY <1>2 DEF Cancel
<1>5. ResolverOwned' /\ ConfirmIsLive'
  BY <1>1, <1>2, <1>4 DEF Data, ResolverOwned, ConfirmIsLive
<1>6. Fresh'
  BY <1>1, <1>2, <1>3 DEF Data, Fresh, Untouched
<1>7. Queued'
  <2>1. \A i \in DOMAIN pending : pending[i] \in Calls
    BY ElementOfSeq, LenProperties DEF TypeOK
  <2> QED
    BY <1>1, <1>2, <1>3, <2>1 DEF Data, Queued, Untouched
<1>8. DeadIsClean' /\ ConfirmIsIdle' /\ RunningHasJob'
  BY <1>1, <1>3 DEF Data, DeadIsClean, ConfirmIsIdle, RunningHasJob
<1>9. Control'
  BY <1>1 DEF Control, StartedOnTop, StartedIsIdle, Bottom, Owed, Inside, Topmost
<1> QED
  BY <1>5, <1>6, <1>7, <1>8, <1>9 DEF Data

(* xAgentQueryDestroy keeps the invariant. *)
LEMMA DestroyInv ==
  ASSUME IInv, TypeOK', Destroy
  PROVE  IInv'
<1> USE DEF IInv
<1>1. stack = <<>> /\ stack' = stack /\ UNCHANGED <<gen, owner, answers>> /\ Zeroed
  BY DEF Destroy, FromLoop
<1>2. ~Live'
  BY BoundsAssumption DEF Destroy, Live, TypeOK, Runs
<1>3. \A c \in Calls : job[c] = "none" => job'[c] = "none"
  BY DEF Destroy, StopTools
<1>4. Data'
  BY <1>1, <1>2, <1>3, ZeroedData
<1>5. Control'
  BY <1>1, <1>2 DEF Control, StartedOnTop, StartedIsIdle, Bottom, Owed, Inside
<1> QED
  BY <1>4, <1>5

(* The buffered calls are calls, at positive positions. *)
LEMMA PendingType ==
  ASSUME TypeOK
  PROVE  \A i \in DOMAIN pending : pending[i] \in Calls /\ i \in Nat
BY ElementOfSeq, LenProperties DEF TypeOK

(* The user's answer keeps the invariant. *)
LEMMA ResolveInv ==
  ASSUME IInv, TypeOK', NEW c \in Calls, NEW allow \in BOOLEAN, Resolve(c, allow)
  PROVE  IInv'
<1> USE DEF IInv
<1>1. /\ UNCHANGED <<gen, fate, pending, cursor, owner, job, flight>>
      /\ resolver' = [resolver EXCEPT ![c] = "used"]
      /\ resolver[c] # "none" /\ (Live' <=> Live)
  BY DEF Resolve, run, wire, Live
<1>2. ~Inside("started")
  BY DEF Resolve, FromLoop, Inside
<1>3. \A i \in DOMAIN pending : i >= cursor => pending[i] # c
  BY <1>1, PendingType DEF Data, Queued, Untouched
<1>4. owner[c] # 0
  BY <1>1 DEF Data, Fresh, Untouched
<1>5. CASE resolver[c] = "live" /\ entry[c] # "absent"
  <2>1. /\ entry' = [entry EXCEPT ![c] = "absent"]
        /\ answers' = answers \/ answers' = [answers EXCEPT ![c] = @ + 1]
    BY <1>5 DEF Resolve
  <2>2. \A d \in Calls : /\ entry'[d] = IF d = c THEN "absent" ELSE entry[d]
                         /\ resolver'[d] = IF d = c THEN "used" ELSE resolver[d]
                         /\ d # c => answers'[d] = answers[d]
    BY <1>1, <2>1 DEF TypeOK
  <2>3. Data'
    <3>1. ResolverOwned'
      BY <1>1, <2>2 DEF Data, ResolverOwned
    <3>2. Fresh'
      BY <1>1, <1>4, <2>2 DEF Data, Fresh, Untouched
    <3>3. Queued'
      BY <1>1, <1>3, <2>2, PendingType DEF Data, Queued, Untouched
    <3>4. DeadIsClean' /\ ConfirmIsIdle' /\ RunningHasJob' /\ ConfirmIsLive'
      BY <1>1, <2>2 DEF Data, DeadIsClean, ConfirmIsIdle, RunningHasJob, ConfirmIsLive
    <3> QED
      BY <3>1, <3>2, <3>3, <3>4 DEF Data
  <2>4. CASE allow
    <3>1. stack' = <<Frame("started", c), Frame("drive", NoCall)>> \o stack
      BY <1>5, <2>4 DEF Resolve
    <3>2. /\ StartedOnTop' /\ Bottom' /\ stack' # <<>> /\ Topmost' = c
      BY <1>2, <3>1, PushBoth, FrameType DEF Control, Fns
    <3>3. StartedIsIdle'
      BY <1>1, <1>3, <1>4, <2>2, <3>2 DEF StartedIsIdle
    <3> QED
      BY <2>3, <3>2, <3>3 DEF Control, Owed
  <2>5. CASE ~allow
    <3>1. stack' = <<Frame("drive", NoCall)>> \o stack
      BY <1>5, <2>5 DEF Resolve
    <3>2. StartedOnTop' /\ Bottom' /\ stack' # <<>> /\ ~Inside("started")'
      BY <1>2, <3>1, PushControl, FrameType DEF Control, Fns
    <3> QED
      BY <2>3, <3>2 DEF Control, Owed, StartedIsIdle
  <2> QED
    BY <2>4, <2>5
<1>6. CASE ~(resolver[c] = "live" /\ entry[c] # "absent")
  <2>1. UNCHANGED <<entry, answers, stack>>
    BY <1>6 DEF Resolve
  <2>2. \A d \in Calls : resolver'[d] = IF d = c THEN "used" ELSE resolver[d]
    BY <1>1 DEF TypeOK
  <2>3. ~CancelWhileConfirming => entry[c] # "confirm"
    BY <1>6 DEF Data, ConfirmIsLive
  <2>4. ResolverOwned' /\ ConfirmIsLive' /\ Fresh'
    BY <1>1, <1>4, <2>1, <2>2, <2>3 DEF Data, ResolverOwned, ConfirmIsLive, Fresh, Untouched
  <2>5. Queued'
    BY <1>1, <1>3, <2>1, <2>2, PendingType DEF Data, Queued, Untouched
  <2>6. DeadIsClean' /\ ConfirmIsIdle' /\ RunningHasJob'
    BY <1>1, <2>1 DEF Data, DeadIsClean, ConfirmIsIdle, RunningHasJob
  <2>7. Control'
    BY <1>1, <2>1 DEF Control, StartedOnTop, StartedIsIdle, Bottom, Owed, Inside, Topmost, Waiting
  <2> QED
    BY <2>4, <2>5, <2>6, <2>7 DEF Data
<1> QED
  BY <1>5, <1>6

(* The end of a flight keeps the invariant, whoever owns the storage now. *)
LEMMA ProviderDoneInv ==
  ASSUME IInv, TypeOK', NEW stop \in Stops, NEW batch \in Batches(FreshCalls),
         ProviderDone(stop, batch)
  PROVE  IInv'
<1> USE DEF IInv
<1>1. stack = <<>> /\ UNCHANGED <<gen, answers, job>>
  BY DEF ProviderDone, Stopped
<1>2. CASE ~Live
  <2>1. UNCHANGED <<fate, pending, cursor, entry, resolver, owner, stack>>
    BY <1>2 DEF ProviderDone, inner
  <2>2. Data' /\ ~Live'
    BY <1>1, <1>2, <2>1, SameData
  <2>3. Control'
    BY <1>1, <2>1, <2>2 DEF Control, StartedOnTop, StartedIsIdle, Bottom, Owed, Inside
  <2> QED
    BY <2>2, <2>3
<1>3. CASE Live
  <2> DEFINE calls == Buffered(batch)
  <2>1. /\ calls \in Seq(Calls)
        /\ \A i, j \in DOMAIN calls : i # j => calls[i] # calls[j]
        /\ \A i \in DOMAIN calls : calls[i] \in Calls /\ owner[calls[i]] = 0
    <3>1. /\ batch \in Seq(Calls)
          /\ \A i, j \in DOMAIN batch : i # j => batch[i] # batch[j]
          /\ \A i \in DOMAIN batch : batch[i] \in FreshCalls
      BY BatchType DEF FreshCalls
    <3> QED
      BY <3>1, EmptySeq DEF Buffered, FreshCalls
  <2>2. \A c \in Calls : owner'[c] = IF \E i \in DOMAIN calls : calls[i] = c
                                     THEN gen ELSE owner[c]
    BY <1>3 DEF ProviderDone
  <2>3. gen # 0
    BY <1>3 DEF Live
  <2>4. \A c \in Calls : owner'[c] = 0 => owner[c] = 0
    BY <2>2, <2>3
  <2>5. \A c \in Calls : owner[c] # 0 => owner'[c] = owner[c]
    BY <2>1, <2>2
  <2>6. CASE stop = "ToolUse" /\ calls # <<>> /\ RoundsLeft
    <3>1. /\ pending' = calls /\ cursor' = 1 /\ stack' = <<Frame("dispatch", NoCall)>>
          /\ UNCHANGED <<fate, entry, resolver>>
      BY <1>3, <2>6 DEF ProviderDone
    <3>2. Live'
      BY <1>1, <1>3, <3>1 DEF Live
    <3>3. ResolverOwned'
      BY <1>1, <2>3, <2>5, <3>1, <3>2 DEF Data, ResolverOwned
    <3>4. Fresh'
      BY <1>1, <2>4, <3>1 DEF Data, Fresh, Untouched
    <3>5. Queued'
      <4>1. \A i \in DOMAIN calls : Untouched(calls[i])
        BY <2>1 DEF Data, Fresh
      <4>2. \A i \in DOMAIN calls : owner'[calls[i]] = gen
        BY <2>1, <2>2
      <4>3. \A i \in DOMAIN pending' : Untouched(pending[i])' /\ owner'[pending'[i]] = gen'
        BY <1>1, <3>1, <4>1, <4>2 DEF Untouched
      <4>4. \A i, j \in DOMAIN pending' : i # j => pending'[i] # pending'[j]
        BY <2>1, <3>1
      <4> QED
        BY <4>3, <4>4 DEF Queued
    <3>6. DeadIsClean' /\ ConfirmIsIdle' /\ RunningHasJob' /\ ConfirmIsLive'
      BY <1>1, <3>1, <3>2 DEF Data, DeadIsClean, ConfirmIsIdle, RunningHasJob, ConfirmIsLive
    <3>7. /\ Len(stack') = 1 /\ stack'[1].fn = "dispatch" /\ stack' # <<>>
          /\ Head(stack').fn = "dispatch"
      BY <3>1, FrameType DEF Fns
    <3>8. Control'
      BY <3>7 DEF Control, StartedOnTop, StartedIsIdle, Bottom, Owed, Inside
    <3> QED
      BY <3>3, <3>4, <3>5, <3>6, <3>8 DEF Data
  <2>7. CASE ~(stop = "ToolUse" /\ calls # <<>> /\ RoundsLeft)
    <3>1. /\ fate' = [fate EXCEPT ![gen] = "finished"] /\ Zeroed
          /\ UNCHANGED <<cursor, stack>>
      BY <1>3, <2>7 DEF ProviderDone
    <3>2. ~Live'
      BY <1>1, <3>1, BoundsAssumption DEF Live, TypeOK, Runs
    <3>3. Data'
      BY <1>1, <2>4, <3>1, <3>2, ZeroedData
    <3>4. Control'
      BY <1>1, <3>1, <3>2 DEF Control, StartedOnTop, StartedIsIdle, Bottom, Owed, Inside
    <3> QED
      BY <3>3, <3>4
  <2> QED
    BY <2>6, <2>7
<1> QED
  BY <1>2, <1>3

(* The loop's next call, and what is left to visit after it. *)
LEMMA NextCall ==
  ASSUME TypeOK, Queued, InLoop
  PROVE  /\ pending[cursor] \in Calls /\ cursor \in DOMAIN pending
         /\ Untouched(pending[cursor]) /\ owner[pending[cursor]] = gen /\ gen # 0
         /\ \A i \in DOMAIN pending : i >= cursor + 1 => i >= cursor /\ pending[i] # pending[cursor]
<1>1. cursor \in DOMAIN pending
  BY LenProperties DEF TypeOK, InLoop
<1>2. gen # 0
  BY DEF InLoop, Live
<1> QED
  BY <1>1, <1>2, PendingType DEF Queued, TypeOK

(* Answering a call of an unknown tool keeps the invariant. *)
LEMMA DispatchUnknownInv ==
  ASSUME IInv, TypeOK', DispatchUnknown
  PROVE  IInv'
<1> USE DEF IInv
<1> DEFINE c == pending[cursor]
<1>1. /\ InLoop /\ cursor' = cursor + 1
      /\ UNCHANGED <<gen, fate, pending, entry, resolver, owner, job, stack, flight>>
      /\ Live' /\ Live
  BY DEF DispatchUnknown, InLoop, run, inner, wire, Live
<1>2. /\ c \in Calls /\ Untouched(c) /\ owner[c] = gen /\ gen # 0
      /\ \A i \in DOMAIN pending : i >= cursor + 1 => i >= cursor /\ pending[i] # c
  BY <1>1, NextCall DEF Data
<1>3. \A d \in Calls : d # c => answers'[d] = answers[d]
  BY DEF DispatchUnknown, TypeOK
<1>4. ResolverOwned' /\ Fresh' /\ ConfirmIsIdle'
  BY <1>1, <1>2, <1>3 DEF Data, ResolverOwned, Fresh, ConfirmIsIdle, Untouched
<1>5. Queued'
  BY <1>1, <1>2, <1>3, PendingType DEF Data, Queued, Untouched
<1>6. DeadIsClean' /\ RunningHasJob' /\ ConfirmIsLive'
  BY <1>1 DEF Data, DeadIsClean, RunningHasJob, ConfirmIsLive
<1>7. Control'
  BY <1>1, <1>2 DEF Control, StartedOnTop, StartedIsIdle, Bottom, Owed, Inside, Topmost, InLoop
<1> QED
  BY <1>4, <1>5, <1>6, <1>7 DEF Data

(* Parking a call until the user confirms it keeps the invariant. *)
LEMMA DispatchGuardedInv ==
  ASSUME IInv, TypeOK', DispatchGuarded
  PROVE  IInv'
<1> USE DEF IInv
<1> DEFINE c == pending[cursor]
<1>1. /\ InLoop /\ cursor' = cursor + 1 /\ UNCHANGED <<gen, fate, pending, owner, answers, job>>
      /\ Live' /\ Live /\ Inside("dispatch")
  BY DEF DispatchGuarded, InLoop, run, tools, Live
<1>2. /\ c \in Calls /\ Untouched(c) /\ owner[c] = gen /\ gen # 0
      /\ \A i \in DOMAIN pending : i >= cursor + 1 => i >= cursor /\ pending[i] # c
  BY <1>1, NextCall DEF Data
<1>3. \A d \in Calls : /\ entry'[d] = IF d = c THEN "confirm" ELSE entry[d]
                       /\ resolver'[d] = IF d = c THEN "live" ELSE resolver[d]
  BY <1>2 DEF DispatchGuarded, TypeOK
<1>4. ResolverOwned' /\ Fresh' /\ ConfirmIsIdle' /\ RunningHasJob' /\ ConfirmIsLive'
  BY <1>1, <1>2, <1>3
     DEF Data, ResolverOwned, Fresh, ConfirmIsIdle, RunningHasJob, ConfirmIsLive, Untouched
<1>5. Queued'
  BY <1>1, <1>2, <1>3, PendingType DEF Data, Queued, Untouched
<1>6. DeadIsClean'
  BY <1>1 DEF DeadIsClean
<1>7. StartedOnTop' /\ Bottom' /\ stack' # <<>> /\ ~Inside("started")'
  <2>1. stack' = <<Frame("confirm", c)>> \o stack
    BY DEF DispatchGuarded
  <2>2. ~Inside("started") /\ stack # <<>>
    BY <1>1 DEF Inside
  <2> QED
    BY <1>2, <2>1, <2>2, PushControl, FrameType DEF Control, Fns
<1> QED
  BY <1>4, <1>5, <1>6, <1>7 DEF Data, Control, StartedIsIdle, Owed

(* Calling a tool's started callback keeps the invariant. *)
LEMMA DispatchPlainInv ==
  ASSUME IInv, TypeOK', DispatchPlain
  PROVE  IInv'
<1> USE DEF IInv
<1> DEFINE c == pending[cursor]
<1>1. /\ InLoop /\ cursor' = cursor + 1 /\ Live' /\ Live /\ Inside("dispatch")
      /\ UNCHANGED <<gen, fate, pending, entry, resolver, owner, answers, job>>
  BY DEF DispatchPlain, InLoop, run, inner, tools, Live
<1>2. /\ c \in Calls /\ Untouched(c) /\ owner[c] = gen /\ gen # 0
      /\ \A i \in DOMAIN pending : i >= cursor + 1 => i >= cursor /\ pending[i] # c
  BY <1>1, NextCall DEF Data
<1>3. ResolverOwned' /\ Fresh' /\ ConfirmIsIdle' /\ RunningHasJob' /\ ConfirmIsLive' /\ DeadIsClean'
  BY <1>1 DEF Data, ResolverOwned, Fresh, ConfirmIsIdle, RunningHasJob, ConfirmIsLive,
              DeadIsClean, Untouched
<1>4. Queued'
  BY <1>1, <1>2, PendingType DEF Data, Queued, Untouched
<1>5. StartedOnTop' /\ Bottom' /\ stack' # <<>> /\ Topmost' = c
  <2>1. stack' = <<Frame("started", c)>> \o stack
    BY DEF DispatchPlain
  <2>2. ~Inside("started") /\ stack # <<>>
    BY <1>1 DEF Inside
  <2> QED
    BY <1>2, <2>1, <2>2, PushControl, FrameType DEF Control, Fns
<1>6. StartedIsIdle'
  BY <1>1, <1>2, <1>5 DEF StartedIsIdle, Untouched
<1> QED
  BY <1>3, <1>4, <1>5, <1>6 DEF Data, Control, Owed

(* The return of a host callback keeps the invariant. *)
LEMMA CallbackReturnsInv ==
  ASSUME IInv, TypeOK', CallbackReturns
  PROVE  IInv'
<1> USE DEF IInv
<1>1. /\ stack # <<>> /\ stack' = Tail(stack) /\ Head(stack).fn \notin {"dispatch", "drive"}
      /\ UNCHANGED <<gen, fate, pending, cursor, entry, resolver, owner, answers, job>>
  BY DEF CallbackReturns, Inside, run, inner, tools
<1>2. Data'
  BY <1>1, SameData
<1>3. StartedOnTop' /\ Bottom' /\ StartedIsIdle' /\ stack' # <<>>
  BY <1>1, PopControl DEF Control
<1> QED
  BY <1>2, <1>3 DEF Control, Owed

(* A handler that returns, with a result or Pending, keeps the invariant. *)
LEMMA HandlerReturnsInv ==
  ASSUME IInv, TypeOK', HandlerReturns
  PROVE  IInv'
<1> USE DEF IInv
<1> DEFINE c == Topmost
<1>1. /\ stack # <<>> /\ Inside("started") /\ Head(stack).fn = "started"
      /\ UNCHANGED <<gen, fate, pending, cursor, resolver, owner>>
      /\ (Live' <=> Live)
  BY DEF HandlerReturns, Inside, run, Live
<1>2. /\ c \in Calls /\ entry[c] = "absent" /\ owner[c] # 0
      /\ \A i \in DOMAIN pending : i >= cursor => pending[i] # c
  BY <1>1 DEF Control, StartedIsIdle
<1>3. resolver[c] # "live"
  BY <1>2 DEF Data, ResolverOwned
<1>4. \A d \in Calls : d # c => answers'[d] = answers[d] /\ entry'[d] = entry[d] /\ job'[d] = job[d]
  BY DEF HandlerReturns, TypeOK
<1>5. /\ entry'[c] \in {"absent", "running"}
      /\ entry'[c] = "running" => job'[c] = "active"
      /\ ~Live => entry'[c] = "absent"
  BY <1>2 DEF HandlerReturns, TypeOK
<1>6. ResolverOwned' /\ ConfirmIsIdle' /\ RunningHasJob' /\ ConfirmIsLive'
  BY <1>1, <1>2, <1>3, <1>4, <1>5
     DEF Data, ResolverOwned, ConfirmIsIdle, RunningHasJob, ConfirmIsLive
<1>7. Fresh' /\ DeadIsClean'
  BY <1>1, <1>2, <1>4, <1>5 DEF Data, Fresh, DeadIsClean, Untouched
<1>8. Queued'
  BY <1>1, <1>2, <1>4, PendingType DEF Data, Queued, Untouched
<1>9. CASE stack' = Tail(stack)
  <2>1. StartedOnTop' /\ Bottom' /\ StartedIsIdle' /\ stack' # <<>>
    BY <1>1, <1>9, PopControl DEF Control
  <2> QED
    BY <1>6, <1>7, <1>8, <2>1 DEF Data, Control, Owed
<1>10. CASE stack' = <<Frame("ended", Topmost)>> \o Tail(stack)
  <2>1. StartedOnTop' /\ Bottom' /\ stack' # <<>> /\ ~Inside("started")'
    BY <1>1, <1>2, <1>10, SwapControl, FrameType DEF Control, Fns
  <2> QED
    BY <1>6, <1>7, <1>8, <2>1 DEF Data, Control, Owed, StartedIsIdle
<1> QED
  BY <1>9, <1>10 DEF HandlerReturns

(* The completion of an asynchronous handler keeps the invariant. *)
LEMMA JobDoneInv ==
  ASSUME IInv, TypeOK', NEW c \in Calls, JobDone(c)
  PROVE  IInv'
<1> USE DEF IInv
<1>1. /\ stack = <<>> /\ job[c] # "none"
      /\ UNCHANGED <<gen, fate, pending, cursor, resolver, owner, flight>>
      /\ (Live' <=> Live)
  BY DEF JobDone, run, wire, Live
<1>2. owner[c] # 0 /\ entry[c] # "confirm" /\ resolver[c] # "live"
  BY <1>1 DEF Data, Fresh, Untouched, ConfirmIsIdle, ResolverOwned
<1>3. \A i \in DOMAIN pending : i >= cursor => pending[i] # c
  BY <1>1, PendingType DEF Data, Queued, Untouched
<1>4. /\ \A d \in Calls : d # c => answers'[d] = answers[d] /\ entry'[d] = entry[d] /\ job'[d] = job[d]
      /\ entry'[c] = "absent"
  <2>1. ~Live => entry[c] = "absent"
    BY DEF Data, DeadIsClean
  <2> QED
    BY <2>1 DEF JobDone, TypeOK
<1>5. /\ ResolverOwned' /\ Fresh' /\ DeadIsClean' /\ ConfirmIsIdle' /\ RunningHasJob' /\ ConfirmIsLive'
  BY <1>1, <1>2, <1>4 DEF Data, ResolverOwned, Fresh, DeadIsClean, ConfirmIsIdle, RunningHasJob,
                         ConfirmIsLive, Untouched
<1>6. Queued'
  BY <1>1, <1>3, <1>4, PendingType DEF Data, Queued, Untouched
<1>7. CASE Live /\ entry[c] # "absent"
  <2>1. stack' = <<Frame("ended", c), Frame("drive", NoCall)>>
    BY <1>7 DEF JobDone
  <2>2. /\ Len(stack') = 2 /\ stack'[1].fn = "ended" /\ stack'[2].fn = "drive"
        /\ stack' # <<>> /\ Head(stack').fn = "ended"
    BY <2>1, FrameType DEF Fns
  <2>3. Control'
    BY <2>2 DEF Control, StartedOnTop, StartedIsIdle, Bottom, Owed, Inside
  <2> QED
    BY <1>5, <1>6, <2>3 DEF Data
<1>8. CASE ~(Live /\ entry[c] # "absent")
  <2>1. UNCHANGED <<entry, stack>>
    BY <1>8 DEF JobDone
  <2>2. Control'
    BY <1>1, <2>1 DEF Control, StartedOnTop, StartedIsIdle, Bottom, Owed, Inside, Waiting
  <2> QED
    BY <1>5, <1>6, <2>2 DEF Data
<1> QED
  BY <1>7, <1>8

(* The end of the dispatch loop keeps the invariant. *)
LEMMA DispatchDoneInv ==
  ASSUME IInv, TypeOK', DispatchDone
  PROVE  IInv'
<1> USE DEF IInv
<1>1. /\ stack # <<>> /\ stack' = Tail(stack)
      /\ UNCHANGED <<gen, cursor, owner, answers, job>>
  BY DEF DispatchDone, Inside, tools
<1>2. StartedOnTop' /\ Bottom' /\ StartedIsIdle'
  BY <1>1, PopControl DEF Control
<1>3. CASE ~Live
  <2>1. UNCHANGED <<fate, pending, entry, resolver>>
    BY <1>3 DEF DispatchDone, inner
  <2> QED
    BY <1>1, <1>2, <1>3, <2>1, SameData DEF Control, Owed
<1>4. CASE Live /\ cancelled
  <2>1. Finish("Aborted")
    BY <1>4 DEF DispatchDone
  <2> QED
    BY <1>1, <1>2, <1>4, <2>1, FinishData DEF Control, Owed
<1>5. CASE Live /\ ~cancelled /\ Waiting # {}
  <2>1. pending' = <<>> /\ UNCHANGED <<fate, entry, resolver>>
    BY <1>5 DEF DispatchDone
  <2> QED
    BY <1>1, <1>2, <1>5, <2>1, EmptiedData DEF Control, Owed
<1>6. CASE Live /\ ~cancelled /\ Waiting = {}
  <2>1. NextRound
    BY <1>6 DEF DispatchDone
  <2> QED
    BY <1>1, <1>2, <1>6, <2>1, NextRoundData DEF Control, Owed
<1> QED
  BY <1>3, <1>4, <1>5, <1>6

(* The common tail of a completion or an answer keeps the invariant. *)
LEMMA DriveInv ==
  ASSUME IInv, TypeOK', Drive
  PROVE  IInv'
<1> USE DEF IInv
<1>1. /\ stack # <<>> /\ stack' = Tail(stack)
      /\ UNCHANGED <<gen, cursor, owner, answers, job>>
  BY DEF Drive, Inside, tools
<1>2. StartedOnTop' /\ Bottom' /\ StartedIsIdle'
  BY <1>1, PopControl DEF Control
<1>3. CASE Live /\ Waiting = {}
  <2>1. NextRound
    BY <1>3 DEF Drive
  <2> QED
    BY <1>1, <1>2, <1>3, <2>1, NextRoundData DEF Control, Owed
<1>4. CASE ~(Live /\ Waiting = {})
  <2>1. UNCHANGED <<fate, pending, entry, resolver, flight>>
    BY <1>4 DEF Drive, inner, wire
  <2> QED
    BY <1>1, <1>2, <1>4, <2>1, SameData DEF Control, Owed
<1> QED
  BY <1>3, <1>4

(* The invariant is inductive: one case per action. *)
LEMMA Induction ==
  ASSUME IInv, [Next]_vars
  PROVE  IInv'
<1>1. TypeOK'
  BY TypeStep DEF IInv
<1>2. CASE UNCHANGED vars
  <2>1. /\ UNCHANGED <<gen, fate, pending, cursor, entry, resolver, owner, answers, job>>
        /\ UNCHANGED <<flight, stack>>
    BY <1>2 DEF vars, run, inner, wire, tools
  <2>2. Data' /\ (Live' <=> Live) /\ Waiting' = Waiting
    BY <2>1, SameData
  <2>3. Control'
    BY <2>1, <2>2 DEF IInv, Control, StartedOnTop, StartedIsIdle, Bottom, Owed, Inside, Topmost
  <2> QED
    BY <1>1, <2>2, <2>3 DEF IInv
<1> QED
  BY <1>1, <1>2, StartInv, CancelInv, DestroyInv, ResolveInv, ProviderDoneInv, DispatchUnknownInv,
     DispatchGuardedInv, DispatchPlainInv, HandlerReturnsInv, CallbackReturnsInv, DispatchDoneInv,
     DriveInv, JobDoneInv
     DEF Next, Frames_Next, Provider, Host

(* Whatever the host, the provider and the tools do, and in whatever order:
   the fields have their types, a resolver that works belongs to the run in
   progress, no call is answered before it is reached, and a frame that must
   go on with the run is on the call stack. *)
THEOREM Invariance == Spec => []IInv
BY InitInv, Induction, PTL DEF Spec

(* No resolver the host still holds points at storage of another query, or *)
(* at a call that is answered, whatever the host does, synchronous answers *)
(* and cancels inside callbacks included.                                  *)
THEOREM ResolversStayOwned == Spec => []ResolverOwned
<1>1. IInv => ResolverOwned
  BY DEF IInv, Data
<1> QED
  BY <1>1, Invariance, PTL

(* As long as the host does not cancel a run whose confirmation it still   *)
(* owes, no running query is left with nothing that will call it back.     *)
THEOREM NoRunIsStranded ==
  ASSUME ~CancelWhileConfirming
  PROVE  Spec => []NeverStranded
<1>1. IInv => NeverStranded
  <2> SUFFICES ASSUME IInv, Live, stack = <<>>, flight # gen
               PROVE  \/ \E c \in Calls : entry[c] = "running" /\ job[c] # "none"
                      \/ \E c \in Calls : entry[c] = "confirm" /\ resolver[c] = "live"
    BY DEF NeverStranded
  <2>1. PICK c \in Calls : entry[c] # "absent"
    BY DEF IInv, Control, Owed, Waiting
  <2>2. entry[c] \in {"confirm", "running"}
    BY <2>1 DEF IInv, TypeOK
  <2> QED
    BY <2>2 DEF IInv, Data, RunningHasJob, ConfirmIsLive
<1> QED
  BY <1>1, Invariance, PTL

-------------------------------------------------------------------------------
(* The reports, the flight and the rounds of a run need only the types. *)
LEMMA FinishReport ==
  ASSUME TypeOK, Live, NEW reason, fate' = [fate EXCEPT ![gen] = "finished"],
         reports' = [reports EXCEPT ![gen] = Append(reports[gen], reason)], gen' = gen,
         reason \in Reasons
  PROVE  /\ OneReport => OneReport'
         /\ OneReport => reports'[gen] = <<reason>>
         /\ ~Live'
<1>1. gen \in Runs /\ reports[gen] \in Seq(Reasons)
  BY BoundsAssumption DEF TypeOK, Live, Runs
<1>2. \A g \in Runs : /\ fate'[g] = IF g = gen THEN "finished" ELSE fate[g]
                      /\ reports'[g] = IF g = gen THEN Append(reports[gen], reason) ELSE reports[g]
  BY <1>1 DEF TypeOK
<1>3. Len(Append(reports[gen], reason)) = Len(reports[gen]) + 1
  BY <1>1
<1>4. OneReport => Len(reports[gen]) = 0
  BY <1>1 DEF OneReport, Live
<1>5. OneReport => OneReport'
  <2> SUFFICES ASSUME OneReport, NEW g \in Runs
               PROVE  Len(reports'[g]) = IF fate'[g] = "finished" THEN 1 ELSE 0
    BY DEF OneReport
  <2>1. CASE g = gen
    <3>1. reports'[g] = Append(reports[gen], reason) /\ fate'[g] = "finished"
      BY <1>2, <2>1
    <3>2. Len(Append(reports[gen], reason)) = 1
      BY <1>3, <1>4
    <3> QED
      BY <3>1, <3>2
  <2>2. CASE g # gen
    BY <1>2, <2>2 DEF OneReport
  <2> QED
    BY <2>1, <2>2
<1>6. OneReport => reports'[gen] = <<reason>>
  <2>1. OneReport => reports[gen] = <<>>
    BY <1>1, <1>4, EmptySeq
  <2>2. Append(<<>>, reason) = <<reason>>
    OBVIOUS
  <2>3. reports'[gen] = Append(reports[gen], reason)
    BY <1>1, <1>2
  <2> QED
    BY <2>1, <2>2, <2>3
<1> QED
  BY <1>1, <1>2, <1>5, <1>6 DEF Live

(* What an action may do to the reports, the flight and the rounds. *)
Quiet == UNCHANGED <<gen, fate, reports, flight, turn, cancelled>>
Ends  == /\ Live /\ gen' = gen
         /\ fate' = [fate EXCEPT ![gen] = "finished"]
         /\ \E reason \in Reasons :
              /\ reports' = [reports EXCEPT ![gen] = Append(reports[gen], reason)]
              /\ cancelled => reason = "Aborted"
         /\ flight' \in {0, flight} /\ turn' = 0
Asks  == /\ Live /\ ~cancelled /\ flight = 0 /\ flight' = gen /\ turn' = turn + 1
         /\ UNCHANGED <<gen, fate, reports, cancelled>>
Hears == /\ RoundsLeft /\ flight' = 0 /\ UNCHANGED <<gen, fate, reports, turn, cancelled>>
Misses == ~Live /\ flight' = 0 /\ UNCHANGED <<gen, fate, reports, turn, cancelled>>
Marks == Live /\ UNCHANGED <<gen, fate, reports, flight, turn>>

(* A continuation either submits one more round or ends the run. *)
LEMMA NextRoundEffect ==
  ASSUME Live, NextRound, gen' = gen
  PROVE  Ends \/ Asks
<1>1. CASE cancelled
  BY <1>1 DEF NextRound, Finish, Zeroed, Ends, Reasons, wire
<1>2. CASE ~cancelled /\ SubmitRound
  BY <1>2 DEF SubmitRound, Asks
<1>3. CASE ~cancelled /\ Finish("ModelError")
  BY <1>3 DEF Finish, Zeroed, Ends, Reasons, wire
<1> QED
  BY <1>1, <1>2, <1>3 DEF NextRound

(* A reply that is not dispatched is the end of its run. *)
LEMMA ReplyEnds ==
  ASSUME NEW stop \in Stops, NEW batch, ProviderDone(stop, batch), Live,
         ~(stop = "ToolUse" /\ Buffered(batch) # <<>> /\ RoundsLeft)
  PROVE  Ends
<1> DEFINE reason == IF stop = "ToolUse" /\ Buffered(batch) # <<>> THEN "MaxTurns"
                     ELSE Terminal(stop)
<1>1. /\ fate' = [fate EXCEPT ![gen] = "finished"]
      /\ reports' = [reports EXCEPT ![gen] = Append(reports[gen], reason)]
      /\ turn' = 0 /\ flight' = 0 /\ gen' = gen
  BY DEF ProviderDone, Zeroed
<1>2. reason \in Reasons
  BY DEF Reasons, Terminal, Stops
<1>3. cancelled => reason = "Aborted"
  BY DEF Terminal, Buffered
<1> QED
  BY <1>1, <1>2, <1>3 DEF Ends

(* Every step is quiet about the runs, starts one, submits a round of one,
   ends one, drops one, or lets a flight go. *)
LEMMA Effects ==
  ASSUME TypeOK, [Next]_vars
  PROVE  Start \/ Destroy \/ Quiet \/ Ends \/ Asks \/ Hears \/ Misses \/ Marks
<1>1. CASE Cancel
  BY <1>1 DEF Cancel, run, ProviderCancel, Marks
<1>2. ASSUME NEW c \in Calls, NEW allow \in BOOLEAN, Resolve(c, allow) PROVE Quiet
  BY <1>2 DEF Resolve, run, wire, Quiet
<1>3. ASSUME NEW stop \in Stops, NEW batch \in Batches(FreshCalls), ProviderDone(stop, batch)
      PROVE  Ends \/ Hears \/ Misses
  <2>1. flight' = 0 /\ gen' = gen
    BY <1>3 DEF ProviderDone
  <2>2. CASE ~Live
    BY <1>3, <2>1, <2>2 DEF ProviderDone, inner, Misses
  <2>3. CASE Live /\ stop = "ToolUse" /\ Buffered(batch) # <<>> /\ RoundsLeft
    BY <1>3, <2>1, <2>3 DEF ProviderDone, Hears
  <2>4. CASE Live /\ ~(stop = "ToolUse" /\ Buffered(batch) # <<>> /\ RoundsLeft)
    BY <1>3, <2>4, ReplyEnds
  <2> QED
    BY <2>2, <2>3, <2>4
<1>4. CASE DispatchUnknown \/ DispatchGuarded \/ DispatchPlain \/ HandlerReturns \/ CallbackReturns
  BY <1>4 DEF DispatchUnknown, DispatchGuarded, DispatchPlain, HandlerReturns, CallbackReturns,
              run, inner, wire, Quiet
<1>5. CASE DispatchDone
  <2>1. gen' = gen
    BY <1>5 DEF DispatchDone
  <2>2. CASE Live /\ cancelled
    BY <1>5, <2>1, <2>2 DEF DispatchDone, Finish, Zeroed, Ends, Reasons, wire
  <2>3. CASE Live /\ ~cancelled /\ Waiting = {}
    BY <1>5, <2>1, <2>3, NextRoundEffect DEF DispatchDone
  <2>4. CASE ~Live \/ (Live /\ ~cancelled /\ Waiting # {})
    BY <1>5, <2>1, <2>4 DEF DispatchDone, inner, wire, Quiet
  <2> QED
    BY <2>2, <2>3, <2>4
<1>6. CASE Drive
  <2>1. gen' = gen
    BY <1>6 DEF Drive
  <2>2. CASE Live /\ Waiting = {}
    BY <1>6, <2>1, <2>2, NextRoundEffect DEF Drive
  <2>3. CASE ~(Live /\ Waiting = {})
    BY <1>6, <2>1, <2>3 DEF Drive, inner, wire, Quiet
  <2> QED
    BY <2>2, <2>3
<1>7. ASSUME NEW c \in Calls, JobDone(c) PROVE Quiet
  BY <1>7 DEF JobDone, run, wire, Quiet
<1>8. CASE UNCHANGED vars
  BY <1>8 DEF vars, run, inner, wire, Quiet
<1> QED
  BY <1>1, <1>2, <1>3, <1>4, <1>5, <1>6, <1>7, <1>8 DEF Next, Frames_Next, Provider, Host

(* One report per finished run, the flight its own, and its rounds counted. *)
Unused == \A g \in Runs : g > gen => fate[g] = "unused"
RunInv ==
  /\ TypeOK /\ Unused /\ OneReport /\ FlightOwned /\ TurnBound
  /\ Live /\ flight = 0 => turn < MaxTurns

(* Before the first query there is nothing to report. *)
LEMMA RunInit == Init => RunInv
<1> SUFFICES ASSUME Init PROVE RunInv
  OBVIOUS
<1>1. TypeOK /\ ~Live
  BY InitType DEF Init, Live
<1>2. Len(<<>>) = 0
  OBVIOUS
<1>3. Unused /\ OneReport
  BY <1>2 DEF Init, Unused, OneReport
<1> QED
  BY <1>1, <1>3, BoundsAssumption DEF Init, RunInv, FlightOwned, TurnBound

(* The run invariant is inductive: one case per effect. *)
LEMMA RunInduction ==
  ASSUME RunInv, [Next]_vars
  PROVE  RunInv'
<1> USE DEF RunInv
<1>1. TypeOK'
  BY TypeStep
<1>2. CASE Start
  <2>1. stack = <<>> /\ ~Live /\ gen' = gen + 1 /\ gen + 1 \in Runs /\ reports' = reports
    BY <1>2, BoundsAssumption DEF Start, TypeOK, Runs
  <2>2. /\ gen \in Nat /\ fate[gen + 1] = "unused" /\ fate'[gen + 1] \in {"live", "refused"}
        /\ \A g \in Runs : g # gen + 1 => fate'[g] = fate[g]
    BY <1>2, <2>1, BoundsAssumption DEF Start, TypeOK, Unused, Runs
  <2>3. Unused' /\ OneReport'
    BY <2>1, <2>2 DEF Unused, OneReport, Runs
  <2>4. CASE flight = 0 /\ turn' = 1 /\ flight' = gen + 1
    BY <1>1, <2>1, <2>2, <2>3, <2>4, BoundsAssumption DEF FlightOwned, TurnBound
  <2>5. CASE fate' = [fate EXCEPT ![gen + 1] = "refused"] /\ UNCHANGED <<inner, wire>>
    <3>1. ~Live' /\ turn' = turn
      BY <2>1, <2>2, <2>5 DEF Live, inner, TypeOK
    <3> QED
      BY <1>1, <2>3, <3>1 DEF FlightOwned, TurnBound
  <2> QED
    BY <1>2, <2>4, <2>5 DEF Start
<1>3. CASE Destroy
  <2>1. gen \in Runs /\ gen' = gen /\ reports' = reports /\ fate' = [fate EXCEPT ![gen] = "destroyed"]
    BY <1>3, BoundsAssumption DEF Destroy, TypeOK, Live, Runs
  <2>2. fate[gen] = "live" /\ turn' = 0 /\ ~Live'
    BY <1>3, <2>1 DEF Destroy, Live, Zeroed, TypeOK
  <2>3. Unused' /\ OneReport'
    BY <2>1, <2>2 DEF Unused, OneReport, TypeOK
  <2> QED
    BY <1>1, <2>2, <2>3, BoundsAssumption DEF FlightOwned, TurnBound
<1>4. CASE Ends
  <2>1. OneReport' /\ ~Live'
    BY <1>4, FinishReport DEF Ends
  <2>2. Unused'
    BY <1>4, BoundsAssumption DEF Ends, Unused, TypeOK, Live, Runs
  <2> QED
    BY <1>1, <1>4, <2>1, <2>2, BoundsAssumption DEF Ends, FlightOwned, TurnBound
<1>5. CASE Asks
  <2>1. Unused' /\ OneReport' /\ (Live' <=> Live)
    BY <1>5 DEF Asks, Unused, OneReport, Live
  <2>2. turn < MaxTurns /\ turn' = turn + 1 /\ flight' = gen' /\ gen' # 0
    BY <1>5 DEF Asks, Live
  <2> QED
    BY <1>1, <2>1, <2>2, BoundsAssumption DEF FlightOwned, TurnBound, TypeOK
<1>6. CASE Hears \/ Misses \/ Quiet \/ Marks
  <2>1. Unused' /\ OneReport' /\ (Live' <=> Live) /\ turn' = turn
    BY <1>6 DEF Hears, Misses, Quiet, Marks, Unused, OneReport, Live
  <2>2. flight' = flight \/ (flight' = 0 /\ (~Live \/ turn < MaxTurns))
    BY <1>6 DEF Hears, Misses, Quiet, Marks, RoundsLeft
  <2> QED
    BY <1>1, <1>6, <2>1, <2>2 DEF FlightOwned, TurnBound, Hears, Misses, Quiet, Marks
<1> QED
  BY <1>2, <1>3, <1>4, <1>5, <1>6, Effects

(* What query.c keeps about its runs at every step: fates and reports agree,
   a flight and a live query match, and the rounds are within max_turns. *)
THEOREM RunInvariance == Spec => []RunInv
BY RunInit, RunInduction, PTL DEF Spec

(* Every started query reports its end exactly once, and a query that was *)
(* refused or torn down never does.                                       *)
THEOREM ReportsOnce == Spec => []OneReport
BY RunInvariance, PTL DEF RunInv

(* The flight's callbacks never reach another query than the one it serves. *)
THEOREM FlightIsOwned == Spec => []FlightOwned
BY RunInvariance, PTL DEF RunInv

(* No run submits more rounds than max_turns. *)
THEOREM TurnsAreBounded == Spec => []TurnBound
BY RunInvariance, PTL DEF RunInv

(* Whichever event ends a cancelled run, it ends as Aborted. *)
THEOREM CancelIsFinal == Spec => CancelWins
<1>1. ASSUME RunInv, [Next]_vars
      PROVE  Live /\ cancelled /\ fate'[gen] = "finished" => reports'[gen] = <<"Aborted">>
  <2> SUFFICES ASSUME Live, cancelled, fate'[gen] = "finished"
               PROVE  reports'[gen] = <<"Aborted">>
    OBVIOUS
  <2>1. gen \in Runs /\ fate[gen] = "live"
    BY <1>1, BoundsAssumption DEF RunInv, TypeOK, Live, Runs
  <2>2. ~Start /\ ~Destroy
    BY <1>1, <2>1 DEF RunInv, TypeOK, Start, Destroy
  <2>3. ~Quiet /\ ~Asks /\ ~Hears /\ ~Misses /\ ~Marks
    BY <2>1 DEF Quiet, Asks, Hears, Misses, Marks
  <2>4. Ends
    BY <1>1, <2>2, <2>3, Effects DEF RunInv
  <2>5. /\ fate' = [fate EXCEPT ![gen] = "finished"] /\ gen' = gen
        /\ reports' = [reports EXCEPT ![gen] = Append(reports[gen], "Aborted")]
    BY <2>4 DEF Ends
  <2> QED
    BY <1>1, <2>5, FinishReport DEF RunInv, Reasons
<1> QED
  BY <1>1, RunInvariance, PTL DEF Spec, CancelWins

-------------------------------------------------------------------------------
(* The exchange with the model, for a host that does not answer a            *)
(* confirmation inside on_tool_confirm: each call of the live run is         *)
(* answered once or is open, and then it is still to be visited, waits, or   *)
(* is about to enter its handler; and nothing is open while a round is at    *)
(* the model.  A frame of query.c has at most one callback above it.         *)
LeftOver(c) == \E i \in DOMAIN pending : i >= cursor /\ pending[i] = c
Entered(c)  == Inside("started") /\ Topmost = c
Open(c)     == entry[c] # "absent" \/ LeftOver(c) \/ Entered(c)

Dispatching == \E k \in 1 .. Len(stack) : stack[k].fn = "dispatch"
Flat == Len(stack) <= 1 \/ (Len(stack) = 2 /\ Head(stack).fn \notin {"dispatch", "drive"})

Answered == \A c \in Calls : Live /\ owner[c] = gen => answers[c] = IF Open(c) THEN 0 ELSE 1

Placed ==
  /\ Flat
  /\ stack # <<>> => Live /\ flight # gen
  /\ Live /\ flight = gen => Waiting = {}
  /\ \A c \in Calls : /\ LeftOver(c) => Dispatching
                      /\ owner[c] <= gen
                      /\ entry[c] # "absent" \/ Entered(c) => owner[c] = gen

Exchange == Placed /\ Answered

(* The frame that goes on with the run is alone on the stack. *)
LEMMA Alone ==
  ASSUME IInv, Placed, Inside("dispatch") \/ Inside("drive")
  PROVE  /\ Len(stack) = 1 /\ stack # <<>> /\ Head(stack) = stack[1] /\ Tail(stack) = <<>>
         /\ Live /\ flight # gen /\ ~Inside("started")
         /\ Inside("drive") => ~Dispatching
<1>1. stack # <<>> /\ Head(stack).fn \in {"dispatch", "drive"} /\ ~Inside("started")
  BY DEF Inside
<1>2. Len(stack) \in Nat \ {0} /\ Head(stack) = stack[1]
  BY <1>1, HeadIsFirst DEF IInv
<1>3. Len(stack) = 1
  BY <1>1, <1>2 DEF Placed, Flat
<1>4. Tail(stack) \in Seq(Frames) /\ Len(Tail(stack)) = 0
  BY <1>1, <1>3, PopFrame DEF IInv, TypeOK
<1>5. Tail(stack) = <<>>
  BY <1>4, EmptySeq
<1>6. Inside("drive") => ~Dispatching
  BY <1>2, <1>3 DEF Inside, Dispatching
<1> QED
  BY <1>1, <1>2, <1>3, <1>5, <1>6 DEF Placed

(* A callback has the frame that goes on below it. *)
LEMMA Above ==
  ASSUME IInv, Placed, stack # <<>>, Head(stack).fn \notin {"dispatch", "drive"}
  PROVE  /\ Len(stack) = 2 /\ Len(Tail(stack)) = 1 /\ Tail(stack) # <<>>
         /\ Tail(stack) \in Seq(Frames) /\ Tail(stack)[1] = stack[2]
         /\ Head(stack) = stack[1] /\ Head(Tail(stack)) = stack[2]
         /\ stack[2].fn \in {"dispatch", "drive"} /\ Live /\ flight # gen
         /\ Dispatching <=> stack[2].fn = "dispatch"
<1>1. Len(stack) \in Nat \ {0} /\ Head(stack) = stack[1] /\ Bottom
  BY HeadIsFirst DEF IInv, Control
<1>2. Len(stack) = 2
  BY <1>1 DEF Placed, Flat, Bottom
<1>3. /\ Tail(stack) \in Seq(Frames) /\ Len(Tail(stack)) = 1
      /\ \A i \in 1 .. Len(Tail(stack)) : Tail(stack)[i] = stack[i + 1]
  BY <1>2, PopFrame DEF IInv, TypeOK
<1>4. Tail(stack)[1] = stack[2]
  <2>1. 1 \in 1 .. Len(Tail(stack))
    BY <1>3
  <2> QED
    BY <1>3, <2>1
<1>5. Tail(stack) # <<>>
  <2>1. Len(<<>>) = 0 /\ Len(Tail(stack)) = 1
    BY <1>3
  <2>2. Len(Tail(stack)) # Len(<<>>)
    BY <2>1
  <2> QED
    BY <2>2, Zenon
<1>6. Head(Tail(stack)) = stack[2]
  BY <1>3, <1>4, <1>5, PopFrame
<1>7. stack[2].fn \in {"dispatch", "drive"}
  BY <1>1, <1>2 DEF Bottom
<1>8. Dispatching <=> stack[2].fn = "dispatch"
  <2>1. \A k \in 1 .. 2 : k = 1 \/ k = 2  OBVIOUS
  <2> QED BY <1>1, <1>2, <2>1 DEF Dispatching
<1> QED
  BY <1>1, <1>2, <1>3, <1>4, <1>5, <1>6, <1>7, <1>8 DEF Placed

(* With no frame and nothing left to visit, what is open waits. *)
LEMMA OffStack ==
  ASSUME stack = <<>>
  PROVE  ~Dispatching /\ Flat /\ (\A c : ~Entered(c)) /\ \A f : ~Inside(f)
BY DEF Dispatching, Flat, Entered, Inside

LEMMA NothingLeft ==
  ASSUME pending = <<>>
  PROVE  \A c : ~LeftOver(c)
BY DEF LeftOver

LEMMA ExchangeInit == Init => Exchange
<1> SUFFICES ASSUME Init PROVE Exchange
  OBVIOUS
<1>1. stack = <<>> /\ pending = <<>> /\ ~Live /\ gen = 0
  BY DEF Init, Live
<1>2. \A c \in Calls : entry[c] = "absent" /\ owner[c] = 0
  BY DEF Init
<1> QED
  BY <1>1, <1>2, OffStack, NothingLeft DEF Exchange, Placed, Answered

(* Only the answers, owners, entries, what is left and the frames matter. *)
LEMMA ExchangeSame ==
  ASSUME Exchange, UNCHANGED <<gen, fate, pending, cursor, entry, owner, answers, flight, stack>>
  PROVE  Exchange'
BY DEF Exchange, Placed, Answered, Flat, Live, Waiting, LeftOver, Entered, Open, Dispatching,
       Inside, Topmost

LEMMA StartExchange ==
  ASSUME IInv, Exchange, Start
  PROVE  Exchange'
<1>1. /\ stack = <<>> /\ stack' = <<>> /\ ~Live /\ gen' = gen + 1 /\ gen \in Nat
      /\ UNCHANGED <<pending, cursor, entry, owner, answers>>
  BY BoundsAssumption DEF Start, inner, tools, IInv, TypeOK
<1>2. pending = <<>> /\ \A c \in Calls : entry[c] = "absent"
  BY <1>1 DEF IInv, Data, DeadIsClean
<1>3. \A c \in Calls : owner[c] <= gen /\ owner[c] \in Nat
  BY DEF Exchange, Placed, IInv, TypeOK
<1>4. /\ \A c : ~LeftOver(c)'
      /\ Flat' /\ (\A c : ~Entered(c)')
  BY <1>1, <1>2 DEF LeftOver, Flat, Entered, Inside
<1>5. Waiting' = {}
  BY <1>1, <1>2 DEF Waiting
<1>6. \A c \in Calls : owner'[c] <= gen' /\ owner'[c] # gen'
  BY <1>1, <1>3
<1> QED
  BY <1>1, <1>2, <1>4, <1>5, <1>6 DEF Exchange, Placed, Answered

(* The teardown of a run between two events leaves nothing. *)
LEMMA TornDown ==
  ASSUME Exchange, stack' = <<>>, pending' = <<>>, ~Live', gen' = gen,
         \A c \in Calls : entry'[c] = "absent" /\ owner'[c] <= gen
  PROVE  Exchange'
<1>1. (\A c : ~LeftOver(c)') /\ Flat' /\ (\A c : ~Entered(c)')
  BY DEF LeftOver, Flat, Entered, Inside
<1> QED
  BY <1>1 DEF Exchange, Placed, Answered

LEMMA DestroyExchange ==
  ASSUME IInv, Exchange, Destroy
  PROVE  Exchange'
<1>1. /\ stack = <<>> /\ stack' = <<>> /\ gen' = gen /\ owner' = owner
      /\ pending' = <<>> /\ \A c \in Calls : entry'[c] = "absent"
  BY DEF Destroy, FromLoop, Zeroed
<1>2. ~Live'
  BY BoundsAssumption DEF Destroy, Live, IInv, TypeOK, Runs
<1> QED
  BY <1>1, <1>2, TornDown DEF Exchange, Placed

(* The user's answer comes from the loop: what it answers waited. *)
LEMMA ResolveExchange ==
  ASSUME ~SyncResolve, IInv, Exchange, NEW c \in Calls, NEW allow \in BOOLEAN, Resolve(c, allow)
  PROVE  Exchange'
<1>1. /\ stack = <<>> /\ UNCHANGED <<gen, fate, pending, cursor, owner, flight>>
      /\ (Live' <=> Live)
  BY DEF Resolve, FromLoop, run, wire, Live
<1>2. CASE ~(resolver[c] = "live" /\ entry[c] # "absent")
  <2>1. UNCHANGED <<entry, answers, stack>>
    BY <1>2 DEF Resolve
  <2> QED
    BY <1>1, <2>1, ExchangeSame
<1>3. CASE resolver[c] = "live" /\ entry[c] # "absent"
  <2>1. Live /\ owner[c] = gen /\ answers[c] = 0
    BY <1>3 DEF IInv, Data, ResolverOwned
  <2>2. c \in Waiting /\ flight # gen
    BY <1>3, <2>1 DEF Exchange, Placed, Waiting
  <2>3. (\A d \in Calls : ~LeftOver(d)) /\ (\A d : ~Entered(d))
    BY <1>1, OffStack DEF Exchange, Placed
  <2>4. \A d \in Calls : LeftOver(d)' <=> LeftOver(d)
    BY <1>1 DEF LeftOver
  <2>5. \A d \in Calls : entry'[d] = IF d = c THEN "absent" ELSE entry[d]
    BY <1>3 DEF Resolve, IInv, TypeOK
  <2>6. \A d \in Calls : answers'[d] = IF d = c /\ ~allow THEN answers[d] + 1 ELSE answers[d]
    BY <1>3 DEF Resolve, IInv, TypeOK
  <2>7. Flat' /\ stack' # <<>> /\ \A d : Entered(d)' <=> allow /\ d = c
    <3>1. CASE allow
      <4>1. stack' = <<Frame("started", c), Frame("drive", NoCall)>> \o stack
        BY <1>3, <3>1 DEF Resolve
      <4>2. stack' = <<Frame("started", c), Frame("drive", NoCall)>>
        BY <1>1, <4>1
      <4>3. Len(stack') = 2 /\ Head(stack').fn = "started" /\ Head(stack').call = c /\ stack' # <<>>
        BY <4>2, FrameType DEF Fns
      <4> QED
        BY <3>1, <4>3 DEF Flat, Entered, Inside, Topmost
    <3>2. CASE ~allow
      <4>1. stack' = <<Frame("drive", NoCall)>> \o stack
        BY <1>3, <3>2 DEF Resolve
      <4>2. stack' = <<Frame("drive", NoCall)>>
        BY <1>1, <4>1
      <4>3. Len(stack') = 1 /\ Head(stack').fn = "drive" /\ stack' # <<>>
        BY <4>2, FrameType DEF Fns
      <4> QED
        BY <3>2, <4>3 DEF Flat, Entered, Inside
    <3> QED
      BY <3>1, <3>2
  <2>8. Placed'
    BY <1>1, <2>1, <2>2, <2>3, <2>4, <2>5, <2>7 DEF Exchange, Placed
  <2>9. ASSUME NEW d \in Calls, Live', owner'[d] = gen'
        PROVE  answers'[d] = IF Open(d)' THEN 0 ELSE 1
    <3>1. answers[d] = IF Open(d) THEN 0 ELSE 1
      BY <1>1, <2>9 DEF Exchange, Answered
    <3>2. CASE d = c
      <4>1. Open(d)' <=> allow
        BY <2>3, <2>4, <2>5, <2>7, <3>2 DEF Open
      <4> QED
        BY <2>1, <2>6, <3>2, <4>1
    <3>3. CASE d # c
      <4>1. Open(d)' <=> Open(d)
        BY <2>3, <2>4, <2>5, <2>7, <3>3 DEF Open
      <4> QED
        BY <2>6, <3>1, <3>3, <4>1
    <3> QED
      BY <3>2, <3>3
  <2> QED
    BY <2>8, <2>9 DEF Exchange, Answered
<1> QED
  BY <1>2, <1>3

(* A step about one call: the others stay as they were. *)
LEMMA Reanswered ==
  ASSUME Exchange, UNCHANGED <<gen, fate, owner>>, NEW c,
         \A d \in Calls : d # c => answers'[d] = answers[d] /\ (Open(d)' <=> Open(d)),
         answers'[c] = IF Open(c)' THEN 0 ELSE 1
  PROVE  Answered'
BY DEF Exchange, Answered, Live

(* The loop goes on past a call: that call is no longer left, the others are. *)
LEMMA StepOn ==
  ASSUME IInv, Exchange, InLoop, NEW c, c = pending[cursor],
         pending' = pending, cursor' = cursor + 1
  PROVE  /\ c \in Calls /\ LeftOver(c) /\ entry[c] = "absent" /\ answers[c] = 0 /\ owner[c] = gen
         /\ \A d : LeftOver(d)' <=> LeftOver(d) /\ d # c
<1>1. /\ c \in Calls /\ cursor \in DOMAIN pending /\ Untouched(c) /\ owner[c] = gen
      /\ \A i \in DOMAIN pending : i >= cursor + 1 => i >= cursor /\ pending[i] # c
  BY NextCall DEF IInv, Data
<1>2. cursor \in Nat /\ DOMAIN pending \subseteq Nat
  BY DEF IInv, TypeOK
<1>3. LeftOver(c)
  BY <1>1, <1>2 DEF LeftOver
<1>4. ASSUME NEW d PROVE LeftOver(d)' <=> LeftOver(d) /\ d # c
  <2>1. LeftOver(d)' => LeftOver(d) /\ d # c
    BY <1>1 DEF LeftOver
  <2>2. ASSUME NEW i \in DOMAIN pending, i >= cursor, pending[i] = d, d # c PROVE LeftOver(d)'
    <3>1. i # cursor /\ i >= cursor + 1
      BY <1>2, <2>2
    <3> QED
      BY <2>2, <3>1 DEF LeftOver
  <2> QED
    BY <2>1, <2>2 DEF LeftOver
<1> QED
  BY <1>1, <1>3, <1>4 DEF Untouched

(* The loop calls the host: its frame is above the loop's. *)
LEMMA CallOut ==
  ASSUME IInv, Exchange, Inside("dispatch"), NEW f \in Frames,
         f.fn \notin {"dispatch", "drive"}, stack' = <<f>> \o stack
  PROVE  /\ Flat' /\ Dispatching' /\ stack' # <<>> /\ Head(stack') = f
         /\ \A d : ~Entered(d)
         /\ \A d : Entered(d)' <=> f.fn = "started" /\ f.call = d
<1>1. Len(stack) = 1 /\ Head(stack) = stack[1] /\ ~Inside("started") /\ Head(stack).fn = "dispatch"
  BY Alone DEF Exchange, Inside
<1>2. /\ Len(stack') = Len(stack) + 1 /\ stack' # <<>> /\ Head(stack') = f
      /\ \A i \in 1 .. Len(stack) : stack'[i + 1] = stack[i]
  BY PushFrame DEF IInv, TypeOK
<1>3. 1 \in 1 .. Len(stack)
  BY <1>1
<1>4. stack'[1 + 1] = stack[1]
  BY <1>2, <1>3
<1>5. Len(stack') = 2 /\ stack'[2].fn = "dispatch"
  BY <1>1, <1>2, <1>4
<1>6. 2 \in 1 .. Len(stack')
  BY <1>5
<1>7. Flat' /\ Dispatching'
  BY <1>2, <1>5, <1>6 DEF Flat, Dispatching
<1> QED
  BY <1>1, <1>2, <1>7 DEF Entered, Inside, Topmost

LEMMA CancelExchange ==
  ASSUME Exchange, Cancel
  PROVE  Exchange'
BY ExchangeSame DEF Cancel, run, ProviderCancel

(* An unknown tool is answered when the loop reaches it. *)
LEMMA DispatchUnknownExchange ==
  ASSUME IInv, Exchange, DispatchUnknown
  PROVE  Exchange'
<1>0. PICK c : c = pending[cursor]
  OBVIOUS
<1>1. /\ InLoop /\ Inside("dispatch") /\ Live /\ (Live' <=> Live) /\ cursor' = cursor + 1
      /\ UNCHANGED <<gen, fate, pending, entry, owner, flight, stack>>
  BY DEF DispatchUnknown, InLoop, run, inner, wire, Live
<1>2. /\ c \in Calls /\ LeftOver(c) /\ entry[c] = "absent" /\ answers[c] = 0 /\ owner[c] = gen
      /\ \A d : LeftOver(d)' <=> LeftOver(d) /\ d # c
  BY <1>0, <1>1, StepOn
<1>3. \A d \in Calls : answers'[d] = IF d = c THEN answers[d] + 1 ELSE answers[d]
  BY <1>0, <1>2 DEF DispatchUnknown, IInv, TypeOK
<1>4. ~Inside("started") /\ ~Inside("started")' /\ stack # <<>> /\ flight # gen
  BY <1>1, Alone DEF Exchange, Inside
<1>5. (\A d : ~Entered(d)) /\ (\A d : ~Entered(d)')
  BY <1>4 DEF Entered
<1>6. Placed'
  BY <1>1, <1>2, <1>4, <1>5 DEF Exchange, Placed, Flat, Dispatching
<1>7. \A d \in Calls : d # c => (Open(d)' <=> Open(d))
  BY <1>1, <1>2, <1>5 DEF Open
<1>8. ~Open(c)' /\ answers'[c] = 1
  BY <1>1, <1>2, <1>3, <1>5 DEF Open
<1>9. Answered'
  BY <1>1, <1>3, <1>7, <1>8, Reanswered
<1> QED
  BY <1>6, <1>9 DEF Exchange

(* A guarded call waits for the user from then on. *)
LEMMA DispatchGuardedExchange ==
  ASSUME IInv, Exchange, DispatchGuarded
  PROVE  Exchange'
<1>0. PICK c : c = pending[cursor]
  OBVIOUS
<1>1. /\ InLoop /\ Inside("dispatch") /\ Live /\ (Live' <=> Live) /\ cursor' = cursor + 1
      /\ UNCHANGED <<gen, fate, pending, owner, answers, flight>>
      /\ stack' = <<Frame("confirm", c)>> \o stack
  BY <1>0 DEF DispatchGuarded, InLoop, run, tools, wire, Live
<1>2. /\ c \in Calls /\ LeftOver(c) /\ entry[c] = "absent" /\ answers[c] = 0 /\ owner[c] = gen
      /\ \A d : LeftOver(d)' <=> LeftOver(d) /\ d # c
  BY <1>0, <1>1, StepOn
<1>3. \A d \in Calls : entry'[d] = IF d = c THEN "confirm" ELSE entry[d]
  BY <1>0, <1>2 DEF DispatchGuarded, IInv, TypeOK
<1>4. Frame("confirm", c) \in Frames /\ Frame("confirm", c).fn = "confirm"
  BY <1>2, FrameType DEF Fns
<1>5. Flat' /\ Dispatching' /\ stack' # <<>> /\ (\A d : ~Entered(d)) /\ (\A d : ~Entered(d)')
  BY <1>1, <1>4, CallOut
<1>6. flight # gen
  BY <1>1, Alone DEF Exchange
<1>7. Placed'
  BY <1>1, <1>2, <1>3, <1>5, <1>6 DEF Exchange, Placed
<1>8. \A d \in Calls : d # c => (Open(d)' <=> Open(d))
  BY <1>2, <1>3, <1>5 DEF Open
<1>9. Open(c)' /\ answers'[c] = 0
  BY <1>1, <1>2, <1>3 DEF Open
<1>10. Answered'
  BY <1>1, <1>8, <1>9, Reanswered
<1> QED
  BY <1>7, <1>10 DEF Exchange

(* A plain call is about to enter its handler. *)
LEMMA DispatchPlainExchange ==
  ASSUME IInv, Exchange, DispatchPlain
  PROVE  Exchange'
<1>0. PICK c : c = pending[cursor]
  OBVIOUS
<1>1. /\ InLoop /\ Inside("dispatch") /\ Live /\ (Live' <=> Live) /\ cursor' = cursor + 1
      /\ UNCHANGED <<gen, fate, pending, entry, owner, answers, flight>>
      /\ stack' = <<Frame("started", c)>> \o stack
  BY <1>0 DEF DispatchPlain, InLoop, run, inner, tools, wire, Live
<1>2. /\ c \in Calls /\ LeftOver(c) /\ entry[c] = "absent" /\ answers[c] = 0 /\ owner[c] = gen
      /\ \A d : LeftOver(d)' <=> LeftOver(d) /\ d # c
  BY <1>0, <1>1, StepOn
<1>3. Frame("started", c) \in Frames /\ Frame("started", c).fn = "started" /\ Frame("started", c).call = c
  BY <1>2, FrameType DEF Fns
<1>4. Flat' /\ Dispatching' /\ stack' # <<>> /\ (\A d : ~Entered(d)) /\ (\A d : Entered(d)' <=> d = c)
  BY <1>1, <1>3, CallOut
<1>5. flight # gen
  BY <1>1, Alone DEF Exchange
<1>6. Placed'
  BY <1>1, <1>2, <1>4, <1>5 DEF Exchange, Placed
<1>7. \A d \in Calls : d # c => (Open(d)' <=> Open(d))
  BY <1>1, <1>2, <1>4 DEF Open
<1>8. Open(c)' /\ answers'[c] = 0
  BY <1>1, <1>2, <1>4 DEF Open
<1>9. Answered'
  BY <1>1, <1>7, <1>8, Reanswered
<1> QED
  BY <1>6, <1>9 DEF Exchange

(* The handler answers its call, or leaves it waiting. *)
LEMMA HandlerReturnsExchange ==
  ASSUME IInv, Exchange, HandlerReturns
  PROVE  Exchange'
<1>0. PICK c : c = Topmost
  OBVIOUS
<1>1. /\ Inside("started") /\ stack # <<>> /\ Head(stack).fn = "started" /\ (Live' <=> Live)
      /\ UNCHANGED <<gen, fate, pending, cursor, owner, flight>>
  BY DEF HandlerReturns, Inside, run, wire, Live
<1>2. /\ Len(Tail(stack)) = 1 /\ Tail(stack) # <<>> /\ Tail(stack) \in Seq(Frames)
      /\ Tail(stack)[1] = stack[2] /\ Head(Tail(stack)) = stack[2]
      /\ stack[2].fn \in {"dispatch", "drive"} /\ Live /\ flight # gen
      /\ Dispatching <=> stack[2].fn = "dispatch"
  BY <1>1, Above DEF Exchange
<1>3. /\ c \in Calls /\ entry[c] = "absent" /\ Entered(c)
      /\ \A i \in DOMAIN pending : i >= cursor => pending[i] # c
  BY <1>0, <1>1 DEF IInv, Control, StartedIsIdle, Entered
<1>4. owner[c] = gen /\ ~LeftOver(c) /\ Open(c) /\ \A d : LeftOver(d)' <=> LeftOver(d)
  BY <1>1, <1>3 DEF Exchange, Placed, LeftOver, Open
<1>5. answers[c] = 0
  BY <1>2, <1>3, <1>4 DEF Exchange, Answered
<1>6. \A d : Entered(d) <=> d = c
  BY <1>0, <1>1 DEF Entered
<1>7. CASE /\ answers' = [answers EXCEPT ![c] = @ + 1] /\ entry' = entry
           /\ stack' = <<Frame("ended", c)>> \o Tail(stack)
  <2>1. Frame("ended", c) \in Frames /\ Frame("ended", c).fn = "ended"
    BY <1>3, FrameType DEF Fns
  <2>2. /\ Len(stack') = Len(Tail(stack)) + 1 /\ stack' # <<>> /\ Head(stack').fn = "ended"
        /\ \A i \in 1 .. Len(Tail(stack)) : stack'[i + 1] = Tail(stack)[i]
    BY <1>2, <1>7, <2>1, PushFrame
  <2>3. 1 \in 1 .. Len(Tail(stack))
    BY <1>2
  <2>4. stack'[1 + 1] = Tail(stack)[1]
    BY <2>2, <2>3
  <2>5. Len(stack') = 2 /\ stack'[2] = stack[2]
    BY <1>2, <2>2, <2>4
  <2>6. Flat' /\ (Dispatching => Dispatching') /\ \A d : ~Entered(d)'
    <3>1. 2 \in 1 .. Len(stack')
      BY <2>5
    <3> QED
      BY <1>2, <2>2, <2>5, <3>1 DEF Flat, Dispatching, Entered, Inside
  <2>7. Placed'
    BY <1>1, <1>2, <1>4, <1>7, <2>2, <2>6 DEF Exchange, Placed
  <2>8. \A d \in Calls : answers'[d] = IF d = c THEN answers[d] + 1 ELSE answers[d]
    BY <1>7 DEF IInv, TypeOK
  <2>9. ~Open(c)' /\ answers'[c] = 1
    BY <1>3, <1>4, <1>5, <1>7, <2>6, <2>8 DEF Open
  <2>10. \A d \in Calls : d # c => (Open(d)' <=> Open(d))
    BY <1>4, <1>6, <1>7, <2>6 DEF Open
  <2>11. Answered'
    BY <1>1, <2>8, <2>9, <2>10, Reanswered
  <2> QED
    BY <2>7, <2>11 DEF Exchange
<1>8. CASE /\ entry' = [entry EXCEPT ![c] = "running"] /\ answers' = answers /\ stack' = Tail(stack)
  <2>1. Flat' /\ stack' # <<>> /\ \A d : ~Entered(d)'
    BY <1>2, <1>8 DEF Flat, Entered, Inside
  <2>2. Dispatching => Dispatching'
    <3>1. 1 \in 1 .. Len(stack')
      BY <1>2, <1>8
    <3> QED
      BY <1>2, <1>8, <3>1 DEF Dispatching
  <2>3. \A d \in Calls : entry'[d] = IF d = c THEN "running" ELSE entry[d]
    BY <1>8 DEF IInv, TypeOK
  <2>4. Placed'
    BY <1>1, <1>2, <1>4, <2>1, <2>2, <2>3 DEF Exchange, Placed
  <2>5. Open(c)' /\ answers'[c] = 0
    BY <1>3, <1>5, <1>8, <2>3 DEF Open
  <2>6. \A d \in Calls : d # c => (Open(d)' <=> Open(d))
    BY <1>4, <1>6, <2>1, <2>3 DEF Open
  <2>7. Answered'
    BY <1>1, <1>8, <2>5, <2>6, Reanswered
  <2> QED
    BY <2>4, <2>7 DEF Exchange
<1> QED
  BY <1>0, <1>2, <1>7, <1>8 DEF HandlerReturns

(* The host returns to the frame that goes on. *)
LEMMA CallbackReturnsExchange ==
  ASSUME IInv, Exchange, CallbackReturns
  PROVE  Exchange'
<1>1. /\ stack # <<>> /\ Head(stack).fn \in {"confirm", "ended"} /\ stack' = Tail(stack)
      /\ UNCHANGED <<gen, fate, pending, cursor, entry, owner, answers, flight>>
      /\ (Live' <=> Live)
  BY DEF CallbackReturns, Inside, run, inner, tools, wire, Live
<1>2. /\ Len(Tail(stack)) = 1 /\ Tail(stack) # <<>>
      /\ Tail(stack)[1] = stack[2] /\ Head(Tail(stack)) = stack[2]
      /\ stack[2].fn \in {"dispatch", "drive"} /\ Live /\ flight # gen
      /\ Dispatching <=> stack[2].fn = "dispatch"
  BY <1>1, Above DEF Exchange
<1>3. Flat' /\ stack' # <<>> /\ (\A d : ~Entered(d)) /\ (\A d : ~Entered(d)')
  <2>1. Len(stack') = 1 /\ stack' # <<>> /\ Head(stack').fn \in {"dispatch", "drive"}
    BY <1>1, <1>2
  <2>2. Flat'
    BY <2>1 DEF Flat
  <2> QED
    BY <1>1, <2>1, <2>2 DEF Entered, Inside
<1>4. Dispatching => Dispatching'
  <2>1. 1 \in 1 .. Len(stack')
    BY <1>1, <1>2
  <2> QED
    BY <1>1, <1>2, <2>1 DEF Dispatching
<1>5. \A d : LeftOver(d)' <=> LeftOver(d)
  BY <1>1 DEF LeftOver
<1>6. Placed'
  BY <1>1, <1>2, <1>3, <1>4, <1>5 DEF Exchange, Placed
<1>7. \A d \in Calls : Open(d)' <=> Open(d)
  BY <1>1, <1>3, <1>5 DEF Open
<1>8. Answered'
  BY <1>1, <1>7 DEF Exchange, Answered
<1> QED
  BY <1>6, <1>8 DEF Exchange

(* A frame that goes on has nothing left to visit: all is answered or waits. *)
LEMMA GoOn ==
  ASSUME Exchange, stack' = <<>>, Live, flight # gen, ~Inside("started"),
         \A c \in Calls : ~LeftOver(c), \A c \in Calls : ~LeftOver(c)',
         UNCHANGED <<gen, fate, entry, owner, answers>>,
         flight' = gen => Waiting = {}
  PROVE  Exchange'
<1>1. Flat' /\ (\A c : ~Entered(c)) /\ (\A c : ~Entered(c)')
  BY DEF Flat, Entered, Inside
<1>2. Waiting' = Waiting /\ (Live' <=> Live)
  BY DEF Waiting, Live
<1>3. \A c \in Calls : Open(c)' <=> Open(c)
  BY <1>1 DEF Open
<1> QED
  BY <1>1, <1>2, <1>3 DEF Exchange, Placed, Answered

LEMMA NextRoundExchange ==
  ASSUME IInv, Exchange, stack' = <<>>, Live, flight # gen, ~Inside("started"), NextRound,
         \A c \in Calls : ~LeftOver(c), Waiting = {}, UNCHANGED <<gen, owner, answers, job>>
  PROVE  Exchange'
<1>1. CASE SubmitRound
  <2>1. pending' = <<>> /\ UNCHANGED <<fate, entry>>
    BY <1>1 DEF SubmitRound
  <2>2. \A c \in Calls : ~LeftOver(c)'
    BY <2>1 DEF LeftOver
  <2> QED
    BY <2>1, <2>2, GoOn
<1>2. ASSUME NEW reason, Finish(reason)
      PROVE  Exchange'
  <2>1. ~Live' /\ pending' = <<>> /\ \A c \in Calls : entry'[c] = "absent"
    BY <1>2, FinishData
  <2> QED
    BY <2>1, TornDown DEF Exchange, Placed
<1> QED
  BY <1>1, <1>2 DEF NextRound

(* The end of the dispatch loop: wait, ask the model again, or end. *)
LEMMA DispatchDoneExchange ==
  ASSUME IInv, Exchange, DispatchDone
  PROVE  Exchange'
<1>1. /\ Inside("dispatch") /\ ~InLoop /\ stack' = Tail(stack)
      /\ UNCHANGED <<gen, cursor, owner, answers, job>>
  BY DEF DispatchDone, tools
<1>2. Live /\ flight # gen /\ ~Inside("started") /\ stack' = <<>>
  BY <1>1, Alone DEF Exchange
<1>3. CASE cancelled
  <2>1. Finish("Aborted")
    BY <1>2, <1>3 DEF DispatchDone
  <2>2. ~Live' /\ pending' = <<>> /\ \A c \in Calls : entry'[c] = "absent"
    BY <1>1, <1>2, <2>1, FinishData
  <2> QED
    BY <1>1, <1>2, <2>2, TornDown DEF Exchange, Placed
<1>4. CASE ~cancelled
  <2>1. \A c \in Calls : ~LeftOver(c)
    <3>1. ~(cursor <= Len(pending))
      BY <1>1, <1>2, <1>4 DEF InLoop
    <3>2. cursor \in Nat /\ pending \in Seq(Calls)
      BY DEF IInv, TypeOK
    <3> QED
      BY <3>1, <3>2 DEF LeftOver
  <2>2. CASE Waiting # {}
    <3>1. pending' = <<>> /\ UNCHANGED <<fate, entry, flight>>
      BY <1>2, <1>4, <2>2 DEF DispatchDone, wire
    <3>2. \A c \in Calls : ~LeftOver(c)'
      BY <3>1 DEF LeftOver
    <3> QED
      BY <1>1, <1>2, <2>1, <3>1, <3>2, GoOn
  <2>3. CASE Waiting = {}
    <3>1. NextRound
      BY <1>2, <1>4, <2>3 DEF DispatchDone
    <3> QED
      BY <1>1, <1>2, <2>1, <2>3, <3>1, NextRoundExchange
  <2> QED
    BY <2>2, <2>3
<1> QED
  BY <1>3, <1>4

(* The tail of a completion or an answer: wait, ask the model again, or end. *)
LEMMA DriveExchange ==
  ASSUME IInv, Exchange, Drive
  PROVE  Exchange'
<1>1. /\ Inside("drive") /\ stack' = Tail(stack) /\ UNCHANGED <<gen, cursor, owner, answers, job>>
  BY DEF Drive, tools
<1>2. Live /\ flight # gen /\ ~Inside("started") /\ stack' = <<>> /\ ~Dispatching
  BY <1>1, Alone DEF Exchange
<1>3. \A c \in Calls : ~LeftOver(c)
  BY <1>2 DEF Exchange, Placed
<1>4. CASE Waiting = {}
  <2>1. NextRound
    BY <1>2, <1>4 DEF Drive
  <2> QED
    BY <1>1, <1>2, <1>3, <1>4, <2>1, NextRoundExchange
<1>5. CASE Waiting # {}
  <2>1. UNCHANGED <<fate, pending, entry, flight>>
    BY <1>2, <1>5 DEF Drive, inner, wire
  <2>2. \A c \in Calls : ~LeftOver(c)'
    BY <1>1, <1>3, <2>1 DEF LeftOver
  <2> QED
    BY <1>1, <1>2, <1>3, <2>1, <2>2, GoOn
<1> QED
  BY <1>4, <1>5

(* An asynchronous handler answers the call that waited for it. *)
LEMMA JobDoneExchange ==
  ASSUME IInv, Exchange, NEW c \in Calls, JobDone(c)
  PROVE  Exchange'
<1>1. /\ stack = <<>> /\ (Live' <=> Live) /\ UNCHANGED <<gen, fate, pending, cursor, owner, flight>>
  BY DEF JobDone, run, wire, Live
<1>2. CASE ~(Live /\ entry[c] # "absent")
  <2>1. UNCHANGED <<entry, answers, stack>>
    BY <1>2 DEF JobDone
  <2> QED
    BY <1>1, <2>1, ExchangeSame
<1>3. CASE Live /\ entry[c] # "absent"
  <2>1. owner[c] = gen /\ c \in Waiting /\ flight # gen
    BY <1>3 DEF Exchange, Placed, Waiting
  <2>2. answers[c] = 0
    BY <1>3, <2>1 DEF Exchange, Answered, Open
  <2>3. (\A d \in Calls : ~LeftOver(d)) /\ (\A d : ~Entered(d))
    BY <1>1, OffStack DEF Exchange, Placed
  <2>4. \A d \in Calls : ~LeftOver(d)'
    BY <1>1, <2>3 DEF LeftOver
  <2>5. \A d \in Calls : /\ entry'[d] = IF d = c THEN "absent" ELSE entry[d]
                         /\ answers'[d] = IF d = c THEN answers[d] + 1 ELSE answers[d]
    <3>1. entry' = [entry EXCEPT ![c] = "absent"] /\ answers' = [answers EXCEPT ![c] = @ + 1]
      BY <1>3 DEF JobDone
    <3> QED
      BY <3>1 DEF IInv, TypeOK
  <2>6. Flat' /\ stack' # <<>> /\ \A d : ~Entered(d)'
    <3>1. stack' = <<Frame("ended", c), Frame("drive", NoCall)>>
      BY <1>3 DEF JobDone
    <3>2. Len(stack') = 2 /\ Head(stack').fn = "ended" /\ stack' # <<>>
      BY <3>1, FrameType DEF Fns
    <3> QED
      BY <3>2 DEF Flat, Entered, Inside
  <2>7. Placed'
    BY <1>1, <1>3, <2>1, <2>4, <2>5, <2>6 DEF Exchange, Placed
  <2>8. \A d \in Calls : d # c => (Open(d)' <=> Open(d))
    BY <2>3, <2>4, <2>5, <2>6 DEF Open
  <2>9. ~Open(c)' /\ answers'[c] = 1
    BY <2>2, <2>4, <2>5, <2>6 DEF Open
  <2>10. Answered'
    BY <1>1, <2>5, <2>8, <2>9, Reanswered
  <2> QED
    BY <2>7, <2>10 DEF Exchange
<1> QED
  BY <1>2, <1>3

(* The reply of the model opens the calls it asks for, or ends the run. *)
LEMMA ProviderDoneExchange ==
  ASSUME IInv, Exchange, NEW stop \in Stops, NEW batch \in Batches(FreshCalls),
         ProviderDone(stop, batch)
  PROVE  Exchange'
<1>1. stack = <<>> /\ flight' = 0 /\ UNCHANGED <<gen, answers, job>>
  BY DEF ProviderDone, Stopped
<1>2. (\A d \in Calls : ~LeftOver(d)) /\ (\A d : ~Entered(d))
  BY <1>1, OffStack DEF Exchange, Placed
<1>3. CASE ~Live
  <2>1. UNCHANGED <<fate, pending, cursor, entry, owner, stack>>
    BY <1>3 DEF ProviderDone, inner
  <2>2. ~Live'
    BY <1>1, <1>3, <2>1 DEF Live
  <2>3. (\A d \in Calls : ~LeftOver(d)') /\ Flat' /\ (\A d : ~Entered(d)')
    BY <1>1, <1>2, <2>1 DEF LeftOver, Flat, Entered, Inside
  <2> QED
    BY <1>1, <2>1, <2>2, <2>3 DEF Exchange, Placed, Answered
<1>4. CASE Live
  <2> DEFINE calls == Buffered(batch)
  <2>1. \A i \in DOMAIN calls : calls[i] \in Calls /\ owner[calls[i]] = 0
    <3>1. \A i \in DOMAIN batch : batch[i] \in FreshCalls
      BY BatchType DEF FreshCalls
    <3> QED
      BY <3>1 DEF Buffered, FreshCalls
  <2>2. calls \in Seq(Calls)
    BY BatchType, EmptySeq DEF Buffered, FreshCalls
  <2> HIDE DEF calls
  <2>3. \A c \in Calls : owner'[c] = IF \E i \in DOMAIN calls : calls[i] = c
                                     THEN gen ELSE owner[c]
    BY <1>4 DEF ProviderDone, calls
  <2>4. gen # 0 /\ gen \in Nat
    BY <1>4, BoundsAssumption DEF Live, IInv, TypeOK
  <2>5. \A c \in Calls : owner'[c] <= gen
    BY <2>3, <2>4 DEF Exchange, Placed
  <2>6. CASE stop = "ToolUse" /\ calls # <<>> /\ RoundsLeft
    <3>1. /\ pending' = calls /\ cursor' = 1 /\ stack' = <<Frame("dispatch", NoCall)>>
          /\ UNCHANGED <<fate, entry>>
      BY <1>4, <2>6 DEF ProviderDone, calls
    <3>2. Live'
      BY <1>1, <1>4, <3>1 DEF Live
    <3>3. Len(stack') = 1 /\ stack'[1].fn = "dispatch" /\ stack' # <<>> /\ Head(stack').fn = "dispatch"
      BY <3>1, FrameType DEF Fns
    <3>4. Flat' /\ Dispatching' /\ \A d : ~Entered(d)'
      BY <3>3 DEF Flat, Dispatching, Entered, Inside
    <3>5. \A d : LeftOver(d)' <=> \E i \in DOMAIN calls : calls[i] = d
      BY <2>2, <3>1 DEF LeftOver
    <3>6. \A c \in Calls : entry[c] # "absent" => owner'[c] = gen
      BY <2>3 DEF Exchange, Placed
    <3>7. Placed'
      BY <1>1, <2>4, <2>5, <3>1, <3>2, <3>3, <3>4, <3>6 DEF Exchange, Placed
    <3>8. ASSUME NEW c \in Calls, owner'[c] = gen
          PROVE  answers'[c] = IF Open(c)' THEN 0 ELSE 1
      <4>1. CASE \E i \in DOMAIN calls : calls[i] = c
        <5>1. owner[c] = 0 /\ Open(c)'
          BY <2>1, <3>5, <4>1 DEF Open
        <5>2. answers[c] = 0
          BY <5>1 DEF IInv, Data, Fresh, Untouched
        <5> QED
          BY <1>1, <5>1, <5>2
      <4>2. CASE ~\E i \in DOMAIN calls : calls[i] = c
        <5>1. owner[c] = gen
          BY <2>3, <3>8, <4>2
        <5>2. Open(c)' <=> Open(c)
          BY <1>2, <3>1, <3>4, <3>5, <4>2 DEF Open
        <5> QED
          BY <1>1, <1>4, <5>1, <5>2 DEF Exchange, Answered
      <4> QED
        BY <4>1, <4>2
    <3> QED
      BY <1>1, <3>7, <3>8 DEF Exchange, Answered
  <2>7. CASE ~(stop = "ToolUse" /\ calls # <<>> /\ RoundsLeft)
    <3>1. fate' = [fate EXCEPT ![gen] = "finished"] /\ Zeroed /\ UNCHANGED <<cursor, stack>>
      BY <1>4, <2>7 DEF ProviderDone, calls
    <3>2. ~Live'
      BY <1>1, <3>1, BoundsAssumption DEF Live, IInv, TypeOK, Runs
    <3>3. pending' = <<>> /\ \A c \in Calls : entry'[c] = "absent"
      BY <3>1 DEF Zeroed
    <3> QED
      BY <1>1, <2>5, <3>1, <3>2, <3>3, TornDown
  <2> QED
    BY <2>6, <2>7
<1> QED
  BY <1>3, <1>4

(* The exchange is inductive: one case per action. *)
LEMMA ExchangeInduction ==
  ASSUME ~SyncResolve, IInv, Exchange, [Next]_vars
  PROVE  Exchange'
<1>1. CASE UNCHANGED vars
  BY <1>1, ExchangeSame DEF vars, run, inner, wire, tools
<1> QED
  BY <1>1, StartExchange, CancelExchange, DestroyExchange, ResolveExchange, ProviderDoneExchange,
     DispatchUnknownExchange, DispatchGuardedExchange, DispatchPlainExchange,
     HandlerReturnsExchange, CallbackReturnsExchange, DispatchDoneExchange, DriveExchange,
     JobDoneExchange
     DEF Next, Frames_Next, Provider, Host

(* The exchange invariant, for a host that answers confirmations later. *)
LEMMA ExchangeInvariance ==
  ASSUME ~SyncResolve
  PROVE  Spec => []Exchange
BY ExchangeInit, ExchangeInduction, Invariance, PTL DEF Spec

(* Every round the model is sent answers every call of the run before it,
   exactly once, as long as the host does not resolve a confirmation inside
   on_tool_confirm: there the resolver's tail runs under the dispatch loop
   and asks for a round with calls still to visit. *)
THEOREM RoundsAreWhole ==
  ASSUME ~SyncResolve
  PROVE  Spec => []RoundAnswersCalls
<1>1. Exchange => RoundAnswersCalls
  <2> SUFFICES ASSUME Exchange, Live, flight = gen, NEW c \in Calls, owner[c] = gen
               PROVE  answers[c] = 1
    BY DEF RoundAnswersCalls
  <2>1. stack = <<>> /\ Waiting = {}
    BY DEF Exchange, Placed
  <2>2. ~LeftOver(c) /\ ~Entered(c) /\ entry[c] = "absent"
    BY <2>1, OffStack DEF Exchange, Placed, Waiting
  <2> QED
    BY <2>2 DEF Exchange, Answered, Open
<1> QED
  BY <1>1, ExchangeInvariance, PTL

-------------------------------------------------------------------------------
(* query.c implements the contract of query.h.  Each step of the code is one *)
(* of the contract's or changes nothing the contract speaks of.              *)
OneLive == \A g \in Runs : fate[g] = "live" => g = gen

(* A query is created only when the one before it runs no more. *)
LEMMA OneLiveStep ==
  ASSUME TypeOK, OneLive, [Next]_vars
  PROVE  OneLive'
<1>1. CASE Start
  <2>1. gen' = gen + 1 /\ gen + 1 \in Runs /\ ~Live
    BY <1>1, BoundsAssumption DEF Start, TypeOK, Runs
  <2>2. \A g \in Runs : g # gen + 1 => fate'[g] = fate[g]
    BY <1>1, <2>1 DEF Start, TypeOK
  <2>3. \A g \in Runs : fate[g] # "live"
    BY <2>1 DEF OneLive, Live, Runs
  <2> QED
    BY <2>1, <2>2, <2>3 DEF OneLive
<1>2. CASE Destroy
  BY <1>2 DEF Destroy, OneLive, TypeOK
<1>3. CASE Ends
  BY <1>3 DEF Ends, OneLive, TypeOK
<1>4. CASE Quiet \/ Asks \/ Hears \/ Misses \/ Marks
  BY <1>4 DEF Quiet, Asks, Hears, Misses, Marks, OneLive
<1> QED
  BY <1>1, <1>2, <1>3, <1>4, Effects

LEMMA OneLiveInvariance == Spec => []OneLive
<1>1. Init => OneLive
  BY DEF Init, OneLive
<1> QED
  BY <1>1, OneLiveStep, TypeCorrect, PTL DEF Spec

(* What the contract does not see. *)
LEMMA Unseen ==
  ASSUME UNCHANGED <<gen, fate, reports, flight, owner, answers>>
  PROVE  UNCHANGED Contract!vars
BY DEF Contract!vars, OpenCalls, Live

(* One more tool_result: the contract's Answer. *)
LEMMA AnswerStep ==
  ASSUME TypeOK, Live, NEW c \in Calls, owner[c] = gen, answers[c] = 0,
         answers' = [answers EXCEPT ![c] = @ + 1],
         UNCHANGED <<gen, fate, reports, flight, owner>>
  PROVE  Contract!Next
<1>1. \A d \in Calls : answers'[d] = IF d = c THEN 1 ELSE answers[d]
  BY DEF TypeOK
<1>2. c \in OpenCalls /\ OpenCalls' = OpenCalls \ {c} /\ (Live' <=> Live)
  BY <1>1 DEF OpenCalls, Live
<1>3. Contract!Answer(c)
  BY <1>2 DEF Contract!Answer
<1> QED
  BY <1>3 DEF Contract!Next

(* A query that is created: the contract's Begin. *)
LEMMA BeginStep ==
  ASSUME RunInv, OneLive, Exchange, Start
  PROVE  Contract!Next
<1>1. /\ gen' = gen + 1 /\ gen + 1 \in Runs /\ ~Live /\ gen \in Nat
      /\ fate[gen + 1] = "unused" /\ UNCHANGED <<reports, owner, answers>>
  BY BoundsAssumption DEF Start, RunInv, TypeOK, Unused, Runs, tools
<1>2. \A g \in Runs : fate[g] # "live"
  BY <1>1 DEF OneLive, Live, Runs
<1>3. Contract!Idle
  BY <1>2 DEF Contract!Idle, Contract!Runs, Runs
<1>4. OpenCalls = {} /\ OpenCalls' = {}
  <2>1. \A c \in Calls : owner[c] <= gen /\ owner[c] \in Nat
    BY DEF Exchange, Placed, RunInv, TypeOK
  <2>2. \A c \in Calls : owner'[c] # gen'
    BY <1>1, <2>1
  <2> QED
    BY <1>1, <2>2 DEF OpenCalls
<1>5. \/ fate' = [fate EXCEPT ![gen + 1] = "live"] /\ (Live /\ flight = gen)' = TRUE
      \/ /\ fate' = [fate EXCEPT ![gen + 1] = "refused"]
         /\ (Live /\ flight = gen)' = (Live /\ flight = gen)
  <2>1. CASE fate' = [fate EXCEPT ![gen + 1] = "live"] /\ flight' = gen + 1
    <3>1. Live' /\ flight' = gen'
      BY <1>1, <2>1 DEF RunInv, TypeOK, Live
    <3> QED
      BY <2>1, <3>1
  <2>2. CASE fate' = [fate EXCEPT ![gen + 1] = "refused"]
    <3>1. ~Live'
      BY <1>1, <2>2 DEF RunInv, TypeOK, Live
    <3> QED
      BY <1>1, <2>2, <3>1
  <2> QED
    BY <2>1, <2>2 DEF Start
<1>6. Contract!Begin(gen + 1)
  BY <1>1, <1>3, <1>4, <1>5 DEF Contract!Begin
<1> QED
  BY <1>1, <1>6 DEF Contract!Next, Contract!Runs, Runs

(* A query that is torn down: the contract's Drop. *)
LEMMA DropStep ==
  ASSUME TypeOK, Destroy
  PROVE  Contract!Next
<1>1. /\ gen \in Runs /\ fate[gen] = "live" /\ gen' = gen /\ reports' = reports
      /\ fate' = [fate EXCEPT ![gen] = "destroyed"]
  BY BoundsAssumption DEF Destroy, TypeOK, Live, Runs
<1>2. ~Live'
  BY <1>1 DEF TypeOK, Live
<1>3. OpenCalls' = {} /\ (Live /\ flight = gen)' = FALSE
  BY <1>2 DEF OpenCalls
<1>4. Contract!Drop(gen)
  BY <1>1, <1>3 DEF Contract!Drop
<1> QED
  BY <1>1, <1>4 DEF Contract!Next, Contract!Runs, Runs

(* A run that reports: the contract's End, with that one report. *)
LEMMA EndStep ==
  ASSUME RunInv, Ends
  PROVE  Contract!Next
<1>1. PICK reason \in Reasons : reports' = [reports EXCEPT ![gen] = Append(reports[gen], reason)]
  BY DEF Ends
<1>2. /\ gen \in Runs /\ fate[gen] = "live" /\ gen' = gen
      /\ fate' = [fate EXCEPT ![gen] = "finished"]
  BY BoundsAssumption DEF Ends, RunInv, TypeOK, Live, Runs
<1>3. reports'[gen] = <<reason>> /\ ~Live'
  BY <1>1, <1>2, FinishReport DEF Ends, RunInv
<1>4. reports' = [reports EXCEPT ![gen] = <<reason>>]
  <2>1. reports \in [Runs -> Seq(Reasons)]
    BY DEF RunInv, TypeOK
  <2>2. reports'[gen] = Append(reports[gen], reason)
    BY <1>1, <1>2, <2>1
  <2> QED
    BY <1>1, <1>3, <2>2
<1>5. OpenCalls' = {} /\ (Live /\ flight = gen)' = FALSE
  BY <1>3 DEF OpenCalls
<1>6. Contract!End(gen, reason)
  BY <1>2, <1>4, <1>5 DEF Contract!End
<1> QED
  BY <1>2, <1>6 DEF Contract!Next, Contract!Runs, Runs

(* The next round: the contract's AskAgain, for every call is answered. *)
LEMMA AskStep ==
  ASSUME TypeOK, Asks, RoundAnswersCalls', UNCHANGED <<owner, answers>>
  PROVE  Contract!Next
<1>1. /\ gen \in Runs /\ fate[gen] = "live" /\ flight # gen /\ flight' = gen' /\ Live /\ Live'
      /\ UNCHANGED <<gen, fate, reports>>
  BY BoundsAssumption DEF Asks, TypeOK, Live, Runs
<1>2. \A c \in Calls : owner[c] = gen => answers[c] = 1
  BY <1>1 DEF RoundAnswersCalls
<1>3. OpenCalls = {} /\ OpenCalls' = {}
  BY <1>1, <1>2 DEF OpenCalls
<1>4. ~Contract!Idle
  BY <1>1 DEF Contract!Idle, Contract!Runs, Runs
<1>5. ~(Live /\ flight = gen) /\ (Live /\ flight = gen)' = TRUE
  BY <1>1
<1>6. Contract!AskAgain
  BY <1>1, <1>3, <1>4, <1>5 DEF Contract!AskAgain
<1> QED
  BY <1>6 DEF Contract!Next

(* The model's reply: the contract's Reply, its End, or nobody's business. *)
LEMMA ReplyStep ==
  ASSUME RunInv, IInv, RoundAnswersCalls,
         NEW stop \in Stops, NEW batch \in Batches(FreshCalls), ProviderDone(stop, batch)
  PROVE  Contract!Next \/ UNCHANGED Contract!vars
<1>1. /\ flight # 0 /\ flight' = 0 /\ UNCHANGED <<gen, answers>>
  BY DEF ProviderDone, Stopped
<1>2. CASE ~Live
  <2>1. UNCHANGED <<fate, reports>> /\ ~Live'
    BY <1>1, <1>2 DEF ProviderDone, Live
  <2>2. OpenCalls = {} /\ OpenCalls' = {}
    BY <1>2, <2>1 DEF OpenCalls
  <2> QED
    BY <1>2, <2>1, <2>2 DEF Contract!vars
<1>3. CASE Live /\ stop = "ToolUse" /\ Buffered(batch) # <<>> /\ RoundsLeft
  <2>1. PICK calls : calls = Buffered(batch)
    OBVIOUS
  <2>2. /\ UNCHANGED <<fate, reports>> /\ gen # 0
        /\ \A c \in Calls : owner'[c] = IF \E i \in DOMAIN calls : calls[i] = c
                                        THEN gen ELSE owner[c]
    BY <1>3, <2>1 DEF ProviderDone, Live
  <2>3. calls \in Seq(Calls) /\ calls # <<>>
    BY <1>3, <2>1, BatchType, EmptySeq DEF Buffered, FreshCalls
  <2>4. \A i \in DOMAIN calls : calls[i] \in Calls /\ owner[calls[i]] = 0
    <3>1. \A i \in DOMAIN batch : batch[i] \in FreshCalls
      BY BatchType DEF FreshCalls
    <3> QED
      BY <2>1, <3>1 DEF Buffered, FreshCalls
  <2>5. flight = gen /\ Live /\ Live' /\ flight' # gen'
    BY <1>1, <1>3, <2>2 DEF RunInv, FlightOwned, Live
  <2>6. PICK S : S = {c \in Calls : \E i \in DOMAIN calls : calls[i] = c}
    OBVIOUS
  <2>7. S # {} /\ S \in SUBSET Calls
    <3>1. 1 \in DOMAIN calls
      BY <2>3, EmptySeq, LenProperties
    <3> QED
      BY <2>4, <2>6, <3>1
  <2>8. OpenCalls' = S
    <3>1. ASSUME NEW c \in S PROVE owner'[c] = gen /\ answers'[c] = 0
      <4>1. c \in Calls /\ owner'[c] = gen /\ owner[c] = 0
        BY <2>2, <2>4, <2>6
      <4> QED
        BY <1>1, <4>1 DEF IInv, Data, Fresh, Untouched
    <3>2. ASSUME NEW c \in Calls, c \notin S, owner'[c] = gen PROVE answers'[c] # 0
      <4>1. owner[c] = gen
        BY <2>2, <2>6, <3>2
      <4>2. answers[c] = 1
        BY <2>5, <4>1 DEF RoundAnswersCalls
      <4> QED
        BY <1>1, <4>2
    <3> QED
      BY <1>1, <2>5, <2>6, <3>1, <3>2 DEF OpenCalls
  <2>9. (Live /\ flight = gen) /\ (Live /\ flight = gen)' = FALSE
    BY <2>5
  <2>10. Contract!Reply(S)
    BY <2>2, <2>7, <2>8, <2>9 DEF Contract!Reply
  <2> QED
    BY <2>7, <2>10 DEF Contract!Next
<1>4. CASE Live /\ ~(stop = "ToolUse" /\ Buffered(batch) # <<>> /\ RoundsLeft)
  BY <1>4, ReplyEnds, EndStep
<1> QED
  BY <1>2, <1>3, <1>4

(* How a frame goes on: the next round, the end, or waiting. *)
LEMMA ContinueStep ==
  ASSUME RunInv, Exchange, RoundAnswersCalls', DispatchDone \/ Drive
  PROVE  Contract!Next \/ UNCHANGED Contract!vars
<1>1. UNCHANGED <<gen, owner, answers>>
  BY DEF DispatchDone, Drive, tools
<1>2. CASE UNCHANGED <<fate, reports, flight>>
  BY <1>1, <1>2, Unseen
<1>3. CASE Live /\ (NextRound \/ Finish("Aborted"))
  <2>1. Ends \/ Asks
    BY <1>1, <1>3, NextRoundEffect DEF Finish, Zeroed, Ends, Reasons, wire
  <2> QED
    BY <1>1, <2>1, EndStep, AskStep DEF RunInv
<1> QED
  BY <1>2, <1>3 DEF DispatchDone, Drive, inner, wire

(* A completion or an answer of the user: a tool_result, or nothing yet. *)
LEMMA JobStep ==
  ASSUME IInv, Exchange, NEW c \in Calls, JobDone(c)
  PROVE  Contract!Next \/ UNCHANGED Contract!vars
<1>1. UNCHANGED <<gen, fate, reports, flight, owner>>
  BY DEF JobDone, run, wire
<1>2. CASE Live /\ entry[c] # "absent"
  <2>1. owner[c] = gen /\ answers[c] = 0 /\ answers' = [answers EXCEPT ![c] = @ + 1]
    BY <1>2 DEF JobDone, Exchange, Placed, Answered, Open
  <2> QED
    BY <1>1, <1>2, <2>1, AnswerStep DEF IInv
<1>3. CASE ~(Live /\ entry[c] # "absent")
  BY <1>1, <1>3, Unseen DEF JobDone
<1> QED
  BY <1>2, <1>3

LEMMA ResolveStep ==
  ASSUME IInv, NEW c \in Calls, NEW allow \in BOOLEAN, Resolve(c, allow)
  PROVE  Contract!Next \/ UNCHANGED Contract!vars
<1>1. UNCHANGED <<gen, fate, reports, flight, owner>>
  BY DEF Resolve, run, wire
<1>2. CASE resolver[c] = "live" /\ entry[c] # "absent" /\ ~allow
  <2>1. Live /\ owner[c] = gen /\ answers[c] = 0 /\ answers' = [answers EXCEPT ![c] = @ + 1]
    BY <1>2 DEF Resolve, IInv, Data, ResolverOwned
  <2> QED
    BY <1>1, <2>1, AnswerStep DEF IInv
<1>3. CASE ~(resolver[c] = "live" /\ entry[c] # "absent" /\ ~allow)
  <2>1. answers' = answers
    BY <1>3 DEF Resolve
  <2> QED
    BY <1>1, <2>1, Unseen
<1> QED
  BY <1>2, <1>3

(* The loop answers an unknown tool, a handler answers its own call. *)
LEMMA UnknownStep ==
  ASSUME IInv, Exchange, DispatchUnknown
  PROVE  Contract!Next
<1>1. PICK c : c = pending[cursor]
  OBVIOUS
<1>2. /\ UNCHANGED <<gen, fate, reports, flight, owner, pending>> /\ cursor' = cursor + 1
      /\ InLoop /\ Live /\ answers' = [answers EXCEPT ![c] = @ + 1]
  BY <1>1 DEF DispatchUnknown, InLoop, run, inner, wire
<1>3. c \in Calls /\ answers[c] = 0 /\ owner[c] = gen
  BY <1>1, <1>2, StepOn
<1> QED
  BY <1>2, <1>3, AnswerStep DEF IInv

LEMMA HandlerStep ==
  ASSUME IInv, Exchange, HandlerReturns
  PROVE  Contract!Next \/ UNCHANGED Contract!vars
<1>1. PICK c : c = Topmost
  OBVIOUS
<1>2. Inside("started") /\ stack # <<>> /\ UNCHANGED <<gen, fate, reports, flight, owner>>
  BY DEF HandlerReturns, Inside, run, wire
<1>3. c \in Calls /\ Entered(c)
  BY <1>1, <1>2 DEF IInv, Control, StartedIsIdle, Entered
<1>4. Live /\ owner[c] = gen /\ answers[c] = 0
  BY <1>2, <1>3 DEF Exchange, Placed, Answered, Open
<1>5. answers' = answers \/ answers' = [answers EXCEPT ![c] = @ + 1]
  BY <1>1, <1>4 DEF HandlerReturns
<1> QED
  BY <1>2, <1>3, <1>4, <1>5, AnswerStep, Unseen DEF IInv

(* One step of the code is one of the contract, or none. *)
LEMMA ContractStep ==
  ASSUME IInv, RunInv, OneLive, Exchange, RoundAnswersCalls, RoundAnswersCalls', [Next]_vars
  PROVE  Contract!Next \/ UNCHANGED Contract!vars
<1>1. CASE UNCHANGED vars \/ Cancel \/ DispatchGuarded \/ DispatchPlain \/ CallbackReturns
  <2>1. UNCHANGED <<gen, fate, reports, flight, owner, answers>>
    BY <1>1 DEF vars, run, inner, wire, tools, Cancel, ProviderCancel, DispatchGuarded,
                DispatchPlain, CallbackReturns
  <2> QED
    BY <2>1, Unseen
<1> QED
  BY <1>1, BeginStep, DropStep, ReplyStep, ContinueStep, JobStep, ResolveStep, UnknownStep,
     HandlerStep
     DEF Next, Frames_Next, Provider, Host, IInv

(* query.c keeps the promises of query.h: the model is asked again only when *)
(* every call is answered, a run ends with one report and nothing that comes *)
(* after its end changes it.                                                 *)
THEOREM Implements ==
  ASSUME ~SyncResolve
  PROVE  Spec => FollowsContract
<1>1. Init => Contract!Init
  <2> SUFFICES ASSUME Init PROVE Contract!Init
    OBVIOUS
  <2>1. ~Live /\ fate = [g \in Runs |-> "unused"] /\ reports = [g \in Runs |-> <<>>]
    BY DEF Init, Live
  <2>2. OpenCalls = {} /\ (Live /\ flight = gen) = FALSE
    BY <2>1 DEF OpenCalls
  <2> QED
    BY <2>1, <2>2 DEF Contract!Init, Contract!Runs, Runs
<1>2. ASSUME IInv, RunInv, OneLive, Exchange, RoundAnswersCalls, RoundAnswersCalls', [Next]_vars
      PROVE  [Contract!Next]_(Contract!vars)
  BY <1>2, ContractStep
<1> QED
  BY <1>1, <1>2, Invariance, RunInvariance, OneLiveInvariance, ExchangeInvariance, RoundsAreWhole,
     PTL DEF Spec, FollowsContract, Contract!Spec

-------------------------------------------------------------------------------
(* The record of a session: AgentSession.                                    *)

(* How many turns of the user begin among the first i entries. *)
TurnsUpTo(h, i) == Cardinality({j \in UserTurns(h) : j <= i})

(* The turns of the user are entries, and finitely many. *)
LEMMA TurnSets ==
  ASSUME NEW h \in Seq(Entries)
  PROVE  /\ UserTurns(h) \subseteq 1 .. Len(h)
         /\ IsFiniteSet(UserTurns(h)) /\ Cardinality(UserTurns(h)) \in Nat
         /\ \A i \in Int : /\ {j \in UserTurns(h) : j <= i} \subseteq UserTurns(h)
                           /\ IsFiniteSet({j \in UserTurns(h) : j <= i})
                           /\ TurnsUpTo(h, i) \in Nat
                           /\ TurnsUpTo(h, i) <= Cardinality(UserTurns(h))
<1>1. Len(h) \in Nat /\ DOMAIN h = 1 .. Len(h)
  OBVIOUS
<1>2. UserTurns(h) \subseteq 1 .. Len(h)
  BY <1>1 DEF UserTurns
<1>3. IsFiniteSet(1 .. Len(h))
  BY <1>1, FS_Interval
<1>4. IsFiniteSet(UserTurns(h)) /\ Cardinality(UserTurns(h)) \in Nat
  BY <1>2, <1>3, FS_Subset, FS_CardinalityType
<1>5. ASSUME NEW i \in Int
      PROVE  /\ {j \in UserTurns(h) : j <= i} \subseteq UserTurns(h)
             /\ IsFiniteSet({j \in UserTurns(h) : j <= i})
             /\ TurnsUpTo(h, i) \in Nat
             /\ TurnsUpTo(h, i) <= Cardinality(UserTurns(h))
  <2> DEFINE T == {j \in UserTurns(h) : j <= i}
  <2>1. T \subseteq UserTurns(h)
    OBVIOUS
  <2> HIDE DEF T
  <2>2. IsFiniteSet(T) /\ Cardinality(T) <= Cardinality(UserTurns(h)) /\ Cardinality(T) \in Nat
    BY <1>4, <2>1, FS_Subset, FS_CardinalityType
  <2> QED
    BY <2>1, <2>2, Zenon DEF T, TurnsUpTo
<1> QED
  BY <1>2, <1>4, <1>5

(* Further on no fewer turns have begun. *)
LEMMA TurnsGrow ==
  ASSUME NEW h \in Seq(Entries), NEW i \in Int, NEW j \in Int, i <= j
  PROVE  TurnsUpTo(h, i) <= TurnsUpTo(h, j)
<1> DEFINE S == {k \in UserTurns(h) : k <= i}
           T == {k \in UserTurns(h) : k <= j}
<1>1. S \subseteq T
  BY TurnSets
<1>2. IsFiniteSet(T)
  BY TurnSets
<1> QED
  BY <1>1, <1>2, FS_Subset DEF TurnsUpTo

(* A turn counts from its first entry on. *)
LEMMA TurnCounts ==
  ASSUME NEW h \in Seq(Entries), NEW i \in Int, NEW u \in UserTurns(h), i < u
  PROVE  TurnsUpTo(h, i) < TurnsUpTo(h, u)
<1> DEFINE S == {k \in UserTurns(h) : k <= i}
           T == {k \in UserTurns(h) : k <= u}
<1>1. S \subseteq T /\ u \in T /\ u \notin S /\ u \in Int
  BY TurnSets
<1>2. IsFiniteSet(T) /\ Cardinality(T) \in Nat /\ Cardinality(S) \in Nat
  BY <1>1, TurnSets, FS_Subset, FS_CardinalityType
<1> HIDE DEF S, T
<1>3. Cardinality(S) <= Cardinality(T) /\ (Cardinality(T) = Cardinality(S) => T = S)
  BY <1>1, <1>2, FS_Subset
<1>4. Cardinality(S) < Cardinality(T)
  BY <1>1, <1>2, <1>3
<1> QED
  BY <1>4 DEF TurnsUpTo, S, T

(* A turn that begins between two entries tells them apart. *)
LEMMA TurnsBetween ==
  ASSUME NEW h \in Seq(Entries), NEW i \in Int, NEW j \in Int, NEW u \in UserTurns(h), i < u, u <= j
  PROVE  TurnsUpTo(h, i) < TurnsUpTo(h, j)
<1>1. u \in Int
  BY TurnSets
<1>2. TurnsUpTo(h, i) < TurnsUpTo(h, u) /\ TurnsUpTo(h, u) <= TurnsUpTo(h, j)
  BY <1>1, TurnCounts, TurnsGrow
<1>3. TurnsUpTo(h, i) \in Nat /\ TurnsUpTo(h, u) \in Nat /\ TurnsUpTo(h, j) \in Nat
  BY <1>1, TurnSets, Zenon
<1> QED
  BY <1>2, <1>3

(* One entry further there is one turn more, or as many as before. *)
LEMMA NextTurn ==
  ASSUME NEW h \in Seq(Entries), NEW i \in Nat
  PROVE  /\ i + 1 \in UserTurns(h) => TurnsUpTo(h, i + 1) = TurnsUpTo(h, i) + 1
         /\ i + 1 \notin UserTurns(h) => TurnsUpTo(h, i + 1) = TurnsUpTo(h, i)
<1> DEFINE S == {k \in UserTurns(h) : k <= i}
           T == {k \in UserTurns(h) : k <= i + 1}
<1>1. \A k \in UserTurns(h) : k \in Int
  BY TurnSets
<1>2. CASE i + 1 \in UserTurns(h)
  <2>1. T = S \cup {i + 1} /\ i + 1 \notin S
    BY <1>1, <1>2
  <2>2. IsFiniteSet(S)
    BY TurnSets
  <2> HIDE DEF S, T
  <2>3. Cardinality(T) = Cardinality(S) + 1
    BY <2>1, <2>2, FS_AddElement, Zenon
  <2> QED
    BY <1>2, <2>3, Zenon DEF S, T, TurnsUpTo
<1>3. CASE i + 1 \notin UserTurns(h)
  <2>1. T = S
    BY <1>1, <1>3
  <2> QED
    BY <1>3, <2>1, Zenon DEF TurnsUpTo
<1> QED
  BY <1>2, <1>3

(* A set of numbers with an element has a smallest one. *)
LEMMA SmallestOne ==
  ASSUME NEW C \in SUBSET Nat, C # {}
  PROVE  \E x \in C : \A y \in C : x <= y
<1>1. PICK x \in C : \A y \in C : ~(<<y, x>> \in OpToRel(<, Nat))
  BY WFMin, NatLessThanWellFounded
<1>2. \A y \in C : ~(y < x)
  BY <1>1 DEF OpToRel
<1> QED
  BY <1>2

(* Every number of turns below their count has a turn that begins after just as many. *)
LEMMA TurnExists ==
  ASSUME NEW h \in Seq(Entries), NEW k \in Nat, k < Cardinality(UserTurns(h))
  PROVE  \E i \in 0 .. Len(h) - 1 : i + 1 \in UserTurns(h) /\ TurnsUpTo(h, i) = k
<1> DEFINE C == {i \in Nat : TurnsUpTo(h, i) > k}
<1>1. Len(h) \in Nat
  OBVIOUS
<1>2. TurnsUpTo(h, Len(h)) = Cardinality(UserTurns(h))
  <2>1. {j \in UserTurns(h) : j <= Len(h)} = UserTurns(h)
    BY <1>1, TurnSets
  <2> QED
    BY <2>1, Zenon DEF TurnsUpTo
<1>3. TurnsUpTo(h, 0) = 0
  <2>1. {j \in UserTurns(h) : j <= 0} = {}
    BY TurnSets
  <2> QED
    BY <2>1, FS_EmptySet, Zenon DEF TurnsUpTo
<1>4. C \subseteq Nat /\ Len(h) \in C
  BY <1>1, <1>2
<1>5. PICK x \in C : \A y \in C : x <= y
  BY <1>4, SmallestOne, Zenon
<1>6. x \in Nat /\ x # 0 /\ TurnsUpTo(h, x) > k /\ x <= Len(h)
  BY <1>3, <1>4, <1>5
<1>7. PICK i \in Nat : x = i + 1
  BY <1>6
<1>8. ~(TurnsUpTo(h, i) > k)
  BY <1>5, <1>7
<1>9. TurnsUpTo(h, i) \in Nat /\ TurnsUpTo(h, x) \in Nat
  <2>1. i \in Int /\ x \in Int
    BY <1>6, <1>7
  <2> QED
    BY <2>1, TurnSets, Zenon
<1>10. i + 1 \in UserTurns(h) /\ TurnsUpTo(h, i) = k
  BY <1>6, <1>7, <1>8, <1>9, NextTurn
<1> QED
  BY <1>1, <1>6, <1>7, <1>10

(* FindUserTurn finds the k-th turn when there is one. *)
LEMMA TurnFound ==
  ASSUME NEW h \in Seq(Entries), NEW k \in Nat, k < Cardinality(UserTurns(h)),
         NEW i, i = FindUserTurn(h, k)
  PROVE  i \in 0 .. Len(h) - 1 /\ i + 1 \in UserTurns(h) /\ TurnsUpTo(h, i) = k
BY TurnExists, Zenon DEF FindUserTurn, TurnsUpTo

(* What [a, b) is when there are enough turns: whole turns, behind KeepHead *)
(* of them and before the last KeepTail.                                    *)
Cuts(h, a, b) ==
  /\ a \in Nat /\ b \in Nat /\ a < b /\ b <= Len(h)
  /\ a + 1 \in UserTurns(h) /\ TurnsUpTo(h, a) = KeepHead
  /\ IF KeepTail = 0 THEN b = Len(h)
     ELSE /\ b + 1 \in UserTurns(h)
          /\ TurnsUpTo(h, b) = Cardinality(UserTurns(h)) - KeepTail

(* CompactRange is such a range whenever CanCompact lets it be used. *)
LEMMA RangeCuts ==
  ASSUME NEW h \in Seq(Entries), CanCompact(h), NEW a, NEW b, <<a, b>> = CompactRange(h)
  PROVE  Cuts(h, a, b)
<1>1. KeepHead \in Nat /\ KeepTail \in Nat /\ Cardinality(UserTurns(h)) \in Nat
  BY NumberAssumption, TurnSets
<1>2. KeepHead < Cardinality(UserTurns(h)) /\ KeepHead + KeepTail < Cardinality(UserTurns(h))
  BY <1>1 DEF CanCompact
<1>3. a = FindUserTurn(h, KeepHead)
  BY DEF CompactRange
<1>4. a \in 0 .. Len(h) - 1 /\ a + 1 \in UserTurns(h) /\ TurnsUpTo(h, a) = KeepHead
  BY <1>1, <1>2, <1>3, TurnFound
<1>5. CASE KeepTail = 0
  <2>1. b = Len(h)
    BY <1>5 DEF CompactRange
  <2> QED
    BY <1>4, <1>5, <2>1 DEF Cuts
<1>6. CASE KeepTail # 0
  <2> DEFINE k == Cardinality(UserTurns(h)) - KeepTail
  <2>1. k \in Nat /\ KeepHead < k /\ k < Cardinality(UserTurns(h))
    BY <1>1, <1>2, <1>6
  <2>2. b = FindUserTurn(h, k)
    BY <1>6 DEF CompactRange
  <2> HIDE DEF k
  <2>3. b \in 0 .. Len(h) - 1 /\ b + 1 \in UserTurns(h) /\ TurnsUpTo(h, b) = k
    BY <2>1, <2>2, TurnFound
  <2>4. a < b
    <3>1. SUFFICES ASSUME b <= a PROVE FALSE
      BY <1>4, <2>3
    <3>2. TurnsUpTo(h, b) <= TurnsUpTo(h, a)
      BY <1>4, <2>3, <3>1, TurnsGrow
    <3> QED
      BY <1>1, <1>4, <2>1, <2>3, <3>2
  <2> QED
    BY <1>4, <1>6, <2>3, <2>4 DEF Cuts, k
<1> QED
  BY <1>5, <1>6

(* An entry remains the same when its output is trimmed, and only then. *)
LEMMA SameMeans ==
  ASSUME NEW e, NEW f
  PROVE  Same(e, f) <=> /\ e.id = f.id
                        /\ \/ e.kind = f.kind
                           \/ e.kind = "result" /\ f.kind = "trimmed"
                           \/ e.kind = "trimmed" /\ f.kind = "result"
BY DEF Same

(* So two entries are the same or not, whichever of them is asked about. *)
LEMMA SameIsEquivalence ==
  ASSUME NEW e, NEW f, NEW g
  PROVE  /\ Same(e, e)
         /\ Same(e, f) => Same(f, e)
         /\ Same(e, f) /\ Same(f, g) => Same(e, g)
BY SameMeans

(* A sequence holds an entry at one of its places. *)
LEMMA HoldsAt ==
  ASSUME NEW s, NEW e
  PROVE  Holds(s, e) <=> \E i \in DOMAIN s : Same(e, s[i])
BY DEF Holds, Elements

(* The same, with the places counted. *)
LEMMA HoldsIn ==
  ASSUME NEW s \in Seq(Entries), NEW e
  PROVE  Holds(s, e) <=> \E i \in 1 .. Len(s) : Same(e, s[i])
<1>1. DOMAIN s = 1 .. Len(s)
  BY LenProperties
<1> QED
  BY <1>1, HoldsAt, Zenon

(* A turn of the user is an entry of kind user. *)
LEMMA TurnIn ==
  ASSUME NEW h \in Seq(Entries), NEW u
  PROVE  u \in UserTurns(h) <=> u \in 1 .. Len(h) /\ h[u].kind = "user"
<1>1. DOMAIN h = 1 .. Len(h)
  BY LenProperties
<1> QED
  BY <1>1, Zenon DEF UserTurns

(* To hold an entry is to hold what trimming makes of it. *)
LEMMA HoldsSame ==
  ASSUME NEW s, NEW e, NEW f, Same(e, f)
  PROVE  Holds(s, e) <=> Holds(s, f)
<1>1. \A x : Same(e, x) <=> Same(f, x)
  BY SameIsEquivalence
<1> QED
  BY <1>1, HoldsAt

(* What two sequences hold together one of them holds. *)
LEMMA HoldsEither ==
  ASSUME NEW s \in Seq(Entries), NEW t \in Seq(Entries), NEW e
  PROVE  Holds(s \o t, e) <=> Holds(s, e) \/ Holds(t, e)
<1>1. /\ s \o t \in Seq(Entries) /\ Len(s \o t) = Len(s) + Len(t)
      /\ \A i \in 1 .. Len(s) + Len(t) :
           (s \o t)[i] = IF i <= Len(s) THEN s[i] ELSE t[i - Len(s)]
  BY ConcatProperties, Zenon
<1>2. Len(s) \in Nat /\ Len(t) \in Nat /\ DOMAIN s = 1 .. Len(s) /\ DOMAIN t = 1 .. Len(t)
      /\ DOMAIN (s \o t) = 1 .. Len(s) + Len(t)
  BY <1>1, LenProperties
<1>3. ASSUME NEW i \in DOMAIN (s \o t)
      PROVE  \/ \E j \in DOMAIN s : (s \o t)[i] = s[j]
             \/ \E j \in DOMAIN t : (s \o t)[i] = t[j]
  <2>1. CASE i <= Len(s)
    BY <1>1, <1>2, <2>1
  <2>2. CASE i > Len(s)
    <3>1. i - Len(s) \in DOMAIN t /\ (s \o t)[i] = t[i - Len(s)]
      BY <1>1, <1>2, <2>2
    <3> QED
      BY <3>1
  <2> QED
    BY <1>2, <2>1, <2>2
<1>4. ASSUME NEW j \in DOMAIN s
      PROVE  j \in DOMAIN (s \o t) /\ (s \o t)[j] = s[j]
  BY <1>1, <1>2
<1>5. ASSUME NEW j \in DOMAIN t
      PROVE  j + Len(s) \in DOMAIN (s \o t) /\ (s \o t)[j + Len(s)] = t[j]
  BY <1>1, <1>2
<1> QED
  BY <1>3, <1>4, <1>5, HoldsAt

-----------------------------------------------------------------------------
(* No turn is scattered: what lies before an entry of the user and what     *)
(* comes with it and after it bear different ids.                           *)
Apart(h) ==
  \A i, j \in 1 .. Len(h), u \in UserTurns(h) : i < u /\ u <= j => h[i].id # h[j].id

(* Summaries gather behind the head. *)
SummariesFirst(h) ==
  \A i \in 1 .. Len(h) : h[i].kind = "summary" => TurnsUpTo(h, i) <= KeepHead

(* No entry is in the history twice. *)
Unlike(h) == \A i, j \in 1 .. Len(h) : Same(h[i], h[j]) => i = j

(* A turn that was replaced by a summary has left the history. *)
Replaced(h, s) ==
  \A i \in 1 .. Len(h), j \in 1 .. Len(s) :
    s[j].kind = "summary" /\ s[j].id = h[i].id => h[i].kind = "summary"

(* A call and its result are both in the history, or neither. *)
Paired(h, s) ==
  \A m \in Ids : Holds(h \o s, Entry("result", m)) =>
    (Holds(h, Entry("use", m)) <=> Holds(h, Entry("result", m)))

(* The order of the record, which every step of the session keeps. *)
Ordered(h, s, p) ==
  /\ h \in Seq(Entries) /\ s \in Seq(Entries) /\ p \in Nat /\ p <= Len(h)
  /\ Apart(h) /\ SummariesFirst(h) /\ Unlike(h) /\ Replaced(h, s) /\ Paired(h, s)

(* What the prefix counts is stored, and it counts all of the head. *)
Stored(h, s, p) ==
  /\ \A i \in 1 .. Len(h) : i <= p => Holds(s, h[i])
  /\ \A i \in 1 .. Len(h) : i > p => TurnsUpTo(h, i) > KeepHead

(* What is stored is stored once, the prefix counts all of it that is left, *)
(* and it does not reach into the range of a summary.                       *)
Once(h, s, p) ==
  /\ \A i, j \in 1 .. Len(s) : Same(s[i], s[j]) => i = j
  /\ \A i \in 1 .. Len(h) : i > p => ~Holds(s, h[i])
  /\ KeepTail = 0 \/ TurnsUpTo(h, p) <= KeepHead

-----------------------------------------------------------------------------
(* g is h with some outputs trimmed. *)
LEMMA TrimFacts ==
  ASSUME NEW h \in Seq(Entries), NEW g, g = TrimAll(h)
  PROVE  /\ g \in Seq(Entries) /\ Len(g) = Len(h)
         /\ \A i \in 1 .. Len(h) : Same(g[i], h[i]) /\ Same(h[i], g[i]) /\ g[i].id = h[i].id
         /\ \A i \in 1 .. Len(h), k \in {"user", "summary", "use"} : g[i].kind = k <=> h[i].kind = k
         /\ UserTurns(g) = UserTurns(h)
         /\ \A i \in Int : TurnsUpTo(g, i) = TurnsUpTo(h, i)
         /\ \A e : Holds(g, e) <=> Holds(h, e)
<1>1. Len(h) \in Nat /\ DOMAIN h = 1 .. Len(h) /\ \A i \in 1 .. Len(h) : h[i] \in Entries
  BY ElementOfSeq, LenProperties
<1>2. /\ DOMAIN g = 1 .. Len(h)
      /\ \A i \in 1 .. Len(h) : g[i] = IF h[i].kind = "result" THEN Entry("trimmed", h[i].id) ELSE h[i]
  BY <1>1 DEF TrimAll, Untrimmed
<1>3. ASSUME NEW i \in 1 .. Len(h)
      PROVE  /\ g[i] \in Entries /\ g[i].id = h[i].id
             /\ g[i].kind = IF h[i].kind = "result" THEN "trimmed" ELSE h[i].kind
  BY <1>1, <1>2 DEF Entry, Entries, Kinds
<1>4. g = [i \in 1 .. Len(h) |-> g[i]]
  BY <1>1, Zenon DEF TrimAll
<1>5. g \in Seq(Entries) /\ Len(g) = Len(h)
  BY <1>1, <1>3, <1>4
<1>6. \A i \in 1 .. Len(h) : Same(g[i], h[i]) /\ Same(h[i], g[i]) /\ g[i].id = h[i].id
  BY <1>3, SameMeans
<1>7. \A i \in 1 .. Len(h), k \in {"user", "summary", "use"} : g[i].kind = k <=> h[i].kind = k
  BY <1>3
<1>8. UserTurns(g) = UserTurns(h)
  BY <1>1, <1>2, <1>7 DEF UserTurns
<1>9. \A i \in Int : TurnsUpTo(g, i) = TurnsUpTo(h, i)
  BY <1>8, Zenon DEF TurnsUpTo
<1>10. ASSUME NEW e PROVE Holds(g, e) <=> Holds(h, e)
  <2>1. \A i \in 1 .. Len(h) : Same(e, g[i]) <=> Same(e, h[i])
    BY <1>6, SameIsEquivalence
  <2> QED
    BY <1>1, <1>2, <2>1, HoldsAt
<1> QED
  BY <1>2, <1>5, <1>6, <1>7, <1>8, <1>9, <1>10, Zenon

(* Trimming does not disturb the record. *)
LEMMA TrimKeeps ==
  ASSUME NEW h, NEW s, NEW p, Ordered(h, s, p), NEW g, g = TrimAll(h)
  PROVE  /\ Ordered(g, s, p)
         /\ Stored(h, s, p) => Stored(g, s, p)
         /\ Once(h, s, p) => Once(g, s, p)
<1>1. h \in Seq(Entries) /\ s \in Seq(Entries) /\ p \in Nat /\ p <= Len(h)
  BY DEF Ordered
<1>2. /\ g \in Seq(Entries) /\ Len(g) = Len(h)
      /\ UserTurns(g) = UserTurns(h)
      /\ \A e : Holds(g, e) <=> Holds(h, e)
  BY <1>1, TrimFacts, Zenon
<1>3. \A i \in 1 .. Len(h) : Same(g[i], h[i]) /\ Same(h[i], g[i]) /\ g[i].id = h[i].id
  BY <1>1, TrimFacts, Zenon
<1>4. \A i \in 1 .. Len(h) : g[i].kind = "summary" <=> h[i].kind = "summary"
  BY <1>1, TrimFacts
<1>5. \A i \in Int : TurnsUpTo(g, i) = TurnsUpTo(h, i)
  BY <1>1, TrimFacts, Zenon
<1>6. \A i \in 1 .. Len(h) : i \in Int
  BY <1>1
<1>7. Apart(g)
  BY <1>2, <1>3 DEF Apart, Ordered
<1>8. SummariesFirst(g)
  BY <1>2, <1>4, <1>5, <1>6 DEF SummariesFirst, Ordered
<1>9. Unlike(g)
  <2>1. \A i, j \in 1 .. Len(h) : Same(g[i], g[j]) => Same(h[i], h[j])
    BY <1>3, SameIsEquivalence
  <2> QED
    BY <1>2, <2>1 DEF Unlike, Ordered
<1>10. Replaced(g, s)
  BY <1>2, <1>3, <1>4 DEF Replaced, Ordered
<1>11. Paired(g, s)
  <2>1. \A e : Holds(g \o s, e) <=> Holds(h \o s, e)
    BY <1>1, <1>2, HoldsEither
  <2> QED
    BY <1>2, <2>1 DEF Paired, Ordered
<1>12. \A i \in 1 .. Len(h) : Holds(s, g[i]) <=> Holds(s, h[i])
  BY <1>3, HoldsSame
<1>13. Stored(h, s, p) => Stored(g, s, p)
  BY <1>2, <1>5, <1>6, <1>12 DEF Stored
<1>14. Once(h, s, p) => Once(g, s, p)
  BY <1>1, <1>2, <1>5, <1>12 DEF Once
<1> QED
  BY <1>1, <1>2, <1>7, <1>8, <1>9, <1>10, <1>11, <1>13, <1>14 DEF Ordered

-----------------------------------------------------------------------------
(* What is in the front part of two histories alike is counted alike. *)
LEMMA FrontTurns ==
  ASSUME NEW h \in Seq(Entries), NEW g \in Seq(Entries), NEW n \in Int,
         n <= Len(h), n <= Len(g), \A i \in 1 .. n : g[i] = h[i]
  PROVE  /\ \A i \in Int : i <= n => TurnsUpTo(g, i) = TurnsUpTo(h, i)
         /\ \A u \in Int : u <= n => (u \in UserTurns(g) <=> u \in UserTurns(h))
<1>1. Len(h) \in Nat /\ Len(g) \in Nat
  BY LenProperties
<1>2. \A u \in Int : u <= n => (u \in UserTurns(g) <=> u \in UserTurns(h))
  BY <1>1, TurnIn
<1>3. ASSUME NEW i \in Int, i <= n PROVE TurnsUpTo(g, i) = TurnsUpTo(h, i)
  <2>1. UserTurns(g) \subseteq Int /\ UserTurns(h) \subseteq Int
    BY TurnSets
  <2>2. {j \in UserTurns(g) : j <= i} = {j \in UserTurns(h) : j <= i}
    BY <1>2, <1>3, <2>1
  <2> QED
    BY <2>2, Zenon DEF TurnsUpTo
<1> QED
  BY <1>2, <1>3

(* From n on g is the turn m, of which h has the user's entry or nothing, *)
(* and the store nothing.                                                  *)
LastTurn(g, h, s, n, m) ==
  /\ g \in Seq(Entries) /\ n \in 1 .. Len(g) /\ Len(h) <= Len(g) /\ n \in {Len(h), Len(h) + 1}
  /\ \A i \in 1 .. Len(h) : g[i] = h[i]
  /\ \A i \in 1 .. Len(g) : g[i].id = m <=> i >= n
  /\ g[n].kind = "user"
  /\ \A i \in n .. Len(g) : i # n => g[i].kind \in {"text", "use", "result"}
  /\ \A i, j \in n .. Len(g) : g[i].kind = g[j].kind => i = j
  /\ \A i \in n .. Len(g) : g[i].kind = "result" => \E j \in n .. Len(g) : g[j].kind = "use"
  /\ \A i \in 1 .. Len(s) : s[i].id # m

(* The record stays in order when its last turn is begun or continued. *)
LEMMA GrowKeeps ==
  ASSUME NEW h, NEW s, NEW p, Ordered(h, s, p),
         NEW g \in Seq(Entries), NEW n \in Nat, NEW m, LastTurn(g, h, s, n, m)
  PROVE  /\ Ordered(g, s, p)
         /\ Stored(h, s, p) /\ TurnsUpTo(g, n) > KeepHead => Stored(g, s, p)
         /\ Once(h, s, p) => Once(g, s, p)
<1>1. h \in Seq(Entries) /\ s \in Seq(Entries) /\ p \in Nat /\ p <= Len(h)
  BY DEF Ordered
<1>0. g \in Seq(Entries) /\ n \in 1 .. Len(g) /\ Len(h) <= Len(g) /\ (n = Len(h) \/ n = Len(h) + 1)
  BY DEF LastTurn
<1>21. \A i \in 1 .. Len(h) : g[i] = h[i]
  BY DEF LastTurn
<1>22. \A i \in 1 .. Len(g) : g[i].id = m <=> i >= n
  BY DEF LastTurn
<1>23. g[n].kind = "user" /\ \A i \in n .. Len(g) : i # n => g[i].kind \in {"text", "use", "result"}
  BY DEF LastTurn
<1>24. \A i, j \in n .. Len(g) : g[i].kind = g[j].kind => i = j
  BY DEF LastTurn
<1>25. \A i \in n .. Len(g) : g[i].kind = "result" => \E j \in n .. Len(g) : g[j].kind = "use"
  BY DEF LastTurn
<1>26. \A i \in 1 .. Len(s) : s[i].id # m
  BY DEF LastTurn
<1>3. Len(h) \in Nat /\ Len(h) \in Int /\ Len(g) \in Nat
      /\ Len(s) \in Nat /\ n \in Int
  BY <1>1, <1>0, LenProperties
<1>4. /\ \A i \in Int : i <= Len(h) => TurnsUpTo(g, i) = TurnsUpTo(h, i)
      /\ \A u \in Int : u <= Len(h) => (u \in UserTurns(g) <=> u \in UserTurns(h))
  <2>1. Len(h) <= Len(h) /\ Len(h) \in Int
    BY <1>3
  <2>2. h \in Seq(Entries) /\ g \in Seq(Entries) /\ Len(h) <= Len(g)
    BY <1>1, <1>0
  <2> QED
    BY <2>1, <2>2, <1>21, FrontTurns, Zenon
<1>5. UserTurns(g) \subseteq 1 .. n
  BY <1>0, <1>3, <1>23, TurnIn
<1>6. Apart(g)
  <2> SUFFICES ASSUME NEW i \in 1 .. Len(g), NEW j \in 1 .. Len(g), NEW u \in UserTurns(g), i < u, u <= j
               PROVE  g[i].id # g[j].id
    BY <1>3 DEF Apart
  <2>1. u \in 1 .. n /\ i < n
    BY <1>3, <1>5
  <2>2. CASE j >= n
    BY <1>22, <2>1, <2>2, <1>3
  <2>3. CASE j < n
    <3>1. i \in 1 .. Len(h) /\ j \in 1 .. Len(h) /\ u \in UserTurns(h)
      BY <1>0, <1>3, <1>4, <2>1, <2>3
    <3> QED
      BY <1>21, <1>3, <3>1 DEF Apart, Ordered
  <2> QED
    BY <1>3, <2>2, <2>3
<1>7. \A i \in 1 .. Len(g) : i > Len(h) => g[i].kind # "summary" /\ i >= n
  BY <1>0, <1>3, <1>23
<1>8. SummariesFirst(g)
  BY <1>21, <1>3, <1>4, <1>7 DEF SummariesFirst, Ordered
<1>9. Unlike(g)
  <2> SUFFICES ASSUME NEW i \in 1 .. Len(g), NEW j \in 1 .. Len(g), Same(g[i], g[j]) PROVE i = j
    BY <1>3 DEF Unlike
  <2>1. g[i].id = g[j].id
    BY SameMeans
  <2>2. CASE i < n /\ j < n
    <3>1. i \in 1 .. Len(h) /\ j \in 1 .. Len(h) /\ g[i] = h[i] /\ g[j] = h[j]
      BY <1>0, <1>21, <1>3, <2>2
    <3> QED
      BY <3>1 DEF Unlike, Ordered
  <2>3. CASE i >= n /\ j >= n
    <3>1. g[i].kind # "trimmed" /\ g[j].kind # "trimmed"
      BY <1>3, <2>3, <1>23, <1>0
    <3>2. g[i].kind = g[j].kind
      BY <3>1, SameMeans
    <3> QED
      BY <1>3, <2>3, <3>2, <1>24, <1>0
  <2> QED
    BY <1>22, <1>3, <2>1, <2>2, <2>3
<1>10. Replaced(g, s)
  <2> SUFFICES ASSUME NEW i \in 1 .. Len(g), NEW j \in 1 .. Len(s),
                      s[j].kind = "summary", s[j].id = g[i].id
               PROVE  g[i].kind = "summary"
    BY <1>3 DEF Replaced
  <2>1. i < n
    BY <1>0, <1>22, <1>26, <1>3
  <2>2. i \in 1 .. Len(h) /\ g[i] = h[i]
    BY <1>0, <1>21, <1>3, <2>1
  <2> QED
    BY <1>3, <2>2 DEF Replaced, Ordered
<1>11. Paired(g, s)
  <2> SUFFICES ASSUME NEW x \in Ids, Holds(g \o s, Entry("result", x))
               PROVE  Holds(g, Entry("use", x)) <=> Holds(g, Entry("result", x))
    BY DEF Paired
  <2>1. CASE x = m
    <3>1. ~Holds(s, Entry("result", x))
      BY <1>1, <1>3, <1>26, <2>1, HoldsIn, SameMeans DEF Entry
    <3>2. Holds(g, Entry("result", x))
      BY <1>1, <1>0, <3>1, HoldsEither
    <3>3. PICK i \in 1 .. Len(g) : Same(Entry("result", x), g[i])
      BY <1>3, <3>2, HoldsIn
    <3>4. i >= n /\ g[i].kind = "result"
      <4>1. i >= n
        BY <1>22, <2>1, <3>3, SameMeans DEF Entry
      <4>2. g[i].kind # "trimmed"
        BY <1>3, <1>0, <1>23, <4>1
      <4> QED
        BY <3>3, <4>1, <4>2, SameMeans DEF Entry
    <3>5. PICK j \in n .. Len(g) : g[j].kind = "use"
      BY <1>3, <1>0, <1>25, <3>4
    <3>6. g[j].id = x /\ j \in 1 .. Len(g)
      BY <1>0, <1>22, <1>3, <2>1
    <3>7. Holds(g, Entry("use", x))
      BY <1>3, <3>5, <3>6, HoldsIn, SameMeans DEF Entry
    <3> QED
      BY <3>2, <3>7
  <2>2. CASE x # m
    <3>1. ASSUME NEW k \in {"use", "result"} PROVE Holds(g, Entry(k, x)) <=> Holds(h, Entry(k, x))
      <4>1. ASSUME NEW i \in 1 .. Len(g), Same(Entry(k, x), g[i]) PROVE i \in 1 .. Len(h) /\ h[i] = g[i]
        <5>1. g[i].id = x
          BY <4>1, SameMeans DEF Entry
        <5> QED
          BY <1>0, <1>21, <1>22, <1>3, <2>2, <5>1
      <4> QED
        BY <1>1, <1>0, <1>21, <1>3, <4>1, HoldsIn
    <3>2. Holds(h \o s, Entry("result", x))
      BY <1>1, <1>0, <3>1, HoldsEither
    <3> QED
      BY <3>1, <3>2 DEF Paired, Ordered
  <2> QED
    BY <2>1, <2>2
<1>12. ASSUME Stored(h, s, p), TurnsUpTo(g, n) > KeepHead PROVE Stored(g, s, p)
  <2>1. \A i \in 1 .. Len(g) : i <= p => Holds(s, g[i])
    BY <1>1, <1>21, <1>3, <1>12 DEF Stored
  <2>2. ASSUME NEW i \in 1 .. Len(g), i > p PROVE TurnsUpTo(g, i) > KeepHead
    <3>1. CASE i <= Len(h)
      BY <1>3, <1>4, <1>12, <2>2, <3>1 DEF Stored
    <3>2. CASE i > Len(h)
      <4>1. TurnsUpTo(g, n) <= TurnsUpTo(g, i)
        BY <1>0, <1>3, <1>7, <3>2, TurnsGrow
      <4>2. TurnsUpTo(g, n) \in Nat /\ TurnsUpTo(g, i) \in Nat /\ KeepHead \in Nat
        <5>1. i \in Int
          OBVIOUS
        <5> QED
          BY <1>0, <1>3, <5>1, TurnSets, NumberAssumption, Zenon
      <4> QED
        BY <1>12, <4>1, <4>2
    <3> QED
      BY <1>3, <3>1, <3>2
  <2> QED
    BY <1>3, <2>1, <2>2 DEF Stored
<1>13. ASSUME Once(h, s, p) PROVE Once(g, s, p)
  <2>1. ASSUME NEW i \in 1 .. Len(g), i > p PROVE ~Holds(s, g[i])
    <3>1. CASE i <= Len(h)
      BY <1>21, <1>3, <1>13, <2>1, <3>1 DEF Once
    <3>2. CASE i > Len(h)
      <4>1. g[i].id = m
        BY <1>22, <1>7, <3>2
      <4> QED
        BY <1>1, <1>3, <1>26, <4>1, HoldsIn, SameMeans
    <3> QED
      BY <1>3, <3>1, <3>2
  <2>2. TurnsUpTo(g, p) = TurnsUpTo(h, p)
    BY <1>1, <1>3, <1>4
  <2> QED
    BY <1>3, <1>13, <2>1, <2>2 DEF Once
<1> QED
  BY <1>1, <1>0, <1>3, <1>6, <1>8, <1>9, <1>10, <1>11, <1>12, <1>13 DEF Ordered

-----------------------------------------------------------------------------
(* h with the entries from a to b replaced by e, and s with those of h from *)
(* c to b and e added.                                                       *)
Spliced(h, a, b, e) == SubSeq(h, 1, a) \o <<e>> \o SubSeq(h, b + 1, Len(h))
Extended(s, h, c, b, e) == Append(s \o SubSeq(h, c + 1, b), e)

(* In h the entries from a to b are replaced by the summary e, and the store *)
(* s, which has the first p, is given those behind c and the summary.        *)
Replaces(h, s, p, a, b, c, e, g, t, q) ==
  /\ e = Entry("summary", h[b].id)
  /\ c = Larger(a, Smaller(p, b))
  /\ g = Spliced(h, a, b, e)
  /\ t = Extended(s, h, c, b, e)
  /\ q = Larger(IF p > a THEN p - (Smaller(p, b) - a) ELSE p, a + 1)

(* The entry of the old history that lies at i in the new one. *)
Was(i, a, b) == IF i <= a THEN i ELSE i - a - 1 + b

(* Where the entries of the new history come from, and where the old ones are. *)
IsSpliced(g, h, a, b, e) ==
  /\ g \in Seq(Entries) /\ Len(g) = a + 1 + (Len(h) - b)
  /\ g[a + 1] = e
  /\ \A i \in 1 .. Len(g) : i # a + 1 =>
       Was(i, a, b) \in 1 .. Len(h) /\ g[i] = h[Was(i, a, b)]
  /\ \A x \in 1 .. Len(h) : x <= a \/ x > b =>
       \E i \in 1 .. Len(g) : i # a + 1 /\ Was(i, a, b) = x

(* Splicing puts e where the range was and shifts what lies behind it. *)
LEMMA NewHistory ==
  ASSUME NEW h \in Seq(Entries), NEW a \in Nat, NEW b \in Nat, a < b, b <= Len(h),
         NEW e \in Entries
  PROVE  IsSpliced(Spliced(h, a, b, e), h, a, b, e)
<1> DEFINE u == SubSeq(h, 1, a)
           v == SubSeq(h, b + 1, Len(h))
           n == Len(h)
           g == Spliced(h, a, b, e)
<1>1. n \in Nat /\ b <= n /\ a < b /\ \A i \in 1 .. n : h[i] \in Entries
  BY ElementOfSeq
<1>2. u \in Seq(Entries) /\ Len(u) = a /\ \A i \in 1 .. a : u[i] = h[i]
  <2>1. \A i \in 1 .. a : h[i] \in Entries
    BY <1>1
  <2>2. /\ SubSeq(h, 1, a) \in Seq(Entries)
        /\ Len(SubSeq(h, 1, a)) = IF 1 <= a THEN a - 1 + 1 ELSE 0
        /\ \A i \in 1 .. a - 1 + 1 : SubSeq(h, 1, a)[i] = h[1 + i - 1]
    BY <2>1, SubSeqProperties
  <2> QED
    BY <2>2
<1>3. v \in Seq(Entries) /\ Len(v) = n - b /\ \A i \in 1 .. n - b : v[i] = h[b + i]
  <2>1. \A i \in b + 1 .. n : h[i] \in Entries
    BY <1>1
  <2>2. /\ SubSeq(h, b + 1, n) \in Seq(Entries)
        /\ Len(SubSeq(h, b + 1, n)) = IF b + 1 <= n THEN n - (b + 1) + 1 ELSE 0
        /\ \A i \in 1 .. n - (b + 1) + 1 : SubSeq(h, b + 1, n)[i] = h[b + 1 + i - 1]
    BY <1>1, <2>1, SubSeqProperties
  <2> QED
    BY <1>1, <2>2
<1> DEFINE z == <<e>>
<1>4. z \in Seq(Entries) /\ Len(z) = 1 /\ z[1] = e
  OBVIOUS
<1> HIDE DEF u, v, n, z, g
<1>5. /\ u \o z \in Seq(Entries) /\ Len(u \o z) = a + 1
      /\ \A i \in 1 .. a : (u \o z)[i] = h[i]
      /\ (u \o z)[a + 1] = e
  <2>1. /\ u \o z \in Seq(Entries) /\ Len(u \o z) = Len(u) + Len(z)
        /\ \A i \in 1 .. Len(u) + Len(z) :
             (u \o z)[i] = IF i <= Len(u) THEN u[i] ELSE z[i - Len(u)]
    <3>1. u \in Seq(Entries) /\ z \in Seq(Entries)
      BY <1>2, <1>4
    <3> QED
      BY <3>1, ConcatProperties, Zenon
  <2> QED
    BY <1>2, <1>4, <2>1
<1> DEFINE w == u \o z
<1> HIDE DEF w
<1>6. w \in Seq(Entries) /\ Len(w) = a + 1 /\ w[a + 1] = e /\ \A i \in 1 .. a : w[i] = h[i]
  BY <1>5 DEF w
<1>7. /\ w \o v \in Seq(Entries) /\ Len(w \o v) = Len(w) + Len(v)
      /\ \A i \in 1 .. Len(w) + Len(v) : (w \o v)[i] = IF i <= Len(w) THEN w[i] ELSE v[i - Len(w)]
  BY <1>3, <1>6, ConcatProperties, Zenon
<1>8. g = w \o v
  BY DEF w, u, v, z, n, g, Spliced
<1>9. g \in Seq(Entries) /\ Len(g) = a + 1 + (n - b) /\ g[a + 1] = e
  <2>1. Len(w) + Len(v) = a + 1 + (n - b) /\ a + 1 \in 1 .. Len(w) + Len(v) /\ a + 1 <= Len(w)
    BY <1>1, <1>3, <1>6
  <2>2. (w \o v)[a + 1] = w[a + 1]
    BY <1>7, <2>1
  <2> QED
    BY <1>6, <1>7, <1>8, <2>1, <2>2
<1>10. \A i \in 1 .. Len(g) : i # a + 1 =>
         Was(i, a, b) \in 1 .. n /\ g[i] = h[Was(i, a, b)]
  <2> TAKE i \in 1 .. Len(g)
  <2> HAVE i # a + 1
  <2>1. CASE i <= a
    <3>1. Was(i, a, b) = i /\ i \in 1 .. a /\ i \in 1 .. n /\ i \in 1 .. Len(w) + Len(v) /\ i <= Len(w)
      BY <1>1, <1>3, <1>6, <2>1 DEF Was
    <3> QED
      BY <1>6, <1>7, <1>8, <3>1
  <2>2. CASE i > a + 1
    <3>0. i \in 1 .. a + 1 + (n - b)
      BY <1>9, Zenon
    <3>1. i \in Int /\ 1 <= i /\ i <= a + 1 + (n - b)
      BY <1>1, <3>0
    <3>2. /\ Was(i, a, b) = b + (i - (a + 1)) /\ i - (a + 1) \in 1 .. n - b
          /\ b + (i - (a + 1)) \in 1 .. n
      BY <1>1, <2>2, <3>1 DEF Was
    <3>3. i \in 1 .. Len(w) + Len(v) /\ ~(i <= Len(w)) /\ i - Len(w) = i - (a + 1)
      BY <1>1, <1>3, <1>6, <2>2, <3>1
    <3>4. g[i] = v[i - (a + 1)]
      BY <1>7, <1>8, <3>3, Zenon
    <3> QED
      BY <1>3, <3>2, <3>4
  <2>3. i \in Int
    OBVIOUS
  <2> QED
    BY <2>1, <2>2, <2>3
<1>11. ASSUME NEW x \in 1 .. n, x <= a \/ x > b
       PROVE  \E i \in 1 .. Len(g) : i # a + 1 /\ Was(i, a, b) = x
  <2>0. x \in Int /\ 1 <= x /\ x <= n
    BY <1>1
  <2>1. CASE x <= a
    <3>1. x \in 1 .. a + 1 + (n - b) /\ x # a + 1 /\ Was(x, a, b) = x
      BY <1>1, <2>0, <2>1 DEF Was
    <3> QED
      BY <1>9, <3>1
  <2>2. CASE x > b
    <3>1. x - b + a + 1 \in 1 .. a + 1 + (n - b) /\ x - b + a + 1 # a + 1 /\ Was(x - b + a + 1, a, b) = x
      BY <1>1, <2>0, <2>2 DEF Was
    <3>2. x - b + a + 1 \in 1 .. Len(g)
      BY <1>9, <3>1
    <3> QED
      BY <3>1, <3>2
  <2> QED
    BY <1>11, <2>1, <2>2
<1> QED
  BY <1>9, <1>10, <1>11 DEF n, g, IsSpliced

(* Where the entries of the new store come from. *)
IsExtended(t, s, h, c, b, e) ==
  /\ t \in Seq(Entries) /\ Len(t) = Len(s) + (b - c) + 1
  /\ \A i \in 1 .. Len(s) : t[i] = s[i]
  /\ \A x \in c + 1 .. b : t[Len(s) + (x - c)] = h[x]
  /\ t[Len(t)] = e

(* Extending keeps the store and adds the rest of the range and e. *)
LEMMA NewStore ==
  ASSUME NEW h \in Seq(Entries), NEW s \in Seq(Entries), NEW c \in Nat, NEW b \in Nat,
         c <= b, b <= Len(h), NEW e \in Entries
  PROVE  IsExtended(Extended(s, h, c, b, e), s, h, c, b, e)
<1> DEFINE u == SubSeq(h, c + 1, b)
           t == Extended(s, h, c, b, e)
<1>1. Len(h) \in Nat /\ Len(s) \in Nat /\ \A i \in 1 .. Len(h) : h[i] \in Entries
  BY ElementOfSeq
<1>2. u \in Seq(Entries) /\ Len(u) = b - c /\ \A i \in 1 .. b - c : u[i] = h[c + i]
  <2>1. \A i \in c + 1 .. b : h[i] \in Entries
    BY <1>1
  <2>2. /\ SubSeq(h, c + 1, b) \in Seq(Entries)
        /\ Len(SubSeq(h, c + 1, b)) = IF c + 1 <= b THEN b - (c + 1) + 1 ELSE 0
        /\ \A i \in 1 .. b - (c + 1) + 1 : SubSeq(h, c + 1, b)[i] = h[c + 1 + i - 1]
    BY <2>1, SubSeqProperties
  <2> QED
    BY <2>2
<1> HIDE DEF u, t
<1>3. /\ s \o u \in Seq(Entries) /\ Len(s \o u) = Len(s) + Len(u)
      /\ \A i \in 1 .. Len(s) + Len(u) : (s \o u)[i] = IF i <= Len(s) THEN s[i] ELSE u[i - Len(s)]
  BY <1>2, ConcatProperties, Zenon
<1> DEFINE w == s \o u
<1> HIDE DEF w
<1>4. w \in Seq(Entries) /\ Len(w) = Len(s) + (b - c)
  BY <1>2, <1>3 DEF w
<1>5. \A i \in 1 .. Len(s) : w[i] = s[i]
  BY <1>1, <1>2, <1>3 DEF w
<1>6. ASSUME NEW x \in c + 1 .. b PROVE w[Len(s) + (x - c)] = h[x]
  <2>1. /\ Len(s) + (x - c) \in 1 .. Len(s) + Len(u) /\ ~(Len(s) + (x - c) <= Len(s))
        /\ Len(s) + (x - c) - Len(s) = x - c /\ x - c \in 1 .. b - c /\ c + (x - c) = x
    BY <1>1, <1>2
  <2> QED
    BY <1>2, <1>3, <2>1 DEF w
<1>7. t = Append(w, e)
  BY DEF w, u, t, Extended
<1>8. t \in Seq(Entries) /\ Len(t) = Len(w) + 1 /\ t[Len(w) + 1] = e /\ \A i \in 1 .. Len(w) : t[i] = w[i]
  <2>1. w \in Seq(Entries)
    BY <1>4
  <2>2. /\ Append(w, e) \in Seq(Entries) /\ Len(Append(w, e)) = Len(w) + 1
        /\ \A i \in 1 .. Len(w) : Append(w, e)[i] = w[i]
        /\ Append(w, e)[Len(w) + 1] = e
    BY <2>1, AppendProperties
  <2> QED
    BY <1>7, <2>2
<1>9. \A x \in c + 1 .. b : Len(s) + (x - c) \in 1 .. Len(w)
  BY <1>1, <1>4
<1>10. \A i \in 1 .. Len(s) : i \in 1 .. Len(w)
  BY <1>1, <1>4
<1> QED
  BY <1>4, <1>5, <1>6, <1>8, <1>9, <1>10 DEF t, IsExtended

(* One summary of a record in order. *)
Summarised(h, s, p, a, b, c, e, g, t, q) ==
  Ordered(h, s, p) /\ Cuts(h, a, b) /\ Replaces(h, s, p, a, b, c, e, g, t, q)

(* How the numbers of a summary lie: a <= c <= b, and q behind the summary. *)
LEMMA CutNumbers ==
  ASSUME NEW h, NEW s, NEW p, NEW a, NEW b, NEW c, NEW e, NEW g, NEW t, NEW q,
         Summarised(h, s, p, a, b, c, e, g, t, q)
  PROVE  /\ h \in Seq(Entries) /\ s \in Seq(Entries) /\ p \in Nat /\ p <= Len(h)
         /\ Len(h) \in Nat /\ Len(s) \in Nat
         /\ a \in Nat /\ b \in Nat /\ a < b /\ b <= Len(h) /\ b \in 1 .. Len(h)
         /\ e \in Entries /\ e.kind = "summary" /\ e.id = h[b].id
         /\ c \in Nat /\ a <= c /\ c <= b /\ (p <= b => p <= c)
         /\ \A x \in Nat : x > a /\ x > p /\ x <= b => x > c
         /\ q \in Nat /\ a + 1 <= q /\ q <= a + 1 + (Len(h) - b)
         /\ q > a + 1 => p > b /\ q = p - b + a
         /\ KeepHead \in Nat /\ KeepTail \in Nat
<1>1. h \in Seq(Entries) /\ s \in Seq(Entries) /\ p \in Nat /\ p <= Len(h) /\ Len(h) \in Nat /\ Len(s) \in Nat
  BY DEF Summarised, Ordered
<1>2. a \in Nat /\ b \in Nat /\ a < b /\ b <= Len(h) /\ b \in 1 .. Len(h)
  BY <1>1 DEF Summarised, Cuts
<1>3. h[b] \in Entries
  BY <1>1, <1>2, ElementOfSeq
<1>4. e \in Entries /\ e.kind = "summary" /\ e.id = h[b].id
  BY <1>3 DEF Summarised, Replaces, Entry, Entries, Kinds
<1>5. c = Larger(a, Smaller(p, b)) /\ q = Larger(IF p > a THEN p - (Smaller(p, b) - a) ELSE p, a + 1)
  BY DEF Summarised, Replaces
<1>6. c \in Nat /\ a <= c /\ c <= b /\ (p <= b => p <= c)
      /\ \A x \in Nat : x > a /\ x > p /\ x <= b => x > c
  BY <1>1, <1>2, <1>5 DEF Larger, Smaller
<1>7. /\ q \in Nat /\ a + 1 <= q /\ q <= a + 1 + (Len(h) - b)
      /\ q > a + 1 => p > b /\ q = p - b + a
  BY <1>1, <1>2, <1>5 DEF Larger, Smaller
<1> QED
  BY <1>1, <1>2, <1>4, <1>6, <1>7, NumberAssumption

(* Where the entries of the summarised history come from. *)
LEMMA CutHistory ==
  ASSUME NEW h, NEW s, NEW p, NEW a, NEW b, NEW c, NEW e, NEW g, NEW t, NEW q,
         Summarised(h, s, p, a, b, c, e, g, t, q)
  PROVE  /\ g \in Seq(Entries) /\ Len(g) \in Nat /\ Len(g) = a + 1 + (Len(h) - b)
         /\ g[a + 1] = e
         /\ \A i \in 1 .. Len(g) : i # a + 1 =>
              Was(i, a, b) \in 1 .. Len(h) /\ g[i] = h[Was(i, a, b)]
         /\ \A x \in 1 .. Len(h) : x <= a \/ x > b =>
              \E i \in 1 .. Len(g) : i # a + 1 /\ Was(i, a, b) = x
         /\ \A i \in 1 .. Len(g) : i <= a => Was(i, a, b) = i
         /\ \A i \in 1 .. Len(g) : i > a + 1 => Was(i, a, b) > b /\ Was(i, a, b) = i - (a + 1) + b
<1>1. /\ h \in Seq(Entries) /\ a \in Nat /\ b \in Nat /\ a < b /\ b <= Len(h) /\ e \in Entries
      /\ Len(h) \in Nat
  BY CutNumbers
<1>2. g = Spliced(h, a, b, e)
  BY DEF Summarised, Replaces
<1>3. /\ g \in Seq(Entries) /\ Len(g) = a + 1 + (Len(h) - b)
      /\ g[a + 1] = e
      /\ \A i \in 1 .. Len(g) : i # a + 1 =>
           Was(i, a, b) \in 1 .. Len(h) /\ g[i] = h[Was(i, a, b)]
      /\ \A x \in 1 .. Len(h) : x <= a \/ x > b =>
           \E i \in 1 .. Len(g) : i # a + 1 /\ Was(i, a, b) = x
  <2>1. IsSpliced(g, h, a, b, e)
    BY <1>1, <1>2, NewHistory
  <2> QED
    BY <2>1 DEF IsSpliced
<1>4. \A i \in Int : i <= a => Was(i, a, b) = i
  BY <1>1 DEF Was
<1>5. \A i \in Int : i > a + 1 => Was(i, a, b) > b /\ Was(i, a, b) = i - (a + 1) + b
  BY <1>1 DEF Was
<1>6. Len(g) \in Nat
  BY <1>3
<1>7. \A i \in 1 .. Len(g) : i \in Int
  OBVIOUS
<1> QED
  BY <1>3, <1>4, <1>5, <1>6, <1>7, Zenon

(* Where the entries of the store come from after a summary. *)
LEMMA CutStore ==
  ASSUME NEW h, NEW s, NEW p, NEW a, NEW b, NEW c, NEW e, NEW g, NEW t, NEW q,
         Summarised(h, s, p, a, b, c, e, g, t, q)
  PROVE  /\ t \in Seq(Entries) /\ Len(t) = Len(s) + (b - c) + 1
         /\ \A i \in 1 .. Len(s) : i \in 1 .. Len(t) /\ t[i] = s[i]
         /\ \A x \in c + 1 .. b : Len(s) + (x - c) \in 1 .. Len(t) /\ t[Len(s) + (x - c)] = h[x]
         /\ Len(t) \in 1 .. Len(t) /\ t[Len(t)] = e
         /\ \A i \in 1 .. Len(t) : \/ i \in 1 .. Len(s)
                                   \/ i - Len(s) + c \in c + 1 .. b /\ t[i] = h[i - Len(s) + c]
                                   \/ i = Len(t)
         /\ \A d : Holds(s, d) => Holds(t, d)
         /\ \A x \in c + 1 .. b : Holds(t, h[x])
         /\ Holds(t, e)
<1>1. /\ h \in Seq(Entries) /\ s \in Seq(Entries) /\ c \in Nat /\ b \in Nat /\ c <= b /\ b <= Len(h)
      /\ e \in Entries /\ Len(h) \in Nat /\ Len(s) \in Nat
  BY CutNumbers
<1>2. t = Extended(s, h, c, b, e)
  BY DEF Summarised, Replaces
<1>3. /\ t \in Seq(Entries) /\ Len(t) = Len(s) + (b - c) + 1
      /\ \A i \in 1 .. Len(s) : t[i] = s[i]
      /\ \A x \in c + 1 .. b : t[Len(s) + (x - c)] = h[x]
      /\ t[Len(t)] = e
  <2>1. IsExtended(t, s, h, c, b, e)
    BY <1>1, <1>2, NewStore
  <2> QED
    BY <2>1 DEF IsExtended
<1> DEFINE m == Len(s) + (b - c) + 1
<1>4. m \in Nat /\ m \in 1 .. m /\ (\A i \in 1 .. Len(s) : i \in 1 .. m)
      /\ \A x \in c + 1 .. b : Len(s) + (x - c) \in 1 .. m
  BY <1>1
<1>5. ASSUME NEW i \in 1 .. m
      PROVE  \/ i \in 1 .. Len(s)
             \/ i - Len(s) + c \in c + 1 .. b /\ Len(s) + ((i - Len(s) + c) - c) = i
             \/ i = m
  BY <1>1
<1> HIDE DEF m
<1>6. Len(t) = m
  BY <1>3 DEF m
<1>7. \A i \in 1 .. Len(t) : \/ i \in 1 .. Len(s)
                             \/ i - Len(s) + c \in c + 1 .. b /\ t[i] = h[i - Len(s) + c]
                             \/ i = Len(t)
  <2> TAKE i \in 1 .. Len(t)
  <2>1. CASE i - Len(s) + c \in c + 1 .. b /\ Len(s) + ((i - Len(s) + c) - c) = i
    <3>1. t[Len(s) + ((i - Len(s) + c) - c)] = h[i - Len(s) + c]
      <4>1. \A x \in c + 1 .. b : t[Len(s) + (x - c)] = h[x]
        BY <1>3
      <4> QED
        BY <2>1, <4>1, Zenon
    <3> QED
      BY <2>1, <3>1
  <2>2. i \in 1 .. m
    BY <1>6, Zenon
  <2> QED
    BY <1>5, <1>6, <2>1, <2>2, Zenon
<1>8. \A d : Holds(s, d) => Holds(t, d)
  <2>1. \A i \in 1 .. Len(s) : i \in 1 .. Len(t) /\ t[i] = s[i]
    BY <1>3, <1>4, <1>6, Zenon
  <2> QED
    BY <1>1, <1>3, <2>1, HoldsIn
<1>9. \A x \in c + 1 .. b : Holds(t, h[x])
  <2> TAKE x \in c + 1 .. b
  <2>1. Len(s) + (x - c) \in 1 .. Len(t) /\ t[Len(s) + (x - c)] = h[x]
    BY <1>3, <1>4, <1>6, Zenon
  <2> QED
    BY <1>3, <2>1, HoldsIn, SameMeans
<1>10. Holds(t, e)
  BY <1>3, <1>4, <1>6, HoldsIn, SameIsEquivalence, Zenon
<1> QED
  BY <1>3, <1>4, <1>6, <1>7, <1>8, <1>9, <1>10, Zenon DEF m

(* Behind the head there is no summary, and of the last turn that is *)
(* replaced nothing stays.                                           *)
LEMMA CutIsNew ==
  ASSUME NEW h, NEW s, NEW p, NEW a, NEW b, NEW c, NEW e, NEW g, NEW t, NEW q,
         Summarised(h, s, p, a, b, c, e, g, t, q)
  PROVE  /\ \A x \in 1 .. Len(h) : x > a => h[x].kind # "summary" /\ TurnsUpTo(h, x) > KeepHead
         /\ \A x \in 1 .. Len(h) : x > a => h[x] # e /\ ~Same(h[x], e) /\ ~Same(e, h[x])
         /\ \A x, y \in 1 .. Len(h) : (x <= a \/ x > b) /\ a < y /\ y <= b => h[x].id # h[y].id
         /\ \A i \in 1 .. Len(g) : i # a + 1 => g[i].id # e.id
         /\ \A i \in 1 .. Len(s) : s[i].kind = "summary" => s[i].id # e.id
         /\ TurnsUpTo(g, a) = KeepHead /\ TurnsUpTo(g, a + 1) = KeepHead
         /\ KeepTail # 0 /\ Len(g) > a + 1 => a + 2 \in UserTurns(g)
         /\ KeepTail = 0 => Len(g) = a + 1
<1>1. /\ h \in Seq(Entries) /\ s \in Seq(Entries) /\ Len(h) \in Nat
      /\ a \in Nat /\ b \in Nat /\ a < b /\ b <= Len(h) /\ b \in 1 .. Len(h)
      /\ e.kind = "summary" /\ e.id = h[b].id /\ KeepHead \in Nat
  BY CutNumbers
<1>2. a + 1 \in UserTurns(h) /\ TurnsUpTo(h, a) = KeepHead
      /\ (KeepTail = 0 => b = Len(h)) /\ (KeepTail # 0 => b + 1 \in UserTurns(h))
  BY DEF Summarised, Cuts
<1>3. ASSUME NEW x \in 1 .. Len(h), x > a PROVE h[x].kind # "summary" /\ TurnsUpTo(h, x) > KeepHead
  <2>1. x \in Int /\ a \in Int /\ a < a + 1 /\ a + 1 <= x
    BY <1>1, <1>3
  <2>2. TurnsUpTo(h, a) < TurnsUpTo(h, x) /\ TurnsUpTo(h, x) \in Nat
    BY <1>1, <1>2, <2>1, TurnsBetween, TurnSets
  <2> QED
    BY <1>1, <1>2, <2>2 DEF Summarised, Ordered, SummariesFirst
<1>4. \A x \in 1 .. Len(h) : x > a => h[x] # e /\ ~Same(h[x], e) /\ ~Same(e, h[x])
  BY <1>1, <1>3, SameMeans
<1>5. ASSUME NEW x \in 1 .. Len(h), NEW y \in 1 .. Len(h), x <= a \/ x > b, a < y, y <= b
      PROVE  h[x].id # h[y].id
  <2>1. Apart(h)
    BY DEF Summarised, Ordered
  <2>2. CASE x <= a
    <3>1. x < a + 1 /\ a + 1 <= y
      BY <1>1, <1>5, <2>2
    <3> QED
      BY <1>2, <2>1, <3>1, Zenon DEF Apart
  <2>3. CASE x > b
    <3>1. b + 1 \in UserTurns(h)
      BY <1>1, <1>2, <2>3
    <3>2. y < b + 1 /\ b + 1 <= x
      BY <1>1, <1>5, <2>3
    <3> QED
      BY <2>1, <3>1, <3>2, Zenon DEF Apart
  <2> QED
    BY <1>5, <2>2, <2>3
<1>6. /\ g \in Seq(Entries) /\ Len(g) \in Nat /\ Len(g) = a + 1 + (Len(h) - b) /\ g[a + 1] = e
      /\ \A i \in 1 .. Len(g) : i # a + 1 =>
           Was(i, a, b) \in 1 .. Len(h) /\ g[i] = h[Was(i, a, b)]
  BY CutHistory
<1>7. /\ \A i \in 1 .. Len(g) : i <= a => Was(i, a, b) = i
      /\ \A i \in 1 .. Len(g) : i > a + 1 => Was(i, a, b) > b /\ Was(i, a, b) = i - (a + 1) + b
  BY CutHistory
<1>8. ASSUME NEW i \in 1 .. Len(g), i # a + 1 PROVE g[i].id # e.id
  <2>1. Was(i, a, b) \in 1 .. Len(h) /\ g[i] = h[Was(i, a, b)]
    BY <1>6, <1>8
  <2>2. Was(i, a, b) <= a \/ Was(i, a, b) > b
    BY <1>1, <1>7, <1>8
  <2> QED
    BY <1>1, <1>5, <2>1, <2>2
<1>9. ASSUME NEW i \in 1 .. Len(s), s[i].kind = "summary" PROVE s[i].id # e.id
  <2>1. Replaced(h, s)
    BY DEF Summarised, Ordered
  <2> QED
    BY <1>1, <1>3, <1>9, <2>1 DEF Replaced
<1>10. TurnsUpTo(g, a) = KeepHead /\ TurnsUpTo(g, a + 1) = KeepHead
  <2>1. ASSUME NEW i \in 1 .. a PROVE g[i] = h[i]
    <3>1. i \in 1 .. Len(g) /\ i # a + 1 /\ i <= a
      BY <1>1, <1>6, <2>1
    <3> QED
      BY <1>6, <1>7, <3>1
  <2>2. a \in Int /\ a <= Len(h) /\ a <= Len(g) /\ a <= a
    BY <1>1, <1>6
  <2>3. TurnsUpTo(g, a) = TurnsUpTo(h, a)
    BY <1>1, <1>6, <2>1, <2>2, FrontTurns
  <2>4. a + 1 \notin UserTurns(g)
    BY <1>1, <1>6, TurnIn
  <2>5. TurnsUpTo(g, a + 1) = TurnsUpTo(g, a)
    BY <1>1, <1>6, <2>4, NextTurn
  <2> QED
    BY <1>2, <2>3, <2>5
<1>11. ASSUME KeepTail # 0, Len(g) > a + 1 PROVE a + 2 \in UserTurns(g)
  <2>1. a + 2 \in 1 .. Len(g) /\ a + 2 # a + 1 /\ a + 2 > a + 1
    BY <1>1, <1>6, <1>11
  <2>2. Was(a + 2, a, b) = b + 1
    BY <1>1, <1>7, <2>1
  <2>3. g[a + 2] = h[b + 1]
    BY <1>6, <2>1, <2>2
  <2>4. h[b + 1].kind = "user"
    BY <1>1, <1>2, <1>11, TurnIn
  <2> QED
    BY <1>6, <2>1, <2>3, <2>4, TurnIn, Zenon
<1>12. ASSUME KeepTail = 0 PROVE Len(g) = a + 1
  <2>1. a + 1 + (Len(h) - b) = a + 1
    BY <1>1, <1>2, <1>12
  <2> QED
    BY <1>6, <2>1, Zenon
<1> QED
  BY <1>3, <1>4, <1>5, <1>8, <1>9, <1>10, <1>11, <1>12

(* The entries that stay keep their order, and turns stay turns. *)
LEMMA CutOrder ==
  ASSUME NEW h, NEW s, NEW p, NEW a, NEW b, NEW c, NEW e, NEW g, NEW t, NEW q,
         Summarised(h, s, p, a, b, c, e, g, t, q)
  PROVE  /\ \A i, j \in 1 .. Len(g) : i < j /\ i # a + 1 /\ j # a + 1 => Was(i, a, b) < Was(j, a, b)
         /\ \A i, j \in 1 .. Len(g) : i # a + 1 /\ j # a + 1 /\ Was(i, a, b) = Was(j, a, b) => i = j
         /\ \A u \in UserTurns(g) :
              u \in 1 .. Len(g) /\ u # a + 1 /\ Was(u, a, b) \in UserTurns(h)
<1>1. a \in Nat /\ b \in Nat /\ a < b /\ h \in Seq(Entries) /\ e.kind = "summary"
  BY CutNumbers
<1>2. /\ g \in Seq(Entries) /\ Len(g) \in Nat /\ g[a + 1] = e
      /\ \A i \in 1 .. Len(g) : i # a + 1 =>
           Was(i, a, b) \in 1 .. Len(h) /\ g[i] = h[Was(i, a, b)]
  BY CutHistory
<1>3. \A i, j \in Int : i < j /\ i # a + 1 /\ j # a + 1 => Was(i, a, b) < Was(j, a, b)
  BY <1>1 DEF Was
<1>4. \A i, j \in Int : i # a + 1 /\ j # a + 1 /\ Was(i, a, b) = Was(j, a, b) => i = j
  BY <1>1 DEF Was
<1>5. \A u \in UserTurns(g) : u \in 1 .. Len(g) /\ u # a + 1 /\ Was(u, a, b) \in UserTurns(h)
  BY <1>1, <1>2, TurnIn
<1>6. \A i \in 1 .. Len(g) : i \in Int
  OBVIOUS
<1> QED
  BY <1>3, <1>4, <1>5, <1>6, Zenon

(* No turn is scattered by a summary: the range consists of whole turns. *)
LEMMA CutApart ==
  ASSUME NEW h, NEW s, NEW p, NEW a, NEW b, NEW c, NEW e, NEW g, NEW t, NEW q,
         Summarised(h, s, p, a, b, c, e, g, t, q)
  PROVE  Apart(g)
<1> SUFFICES ASSUME NEW i \in 1 .. Len(g), NEW j \in 1 .. Len(g), NEW u \in UserTurns(g), i < u, u <= j
             PROVE  g[i].id # g[j].id
  BY DEF Apart
<1>1. a \in Nat /\ b \in Nat /\ a < b /\ b \in 1 .. Len(h) /\ e.id = h[b].id /\ Apart(h)
  BY CutNumbers DEF Summarised, Ordered
<1>2. /\ Len(g) \in Nat /\ g[a + 1] = e
      /\ \A x \in 1 .. Len(g) : x # a + 1 =>
           Was(x, a, b) \in 1 .. Len(h) /\ g[x] = h[Was(x, a, b)]
  BY CutHistory
<1>3. u \in 1 .. Len(g) /\ u # a + 1 /\ Was(u, a, b) \in UserTurns(h)
  BY CutOrder
<1>4. \A x \in 1 .. Len(g) : x # a + 1 => g[x].id # e.id
  BY CutIsNew
<1>5. CASE i = a + 1 \/ j = a + 1
  <2>1. i < j
    BY <1>2, <1>3
  <2> QED
    BY <1>2, <1>4, <1>5, <2>1
<1>6. CASE i # a + 1 /\ j # a + 1
  <2>1. Was(i, a, b) < Was(u, a, b)
    BY <1>3, <1>6, CutOrder, Zenon
  <2>2. Was(u, a, b) < Was(j, a, b) \/ u = j
    <3>1. u < j \/ u = j
      BY <1>2, <1>3
    <3> QED
      BY <1>3, <1>6, <3>1, CutOrder, Zenon
  <2>3. Was(i, a, b) \in 1 .. Len(h) /\ Was(j, a, b) \in 1 .. Len(h) /\ Was(u, a, b) \in 1 .. Len(h)
    BY <1>2, <1>3, <1>6
  <2>4. Was(u, a, b) <= Was(j, a, b)
    BY <2>2, <2>3
  <2>5. h[Was(i, a, b)].id # h[Was(j, a, b)].id
    BY <1>1, <1>3, <2>1, <2>3, <2>4, Zenon DEF Apart
  <2> QED
    BY <1>2, <1>6, <2>5
<1> QED
  BY <1>5, <1>6

(* The summary joins the others behind the head. *)
LEMMA CutSummaries ==
  ASSUME NEW h, NEW s, NEW p, NEW a, NEW b, NEW c, NEW e, NEW g, NEW t, NEW q,
         Summarised(h, s, p, a, b, c, e, g, t, q)
  PROVE  SummariesFirst(g)
<1> SUFFICES ASSUME NEW i \in 1 .. Len(g), g[i].kind = "summary"
             PROVE  TurnsUpTo(g, i) <= KeepHead
  BY DEF SummariesFirst
<1>1. a \in Nat /\ b \in Nat /\ a < b /\ KeepHead \in Nat /\ h \in Seq(Entries)
  BY CutNumbers
<1>2. /\ Len(g) \in Nat /\ g \in Seq(Entries)
      /\ \A x \in 1 .. Len(g) : x # a + 1 =>
           Was(x, a, b) \in 1 .. Len(h) /\ g[x] = h[Was(x, a, b)]
  BY CutHistory
<1>3. \A x \in 1 .. Len(g) : x > a + 1 => Was(x, a, b) > b
  BY CutHistory
<1>4. i <= a + 1
  <2> SUFFICES ASSUME i > a + 1 PROVE FALSE
    BY <1>1
  <2>1. Was(i, a, b) \in 1 .. Len(h) /\ Was(i, a, b) > a /\ h[Was(i, a, b)].kind = "summary"
    BY <1>1, <1>2, <1>3
  <2> QED
    BY <2>1, CutIsNew
<1>5. i \in Int /\ a + 1 \in Int
  BY <1>1
<1>6. TurnsUpTo(g, i) <= TurnsUpTo(g, a + 1)
  BY <1>2, <1>4, <1>5, TurnsGrow
<1>7. TurnsUpTo(g, a + 1) = KeepHead
  BY CutIsNew
<1> QED
  BY <1>6, <1>7

(* A summary brings no entry twice into the history. *)
LEMMA CutUnlike ==
  ASSUME NEW h, NEW s, NEW p, NEW a, NEW b, NEW c, NEW e, NEW g, NEW t, NEW q,
         Summarised(h, s, p, a, b, c, e, g, t, q)
  PROVE  Unlike(g)
<1> SUFFICES ASSUME NEW i \in 1 .. Len(g), NEW j \in 1 .. Len(g), Same(g[i], g[j])
             PROVE  i = j
  BY DEF Unlike
<1>1. /\ g[a + 1] = e
      /\ \A x \in 1 .. Len(g) : x # a + 1 =>
           Was(x, a, b) \in 1 .. Len(h) /\ g[x] = h[Was(x, a, b)]
  BY CutHistory
<1>2. \A x \in 1 .. Len(g) : x # a + 1 => g[x].id # e.id
  BY CutIsNew
<1>3. g[i].id = g[j].id
  BY SameMeans
<1>4. CASE i # a + 1 /\ j # a + 1
  <2>1. Was(i, a, b) = Was(j, a, b)
    BY <1>1, <1>4 DEF Summarised, Ordered, Unlike
  <2> QED
    BY <1>4, <2>1, CutOrder, Zenon
<1> QED
  BY <1>1, <1>2, <1>3, <1>4

(* The turns a summary replaces leave the history. *)
LEMMA CutReplaced ==
  ASSUME NEW h, NEW s, NEW p, NEW a, NEW b, NEW c, NEW e, NEW g, NEW t, NEW q,
         Summarised(h, s, p, a, b, c, e, g, t, q)
  PROVE  Replaced(g, t)
<1> SUFFICES ASSUME NEW i \in 1 .. Len(g), NEW k \in 1 .. Len(t), t[k].kind = "summary", t[k].id = g[i].id
             PROVE  g[i].kind = "summary"
  BY DEF Replaced
<1>1. /\ g[a + 1] = e
      /\ \A x \in 1 .. Len(g) : x # a + 1 =>
           Was(x, a, b) \in 1 .. Len(h) /\ g[x] = h[Was(x, a, b)]
  BY CutHistory
<1>2. /\ e.kind = "summary" /\ a \in Nat /\ c \in Nat /\ a <= c /\ b \in Nat /\ b <= Len(h)
      /\ Len(h) \in Nat
  BY CutNumbers
<1>3. /\ \A x \in 1 .. Len(s) : t[x] = s[x]
      /\ t[Len(t)] = e
      /\ \/ k \in 1 .. Len(s)
         \/ k - Len(s) + c \in c + 1 .. b /\ t[k] = h[k - Len(s) + c]
         \/ k = Len(t)
  BY CutStore
<1>4. CASE i = a + 1
  BY <1>1, <1>2, <1>4
<1>5. CASE i # a + 1 /\ k \in 1 .. Len(s)
  BY <1>1, <1>3, <1>5 DEF Summarised, Ordered, Replaced
<1>6. CASE i # a + 1 /\ k - Len(s) + c \in c + 1 .. b /\ t[k] = h[k - Len(s) + c]
  <2>1. k - Len(s) + c \in 1 .. Len(h) /\ k - Len(s) + c > a
    BY <1>2, <1>6
  <2> QED
    BY <1>6, <2>1, CutIsNew
<1>7. CASE i # a + 1 /\ k = Len(t)
  BY <1>3, <1>7, CutIsNew
<1> QED
  BY <1>3, <1>4, <1>5, <1>6, <1>7

(* What the new history and the new store hold was in the old ones. *)
LEMMA CutHolds ==
  ASSUME NEW h, NEW s, NEW p, NEW a, NEW b, NEW c, NEW e, NEW g, NEW t, NEW q,
         Summarised(h, s, p, a, b, c, e, g, t, q),
         NEW k, NEW m, k # "summary"
  PROVE  /\ Holds(t, Entry(k, m)) => Holds(h \o s, Entry(k, m))
         /\ Holds(g, Entry(k, m)) => Holds(h, Entry(k, m))
<1>1. /\ g \in Seq(Entries) /\ g[a + 1] = e
      /\ \A x \in 1 .. Len(g) : x # a + 1 =>
           Was(x, a, b) \in 1 .. Len(h) /\ g[x] = h[Was(x, a, b)]
  BY CutHistory
<1>2. /\ h \in Seq(Entries) /\ s \in Seq(Entries)
      /\ e.kind = "summary" /\ a \in Nat /\ c \in Nat /\ a <= c /\ b \in Nat /\ b <= Len(h)
      /\ Len(h) \in Nat
  BY CutNumbers
<1>3. /\ t \in Seq(Entries)
      /\ \A x \in 1 .. Len(s) : t[x] = s[x]
      /\ t[Len(t)] = e
      /\ \A i \in 1 .. Len(t) : \/ i \in 1 .. Len(s)
                                \/ i - Len(s) + c \in c + 1 .. b /\ t[i] = h[i - Len(s) + c]
                                \/ i = Len(t)
  BY CutStore
<1>4. ~Same(Entry(k, m), e)
  BY <1>2, SameMeans DEF Entry
<1>5. ASSUME Holds(t, Entry(k, m)) PROVE Holds(h \o s, Entry(k, m))
  <2>1. PICK i \in 1 .. Len(t) : Same(Entry(k, m), t[i])
    BY <1>3, <1>5, HoldsIn
  <2>2. CASE i \in 1 .. Len(s)
    BY <1>2, <1>3, <2>1, <2>2, HoldsIn, HoldsEither
  <2>3. CASE i - Len(s) + c \in c + 1 .. b /\ t[i] = h[i - Len(s) + c]
    <3>1. i - Len(s) + c \in 1 .. Len(h)
      BY <1>2, <2>3
    <3> QED
      BY <1>2, <2>1, <2>3, <3>1, HoldsIn, HoldsEither
  <2> QED
    BY <1>3, <1>4, <2>1, <2>2, <2>3
<1>6. ASSUME Holds(g, Entry(k, m)) PROVE Holds(h, Entry(k, m))
  BY <1>1, <1>2, <1>4, <1>6, HoldsIn
<1> QED
  BY <1>5, <1>6

(* A summary takes a call and its result, or neither. *)
LEMMA CutPaired ==
  ASSUME NEW h, NEW s, NEW p, NEW a, NEW b, NEW c, NEW e, NEW g, NEW t, NEW q,
         Summarised(h, s, p, a, b, c, e, g, t, q)
  PROVE  Paired(g, t)
<1> SUFFICES ASSUME NEW m \in Ids, Holds(g \o t, Entry("result", m))
             PROVE  Holds(g, Entry("use", m)) <=> Holds(g, Entry("result", m))
  BY DEF Paired
<1>1. /\ g \in Seq(Entries) /\ g[a + 1] = e
      /\ \A x \in 1 .. Len(g) : x # a + 1 =>
           Was(x, a, b) \in 1 .. Len(h) /\ g[x] = h[Was(x, a, b)]
  BY CutHistory
<1>2. /\ \A x \in 1 .. Len(h) : x <= a \/ x > b =>
           \E i \in 1 .. Len(g) : i # a + 1 /\ Was(i, a, b) = x
      /\ \A i \in 1 .. Len(g) : i <= a => Was(i, a, b) = i
      /\ \A i \in 1 .. Len(g) : i > a + 1 => Was(i, a, b) > b
  BY CutHistory
<1>3. /\ h \in Seq(Entries) /\ s \in Seq(Entries) /\ a \in Nat /\ b \in Nat /\ e.kind = "summary"
      /\ Len(h) \in Nat
  BY CutNumbers
<1>4. t \in Seq(Entries)
  BY CutStore
<1>5. Holds(h \o s, Entry("result", m))
  <2>1. Holds(g, Entry("result", m)) \/ Holds(t, Entry("result", m))
    BY <1>1, <1>4, HoldsEither
  <2> QED
    BY <1>3, <2>1, CutHolds, HoldsEither
<1>6. Holds(h, Entry("use", m)) <=> Holds(h, Entry("result", m))
  BY <1>5 DEF Summarised, Ordered, Paired
<1>7. ASSUME NEW k \in {"use", "result"}, NEW l \in {"use", "result"}, Holds(g, Entry(k, m))
      PROVE  Holds(g, Entry(l, m))
  <2>1. PICK i \in 1 .. Len(g) : Same(Entry(k, m), g[i])
    BY <1>1, <1>7, HoldsIn
  <2>2. i # a + 1 /\ g[i].id = m
    BY <1>1, <1>3, <2>1, SameMeans DEF Entry
  <2>3. Holds(h, Entry(l, m))
    BY <1>6, <1>7, CutHolds
  <2>4. PICK y \in 1 .. Len(h) : Same(Entry(l, m), h[y])
    BY <1>3, <2>3, HoldsIn
  <2>5. h[y].id = m /\ h[Was(i, a, b)].id = m /\ Was(i, a, b) \in 1 .. Len(h)
    BY <1>1, <2>2, <2>4, SameMeans DEF Entry
  <2>6. Was(i, a, b) <= a \/ Was(i, a, b) > b
    BY <1>2, <1>3, <2>2
  <2>7. y <= a \/ y > b
    <3>1. \A x, z \in 1 .. Len(h) : (x <= a \/ x > b) /\ a < z /\ z <= b => h[x].id # h[z].id
      BY CutIsNew
    <3> QED
      BY <1>3, <2>5, <2>6, <3>1
  <2>8. PICK j \in 1 .. Len(g) : j # a + 1 /\ Was(j, a, b) = y
    BY <1>2, <2>7
  <2>9. g[j] = h[y]
    BY <1>1, <2>8
  <2> QED
    BY <1>1, <2>4, <2>9, HoldsIn
<1> QED
  BY <1>7

(* The prefix of the new history is stored, and nothing is lost. *)
LEMMA CutStored ==
  ASSUME NEW h, NEW s, NEW p, NEW a, NEW b, NEW c, NEW e, NEW g, NEW t, NEW q,
         Summarised(h, s, p, a, b, c, e, g, t, q), Stored(h, s, p)
  PROVE  /\ Stored(g, t, q)
         /\ \A x \in 1 .. Len(h) : Holds(g, h[x]) \/ Holds(t, h[x])
         /\ KeepHead <= Cardinality(UserTurns(g))
<1>1. /\ h \in Seq(Entries) /\ s \in Seq(Entries) /\ p \in Nat /\ p <= Len(h)
      /\ Len(h) \in Nat /\ a \in Nat /\ b \in Nat /\ a < b /\ b <= Len(h)
      /\ c \in Nat /\ q \in Nat /\ a + 1 <= q /\ KeepHead \in Nat /\ KeepTail \in Nat
  BY CutNumbers
<1>2. /\ q > a + 1 => p > b /\ q = p - b + a
      /\ \A x \in Nat : x > a /\ x > p /\ x <= b => x > c
  BY CutNumbers
<1>3. /\ g \in Seq(Entries) /\ Len(g) \in Nat /\ g[a + 1] = e
      /\ \A x \in 1 .. Len(g) : x # a + 1 =>
           Was(x, a, b) \in 1 .. Len(h) /\ g[x] = h[Was(x, a, b)]
      /\ \A x \in 1 .. Len(h) : x <= a \/ x > b =>
           \E i \in 1 .. Len(g) : i # a + 1 /\ Was(i, a, b) = x
  BY CutHistory
<1>4. /\ \A i \in 1 .. Len(g) : i <= a => Was(i, a, b) = i
      /\ \A i \in 1 .. Len(g) : i > a + 1 => Was(i, a, b) > b /\ Was(i, a, b) = i - (a + 1) + b
      /\ Len(g) = a + 1 + (Len(h) - b)
  BY CutHistory
<1>5. /\ t \in Seq(Entries)
      /\ \A d : Holds(s, d) => Holds(t, d)
      /\ \A x \in c + 1 .. b : Holds(t, h[x])
      /\ Holds(t, e)
  BY CutStore
<1>6. /\ TurnsUpTo(g, a) = KeepHead /\ TurnsUpTo(g, a + 1) = KeepHead
      /\ KeepTail # 0 /\ Len(g) > a + 1 => a + 2 \in UserTurns(g)
      /\ KeepTail = 0 => Len(g) = a + 1
  BY CutIsNew
<1>7. /\ \A i \in 1 .. Len(h) : i <= p => Holds(s, h[i])
      /\ \A i \in 1 .. Len(h) : i > p => TurnsUpTo(h, i) > KeepHead
  BY DEF Stored
<1>8. \A i \in 1 .. Len(h) : i <= a => i <= p
  <2> SUFFICES ASSUME NEW i \in 1 .. Len(h), i <= a, i > p PROVE FALSE
    BY <1>1
  <2>1. TurnsUpTo(h, i) > KeepHead
    BY <1>7
  <2>2. TurnsUpTo(h, i) <= TurnsUpTo(h, a)
    BY <1>1, TurnsGrow
  <2>3. TurnsUpTo(h, a) = KeepHead
    BY DEF Summarised, Cuts
  <2>4. TurnsUpTo(h, i) \in Nat
    <3>1. i \in Int
      BY <1>1
    <3> QED
      BY <1>1, <3>1, TurnSets, Zenon
  <2> QED
    BY <1>1, <2>1, <2>2, <2>3, <2>4
<1>9. ASSUME NEW i \in 1 .. Len(g), i <= q PROVE Holds(t, g[i])
  <2>1. CASE i = a + 1
    BY <1>3, <1>5, <2>1
  <2>2. CASE i <= a
    <3>1. i # a + 1 /\ Was(i, a, b) = i
      BY <1>1, <1>4, <2>2
    <3>2. i \in 1 .. Len(h) /\ g[i] = h[i]
      BY <1>3, <3>1
    <3>3. Holds(s, h[i])
      BY <1>7, <1>8, <2>2, <3>2
    <3> QED
      BY <1>5, <3>2, <3>3
  <2>3. CASE i > a + 1
    <3>1. i # a + 1 /\ Was(i, a, b) = i - (a + 1) + b /\ q > a + 1
      BY <1>1, <1>4, <1>9, <2>3
    <3>2. Was(i, a, b) <= p
      BY <1>1, <1>2, <1>9, <3>1
    <3>3. Was(i, a, b) \in 1 .. Len(h) /\ g[i] = h[Was(i, a, b)]
      BY <1>3, <3>1
    <3> QED
      BY <1>5, <1>7, <3>2, <3>3
  <2> QED
    BY <1>1, <2>1, <2>2, <2>3
<1>10. ASSUME NEW i \in 1 .. Len(g), i > q PROVE TurnsUpTo(g, i) > KeepHead
  <2>1. i > a + 1 /\ Len(g) > a + 1 /\ i \in Int /\ a + 1 \in Int /\ i >= a + 2
    BY <1>1, <1>3, <1>10
  <2>2. a + 2 \in UserTurns(g)
    BY <1>6, <2>1
  <2>3. a + 1 < a + 2 /\ a + 2 <= i
    BY <1>1, <2>1
  <2>4. TurnsUpTo(g, a + 1) < TurnsUpTo(g, i)
    BY <1>3, <2>1, <2>2, <2>3, TurnsBetween
  <2> QED
    BY <1>6, <2>4
<1>11. ASSUME NEW x \in 1 .. Len(h) PROVE Holds(g, h[x]) \/ Holds(t, h[x])
  <2>1. CASE x <= a \/ x > b
    <3>1. PICK i \in 1 .. Len(g) : i # a + 1 /\ Was(i, a, b) = x
      BY <1>3, <2>1
    <3>2. g[i] = h[x]
      BY <1>3, <3>1
    <3> QED
      BY <1>3, <3>2, HoldsIn, SameIsEquivalence
  <2>2. CASE x > a /\ x <= b /\ x <= p
    BY <1>5, <1>7, <2>2
  <2>3. CASE x > a /\ x <= b /\ x > p
    <3>1. x \in c + 1 .. b
      BY <1>1, <1>2, <2>3
    <3> QED
      BY <1>5, <3>1
  <2> QED
    BY <1>1, <2>1, <2>2, <2>3
<1>12. KeepHead <= Cardinality(UserTurns(g))
  <2>1. a \in Int
    BY <1>1
  <2> QED
    BY <1>3, <1>6, <2>1, TurnSets
<1> QED
  BY <1>9, <1>10, <1>11, <1>12 DEF Stored

(* What is stored stays stored once. *)
LEMMA CutOnce ==
  ASSUME NEW h, NEW s, NEW p, NEW a, NEW b, NEW c, NEW e, NEW g, NEW t, NEW q,
         Summarised(h, s, p, a, b, c, e, g, t, q), Once(h, s, p)
  PROVE  Once(g, t, q)
<1>1. /\ h \in Seq(Entries) /\ s \in Seq(Entries) /\ p \in Nat /\ p <= Len(h)
      /\ Len(h) \in Nat /\ Len(s) \in Nat /\ a \in Nat /\ b \in Nat /\ a < b /\ b <= Len(h)
      /\ c \in Nat /\ a <= c /\ c <= b /\ q \in Nat /\ a + 1 <= q /\ KeepHead \in Nat /\ KeepTail \in Nat
      /\ e.kind = "summary"
  BY CutNumbers
<1>2. /\ p <= b => p <= c
      /\ q > a + 1 => p > b
  BY CutNumbers
<1>3. /\ g \in Seq(Entries) /\ Len(g) \in Nat /\ Len(g) = a + 1 + (Len(h) - b)
      /\ \A x \in 1 .. Len(g) : x # a + 1 =>
           Was(x, a, b) \in 1 .. Len(h) /\ g[x] = h[Was(x, a, b)]
      /\ \A i \in 1 .. Len(g) : i > a + 1 => Was(i, a, b) > b
  BY CutHistory
<1>4. /\ t \in Seq(Entries)
      /\ \A x \in 1 .. Len(s) : t[x] = s[x]
      /\ t[Len(t)] = e
      /\ \A i \in 1 .. Len(t) : \/ i \in 1 .. Len(s)
                                \/ i - Len(s) + c \in c + 1 .. b /\ t[i] = h[i - Len(s) + c]
                                \/ i = Len(t)
  BY CutStore
<1>5. /\ \A x \in 1 .. Len(h) : x > a => ~Same(h[x], e) /\ ~Same(e, h[x])
      /\ \A i \in 1 .. Len(s) : s[i].kind = "summary" => s[i].id # e.id
      /\ TurnsUpTo(g, a + 1) = KeepHead
      /\ KeepTail = 0 => Len(g) = a + 1
  BY CutIsNew
<1>6. /\ \A i, j \in 1 .. Len(s) : Same(s[i], s[j]) => i = j
      /\ \A i \in 1 .. Len(h) : i > p => ~Holds(s, h[i])
      /\ KeepTail = 0 \/ TurnsUpTo(h, p) <= KeepHead
  BY DEF Once
<1>7. Unlike(h) /\ a + 1 \in UserTurns(h) /\ TurnsUpTo(h, a) = KeepHead /\ (KeepTail = 0 => b = Len(h))
  BY DEF Summarised, Ordered, Cuts
<1>8. ASSUME KeepTail # 0 PROVE p <= a
  <2> SUFFICES ASSUME p > a PROVE FALSE
    BY <1>1
  <2>1. a \in Int /\ p \in Int /\ a < a + 1 /\ a + 1 <= p
    BY <1>1
  <2>2. TurnsUpTo(h, a) < TurnsUpTo(h, p)
    BY <1>1, <1>7, <2>1, TurnsBetween
  <2>3. TurnsUpTo(h, p) \in Nat
    BY <1>1, <2>1, TurnSets, Zenon
  <2> QED
    BY <1>1, <1>6, <1>7, <1>8, <2>2, <2>3
<1>9. p <= b
  BY <1>1, <1>7, <1>8
<1>10. q = a + 1 /\ p <= c
  BY <1>1, <1>2, <1>9
<1>11. \A x \in c + 1 .. b : x \in 1 .. Len(h) /\ x > a /\ ~Holds(s, h[x])
  BY <1>1, <1>6, <1>10
<1>12. \A i \in 1 .. Len(s) : ~Same(s[i], e) /\ ~Same(e, s[i])
  BY <1>1, <1>5, SameMeans
<1>13. ASSUME NEW i \in 1 .. Len(s), NEW x \in c + 1 .. b PROVE ~Same(s[i], h[x]) /\ ~Same(h[x], s[i])
  BY <1>1, <1>11, HoldsIn, SameIsEquivalence
<1>14. ASSUME NEW x \in c + 1 .. b, NEW y \in c + 1 .. b, Same(h[x], h[y]) PROVE x = y
  BY <1>7, <1>11, <1>14, Zenon DEF Unlike
<1>15. ASSUME NEW i \in 1 .. Len(t), NEW j \in 1 .. Len(t), Same(t[i], t[j]) PROVE i = j
  <2> DEFINE x == i - Len(s) + c
             y == j - Len(s) + c
  <2>1. i \in Int /\ j \in Int
    OBVIOUS
  <2>2. x = y => i = j
    BY <1>1, <2>1
  <2>3. \/ i \in 1 .. Len(s) /\ t[i] = s[i]
        \/ x \in c + 1 .. b /\ t[i] = h[x]
        \/ i = Len(t) /\ t[i] = e
    BY <1>4
  <2>4. \/ j \in 1 .. Len(s) /\ t[j] = s[j]
        \/ y \in c + 1 .. b /\ t[j] = h[y]
        \/ j = Len(t) /\ t[j] = e
    BY <1>4
  <2> HIDE DEF x, y
  <2>5. CASE i \in 1 .. Len(s) /\ t[i] = s[i]
    BY <1>6, <1>12, <1>13, <1>15, <2>4, <2>5, Zenon
  <2>6. CASE x \in c + 1 .. b /\ t[i] = h[x]
    BY <1>5, <1>11, <1>13, <1>14, <1>15, <2>2, <2>4, <2>6, Zenon
  <2>7. CASE i = Len(t) /\ t[i] = e
    BY <1>5, <1>11, <1>12, <1>15, <2>4, <2>7, Zenon
  <2> QED
    BY <2>3, <2>5, <2>6, <2>7
<1>16. ASSUME NEW i \in 1 .. Len(g), i > q PROVE ~Holds(t, g[i])
  <2>1. KeepTail # 0 /\ p <= a /\ i # a + 1 /\ i > a + 1
    BY <1>1, <1>3, <1>5, <1>8, <1>10, <1>16
  <2> DEFINE w == Was(i, a, b)
  <2>2. w \in 1 .. Len(h) /\ w > b /\ g[i] = h[w]
    BY <1>3, <2>1
  <2> HIDE DEF w
  <2>3. w > p /\ w > a
    BY <1>1, <2>1, <2>2
  <2>4. ~Holds(s, h[w]) /\ ~Same(h[w], e)
    BY <1>5, <1>6, <2>2, <2>3
  <2> SUFFICES ASSUME NEW k \in 1 .. Len(t), Same(h[w], t[k]) PROVE FALSE
    BY <1>4, <2>2, HoldsIn
  <2>5. CASE k \in 1 .. Len(s)
    BY <1>1, <1>4, <2>4, <2>5, HoldsIn
  <2>6. CASE k - Len(s) + c \in c + 1 .. b /\ t[k] = h[k - Len(s) + c]
    <3> DEFINE x == k - Len(s) + c
    <3>1. x \in c + 1 .. b /\ t[k] = h[x]
      BY <2>6
    <3> HIDE DEF x
    <3>2. w = x
      BY <1>7, <1>11, <2>2, <3>1, Zenon DEF Unlike
    <3> QED
      BY <1>1, <2>2, <3>1, <3>2
  <2> QED
    BY <1>4, <2>4, <2>5, <2>6
<1> QED
  BY <1>1, <1>5, <1>10, <1>15, <1>16 DEF Once

(* A summary keeps the record in order. *)
LEMMA CutKeeps ==
  ASSUME NEW h, NEW s, NEW p, NEW a, NEW b, NEW c, NEW e, NEW g, NEW t, NEW q,
         Summarised(h, s, p, a, b, c, e, g, t, q)
  PROVE  Ordered(g, t, q)
<1>1. g \in Seq(Entries) /\ t \in Seq(Entries) /\ q \in Nat /\ q <= Len(g)
  <2>1. g \in Seq(Entries) /\ Len(g) = a + 1 + (Len(h) - b)
    BY CutHistory
  <2>2. t \in Seq(Entries)
    BY CutStore
  <2>3. q \in Nat /\ q <= a + 1 + (Len(h) - b)
    BY CutNumbers
  <2> QED
    BY <2>1, <2>2, <2>3
<1> QED
  BY <1>1, CutApart, CutSummaries, CutUnlike, CutReplaced, CutPaired DEF Ordered

(* The ids of the new history and store are old ones. *)
LEMMA CutIds ==
  ASSUME NEW h, NEW s, NEW p, NEW a, NEW b, NEW c, NEW e, NEW g, NEW t, NEW q,
         Summarised(h, s, p, a, b, c, e, g, t, q)
  PROVE  /\ \A i \in 1 .. Len(g) : \E x \in 1 .. Len(h) : g[i].id = h[x].id
         /\ \A i \in 1 .. Len(t) : \/ \E x \in 1 .. Len(h) : t[i].id = h[x].id
                                   \/ \E x \in 1 .. Len(s) : t[i].id = s[x].id
<1>1. /\ Len(h) \in Nat /\ b \in Nat /\ c \in Nat /\ b <= Len(h)
      /\ b \in 1 .. Len(h) /\ e.id = h[b].id
  BY CutNumbers
<1>2. /\ g[a + 1] = e
      /\ \A x \in 1 .. Len(g) : x # a + 1 =>
           Was(x, a, b) \in 1 .. Len(h) /\ g[x] = h[Was(x, a, b)]
  BY CutHistory
<1>3. /\ \A x \in 1 .. Len(s) : t[x] = s[x]
      /\ t[Len(t)] = e
      /\ \A i \in 1 .. Len(t) : \/ i \in 1 .. Len(s)
                                \/ i - Len(s) + c \in c + 1 .. b /\ t[i] = h[i - Len(s) + c]
                                \/ i = Len(t)
  BY CutStore
<1>4. \A x \in c + 1 .. b : x \in 1 .. Len(h)
  BY <1>1
<1> QED
  BY <1>1, <1>2, <1>3, <1>4, Zenon

(* The user's turns that are among the last KeepTail stay. *)
LEMMA CutKeepsTail ==
  ASSUME NEW h, NEW s, NEW p, NEW a, NEW b, NEW c, NEW e, NEW g, NEW t, NEW q,
         Summarised(h, s, p, a, b, c, e, g, t, q),
         NEW u \in UserTurns(h), Cardinality({j \in UserTurns(h) : j > u}) < KeepTail
  PROVE  Holds(g, h[u])
<1>1. /\ h \in Seq(Entries) /\ Len(h) \in Nat /\ a \in Nat /\ b \in Nat /\ a < b /\ b <= Len(h)
      /\ KeepTail \in Nat
  BY CutNumbers
<1>2. /\ g \in Seq(Entries)
      /\ \A x \in 1 .. Len(g) : x # a + 1 =>
           Was(x, a, b) \in 1 .. Len(h) /\ g[x] = h[Was(x, a, b)]
      /\ \A x \in 1 .. Len(h) : x <= a \/ x > b =>
           \E i \in 1 .. Len(g) : i # a + 1 /\ Was(i, a, b) = x
  BY CutHistory
<1>3. u \in 1 .. Len(h) /\ u \in Int
  BY <1>1, TurnIn
<1> DEFINE U == UserTurns(h)
           L(i) == {j \in U : j <= i}
           G(i) == {j \in U : j > i}
<1>4. ASSUME NEW i \in Int
      PROVE  /\ IsFiniteSet(G(i)) /\ Cardinality(G(i)) \in Nat /\ TurnsUpTo(h, i) \in Nat
             /\ Cardinality(U) = TurnsUpTo(h, i) + Cardinality(G(i))
  <2>1. IsFiniteSet(U) /\ U \subseteq Int /\ IsFiniteSet(L(i)) /\ TurnsUpTo(h, i) \in Nat
    BY <1>1, TurnSets
  <2>2. G(i) \subseteq U /\ L(i) \cup G(i) = U /\ L(i) \cap G(i) = {}
    BY <2>1
  <2> HIDE DEF U, L, G
  <2>3. IsFiniteSet(G(i)) /\ Cardinality(G(i)) \in Nat
    BY <2>1, <2>2, FS_Subset, FS_CardinalityType
  <2>4. Cardinality(L(i) \cup G(i)) = Cardinality(L(i)) + Cardinality(G(i)) - Cardinality(L(i) \cap G(i))
    BY <2>1, <2>3, FS_Union
  <2>5. Cardinality(L(i) \cap G(i)) = 0
    BY <2>2, FS_EmptySet
  <2>6. Cardinality(L(i)) = TurnsUpTo(h, i)
    BY Zenon DEF L, U, TurnsUpTo
  <2>7. Cardinality(U) = Cardinality(L(i)) + Cardinality(G(i)) - Cardinality(L(i) \cap G(i))
    BY <2>2, <2>4, Zenon
  <2>8. Cardinality(U) = TurnsUpTo(h, i) + Cardinality(G(i))
    BY <2>1, <2>3, <2>5, <2>6, <2>7
  <2> QED
    BY <2>1, <2>3, <2>8, Zenon
<1>5. KeepTail # 0
  BY <1>1, <1>3, <1>4
<1>6. TurnsUpTo(h, b) = Cardinality(U) - KeepTail /\ b \in Int
  BY <1>1, <1>5 DEF Summarised, Cuts
<1>7. u > b
  <2> SUFFICES ASSUME u <= b PROVE FALSE
    BY <1>1, <1>3
  <2>1. TurnsUpTo(h, u) <= TurnsUpTo(h, b)
    BY <1>1, <1>3, TurnsGrow
  <2>2. Cardinality(U) = TurnsUpTo(h, u) + Cardinality(G(u)) /\ TurnsUpTo(h, u) \in Nat
    BY <1>3, <1>4
  <2>3. Cardinality(U) = TurnsUpTo(h, b) + Cardinality(G(b)) /\ Cardinality(G(b)) \in Nat
    BY <1>4, <1>6
  <2>4. Cardinality(G(u)) < KeepTail /\ Cardinality(G(u)) \in Nat
    BY <1>3, <1>4
  <2> HIDE DEF U, G
  <2> QED
    BY <1>1, <1>6, <2>1, <2>2, <2>3, <2>4
<1>8. PICK i \in 1 .. Len(g) : i # a + 1 /\ Was(i, a, b) = u
  BY <1>2, <1>3, <1>7
<1>9. g[i] = h[u]
  BY <1>2, <1>8
<1> QED
  BY <1>2, <1>9, HoldsIn, SameIsEquivalence

(* How many turns of the user are in a history that grows. *)
LEMMA AllTurns ==
  ASSUME NEW h \in Seq(Entries)
  PROVE  TurnsUpTo(h, Len(h)) = Cardinality(UserTurns(h))
<1>1. {j \in UserTurns(h) : j <= Len(h)} = UserTurns(h)
  BY TurnSets
<1> QED
  BY <1>1, Zenon DEF TurnsUpTo

(* No entry bears the id m. *)
Nameless(h, m) == \A i \in 1 .. Len(h) : h[i].id # m

(* The history g is h and the message of input m. *)
IsAppended(g, h, m) == g = Append(h, Entry("user", m))

(* The message of a run is a turn of its own. *)
LEMMA AppendStarts ==
  ASSUME NEW h \in Seq(Entries), NEW s \in Seq(Entries), NEW m \in Ids,
         Nameless(h, m), Nameless(s, m), NEW g, IsAppended(g, h, m)
  PROVE  /\ g \in Seq(Entries) /\ Len(h) + 1 \in Nat /\ Len(g) = Len(h) + 1
         /\ \A i \in 1 .. Len(h) : g[i] = h[i]
         /\ g[Len(g)] = Entry("user", m)
         /\ LastTurn(g, h, s, Len(h) + 1, m)
         /\ TurnsUpTo(g, Len(h) + 1) = Cardinality(UserTurns(h)) + 1
         /\ Cardinality(UserTurns(g)) = Cardinality(UserTurns(h)) + 1
<1> DEFINE e == Entry("user", m)
           n == Len(h) + 1
<1>1. e \in Entries /\ e.kind = "user" /\ e.id = m
  BY DEF Entry, Entries, Kinds
<1> HIDE DEF e
<1>2. Len(h) \in Nat /\ n \in Nat /\ n = Len(h) + 1
  BY LenProperties
<1>3. /\ g \in Seq(Entries) /\ Len(g) = n
      /\ \A i \in 1 .. Len(h) : g[i] = h[i]
      /\ g[n] = e
  <2>1. g = Append(h, e)
    BY DEF IsAppended, e
  <2> QED
    BY <1>1, <2>1, AppendProperties
<1> HIDE DEF n
<1>4. LastTurn(g, h, s, n, m)
  <2>1. n \in 1 .. Len(g) /\ Len(h) <= Len(g) /\ n \in {Len(h), Len(h) + 1}
    BY <1>2, <1>3
  <2>2. \A i \in 1 .. Len(g) : g[i].id = m <=> i >= n
    BY <1>1, <1>2, <1>3 DEF Nameless
  <2>3. \A i \in n .. Len(g) : i = n
    BY <1>2, <1>3
  <2>4. \A i \in n .. Len(g) : g[i].kind = "user"
    BY <1>1, <1>3, <2>3
  <2>5. \A i \in n .. Len(g) : g[i].kind = "result" => \E j \in n .. Len(g) : g[j].kind = "use"
    BY <2>4
  <2>6. g[n].kind = "user"
    BY <1>1, <1>3
  <2> QED
    BY <1>3, <2>1, <2>2, <2>3, <2>5, <2>6, Zenon DEF LastTurn, Nameless
<1>5. TurnsUpTo(g, n) = Cardinality(UserTurns(h)) + 1
  <2>1. TurnsUpTo(g, Len(h)) = TurnsUpTo(h, Len(h))
    BY <1>2, <1>3, FrontTurns
  <2>2. n \in UserTurns(g)
    BY <1>1, <1>2, <1>3, TurnIn
  <2>3. TurnsUpTo(g, Len(h) + 1) = TurnsUpTo(g, Len(h)) + 1
    BY <1>2, <1>3, <2>2, NextTurn
  <2> QED
    BY <1>2, <2>1, <2>3, AllTurns
<1>6. Cardinality(UserTurns(g)) = TurnsUpTo(g, n)
  BY <1>3, AllTurns
<1> QED
  BY <1>2, <1>3, <1>4, <1>5, <1>6 DEF e

(* The history g is h and what a run produced. *)
IsMerged(g, h, batch) == g = h \o batch

(* What a run produces belongs to its turn. *)
LEMMA BatchGrows ==
  ASSUME NEW h \in Seq(Entries), NEW s \in Seq(Entries), NEW m \in Ids,
         Len(h) # 0, h[Len(h)].kind = "user", h[Len(h)].id = m,
         \A i \in 1 .. Len(h) : h[i].id = m => i = Len(h), Nameless(s, m),
         NEW batch \in Produced(m), NEW g, IsMerged(g, h, batch)
  PROVE  /\ g \in Seq(Entries) /\ Len(h) \in Nat /\ Len(h) <= Len(g) /\ Len(batch) \in Nat
         /\ \A i \in 1 .. Len(h) : g[i] = h[i]
         /\ \A i \in 1 .. Len(g) : i > Len(h) => g[i].id = m
         /\ LastTurn(g, h, s, Len(h), m)
         /\ TurnsUpTo(g, Len(h)) = Cardinality(UserTurns(h))
         /\ Cardinality(UserTurns(h)) <= Cardinality(UserTurns(g))
<1>1. /\ batch \in Seq(Entries) /\ Len(batch) \in Nat
      /\ \A i \in 1 .. Len(batch) : batch[i].id = m /\ batch[i].kind \in {"text", "use", "result"}
      /\ \A i, j \in 1 .. Len(batch) : batch[i].kind = batch[j].kind => i = j
      /\ \A i \in 1 .. Len(batch) : batch[i].kind = "result" => \E j \in 1 .. Len(batch) : batch[j].kind = "use"
  <2> DEFINE x == Entry("text", m)
             y == Entry("use", m)
             z == Entry("result", m)
  <2>1. /\ x \in Entries /\ x.kind = "text" /\ x.id = m
        /\ y \in Entries /\ y.kind = "use" /\ y.id = m
        /\ z \in Entries /\ z.kind = "result" /\ z.id = m
    BY DEF Entry, Entries, Kinds
  <2>2. \/ batch = <<>> \/ batch = <<x>> \/ batch = <<y>> \/ batch = <<y, z>> \/ batch = <<y, z, x>>
    BY DEF Produced
  <2> HIDE DEF x, y, z
  <2>3. CASE batch = <<>>
    BY <2>3
  <2>4. CASE batch = <<x>>
    BY <2>1, <2>4
  <2>7. CASE batch = <<y>>
    BY <2>1, <2>7
  <2>5. CASE batch = <<y, z>>
    BY <2>1, <2>5
  <2>6. CASE batch = <<y, z, x>>
    BY <2>1, <2>6
  <2> QED
    BY <2>2, <2>3, <2>4, <2>5, <2>6, <2>7
<1> DEFINE n == Len(h)
<1>2. n \in Nat /\ n \in 1 .. n
  BY LenProperties
<1>3. /\ g \in Seq(Entries) /\ Len(g) = n + Len(batch)
      /\ \A i \in 1 .. n + Len(batch) : g[i] = IF i <= n THEN h[i] ELSE batch[i - n]
  <2>1. g = h \o batch
    BY DEF IsMerged
  <2> QED
    BY <1>1, <2>1, ConcatProperties
<1> HIDE DEF n
<1>4. /\ n <= Len(g) /\ Len(g) \in Nat /\ n \in 1 .. Len(g)
      /\ \A i \in 1 .. n : g[i] = h[i]
  BY <1>1, <1>2, <1>3
<1>5. \A i \in 1 .. Len(g) : i > n => i - n \in 1 .. Len(batch) /\ g[i] = batch[i - n]
  BY <1>1, <1>2, <1>3
<1>6. \A k \in 1 .. Len(batch) : k + n \in n .. Len(g) /\ k + n \in 1 .. Len(g) /\ k + n > n /\ (k + n) - n = k
  BY <1>1, <1>2, <1>3
<1>7. \A i \in n .. Len(g) : i \in 1 .. Len(g) /\ (i = n \/ i > n)
  BY <1>2, <1>4
<1>8. n = Len(h) /\ h[n].kind = "user" /\ h[n].id = m /\ \A i \in 1 .. n : h[i].id = m => i = n
  BY DEF n
<1>9. \A i \in 1 .. Len(g) : g[i].id = m <=> i >= n
  <2> TAKE i \in 1 .. Len(g)
  <2>1. CASE i > n
    <3>1. g[i].id = m
      BY <1>1, <1>5, <2>1
    <3> QED
      BY <1>2, <2>1, <3>1
  <2>2. CASE i <= n
    BY <1>2, <1>4, <1>8, <2>2
  <2> QED
    BY <1>2, <2>1, <2>2
<1>10. g[n].kind = "user"
  BY <1>2, <1>4, <1>8
<1>11. \A i \in n .. Len(g) : i # n => g[i].kind \in {"text", "use", "result"}
  BY <1>1, <1>5, <1>7
<1>12. \A i, j \in n .. Len(g) : g[i].kind = g[j].kind => i = j
  <2> TAKE i, j \in n .. Len(g)
  <2> HAVE g[i].kind = g[j].kind
  <2>1. CASE i = n \/ j = n
    BY <1>10, <1>11, <2>1
  <2>2. CASE i > n /\ j > n
    <3>0. /\ i - n \in 1 .. Len(batch) /\ g[i] = batch[i - n]
          /\ j - n \in 1 .. Len(batch) /\ g[j] = batch[j - n]
      BY <1>5, <1>7, <2>2
    <3>1. i - n = j - n
      BY <1>1, <3>0, Zenon
    <3> QED
      BY <1>2, <3>1
  <2> QED
    BY <1>7, <2>1, <2>2
<1>13. \A i \in n .. Len(g) : g[i].kind = "result" => \E j \in n .. Len(g) : g[j].kind = "use"
  <2> TAKE i \in n .. Len(g)
  <2> HAVE g[i].kind = "result"
  <2>1. i > n
    BY <1>7, <1>10
  <2>2. PICK k \in 1 .. Len(batch) : batch[k].kind = "use"
    BY <1>1, <1>5, <1>7, <2>1
  <2>3. k + n \in n .. Len(g) /\ g[k + n] = batch[k]
    <3>1. k + n \in 1 .. Len(g) /\ k + n > n /\ (k + n) - n = k
      BY <1>6
    <3>2. g[k + n] = batch[(k + n) - n]
      BY <1>5, <3>1, Zenon
    <3> QED
      BY <1>6, <3>1, <3>2
  <2> QED
    BY <2>2, <2>3
<1>14. LastTurn(g, h, s, n, m)
  BY <1>3, <1>4, <1>8, <1>9, <1>10, <1>11, <1>12, <1>13 DEF LastTurn, Nameless
<1>15. TurnsUpTo(g, n) = Cardinality(UserTurns(h))
  <2>0. n \in Int /\ n <= Len(h) /\ n <= n
    BY <1>2, <1>8
  <2>1. TurnsUpTo(g, n) = TurnsUpTo(h, n)
    BY <1>3, <1>4, <2>0, FrontTurns
  <2> QED
    BY <1>8, <2>1, AllTurns
<1>16. Cardinality(UserTurns(h)) <= Cardinality(UserTurns(g))
  <2>1. n \in Int
    BY <1>2
  <2> QED
    BY <1>3, <1>15, <2>1, TurnSets
<1> QED
  BY <1>1, <1>2, <1>3, <1>4, <1>5, <1>8, <1>14, <1>15, <1>16

(* The summary in flight replaces the range of this very history. *)
Ranged == query = "compact" => CanCompact(history) /\ range = CompactRange(history)

(* The message of the run in flight is the last entry. *)
RunIsLast ==
  query = "main" =>
    /\ Len(history) # 0 /\ history[Len(history)].kind = "user"
    /\ \A i \in 1 .. Len(history) : history[i].id = history[Len(history)].id => i = Len(history)
    /\ Nameless(store, history[Len(history)].id)

(* The input that waits is not on record yet, nor is any later one. *)
Named ==
  /\ pendingText <= fresh
  /\ \A i \in 1 .. Len(history) : history[i].id <= fresh
  /\ \A i \in 1 .. Len(store) : store[i].id <= fresh
  /\ Nameless(history, pendingText) /\ Nameless(store, pendingText)

(* With enough turns replayed at the start, the head is stored. *)
HeadKept ==
  KeepHead <= Primed =>
    /\ Stored(history, store, prefix)
    /\ alive => KeepHead <= Cardinality(UserTurns(history))
    /\ query = "main" => KeepHead < Cardinality(UserTurns(history))

(* With no more turns replayed than are kept, no range reaches into them. *)
OnceKept == Primed <= KeepHead \/ KeepTail = 0 => Once(history, store, prefix)

(* What every step of the session keeps of the record. *)
RecordKept ==
  Ordered(history, store, prefix) /\ Ranged /\ RunIsLast /\ Named /\ HeadKept /\ OnceKept

(* The replayed turns: odd entries are the user's. *)
LEMMA PrimedFacts ==
  /\ PrimedTurns \in Seq(Entries) /\ Len(PrimedTurns) = 2 * Primed /\ Primed \in Nat /\ MaxIds \in Nat
  /\ Primed <= MaxIds
  /\ \A i \in 1 .. 2 * Primed :
       /\ PrimedTurns[i].id = (i + 1) \div 2
       /\ PrimedTurns[i].kind = IF i % 2 = 1 THEN "user" ELSE "text"
  /\ Cardinality(UserTurns(PrimedTurns)) = Primed
<1> DEFINE h == PrimedTurns
           n == 2 * Primed
<1>1. Primed \in Nat /\ MaxIds \in Nat /\ Primed <= MaxIds /\ n \in Nat
  BY NumberAssumption
<1>2. ASSUME NEW i \in 1 .. n
      PROVE  /\ h[i].id = (i + 1) \div 2
             /\ h[i].kind = IF i % 2 = 1 THEN "user" ELSE "text"
             /\ h[i] \in Entries
  <2>1. (i + 1) \div 2 \in 1 .. MaxIds
    BY <1>1
  <2>2. h[i] = Entry(IF i % 2 = 1 THEN "user" ELSE "text", (i + 1) \div 2)
    BY DEF PrimedTurns
  <2> HIDE DEF h, n
  <2>3. (IF i % 2 = 1 THEN "user" ELSE "text") \in Kinds
    BY DEF Kinds
  <2> QED
    BY <2>1, <2>2, <2>3 DEF Entry, Entries, Ids
<1>3. h = [i \in 1 .. n |-> h[i]]
  BY DEF PrimedTurns
<1>4. h \in Seq(Entries) /\ Len(h) = n
  <2> HIDE DEF h, n
  <2> QED
    BY <1>1, <1>2, <1>3
<1> HIDE DEF h
<1>5. Cardinality(UserTurns(h)) = Primed
  <2> DEFINE f == [k \in 1 .. Primed |-> 2 * k - 1]
             U == UserTurns(h)
  <2>1. \A i : i \in U <=> i \in 1 .. n /\ i % 2 = 1
    BY <1>2, <1>4, TurnIn
  <2>2. f \in [1 .. Primed -> U]
    <3>1. \A k \in 1 .. Primed : 2 * k - 1 \in 1 .. n /\ (2 * k - 1) % 2 = 1
      BY <1>1
    <3> QED
      BY <2>1, <3>1
  <2>3. \A i, j \in 1 .. Primed : f[i] = f[j] => i = j
    BY <1>1
  <2>4. ASSUME NEW u \in U PROVE \E k \in 1 .. Primed : f[k] = u
    <3>1. u \in 1 .. n /\ u % 2 = 1
      BY <2>1
    <3>2. (u + 1) \div 2 \in 1 .. Primed /\ 2 * ((u + 1) \div 2) - 1 = u
      BY <1>1, <3>1
    <3> QED
      BY <3>2
  <2> HIDE DEF f, U
  <2>5. f \in Bijection(1 .. Primed, U)
    BY <2>2, <2>3, <2>4 DEF Bijection, Injection, IsInjective, Surjection
  <2>6. IsFiniteSet(1 .. Primed) /\ Cardinality(1 .. Primed) = Primed
    BY <1>1, FS_Interval
  <2> QED
    BY <2>5, <2>6, FS_Bijection DEF ExistsBijection, U
<1> QED
  BY <1>1, <1>2, <1>4, <1>5 DEF h

(* The replayed turns are a record in order. *)
LEMMA InitKept ==
  ASSUME SessionInit
  PROVE  RecordKept
<1> DEFINE h == PrimedTurns
           n == 2 * Primed
<1>1. /\ history = h /\ store = h /\ prefix = n
      /\ query = "none" /\ pendingText = 0 /\ fresh = Primed
  BY DEF SessionInit
<1>2. h \in Seq(Entries) /\ Len(h) = n /\ Primed \in Nat /\ n \in Nat /\ Cardinality(UserTurns(h)) = Primed
  BY PrimedFacts
<1>3. \A i \in 1 .. n : h[i].id = (i + 1) \div 2
  BY PrimedFacts
<1>4. \A i \in 1 .. n : h[i].kind = IF i % 2 = 1 THEN "user" ELSE "text"
  BY PrimedFacts
<1> HIDE DEF h
<1>5. \A i \in 1 .. n : h[i].id \in 1 .. Primed /\ h[i].kind \in {"user", "text"}
  <2>1. \A i \in 1 .. n : (i + 1) \div 2 \in 1 .. Primed
    BY <1>2
  <2> QED
    BY <1>3, <1>4, <2>1
<1>6. \A i, j \in 1 .. n : Same(h[i], h[j]) => i = j
  <2> TAKE i, j \in 1 .. n
  <2> HAVE Same(h[i], h[j])
  <2>1. (i + 1) \div 2 = (j + 1) \div 2
    BY <1>3, SameMeans
  <2>2. h[i].kind = h[j].kind
    BY <1>5, SameMeans
  <2>3. i % 2 = 1 <=> j % 2 = 1
    BY <1>4, <2>2
  <2> QED
    BY <1>2, <2>1, <2>3
<1>7. Apart(h)
  <2> SUFFICES ASSUME NEW i \in 1 .. Len(h), NEW j \in 1 .. Len(h), NEW u \in UserTurns(h), i < u, u <= j
               PROVE  h[i].id # h[j].id
    BY DEF Apart
  <2>1. i \in 1 .. n /\ j \in 1 .. n /\ u \in 1 .. n /\ u % 2 = 1
    <3>1. u \in 1 .. n /\ h[u].kind = "user"
      BY <1>2, TurnIn
    <3> QED
      BY <1>2, <1>4, <3>1
  <2>2. (i + 1) \div 2 # (j + 1) \div 2
    BY <1>2, <2>1
  <2> QED
    BY <1>3, <2>1, <2>2
<1>8. SummariesFirst(h) /\ Unlike(h) /\ Replaced(h, h)
  BY <1>2, <1>5, <1>6 DEF SummariesFirst, Unlike, Replaced
<1>9. Paired(h, h)
  <2> SUFFICES ASSUME NEW m \in Ids, Holds(h \o h, Entry("result", m)) PROVE FALSE
    BY DEF Paired
  <2>1. Holds(h, Entry("result", m))
    BY <1>2, HoldsEither
  <2>2. PICK i \in 1 .. n : Same(Entry("result", m), h[i])
    BY <1>2, <2>1, HoldsIn
  <2> QED
    BY <1>5, <2>2, SameMeans DEF Entry
<1>10. Ordered(h, h, n)
  BY <1>2, <1>7, <1>8, <1>9 DEF Ordered
<1>11. \A i \in 1 .. n : Holds(h, h[i])
  BY <1>2, HoldsIn, SameIsEquivalence
<1>12. \A i \in 1 .. n : ~(i > n)
  BY <1>2
<1>13. Stored(h, h, n)
  BY <1>2, <1>11, <1>12 DEF Stored
<1>14. KeepHead <= Primed => KeepHead <= Cardinality(UserTurns(h))
  BY <1>2
<1>15. TurnsUpTo(h, n) = Primed
  BY <1>2, AllTurns
<1>16. Primed <= KeepHead \/ KeepTail = 0 => Once(h, h, n)
  BY <1>2, <1>6, <1>12, <1>15 DEF Once
<1>17. Named
  BY <1>1, <1>2, <1>5 DEF Named, Nameless
<1>18. Ranged /\ RunIsLast
  BY <1>1 DEF Ranged, RunIsLast
<1>19. HeadKept /\ OnceKept
  BY <1>1, <1>13, <1>14, <1>16 DEF HeadKept, OnceKept
<1> QED
  BY <1>1, <1>10, <1>17, <1>18, <1>19 DEF RecordKept

(* What the gate does to the record, h being the history it leaves. *)
Submitted(h, m, p) ==
  /\ IsAppended(history', h, m) /\ query' = "main" /\ range' = range /\ pendingText' = p

(* The message is not run and no summary asked for. *)
Left(h, p) ==
  /\ history' = h /\ query' = query /\ range' = range /\ pendingText' = p

(* The message waits, or is refused, behind a summary of h. *)
Compacted(h, m) ==
  /\ history' = h /\ CanCompact(h) /\ range' = CompactRange(h) /\ pendingText' = m
  /\ query' \in {"compact", query}

(* What the gate decides, k and d being the bookkeeping it leaves. *)
Gate(m, p, h, k, d) ==
  \/ /\ Submit(m, h, k, d) /\ pendingText' = p
     /\ lastCompact' = IF Policy = "Disabled" THEN lastCompact ELSE 0
     /\ Policy = "Disabled" \/ k >= 0 \/ Size(h) + 1 <= limit
  \/ /\ Compact(m, h, p) /\ history' = h /\ known' = k /\ delta' = d /\ UNCHANGED overcounted
     /\ ~(known < 0 /\ Size(history) + 1 <= limit)

(* Admit decides in one of the two ways of Gate. *)
LEMMA AdmitGate ==
  ASSUME NEW m, NEW p, Admit(m, p), known \in Int
  PROVE  \E h \in {history, TrimAll(history)}, k \in {known, -1}, d \in {delta, 0} : Gate(m, p, h, k, d)
<1>1. PICK now \in Estimates :
        LET fits(size) == Policy = "Disabled" \/ size + 1 <= limit
            trims      == Untrimmed(history) # {}
            h == IF fits(now) THEN history ELSE TrimAll(history)
            k == IF ~fits(now) /\ trims THEN -1 ELSE known
            d == IF ~fits(now) /\ trims THEN 0 ELSE delta
            size == IF ~fits(now) /\ trims THEN Size(h) ELSE now
        IN IF fits(size)
           THEN /\ Submit(m, h, k, d) /\ pendingText' = p
                /\ lastCompact' = IF Policy = "Disabled" THEN lastCompact ELSE 0
           ELSE /\ Compact(m, h, p)
                /\ history' = h /\ known' = k /\ delta' = d /\ UNCHANGED overcounted
  BY DEF Admit
<1> DEFINE fits(size) == Policy = "Disabled" \/ size + 1 <= limit
           trims      == Untrimmed(history) # {}
           h == IF fits(now) THEN history ELSE TrimAll(history)
           k == IF ~fits(now) /\ trims THEN -1 ELSE known
           d == IF ~fits(now) /\ trims THEN 0 ELSE delta
           size == IF ~fits(now) /\ trims THEN Size(h) ELSE now
<1>2. IF fits(size)
      THEN /\ Submit(m, h, k, d) /\ pendingText' = p
           /\ lastCompact' = IF Policy = "Disabled" THEN lastCompact ELSE 0
      ELSE /\ Compact(m, h, p)
           /\ history' = h /\ known' = k /\ delta' = d /\ UNCHANGED overcounted
  BY <1>1
<1>3. h \in {history, TrimAll(history)} /\ k \in {known, -1} /\ d \in {delta, 0}
  OBVIOUS
<1>4. known < 0 => now = Size(history)
  BY DEF Estimates
<1>5. fits(size) => Policy = "Disabled" \/ k >= 0 \/ Size(h) + 1 <= limit
  BY <1>4
<1>6. ~fits(size) => ~(known < 0 /\ Size(history) + 1 <= limit)
  BY <1>4
<1> HIDE DEF fits, trims, h, k, d, size
<1>7. Gate(m, p, h, k, d)
  BY <1>2, <1>5, <1>6 DEF Gate
<1> QED
  BY <1>3, <1>7

(* What that makes of the record. *)
LEMMA AdmitCases ==
  ASSUME NEW m, NEW p, Admit(m, p), known \in Int
  PROVE  \E h \in {history, TrimAll(history)} :
           Submitted(h, m, p) \/ Left(h, p) \/ Compacted(h, m)
<1>1. PICK h \in {history, TrimAll(history)}, k \in {known, -1}, d \in {delta, 0} : Gate(m, p, h, k, d)
  BY AdmitGate
<1>2. CASE Submit(m, h, k, d) /\ pendingText' = p
  BY <1>2 DEF Submit, Submitted, Left, IsAppended
<1>3. CASE Compact(m, h, p) /\ history' = h
  BY <1>3 DEF Compact, Refuse, Left, Compacted
<1> QED
  BY <1>1, <1>2, <1>3 DEF Gate

(* The history the gate leaves is as good as the one it found. *)
LEMMA GateKeeps ==
  ASSUME Ordered(history, store, prefix), NEW h \in {history, TrimAll(history)}
  PROVE  /\ Ordered(h, store, prefix) /\ Len(h) = Len(history) /\ Len(h) \in Nat
         /\ Cardinality(UserTurns(h)) = Cardinality(UserTurns(history))
         /\ Stored(history, store, prefix) => Stored(h, store, prefix)
         /\ Once(history, store, prefix) => Once(h, store, prefix)
         /\ \A i \in 1 .. Len(history) : Same(history[i], h[i]) /\ h[i].id = history[i].id
<1>1. history \in Seq(Entries) /\ Len(history) \in Nat
  BY DEF Ordered
<1>2. CASE h = history
  BY <1>1, <1>2, SameIsEquivalence
<1>3. CASE h = TrimAll(history)
  BY <1>1, <1>3, TrimFacts, TrimKeeps, Zenon
<1> QED
  BY <1>2, <1>3

(* The gate keeps the record and takes nothing from the history. *)
LEMMA AdmitKeeps ==
  ASSUME RecordKept, known \in Int, query = "none", alive, NEW m \in Ids, NEW p \in Nat, Admit(m, p),
         fresh \in Nat, fresh' \in Nat, fresh <= fresh', m <= fresh', p <= fresh', p # m,
         Nameless(history, m), Nameless(store, m), Nameless(history, p), Nameless(store, p),
         store' = store, prefix' = prefix, alive' = alive
  PROVE  RecordKept' /\ \A i \in 1 .. Len(history) : Holds(history', history[i])
<1>1. PICK h \in {history, TrimAll(history)} : Submitted(h, m, p) \/ Left(h, p) \/ Compacted(h, m)
  BY AdmitCases
<1>2. /\ Ordered(history, store, prefix) /\ Ranged /\ RunIsLast /\ Named /\ HeadKept /\ OnceKept
      /\ history \in Seq(Entries) /\ store \in Seq(Entries) /\ Len(history) \in Nat
  BY DEF RecordKept, Ordered
<1>3. /\ Ordered(h, store, prefix) /\ Len(h) = Len(history) /\ Len(h) \in Nat
      /\ Cardinality(UserTurns(h)) = Cardinality(UserTurns(history))
      /\ Stored(history, store, prefix) => Stored(h, store, prefix)
      /\ Once(history, store, prefix) => Once(h, store, prefix)
  BY <1>2, GateKeeps, Zenon
<1>4. \A i \in 1 .. Len(h) : Same(history[i], h[i]) /\ h[i].id = history[i].id
  BY <1>2, <1>3, GateKeeps
<1>5. h \in Seq(Entries)
  BY <1>3 DEF Ordered
<1>6. Nameless(h, m) /\ Nameless(h, p) /\ \A i \in 1 .. Len(h) : h[i].id <= fresh'
  <2>1. \A i \in 1 .. Len(h) : history[i].id \in Nat /\ history[i].id <= fresh
    <3>1. \A i \in 1 .. Len(h) : history[i] \in Entries
      BY <1>2, <1>3, ElementOfSeq, Zenon
    <3> QED
      BY <1>2, <1>3, <3>1 DEF Named, Entries, Ids
  <2> QED
    BY <1>3, <1>4, <2>1 DEF Nameless
<1>7. \A i \in 1 .. Len(store) : store[i].id <= fresh'
  <2>1. \A i \in 1 .. Len(store) : store[i].id \in Nat /\ store[i].id <= fresh
    <3>1. \A i \in 1 .. Len(store) : store[i] \in Entries
      BY <1>2, ElementOfSeq, Zenon
    <3> QED
      BY <1>2, <3>1 DEF Named, Entries, Ids
  <2> QED
    BY <2>1
<1>8. CASE Submitted(h, m, p)
  <2>1. IsAppended(history', h, m) /\ query' = "main" /\ pendingText' = p
    BY <1>8 DEF Submitted
  <2>2. /\ history' \in Seq(Entries) /\ Len(h) + 1 \in Nat /\ Len(history') = Len(h) + 1
        /\ \A i \in 1 .. Len(h) : history'[i] = h[i]
        /\ history'[Len(history')] = Entry("user", m)
        /\ LastTurn(history', h, store, Len(h) + 1, m)
        /\ TurnsUpTo(history', Len(h) + 1) = Cardinality(UserTurns(h)) + 1
        /\ Cardinality(UserTurns(history')) = Cardinality(UserTurns(h)) + 1
    BY <1>2, <1>5, <1>6, <2>1, AppendStarts
  <2>3. /\ Ordered(history', store, prefix)
        /\ Stored(h, store, prefix) /\ TurnsUpTo(history', Len(h) + 1) > KeepHead => Stored(history', store, prefix)
        /\ Once(h, store, prefix) => Once(history', store, prefix)
    BY <1>3, <2>2, GrowKeeps
  <2>4. \A i \in 1 .. Len(history') : i \in 1 .. Len(h) \/ i = Len(history')
    BY <1>3, <2>2
  <2>5. Entry("user", m).id = m /\ Entry("user", m).kind = "user" /\ m \in Nat
    BY DEF Entry, Ids
  <2>6. Named'
    <3>1. \A i \in 1 .. Len(history') : history'[i].id <= fresh' /\ history'[i].id # p
      BY <1>6, <2>2, <2>4, <2>5 DEF Nameless
    <3> QED
      BY <1>7, <2>1, <3>1 DEF Named, Nameless
  <2>7. Ranged'
    BY <2>1 DEF Ranged
  <2>8. RunIsLast'
    <3>1. Len(history') # 0 /\ history'[Len(history')].kind = "user" /\ history'[Len(history')].id = m
      BY <1>3, <2>2, <2>5
    <3>2. \A i \in 1 .. Len(history') : history'[i].id = m => i = Len(history')
      BY <1>6, <2>2, <2>4 DEF Nameless
    <3> QED
      BY <3>1, <3>2 DEF RunIsLast
  <2>9. HeadKept'
    <3> SUFFICES ASSUME KeepHead <= Primed PROVE HeadKept'
      BY DEF HeadKept
    <3>1. Stored(history, store, prefix) /\ KeepHead <= Cardinality(UserTurns(history))
      BY <1>2 DEF HeadKept
    <3>2. KeepHead \in Nat /\ Cardinality(UserTurns(h)) \in Nat
      BY <1>5, NumberAssumption, TurnSets
    <3>3. Cardinality(UserTurns(history')) > KeepHead /\ TurnsUpTo(history', Len(h) + 1) > KeepHead
      BY <1>3, <2>2, <3>1, <3>2
    <3>4. Stored(history', store, prefix)
      BY <1>3, <2>3, <3>1, <3>3
    <3>5. KeepHead <= Cardinality(UserTurns(history')) /\ KeepHead < Cardinality(UserTurns(history'))
      BY <2>2, <3>2, <3>3
    <3> QED
      BY <3>4, <3>5 DEF HeadKept
  <2>10. OnceKept'
    BY <1>2, <1>3, <2>3 DEF OnceKept
  <2>11. \A i \in 1 .. Len(history) : Holds(history', history[i])
    <3>1. \A i \in 1 .. Len(h) : i \in 1 .. Len(history')
      BY <1>3, <2>2
    <3> QED
      BY <1>3, <1>4, <2>2, <3>1, HoldsIn
  <2>12. Ordered(history', store', prefix')
    BY <2>3
  <2> QED
    BY <2>6, <2>7, <2>8, <2>9, <2>10, <2>11, <2>12 DEF RecordKept
<1>9. CASE history' = h /\ query' # "main" /\ pendingText' \in {m, p}
           /\ (query' = "compact" => CanCompact(h) /\ range' = CompactRange(h))
  <2>1. Ranged' /\ RunIsLast'
    BY <1>9 DEF Ranged, RunIsLast
  <2>2. Named'
    BY <1>6, <1>7, <1>9 DEF Named, Nameless
  <2>3. HeadKept'
    BY <1>2, <1>3, <1>9 DEF HeadKept
  <2>4. OnceKept'
    BY <1>2, <1>3, <1>9 DEF OnceKept
  <2>5. \A i \in 1 .. Len(history) : Holds(history', history[i])
    BY <1>3, <1>4, <1>5, <1>9, HoldsIn
  <2>6. Ordered(history', store', prefix')
    BY <1>3, <1>9
  <2> QED
    BY <2>1, <2>2, <2>3, <2>4, <2>5, <2>6 DEF RecordKept
<1>10. CASE Left(h, p)
  BY <1>9, <1>10 DEF Left
<1>11. CASE Compacted(h, m)
  BY <1>9, <1>11 DEF Compacted
<1> QED
  BY <1>1, <1>8, <1>10, <1>11

(* A summary at this length of the history would not be tried again. *)
Tried == lastCompact > 0 /\ Len(history) <= lastCompact

(* Who waits: while a summary or its CompactDone is in progress, the input *)
(* that is queued is the one to be submitted again, and no further summary *)
(* can take its place: it was just tried, or the history fits now.         *)
QueueWaits ==
  /\ query = "compact" \/ retrying => Policy = "Summarize"
  /\ \/ overcounted
     \/ /\ \A m \in Ids : inputFate[m] = "queued" =>
             pendingText = m /\ (query = "compact" \/ retrying)
        /\ query = "compact" => ~retrying /\ Tried
        /\ retrying /\ query = "none" => Tried \/ (known < 0 /\ Size(history) + 1 <= limit)

(* What may become of an input. *)
Fates == {"none", "queued", "running", "done", "refused", "lost", "dropped"}

(* A history that can be summarised has entries. *)
LEMMA TurnsNeedEntries ==
  ASSUME NEW h \in Seq(Entries), CanCompact(h)
  PROVE  Len(h) > 0
<1>1. KeepHead \in Nat /\ KeepTail \in Nat /\ Len(h) \in Nat
  BY NumberAssumption
<1>2. Cardinality(UserTurns(h)) > 0 /\ UserTurns(h) \subseteq 1 .. Len(h)
  BY <1>1, TurnSets DEF CanCompact
<1> SUFFICES ASSUME Len(h) = 0 PROVE FALSE
  BY <1>1
<1>3. UserTurns(h) = {}
  BY <1>2
<1> QED
  BY <1>2, <1>3, FS_EmptySet

(* A range that can be used consists of two numbers. *)
LEMMA RangeTyped ==
  ASSUME NEW h \in Seq(Entries), CanCompact(h)
  PROVE  CompactRange(h) \in Nat \X Nat
<1>1. PICK a, b : CompactRange(h) = <<a, b>>
  BY Zenon DEF CompactRange
<1>2. Cuts(h, a, b)
  BY <1>1, RangeCuts
<1> QED
  BY <1>1, <1>2 DEF Cuts

(* The gate leaves as many entries as it found. *)
LEMMA GateHistory ==
  ASSUME history \in Seq(Entries), NEW h \in {history, TrimAll(history)}
  PROVE  h \in Seq(Entries) /\ Len(h) = Len(history)
BY TrimFacts, Zenon

(* The gate leaves the session's fields well typed. *)
LEMMA AdmitTypes ==
  ASSUME SessionTypeOK, NEW m \in Ids, NEW p \in 0 .. MaxIds, Admit(m, p)
  PROVE  /\ query' \in {"none", "main", "compact"} /\ range' \in Nat \X Nat
         /\ pendingText' \in 0 .. MaxIds
         /\ lastCompact' \in Nat /\ known' \in Int /\ delta' \in Nat
         /\ inputFate' \in [Ids -> Fates] /\ overcounted' \in BOOLEAN
<1>1. /\ history \in Seq(Entries) /\ query \in {"none", "main", "compact"} /\ range \in Nat \X Nat
      /\ lastCompact \in Nat /\ known \in Int /\ delta \in Nat
      /\ inputFate \in [Ids -> Fates] /\ overcounted \in BOOLEAN
  BY DEF SessionTypeOK, Fates
<1>2. PICK h \in {history, TrimAll(history)}, k \in {known, -1}, d \in {delta, 0} : Gate(m, p, h, k, d)
  BY <1>1, AdmitGate
<1>3. k \in Int /\ d \in Nat /\ m \in 0 .. MaxIds
  BY <1>1 DEF Ids
<1>4. h \in Seq(Entries) /\ Len(h) \in Nat
  BY <1>1, GateHistory
<1>5. \A f \in Fates : [inputFate EXCEPT ![m] = f] \in [Ids -> Fates]
  BY <1>1
<1>6. CASE Submit(m, h, k, d) /\ pendingText' = p
           /\ lastCompact' = IF Policy = "Disabled" THEN lastCompact ELSE 0
  <2>1. known' = k /\ delta' = d + 1 /\ range' = range
    BY <1>6 DEF Submit
  <2>2. /\ query' \in {"none", "main", "compact"}
        /\ inputFate' \in [Ids -> Fates] /\ overcounted' \in BOOLEAN
    <3>1. CASE query' = "main" /\ inputFate' = [inputFate EXCEPT ![m] = "running"] /\ overcounted' = overcounted
      BY <1>1, <1>5, <3>1 DEF Fates
    <3>2. CASE query' = query /\ inputFate' = [inputFate EXCEPT ![m] = "refused"]
               /\ overcounted' = (overcounted \/ k >= 0)
      <4>1. overcounted' \in BOOLEAN
        BY <3>2, Zenon
      <4> QED
        BY <1>1, <1>5, <3>2, <4>1 DEF Fates
    <3> QED
      BY <1>6, <3>1, <3>2 DEF Submit
  <2> QED
    BY <1>1, <1>3, <1>6, <2>1, <2>2
<1>7. CASE Compact(m, h, p) /\ known' = k /\ delta' = d /\ overcounted' = overcounted
  <2>1. CASE /\ CanCompact(h) /\ pendingText' = m /\ lastCompact' = Len(h) /\ range' = CompactRange(h)
             /\ \/ query' = "compact" /\ inputFate' = [inputFate EXCEPT ![m] = "queued"]
                \/ Refuse(m) /\ UNCHANGED query
    <3>1. range' \in Nat \X Nat
      BY <1>4, <2>1, RangeTyped
    <3>2. inputFate' \in [Ids -> Fates] /\ query' \in {"none", "main", "compact"}
      BY <1>1, <1>5, <2>1 DEF Refuse, Fates
    <3> QED
      BY <1>1, <1>3, <1>4, <1>7, <2>1, <3>1, <3>2
  <2>2. CASE Refuse(m) /\ pendingText' = p /\ UNCHANGED <<query, range, lastCompact>>
    BY <1>1, <1>3, <1>5, <1>7, <2>2 DEF Refuse, Fates
  <2> QED
    BY <1>7, <2>1, <2>2 DEF Compact
<1> QED
  BY <1>2, <1>6, <1>7 DEF Gate

(* The gate never displaces an input that waits. *)
LEMMA AdmitWaits ==
  ASSUME SessionTypeOK, QueueWaits, query = "none", NEW m \in Ids, NEW p, Admit(m, p),
         limit' = limit, retrying' => retrying,
         ~overcounted => \A j \in Ids : inputFate[j] = "queued" /\ j # m => p = j /\ retrying'
  PROVE  QueueWaits'
<1>1. /\ history \in Seq(Entries) /\ Len(history) \in Nat /\ lastCompact \in Nat /\ known \in Int
      /\ inputFate \in [Ids -> Fates]
  BY DEF SessionTypeOK, Fates
<1>2. PICK h \in {history, TrimAll(history)}, k \in {known, -1}, d \in {delta, 0} : Gate(m, p, h, k, d)
  BY <1>1, AdmitGate
<1>3. h \in Seq(Entries) /\ Len(h) \in Nat /\ Len(h) = Len(history) /\ k \in Int
  BY <1>1, GateHistory
<1>4. retrying' => Policy = "Summarize" /\ (overcounted \/ Tried \/ (known < 0 /\ Size(history) + 1 <= limit))
  BY DEF QueueWaits
<1>5. \A f : /\ [inputFate EXCEPT ![m] = f][m] = f
             /\ \A j \in Ids : j # m => [inputFate EXCEPT ![m] = f][j] = inputFate[j]
  BY <1>1
<1>6. ASSUME NEW f, f # "queued", inputFate' = [inputFate EXCEPT ![m] = f], pendingText' = p, ~overcounted
      PROVE  \A j \in Ids : inputFate'[j] = "queued" => pendingText' = j /\ retrying'
  BY <1>5, <1>6
<1>7. CASE /\ history' = Append(h, Entry("user", m)) /\ query' = "main"
           /\ inputFate' = [inputFate EXCEPT ![m] = "running"] /\ overcounted' = overcounted
           /\ pendingText' = p
  BY <1>4, <1>6, <1>7 DEF QueueWaits
<1>8. CASE /\ history' = h /\ inputFate' = [inputFate EXCEPT ![m] = "refused"] /\ query' = query
           /\ overcounted' = (overcounted \/ k >= 0) /\ known' = k /\ pendingText' = p
           /\ Policy = "Disabled" \/ k >= 0 \/ Size(h) + 1 <= limit
  <2>1. CASE overcounted \/ k >= 0
    BY <1>4, <1>8, <2>1 DEF QueueWaits
  <2>2. CASE ~overcounted /\ k < 0
    <3>1. \A j \in Ids : inputFate'[j] = "queued" => pendingText' = j /\ retrying'
      BY <1>6, <1>8, <2>2
    <3>2. retrying' => known' < 0 /\ Size(history') + 1 <= limit'
      BY <1>3, <1>4, <1>8, <2>2
    <3> QED
      BY <1>4, <1>8, <3>1, <3>2 DEF QueueWaits
  <2> QED
    BY <1>3, <2>1, <2>2
<1>9. CASE /\ Refuse(m) /\ pendingText' = p /\ UNCHANGED <<query, range, lastCompact>>
           /\ history' = h /\ known' = k /\ overcounted' = overcounted
           /\ ~(known < 0 /\ Size(history) + 1 <= limit)
  <2>1. ~overcounted => \A j \in Ids : inputFate'[j] = "queued" => pendingText' = j /\ retrying'
    BY <1>6, <1>9 DEF Refuse
  <2>2. retrying' => overcounted \/ Tried'
    BY <1>3, <1>4, <1>9 DEF Tried
  <2> QED
    BY <1>4, <1>9, <2>1, <2>2 DEF QueueWaits
<1>10. CASE /\ Policy = "Summarize" /\ CanCompact(h)
            /\ ~(lastCompact > 0 /\ Len(h) <= lastCompact)
            /\ pendingText' = m /\ lastCompact' = Len(h)
            /\ \/ query' = "compact" /\ inputFate' = [inputFate EXCEPT ![m] = "queued"]
               \/ Refuse(m) /\ UNCHANGED query
            /\ history' = h /\ overcounted' = overcounted
            /\ ~(known < 0 /\ Size(history) + 1 <= limit)
  <2>1. overcounted \/ ~retrying'
    BY <1>3, <1>4, <1>10 DEF Tried
  <2>2. Tried'
    BY <1>3, <1>10, TurnsNeedEntries DEF Tried
  <2>3. ~overcounted => \A j \in Ids : j # m => inputFate'[j] # "queued"
    <3>1. PICK f : inputFate' = [inputFate EXCEPT ![m] = f]
      BY <1>10 DEF Refuse
    <3>2. \A j \in Ids : j # m => inputFate'[j] = inputFate[j]
      BY <1>5, <3>1
    <3> QED
      BY <2>1, <3>2
  <2>4. Refuse(m) => inputFate'[m] # "queued"
    BY <1>5 DEF Refuse
  <2> QED
    BY <1>10, <2>1, <2>2, <2>3, <2>4 DEF QueueWaits
<1>11. CASE Compact(m, h, p) /\ history' = h /\ known' = k /\ overcounted' = overcounted
            /\ ~(known < 0 /\ Size(history) + 1 <= limit)
  BY <1>9, <1>10, <1>11 DEF Compact
<1>12. CASE Submit(m, h, k, d) /\ pendingText' = p
            /\ (Policy = "Disabled" \/ k >= 0 \/ Size(h) + 1 <= limit)
  BY <1>7, <1>8, <1>12 DEF Submit
<1> QED
  BY <1>2, <1>11, <1>12 DEF Gate

(* The inductive invariant of the session. *)
SessionInv == SessionTypeOK /\ RecordKept /\ QueueWaits

(* Ids are positive, so no entry bears the id 0. *)
LEMMA IdsArePositive ==
  ASSUME NEW h \in Seq(Entries)
  PROVE  /\ Len(h) \in Nat /\ Nameless(h, 0)
         /\ \A i \in 1 .. Len(h) : h[i] \in Entries /\ h[i].id \in Ids /\ h[i].id \in Nat
<1>1. Len(h) \in Nat /\ \A i \in 1 .. Len(h) : h[i] \in Entries
  BY LenProperties, ElementOfSeq
<1>2. \A e \in Entries : e.id \in Ids /\ e.id \in Nat /\ e.id # 0
  BY DEF Entries, Ids
<1> QED
  BY <1>1, <1>2 DEF Nameless

(* A step that leaves the record alone may forget the input that waited. *)
LEMMA SameRecord ==
  ASSUME RecordKept, UNCHANGED <<record, fresh, query, range, alive>>, pendingText' \in {pendingText, 0},
         fresh \in Nat
  PROVE  RecordKept'
<1>1. /\ history' = history /\ store' = store /\ prefix' = prefix /\ fresh' = fresh
      /\ query' = query /\ range' = range /\ alive' = alive
  BY DEF record
<1>2. /\ Ordered(history, store, prefix) /\ Ranged /\ RunIsLast /\ Named /\ HeadKept /\ OnceKept
      /\ history \in Seq(Entries) /\ store \in Seq(Entries)
  BY DEF RecordKept, Ordered
<1>3. Nameless(history, 0) /\ Nameless(store, 0)
  BY <1>2, IdsArePositive
<1>4. Named'
  BY <1>1, <1>2, <1>3 DEF Named, Nameless
<1>5. Ranged' /\ RunIsLast' /\ HeadKept' /\ OnceKept'
  BY <1>1, <1>2 DEF Ranged, RunIsLast, HeadKept, OnceKept
<1>6. Ordered(history', store', prefix')
  BY <1>1, <1>2
<1> QED
  BY <1>4, <1>5, <1>6 DEF RecordKept

(* Every entry of the history is still in it. *)
HistoryHeld == \A i \in 1 .. Len(history) : Holds(history', history[i])

(* A new message, from the loop or from inside the CompactDone callback. *)
LEMMA InputKeeps ==
  ASSUME SessionInv, Input
  PROVE  SessionInv' /\ HistoryHeld
<1>1. /\ history \in Seq(Entries) /\ store \in Seq(Entries) /\ prefix \in Nat
      /\ pendingText \in 0 .. MaxIds /\ fresh \in 0 .. MaxIds /\ known \in Int /\ MaxIds \in Nat
      /\ retrying \in BOOLEAN /\ alive \in BOOLEAN /\ limit \in Limits /\ withdrawn \subseteq Ids
  BY NumberAssumption DEF SessionInv, SessionTypeOK
<1>2. /\ alive /\ query = "none" /\ fresh < MaxIds /\ fresh' = fresh + 1
      /\ Admit(fresh + 1, pendingText)
      /\ store' = store /\ prefix' = prefix /\ retrying' = retrying /\ limit' = limit
      /\ withdrawn' = withdrawn /\ alive' = alive
  BY DEF Input
<1>3. Named /\ QueueWaits /\ RecordKept /\ SessionTypeOK
  BY DEF SessionInv, RecordKept
<1>4. fresh + 1 \in Ids /\ pendingText \in Nat /\ pendingText <= fresh
  BY <1>1, <1>2, <1>3 DEF Ids, Named
<1>5. Nameless(history, fresh + 1) /\ Nameless(store, fresh + 1)
  <2>1. \A i \in 1 .. Len(history) : history[i].id \in Nat /\ history[i].id <= fresh
    BY <1>1, <1>3, IdsArePositive DEF Named
  <2>2. \A i \in 1 .. Len(store) : store[i].id \in Nat /\ store[i].id <= fresh
    BY <1>1, <1>3, IdsArePositive DEF Named
  <2> QED
    BY <1>1, <2>1, <2>2 DEF Nameless
<1>6. Nameless(history, pendingText) /\ Nameless(store, pendingText)
  BY <1>3 DEF Named
<1>7. RecordKept' /\ HistoryHeld
  BY <1>1, <1>2, <1>3, <1>4, <1>5, <1>6, AdmitKeeps DEF HistoryHeld
<1>8. QueueWaits'
  <2>1. ~overcounted => \A j \in Ids : inputFate[j] = "queued" => pendingText = j /\ retrying'
    BY <1>2, <1>3 DEF QueueWaits
  <2> QED
    BY <1>2, <1>3, <1>4, <2>1, AdmitWaits
<1>9. SessionTypeOK'
  <2>1. /\ query' \in {"none", "main", "compact"} /\ range' \in Nat \X Nat
        /\ pendingText' \in 0 .. MaxIds
        /\ lastCompact' \in Nat /\ known' \in Int /\ delta' \in Nat
        /\ inputFate' \in [Ids -> Fates] /\ overcounted' \in BOOLEAN
    BY <1>1, <1>2, <1>3, <1>4, AdmitTypes
  <2>2. history' \in Seq(Entries)
    BY <1>7 DEF RecordKept, Ordered
  <2>3. fresh' \in 0 .. MaxIds
    BY <1>1, <1>2
  <2> QED
    BY <1>1, <1>2, <2>1, <2>2, <2>3 DEF SessionTypeOK, Fates
<1> QED
  BY <1>7, <1>8, <1>9 DEF SessionInv

(* The retry of the message that waited. *)
LEMMA AutoRetryKeeps ==
  ASSUME SessionInv, AutoRetry
  PROVE  SessionInv' /\ HistoryHeld
<1>1. /\ history \in Seq(Entries) /\ store \in Seq(Entries) /\ prefix \in Nat
      /\ pendingText \in 0 .. MaxIds /\ fresh \in 0 .. MaxIds /\ known \in Int /\ MaxIds \in Nat
      /\ retrying \in BOOLEAN /\ alive \in BOOLEAN /\ limit \in Limits /\ withdrawn \subseteq Ids
      /\ query \in {"none", "main", "compact"} /\ range \in Nat \X Nat
      /\ lastCompact \in Nat /\ delta \in Nat
      /\ inputFate \in [Ids -> Fates] /\ overcounted \in BOOLEAN
  BY NumberAssumption DEF SessionInv, SessionTypeOK, Fates
<1>2. /\ alive /\ retrying /\ retrying' = FALSE
      /\ store' = store /\ prefix' = prefix /\ limit' = limit
      /\ withdrawn' = withdrawn /\ fresh' = fresh /\ alive' = alive
  BY DEF AutoRetry
<1>3. Named /\ QueueWaits /\ RecordKept /\ SessionTypeOK
  BY DEF SessionInv, RecordKept
<1>4. Nameless(history, 0) /\ Nameless(store, 0)
  BY <1>1, IdsArePositive
<1>5. CASE pendingText # 0 /\ query = "none"
  <2>1. Admit(pendingText, 0) /\ pendingText \in Ids /\ 0 \in 0 .. MaxIds
    BY <1>1, <1>5 DEF AutoRetry, Ids
  <2>2. pendingText <= fresh /\ fresh \in Nat /\ 0 <= fresh
    BY <1>1, <1>3 DEF Named
  <2>3. Nameless(history, pendingText) /\ Nameless(store, pendingText)
    BY <1>3 DEF Named
  <2>4. RecordKept' /\ HistoryHeld
    BY <1>1, <1>2, <1>3, <1>4, <1>5, <2>1, <2>2, <2>3, AdmitKeeps DEF HistoryHeld
  <2>5. QueueWaits'
    <3>1. ~overcounted => \A j \in Ids : inputFate[j] = "queued" => pendingText = j
      BY <1>3 DEF QueueWaits
    <3> QED
      BY <1>2, <1>3, <1>5, <2>1, <3>1, AdmitWaits
  <2>6. SessionTypeOK'
    <3>1. /\ query' \in {"none", "main", "compact"} /\ range' \in Nat \X Nat
          /\ pendingText' \in 0 .. MaxIds
          /\ lastCompact' \in Nat /\ known' \in Int /\ delta' \in Nat
          /\ inputFate' \in [Ids -> Fates] /\ overcounted' \in BOOLEAN
      BY <1>3, <2>1, AdmitTypes
    <3>2. history' \in Seq(Entries)
      BY <2>4 DEF RecordKept, Ordered
    <3> QED
      BY <1>1, <1>2, <3>1, <3>2 DEF SessionTypeOK, Fates
  <2> QED
    BY <2>4, <2>5, <2>6 DEF SessionInv
<1>6. CASE ~(pendingText # 0 /\ query = "none")
  <2>1. /\ pendingText' = 0
        /\ inputFate' = IF pendingText = 0 THEN inputFate ELSE [inputFate EXCEPT ![pendingText] = "lost"]
        /\ UNCHANGED <<history, query, range, lastCompact, known, delta, overcounted>>
    BY <1>6 DEF AutoRetry, budget
  <2>2. RecordKept'
    <3>1. UNCHANGED <<record, fresh, query, range, alive>> /\ pendingText' \in {pendingText, 0} /\ fresh \in Nat
      BY <1>1, <1>2, <2>1 DEF record
    <3> QED
      BY <1>3, <3>1, SameRecord
  <2>3. HistoryHeld
    BY <1>1, <2>1, HoldsIn, SameIsEquivalence DEF HistoryHeld
  <2>4. inputFate' \in [Ids -> Fates]
    BY <1>1, <2>1 DEF Fates
  <2>5. SessionTypeOK'
    <3>1. pendingText' \in 0 .. MaxIds
      BY <1>1, <2>1
    <3>2. retrying' \in BOOLEAN
      BY <1>2, Zenon
    <3> QED
      BY <1>2, <1>3, <2>1, <2>4, <3>1, <3>2 DEF SessionTypeOK, Fates
  <2>6. QueueWaits'
    <3>1. ~overcounted => \A j \in Ids : inputFate[j] = "queued" => pendingText = j
      BY <1>3 DEF QueueWaits
    <3>2. ~overcounted => \A j \in Ids : inputFate'[j] # "queued"
      <4> SUFFICES ASSUME ~overcounted, NEW j \in Ids, inputFate'[j] = "queued" PROVE FALSE
        OBVIOUS
      <4>1. CASE pendingText = 0
        BY <1>1, <2>1, <3>1, <4>1 DEF Ids
      <4>2. CASE pendingText # 0
        BY <1>1, <2>1, <3>1, <4>2
      <4> QED
        BY <4>1, <4>2
    <3>3. query = "compact" => Policy = "Summarize" /\ (overcounted \/ FALSE)
      BY <1>2, <1>3 DEF QueueWaits
    <3> QED
      BY <1>2, <2>1, <3>2, <3>3 DEF QueueWaits
  <2> QED
    BY <2>2, <2>3, <2>5, <2>6 DEF SessionInv
<1> QED
  BY <1>5, <1>6

(* The end of a run, whatever it produced. *)
LEMMA RunDoneKeeps ==
  ASSUME SessionInv, RunDone
  PROVE  SessionInv' /\ HistoryHeld
<1>1. /\ history \in Seq(Entries) /\ store \in Seq(Entries) /\ prefix \in Nat
      /\ known \in Int /\ delta \in Nat /\ inputFate \in [Ids -> Fates] /\ fresh \in Nat
  BY NumberAssumption DEF SessionInv, SessionTypeOK, Fates
<1>2. /\ query = "main" /\ ~retrying /\ query' = "none"
      /\ UNCHANGED <<store, prefix, range, pendingText, retrying, lastCompact, limit, withdrawn, fresh,
                     overcounted, alive>>
  BY DEF RunDone
<1> DEFINE m == history[Len(history)].id
<1>3. PICK batch \in Produced(m), report \in Reports \cup {0} :
        /\ history' = history \o batch
        /\ known' = IF report > 0 THEN report ELSE known
        /\ delta' = (IF report > 0 THEN 0 ELSE delta) + Len(batch)
        /\ inputFate' = [inputFate EXCEPT ![m] = "done"]
  BY DEF RunDone
<1>4. /\ Ordered(history, store, prefix) /\ Ranged /\ RunIsLast /\ Named /\ HeadKept /\ OnceKept
      /\ QueueWaits /\ SessionTypeOK
  BY DEF SessionInv, RecordKept
<1>5. /\ Len(history) # 0 /\ history[Len(history)].kind = "user"
      /\ \A i \in 1 .. Len(history) : history[i].id = m => i = Len(history)
      /\ Nameless(store, m)
  BY <1>2, <1>4 DEF RunIsLast
<1>6. m \in Ids /\ m \in Nat /\ Len(history) \in Nat /\ m <= fresh /\ m # pendingText
  <2>1. Len(history) \in Nat /\ Len(history) \in 1 .. Len(history)
    BY <1>1, <1>5
  <2> QED
    BY <1>1, <1>4, <2>1, IdsArePositive DEF Named, Nameless
<1> HIDE DEF m
<1>7. /\ history' \in Seq(Entries) /\ Len(history) \in Nat /\ Len(history) <= Len(history') /\ Len(batch) \in Nat
      /\ \A i \in 1 .. Len(history) : history'[i] = history[i]
      /\ \A i \in 1 .. Len(history') : i > Len(history) => history'[i].id = m
      /\ LastTurn(history', history, store, Len(history), m)
      /\ TurnsUpTo(history', Len(history)) = Cardinality(UserTurns(history))
      /\ Cardinality(UserTurns(history)) <= Cardinality(UserTurns(history'))
  <2>1. IsMerged(history', history, batch)
    BY <1>3 DEF IsMerged
  <2>2. history[Len(history)].id = m
    BY DEF m
  <2> QED
    BY <1>1, <1>5, <1>6, <2>1, <2>2, BatchGrows
<1>8. /\ Ordered(history', store, prefix)
      /\ Stored(history, store, prefix) /\ TurnsUpTo(history', Len(history)) > KeepHead
           => Stored(history', store, prefix)
      /\ Once(history, store, prefix) => Once(history', store, prefix)
  BY <1>4, <1>7, GrowKeeps
<1>9. HistoryHeld
  <2>1. \A i \in 1 .. Len(history) : i \in 1 .. Len(history')
    BY <1>7
  <2> QED
    BY <1>7, <2>1, HoldsIn, SameIsEquivalence DEF HistoryHeld
<1>10. HeadKept'
  <2> SUFFICES ASSUME KeepHead <= Primed PROVE HeadKept'
    BY DEF HeadKept
  <2>1. Stored(history, store, prefix) /\ KeepHead < Cardinality(UserTurns(history))
    BY <1>2, <1>4 DEF HeadKept
  <2>2. KeepHead \in Nat /\ Cardinality(UserTurns(history)) \in Nat /\ Cardinality(UserTurns(history')) \in Nat
    BY <1>1, <1>7, NumberAssumption, TurnSets
  <2>3. Stored(history', store, prefix)
    BY <1>7, <1>8, <2>1, <2>2
  <2>4. KeepHead <= Cardinality(UserTurns(history'))
    BY <1>7, <2>1, <2>2
  <2> QED
    BY <1>2, <2>3, <2>4 DEF HeadKept
<1>11. OnceKept' /\ Ranged' /\ RunIsLast'
  BY <1>2, <1>4, <1>8 DEF OnceKept, Ranged, RunIsLast
<1>12. Named'
  <2>1. ASSUME NEW i \in 1 .. Len(history') PROVE history'[i].id <= fresh /\ history'[i].id # pendingText
    <3>1. CASE i > Len(history)
      BY <1>6, <1>7, <3>1
    <3>2. CASE i <= Len(history)
      <4>1. i \in 1 .. Len(history)
        BY <1>7, <3>2
      <4> QED
        BY <1>4, <1>7, <4>1 DEF Named, Nameless
    <3> QED
      BY <1>7, <3>1, <3>2
  <2> QED
    BY <1>2, <1>4, <2>1 DEF Named, Nameless
<1>13. RecordKept'
  <2>1. Ordered(history', store', prefix')
    BY <1>2, <1>8
  <2> QED
    BY <1>10, <1>11, <1>12, <2>1 DEF RecordKept
<1>14. SessionTypeOK'
  <2>1. known' \in Int /\ delta' \in Nat
    BY <1>1, <1>3, <1>7, NumberAssumption
  <2>2. inputFate' \in [Ids -> Fates]
    BY <1>1, <1>3 DEF Fates
  <2> QED
    BY <1>2, <1>4, <1>7, <2>1, <2>2 DEF SessionTypeOK, Fates
<1>15. QueueWaits'
  <2>1. overcounted \/ \A j \in Ids : inputFate[j] # "queued"
    BY <1>2, <1>4 DEF QueueWaits
  <2>2. overcounted \/ \A j \in Ids : inputFate'[j] # "queued"
    BY <1>1, <1>3, <2>1
  <2> QED
    BY <1>2, <2>2 DEF QueueWaits
<1> QED
  BY <1>9, <1>13, <1>14, <1>15 DEF SessionInv

(* A turn among the last KeepTail is still in the history. *)
TailHeld ==
  \A i \in UserTurns(history) :
    Cardinality({j \in UserTurns(history) : j > i}) < KeepTail => Holds(history', history[i])

(* An entry of the history is still in it or is stored. *)
RecordHeld == \A i \in 1 .. Len(history) : Holds(history', history[i]) \/ Holds(store', history[i])

(* A summary with text: its range is replaced in the history and stored. *)
LEMMA SummaryCuts ==
  ASSUME SessionInv, query = "compact", NEW a, NEW b, NEW e,
         a = range[1], b = range[2], e = Entry("summary", history[range[2]].id),
         store' = Append(store \o Unstored(a, b), e),
         history' = SubSeq(history, 1, a) \o <<e>> \o SubSeq(history, b + 1, Len(history)),
         prefix' = PrefixAfter(a, b)
  PROVE  /\ Summarised(history, store, prefix, a, b, Larger(a, Smaller(prefix, b)), e,
                       history', store', prefix')
         /\ Cuts(history, a, b)
<1>1. Ordered(history, store, prefix) /\ CanCompact(history) /\ range = CompactRange(history)
  BY DEF SessionInv, RecordKept, Ranged
<1>2. history \in Seq(Entries)
  BY <1>1 DEF Ordered
<1>3. <<a, b>> = CompactRange(history)
  <2>1. range \in Nat \X Nat
    BY DEF SessionInv, SessionTypeOK
  <2> QED
    BY <1>1, <2>1
<1>4. Cuts(history, a, b)
  BY <1>1, <1>2, <1>3, RangeCuts
<1>5. Replaces(history, store, prefix, a, b, Larger(a, Smaller(prefix, b)), e, history', store', prefix')
  BY DEF Replaces, Spliced, Extended, Unstored, PrefixAfter
<1> QED
  BY <1>1, <1>4, <1>5 DEF Summarised

(* The end of a summary, with text or without. *)
LEMMA SummaryDoneKeeps ==
  ASSUME SessionInv, SummaryDone
  PROVE  /\ SessionInv' /\ TailHeld
         /\ KeepHead <= Primed => RecordHeld
<1>1. /\ history \in Seq(Entries) /\ store \in Seq(Entries) /\ prefix \in Nat
      /\ fresh \in Nat /\ Len(history) \in Nat /\ lastCompact \in Nat
  BY NumberAssumption DEF SessionInv, SessionTypeOK
<1>2. /\ query = "compact" /\ range' = NoRange /\ query' = "none" /\ retrying' = TRUE
      /\ UNCHANGED <<pendingText, lastCompact, limit, inputFate, withdrawn, fresh, overcounted, alive>>
  BY DEF SummaryDone, ghost
<1>3. /\ Ordered(history, store, prefix) /\ Ranged /\ RunIsLast /\ Named /\ HeadKept /\ OnceKept
      /\ QueueWaits /\ SessionTypeOK /\ RecordKept
  BY DEF SessionInv, RecordKept
<1> DEFINE a == range[1]
           b == range[2]
           e == Entry("summary", history[range[2]].id)
           c == Larger(a, Smaller(prefix, b))
<1>4. CASE /\ store' = Append(store \o Unstored(a, b), e)
           /\ history' = SubSeq(history, 1, a) \o <<e>> \o SubSeq(history, b + 1, Len(history))
           /\ prefix' = PrefixAfter(a, b)
           /\ known' = -1 /\ delta' = 0
  <2>1. Summarised(history, store, prefix, a, b, c, e, history', store', prefix') /\ Cuts(history, a, b)
    BY <1>2, <1>4, SummaryCuts
  <2> HIDE DEF a, b, c, e
  <2>2. Ordered(history', store', prefix')
    BY <2>1, CutKeeps
  <2>3. HeadKept'
    <3> SUFFICES ASSUME KeepHead <= Primed PROVE HeadKept'
      BY DEF HeadKept
    <3>1. Stored(history, store, prefix)
      BY <1>3 DEF HeadKept
    <3>2. Stored(history', store', prefix') /\ KeepHead <= Cardinality(UserTurns(history'))
      BY <2>1, <3>1, CutStored
    <3> QED
      BY <1>2, <3>2 DEF HeadKept
  <2>4. OnceKept'
    <3> SUFFICES ASSUME Primed <= KeepHead \/ KeepTail = 0 PROVE OnceKept'
      BY DEF OnceKept
    <3>1. Once(history, store, prefix)
      BY <1>3 DEF OnceKept
    <3>2. Once(history', store', prefix')
      BY <2>1, <3>1, CutOnce
    <3> QED
      BY <3>2 DEF OnceKept
  <2>5. Named'
    <3>1. /\ \A i \in 1 .. Len(history') : \E x \in 1 .. Len(history) : history'[i].id = history[x].id
          /\ \A i \in 1 .. Len(store') : \/ \E x \in 1 .. Len(history) : store'[i].id = history[x].id
                                         \/ \E x \in 1 .. Len(store) : store'[i].id = store[x].id
      BY <2>1, CutIds
    <3>2. /\ \A x \in 1 .. Len(history) : history[x].id <= fresh /\ history[x].id # pendingText
          /\ \A x \in 1 .. Len(store) : store[x].id <= fresh /\ store[x].id # pendingText
          /\ pendingText <= fresh
      BY <1>3 DEF Named, Nameless
    <3>3. \A i \in 1 .. Len(history') : history'[i].id <= fresh /\ history'[i].id # pendingText
      BY <3>1, <3>2, Zenon
    <3>4. \A i \in 1 .. Len(store') : store'[i].id <= fresh /\ store'[i].id # pendingText
      BY <3>1, <3>2, Zenon
    <3> QED
      BY <1>2, <3>2, <3>3, <3>4 DEF Named, Nameless
  <2>6. RecordKept'
    BY <1>2, <2>2, <2>3, <2>4, <2>5 DEF RecordKept, Ranged, RunIsLast
  <2>7. SessionTypeOK'
    <3>1. history' \in Seq(Entries) /\ store' \in Seq(Entries) /\ prefix' \in Nat
      BY <2>2 DEF Ordered
    <3>2. range' \in Nat \X Nat /\ known' \in Int /\ delta' \in Nat
      BY <1>2, <1>4 DEF NoRange
    <3>3. retrying' \in BOOLEAN /\ query' \in {"none", "main", "compact"}
      BY <1>2, Zenon
    <3> QED
      BY <1>2, <1>3, <3>1, <3>2, <3>3 DEF SessionTypeOK
  <2>8. QueueWaits'
    <3>1. Len(history') <= Len(history)
      <4>1. Len(history') = a + 1 + (Len(history) - b)
        BY <2>1, CutHistory
      <4>2. a \in Nat /\ b \in Nat /\ a < b /\ b <= Len(history)
        BY <2>1, CutNumbers
      <4> QED
        BY <1>1, <4>1, <4>2
    <3>2. overcounted \/ Tried'
      <4>1. Len(history') \in Nat
        BY <2>2, LenProperties DEF Ordered
      <4>2. overcounted \/ (lastCompact > 0 /\ Len(history) <= lastCompact)
        BY <1>2, <1>3 DEF QueueWaits, Tried
      <4> QED
        BY <1>1, <1>2, <3>1, <4>1, <4>2 DEF Tried
    <3>3. Policy = "Summarize"
      BY <1>2, <1>3 DEF QueueWaits
    <3>4. overcounted \/ \A j \in Ids : inputFate[j] = "queued" => pendingText = j
      BY <1>3 DEF QueueWaits
    <3> QED
      BY <1>2, <3>2, <3>3, <3>4 DEF QueueWaits
  <2>9. TailHeld
    BY <2>1, CutKeepsTail DEF TailHeld
  <2>10. KeepHead <= Primed => RecordHeld
    BY <1>3, <2>1, CutStored DEF HeadKept, RecordHeld
  <2> QED
    BY <2>6, <2>7, <2>8, <2>9, <2>10 DEF SessionInv
<1>5. CASE UNCHANGED <<history, store, prefix, known, delta>>
  <2>1. Named' /\ HeadKept' /\ OnceKept' /\ Ranged' /\ RunIsLast'
    BY <1>2, <1>3, <1>5 DEF Named, Nameless, HeadKept, OnceKept, Ranged, RunIsLast
  <2>2. RecordKept'
    BY <1>3, <1>5, <2>1 DEF RecordKept
  <2>3. SessionTypeOK'
    <3>1. retrying' \in BOOLEAN /\ query' \in {"none", "main", "compact"}
      BY <1>2, Zenon
    <3>2. range' \in Nat \X Nat
      BY <1>2 DEF NoRange
    <3> QED
      BY <1>2, <1>3, <1>5, <3>1, <3>2 DEF SessionTypeOK
  <2>4. QueueWaits'
    BY <1>2, <1>3, <1>5 DEF QueueWaits, Tried
  <2>5. \A i \in 1 .. Len(history) : Holds(history', history[i])
    BY <1>1, <1>5, HoldsIn, SameIsEquivalence
  <2>6. TailHeld /\ RecordHeld
    BY <1>1, <2>5, TurnIn DEF TailHeld, RecordHeld
  <2> QED
    BY <2>2, <2>3, <2>4, <2>6 DEF SessionInv
<1>6. \/ /\ store' = Append(store \o Unstored(a, b), e)
         /\ history' = SubSeq(history, 1, a) \o <<e>> \o SubSeq(history, b + 1, Len(history))
         /\ prefix' = PrefixAfter(a, b)
         /\ known' = -1 /\ delta' = 0
      \/ UNCHANGED <<history, store, prefix, known, delta>>
  BY DEF SummaryDone, record
<1> QED
  BY <1>4, <1>5, <1>6

(* The cancel of a summary. *)
LEMMA CancelSummaryKeeps ==
  ASSUME SessionInv, CancelSummary
  PROVE  SessionInv' /\ HistoryHeld
<1>1. /\ UNCHANGED <<history, store, prefix, query, range, pendingText, retrying, lastCompact, known, delta,
                     limit, inputFate, fresh, overcounted, alive>>
      /\ withdrawn' = withdrawn \cup ({pendingText} \ {0})
  BY DEF CancelSummary, record, work, budget
<1>2. /\ SessionTypeOK /\ RecordKept /\ QueueWaits
      /\ history \in Seq(Entries) /\ pendingText \in 0 .. MaxIds /\ withdrawn \subseteq Ids /\ fresh \in Nat
  BY NumberAssumption DEF SessionInv, SessionTypeOK
<1>3. withdrawn' \subseteq Ids
  BY <1>1, <1>2 DEF Ids
<1>4. SessionTypeOK'
  BY <1>1, <1>2, <1>3 DEF SessionTypeOK
<1>5. RecordKept'
  BY <1>1, <1>2, SameRecord DEF record
<1>6. QueueWaits'
  BY <1>1, <1>2 DEF QueueWaits, Tried
<1>7. HistoryHeld
  BY <1>1, <1>2, HoldsIn, SameIsEquivalence DEF HistoryHeld
<1> QED
  BY <1>4, <1>5, <1>6, <1>7 DEF SessionInv

(* A new context window. *)
LEMMA SetContextWindowKeeps ==
  ASSUME SessionInv, SetContextWindow
  PROVE  SessionInv' /\ HistoryHeld
<1>1. /\ UNCHANGED <<history, store, prefix, query, range, pendingText, retrying, lastCompact, known, delta,
                     inputFate, withdrawn, fresh, overcounted, alive>>
      /\ limit' \in Limits /\ ~retrying
  BY DEF SetContextWindow, record, work, budget, ghost
<1>2. /\ SessionTypeOK /\ RecordKept /\ QueueWaits
      /\ history \in Seq(Entries) /\ fresh \in Nat
  BY NumberAssumption DEF SessionInv, SessionTypeOK
<1>4. SessionTypeOK'
  BY <1>1, <1>2 DEF SessionTypeOK
<1>5. RecordKept'
  BY <1>1, <1>2, SameRecord DEF record
<1>6. QueueWaits'
  BY <1>1, <1>2 DEF QueueWaits, Tried
<1>7. HistoryHeld
  BY <1>1, <1>2, HoldsIn, SameIsEquivalence DEF HistoryHeld
<1> QED
  BY <1>4, <1>5, <1>6, <1>7 DEF SessionInv

(* What the prefix does not count is appended to the store at the end. *)
IsFlushed(t, h, s, p) == t = s \o SubSeq(h, p + 1, Len(h))

(* Where the entries of the store come from after the flush at the end. *)
LEMMA FlushFacts ==
  ASSUME NEW h \in Seq(Entries), NEW s \in Seq(Entries), NEW p \in Nat, p <= Len(h),
         NEW t, IsFlushed(t, h, s, p)
  PROVE  /\ t \in Seq(Entries) /\ Len(t) = Len(s) + (Len(h) - p) /\ Len(s) \in Nat /\ Len(h) \in Nat
         /\ \A i \in 1 .. Len(s) : i \in 1 .. Len(t) /\ t[i] = s[i]
         /\ \A i \in 1 .. Len(t) :
              i > Len(s) => i - Len(s) + p \in p + 1 .. Len(h) /\ t[i] = h[i - Len(s) + p]
         /\ \A x \in p + 1 .. Len(h) : x - p + Len(s) \in 1 .. Len(t) /\ t[x - p + Len(s)] = h[x]
<1> DEFINE v == SubSeq(h, p + 1, Len(h))
           n == Len(h)
<1>1. n \in Nat /\ Len(s) \in Nat /\ \A i \in 1 .. n : h[i] \in Entries
  BY LenProperties, ElementOfSeq
<1>2. v \in Seq(Entries) /\ Len(v) = n - p /\ \A i \in 1 .. n - p : v[i] = h[p + i]
  <2>1. \A i \in p + 1 .. n : h[i] \in Entries
    BY <1>1
  <2>2. /\ SubSeq(h, p + 1, n) \in Seq(Entries)
        /\ Len(SubSeq(h, p + 1, n)) = IF p + 1 <= n THEN n - (p + 1) + 1 ELSE 0
        /\ \A i \in 1 .. n - (p + 1) + 1 : SubSeq(h, p + 1, n)[i] = h[p + 1 + i - 1]
    BY <1>1, <2>1, SubSeqProperties
  <2> QED
    BY <1>1, <2>2
<1> HIDE DEF v
<1>3. /\ s \o v \in Seq(Entries) /\ Len(s \o v) = Len(s) + Len(v)
      /\ \A i \in 1 .. Len(s) + Len(v) : (s \o v)[i] = IF i <= Len(s) THEN s[i] ELSE v[i - Len(s)]
  BY <1>2, ConcatProperties, Zenon
<1>4. t = s \o v
  BY DEF IsFlushed, v
<1> HIDE DEF n
<1>5. t \in Seq(Entries) /\ Len(t) = Len(s) + (n - p) /\ p <= n
  BY <1>2, <1>3, <1>4 DEF n
<1>6. \A i \in 1 .. Len(s) : i \in 1 .. Len(t) /\ t[i] = s[i]
  BY <1>1, <1>2, <1>3, <1>4, <1>5
<1>7. ASSUME NEW i \in 1 .. Len(t), i > Len(s)
      PROVE  i - Len(s) + p \in p + 1 .. n /\ t[i] = h[i - Len(s) + p]
  <2>1. i - Len(s) \in 1 .. n - p /\ p + (i - Len(s)) = i - Len(s) + p /\ i \in 1 .. Len(s) + Len(v)
        /\ ~(i <= Len(s)) /\ i - Len(s) + p \in p + 1 .. n
    BY <1>1, <1>2, <1>5, <1>7
  <2>2. t[i] = v[i - Len(s)]
    BY <1>3, <1>4, <2>1
  <2>3. v[i - Len(s)] = h[p + (i - Len(s))]
    BY <1>2, <2>1
  <2> QED
    BY <2>1, <2>2, <2>3
<1>8. ASSUME NEW x \in p + 1 .. n
      PROVE  x - p + Len(s) \in 1 .. Len(t) /\ t[x - p + Len(s)] = h[x]
  <2>1. x - p + Len(s) \in 1 .. Len(t) /\ x - p + Len(s) > Len(s) /\ (x - p + Len(s)) - Len(s) + p = x
    BY <1>1, <1>5
  <2>2. t[x - p + Len(s)] = h[(x - p + Len(s)) - Len(s) + p]
    BY <1>7, <2>1
  <2> QED
    BY <2>1, <2>2
<1> QED
  BY <1>1, <1>5, <1>6, <1>7, <1>8 DEF n

(* The end of the session: the rest of the history is stored once. *)
LEMMA DestroyKeeps ==
  ASSUME SessionInv, DestroySession
  PROVE  /\ SessionInv'
         /\ KeepHead <= Primed => RecordHeld
<1>1. /\ history \in Seq(Entries) /\ store \in Seq(Entries) /\ prefix \in Nat /\ prefix <= Len(history)
      /\ fresh \in 0 .. MaxIds /\ fresh \in Nat /\ inputFate \in [Ids -> Fates]
      /\ MaxIds \in Nat /\ KeepHead \in Nat
  BY NumberAssumption DEF SessionInv, SessionTypeOK, RecordKept, Ordered, Fates
<1>2. /\ ~retrying
      /\ store' = store \o SubSeq(history, prefix + 1, Len(history))
      /\ history' = <<>> /\ prefix' = 0 /\ alive' = FALSE
      /\ query' = "none" /\ range' = NoRange /\ pendingText' = 0
      /\ inputFate' = [m \in Ids |-> IF inputFate[m] \in {"running", "queued"} THEN "dropped" ELSE inputFate[m]]
      /\ UNCHANGED <<retrying, lastCompact, known, delta, limit, withdrawn, fresh, overcounted>>
  BY DEF DestroySession, budget
<1>3. /\ Ordered(history, store, prefix) /\ Unlike(history) /\ Named /\ HeadKept /\ OnceKept
      /\ QueueWaits /\ SessionTypeOK
  BY DEF SessionInv, RecordKept, Ordered
<1>4. /\ store' \in Seq(Entries) /\ Len(store) \in Nat /\ Len(history) \in Nat
      /\ \A i \in 1 .. Len(store) : i \in 1 .. Len(store') /\ store'[i] = store[i]
      /\ \A i \in 1 .. Len(store') :
           i > Len(store) => /\ i - Len(store) + prefix \in prefix + 1 .. Len(history)
                             /\ store'[i] = history[i - Len(store) + prefix]
      /\ \A x \in prefix + 1 .. Len(history) :
           x - prefix + Len(store) \in 1 .. Len(store') /\ store'[x - prefix + Len(store)] = history[x]
  <2>1. IsFlushed(store', history, store, prefix)
    BY <1>2 DEF IsFlushed
  <2>2. \E t : t = store' /\ IsFlushed(t, history, store, prefix)
    BY <2>1
  <2>3. PICK t : t = store' /\ IsFlushed(t, history, store, prefix)
    BY <2>2
  <2>4. /\ t \in Seq(Entries) /\ Len(t) = Len(store) + (Len(history) - prefix)
        /\ Len(store) \in Nat /\ Len(history) \in Nat
    BY <1>1, <2>3, FlushFacts
  <2>5. \A i \in 1 .. Len(store) : i \in 1 .. Len(t) /\ t[i] = store[i]
    BY <1>1, <2>3, FlushFacts
  <2>6. \A i \in 1 .. Len(t) :
           i > Len(store) => /\ i - Len(store) + prefix \in prefix + 1 .. Len(history)
                             /\ t[i] = history[i - Len(store) + prefix]
    BY <1>1, <2>3, FlushFacts
  <2>7. \A x \in prefix + 1 .. Len(history) :
           x - prefix + Len(store) \in 1 .. Len(t) /\ t[x - prefix + Len(store)] = history[x]
    BY <1>1, <2>3, FlushFacts
  <2> QED
    BY <2>3, <2>4, <2>5, <2>6, <2>7
<1>5. \A i \in 1 .. Len(store') :
        \/ i \in 1 .. Len(store) /\ store'[i] = store[i]
        \/ /\ i > Len(store) /\ i - Len(store) + prefix \in prefix + 1 .. Len(history)
           /\ store'[i] = history[i - Len(store) + prefix]
  <2> TAKE i \in 1 .. Len(store')
  <2>1. CASE i > Len(store)
    BY <1>4, <2>1
  <2>2. CASE i <= Len(store)
    <3>1. i \in 1 .. Len(store)
      BY <1>4, <2>2
    <3> QED
      BY <1>4, <3>1
  <2> QED
    BY <1>4, <2>1, <2>2
<1>6. \A x \in prefix + 1 .. Len(history) : x \in 1 .. Len(history) /\ x > prefix
  BY <1>1, <1>4
<1>7. history' \in Seq(Entries) /\ Len(history') = 0 /\ \A i \in 1 .. Len(history') : FALSE
  BY <1>2
<1>8. \A e : ~Holds(history', e)
  BY <1>7, HoldsIn
<1>9. UserTurns(history') = {}
  BY <1>7, TurnSets
<1>10. Ordered(history', store', prefix')
  <2>1. Apart(history') /\ SummariesFirst(history') /\ Unlike(history') /\ Replaced(history', store')
    BY <1>7 DEF Apart, SummariesFirst, Unlike, Replaced
  <2>2. Paired(history', store')
    BY <1>8 DEF Paired
  <2> QED
    BY <1>2, <1>4, <1>7, <2>1, <2>2 DEF Ordered
<1>11. HeadKept'
  BY <1>2, <1>7 DEF HeadKept, Stored
<1>12. OnceKept'
  <2> SUFFICES ASSUME Primed <= KeepHead \/ KeepTail = 0 PROVE Once(history', store', prefix')
    BY DEF OnceKept
  <2>1. /\ \A i, j \in 1 .. Len(store) : Same(store[i], store[j]) => i = j
        /\ \A i \in 1 .. Len(history) : i > prefix => ~Holds(store, history[i])
    BY <1>3 DEF OnceKept, Once
  <2>2. ASSUME NEW i \in 1 .. Len(store), NEW x \in prefix + 1 .. Len(history)
        PROVE  ~Same(store[i], history[x]) /\ ~Same(history[x], store[i])
    BY <1>1, <1>6, <2>1, HoldsIn, SameIsEquivalence
  <2>3. ASSUME NEW x \in prefix + 1 .. Len(history), NEW y \in prefix + 1 .. Len(history),
               Same(history[x], history[y])
        PROVE  x = y
    BY <1>3, <1>6, <2>3, Zenon DEF Unlike
  <2>4. ASSUME NEW i \in 1 .. Len(store'), NEW j \in 1 .. Len(store'), Same(store'[i], store'[j]) PROVE i = j
    <3> DEFINE x == i - Len(store) + prefix
               y == j - Len(store) + prefix
    <3>1. i \in Int /\ j \in Int
      OBVIOUS
    <3>2. x = y => i = j
      BY <1>1, <1>4, <3>1
    <3>3. \/ i \in 1 .. Len(store) /\ store'[i] = store[i]
          \/ x \in prefix + 1 .. Len(history) /\ store'[i] = history[x]
      BY <1>5
    <3>4. \/ j \in 1 .. Len(store) /\ store'[j] = store[j]
          \/ y \in prefix + 1 .. Len(history) /\ store'[j] = history[y]
      BY <1>5
    <3> HIDE DEF x, y
    <3> QED
      BY <2>1, <2>2, <2>3, <2>4, <3>2, <3>3, <3>4, Zenon
  <2>5. TurnsUpTo(history', prefix') <= KeepHead
    <3>1. {j \in UserTurns(history') : j <= prefix'} = {}
      BY <1>9
    <3>2. TurnsUpTo(history', prefix') = 0
      BY <3>1, FS_EmptySet, Zenon DEF TurnsUpTo
    <3> QED
      BY <1>1, <3>2
  <2> QED
    BY <1>7, <2>4, <2>5 DEF Once
<1>13. Named'
  <2>1. /\ \A i \in 1 .. Len(store) : store[i].id <= fresh
        /\ \A i \in 1 .. Len(history) : history[i].id <= fresh
    BY <1>3 DEF Named
  <2>2. \A i \in 1 .. Len(store') : store'[i].id <= fresh
    BY <1>5, <1>6, <2>1, Zenon
  <2>3. Nameless(store', 0)
    BY <1>4, IdsArePositive
  <2>4. 0 <= fresh
    BY <1>1
  <2> QED
    BY <1>2, <1>7, <2>2, <2>3, <2>4 DEF Named, Nameless
<1>14. RecordKept'
  BY <1>2, <1>10, <1>11, <1>12, <1>13 DEF RecordKept, Ranged, RunIsLast
<1>15. SessionTypeOK'
  <2>1. inputFate' \in [Ids -> Fates]
    <3>1. \A m \in Ids : (IF inputFate[m] \in {"running", "queued"} THEN "dropped" ELSE inputFate[m]) \in Fates
      BY <1>1 DEF Fates
    <3> QED
      BY <1>2, <3>1
  <2>2. alive' \in BOOLEAN /\ query' \in {"none", "main", "compact"}
    BY <1>2, Zenon
  <2>3. range' \in Nat \X Nat /\ pendingText' \in 0 .. MaxIds /\ prefix' \in Nat
    BY <1>1, <1>2 DEF NoRange
  <2> QED
    BY <1>2, <1>3, <1>4, <1>7, <2>1, <2>2, <2>3 DEF SessionTypeOK, Fates
<1>16. QueueWaits'
  <2>1. \A m \in Ids : inputFate'[m] # "queued"
    BY <1>1, <1>2
  <2> QED
    BY <1>2, <2>1 DEF QueueWaits
<1>17. ASSUME KeepHead <= Primed PROVE RecordHeld
  <2>1. \A i \in 1 .. Len(history) : i <= prefix => Holds(store, history[i])
    BY <1>3, <1>17 DEF HeadKept, Stored
  <2>2. ASSUME NEW i \in 1 .. Len(history) PROVE Holds(store', history[i])
    <3>1. CASE i <= prefix
      <4>1. Holds(store, history[i])
        BY <2>1, <3>1
      <4> QED
        BY <1>1, <1>4, <4>1, HoldsIn
    <3>2. CASE i > prefix
      <4>1. i \in prefix + 1 .. Len(history)
        BY <1>1, <1>4, <3>2
      <4>2. i - prefix + Len(store) \in 1 .. Len(store') /\ store'[i - prefix + Len(store)] = history[i]
        BY <1>4, <4>1
      <4> QED
        BY <1>4, <4>2, HoldsIn, SameIsEquivalence
    <3> QED
      BY <1>1, <3>1, <3>2
  <2> QED
    BY <2>2 DEF RecordHeld
<1> QED
  BY <1>14, <1>15, <1>16, <1>17 DEF SessionInv

(* The session is created with the replayed turns on record. *)
LEMMA SessionStarts == SessionInit => SessionInv
<1> SUFFICES ASSUME SessionInit PROVE SessionInv
  OBVIOUS
<1>1. RecordKept
  BY InitKept
<1>2. SessionTypeOK
  <2>1. history \in Seq(Entries) /\ store \in Seq(Entries) /\ prefix \in Nat
    BY <1>1 DEF RecordKept, Ordered
  <2>2. /\ query = "none" /\ range = NoRange /\ pendingText = 0 /\ retrying = FALSE
        /\ lastCompact = 0 /\ known = -1 /\ delta = 0 /\ limit \in Limits
        /\ inputFate = [m \in Ids |-> "none"] /\ withdrawn = {} /\ fresh = Primed
        /\ overcounted = FALSE /\ alive = TRUE
    BY DEF SessionInit
  <2>3. fresh \in 0 .. MaxIds /\ pendingText \in 0 .. MaxIds
    BY <2>2, NumberAssumption
  <2>4. retrying \in BOOLEAN /\ overcounted \in BOOLEAN /\ alive \in BOOLEAN
    BY <2>2, Zenon
  <2>5. range \in Nat \X Nat
    BY <2>2 DEF NoRange
  <2> QED
    BY <2>1, <2>2, <2>3, <2>4, <2>5 DEF SessionTypeOK
<1>3. QueueWaits
  BY DEF SessionInit, QueueWaits
<1> QED
  BY <1>1, <1>2, <1>3 DEF SessionInv

(* A step of something else. *)
LEMMA SessionStays ==
  ASSUME SessionInv, UNCHANGED sessionVars
  PROVE  SessionInv' /\ HistoryHeld
<1>1. UNCHANGED <<history, store, prefix, query, range, pendingText, retrying, lastCompact, known, delta,
                  limit, inputFate, withdrawn, fresh, overcounted, alive>>
  BY DEF sessionVars, record, work, budget, ghost
<1>2. /\ SessionTypeOK /\ RecordKept /\ QueueWaits
      /\ history \in Seq(Entries) /\ fresh \in Nat
  BY NumberAssumption DEF SessionInv, SessionTypeOK
<1>3. SessionTypeOK'
  BY <1>1, <1>2 DEF SessionTypeOK
<1>4. RecordKept'
  BY <1>1, <1>2, SameRecord DEF record
<1>5. QueueWaits'
  BY <1>1, <1>2 DEF QueueWaits, Tried
<1>6. HistoryHeld
  BY <1>1, <1>2, HoldsIn, SameIsEquivalence DEF HistoryHeld
<1> QED
  BY <1>3, <1>4, <1>5, <1>6 DEF SessionInv

(* Every step keeps the invariant; only a summary and the end take entries from the history. *)
LEMMA SessionSteps ==
  ASSUME SessionInv, [SessionNext]_sessionVars
  PROVE  /\ SessionInv'
         /\ HistoryHeld \/ SummaryDone \/ DestroySession
<1>1. CASE Input
  BY <1>1, InputKeeps
<1>2. CASE RunDone
  BY <1>2, RunDoneKeeps
<1>3. CASE SummaryDone
  BY <1>3, SummaryDoneKeeps
<1>4. CASE AutoRetry
  BY <1>4, AutoRetryKeeps
<1>5. CASE CancelSummary
  BY <1>5, CancelSummaryKeeps
<1>6. CASE SetContextWindow
  BY <1>6, SetContextWindowKeeps
<1>7. CASE DestroySession
  BY <1>7, DestroyKeeps
<1>8. CASE UNCHANGED sessionVars
  BY <1>8, SessionStays
<1> QED
  BY <1>1, <1>2, <1>3, <1>4, <1>5, <1>6, <1>7, <1>8 DEF SessionNext

(* The inductive invariant holds of every session: the record is in order,    *)
(* the summary in flight fits the history, and inputs wait where they should. *)
THEOREM SessionHolds == SessionSpec => []SessionInv
<1>1. SessionInit => SessionInv
  BY SessionStarts
<1>2. SessionInv /\ [SessionNext]_sessionVars => SessionInv'
  BY SessionSteps
<1> QED
  BY <1>1, <1>2, PTL DEF SessionSpec

(* The fields of a session have their types (session.c, struct xAgentSession_). *)
THEOREM SessionTypes == SessionSpec => []SessionTypeOK
<1>1. SessionInv => SessionTypeOK
  BY DEF SessionInv
<1> QED
  BY <1>1, SessionHolds, PTL

(* Whatever is summarised, trimmed or cut short, a tool_use of the history has *)
(* its tool_result and vice versa (session_enforce_budget_).                   *)
THEOREM SessionPairs == SessionSpec => []PairsKept
<1>1. SessionInv => PairsKept
  BY DEF SessionInv, RecordKept, Ordered, Paired, PairsKept
<1> QED
  BY <1>1, SessionHolds, PTL

(* The input that waits behind a summary is the one submitted again, until a    *)
(* refused run has left its message in the count (session_auto_retry_pending_). *)
THEOREM SessionQueue == SessionSpec => []QueuedIsPending
<1>1. SessionInv => QueuedIsPending
  BY DEF SessionInv, QueueWaits, QueuedIsPending
<1> QED
  BY <1>1, SessionHolds, PTL

(* The two sequences of the record, for the properties that index them. *)
LEMMA RecordTyped ==
  ASSUME SessionInv
  PROVE  /\ history \in Seq(Entries) /\ store \in Seq(Entries)
         /\ DOMAIN history = 1 .. Len(history) /\ DOMAIN store = 1 .. Len(store)
BY LenProperties DEF SessionInv, SessionTypeOK

(* persisted_prefix counts stored entries only, when at least as many turns were *)
(* replayed as the head keeps (sess_fwd_on_done).                                *)
THEOREM SessionPrefix ==
  ASSUME KeepHead <= Primed
  PROVE  SessionSpec => []PrefixIsStored
<1>1. SessionInv => PrefixIsStored
  <2> SUFFICES ASSUME SessionInv PROVE PrefixIsStored
    OBVIOUS
  <2>1. Stored(history, store, prefix)
    BY DEF SessionInv, RecordKept, HeadKept
  <2> QED
    BY <2>1, RecordTyped, Zenon DEF Stored, PrefixIsStored
<1> QED
  BY <1>1, SessionHolds, PTL

(* Nothing is stored twice, when no more turns were replayed than the head keeps *)
(* or no tail is kept (sess_fwd_on_done, xAgentSessionDestroy).                  *)
THEOREM SessionOnce ==
  ASSUME Primed <= KeepHead \/ KeepTail = 0
  PROVE  SessionSpec => []StoredOnce
<1>1. SessionInv => StoredOnce
  <2> SUFFICES ASSUME SessionInv PROVE StoredOnce
    OBVIOUS
  <2>1. Once(history, store, prefix)
    BY DEF SessionInv, RecordKept, OnceKept
  <2> QED
    BY <2>1, RecordTyped, Zenon DEF Once, StoredOnce
<1> QED
  BY <1>1, SessionHolds, PTL

(* The whole record invariant of the run, for every number of inputs and turns, *)
(* every window and every report, under the two conditions above together.      *)
THEOREM SessionRecord ==
  ASSUME KeepHead <= Primed, Primed <= KeepHead \/ KeepTail = 0
  PROVE  SessionSpec => []RecordInv
<1>1. SessionTypeOK /\ PrefixIsStored /\ StoredOnce /\ PairsKept /\ QueuedIsPending => RecordInv
  BY DEF RecordInv
<1>2. SessionSpec => []PrefixIsStored
  BY SessionPrefix
<1>3. SessionSpec => []StoredOnce
  BY SessionOnce
<1> QED
  BY <1>1, <1>2, <1>3, SessionTypes, SessionPairs, SessionQueue, PTL

(* The fact LatestTurnsKept and NothingForgotten say of a step. *)
LEMMA StepKeepsTail ==
  ASSUME SessionInv, [SessionNext]_sessionVars, alive'
  PROVE  TailHeld
<1>1. history \in Seq(Entries)
  BY RecordTyped
<1>2. HistoryHeld => TailHeld
  BY <1>1, TurnIn DEF HistoryHeld, TailHeld
<1>3. ~DestroySession
  BY DEF DestroySession
<1> QED
  BY <1>2, <1>3, SessionSteps, SummaryDoneKeeps

(* What leaves the history is stored, when the head is. *)
LEMMA StepForgetsNothing ==
  ASSUME KeepHead <= Primed, SessionInv, [SessionNext]_sessionVars
  PROVE  \A e \in Elements(history) : Holds(history' \o store', e)
<1>1. HistoryHeld => RecordHeld
  BY DEF HistoryHeld, RecordHeld
<1>2. RecordHeld
  BY <1>1, SessionSteps, SummaryDoneKeeps, DestroyKeeps
<1>3. SessionInv'
  BY SessionSteps
<1>4. history' \in Seq(Entries) /\ store' \in Seq(Entries)
  BY <1>3, RecordTyped DEF SessionInv, SessionTypeOK
<1>5. DOMAIN history = 1 .. Len(history)
  BY RecordTyped
<1>6. \A i \in 1 .. Len(history) : Holds(history' \o store', history[i])
  BY <1>2, <1>4, HoldsEither DEF RecordHeld
<1> QED
  BY <1>5, <1>6, Zenon DEF Elements

(* A summary leaves the latest KeepTail turns of the user in the history, for *)
(* all constants (session_enforce_budget_).                                   *)
THEOREM SessionKeepsTail == SessionSpec => LatestTurnsKept
<1>1. SessionInv /\ [SessionNext]_sessionVars =>
        [alive' => \A i \in UserTurns(history) :
           Cardinality({j \in UserTurns(history) : j > i}) < KeepTail => Holds(history', history[i])]_sessionVars
  BY StepKeepsTail DEF TailHeld
<1> QED
  BY <1>1, SessionHolds, PTL DEF LatestTurnsKept, SessionSpec

(* What leaves the history has been stored, when at least as many turns were *)
(* replayed as the head keeps (sess_fwd_on_done, xAgentSessionDestroy).      *)
THEOREM SessionForgetsNothing ==
  ASSUME KeepHead <= Primed
  PROVE  SessionSpec => NothingForgotten
<1>1. SessionInv /\ [SessionNext]_sessionVars =>
        [\A e \in Elements(history) : Holds(history' \o store', e)]_sessionVars
  BY StepForgetsNothing
<1> QED
  BY <1>1, SessionHolds, PTL DEF NothingForgotten, SessionSpec
================================================================================
