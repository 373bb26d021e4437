------------------------------ MODULE AgentQuery ------------------------------
(***************************************************************************)
(* One session's runs as libx/x/agent/query.c drives them: the query       *)
(* submits a round to the provider (provider_openai.c, one flight at a     *)
(* time), buffers the tool calls the model asks for, dispatches them (some *)
(* wait for the user's confirmation, some run asynchronously), submits the *)
(* next round and at last reports one on_done, upon which the session      *)
(* destroys the query.                                                     *)
(*                                                                         *)
(* Everything runs on the thread of the event loop, so the interleavings   *)
(* are re-entrant ones: `stack' holds the C frames of query.c that are     *)
(* active, the innermost first.  A frame that runs a callback of the host  *)
(* lets the host call back into the query.  The storage of a destroyed     *)
(* query is zeroed and kept for the next one, so a late event is delivered *)
(* to whatever lives there: a zeroed query answers "not running".          *)
(***************************************************************************)
EXTENDS Naturals, Sequences, FiniteSets

CONSTANTS
  Calls,        \* tool_use ids the provider may hand out, each at most once
  Guarded,      \* calls of tools created with needs_confirm
  Unknown,      \* calls that name no registered tool
  NoCall,       \* the call of a frame that is about none
  MaxRuns,      \* bound: queries created
  MaxBatch,     \* bound: tool calls in one assistant turn
  MaxTurns,     \* q->max_turns
  SyncResolve,  \* the host may resolve inside on_tool_confirm
  CallbackCancel,          \* the host may cancel inside a callback
  CancelWhileConfirming    \* the host may cancel with a resolver outstanding

ASSUME CallsAssumption ==
  /\ Guarded \subseteq Calls /\ Unknown \subseteq Calls
  /\ Guarded \cap Unknown = {} /\ NoCall \notin Calls
ASSUME BoundsAssumption ==
  /\ MaxRuns \in Nat \ {0} /\ MaxTurns \in Nat \ {0} /\ MaxBatch \in Nat
ASSUME HostAssumption ==
  /\ SyncResolve \in BOOLEAN /\ CallbackCancel \in BOOLEAN
  /\ CancelWhileConfirming \in BOOLEAN

VARIABLES
  gen,        \* queries created so far; the storage holds the last of them
  fate,       \* what became of each query
  reports,    \* the reasons each query handed to on_done
  cancelled,  \* q->cancelled
  turn,       \* q->turn: rounds submitted
  pending,    \* q->pending_arr: calls buffered in this round
  cursor,     \* the loop index of dispatch_pending_tools
  entry,      \* q->async_pending_arr, by tool_use id
  resolver,   \* the resolver handles in the host's hands, by tool_use id
  owner,      \* the query whose history holds the tool_use; 0 for none
  answers,    \* tool_result entries recorded for the call
  job,        \* the asynchronous operation of a handler that said Pending
  flight,     \* impl->in_flight: the query that submitted it, 0 when idle
  halted,     \* impl->cancelled
  stack       \* active frames, innermost first

run   == <<gen, fate, reports>>
inner == <<cancelled, turn, pending, entry, resolver>>
wire  == <<flight, halted>>
tools == <<owner, answers, job>>
vars  == <<run, inner, wire, tools, cursor, stack>>

Runs    == 1 .. MaxRuns
Reasons == {"Completed", "Aborted", "MaxTurns", "ToolError", "ModelError"}
Stops   == {"EndTurn", "MaxTokens", "ToolUse", "Error", "Cancelled"}
Fns     == {"dispatch", "drive", "confirm", "started", "ended"}
Frames  == [fn : Fns, call : Calls \cup {NoCall}]

Frame(f, c) == [fn |-> f, call |-> c]
Inside(f)   == stack # <<>> /\ Head(stack).fn = f
Topmost     == Head(stack).call

(* q->running.  A query that ended, or was never started, is not live. *)
Live == gen > 0 /\ fate[gen] = "live"

Waiting == {c \in Calls : entry[c] # "absent"}

(* Batches of distinct ids the provider has not used before. *)
Batches(S) == UNION {{s \in [1 .. n -> S] : \A i, j \in 1 .. n : i # j => s[i] # s[j]} :
                     n \in 0 .. MaxBatch}

Init ==
  /\ gen = 0
  /\ fate = [g \in Runs |-> "unused"]
  /\ reports = [g \in Runs |-> <<>>]
  /\ cancelled = FALSE /\ turn = 0 /\ pending = <<>> /\ cursor = 1
  /\ entry = [c \in Calls |-> "absent"]
  /\ resolver = [c \in Calls |-> "none"]
  /\ owner = [c \in Calls |-> 0]
  /\ answers = [c \in Calls |-> 0]
  /\ job = [c \in Calls |-> "none"]
  /\ flight = 0 /\ halted = FALSE
  /\ stack = <<>>

-------------------------------------------------------------------------------
(* Helpers of the handlers.  Each fixes `inner', `fate', `reports', `wire'. *)

(* Mutant: the host's resolvers keep pointing at the query. *)
KeepResolvers == UNCHANGED resolver

(* The resolver of an entry that is cancelled or released: r->q = NULL. *)
InvalidateResolvers ==
  resolver' = [c \in Calls |-> IF entry[c] = "confirm" /\ resolver[c] = "live"
                               THEN "stale" ELSE resolver[c]]

(* xAgentQueryDestroy's teardown: arrays released, struct zeroed. *)
Zeroed ==
  /\ cancelled' = FALSE /\ turn' = 0 /\ pending' = <<>>
  /\ entry' = [c \in Calls |-> "absent"]
  /\ InvalidateResolvers

(* Mutant: running is still set when on_done is called. *)
FinishStillRunning(reason) ==
  /\ reports' = [reports EXCEPT ![gen] = Append(@, reason)]
  /\ UNCHANGED <<fate, inner, wire>>

(* query_finalize, and the session's on_done forwarder that destroys the *)
(* query; nothing when the query is no longer running.                   *)
Finish(reason) ==
  /\ IF Live
     THEN /\ fate' = [fate EXCEPT ![gen] = "finished"]
          /\ reports' = [reports EXCEPT ![gen] = Append(@, reason)]
          /\ Zeroed
     ELSE UNCHANGED <<fate, reports, inner>>
  /\ UNCHANGED wire

(* submit_round accepted by an idle provider. *)
SubmitRound ==
  /\ flight = 0
  /\ flight' = gen /\ halted' = FALSE
  /\ turn' = turn + 1 /\ pending' = <<>>
  /\ UNCHANGED <<cancelled, entry, resolver, fate, reports>>

(* Mutant: a cancelled run asks the model once more. *)
NextRoundUnlessBusy == SubmitRound \/ Finish("ModelError")

(* The tail every continuation shares: an aborted run ends, otherwise the *)
(* next round is submitted; a busy or failing provider ends the run.      *)
NextRound ==
  IF cancelled THEN Finish("Aborted")
  ELSE SubmitRound \/ Finish("ModelError")

(* oai_cancel: raise the flag of the flight in progress, whoever owns it. *)
ProviderCancel == halted' = (halted \/ flight # 0) /\ UNCHANGED flight

(* The loop over async_pending_arr of Cancel and Destroy: running handlers *)
(* are asked to stop (their cancel_fn).                                    *)
StopTools ==
  job' = [c \in Calls |-> IF entry[c] = "running" /\ job[c] = "active"
                          THEN "stopping" ELSE job[c]]

-------------------------------------------------------------------------------
(* The session starts a run: xAgentQueryCreate and xAgentQueryRun.  When the *)
(* submit is refused the query is destroyed without an on_done.              *)
Start ==
  /\ stack = <<>> /\ ~Live /\ gen < MaxRuns
  /\ gen' = gen + 1
  /\ \/ /\ flight = 0
        /\ fate' = [fate EXCEPT ![gen + 1] = "live"]
        /\ turn' = 1 /\ flight' = gen + 1 /\ halted' = FALSE
        /\ UNCHANGED <<cancelled, pending, entry, resolver>>
     \/ /\ fate' = [fate EXCEPT ![gen + 1] = "refused"]
        /\ UNCHANGED <<inner, wire>>
  /\ UNCHANGED <<reports, tools, cursor, stack>>

(* oai_on_sse_done: the flight ends; a cancelled one says Cancelled. *)
Stopped(stop) ==
  /\ flight # 0 /\ stack = <<>>
  /\ stop \in IF halted THEN {"Cancelled"} ELSE Stops \ {"Cancelled"}

(* translate_terminal *)
Terminal(stop) ==
  IF cancelled \/ stop = "Cancelled" THEN "Aborted"
  ELSE CASE stop \in {"EndTurn", "MaxTokens"} -> "Completed"
         [] stop = "ToolUse"                  -> "ToolError"
         [] stop = "Error"                    -> "ModelError"

(* What on_provider_tool_call buffers of the calls of the round. *)
Buffered(batch) == IF cancelled THEN <<>> ELSE batch

(* max_turns leaves room for another round. *)
RoundsLeft == turn < MaxTurns

(* oai_finish_flight clears the provider, then on_provider_done: commit the *)
(* assistant turn, and dispatch the buffered calls or end the run.          *)
ProviderDone(stop, batch) ==
  /\ Stopped(stop)
  /\ flight' = 0 /\ halted' = FALSE
  /\ IF ~Live
     THEN UNCHANGED <<fate, reports, inner, owner, cursor, stack>>
     ELSE LET calls == Buffered(batch) IN
       /\ owner' = [c \in Calls |-> IF \E i \in DOMAIN calls : calls[i] = c
                                    THEN gen ELSE owner[c]]
       /\ IF stop = "ToolUse" /\ calls # <<>> /\ RoundsLeft
          THEN /\ pending' = calls /\ cursor' = 1
               /\ stack' = <<Frame("dispatch", NoCall)>>
               /\ UNCHANGED <<fate, reports, cancelled, turn, entry, resolver>>
          ELSE /\ fate' = [fate EXCEPT ![gen] = "finished"]
               /\ reports' = [reports EXCEPT ![gen] = Append(@,
                    IF stop = "ToolUse" /\ calls # <<>> THEN "MaxTurns" ELSE Terminal(stop))]
               /\ Zeroed
               /\ UNCHANGED <<cursor, stack>>
  /\ UNCHANGED <<gen, answers, job>>

-------------------------------------------------------------------------------
(* dispatch_pending_tools, one iteration per step. *)
InLoop == Inside("dispatch") /\ Live /\ ~cancelled /\ cursor <= Len(pending)

DispatchUnknown ==
  /\ InLoop /\ pending[cursor] \in Unknown
  /\ answers' = [answers EXCEPT ![pending[cursor]] = @ + 1]
  /\ cursor' = cursor + 1
  /\ UNCHANGED <<run, inner, wire, owner, job, stack>>

(* register_confirm_pending_, then the host's on_tool_confirm. *)
DispatchGuarded ==
  /\ InLoop /\ pending[cursor] \in Guarded
  /\ entry' = [entry EXCEPT ![pending[cursor]] = "confirm"]
  /\ resolver' = [resolver EXCEPT ![pending[cursor]] = "live"]
  /\ stack' = <<Frame("confirm", pending[cursor])>> \o stack
  /\ cursor' = cursor + 1
  /\ UNCHANGED <<run, cancelled, turn, pending, wire, tools>>

(* invoke_tool_inline_ up to the host's on_tool(started). *)
DispatchPlain ==
  /\ InLoop /\ pending[cursor] \notin Guarded \cup Unknown
  /\ stack' = <<Frame("started", pending[cursor])>> \o stack
  /\ cursor' = cursor + 1
  /\ UNCHANGED <<run, inner, wire, tools>>

(* The handler of a plain tool: a result (or an error turned into one) now, *)
(* or Pending and an entry of async_pending_arr.  A dead query's arrays are *)
(* NULL and take nothing.                                                   *)
HandlerReturns ==
  /\ Inside("started")
  /\ \/ /\ answers' = IF Live THEN [answers EXCEPT ![Topmost] = @ + 1] ELSE answers
        /\ stack' = <<Frame("ended", Topmost)>> \o Tail(stack)
        /\ UNCHANGED <<entry, job>>
     \/ /\ entry' = IF Live THEN [entry EXCEPT ![Topmost] = "running"] ELSE entry
        /\ job' = [job EXCEPT ![Topmost] = "active"]
        /\ stack' = Tail(stack)
        /\ UNCHANGED answers
  /\ UNCHANGED <<run, cancelled, turn, pending, resolver, wire, owner, cursor>>

(* The host returns from on_tool_confirm or on_tool(ended). *)
CallbackReturns ==
  /\ Inside("confirm") \/ Inside("ended")
  /\ stack' = Tail(stack)
  /\ UNCHANGED <<run, inner, wire, tools, cursor>>

(* Mutant: the loop ends without looking at async_pending_arr. *)
DispatchDoneIgnoringAsync ==
  /\ Inside("dispatch") /\ ~InLoop
  /\ stack' = Tail(stack)
  /\ IF ~Live THEN UNCHANGED <<fate, reports, inner, wire>> ELSE NextRound
  /\ UNCHANGED <<gen, tools, cursor>>

(* handle_tool_loop_continuation after the loop. *)
DispatchDone ==
  /\ Inside("dispatch") /\ ~InLoop
  /\ stack' = Tail(stack)
  /\ IF ~Live THEN UNCHANGED <<fate, reports, inner, wire>>
     ELSE IF cancelled THEN Finish("Aborted")
     ELSE IF Waiting # {}
     THEN pending' = <<>> /\ UNCHANGED <<fate, reports, cancelled, turn, entry, resolver, wire>>
     ELSE NextRound
  /\ UNCHANGED <<gen, tools, cursor>>

-------------------------------------------------------------------------------
(* Mutant: after a cancel nobody ends the run when its last tool is done. *)
DriveUnlessCancelled ==
  /\ Inside("drive")
  /\ stack' = Tail(stack)
  /\ IF Live /\ Waiting = {} /\ ~cancelled THEN NextRound
     ELSE UNCHANGED <<fate, reports, inner, wire>>
  /\ UNCHANGED <<gen, tools, cursor>>

(* The tail of ai_query_async_tool_complete and xAgentToolConfirmResolve. *)
Drive ==
  /\ Inside("drive")
  /\ stack' = Tail(stack)
  /\ IF Live /\ Waiting = {} THEN NextRound ELSE UNCHANGED <<fate, reports, inner, wire>>
  /\ UNCHANGED <<gen, tools, cursor>>

(* ai_query_async_tool_complete, called when the operation is over. *)
JobDone(c) ==
  /\ stack = <<>> /\ job[c] # "none"
  /\ job' = [job EXCEPT ![c] = "none"]
  /\ IF Live /\ entry[c] # "absent"
     THEN /\ entry' = [entry EXCEPT ![c] = "absent"]
          /\ answers' = [answers EXCEPT ![c] = @ + 1]
          /\ stack' = <<Frame("ended", c), Frame("drive", NoCall)>>
     ELSE UNCHANGED <<entry, answers, stack>>
  /\ UNCHANGED <<run, cancelled, turn, pending, resolver, wire, owner, cursor>>

(* The host may call in from the loop, or from a callback it is given. *)
FromLoop     == stack = <<>>
FromCallback == Inside("confirm") \/ Inside("started") \/ Inside("ended")

(* xAgentToolConfirmResolve: a handle works once, and not when invalidated. *)
Resolve(c, allow) ==
  /\ FromLoop \/ (SyncResolve /\ Inside("confirm"))
  /\ resolver[c] \in {"live", "stale"}
  /\ resolver' = [resolver EXCEPT ![c] = "used"]
  /\ IF resolver[c] = "live" /\ entry[c] # "absent"
     THEN /\ entry' = [entry EXCEPT ![c] = "absent"]
          /\ answers' = IF allow THEN answers ELSE [answers EXCEPT ![c] = @ + 1]
          /\ stack' = (IF allow THEN <<Frame("started", c), Frame("drive", NoCall)>>
                                 ELSE <<Frame("drive", NoCall)>>) \o stack
     ELSE UNCHANGED <<entry, answers, stack>>
  /\ UNCHANGED <<run, cancelled, turn, pending, wire, owner, job, cursor>>

(* xAgentQueryCancel *)
Cancel ==
  /\ FromLoop \/ (CallbackCancel /\ FromCallback)
  /\ CancelWhileConfirming \/ \A c \in Calls : entry[c] # "confirm"
  /\ Live
  /\ cancelled' = TRUE
  /\ ProviderCancel /\ StopTools /\ InvalidateResolvers
  /\ UNCHANGED <<run, turn, pending, entry, owner, answers, cursor, stack>>

(* xAgentQueryDestroy of a running query (the session is destroyed): the *)
(* provider and the tools are asked to stop, no on_done is reported.     *)
Destroy ==
  /\ FromLoop /\ Live
  /\ fate' = [fate EXCEPT ![gen] = "destroyed"]
  /\ ProviderCancel /\ StopTools /\ Zeroed
  /\ UNCHANGED <<gen, reports, owner, answers, cursor, stack>>

-------------------------------------------------------------------------------
FreshCalls == {c \in Calls : owner[c] = 0}

Frames_Next ==
  \/ DispatchUnknown \/ DispatchGuarded \/ DispatchPlain \/ DispatchDone
  \/ HandlerReturns \/ CallbackReturns \/ Drive

Provider == \E stop \in Stops, batch \in Batches(FreshCalls) : ProviderDone(stop, batch)

Host ==
  \/ Start \/ Cancel \/ Destroy
  \/ \E c \in Calls, allow \in BOOLEAN : Resolve(c, allow)

Next ==
  \/ Frames_Next
  \/ Provider
  \/ Host
  \/ \E c \in Calls : JobDone(c)

Spec == Init /\ [][Next]_vars

(* Frames return, the transport ends every stream, a handler's operation *)
(* ends, and the user answers every confirmation.                        *)
Fairness ==
  /\ WF_vars(Frames_Next)
  /\ WF_vars(Provider)
  /\ \A c \in Calls : WF_vars(JobDone(c))
  /\ \A c \in Calls : WF_vars(\E allow \in BOOLEAN : resolver[c] = "live" /\ Resolve(c, allow))

FairSpec == Spec /\ Fairness

-------------------------------------------------------------------------------
(* Type correctness of the query's fields. *)
TypeOK ==
  /\ gen \in 0 .. MaxRuns
  /\ fate \in [Runs -> {"unused", "live", "refused", "finished", "destroyed"}]
  /\ reports \in [Runs -> Seq(Reasons)]
  /\ cancelled \in BOOLEAN /\ turn \in Nat /\ cursor \in Nat \ {0}
  /\ pending \in Seq(Calls)
  /\ entry \in [Calls -> {"absent", "confirm", "running"}]
  /\ resolver \in [Calls -> {"none", "live", "stale", "used"}]
  /\ owner \in [Calls -> 0 .. MaxRuns] /\ answers \in [Calls -> Nat]
  /\ job \in [Calls -> {"none", "active", "stopping"}]
  /\ flight \in 0 .. MaxRuns /\ halted \in BOOLEAN
  /\ stack \in Seq(Frames)

(* "Every successfully-started Query produces exactly one on_done": a run  *)
(* that finished has reported once, any other run has not reported at all, *)
(* whatever late provider or tool event reached its zeroed storage.        *)
OneReport ==
  \A g \in Runs : Len(reports[g]) = IF fate[g] = "finished" THEN 1 ELSE 0

(* A running query that no frame is working on has something left that will *)
(* call it back: its flight, a handler's operation, or a valid resolver.    *)
(* Otherwise the session would stay Busy for ever.                          *)
NeverStranded ==
  Live /\ stack = <<>> =>
    \/ flight = gen
    \/ \E c \in Calls : entry[c] = "running" /\ job[c] # "none"
    \/ \E c \in Calls : entry[c] = "confirm" /\ resolver[c] = "live"

(* A resolver in the host's hands that still points at the query points at *)
(* the live one, at a call of it that waits for confirmation: no answer of *)
(* the user reaches freed or reused storage.                               *)
ResolverOwned ==
  \A c \in Calls : resolver[c] = "live" =>
    Live /\ owner[c] = gen /\ entry[c] = "confirm" /\ answers[c] = 0

(* The provider hands its callbacks the raw address it was given.  While a *)
(* query lives there, the flight is that query's own.                      *)
FlightOwned == Live /\ flight # 0 => flight = gen

(* max_turns: no run submits more rounds than allowed. *)
TurnBound == turn <= MaxTurns

(* Every round the provider is sent is a well-formed conversation: each     *)
(* tool_use of the run before it has exactly one tool_result.               *)
RoundAnswersCalls ==
  Live /\ flight = gen => \A c \in Calls : owner[c] = gen => answers[c] = 1

(* Once a cancel is accepted the run can only end as Aborted. *)
CancelWins ==
  [][Live /\ cancelled /\ fate'[gen] = "finished" => reports'[gen] = <<"Aborted">>]_vars

(* Every run that is not torn down by its session ends. *)
EveryRunEnds == \A g \in Runs : fate[g] = "live" ~> fate[g] # "live"

(* The run refines the contract of query.h: no round is submitted while a *)
(* call of the run is unanswered, and no event after the end changes it.  *)
OpenCalls == {c \in Calls : Live /\ owner[c] = gen /\ answers[c] = 0}
Contract  == INSTANCE AgentRun WITH asking <- (Live /\ flight = gen), open <- OpenCalls
FollowsContract == Contract!Spec
===============================================================================
