----------------------------- MODULE AgentSession -----------------------------
(***************************************************************************)
(* A conversation as libx/x/agent/session.c keeps it: the rolling history, *)
(* the budget gate in front of every input (trim tool results, then have   *)
(* the model summarise a range of old turns), the input that waits behind  *)
(* a summary and is submitted again, and the record of the conversation in *)
(* an external memory store.  The runs themselves are AgentQuery's; here a *)
(* run is accepted or refused and later merges what it produced.           *)
(***************************************************************************)
EXTENDS Integers, Sequences, FiniteSets

CONSTANTS
  Policy,         \* budget.policy
  KeepHead,       \* context_preserve_head_turns
  KeepTail,       \* context_preserve_tail_turns
  Primed,         \* turns replayed from the memory store at creation
  Limits,         \* context windows the host may set
  Reports,        \* prompt sizes a provider may report for a first round
  MaxIds          \* bound: inputs and tool calls named

ASSUME PolicyAssumption == Policy \in {"Disabled", "Error", "Summarize"}
ASSUME NumberAssumption ==
  /\ KeepHead \in Nat /\ KeepTail \in Nat /\ Primed \in Nat /\ MaxIds \in Nat
  /\ Primed <= MaxIds
  /\ Limits \subseteq Nat /\ Limits # {} /\ Reports \subseteq Nat

VARIABLES
  history,      \* history_arr
  store,        \* what was appended to the memory store under this session
  prefix,       \* persisted_prefix
  query,        \* s->query: none, main or compact
  range,        \* compact_start_idx and compact_end_idx of the summary in flight
  pendingText,  \* pending_text: the input to submit again, 0 for none
  retrying,     \* CompactDone is being delivered, the retry comes next
  lastCompact,  \* last_compact_history_len
  known,        \* known_prompt_tokens
  delta,        \* delta_entries
  limit,        \* budget.context_window
  inputFate,    \* what became of each input
  withdrawn,    \* inputs whose run or summary the host cancelled
  fresh,        \* ids given out
  overcounted,  \* a message popped after a refused run stays counted in delta
  alive         \* the session has not been destroyed

record      == <<history, store, prefix>>
work        == <<query, range, pendingText, retrying>>
budget      == <<lastCompact, known, delta>>
ghost       == <<inputFate, withdrawn, fresh, overcounted>>
sessionVars == <<record, work, budget, limit, ghost, alive>>

Ids     == 1 .. MaxIds
Kinds   == {"user", "text", "use", "result", "trimmed", "summary"}
Entries == [kind : Kinds, id : Ids]
Entry(k, i) == [kind |-> k, id |-> i]
NoRange == <<0, 0>>

Elements(s) == {s[i] : i \in DOMAIN s}

(* ai_budget_estimate_tokens; only what trimming frees is told apart. *)
Size(h) == Len(h) + Cardinality({i \in DOMAIN h : h[i].kind = "result"})

(* session_estimate_current_: the provider's figure and the entries added  *)
(* since, or the whole history.  A delta longer than the history reads past *)
(* its end, and whatever is there is counted.                               *)
Estimates ==
  IF known < 0 THEN {Size(history)}
  ELSE IF delta <= Len(history)
  THEN {known + Size(SubSeq(history, Len(history) - delta + 1, Len(history)))}
  ELSE {known + Size(history), known + 2 * delta}

(* Every tool_result whose output has not been replaced by a marker. *)
Untrimmed(h) == {i \in DOMAIN h : h[i].kind = "result"}
TrimAll(h)   == [i \in DOMAIN h |-> IF i \in Untrimmed(h) THEN Entry("trimmed", h[i].id) ELSE h[i]]

UserTurns(h) == {i \in DOMAIN h : h[i].kind = "user"}

(* ai_budget_find_user_turn: the offset of the k-th user entry. *)
FindUserTurn(h, k) ==
  CHOOSE i \in 0 .. Len(h) - 1 :
    i + 1 \in UserTurns(h) /\ Cardinality({j \in UserTurns(h) : j <= i}) = k

(* Mutant: the tail is kept by entries, not by turns. *)
CompactRangeByEntries(h) == <<FindUserTurn(h, KeepHead), Len(h) - KeepTail>>

(* The range a summary would replace: from after the head to before the tail. *)
CompactRange(h) ==
  <<FindUserTurn(h, KeepHead),
    IF KeepTail = 0 THEN Len(h)
    ELSE FindUserTurn(h, Cardinality(UserTurns(h)) - KeepTail)>>

(* There are more user turns than are kept. *)
CanCompact(h) == KeepHead + KeepTail < Cardinality(UserTurns(h))

PrimedTurns == [i \in 1 .. 2 * Primed |-> Entry(IF i % 2 = 1 THEN "user" ELSE "text", (i + 1) \div 2)]

SessionInit ==
  /\ history = PrimedTurns /\ store = PrimedTurns /\ prefix = 2 * Primed
  /\ query = "none" /\ range = NoRange /\ pendingText = 0 /\ retrying = FALSE
  /\ lastCompact = 0 /\ known = -1 /\ delta = 0
  /\ limit \in Limits
  /\ inputFate = [m \in Ids |-> "none"] /\ withdrawn = {} /\ fresh = Primed
  /\ overcounted = FALSE /\ alive = TRUE

-------------------------------------------------------------------------------
(* The message is appended and a Query created and run; if the run is       *)
(* refused the message is popped again.  h, k and d: the history and the    *)
(* bookkeeping the gate left.                                               *)
Submit(m, h, k, d) ==
  /\ known' = k /\ delta' = d + 1
  /\ \/ history' = Append(h, Entry("user", m)) /\ query' = "main"
        /\ inputFate' = [inputFate EXCEPT ![m] = "running"]
        /\ UNCHANGED overcounted
     \/ history' = h /\ inputFate' = [inputFate EXCEPT ![m] = "refused"] /\ UNCHANGED query
        /\ overcounted' = (overcounted \/ k >= 0)
  /\ UNCHANGED range

Refuse(m) == inputFate' = [inputFate EXCEPT ![m] = "refused"]

(* Mutant: a summary is asked for however often the last one was in vain. *)
CompactAgain(m, h, p) ==
  IF Policy = "Summarize" /\ CanCompact(h)
  THEN /\ pendingText' = m /\ lastCompact' = Len(h) /\ range' = CompactRange(h)
       /\ \/ query' = "compact" /\ inputFate' = [inputFate EXCEPT ![m] = "queued"]
          \/ Refuse(m) /\ UNCHANGED query
  ELSE Refuse(m) /\ pendingText' = p /\ UNCHANGED <<query, range, lastCompact>>

(* The prompt is too long even with every tool result trimmed: refuse, or  *)
(* launch the summary and keep the message for later.  A summary is not    *)
(* tried again at the history length of the last one.                      *)
Compact(m, h, p) ==
  IF /\ Policy = "Summarize" /\ CanCompact(h)
     /\ ~(lastCompact > 0 /\ Len(h) <= lastCompact)
  THEN /\ pendingText' = m /\ lastCompact' = Len(h) /\ range' = CompactRange(h)
       /\ \/ query' = "compact" /\ inputFate' = [inputFate EXCEPT ![m] = "queued"]
          \/ Refuse(m) /\ UNCHANGED query
  ELSE Refuse(m) /\ pendingText' = p /\ UNCHANGED <<query, range, lastCompact>>

(* session_enforce_budget_ and the rest of xAgentSessionInput; p is the text *)
(* already waiting for a retry, which a message that gets in leaves alone.   *)
Admit(m, p) ==
  \E now \in Estimates :
    LET fits(size) == Policy = "Disabled" \/ size + 1 <= limit
        trims      == Untrimmed(history) # {}
        h == IF fits(now) THEN history ELSE TrimAll(history)
        k == IF ~fits(now) /\ trims THEN -1 ELSE known
        d == IF ~fits(now) /\ trims THEN 0 ELSE delta
        size == IF ~fits(now) /\ trims THEN Size(h) ELSE now
    IN IF fits(size)
       THEN /\ Submit(m, h, k, d) /\ pendingText' = p
            /\ lastCompact' = IF Policy = "Disabled" THEN lastCompact ELSE 0
       ELSE /\ Compact(m, h, p)
            /\ history' = h /\ known' = k /\ delta' = d /\ UNCHANGED overcounted

(* xAgentSessionInput of a new message, from the loop or from the callback *)
(* that announces CompactDone; Busy while a run or a summary is in flight. *)
Input ==
  /\ alive /\ query = "none" /\ fresh < MaxIds
  /\ fresh' = fresh + 1
  /\ Admit(fresh + 1, pendingText)
  /\ UNCHANGED <<store, prefix, retrying, limit, withdrawn, alive>>

-------------------------------------------------------------------------------
(* What a run may add to the history by the time it ends, whatever the      *)
(* reason: the entries of the call and of the answer bear the input's id.   *)
Produced(m) ==
  {<<>>, <<Entry("text", m)>>, <<Entry("use", m)>>,
   <<Entry("use", m), Entry("result", m)>>,
   <<Entry("use", m), Entry("result", m), Entry("text", m)>>}

(* sess_fwd_on_done of a run: the provider's figure for the first round     *)
(* becomes the baseline, and the produced entries are merged and counted.   *)
RunDone ==
  /\ alive /\ query = "main" /\ ~retrying
  /\ LET m == history[Len(history)].id IN
     \E batch \in Produced(m), report \in Reports \cup {0} :
       /\ history' = history \o batch
       /\ known' = IF report > 0 THEN report ELSE known
       /\ delta' = (IF report > 0 THEN 0 ELSE delta) + Len(batch)
       /\ inputFate' = [inputFate EXCEPT ![m] = "done"]
  /\ query' = "none"
  /\ UNCHANGED <<store, prefix, range, pendingText, retrying, lastCompact, limit, withdrawn, fresh,
                 overcounted, alive>>

Smaller(a, b) == IF a < b THEN a ELSE b
Larger(a, b)  == IF a < b THEN b ELSE a

(* Mutant: one entry too many is taken for stored. *)
UnstoredAfterFirst(a, b) == SubSeq(history, Larger(a, Smaller(prefix, b)) + 2, b)

(* The entries of a range the store does not have yet. *)
Unstored(a, b) == SubSeq(history, Larger(a, Smaller(prefix, b)) + 1, b)

(* Mutant: the whole history is taken for stored. *)
PrefixOfAll(a, b) == Len(history) - (b - a) + 1

(* persisted_prefix once [a, b) is replaced by a summary that is stored. *)
PrefixAfter(a, b) ==
  Larger(IF prefix > a THEN prefix - (Smaller(prefix, b) - a) ELSE prefix, a + 1)

(* sess_fwd_on_done of a summary.  A summary that has text, however it      *)
(* ended, replaces its range and bears the id of the last turn it replaces; *)
(* otherwise the history stays.  CompactDone is announced next and then the *)
(* waiting input is submitted again.                                        *)
SummaryDone ==
  /\ alive /\ query = "compact"
  /\ LET a == range[1]  b == range[2]  summary == Entry("summary", history[range[2]].id) IN
     \/ /\ store' = Append(store \o Unstored(a, b), summary)
        /\ history' = SubSeq(history, 1, a) \o <<summary>> \o SubSeq(history, b + 1, Len(history))
        /\ prefix' = PrefixAfter(a, b)
        /\ known' = -1 /\ delta' = 0
     \/ UNCHANGED <<record, known, delta>>
  /\ range' = NoRange /\ query' = "none" /\ retrying' = TRUE
  /\ UNCHANGED <<pendingText, lastCompact, limit, ghost, alive>>

(* session_auto_retry_pending_: the text is forgotten first, and lost when *)
(* the session is already busy again.                                      *)
AutoRetry ==
  /\ alive /\ retrying
  /\ retrying' = FALSE
  /\ IF pendingText # 0 /\ query = "none"
     THEN Admit(pendingText, 0)
     ELSE /\ pendingText' = 0
          /\ inputFate' = IF pendingText = 0 THEN inputFate ELSE [inputFate EXCEPT ![pendingText] = "lost"]
          /\ UNCHANGED <<history, query, range, budget, overcounted>>
  /\ UNCHANGED <<store, prefix, limit, withdrawn, fresh, alive>>

(* xAgentSessionCancel of a summary: the query is cancelled and ends soon. *)
(* (Of a run: AgentQuery's Cancel; the session keeps no state about it.)   *)
CancelSummary ==
  /\ alive /\ query = "compact"
  /\ withdrawn' = withdrawn \cup ({pendingText} \ {0})
  /\ UNCHANGED <<record, work, budget, limit, inputFate, fresh, overcounted, alive>>

(* xAgentSessionSetContextWindow *)
SetContextWindow ==
  /\ alive /\ ~retrying
  /\ limit' \in Limits
  /\ UNCHANGED <<record, work, budget, ghost, alive>>

(* xAgentSessionDestroy: a query in flight is destroyed, what the store *)
(* lacks of the history is appended, everything is released.            *)
DestroySession ==
  /\ alive /\ ~retrying
  /\ store' = store \o SubSeq(history, prefix + 1, Len(history))
  /\ history' = <<>> /\ prefix' = 0 /\ alive' = FALSE
  /\ query' = "none" /\ range' = NoRange /\ pendingText' = 0
  /\ inputFate' = [m \in Ids |-> IF inputFate[m] \in {"running", "queued"} THEN "dropped" ELSE inputFate[m]]
  /\ UNCHANGED <<retrying, budget, limit, withdrawn, fresh, overcounted>>

SessionNext ==
  \/ Input \/ RunDone \/ SummaryDone \/ AutoRetry
  \/ CancelSummary \/ SetContextWindow \/ DestroySession

SessionSpec == SessionInit /\ [][SessionNext]_sessionVars

(* Queries end (AgentQuery's EveryRunEnds), and callbacks return. *)
FairSession ==
  SessionSpec /\ WF_sessionVars(RunDone) /\ WF_sessionVars(SummaryDone) /\ WF_sessionVars(AutoRetry)

-------------------------------------------------------------------------------
(* Type correctness of the session's fields. *)
SessionTypeOK ==
  /\ history \in Seq(Entries) /\ store \in Seq(Entries) /\ prefix \in Nat
  /\ query \in {"none", "main", "compact"} /\ range \in Nat \X Nat
  /\ pendingText \in 0 .. MaxIds /\ retrying \in BOOLEAN /\ alive \in BOOLEAN
  /\ lastCompact \in Nat /\ known \in Int /\ delta \in Nat /\ limit \in Limits
  /\ inputFate \in [Ids -> {"none", "queued", "running", "done", "refused", "lost", "dropped"}]
  /\ withdrawn \subseteq Ids /\ fresh \in 0 .. MaxIds /\ overcounted \in BOOLEAN

(* An entry and what trimming makes of it. *)
Same(e, f) == e.id = f.id /\ (e.kind = f.kind \/ {e.kind, f.kind} = {"result", "trimmed"})
Holds(s, e) == \E f \in Elements(s) : Same(e, f)

(* persisted_prefix is honest: every entry it counts is in the store, so   *)
(* that skipping them at the next summary or at the end loses nothing.     *)
PrefixIsStored == \A i \in DOMAIN history : i <= prefix => Holds(store, history[i])

(* No entry of the conversation is written to the store twice, now or when *)
(* the session ends.                                                       *)
StoredOnce ==
  /\ \A i, j \in DOMAIN store : Same(store[i], store[j]) => i = j
  /\ \A i \in DOMAIN history : i > prefix => ~Holds(store, history[i])

(* "A surviving tool_use always has its matching tool_result and vice      *)
(* versa": a summary takes both or neither.                                *)
PairsKept ==
  \A m \in Ids : Holds(history \o store, Entry("result", m)) =>
    (Holds(history, Entry("use", m)) <=> Holds(history, Entry("result", m)))

(* The input that waits behind a summary is the one that will be submitted *)
(* again, whatever the host sends from inside the CompactDone callback, as *)
(* long as the entries since the provider's figure are counted right.      *)
QueuedIsPending == overcounted \/ \A m \in Ids : inputFate[m] = "queued" => pendingText = m

(* The record of the conversation, whatever order inputs, summaries,       *)
(* retries and cancels come in.                                            *)
RecordInv == SessionTypeOK /\ PrefixIsStored /\ StoredOnce /\ PairsKept /\ QueuedIsPending

(* Whatever leaves the history has been written to the store. *)
NothingForgotten ==
  [][\A e \in Elements(history) : Holds(history' \o store', e)]_sessionVars

(* A summary leaves the latest KeepTail turns of the user in the history. *)
LatestTurnsKept ==
  [][alive' => \A i \in UserTurns(history) :
       Cardinality({j \in UserTurns(history) : j > i}) < KeepTail => Holds(history', history[i])]_sessionVars

(* An input that was not refused is run or given up: retries do not loop, *)
(* unless the entries since the provider's figure were miscounted.        *)
EveryInputSettles ==
  \A m \in Ids : inputFate[m] \in {"queued", "running"} ~>
                    (inputFate[m] \notin {"queued", "running"} \/ overcounted)

(* session.h: a cancel ends what is in progress.  An input whose summary   *)
(* was cancelled is not run afterwards.                                    *)
CancelledNeverRuns == \A m \in withdrawn : inputFate[m] \notin {"running", "done"}
===============================================================================
