------------------------------- MODULE AgentRun -------------------------------
(***************************************************************************)
(* What query.h promises of a run, without the machinery of query.c: the   *)
(* model is asked, replies with tool calls, every call is answered, and    *)
(* only then is the model asked again; the run ends with one report.       *)
(***************************************************************************)
EXTENDS Naturals, Sequences

CONSTANTS Calls, Reasons, MaxRuns

VARIABLES
  fate,     \* per run: unused, live, refused, finished or destroyed
  reports,  \* per run: what on_done was told
  asking,   \* the live run has a round at the model
  open      \* calls of the live run that have no result yet

vars == <<fate, reports, asking, open>>
Runs == 1 .. MaxRuns

Init ==
  /\ fate = [g \in Runs |-> "unused"]
  /\ reports = [g \in Runs |-> <<>>]
  /\ asking = FALSE /\ open = {}

Idle == \A g \in Runs : fate[g] # "live"

Begin(g) ==
  /\ Idle /\ fate[g] = "unused"
  /\ \/ fate' = [fate EXCEPT ![g] = "live"] /\ asking' = TRUE
     \/ fate' = [fate EXCEPT ![g] = "refused"] /\ UNCHANGED asking
  /\ UNCHANGED <<reports, open>>

Reply(S) ==
  /\ asking /\ S # {}
  /\ asking' = FALSE /\ open' = S
  /\ UNCHANGED <<fate, reports>>

Answer(c) ==
  /\ c \in open
  /\ open' = open \ {c}
  /\ UNCHANGED <<fate, reports, asking>>

AskAgain ==
  /\ ~Idle /\ ~asking /\ open = {}
  /\ asking' = TRUE
  /\ UNCHANGED <<fate, reports, open>>

End(g, reason) ==
  /\ fate[g] = "live"
  /\ fate' = [fate EXCEPT ![g] = "finished"]
  /\ reports' = [reports EXCEPT ![g] = <<reason>>]
  /\ asking' = FALSE /\ open' = {}

Drop(g) ==
  /\ fate[g] = "live"
  /\ fate' = [fate EXCEPT ![g] = "destroyed"]
  /\ asking' = FALSE /\ open' = {}
  /\ UNCHANGED reports

Next ==
  \/ \E g \in Runs : Begin(g) \/ Drop(g) \/ \E r \in Reasons : End(g, r)
  \/ \E S \in SUBSET Calls : Reply(S)
  \/ \E c \in Calls : Answer(c)
  \/ AskAgain

Spec == Init /\ [][Next]_vars
===============================================================================
