------------------------------ MODULE Command ------------------------------
(***************************************************************************)
(* The command executors of libx/x/base/command_posix.c: a child, its      *)
(* watched outputs and two timers each, and the one SIGCHLD watch that all *)
(* of them share.                                                          *)
(*                                                                         *)
(* They live on one event loop: a handler is one step, except that of      *)
(* SIGCHLD, which takes one step per executor, for children may end        *)
(* between two calls of waitpid.  ex holds the fields of xCommandExecutor_,*)
(* chld the multiplexer's list, its count, the signal watch and whether    *)
(* the self-pipe has bytes (any number of signals is one call), proc the   *)
(* child: who still writes its outputs, and which outputs have an event    *)
(* the loop has not dispatched (edge triggered).  What is written is left  *)
(* out.  open and ready only hold watched outputs.                         *)
(***************************************************************************)
EXTENDS Naturals, Integers, Sequences

CONSTANTS
  Execs, None,
  Runs,       \* per executor, a bound on the calls of Submit
  Confs,      \* per executor, what it is used for: [pty, watch, timeout]
  FastConfs,  \* configurations whose child may be gone before the probe
  Thief,      \* another part of the program may reap the child
  Careful     \* the owner does not destroy an executor with an armed timer

Outs == {"out", "err"}

ASSUME CommandAssumption ==
  /\ Confs \in [Execs -> SUBSET [pty : BOOLEAN, watch : SUBSET Outs, timeout : BOOLEAN]]
  /\ \A e \in Execs : \A c \in Confs[e] : c.pty => c.watch = {"out"}
  /\ Runs \in [Execs -> Nat]
  /\ {Thief, Careful} \subseteq BOOLEAN
  /\ None \notin Execs

VARIABLES
  ex,    \* the executors
  proc,  \* their children
  chld,  \* the SIGCHLD multiplexer
  cur,   \* the executor sigchld_handler looks at, None outside of it
  sub,   \* calls of Submit on an idle executor
  done   \* their answers: an error, or on_done later

vars == <<ex, proc, chld, cur, sub, done>>

Fresh  == [state |-> "Idle", src |-> {}, eof |-> {}, exited |-> FALSE,
           tmo |-> FALSE, grace |-> FALSE, res |-> "none", timed |-> FALSE]
NoProc == [run |-> "none", how |-> "none", sig |-> "none", open |-> {}, ready |-> {}]

Init ==
  /\ ex = [e \in Execs |-> Fresh]
  /\ proc = [e \in Execs |-> NoProc]
  /\ chld = [list |-> <<>>, count |-> 0, watch |-> FALSE, pend |-> FALSE]
  /\ cur = None
  /\ sub = [e \in Execs |-> 0] /\ done = [e \in Execs |-> 0]

-------------------------------------------------------------------------------
(* The multiplexer: the first executor installs the watch, the last one    *)
(* removes it and closes the self-pipe with the bytes in it.               *)

(* Mutant: the second executor installs the watch. *)
EnlistLate(r, e) == [r EXCEPT !.list = <<e>> \o @, !.count = @ + 1, !.watch = @ \/ r.count = 1]

Enlist(r, e) == [r EXCEPT !.list = <<e>> \o @, !.count = @ + 1, !.watch = @ \/ r.count = 0]

(* sigchld_remove: the first one found is taken out of the list. *)
Unlinked(list, e) ==
  IF \A i \in 1 .. Len(list) : list[i] # e THEN list
  ELSE LET k == CHOOSE i \in 1 .. Len(list) :
                  list[i] = e /\ \A j \in 1 .. i - 1 : list[j] # e
       IN  [i \in 1 .. Len(list) - 1 |-> IF i < k THEN list[i] ELSE list[i + 1]]

Delist(r, e) ==
  [list |-> Unlinked(r.list, e), count |-> r.count - 1,
   watch |-> r.watch /\ r.count # 1, pend |-> r.pend /\ r.count # 1]

(* exec->next after the walk has handled e: NULL when e left the list. *)
After(r, e) ==
  IF \E i \in 1 .. Len(r.list) - 1 : r.list[i] = e
  THEN r.list[1 + CHOOSE i \in 1 .. Len(r.list) - 1 : r.list[i] = e]
  ELSE None

(* Mutant: the error output is not waited for. *)
FinishedByStdout(x) == "out" \in x.eof /\ x.exited

Finished(x) == x.eof = Outs /\ x.exited

(* Mutant: only the grace timer is cancelled. *)
IdledWithTimeout(x) == [x EXCEPT !.state = "Idle", !.grace = FALSE, !.src = {}]

(* cmd_fire_done up to the callback. *)
Idled(x) == [x EXCEPT !.state = "Idle", !.tmo = FALSE, !.grace = FALSE, !.src = {}]

(* kill(-pid, sig): the leader and the descendants in its group. *)
Signalled(p, sig) == [p EXCEPT !.sig = IF @ = "KILL" THEN @ ELSE sig]

(* A child that is gone when Submit probes it is reaped there; held are    *)
(* the outputs that somebody still writes.  A pseudo-terminal at its end   *)
(* is drained at once.                                                     *)
Over(c, fast, held) == c.pty /\ fast /\ held = {}

Started(c, fast, how, held) ==
  [Fresh EXCEPT !.state = "Running", !.src = IF Over(c, fast, held) THEN {} ELSE c.watch,
                !.eof = IF Over(c, fast, held) THEN Outs ELSE Outs \ c.watch,
                !.exited = fast, !.tmo = c.timeout, !.res = IF fast THEN how ELSE "none"]

Spawned(c, fast, how, held) ==
  [NoProc EXCEPT !.run = IF fast THEN "reaped" ELSE "running",
                 !.how = IF fast THEN how ELSE "none", !.open = held,
                 !.ready = IF Over(c, fast, held) THEN {} ELSE c.watch \ held]

(* Submit on an idle executor, with multiplexer r and d results delivered. *)
(* The drained pseudo-terminal completes inside Submit, which then arms    *)
(* the timer and sets Running all the same.                                *)
Forked(e, r, d, c, fast, how, held) ==
  LET m == Enlist(r, e)
      n == [m EXCEPT !.pend = @ \/ (fast /\ m.watch)]
  IN  /\ ex' = [ex EXCEPT ![e] = Started(c, fast, how, held)]
      /\ proc' = [proc EXCEPT ![e] = Spawned(c, fast, how, held)]
      /\ chld' = IF Over(c, fast, held) THEN Delist(n, e) ELSE n
      /\ sub' = [sub EXCEPT ![e] = @ + 1]
      /\ done' = [done EXCEPT ![e] = d + IF Over(c, fast, held) THEN 1 ELSE 0]

Launch(e, r, d) ==
  /\ sub[e] < Runs[e]
  /\ \E c \in Confs[e], fast \in BOOLEAN, how \in {"code", "signal"}, held \in SUBSET Outs :
       /\ held \subseteq c.watch
       /\ IF fast THEN c \in FastConfs ELSE held = c.watch /\ how = "code"
       /\ Forked(e, r, d, c, fast, how, held)

(* cmd_check_completion of e with fields x and child p.  on_done may       *)
(* submit the next command.                                                *)
Settle(e, x, p) ==
  IF Finished(x)
  THEN \/ Launch(e, Delist(chld, e), done[e] + 1)
       \/ /\ ex' = [ex EXCEPT ![e] = Idled(x)]
          /\ proc' = [proc EXCEPT ![e] = p]
          /\ chld' = Delist(chld, e)
          /\ done' = [done EXCEPT ![e] = @ + 1]
          /\ UNCHANGED sub
  ELSE /\ ex' = [ex EXCEPT ![e] = x]
       /\ proc' = [proc EXCEPT ![e] = p]
       /\ UNCHANGED <<chld, sub, done>>

-------------------------------------------------------------------------------
(* The owner, on the loop thread *)
Submit(e) ==
  /\ cur = None /\ ex[e].state = "Idle"
  /\ Launch(e, chld, done[e])
  /\ UNCHANGED cur

(* The call is answered by an error.  A failure before the fork leaves     *)
(* nothing.  At the second xEventAdd the child is killed and reaped, its   *)
(* signal may be for the other executors, and the source of the standard   *)
(* output stays in the executor.                                           *)
SubmitFails(e) ==
  /\ cur = None /\ ex[e].state = "Idle" /\ sub[e] < Runs[e]
  /\ sub' = [sub EXCEPT ![e] = @ + 1] /\ done' = [done EXCEPT ![e] = @ + 1]
  /\ proc' = [proc EXCEPT ![e] = NoProc]
  /\ \/ ex' = [ex EXCEPT ![e] = Fresh] /\ UNCHANGED chld
     \/ /\ \E c \in Confs[e] : c.watch = Outs
        /\ ex' = [ex EXCEPT ![e] = [Fresh EXCEPT !.src = {"out"}]]
        /\ chld' = [chld EXCEPT !.pend = @ \/ chld.watch]
  /\ UNCHANGED cur

(* Mutant: nothing follows SIGTERM. *)
StoppingOnce(x) == [x EXCEPT !.state = "Cancelling", !.timed = TRUE]

Stopping(x) == [x EXCEPT !.state = "Cancelling", !.timed = TRUE, !.grace = TRUE]

Cancel(e) ==
  /\ cur = None /\ ex[e].state = "Running"
  /\ ex' = [ex EXCEPT ![e] = Stopping(@)]
  /\ proc' = [proc EXCEPT ![e] = Signalled(@, "TERM")]
  /\ UNCHANGED <<chld, cur, sub, done>>

(* A busy executor kills its child and waits for it; its timers stay.      *)
Destroy(e) ==
  /\ cur = None /\ ex[e].state # "Freed"
  /\ Careful => ~ex[e].tmo /\ ~ex[e].grace
  /\ IF ex[e].state = "Idle"
     THEN ex' = [ex EXCEPT ![e].state = "Freed"] /\ UNCHANGED <<proc, chld>>
     ELSE LET dies == proc[e].run = "running" /\ chld.watch
          IN  /\ ex' = [ex EXCEPT ![e].state = "Freed", ![e].src = {}]
              /\ proc' = [proc EXCEPT ![e] = NoProc]
              /\ chld' = Delist([chld EXCEPT !.pend = @ \/ dies], e)
  /\ UNCHANGED <<cur, sub, done>>

-------------------------------------------------------------------------------
(* The loop *)
Readable(e, o) ==
  LET more == o \in proc[e].open
      x == IF more THEN ex[e] ELSE [ex[e] EXCEPT !.eof = @ \cup {o}, !.src = @ \ {o}]
  IN  /\ cur = None /\ o \in ex[e].src \cap proc[e].ready
      /\ Settle(e, x, [proc[e] EXCEPT !.ready = @ \ {o}])
      /\ UNCHANGED cur

Timeout(e) ==
  /\ cur = None /\ ex[e].tmo /\ ex[e].state # "Freed"
  /\ LET x == [ex[e] EXCEPT !.tmo = FALSE]
     IN  IF x.state = "Running"
         THEN /\ ex' = [ex EXCEPT ![e] = Stopping(x)]
              /\ proc' = [proc EXCEPT ![e] = Signalled(@, "TERM")]
         ELSE ex' = [ex EXCEPT ![e] = x] /\ UNCHANGED proc
  /\ UNCHANGED <<chld, cur, sub, done>>

Grace(e) ==
  /\ cur = None /\ ex[e].grace /\ ex[e].state # "Freed"
  /\ ex' = [ex EXCEPT ![e].grace = FALSE]
  /\ proc' = IF ex[e].state = "Cancelling"
             THEN [proc EXCEPT ![e] = Signalled(@, "KILL")] ELSE proc
  /\ UNCHANGED <<chld, cur, sub, done>>

(* The self-pipe is drained and the walk begins. *)
ChildSignal ==
  /\ cur = None /\ chld.pend
  /\ chld' = [chld EXCEPT !.pend = FALSE]
  /\ cur' = IF chld.list = <<>> THEN None ELSE Head(chld.list)
  /\ UNCHANGED <<ex, proc, sub, done>>

(* Mutant: completion is left to the outputs. *)
ReapOnly(e) ==
  LET p == proc[e]
  IN  /\ IF p.run = "running" \/ ex[e].exited
         THEN UNCHANGED <<ex, proc>>
         ELSE /\ ex' = [ex EXCEPT ![e].exited = TRUE, ![e].res = p.how]
              /\ proc' = [proc EXCEPT ![e].run = "reaped"]
      /\ UNCHANGED <<chld, sub, done>>

(* waitpid reports the status, or ECHILD when somebody else took it. *)
Reap(e) ==
  LET p == proc[e]
      x == [ex[e] EXCEPT !.exited = TRUE, !.res = IF p.run = "zombie" THEN p.how ELSE @]
  IN  IF p.run = "running" \/ ex[e].exited
      THEN UNCHANGED <<ex, proc, chld, sub, done>>
      ELSE Settle(e, x, [p EXCEPT !.run = "reaped"])

Walk == /\ cur # None /\ Reap(cur) /\ cur' = After(chld', cur)

-------------------------------------------------------------------------------
(* The children *)
Live(e) == ex[e].state # "Freed"

ChildWrites(e, o) ==
  /\ Live(e) /\ o \in proc[e].open \ proc[e].ready
  /\ proc' = [proc EXCEPT ![e].ready = @ \cup {o}]
  /\ UNCHANGED <<ex, chld, cur, sub, done>>

(* The child, or the last descendant that has the output, closes it. *)
OutputCloses(e, o) ==
  /\ Live(e) /\ o \in proc[e].open
  /\ proc' = [proc EXCEPT ![e].open = @ \ {o}, ![e].ready = @ \cup {o}]
  /\ UNCHANGED <<ex, chld, cur, sub, done>>

ChildExits(e) ==
  /\ Live(e) /\ proc[e].run = "running"
  /\ \E how \in {"code", "signal"} :
       /\ proc[e].sig = "KILL" => how = "signal"
       /\ proc' = [proc EXCEPT ![e].run = "zombie", ![e].how = how]
  /\ chld' = [chld EXCEPT !.pend = @ \/ chld.watch]
  /\ UNCHANGED <<ex, cur, sub, done>>

Stolen(e) ==
  /\ Thief /\ Live(e) /\ proc[e].run = "zombie"
  /\ proc' = [proc EXCEPT ![e].run = "reaped", ![e].how = "stolen"]
  /\ UNCHANGED <<ex, chld, cur, sub, done>>

Next ==
  \/ \E e \in Execs : Submit(e) \/ SubmitFails(e) \/ Cancel(e) \/ Destroy(e)
  \/ \E e \in Execs : Timeout(e) \/ Grace(e) \/ ChildExits(e) \/ Stolen(e)
  \/ \E e \in Execs, o \in Outs : Readable(e, o) \/ ChildWrites(e, o) \/ OutputCloses(e, o)
  \/ ChildSignal \/ Walk

(* The loop dispatches what is ready, a signal and an expired timer; a walk *)
(* ends.  SIGKILL ends the child and whoever of its group has an output.    *)
(* Nothing says that a command ends by itself.                              *)
Killed(e) == proc[e].sig = "KILL" /\ (ChildExits(e) \/ \E o \in Outs : OutputCloses(e, o))

Fairness ==
  /\ WF_vars(ChildSignal) /\ WF_vars(Walk)
  /\ \A e \in Execs : /\ WF_vars(Timeout(e)) /\ WF_vars(Grace(e)) /\ WF_vars(Killed(e))
                      /\ \A o \in Outs : WF_vars(Readable(e, o))

Spec == Init /\ [][Next]_vars /\ Fairness

-------------------------------------------------------------------------------
Busy(e) == ex[e].state \in {"Running", "Cancelling"}

(* The result of the last command was delivered and no other was submitted. *)
Delivered(e) == ex[e].state = "Idle" /\ ex[e].exited

States == {"Idle", "Running", "Cancelling", "Freed"}
Fates  == {"none", "running", "zombie", "reaped"}
Ends   == {"none", "code", "signal", "stolen"}
Sent   == {"none", "TERM", "KILL"}

Executors == [state : States, src : SUBSET Outs, eof : SUBSET Outs, exited : BOOLEAN,
              tmo : BOOLEAN, grace : BOOLEAN, res : Ends, timed : BOOLEAN]
Children  == [run : Fates, how : Ends, sig : Sent, open : SUBSET Outs, ready : SUBSET Outs]

TypeOK ==
  /\ ex \in [Execs -> Executors] /\ proc \in [Execs -> Children]
  /\ chld \in [list : Seq(Execs), count : Nat, watch : BOOLEAN, pend : BOOLEAN]
  /\ cur \in Execs \cup {None}
  /\ {sub, done} \subseteq [Execs -> Nat] /\ \A e \in Execs : sub[e] <= Runs[e]

(* The shared watch: its list holds each busy executor once and no other,  *)
(* its count is the length of the list, and SIGCHLD is watched exactly     *)
(* while somebody runs.  The walk stands on a listed executor.             *)
Registered ==
  /\ chld.count = Len(chld.list)
  /\ \A e \in Execs : Busy(e) <=> \E i \in 1 .. Len(chld.list) : chld.list[i] = e
  /\ \A i, j \in 1 .. Len(chld.list) : chld.list[i] = chld.list[j] => i = j
  /\ chld.watch <=> chld.list # <<>>
  /\ chld.pend => chld.watch
  /\ cur # None => \E i \in 1 .. Len(chld.list) : chld.list[i] = cur

(* No timer of an executor outlives its command, or the executor: it would *)
(* signal the next command's group, or touch freed memory (on_timeout,     *)
(* on_cancel_grace).                                                       *)
TimersOfBusy ==
  \A e \in Execs : /\ ex[e].tmo => Busy(e)
                   /\ ex[e].grace => ex[e].state = "Cancelling"

(* A call of Submit is answered once, by its error or by on_done, and the  *)
(* executor is busy exactly while it owes the answer (cmd_fire_done,       *)
(* xCommandExecutorSubmit).                                                *)
OneResult ==
  \A e \in Execs : ex[e].state # "Freed" => sub[e] = done[e] + IF Busy(e) THEN 1 ELSE 0

(* When on_done runs, the child is reaped, nobody can write an output that *)
(* is watched any more, and everything that was written has been read.     *)
ResultIsWhole ==
  \A e \in Execs : Delivered(e) =>
    proc[e].run = "reaped" /\ proc[e].open = {} /\ proc[e].ready = {}

(* The reported status is the child's own, unless it was reaped elsewhere. *)
StatusIsTrue ==
  \A e \in Execs : Delivered(e) => proc[e].how \in {ex[e].res, "stolen"}

(* An executor for which the outputs have ended and the child was reaped   *)
(* has delivered: no later event would make it (cmd_check_completion).     *)
AllMetIsDone == \A e \in Execs : Busy(e) => ~Finished(ex[e])

(* What is reported is all there is, and it is so (cmd_fire_done). *)
ResultHolds == ResultIsWhole /\ StatusIsTrue

(* The shared watch, and the executors between two handlers: each answers  *)
(* once, and none has everything it waits for and is still busy.           *)
ExecutorInv == TypeOK /\ Registered /\ OneResult /\ AllMetIsDone

(* sigchld_handler calls waitpid for each executor whose child ended since *)
(* the signal before: no child stays a zombie with no signal to come.      *)
Overlooked(e) == cur = None /\ Busy(e) /\ proc[e].run = "zombie" /\ ~chld.pend
EachIsReaped == \A e \in Execs : ~Overlooked(e)

(* The only way to be overlooked is a walk that ended at another executor, *)
(* which delivered its result (sigchld_handler).                           *)
Disturbed(e) == \E f \in Execs \ {e} : done[f] > 0
ReapedUnlessCutShort == \A e \in Execs : Overlooked(e) => Disturbed(e)

(* A command with a timeout and a command that was cancelled end, however  *)
(* the child behaves, unless the walk was cut short for it (on_timeout,    *)
(* on_cancel_grace, sigchld_handler).                                      *)
CommandEnds ==
  \A e \in Execs : \A k \in 1 .. Runs[e] :
    (sub[e] = k /\ (ex[e].tmo \/ ex[e].state = "Cancelling"))
      ~> (done[e] >= k \/ ex[e].state = "Freed" \/ Disturbed(e))

=============================================================================
