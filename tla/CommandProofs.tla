--------------------------- MODULE CommandProofs ---------------------------
(***************************************************************************)
(* What on_done reports is whole and true, and no timer outlives its       *)
(* command, for any number of executors, commands and configurations, the  *)
(* ones that never complete included.  Then the watch that all executors   *)
(* share: its list, who answers when, and who waits for the walk.          *)
(***************************************************************************)
EXTENDS Command, TLAPS

IsBusy(x) == x.state \in {"Running", "Cancelling"}

(* What an executor with fields x and child p has learnt is so. *)
Outputs(x, p) ==
  /\ x.eof \cap (p.open \cup p.ready) = {}
  /\ ~IsBusy(x) => p.open = {} /\ p.ready = {}

Status(x, p) ==
  /\ x.state # "Freed" /\ x.exited => p.run = "reaped" /\ p.how \in {x.res, "stolen"}
  /\ ~x.exited => x.res = "none"
  /\ ~x.exited /\ p.run = "reaped" => p.how = "stolen"
  /\ p.run \in {"none", "running"} => p.how = "none"

Timers(x) ==
  Careful => (x.tmo => IsBusy(x)) /\ (x.grace => x.state = "Cancelling")

Fits(x, p) == Outputs(x, p) /\ Status(x, p) /\ Timers(x)

Inv ==
  /\ ex \in [Execs -> Executors] /\ proc \in [Execs -> Children]
  /\ \A e \in Execs : Fits(ex[e], proc[e])

-------------------------------------------------------------------------------
(* A step that gives one executor fitting fields keeps the invariant. *)
LEMMA One ==
  ASSUME Inv, NEW e \in Execs, NEW x \in Executors, NEW p \in Children, Fits(x, p),
         ex' = [ex EXCEPT ![e] = x], proc' = [proc EXCEPT ![e] = p]
  PROVE  Inv'
<1>1. ex' \in [Execs -> Executors] /\ proc' \in [Execs -> Children]
  BY DEF Inv
<1>2. ASSUME NEW f \in Execs PROVE Fits(ex'[f], proc'[f])
  <2>1. CASE f = e  BY <2>1 DEF Inv
  <2>2. CASE f # e  BY <2>2 DEF Inv
  <2> QED BY <2>1, <2>2
<1>3. (\A f \in Execs : Fits(ex[f], proc[f]))' <=> \A f \in Execs : Fits(ex'[f], proc'[f])
  BY DEF Fits, Outputs, Status, Timers, IsBusy
<1> QED BY <1>1, <1>2, <1>3 DEF Inv

LEMMA Same ==
  ASSUME Inv, ex' = ex, proc' = proc
  PROVE  Inv'
BY DEF Inv, Fits, Outputs, Status, Timers, IsBusy

(* Nothing is known of an executor that was not created. *)
LEMMA Nobody ==
  ASSUME Inv, NEW e, e \notin Execs, NEW x, NEW p,
         ex' = [ex EXCEPT ![e] = x], proc' = [proc EXCEPT ![e] = p]
  PROVE  Inv'
<1>1. ex' = ex /\ proc' = proc  BY DEF Inv
<1> QED BY <1>1, Same

LEMMA Initial ==
  /\ Fresh \in Executors /\ NoProc \in Children
  /\ Fresh.state = "Idle" /\ Fresh.src = {} /\ Fresh.eof = {} /\ ~Fresh.exited
  /\ ~Fresh.tmo /\ ~Fresh.grace /\ Fresh.res = "none" /\ Fresh.timed = FALSE
  /\ NoProc.run = "none" /\ NoProc.how = "none" /\ NoProc.open = {} /\ NoProc.ready = {}
BY DEF Fresh, NoProc, Executors, Children, States, Fates, Ends, Sent

LEMMA LaunchFits ==
  ASSUME Inv, NEW e, NEW r, NEW d, Launch(e, r, d)
  PROVE  Inv'
<1>1. PICK c \in Confs[e], fast \in BOOLEAN, how \in {"code", "signal"}, held \in SUBSET Outs :
        /\ held \subseteq c.watch
        /\ IF fast THEN c \in FastConfs ELSE held = c.watch /\ how = "code"
        /\ Forked(e, r, d, c, fast, how, held)
  BY Zenon DEF Launch
<1> DEFINE x == Started(c, fast, how, held)
           p == Spawned(c, fast, how, held)
<1>0. ex' = [ex EXCEPT ![e] = x] /\ proc' = [proc EXCEPT ![e] = p]
  BY <1>1 DEF Forked
<1>9. CASE e \notin Execs
  <2> HIDE DEF x, p
  <2> QED BY <1>0, <1>9, Nobody
<1> SUFFICES ASSUME e \in Execs PROVE Inv'
  BY <1>9
<1>2. c.watch \in SUBSET Outs /\ c.timeout \in BOOLEAN /\ c.pty \in BOOLEAN
  BY CommandAssumption
<1>3. x \in Executors /\ p \in Children
  BY <1>2 DEF Started, Spawned, Over, Fresh, NoProc, Executors, Children, States, Fates, Ends, Sent
<1>4. Fits(x, p)
  <2>1. Outputs(x, p)  BY <1>1, <1>2 DEF Outputs, IsBusy, Started, Spawned, Over, Fresh, NoProc
  <2>2. Status(x, p)   BY <1>1 DEF Status, Started, Spawned, Fresh, NoProc
  <2>3. Timers(x)      BY DEF Timers, IsBusy, Started, Fresh
  <2> QED BY <2>1, <2>2, <2>3 DEF Fits
<1> HIDE DEF x, p
<1> QED BY <1>0, <1>3, <1>4, One

(* cmd_check_completion keeps what fits, whoever calls it. *)
LEMMA SettleFits ==
  ASSUME Inv, NEW e \in Execs, NEW x \in Executors, NEW p \in Children, Fits(x, p),
         x.exited => p.run = "reaped" /\ p.how \in {x.res, "stolen"}, Settle(e, x, p)
  PROVE  Inv'
<1>1. CASE Launch(e, Delist(chld, e), done[e] + 1)
  BY <1>1, LaunchFits
<1>2. CASE /\ Finished(x)
           /\ ex' = [ex EXCEPT ![e] = Idled(x)] /\ proc' = [proc EXCEPT ![e] = p]
  <2>1. Idled(x) \in Executors
    BY DEF Idled, Executors, States
  <2>2. /\ Idled(x).eof = x.eof /\ Idled(x).exited = x.exited /\ Idled(x).res = x.res
        /\ Idled(x).state = "Idle" /\ ~Idled(x).tmo /\ ~Idled(x).grace
    BY DEF Idled, Executors
  <2>3. Outputs(Idled(x), p)
    BY <1>2, <2>2 DEF Fits, Outputs, Finished, Children
  <2>4. Status(Idled(x), p)
    BY <1>2, <2>2 DEF Fits, Status, Finished
  <2>5. Timers(Idled(x))
    BY <2>2 DEF Timers
  <2>6. Fits(Idled(x), p)
    BY <2>3, <2>4, <2>5 DEF Fits
  <2> QED BY <1>2, <2>1, <2>6, One
<1>3. CASE ~Finished(x) /\ ex' = [ex EXCEPT ![e] = x] /\ proc' = [proc EXCEPT ![e] = p]
  BY <1>3, One
<1> QED BY <1>1, <1>2, <1>3 DEF Settle

LEMMA ReapFits ==
  ASSUME Inv, NEW e, Reap(e)
  PROVE  Inv'
<1> DEFINE p == proc[e]
           x == [ex[e] EXCEPT !.exited = TRUE, !.res = IF p.run = "zombie" THEN p.how ELSE @]
           q == [p EXCEPT !.run = "reaped"]
<1>1. CASE p.run = "running" \/ ex[e].exited
  BY <1>1, Same DEF Reap
<1>2. CASE ~(p.run = "running" \/ ex[e].exited) /\ Settle(e, x, q) /\ e \in Execs
  <2>1. ex[e] \in Executors /\ p \in Children /\ Fits(ex[e], p)
    BY <1>2 DEF Inv
  <2>2. x \in Executors /\ q \in Children
    BY <2>1 DEF Executors, Children, Fates
  <2>3. /\ x.state = ex[e].state /\ x.eof = ex[e].eof /\ x.exited
        /\ x.tmo = ex[e].tmo /\ x.grace = ex[e].grace
        /\ x.res = IF p.run = "zombie" THEN p.how ELSE ex[e].res
        /\ q.open = p.open /\ q.ready = p.ready /\ q.how = p.how /\ q.run = "reaped"
    BY <2>1 DEF Executors, Children
  <2>4. p.run \in {"none", "zombie", "reaped"}
    BY <1>2, <2>1 DEF Children, Fates
  <2>5. q.how \in {x.res, "stolen"}
    BY <1>2, <2>1, <2>3, <2>4 DEF Fits, Status
  <2>6. Outputs(x, q) /\ Timers(x)
    BY <2>1, <2>3 DEF Fits, Outputs, Timers, IsBusy
  <2>7. Status(x, q)
    BY <2>3, <2>5 DEF Status
  <2>8. Fits(x, q)
    BY <2>6, <2>7 DEF Fits
  <2> HIDE DEF x, q
  <2> QED BY <1>2, <2>2, <2>3, <2>5, <2>8, SettleFits
<1>3. CASE Settle(e, x, q) /\ e \notin Execs
  BY <1>3, Nobody, LaunchFits DEF Settle
<1> QED BY <1>1, <1>2, <1>3 DEF Reap

-------------------------------------------------------------------------------
(* Steps that change one executor, one child or both *)
LEMMA Fields ==
  ASSUME Inv, NEW e \in Execs
  PROVE  /\ ex[e] \in Executors /\ proc[e] \in Children /\ Fits(ex[e], proc[e])
         /\ ex = [ex EXCEPT ![e] = ex[e]] /\ proc = [proc EXCEPT ![e] = proc[e]]
BY DEF Inv

LEMMA StoppingFits ==
  ASSUME NEW x \in Executors, NEW p \in Children, NEW b \in BOOLEAN, Fits(x, p), IsBusy(x)
  PROVE  /\ Stopping([x EXCEPT !.tmo = b]) \in Executors
         /\ Signalled(p, "TERM") \in Children
         /\ Fits(Stopping([x EXCEPT !.tmo = b]), Signalled(p, "TERM"))
<1> DEFINE y == Stopping([x EXCEPT !.tmo = b])
           q == Signalled(p, "TERM")
<1>1. y \in Executors /\ q \in Children
  BY DEF Stopping, Signalled, Executors, Children, States, Sent
<1>2. /\ y.state = "Cancelling" /\ y.eof = x.eof /\ y.exited = x.exited /\ y.res = x.res
      /\ q.open = p.open /\ q.ready = p.ready /\ q.run = p.run /\ q.how = p.how
  BY DEF Stopping, Signalled, Executors, Children
<1>3. x.state # "Freed"
  BY DEF IsBusy
<1>4. Fits(y, q)
  BY <1>2, <1>3 DEF Fits, Outputs, Status, Timers, IsBusy
<1> QED BY <1>1, <1>4

LEMMA OwnerFits ==
  ASSUME Inv, NEW e \in Execs,
         Submit(e) \/ SubmitFails(e) \/ Cancel(e) \/ Destroy(e)
  PROVE  Inv'
<1>0. /\ ex[e] \in Executors /\ proc[e] \in Children /\ Fits(ex[e], proc[e])
      /\ ex = [ex EXCEPT ![e] = ex[e]] /\ proc = [proc EXCEPT ![e] = proc[e]]
  BY Fields
<1>1. CASE Submit(e)
  BY <1>1, LaunchFits DEF Submit
<1>2. CASE SubmitFails(e)
  <2>1. PICK s \in {{}, {"out"}} : /\ ex' = [ex EXCEPT ![e] = [Fresh EXCEPT !.src = s]]
                                 /\ proc' = [proc EXCEPT ![e] = NoProc]
    <3>1. Fresh = [Fresh EXCEPT !.src = {}]  BY DEF Fresh
    <3> QED BY <1>2, <3>1 DEF SubmitFails
  <2>2. [Fresh EXCEPT !.src = s] \in Executors /\ NoProc \in Children
    BY Initial DEF Executors, Outs
  <2>3. Fits([Fresh EXCEPT !.src = s], NoProc)
    BY DEF Fits, Outputs, Status, Timers, IsBusy, Fresh, NoProc
  <2> QED BY <2>1, <2>2, <2>3, One
<1>3. CASE Cancel(e)
  <2>1. IsBusy(ex[e])  BY <1>3 DEF Cancel, IsBusy
  <2>2. ex[e] = [ex[e] EXCEPT !.tmo = ex[e].tmo] /\ ex[e].tmo \in BOOLEAN
    BY <1>0 DEF Executors
  <2>3. /\ Stopping(ex[e]) \in Executors /\ Signalled(proc[e], "TERM") \in Children
        /\ Fits(Stopping(ex[e]), Signalled(proc[e], "TERM"))
    BY <1>0, <2>1, <2>2, StoppingFits
  <2>4. /\ ex' = [ex EXCEPT ![e] = Stopping(ex[e])]
        /\ proc' = [proc EXCEPT ![e] = Signalled(proc[e], "TERM")]
    BY <1>3 DEF Cancel
  <2> QED BY <2>3, <2>4, One
<1>4. CASE Destroy(e)
  <2>1. CASE ex[e].state = "Idle"
    <3> DEFINE x == [ex[e] EXCEPT !.state = "Freed"]
    <3>1. x \in Executors  BY <1>0 DEF Executors, States
    <3>2. Fits(x, proc[e])
      BY <1>0, <2>1 DEF Fits, Outputs, Status, Timers, IsBusy, Executors
    <3>3. ex' = [ex EXCEPT ![e] = x] /\ proc' = [proc EXCEPT ![e] = proc[e]]
      BY <1>0, <1>4, <2>1 DEF Destroy
    <3> QED BY <1>0, <3>1, <3>2, <3>3, One
  <2>2. CASE ex[e].state # "Idle"
    <3> DEFINE x == [ex[e] EXCEPT !.state = "Freed", !.src = {}]
    <3>1. x \in Executors  BY <1>0 DEF Executors, States
    <3>2. Careful => ~ex[e].tmo /\ ~ex[e].grace  BY <1>4 DEF Destroy
    <3>3. Fits(x, NoProc)
      BY <1>0, <3>2 DEF Fits, Outputs, Status, Timers, IsBusy, Executors, NoProc
    <3>4. ex' = [ex EXCEPT ![e] = x] /\ proc' = [proc EXCEPT ![e] = NoProc]
      BY <1>0, <1>4, <2>2 DEF Destroy
    <3> QED BY <3>1, <3>3, <3>4, Initial, One
  <2> QED BY <2>1, <2>2
<1> QED BY <1>1, <1>2, <1>3, <1>4

LEMMA LoopFits ==
  ASSUME Inv, NEW e \in Execs, Timeout(e) \/ Grace(e) \/ \E o \in Outs : Readable(e, o)
  PROVE  Inv'
<1>0. /\ ex[e] \in Executors /\ proc[e] \in Children /\ Fits(ex[e], proc[e])
      /\ ex = [ex EXCEPT ![e] = ex[e]] /\ proc = [proc EXCEPT ![e] = proc[e]]
  BY Fields
<1>1. CASE Timeout(e)
  <2> DEFINE x == [ex[e] EXCEPT !.tmo = FALSE]
  <2>1. CASE x.state = "Running"
    <3>1. IsBusy(ex[e])  BY <1>0, <2>1 DEF IsBusy, Executors
    <3>2. /\ Stopping(x) \in Executors /\ Signalled(proc[e], "TERM") \in Children
          /\ Fits(Stopping(x), Signalled(proc[e], "TERM"))
      BY <1>0, <3>1, StoppingFits
    <3>3. /\ ex' = [ex EXCEPT ![e] = Stopping(x)]
          /\ proc' = [proc EXCEPT ![e] = Signalled(proc[e], "TERM")]
      BY <1>1, <2>1 DEF Timeout
    <3> QED BY <3>2, <3>3, One
  <2>2. CASE x.state # "Running"
    <3>1. x \in Executors  BY <1>0 DEF Executors
    <3>2. Fits(x, proc[e])
      BY <1>0 DEF Fits, Outputs, Status, Timers, IsBusy, Executors
    <3>3. ex' = [ex EXCEPT ![e] = x] /\ proc' = [proc EXCEPT ![e] = proc[e]]
      BY <1>0, <1>1, <2>2 DEF Timeout
    <3> QED BY <1>0, <3>1, <3>2, <3>3, One
  <2> QED BY <2>1, <2>2
<1>2. CASE Grace(e)
  <2> DEFINE x == [ex[e] EXCEPT !.grace = FALSE]
             p == IF ex[e].state = "Cancelling" THEN Signalled(proc[e], "KILL") ELSE proc[e]
  <2>1. x \in Executors /\ p \in Children
    BY <1>0 DEF Executors, Children, Signalled, Sent
  <2>2. Fits(x, p)
    BY <1>0 DEF Fits, Outputs, Status, Timers, IsBusy, Executors, Children, Signalled
  <2>3. ex' = [ex EXCEPT ![e] = x] /\ proc' = [proc EXCEPT ![e] = p]
    BY <1>0, <1>2 DEF Grace
  <2> HIDE DEF x, p
  <2> QED BY <2>1, <2>2, <2>3, One
<1>3. ASSUME NEW o \in Outs, Readable(e, o) PROVE Inv'
  <2> DEFINE x == IF o \in proc[e].open THEN ex[e]
                  ELSE [ex[e] EXCEPT !.eof = @ \cup {o}, !.src = @ \ {o}]
             p == [proc[e] EXCEPT !.ready = @ \ {o}]
  <2>1. x \in Executors /\ p \in Children
    BY <1>0 DEF Executors, Children
  <2>2. IsBusy(ex[e])
    BY <1>0, <1>3 DEF Readable, Fits, Outputs
  <2>3. /\ x.state = ex[e].state /\ x.exited = ex[e].exited /\ x.res = ex[e].res
        /\ x.tmo = ex[e].tmo /\ x.grace = ex[e].grace
        /\ x.eof = IF o \in proc[e].open THEN ex[e].eof ELSE ex[e].eof \cup {o}
        /\ p.open = proc[e].open /\ p.ready = proc[e].ready \ {o}
        /\ p.run = proc[e].run /\ p.how = proc[e].how
    BY <1>0 DEF Executors, Children
  <2>4. Outputs(x, p)
    BY <1>0, <2>2, <2>3 DEF Fits, Outputs, IsBusy
  <2>5. Status(x, p) /\ Timers(x)
    BY <1>0, <2>3 DEF Fits, Status, Timers, IsBusy
  <2>6. x.exited => p.run = "reaped" /\ p.how \in {x.res, "stolen"}
    BY <2>2, <2>3, <2>5 DEF Status, IsBusy
  <2>7. Settle(e, x, p)
    BY <1>3 DEF Readable
  <2> HIDE DEF x, p
  <2> QED BY <2>1, <2>4, <2>5, <2>6, <2>7, SettleFits DEF Fits
<1> QED BY <1>1, <1>2, <1>3

LEMMA ChildFits ==
  ASSUME Inv, NEW e \in Execs,
         \/ ChildExits(e) \/ Stolen(e)
         \/ \E o \in Outs : ChildWrites(e, o) \/ OutputCloses(e, o)
  PROVE  Inv'
<1>0. /\ ex[e] \in Executors /\ proc[e] \in Children /\ Fits(ex[e], proc[e])
      /\ ex = [ex EXCEPT ![e] = ex[e]]
  BY Fields
<1>1. ASSUME NEW p \in Children, Fits(ex[e], p), proc' = [proc EXCEPT ![e] = p], ex' = ex
      PROVE  Inv'
  BY <1>0, <1>1, One
<1>2. CASE ChildExits(e)
  <2>1. PICK how \in {"code", "signal"} :
          proc' = [proc EXCEPT ![e] = [proc[e] EXCEPT !.run = "zombie", !.how = how]]
    BY <1>2 DEF ChildExits
  <2> DEFINE p == [proc[e] EXCEPT !.run = "zombie", !.how = how]
  <2>2. p \in Children  BY <1>0 DEF Children, Fates, Ends
  <2>3. Live(e) /\ proc[e].run = "running"  BY <1>2 DEF ChildExits
  <2>4. Fits(ex[e], p)
    BY <1>0, <2>3 DEF Fits, Outputs, Status, Children, Live
  <2>5. ex' = ex  BY <1>2 DEF ChildExits
  <2> QED BY <1>1, <2>1, <2>2, <2>4, <2>5
<1>3. CASE Stolen(e)
  <2> DEFINE p == [proc[e] EXCEPT !.run = "reaped", !.how = "stolen"]
  <2>1. p \in Children  BY <1>0 DEF Children, Fates, Ends
  <2>2. Fits(ex[e], p)
    BY <1>0 DEF Fits, Outputs, Status, Children
  <2>3. proc' = [proc EXCEPT ![e] = p] /\ ex' = ex  BY <1>3 DEF Stolen
  <2> QED BY <1>1, <2>1, <2>2, <2>3
<1>4. ASSUME NEW o \in Outs, ChildWrites(e, o) PROVE Inv'
  <2> DEFINE p == [proc[e] EXCEPT !.ready = @ \cup {o}]
  <2>1. p \in Children  BY <1>0 DEF Children
  <2>2. o \in proc[e].open  BY <1>4 DEF ChildWrites
  <2>3. Fits(ex[e], p)
    BY <1>0, <2>2 DEF Fits, Outputs, Status, Children
  <2>4. proc' = [proc EXCEPT ![e] = p] /\ ex' = ex  BY <1>4 DEF ChildWrites
  <2> QED BY <1>1, <2>1, <2>3, <2>4
<1>5. ASSUME NEW o \in Outs, OutputCloses(e, o) PROVE Inv'
  <2> DEFINE p == [proc[e] EXCEPT !.open = @ \ {o}, !.ready = @ \cup {o}]
  <2>1. p \in Children  BY <1>0 DEF Children
  <2>2. o \in proc[e].open  BY <1>5 DEF OutputCloses
  <2>3. Fits(ex[e], p)
    BY <1>0, <2>2 DEF Fits, Outputs, Status, Children
  <2>4. proc' = [proc EXCEPT ![e] = p] /\ ex' = ex  BY <1>5 DEF OutputCloses
  <2> QED BY <1>1, <2>1, <2>3, <2>4
<1> QED BY <1>2, <1>3, <1>4, <1>5

-------------------------------------------------------------------------------
(* The fields of every executor fit its child, in every reachable state. *)
THEOREM Invariance == Spec => []Inv
<1>1. Init => Inv
  <2> SUFFICES ASSUME Init PROVE Inv  OBVIOUS
  <2>1. ASSUME NEW e \in Execs PROVE Fits(ex[e], proc[e])
    BY Initial DEF Init, Fits, Outputs, Status, Timers, IsBusy
  <2> QED BY <2>1, Initial DEF Init, Inv
<1>2. Inv /\ [Next]_vars => Inv'
  <2> SUFFICES ASSUME Inv, [Next]_vars PROVE Inv'  OBVIOUS
  <2>1. ASSUME NEW e \in Execs, Submit(e) \/ SubmitFails(e) \/ Cancel(e) \/ Destroy(e)
        PROVE  Inv'
    BY <2>1, OwnerFits
  <2>2. ASSUME NEW e \in Execs, Timeout(e) \/ Grace(e)
        PROVE  Inv'
    BY <2>2, LoopFits
  <2>3. ASSUME NEW e \in Execs, ChildExits(e) \/ Stolen(e)
        PROVE  Inv'
    BY <2>3, ChildFits
  <2>4. ASSUME NEW e \in Execs, NEW o \in Outs,
               Readable(e, o) \/ ChildWrites(e, o) \/ OutputCloses(e, o)
        PROVE  Inv'
    BY <2>4, LoopFits, ChildFits
  <2>5. CASE ChildSignal
    BY <2>5, Same DEF ChildSignal
  <2>6. CASE Walk
    BY <2>6, ReapFits DEF Walk
  <2>7. CASE UNCHANGED vars
    BY <2>7, Same DEF vars
  <2> QED BY <2>1, <2>2, <2>3, <2>4, <2>5, <2>6, <2>7 DEF Next
<1> QED BY <1>1, <1>2, PTL DEF Spec

(* When on_done has run, the child was reaped, nobody writes a watched     *)
(* output any more and all that was written has been read (on_*_readable,  *)
(* cmd_check_completion); and the status it reports is the child's, unless *)
(* another part of the program took it (sigchld_handler).                  *)
THEOREM ResultsHold == Spec => []ResultHolds
<1>1. Inv => ResultIsWhole
  BY DEF Inv, Fits, Outputs, Status, IsBusy, ResultIsWhole, Delivered
<1>2. Inv => StatusIsTrue
  BY DEF Inv, Fits, Status, StatusIsTrue, Delivered
<1>3. Inv => ResultHolds
  BY <1>1, <1>2 DEF ResultHolds
<1> QED BY <1>3, Invariance, PTL

(* Unless a busy executor is destroyed, no timer outlives its command      *)
(* (cmd_fire_done, on_timeout, on_cancel_grace).                           *)
THEOREM TimersEnd == Careful => (Spec => []TimersOfBusy)
<1> SUFFICES ASSUME Careful PROVE Spec => []TimersOfBusy
  OBVIOUS
<1>1. Inv => TimersOfBusy
  BY DEF Inv, Fits, Timers, IsBusy, TimersOfBusy, Busy
<1> QED BY <1>1, Invariance, PTL

-------------------------------------------------------------------------------
(* The shared watch.  A multiplexer r whose list holds each executor of S  *)
(* once and no other, and which watches SIGCHLD exactly while S has one.   *)
In(list, e) == \E i \in 1 .. Len(list) : list[i] = e
Once(list)  == \A i, j \in 1 .. Len(list) : list[i] = list[j] => i = j

Lists(r, S) ==
  /\ r \in [list : Seq(Execs), count : Nat, watch : BOOLEAN, pend : BOOLEAN]
  /\ r.count = Len(r.list)
  /\ Once(r.list)
  /\ \A e \in Execs : e \in S <=> In(r.list, e)
  /\ r.watch <=> r.list # <<>>
  /\ r.pend => r.watch

(* xCommandExecutorSubmit puts an executor before the others. *)
LEMMA PrependIs ==
  ASSUME NEW list \in Seq(Execs), NEW e \in Execs
  PROVE  /\ <<e>> \o list \in Seq(Execs)
         /\ Len(<<e>> \o list) = Len(list) + 1
         /\ (<<e>> \o list)[1] = e
         /\ \A i \in 1 .. Len(list) : (<<e>> \o list)[i + 1] = list[i]
         /\ \A i \in 2 .. Len(list) + 1 : (<<e>> \o list)[i] = list[i - 1]
  OBVIOUS

LEMMA Prepended ==
  ASSUME NEW list \in Seq(Execs), Once(list), NEW e \in Execs, ~In(list, e)
  PROVE  /\ Once(<<e>> \o list)
         /\ \A f : In(<<e>> \o list, f) <=> f = e \/ In(list, f)
<1> DEFINE q == <<e>> \o list
<1>1. /\ q \in Seq(Execs) /\ Len(q) = Len(list) + 1 /\ q[1] = e /\ Len(list) \in Nat
      /\ \A i \in 1 .. Len(list) : q[i + 1] = list[i]
      /\ \A i \in 2 .. Len(list) + 1 : q[i] = list[i - 1]
  BY PrependIs
<1> HIDE DEF q
<1>2. Once(q)
  <2> SUFFICES ASSUME NEW i \in 1 .. Len(q), NEW j \in 1 .. Len(q), q[i] = q[j], i # j
               PROVE  FALSE
    BY Zenon DEF Once
  <2>1. CASE i = 1
    <3>1. j - 1 \in 1 .. Len(list) /\ q[j] = list[j - 1]  BY <1>1, <2>1
    <3> QED BY <1>1, <2>1, <3>1 DEF In
  <2>2. CASE j = 1
    <3>1. i - 1 \in 1 .. Len(list) /\ q[i] = list[i - 1]  BY <1>1, <2>2
    <3> QED BY <1>1, <2>2, <3>1 DEF In
  <2>3. CASE i # 1 /\ j # 1
    <3>1. /\ i - 1 \in 1 .. Len(list) /\ q[i] = list[i - 1]
          /\ j - 1 \in 1 .. Len(list) /\ q[j] = list[j - 1]
      BY <1>1, <2>3
    <3>2. i - 1 = j - 1  BY <3>1 DEF Once
    <3> QED BY <3>2
  <2> QED BY <2>1, <2>2, <2>3
<1>3. ASSUME NEW f PROVE In(q, f) <=> f = e \/ In(list, f)
  <2>1. ASSUME In(q, f) PROVE f = e \/ In(list, f)
    <3>1. PICK i \in 1 .. Len(q) : q[i] = f  BY <2>1 DEF In
    <3>2. CASE i = 1  BY <1>1, <3>1, <3>2
    <3>3. CASE i # 1
      <4>1. i - 1 \in 1 .. Len(list) /\ list[i - 1] = f  BY <1>1, <3>1, <3>3
      <4> QED BY <4>1 DEF In
    <3> QED BY <3>2, <3>3
  <2>2. f = e => In(q, f)
    <3>1. 1 \in 1 .. Len(q)  BY <1>1
    <3> QED BY <1>1, <3>1 DEF In
  <2>3. ASSUME In(list, f) PROVE In(q, f)
    <3>1. PICK i \in 1 .. Len(list) : list[i] = f  BY <2>3 DEF In
    <3>2. i + 1 \in 1 .. Len(q) /\ q[i + 1] = f  BY <1>1, <3>1
    <3> QED BY <3>2 DEF In
  <2> QED BY <2>1, <2>2, <2>3
<1> QED BY <1>2, <1>3 DEF q

(* sigchld_remove takes out the one it is called for, and no other. *)
LEMMA Removed ==
  ASSUME NEW list \in Seq(Execs), Once(list), NEW e, In(list, e)
  PROVE  /\ Unlinked(list, e) \in Seq(Execs)
         /\ Len(Unlinked(list, e)) = Len(list) - 1
         /\ Once(Unlinked(list, e))
         /\ \A f : In(Unlinked(list, e), f) <=> f # e /\ In(list, f)
<1>1. PICK i \in 1 .. Len(list) : list[i] = e  BY DEF In
<1>0. Len(list) \in Nat  OBVIOUS
<1>2. \A j \in 1 .. i - 1 : list[j] # e
  <2> SUFFICES ASSUME NEW j \in 1 .. i - 1, list[j] = e PROVE FALSE  OBVIOUS
  <2>1. j \in 1 .. Len(list) /\ j # i  BY <1>0
  <2> QED BY <1>1, <2>1 DEF Once
<1> DEFINE k == CHOOSE n \in 1 .. Len(list) :
                  list[n] = e /\ \A j \in 1 .. n - 1 : list[j] # e
           q == [n \in 1 .. Len(list) - 1 |-> IF n < k THEN list[n] ELSE list[n + 1]]
<1>3. k \in 1 .. Len(list) /\ list[k] = e
  BY <1>1, <1>2
<1>4. Unlinked(list, e) = q
  BY <1>1, Zenon DEF Unlinked
<1> HIDE DEF k
<1>5. ASSUME NEW n \in 1 .. Len(list) - 1 PROVE n \in 1 .. Len(list) /\ n + 1 \in 1 .. Len(list)
  BY <1>0, <1>5
<1>6. q \in Seq(Execs) /\ Len(q) = Len(list) - 1
  <2>1. Len(list) - 1 \in Nat  BY <1>0, <1>3
  <2>2. ASSUME NEW n \in 1 .. Len(list) - 1
        PROVE  (IF n < k THEN list[n] ELSE list[n + 1]) \in Execs
    <3>1. n \in 1 .. Len(list) /\ n + 1 \in 1 .. Len(list)  BY <1>5
    <3>2. list[n] \in Execs /\ list[n + 1] \in Execs  BY <3>1
    <3> QED BY <3>2
  <2>3. q \in [1 .. Len(list) - 1 -> Execs]  BY <2>2
  <2> HIDE DEF q
  <2> QED BY <2>1, <2>3
<1>7. \A n \in 1 .. Len(list) - 1 : q[n] = IF n < k THEN list[n] ELSE list[n + 1]
  OBVIOUS
<1> HIDE DEF q
<1>8. Once(q)
  <2> SUFFICES ASSUME NEW n \in 1 .. Len(q), NEW j \in 1 .. Len(q), q[n] = q[j]
               PROVE  n = j
    BY Zenon DEF Once
  <2> DEFINE a == IF n < k THEN n ELSE n + 1
             b == IF j < k THEN j ELSE j + 1
  <2>1. n \in 1 .. Len(list) - 1 /\ j \in 1 .. Len(list) - 1  BY <1>6
  <2>2. a \in 1 .. Len(list) /\ b \in 1 .. Len(list)  BY <1>0, <1>3, <2>1
  <2>3. q[n] = list[a] /\ q[j] = list[b]  BY <1>7, <2>1
  <2>4. a = b
    <3> HIDE DEF a, b
    <3> QED BY <2>2, <2>3 DEF Once
  <2> QED BY <1>3, <2>1, <2>4
<1>9. ASSUME NEW f PROVE In(q, f) <=> f # e /\ In(list, f)
  <2>1. ASSUME In(q, f) PROVE f # e /\ In(list, f)
    <3>1. PICK n \in 1 .. Len(q) : q[n] = f  BY <2>1 DEF In
    <3> DEFINE a == IF n < k THEN n ELSE n + 1
    <3>2. n \in 1 .. Len(list) - 1  BY <1>6
    <3>3. a \in 1 .. Len(list) /\ a # k  BY <1>0, <1>3, <3>2
    <3>4. list[a] = f  BY <1>7, <3>1, <3>2
    <3> HIDE DEF a
    <3>5. f # e  BY <1>3, <3>3, <3>4 DEF Once
    <3> QED BY <3>3, <3>4, <3>5 DEF In
  <2>2. ASSUME f # e, In(list, f) PROVE In(q, f)
    <3>1. PICK n \in 1 .. Len(list) : list[n] = f  BY <2>2 DEF In
    <3>2. n # k  BY <1>3, <2>2, <3>1
    <3>3. CASE n < k
      <4>1. n \in 1 .. Len(list) - 1  BY <1>0, <1>3, <3>3
      <4>2. q[n] = f  BY <1>7, <3>1, <3>3, <4>1
      <4> QED BY <1>6, <4>1, <4>2 DEF In
    <3>4. CASE ~(n < k)
      <4>1. n - 1 \in 1 .. Len(list) - 1 /\ ~(n - 1 < k) /\ n - 1 + 1 = n
        BY <1>0, <1>3, <3>2, <3>4
      <4>2. q[n - 1] = f  BY <1>7, <3>1, <4>1
      <4> QED BY <1>6, <4>1, <4>2 DEF In
    <3> QED BY <3>3, <3>4
  <2> QED BY <2>1, <2>2
<1> QED BY <1>4, <1>6, <1>8, <1>9

LEMMA Enlisted ==
  ASSUME NEW r, NEW S \in SUBSET Execs, NEW e \in Execs \ S, Lists(r, S)
  PROVE  /\ Lists(Enlist(r, e), S \cup {e})
         /\ Enlist(r, e).list = <<e>> \o r.list
         /\ Enlist(r, e).pend = r.pend /\ Enlist(r, e).watch
<1> DEFINE m == Enlist(r, e)
<1>1. /\ r \in [list : Seq(Execs), count : Nat, watch : BOOLEAN, pend : BOOLEAN]
      /\ r.list \in Seq(Execs) /\ r.count \in Nat /\ r.count = Len(r.list) /\ Once(r.list)
      /\ \A f \in Execs : f \in S <=> In(r.list, f)
      /\ r.watch \in BOOLEAN /\ r.pend \in BOOLEAN
      /\ r.watch <=> r.list # <<>>
  BY DEF Lists
<1>2. ~In(r.list, e)  BY <1>1
<1>3. /\ Once(<<e>> \o r.list)
      /\ \A f : In(<<e>> \o r.list, f) <=> f = e \/ In(r.list, f)
  BY <1>1, <1>2, Prepended
<1>4. /\ m.list = <<e>> \o r.list /\ m.count = r.count + 1
      /\ m.watch = (r.watch \/ r.count = 0) /\ m.pend = r.pend
  BY <1>1 DEF Enlist
<1>5. <<e>> \o r.list \in Seq(Execs) /\ Len(<<e>> \o r.list) = Len(r.list) + 1
  BY <1>1, PrependIs
<1>6. m \in [list : Seq(Execs), count : Nat, watch : BOOLEAN, pend : BOOLEAN]
  <2>1. r.count + 1 \in Nat /\ (r.watch \/ r.count = 0) \in BOOLEAN  BY <1>1
  <2>2. ASSUME NEW l \in Seq(Execs), NEW n \in Nat, NEW w \in BOOLEAN
        PROVE  [r EXCEPT !.list = l, !.count = n, !.watch = w]
                 \in [list : Seq(Execs), count : Nat, watch : BOOLEAN, pend : BOOLEAN]
    BY <1>1
  <2>3. m = [r EXCEPT !.list = <<e>> \o r.list, !.count = r.count + 1,
                      !.watch = r.watch \/ r.count = 0]
    BY Zenon DEF Enlist
  <2> HIDE DEF m
  <2> QED BY <1>5, <2>1, <2>2, <2>3, Zenon
<1>7. m.watch
  BY <1>1, <1>4
<1>8. m.list # <<>>
  BY <1>1, <1>4, <1>5
<1>9. \A f \in Execs : f \in S \cup {e} <=> In(m.list, f)
  BY <1>1, <1>3, <1>4
<1>10. m.count = Len(m.list)
  BY <1>1, <1>4, <1>5
<1>11. Once(m.list)
  BY <1>3, <1>4
<1>12. Lists(m, S \cup {e})
  <2> HIDE DEF m
  <2> QED BY <1>6, <1>7, <1>8, <1>9, <1>10, <1>11 DEF Lists
<1> QED BY <1>4, <1>7, <1>12

LEMMA Delisted ==
  ASSUME NEW r, NEW S \in SUBSET Execs, NEW e \in S, Lists(r, S)
  PROVE  /\ Lists(Delist(r, e), S \ {e})
         /\ S # {e} => Delist(r, e).pend = r.pend
<1> DEFINE m == Delist(r, e)
<1>1. /\ r \in [list : Seq(Execs), count : Nat, watch : BOOLEAN, pend : BOOLEAN]
      /\ r.list \in Seq(Execs) /\ r.count \in Nat /\ r.count = Len(r.list) /\ Once(r.list)
      /\ \A f \in Execs : f \in S <=> In(r.list, f)
      /\ r.watch \in BOOLEAN /\ r.pend \in BOOLEAN
      /\ r.watch <=> r.list # <<>>
      /\ r.pend => r.watch
  BY DEF Lists
<1>2. In(r.list, e)  BY <1>1
<1> DEFINE q == Unlinked(r.list, e)
<1>3. /\ q \in Seq(Execs) /\ Len(q) = Len(r.list) - 1 /\ Once(q)
      /\ \A f : In(q, f) <=> f # e /\ In(r.list, f)
  BY <1>1, <1>2, Removed
<1>4. r.list # <<>> /\ r.count > 0
  BY <1>1, <1>2 DEF In
<1>5. /\ m.list = q /\ m.count = r.count - 1
      /\ m.watch = (r.watch /\ r.count # 1) /\ m.pend = (r.pend /\ r.count # 1)
      /\ m = [list |-> q, count |-> m.count, watch |-> m.watch, pend |-> m.pend]
  BY DEF Delist
<1> HIDE DEF q, m
<1>6. m.count \in Nat /\ m.watch \in BOOLEAN /\ m.pend \in BOOLEAN
  BY <1>1, <1>4, <1>5
<1>7. m \in [list : Seq(Execs), count : Nat, watch : BOOLEAN, pend : BOOLEAN]
  BY <1>3, <1>5, <1>6
<1>8. r.count # 1 <=> q # <<>>
  <2>1. ASSUME NEW l \in Seq(Execs) PROVE l # <<>> <=> Len(l) # 0  OBVIOUS
  <2>2. Len(q) = r.count - 1  BY <1>1, <1>3
  <2>3. q # <<>> <=> Len(q) # 0  BY <1>3, <2>1
  <2> QED BY <1>1, <2>2, <2>3
<1>9. m.watch <=> m.list # <<>>
  BY <1>1, <1>4, <1>5, <1>8
<1>10. m.pend => m.watch
  BY <1>1, <1>5
<1>11. m.count = Len(m.list) /\ Once(m.list)
  BY <1>1, <1>3, <1>5
<1>12. \A f \in Execs : f \in S \ {e} <=> In(m.list, f)
  BY <1>1, <1>3, <1>5
<1>13. Lists(m, S \ {e})
  BY <1>7, <1>9, <1>10, <1>11, <1>12 DEF Lists
<1>14. ASSUME S # {e} PROVE m.pend = r.pend
  <2>1. PICK f \in S : f # e  BY <1>14
  <2>2. In(q, f)  BY <1>1, <1>3, <2>1
  <2>3. q # <<>>  BY <2>2 DEF In
  <2> QED BY <1>1, <1>5, <1>8, <2>3
<1> QED BY <1>13, <1>14 DEF m

(* A signal is noted while it is watched. *)
LEMMA Noted ==
  ASSUME NEW r, NEW S \in SUBSET Execs, Lists(r, S), NEW b \in BOOLEAN
  PROVE  /\ Lists([r EXCEPT !.pend = @ \/ (b /\ r.watch)], S)
         /\ Lists([r EXCEPT !.pend = FALSE], S)
<1>1. ASSUME NEW p \in BOOLEAN, p => r.watch PROVE Lists([r EXCEPT !.pend = p], S)
  <2> DEFINE m == [r EXCEPT !.pend = p]
  <2>1. r \in [list : Seq(Execs), count : Nat, watch : BOOLEAN, pend : BOOLEAN]  BY DEF Lists
  <2>2. /\ m \in [list : Seq(Execs), count : Nat, watch : BOOLEAN, pend : BOOLEAN]
        /\ m.list = r.list /\ m.count = r.count /\ m.watch = r.watch /\ m.pend = p
    BY <2>1
  <2> HIDE DEF m
  <2>3. Lists(m, S)  BY <1>1, <2>2 DEF Lists
  <2> QED BY <2>3 DEF m
<1>2. r.pend \in BOOLEAN /\ r.watch \in BOOLEAN /\ (r.pend => r.watch)  BY DEF Lists
<1>3. (r.pend \/ (b /\ r.watch)) \in BOOLEAN /\ (r.pend \/ (b /\ r.watch) => r.watch)
  BY <1>2
<1> QED BY <1>1, <1>3

-------------------------------------------------------------------------------
(* The executors and the watch.  A child that is gone when Submit probes it *)
(* leaves an output to wait for: neither a pseudo-terminal, which completes *)
(* inside Submit, nor a command of which no output is watched, which never  *)
(* completes.                                                               *)
Probed == \A e \in Execs : \A c \in Confs[e] \cap FastConfs : ~c.pty /\ c.watch # {}

Runners == {e \in Execs : IsBusy(ex[e])}

(* A signal will come for e, or the walk will, unless it was cut short. *)
Ahead(e)   == \E i, j \in 1 .. Len(chld.list) : i <= j /\ chld.list[i] = cur /\ chld.list[j] = e
Awaited(e) == chld.pend \/ Disturbed(e) \/ (cur # None /\ Ahead(e))

Owes(x, s, d) ==
  /\ x.state # "Freed" => s = d + IF IsBusy(x) THEN 1 ELSE 0
  /\ IsBusy(x) => ~Finished(x)

Shared ==
  /\ Lists(chld, Runners)
  /\ cur \in Execs \cup {None} /\ (cur # None => cur \in Runners)
  /\ sub \in [Execs -> Nat] /\ done \in [Execs -> Nat]
  /\ \A e \in Execs : sub[e] <= Runs[e] /\ Owes(ex[e], sub[e], done[e])

Attended == \A e \in Runners : proc[e].run = "zombie" => Awaited(e)

(* e joins those of S that run, and an unheard signal stays unheard. *)
Joins(e, S, r, d) ==
  \E x \in Executors, p \in Children :
    /\ ex' = [ex EXCEPT ![e] = x] /\ proc' = [proc EXCEPT ![e] = p]
    /\ x.state = "Running" /\ ~Finished(x) /\ p.run # "zombie"
    /\ Lists(chld', S \cup {e}) /\ (r.pend => chld'.pend)
    /\ sub[e] < Runs[e] /\ sub' = [sub EXCEPT ![e] = @ + 1]
    /\ done' = [done EXCEPT ![e] = d]

LEMMA LaunchRuns ==
  ASSUME Probed, NEW S \in SUBSET Execs, NEW e \in Execs, e \notin S, NEW r, Lists(r, S),
         NEW d \in Nat, Launch(e, r, d)
  PROVE  Joins(e, S, r, d)
<1>1. PICK c \in Confs[e], fast \in BOOLEAN, how \in {"code", "signal"}, held \in SUBSET Outs :
        /\ held \subseteq c.watch
        /\ IF fast THEN c \in FastConfs ELSE held = c.watch /\ how = "code"
        /\ Forked(e, r, d, c, fast, how, held)
  BY Zenon DEF Launch
<1>2. sub[e] < Runs[e]
  BY DEF Launch
<1>3. c.watch \in SUBSET Outs /\ c.timeout \in BOOLEAN /\ c.pty \in BOOLEAN
  BY CommandAssumption
<1>4. fast => ~c.pty /\ c.watch # {}
  BY <1>1 DEF Probed
<1>5. ~Over(c, fast, held)
  BY <1>4 DEF Over
<1> DEFINE x == Started(c, fast, how, held)
           p == Spawned(c, fast, how, held)
           m == Enlist(r, e)
           n == [m EXCEPT !.pend = @ \/ (fast /\ m.watch)]
<1>6. x \in Executors /\ p \in Children
  BY <1>3 DEF Started, Spawned, Over, Fresh, NoProc, Executors, Children, States, Fates, Ends, Sent
<1>7. x.state = "Running" /\ x.exited = fast /\ x.eof = Outs \ c.watch
  BY <1>5 DEF Started, Fresh
<1>8. ~Finished(x)
  BY <1>3, <1>4, <1>7 DEF Finished
<1>9. p.run # "zombie"
  BY DEF Spawned, NoProc
<1>10. /\ ex' = [ex EXCEPT ![e] = x] /\ proc' = [proc EXCEPT ![e] = p]
       /\ chld' = n /\ sub' = [sub EXCEPT ![e] = @ + 1]
  BY <1>1, <1>5, Zenon DEF Forked
<1>11. done' = [done EXCEPT ![e] = d]
  <2>1. done' = [done EXCEPT ![e] = d + IF Over(c, fast, held) THEN 1 ELSE 0]
    BY <1>1, Zenon DEF Forked
  <2>2. d + (IF Over(c, fast, held) THEN 1 ELSE 0) = d
    BY <1>5
  <2> QED BY <2>1, <2>2, Zenon
<1>12. Lists(m, S \cup {e}) /\ m.pend = r.pend
  BY Enlisted
<1>13. Lists(n, S \cup {e})
  <2> HIDE DEF m
  <2>1. S \cup {e} \in SUBSET Execs  OBVIOUS
  <2> QED BY <1>12, <2>1, Noted
<1>14. m.pend => n.pend
  <2> HIDE DEF m
  <2>1. m \in [list : Seq(Execs), count : Nat, watch : BOOLEAN, pend : BOOLEAN]
    BY <1>12 DEF Lists
  <2> QED BY <2>1
<1> HIDE DEF x, p, m, n
<1> QED BY <1>2, <1>6, <1>7, <1>8, <1>9, <1>10, <1>11, <1>12, <1>13, <1>14 DEF Joins

(* One executor and its child change, and the watch to fit. *)
LEMMA OneShared ==
  ASSUME Inv, Shared, NEW e \in Execs, NEW x \in Executors, NEW p \in Children,
         ex' = [ex EXCEPT ![e] = x], proc' = [proc EXCEPT ![e] = p],
         NEW S, Lists(chld', S), S = IF IsBusy(x) THEN Runners \cup {e} ELSE Runners \ {e},
         NEW s \in Nat, NEW d \in Nat, s <= Runs[e], Owes(x, s, d),
         sub' = [sub EXCEPT ![e] = s], done' = [done EXCEPT ![e] = d],
         cur' \in Execs \cup {None}, cur' # None => cur' \in S
  PROVE  Shared' /\ Runners' = S
<1>1. ex'[e] = x /\ \A f \in Execs : f # e => ex'[f] = ex[f]
  BY DEF Inv
<1>2. Runners' = S
  BY <1>1 DEF Runners, IsBusy
<1>3. sub' \in [Execs -> Nat] /\ done' \in [Execs -> Nat]
  BY DEF Shared
<1>4. ASSUME NEW f \in Execs PROVE sub'[f] <= Runs[f] /\ Owes(ex'[f], sub'[f], done'[f])
  <2>1. CASE f = e  BY <1>1, <2>1 DEF Shared
  <2>2. CASE f # e
    <3>1. ex'[f] = ex[f] /\ sub'[f] = sub[f] /\ done'[f] = done[f]
      BY <1>1, <2>2 DEF Shared
    <3> QED BY <3>1 DEF Shared
  <2> QED BY <2>1, <2>2
<1>5. (\A f \in Execs : sub[f] <= Runs[f] /\ Owes(ex[f], sub[f], done[f]))'
  BY <1>4 DEF Owes, IsBusy, Finished
<1>6. Lists(chld, Runners)'
  BY <1>2 DEF Lists, In, Once
<1>7. Runners' = S
  BY <1>2
<1> QED BY <1>2, <1>3, <1>5, <1>6 DEF Shared

LEMMA RunnerIs ==
  ASSUME Inv, Shared, NEW e \in Runners
  PROVE  /\ e \in Execs /\ IsBusy(ex[e]) /\ ex[e].state \notin {"Idle", "Freed"}
         /\ sub[e] \in Nat /\ done[e] \in Nat /\ sub[e] = done[e] + 1
         /\ sub[e] <= Runs[e] /\ ~Finished(ex[e])
<1>1. e \in Execs /\ IsBusy(ex[e])  BY DEF Runners
<1>2. Owes(ex[e], sub[e], done[e]) /\ sub[e] <= Runs[e]  BY <1>1 DEF Shared
<1>3. sub[e] \in Nat /\ done[e] \in Nat  BY <1>1 DEF Shared
<1> QED BY <1>1, <1>2, <1>3 DEF Owes, IsBusy

(* cmd_check_completion delivers, and the next command may start, or waits. *)
LEMMA SettleShared ==
  ASSUME Probed, Inv, Shared, NEW e \in Runners, NEW x \in Executors, IsBusy(x),
         NEW p \in Children, Settle(e, x, p)
  PROVE  \E y \in Executors, q \in Children, S \in SUBSET Execs, s \in Nat, d \in Nat :
           /\ ex' = [ex EXCEPT ![e] = y] /\ proc' = [proc EXCEPT ![e] = q]
           /\ S = IF IsBusy(y) THEN Runners \cup {e} ELSE Runners \ {e}
           /\ Lists(chld', S) /\ s <= Runs[e] /\ Owes(y, s, d)
           /\ sub' = [sub EXCEPT ![e] = s] /\ done' = [done EXCEPT ![e] = d]
           /\ \/ d > 0 /\ (IsBusy(y) => q.run # "zombie")
              \/ y = x /\ q = p /\ chld' = chld /\ done' = done
<1>0. /\ e \in Execs /\ IsBusy(ex[e]) /\ sub[e] \in Nat /\ done[e] \in Nat
      /\ sub[e] = done[e] + 1 /\ sub[e] <= Runs[e]
  BY RunnerIs
<1>1. Lists(chld, Runners) /\ Runners \in SUBSET Execs
  BY DEF Shared, Runners
<1>2. Lists(Delist(chld, e), Runners \ {e})
  BY <1>1, Delisted
<1>3. sub = [sub EXCEPT ![e] = sub[e]] /\ done = [done EXCEPT ![e] = done[e]]
  BY <1>0 DEF Shared
<1>4. CASE Launch(e, Delist(chld, e), done[e] + 1)
  <2>1. Runners \ {e} \in SUBSET Execs /\ e \in Execs \ (Runners \ {e}) /\ done[e] + 1 \in Nat
    BY <1>0, <1>1
  <2>2. PICK y \in Executors, q \in Children :
          /\ ex' = [ex EXCEPT ![e] = y] /\ proc' = [proc EXCEPT ![e] = q]
          /\ y.state = "Running" /\ ~Finished(y) /\ q.run # "zombie"
          /\ Lists(chld', (Runners \ {e}) \cup {e})
          /\ sub[e] < Runs[e] /\ sub' = [sub EXCEPT ![e] = @ + 1]
          /\ done' = [done EXCEPT ![e] = done[e] + 1]
    <3>1. Joins(e, Runners \ {e}, Delist(chld, e), done[e] + 1)
      BY <1>0, <1>2, <1>4, <2>1, LaunchRuns
    <3> QED BY <3>1, Zenon DEF Joins
  <2>3. (Runners \ {e}) \cup {e} = Runners \cup {e}
    OBVIOUS
  <2>4. IsBusy(y)  BY <2>2 DEF IsBusy
  <2>5. /\ sub[e] + 1 \in Nat /\ sub[e] + 1 <= Runs[e] /\ done[e] + 1 > 0
        /\ sub[e] + 1 = done[e] + 1 + 1
    BY <1>0, <2>2, CommandAssumption
  <2>6. Owes(y, sub[e] + 1, done[e] + 1)
    BY <2>2, <2>4, <2>5 DEF Owes
  <2>7. sub' = [sub EXCEPT ![e] = sub[e] + 1]
    BY <2>2
  <2>8. Runners \cup {e} \in SUBSET Execs  BY <1>0, <1>1
  <2>9. Lists(chld', Runners \cup {e})  BY <2>2, <2>3
  <2> QED BY <2>1, <2>2, <2>4, <2>5, <2>6, <2>7, <2>8, <2>9
<1>5. CASE /\ Finished(x)
           /\ ex' = [ex EXCEPT ![e] = Idled(x)] /\ proc' = [proc EXCEPT ![e] = p]
           /\ chld' = Delist(chld, e) /\ done' = [done EXCEPT ![e] = @ + 1] /\ sub' = sub
  <2>1. Idled(x) \in Executors  BY DEF Idled, Executors, States
  <2>2. Idled(x).state = "Idle"  BY DEF Idled, Executors
  <2>3. ~IsBusy(Idled(x))  BY <2>2 DEF IsBusy
  <2>4. Owes(Idled(x), sub[e], done[e] + 1)  BY <1>0, <2>3 DEF Owes
  <2>5. done' = [done EXCEPT ![e] = done[e] + 1]  BY <1>5
  <2>6. done[e] + 1 \in Nat /\ done[e] + 1 > 0  BY <1>0
  <2>7. Lists(chld', Runners \ {e}) /\ Runners \ {e} \in SUBSET Execs  BY <1>1, <1>2, <1>5
  <2>8. sub' = [sub EXCEPT ![e] = sub[e]]  BY <1>3, <1>5
  <2> QED BY <1>0, <1>5, <2>1, <2>3, <2>4, <2>5, <2>6, <2>7, <2>8
<1>6. CASE /\ ~Finished(x)
           /\ ex' = [ex EXCEPT ![e] = x] /\ proc' = [proc EXCEPT ![e] = p]
           /\ UNCHANGED <<chld, sub, done>>
  <2>1. Owes(x, sub[e], done[e])  BY <1>0, <1>6 DEF Owes
  <2>2. sub' = [sub EXCEPT ![e] = sub[e]] /\ done' = [done EXCEPT ![e] = done[e]]
    BY <1>3, <1>6
  <2>3. Runners \cup {e} = Runners  OBVIOUS
  <2>4. Lists(chld', Runners \cup {e})  BY <1>1, <1>6, <2>3
  <2>5. Runners \cup {e} \in SUBSET Execs  BY <1>0, <1>1
  <2> QED BY <1>0, <1>6, <2>1, <2>2, <2>4, <2>5
<1> QED BY <1>4, <1>5, <1>6 DEF Settle

(* The walk goes on to an executor of the list, and to each in its turn. *)
LEMMA AfterIs ==
  ASSUME NEW r, NEW S \in SUBSET Execs, Lists(r, S), NEW e
  PROVE  /\ After(r, e) \in Execs \cup {None} /\ (After(r, e) # None => After(r, e) \in S)
         /\ \A i \in 1 .. Len(r.list) - 1 : r.list[i] = e => After(r, e) = r.list[i + 1]
<1>1. r.list \in Seq(Execs) /\ Once(r.list) /\ (\A f \in Execs : f \in S <=> In(r.list, f))
  BY DEF Lists
<1>2. Len(r.list) \in Nat  BY <1>1
<1>3. ASSUME NEW i \in 1 .. Len(r.list) - 1, r.list[i] = e
      PROVE  After(r, e) = r.list[i + 1] /\ r.list[i + 1] \in S
  <2> DEFINE k == CHOOSE n \in 1 .. Len(r.list) - 1 : r.list[n] = e
  <2>1. k \in 1 .. Len(r.list) - 1 /\ r.list[k] = e  BY <1>3
  <2>2. After(r, e) = r.list[1 + k]  BY <1>3, Zenon DEF After
  <2> HIDE DEF k
  <2>3. /\ k \in 1 .. Len(r.list) /\ i \in 1 .. Len(r.list) /\ i + 1 \in 1 .. Len(r.list)
        /\ 1 + i = i + 1
    BY <1>2, <1>3, <2>1
  <2>4. k = i  BY <1>1, <1>3, <2>1, <2>3 DEF Once
  <2>5. r.list[i + 1] \in Execs  BY <1>1, <2>3
  <2>6. In(r.list, r.list[i + 1])  BY <2>3 DEF In
  <2> QED BY <1>1, <2>2, <2>3, <2>4, <2>5, <2>6
<1>4. CASE \E i \in 1 .. Len(r.list) - 1 : r.list[i] = e
  BY <1>3, <1>4
<1>5. CASE ~\E i \in 1 .. Len(r.list) - 1 : r.list[i] = e
  <2>1. After(r, e) = None  BY <1>5, Zenon DEF After
  <2> QED BY <1>5, <2>1
<1> QED BY <1>4, <1>5

(* A step that does not stop or start a command, and ends no child. *)
LEMMA QuietShared ==
  ASSUME Inv, Shared, Attended, NEW e \in Execs, NEW x \in Executors, NEW p \in Children,
         ex' = [ex EXCEPT ![e] = x], proc' = [proc EXCEPT ![e] = p],
         UNCHANGED <<chld, cur, sub, done>>,
         IsBusy(x) <=> IsBusy(ex[e]), x.state = "Freed" <=> ex[e].state = "Freed",
         IsBusy(x) => ~Finished(x), p.run = "zombie" => proc[e].run = "zombie"
  PROVE  Shared' /\ Attended'
<1>1. /\ Lists(chld, Runners) /\ cur \in Execs \cup {None} /\ (cur # None => cur \in Runners)
      /\ sub[e] \in Nat /\ done[e] \in Nat /\ sub[e] <= Runs[e]
      /\ Owes(ex[e], sub[e], done[e])
      /\ sub = [sub EXCEPT ![e] = sub[e]] /\ done = [done EXCEPT ![e] = done[e]]
  BY DEF Shared
<1>2. Runners = IF IsBusy(x) THEN Runners \cup {e} ELSE Runners \ {e}
  BY DEF Runners
<1>3. Owes(x, sub[e], done[e])
  BY <1>1 DEF Owes
<1>4. Lists(chld', Runners)
  BY <1>1
<1>5. sub' = [sub EXCEPT ![e] = sub[e]] /\ done' = [done EXCEPT ![e] = done[e]]
  BY <1>1
<1>6. Shared' /\ Runners' = Runners
  BY <1>1, <1>2, <1>3, <1>4, <1>5, OneShared
<1>7. ASSUME NEW f \in Execs, Awaited(f) PROVE Awaited(f)'
  BY <1>7 DEF Awaited, Disturbed, Ahead
<1>8. ASSUME NEW f \in Runners, proc'[f].run = "zombie" PROVE Awaited(f)'
  <2>1. f \in Execs  BY DEF Runners
  <2>2. proc[f].run = "zombie"
    <3>1. CASE f = e  BY <1>8, <3>1 DEF Inv
    <3>2. CASE f # e  BY <1>8, <2>1, <3>2 DEF Inv
    <3> QED BY <3>1, <3>2
  <2> QED BY <1>7, <2>1, <2>2 DEF Attended
<1> QED BY <1>6, <1>8 DEF Attended

(* Between two handlers: who waited for a signal, or not in vain, still does. *)
LEMMA OneAttended ==
  ASSUME Inv, Attended, cur = None, NEW e \in Execs, NEW x \in Executors, NEW p \in Children,
         ex' = [ex EXCEPT ![e] = x], proc' = [proc EXCEPT ![e] = p],
         IsBusy(x) /\ p.run = "zombie" => Awaited(e)',
         \A g \in Execs : done[g] > 0 => done'[g] > 0,
         \A f \in Runners \ {e} : chld.pend => chld'.pend
  PROVE  Attended'
<1> SUFFICES ASSUME NEW f \in Runners', proc'[f].run = "zombie" PROVE Awaited(f)'
  BY DEF Attended
<1>1. f \in Execs /\ IsBusy(ex'[f])
  BY DEF Runners, IsBusy
<1>2. CASE f = e
  BY <1>1, <1>2 DEF Inv
<1>3. CASE f # e
  <2>1. ex[f] = ex'[f] /\ proc[f] = proc'[f]
    BY <1>1, <1>3 DEF Inv
  <2>2. f \in Runners
    BY <1>1, <2>1 DEF Runners
  <2>3. chld.pend \/ Disturbed(f)
    BY <2>1, <2>2 DEF Attended, Awaited
  <2>4. Disturbed(f) => \E g \in Execs \ {f} : done'[g] > 0
    BY DEF Disturbed
  <2>5. chld.pend => chld'.pend
    BY <1>3, <2>2
  <2> QED BY <2>3, <2>4, <2>5 DEF Awaited, Disturbed
<1> QED BY <1>2, <1>3

LEMMA SubmitShared ==
  ASSUME Probed, Inv, Shared, Attended, NEW e \in Execs, Submit(e)
  PROVE  Shared' /\ Attended'
<1>1. /\ cur = None /\ ex[e].state = "Idle" /\ cur' = cur /\ Launch(e, chld, done[e])
  BY DEF Submit
<1>2. /\ Lists(chld, Runners) /\ Runners \in SUBSET Execs /\ sub[e] \in Nat /\ done[e] \in Nat
      /\ e \notin Runners /\ Owes(ex[e], sub[e], done[e])
      /\ done = [done EXCEPT ![e] = done[e]]
  BY <1>1 DEF Shared, Runners, IsBusy
<1>3. Joins(e, Runners, chld, done[e])
  BY <1>1, <1>2, LaunchRuns
<1>4. PICK x \in Executors, p \in Children :
        /\ ex' = [ex EXCEPT ![e] = x] /\ proc' = [proc EXCEPT ![e] = p]
        /\ x.state = "Running" /\ ~Finished(x) /\ p.run # "zombie"
        /\ Lists(chld', Runners \cup {e}) /\ (chld.pend => chld'.pend)
        /\ sub[e] < Runs[e] /\ sub' = [sub EXCEPT ![e] = @ + 1]
        /\ done' = [done EXCEPT ![e] = done[e]]
  BY <1>3, Zenon DEF Joins
<1>5. IsBusy(x)  BY <1>4 DEF IsBusy
<1>6. sub[e] = done[e]  BY <1>1, <1>2 DEF Owes, IsBusy
<1>7. /\ sub[e] + 1 \in Nat /\ sub[e] + 1 <= Runs[e] /\ Owes(x, sub[e] + 1, done[e])
  BY <1>2, <1>4, <1>5, <1>6, CommandAssumption DEF Owes
<1>8. sub' = [sub EXCEPT ![e] = sub[e] + 1]  BY <1>4
<1>9. cur' = None /\ cur' \in Execs \cup {None}  BY <1>1
<1>10. Shared'
  <2> DEFINE S == Runners \cup {e}
             s == sub[e] + 1
  <2>1. S = IF IsBusy(x) THEN Runners \cup {e} ELSE Runners \ {e}  BY <1>5
  <2>2. Lists(chld', S) /\ s \in Nat /\ s <= Runs[e] /\ Owes(x, s, done[e])
        /\ sub' = [sub EXCEPT ![e] = s]
    BY <1>4, <1>7, <1>8
  <2> HIDE DEF S, s
  <2> QED BY <1>2, <1>4, <1>9, <2>1, <2>2, OneShared
<1>11. Attended'
  BY <1>1, <1>2, <1>4, OneAttended
<1> QED BY <1>10, <1>11

LEMMA SubmitFailsShared ==
  ASSUME Inv, Shared, Attended, NEW e \in Execs, SubmitFails(e)
  PROVE  Shared' /\ Attended'
<1>1. /\ cur = None /\ ex[e].state = "Idle" /\ cur' = cur /\ sub[e] < Runs[e]
      /\ sub' = [sub EXCEPT ![e] = @ + 1] /\ done' = [done EXCEPT ![e] = @ + 1]
      /\ proc' = [proc EXCEPT ![e] = NoProc]
  BY DEF SubmitFails
<1>2. /\ Lists(chld, Runners) /\ Runners \in SUBSET Execs /\ sub[e] \in Nat /\ done[e] \in Nat
      /\ e \notin Runners /\ Owes(ex[e], sub[e], done[e])
  BY <1>1 DEF Shared, Runners, IsBusy
<1>3. chld \in [list : Seq(Execs), count : Nat, watch : BOOLEAN, pend : BOOLEAN]
  BY <1>2 DEF Lists
<1>4. Lists(chld', Runners) /\ (chld.pend => chld'.pend)
  <2>1. CASE chld' = chld
    BY <1>2, <2>1
  <2>2. CASE chld' = [chld EXCEPT !.pend = @ \/ chld.watch]
    <3>1. [chld EXCEPT !.pend = @ \/ chld.watch] = [chld EXCEPT !.pend = @ \/ (TRUE /\ chld.watch)]
      BY <1>3
    <3>2. Lists([chld EXCEPT !.pend = @ \/ (TRUE /\ chld.watch)], Runners)
      BY <1>2, Noted
    <3> QED BY <1>3, <2>2, <3>1, <3>2
  <2> QED BY <2>1, <2>2 DEF SubmitFails
<1>5. PICK s \in {{}, {"out"}} : ex' = [ex EXCEPT ![e] = [Fresh EXCEPT !.src = s]]
  <2>1. Fresh = [Fresh EXCEPT !.src = {}]  BY DEF Fresh
  <2> QED BY <2>1 DEF SubmitFails
<1> DEFINE x == [Fresh EXCEPT !.src = s]
<1>6. x \in Executors /\ NoProc \in Children /\ x.state = "Idle" /\ NoProc.run = "none"
  BY Initial DEF Executors, Outs
<1> HIDE DEF x
<1>7. ~IsBusy(x)  BY <1>6 DEF IsBusy
<1>8. sub[e] = done[e]  BY <1>1, <1>2 DEF Owes, IsBusy
<1>9. /\ sub[e] + 1 \in Nat /\ sub[e] + 1 <= Runs[e] /\ done[e] + 1 \in Nat
      /\ Owes(x, sub[e] + 1, done[e] + 1)
  BY <1>1, <1>2, <1>7, <1>8, CommandAssumption DEF Owes
<1>10. ex' = [ex EXCEPT ![e] = x]  BY <1>5 DEF x
<1>11. Shared'
  <2> DEFINE m == sub[e] + 1
             d == done[e] + 1
  <2>1. Runners = IF IsBusy(x) THEN Runners \cup {e} ELSE Runners \ {e}  BY <1>2, <1>7
  <2>2. /\ m \in Nat /\ d \in Nat /\ m <= Runs[e] /\ Owes(x, m, d)
        /\ sub' = [sub EXCEPT ![e] = m] /\ done' = [done EXCEPT ![e] = d]
    BY <1>1, <1>9
  <2>3. cur' = None /\ cur' \in Execs \cup {None}  BY <1>1
  <2> HIDE DEF m, d
  <2> QED BY <1>1, <1>4, <1>6, <1>10, <2>1, <2>2, <2>3, OneShared
<1>12. \A g \in Execs : done[g] > 0 => done'[g] > 0
  BY <1>1, <1>2 DEF Shared
<1>13. Attended'
  BY <1>1, <1>4, <1>6, <1>7, <1>10, <1>12, OneAttended
<1> QED BY <1>11, <1>13

LEMMA DestroyShared ==
  ASSUME Inv, Shared, Attended, NEW e \in Execs, Destroy(e)
  PROVE  Shared' /\ Attended'
<1>0. /\ ex[e] \in Executors /\ proc[e] \in Children /\ proc = [proc EXCEPT ![e] = proc[e]]
      /\ Lists(chld, Runners) /\ Runners \in SUBSET Execs /\ sub[e] \in Nat /\ done[e] \in Nat
      /\ sub[e] <= Runs[e]
      /\ sub = [sub EXCEPT ![e] = sub[e]] /\ done = [done EXCEPT ![e] = done[e]]
  BY DEF Inv, Shared, Runners
<1>1. /\ cur = None /\ cur' = None /\ sub' = sub /\ done' = done /\ ex[e].state # "Freed"
      /\ cur' \in Execs \cup {None}
  BY DEF Destroy
<1>2. CASE ex[e].state = "Idle"
  <2> DEFINE x == [ex[e] EXCEPT !.state = "Freed"]
  <2>1. x \in Executors /\ x.state = "Freed"  BY <1>0 DEF Executors, States
  <2>2. ex' = [ex EXCEPT ![e] = x] /\ proc' = [proc EXCEPT ![e] = proc[e]] /\ chld' = chld
    BY <1>0, <1>2 DEF Destroy
  <2> HIDE DEF x
  <2>3. ~IsBusy(x) /\ e \notin Runners  BY <1>2, <2>1 DEF IsBusy, Runners
  <2>4. Owes(x, sub[e], done[e])  BY <2>1, <2>3 DEF Owes
  <2>5. Runners = IF IsBusy(x) THEN Runners \cup {e} ELSE Runners \ {e}  BY <2>3
  <2>6. Lists(chld', Runners)  BY <1>0, <2>2
  <2>7. sub' = [sub EXCEPT ![e] = sub[e]] /\ done' = [done EXCEPT ![e] = done[e]]  BY <1>0, <1>1
  <2>8. Shared'
    BY <1>0, <1>1, <2>1, <2>2, <2>4, <2>5, <2>6, <2>7, OneShared
  <2>9. Attended'
    BY <1>0, <1>1, <2>1, <2>2, <2>3, OneAttended
  <2> QED BY <2>8, <2>9
<1>3. CASE ex[e].state # "Idle"
  <2> DEFINE x == [ex[e] EXCEPT !.state = "Freed", !.src = {}]
             b == proc[e].run = "running"
             r == [chld EXCEPT !.pend = @ \/ (b /\ chld.watch)]
  <2>1. x \in Executors /\ x.state = "Freed"  BY <1>0 DEF Executors, States
  <2>2. ex' = [ex EXCEPT ![e] = x] /\ proc' = [proc EXCEPT ![e] = NoProc] /\ chld' = Delist(r, e)
    BY <1>3 DEF Destroy
  <2>3. b \in BOOLEAN  OBVIOUS
  <2> HIDE DEF x, b
  <2>4. e \in Runners  BY <1>0, <1>1, <1>3 DEF Runners, IsBusy, Executors, States
  <2>5. ~IsBusy(x)  BY <2>1 DEF IsBusy
  <2>6. Owes(x, sub[e], done[e])  BY <2>1, <2>5 DEF Owes
  <2>7. Lists(r, Runners)  BY <1>0, <2>3, Noted
  <2>8. chld.pend => r.pend
    <3>1. chld \in [list : Seq(Execs), count : Nat, watch : BOOLEAN, pend : BOOLEAN]
      BY <1>0 DEF Lists
    <3> QED BY <3>1
  <2> HIDE DEF r
  <2>9. Lists(chld', Runners \ {e}) /\ (Runners # {e} => chld'.pend = r.pend)
    BY <1>0, <2>2, <2>4, <2>7, Delisted
  <2>10. sub' = [sub EXCEPT ![e] = sub[e]] /\ done' = [done EXCEPT ![e] = done[e]]  BY <1>0, <1>1
  <2>11. NoProc \in Children  BY Initial
  <2>12. Shared'
    <3> DEFINE S == Runners \ {e}
    <3>1. S = IF IsBusy(x) THEN Runners \cup {e} ELSE Runners \ {e}  BY <2>5
    <3>2. Lists(chld', S)  BY <2>9
    <3> HIDE DEF S
    <3> QED BY <1>0, <1>1, <2>1, <2>2, <2>6, <2>10, <2>11, <3>1, <3>2, OneShared
  <2>13. \A f \in Runners \ {e} : chld.pend => chld'.pend
    BY <2>8, <2>9
  <2>14. Attended'
    BY <1>1, <2>1, <2>2, <2>5, <2>11, <2>13, OneAttended
  <2> QED BY <2>12, <2>14
<1> QED BY <1>2, <1>3

LEMMA StillRuns ==
  ASSUME Inv, Shared, NEW e \in Execs
  PROVE  IsBusy(ex[e]) => ~Finished(ex[e])
BY DEF Shared, Owes

LEMMA StoppingIs ==
  ASSUME NEW x \in Executors, NEW p \in Children, NEW b \in BOOLEAN, NEW sig \in {"TERM", "KILL"}
  PROVE  /\ Stopping([x EXCEPT !.tmo = b]) \in Executors
         /\ Stopping([x EXCEPT !.tmo = b]).state = "Cancelling"
         /\ Finished(Stopping([x EXCEPT !.tmo = b])) <=> Finished(x)
         /\ Signalled(p, sig) \in Children /\ Signalled(p, sig).run = p.run
BY DEF Stopping, Signalled, Executors, Children, States, Sent, Finished

LEMMA TimersShared ==
  ASSUME Inv, Shared, Attended, NEW e \in Execs, Cancel(e) \/ Timeout(e) \/ Grace(e)
  PROVE  Shared' /\ Attended'
<1>0. /\ ex[e] \in Executors /\ proc[e] \in Children
      /\ proc = [proc EXCEPT ![e] = proc[e]]
      /\ (IsBusy(ex[e]) => ~Finished(ex[e]))
  BY Fields, StillRuns
<1>1. UNCHANGED <<chld, cur, sub, done>>
  BY DEF Cancel, Timeout, Grace
<1>2. ASSUME NEW b \in BOOLEAN, ex[e].state = "Running",
             ex' = [ex EXCEPT ![e] = Stopping([ex[e] EXCEPT !.tmo = b])],
             proc' = [proc EXCEPT ![e] = Signalled(proc[e], "TERM")]
      PROVE  Shared' /\ Attended'
  <2> DEFINE x == Stopping([ex[e] EXCEPT !.tmo = b])
             p == Signalled(proc[e], "TERM")
  <2>1. /\ x \in Executors /\ x.state = "Cancelling" /\ (Finished(x) <=> Finished(ex[e]))
        /\ p \in Children /\ p.run = proc[e].run
    BY <1>0, StoppingIs
  <2>2. ex' = [ex EXCEPT ![e] = x] /\ proc' = [proc EXCEPT ![e] = p]
    BY <1>2
  <2> HIDE DEF x, p
  <2>3. IsBusy(ex[e]) /\ IsBusy(x) /\ x.state # "Freed" /\ ex[e].state # "Freed"
    BY <1>2, <2>1 DEF IsBusy
  <2> QED BY <1>0, <1>1, <2>1, <2>2, <2>3, QuietShared
<1>3. CASE Cancel(e)
  <2>1. ex[e] = [ex[e] EXCEPT !.tmo = ex[e].tmo] /\ ex[e].tmo \in BOOLEAN
    BY <1>0 DEF Executors
  <2>2. /\ ex' = [ex EXCEPT ![e] = Stopping(ex[e])] /\ ex[e].state = "Running"
        /\ proc' = [proc EXCEPT ![e] = Signalled(proc[e], "TERM")]
    BY <1>3 DEF Cancel
  <2> QED BY <1>2, <2>1, <2>2
<1>4. CASE Timeout(e)
  <2> DEFINE x == [ex[e] EXCEPT !.tmo = FALSE]
  <2>1. x \in Executors /\ x.state = ex[e].state /\ (Finished(x) <=> Finished(ex[e]))
    BY <1>0 DEF Executors, Finished
  <2>2. CASE x.state = "Running"
    <3>1. /\ ex' = [ex EXCEPT ![e] = Stopping([ex[e] EXCEPT !.tmo = FALSE])]
          /\ proc' = [proc EXCEPT ![e] = Signalled(proc[e], "TERM")]
      BY <1>4, <2>2 DEF Timeout
    <3> QED BY <1>2, <2>1, <2>2, <3>1
  <2>3. CASE x.state # "Running"
    <3>1. ex' = [ex EXCEPT ![e] = x] /\ proc' = [proc EXCEPT ![e] = proc[e]]
      BY <1>0, <1>4, <2>3 DEF Timeout
    <3> HIDE DEF x
    <3>2. IsBusy(x) <=> IsBusy(ex[e])  BY <2>1 DEF IsBusy
    <3> QED BY <1>0, <1>1, <2>1, <3>1, <3>2, QuietShared
  <2> QED BY <2>2, <2>3
<1>5. CASE Grace(e)
  <2> DEFINE x == [ex[e] EXCEPT !.grace = FALSE]
             p == IF ex[e].state = "Cancelling" THEN Signalled(proc[e], "KILL") ELSE proc[e]
  <2>1. x \in Executors /\ x.state = ex[e].state /\ (Finished(x) <=> Finished(ex[e]))
    BY <1>0 DEF Executors, Finished
  <2>2. p \in Children /\ p.run = proc[e].run
    BY <1>0, StoppingIs
  <2>3. ex' = [ex EXCEPT ![e] = x] /\ proc' = [proc EXCEPT ![e] = p]
    BY <1>0, <1>5 DEF Grace
  <2> HIDE DEF x, p
  <2>4. IsBusy(x) <=> IsBusy(ex[e])  BY <2>1 DEF IsBusy
  <2> QED BY <1>0, <1>1, <2>1, <2>2, <2>3, <2>4, QuietShared
<1> QED BY <1>3, <1>4, <1>5

LEMMA OutputsShared ==
  ASSUME Inv, Shared, Attended, NEW e \in Execs,
         Stolen(e) \/ \E o \in Outs : ChildWrites(e, o) \/ OutputCloses(e, o)
  PROVE  Shared' /\ Attended'
<1>0. /\ ex[e] \in Executors /\ proc[e] \in Children /\ ex = [ex EXCEPT ![e] = ex[e]]
      /\ (IsBusy(ex[e]) => ~Finished(ex[e]))
  BY Fields, StillRuns
<1>1. /\ UNCHANGED <<chld, cur, sub, done>>
      /\ ex' = [ex EXCEPT ![e] = ex[e]]
  BY <1>0 DEF Stolen, ChildWrites, OutputCloses
<1>2. PICK p \in Children :
        proc' = [proc EXCEPT ![e] = p] /\ (p.run = "zombie" => proc[e].run = "zombie")
  <2>1. CASE Stolen(e)
    <3> DEFINE p == [proc[e] EXCEPT !.run = "reaped", !.how = "stolen"]
    <3>1. p \in Children /\ p.run = "reaped"  BY <1>0 DEF Children, Fates, Ends
    <3>2. proc' = [proc EXCEPT ![e] = p]  BY <2>1 DEF Stolen
    <3> HIDE DEF p
    <3> QED BY <3>1, <3>2
  <2>2. ASSUME NEW o \in Outs, ChildWrites(e, o)
        PROVE  \E p \in Children : /\ proc' = [proc EXCEPT ![e] = p]
                                   /\ p.run = "zombie" => proc[e].run = "zombie"
    <3> DEFINE p == [proc[e] EXCEPT !.ready = @ \cup {o}]
    <3>1. p \in Children /\ p.run = proc[e].run  BY <1>0 DEF Children
    <3>2. proc' = [proc EXCEPT ![e] = p]  BY <2>2 DEF ChildWrites
    <3> HIDE DEF p
    <3> QED BY <3>1, <3>2
  <2>3. ASSUME NEW o \in Outs, OutputCloses(e, o)
        PROVE  \E p \in Children : /\ proc' = [proc EXCEPT ![e] = p]
                                   /\ p.run = "zombie" => proc[e].run = "zombie"
    <3> DEFINE p == [proc[e] EXCEPT !.open = @ \ {o}, !.ready = @ \cup {o}]
    <3>1. p \in Children /\ p.run = proc[e].run  BY <1>0 DEF Children
    <3>2. proc' = [proc EXCEPT ![e] = p]  BY <2>3 DEF OutputCloses
    <3> HIDE DEF p
    <3> QED BY <3>1, <3>2
  <2> QED BY <2>1, <2>2, <2>3
<1> QED BY <1>0, <1>1, <1>2, QuietShared

(* The child ends: its signal is noted while somebody runs. *)
LEMMA ExitShared ==
  ASSUME Inv, Shared, Attended, NEW e \in Execs, ChildExits(e)
  PROVE  Shared' /\ Attended'
<1>0. /\ ex[e] \in Executors /\ proc[e] \in Children /\ ex = [ex EXCEPT ![e] = ex[e]]
      /\ Lists(chld, Runners) /\ Runners \in SUBSET Execs
      /\ sub[e] \in Nat /\ done[e] \in Nat /\ sub[e] <= Runs[e] /\ Owes(ex[e], sub[e], done[e])
      /\ cur \in Execs \cup {None} /\ (cur # None => cur \in Runners)
      /\ sub = [sub EXCEPT ![e] = sub[e]] /\ done = [done EXCEPT ![e] = done[e]]
  BY DEF Inv, Shared, Runners
<1>1. PICK how \in {"code", "signal"} :
        proc' = [proc EXCEPT ![e] = [proc[e] EXCEPT !.run = "zombie", !.how = how]]
  BY DEF ChildExits
<1> DEFINE p == [proc[e] EXCEPT !.run = "zombie", !.how = how]
           r == [chld EXCEPT !.pend = @ \/ (TRUE /\ chld.watch)]
<1>2. p \in Children  BY <1>0 DEF Children, Fates, Ends
<1>3. chld \in [list : Seq(Execs), count : Nat, watch : BOOLEAN, pend : BOOLEAN]
  BY <1>0 DEF Lists
<1>4. chld' = r /\ ex' = [ex EXCEPT ![e] = ex[e]] /\ UNCHANGED <<ex, cur, sub, done>>
  BY <1>0, <1>3 DEF ChildExits
<1>5. /\ chld'.list = chld.list /\ (chld.pend => chld'.pend) /\ (chld.watch => chld'.pend)
  BY <1>3, <1>4
<1>6. proc' = [proc EXCEPT ![e] = p]  BY <1>1
<1>7. Lists(r, Runners)  BY <1>0, Noted
<1> HIDE DEF p, r
<1>8. Shared' /\ Runners' = Runners
  <2>1. Runners = IF IsBusy(ex[e]) THEN Runners \cup {e} ELSE Runners \ {e}
    BY DEF Runners
  <2>2. sub' = [sub EXCEPT ![e] = sub[e]] /\ done' = [done EXCEPT ![e] = done[e]]
    BY <1>0, <1>4
  <2>3. cur' = cur /\ Lists(chld', Runners)  BY <1>4, <1>7
  <2>4. cur' \in Execs \cup {None} /\ (cur' # None => cur' \in Runners)  BY <1>0, <2>3
  <2> QED BY <1>0, <1>2, <1>4, <1>6, <2>1, <2>2, <2>3, <2>4, OneShared
<1>9. ASSUME NEW f \in Runners PROVE chld'.pend
  <2>1. In(chld.list, f)  BY <1>0 DEF Lists
  <2>2. chld.list # <<>>  BY <2>1 DEF In
  <2>3. chld.watch  BY <1>0, <2>2 DEF Lists
  <2> QED BY <1>5, <2>3
<1> QED BY <1>8, <1>9 DEF Attended, Awaited

LEMMA ReadableShared ==
  ASSUME Probed, Inv, Shared, Attended, NEW e \in Execs, NEW o \in Outs, Readable(e, o)
  PROVE  Shared' /\ Attended'
<1>0. ex[e] \in Executors /\ proc[e] \in Children /\ Fits(ex[e], proc[e])
  BY Fields
<1> DEFINE x == IF o \in proc[e].open THEN ex[e]
                ELSE [ex[e] EXCEPT !.eof = @ \cup {o}, !.src = @ \ {o}]
           p == [proc[e] EXCEPT !.ready = @ \ {o}]
<1>1. x \in Executors /\ p \in Children /\ x.state = ex[e].state /\ p.run = proc[e].run
  BY <1>0 DEF Executors, Children
<1>2. cur = None /\ cur' = None /\ Settle(e, x, p)
  BY DEF Readable
<1>3. IsBusy(ex[e])
  BY <1>0 DEF Readable, Fits, Outputs
<1> HIDE DEF x, p
<1>4. e \in Runners /\ IsBusy(x)
  BY <1>1, <1>3 DEF Runners, IsBusy
<1>5. PICK y \in Executors, q \in Children, S \in SUBSET Execs, s \in Nat, d \in Nat :
        /\ ex' = [ex EXCEPT ![e] = y] /\ proc' = [proc EXCEPT ![e] = q]
        /\ S = IF IsBusy(y) THEN Runners \cup {e} ELSE Runners \ {e}
        /\ Lists(chld', S) /\ s <= Runs[e] /\ Owes(y, s, d)
        /\ sub' = [sub EXCEPT ![e] = s] /\ done' = [done EXCEPT ![e] = d]
        /\ \/ d > 0 /\ (IsBusy(y) => q.run # "zombie")
           \/ y = x /\ q = p /\ chld' = chld /\ done' = done
  BY <1>1, <1>2, <1>4, SettleShared
<1>6. cur' \in Execs \cup {None}  BY <1>2
<1>7. Shared' /\ Runners' = S
  BY <1>2, <1>5, <1>6, OneShared
<1>8. ASSUME NEW f \in S, proc'[f].run = "zombie", f # e
      PROVE  f \in Runners /\ proc[f].run = "zombie" /\ (chld.pend \/ Disturbed(f))
  <2>1. f \in Runners /\ f \in Execs  BY <1>4, <1>5, <1>8 DEF Runners
  <2>2. proc[f] = proc'[f]  BY <1>5, <1>8, <2>1 DEF Inv
  <2> QED BY <1>2, <1>8, <2>1, <2>2 DEF Attended, Awaited
<1>9. CASE d > 0 /\ (IsBusy(y) => q.run # "zombie")
  <2>1. done'[e] = d  BY <1>5 DEF Shared
  <2>2. ASSUME NEW f \in S, proc'[f].run = "zombie" PROVE Awaited(f)'
    <3>1. CASE f = e
      <4>1. IsBusy(y)  BY <1>5, <2>2, <3>1
      <4>2. proc'[e] = q  BY <1>5 DEF Inv
      <4> QED BY <1>9, <2>2, <3>1, <4>1, <4>2
    <3>2. CASE f # e
      BY <1>9, <2>1, <3>2 DEF Awaited, Disturbed
    <3> QED BY <3>1, <3>2
  <2> QED BY <1>7, <2>2 DEF Attended
<1>10. CASE y = x /\ q = p /\ chld' = chld /\ done' = done
  <2>1. ASSUME NEW f \in S, proc'[f].run = "zombie" PROVE Awaited(f)'
    <3>1. chld.pend \/ Disturbed(f)
      <4>1. CASE f = e
        <5>1. proc[e].run = "zombie"  BY <1>1, <1>5, <1>10, <2>1, <4>1 DEF Inv
        <5> QED BY <1>2, <1>4, <4>1, <5>1 DEF Attended, Awaited
      <4>2. CASE f # e  BY <1>8, <2>1, <4>2
      <4> QED BY <4>1, <4>2
    <3> QED BY <1>10, <3>1 DEF Awaited, Disturbed
  <2> QED BY <1>7, <2>1 DEF Attended
<1> QED BY <1>5, <1>9, <1>10

(* The walk begins at the head: every listed executor is before it. *)
LEMMA SignalShared ==
  ASSUME Inv, Shared, Attended, ChildSignal
  PROVE  Shared' /\ Attended'
<1>1. /\ chld' = [chld EXCEPT !.pend = FALSE] /\ cur = None /\ chld.pend
      /\ cur' = IF chld.list = <<>> THEN None ELSE Head(chld.list)
      /\ UNCHANGED <<ex, proc, sub, done>>
  BY DEF ChildSignal
<1>2. Lists(chld, Runners) /\ Runners \in SUBSET Execs
  BY DEF Shared, Runners
<1>3. /\ chld \in [list : Seq(Execs), count : Nat, watch : BOOLEAN, pend : BOOLEAN]
      /\ chld.list \in Seq(Execs) /\ chld.list # <<>>
      /\ \A f \in Execs : f \in Runners <=> In(chld.list, f)
  BY <1>1, <1>2 DEF Lists
<1>4. chld'.list = chld.list
  BY <1>1, <1>3
<1>5. /\ Len(chld.list) \in Nat /\ 1 \in 1 .. Len(chld.list)
      /\ cur' = chld.list[1] /\ chld.list[1] \in Execs
  BY <1>1, <1>3
<1>6. cur' \in Runners
  BY <1>3, <1>5 DEF In
<1>7. Runners' = Runners
  BY <1>1 DEF Runners, IsBusy
<1>8. Lists(chld', Runners)
  BY <1>1, <1>2, Noted
<1>9. Lists(chld, Runners)'
  BY <1>7, <1>8 DEF Lists, In, Once
<1>10. Shared'
  BY <1>1, <1>5, <1>6, <1>7, <1>9 DEF Shared, Owes, IsBusy, Finished
<1>11. cur' # None
  BY <1>5, CommandAssumption
<1>12. ASSUME NEW f \in Runners PROVE Ahead(f)'
  <2>1. f \in Execs  BY DEF Runners
  <2>2. PICK j \in 1 .. Len(chld.list) : chld.list[j] = f  BY <1>3, <2>1 DEF In
  <2>3. 1 <= j  OBVIOUS
  <2> QED BY <1>4, <1>5, <2>2, <2>3 DEF Ahead
<1> QED BY <1>7, <1>10, <1>11, <1>12 DEF Attended, Awaited

(* Who is ahead of the walk is so when it has gone on. *)
LEMMA AheadOn ==
  ASSUME Lists(chld, Runners), cur # None, NEW f \in Execs, f # cur, Ahead(f),
         chld' = chld, cur' = After(chld, cur)
  PROVE  cur' # None /\ Ahead(f)'
<1>1. PICK i \in 1 .. Len(chld.list), j \in 1 .. Len(chld.list) :
        i <= j /\ chld.list[i] = cur /\ chld.list[j] = f
  BY DEF Ahead
<1>2. chld.list \in Seq(Execs) /\ Runners \in SUBSET Execs  BY DEF Lists, Runners
<1>3. Len(chld.list) \in Nat  BY <1>2
<1>4. i # j  BY <1>1
<1>5. /\ i \in 1 .. Len(chld.list) - 1 /\ i + 1 \in 1 .. Len(chld.list) /\ i + 1 <= j
  BY <1>1, <1>3, <1>4
<1>6. cur' = chld.list[i + 1]  BY <1>1, <1>2, <1>5, AfterIs
<1>7. cur' \in Execs  BY <1>2, <1>5, <1>6
<1> QED BY <1>1, <1>5, <1>6, <1>7, CommandAssumption DEF Ahead

LEMMA WalkShared ==
  ASSUME Probed, Inv, Shared, Attended, Walk
  PROVE  Shared' /\ Attended'
<1>0. /\ cur # None /\ cur \in Runners /\ cur \in Execs /\ Lists(chld, Runners)
      /\ Reap(cur) /\ cur' = After(chld', cur) /\ Runners \in SUBSET Execs
  BY DEF Walk, Shared, Runners
<1>1. ex[cur] \in Executors /\ proc[cur] \in Children /\ Fits(ex[cur], proc[cur]) /\ IsBusy(ex[cur])
  BY <1>0, Fields, RunnerIs
<1>2. ASSUME NEW f \in Runners, f # cur, proc[f].run = "zombie", chld' = chld, done' = done
      PROVE  Awaited(f)'
  <2>1. chld.pend \/ Disturbed(f) \/ Ahead(f)  BY <1>2 DEF Attended, Awaited
  <2>2. f \in Execs  BY DEF Runners
  <2>3. CASE chld.pend \/ Disturbed(f)  BY <1>2, <2>3 DEF Awaited, Disturbed
  <2>4. CASE Ahead(f)
    <3>1. cur' # None /\ Ahead(f)'  BY <1>0, <1>2, <2>2, <2>4, AheadOn
    <3> QED BY <3>1 DEF Awaited
  <2> QED BY <2>1, <2>3, <2>4
<1> DEFINE p == proc[cur]
           x == [ex[cur] EXCEPT !.exited = TRUE, !.res = IF p.run = "zombie" THEN p.how ELSE @]
           q == [p EXCEPT !.run = "reaped"]
<1>3. CASE p.run = "running" \/ ex[cur].exited
  <2>1. UNCHANGED <<ex, proc, chld, sub, done>>
    BY <1>0, <1>3 DEF Reap
  <2>2. Runners' = Runners  BY <2>1 DEF Runners, IsBusy
  <2>3. cur' \in Execs \cup {None} /\ (cur' # None => cur' \in Runners)
    BY <1>0, <2>1, AfterIs
  <2>4. Lists(chld, Runners)'  BY <1>0, <2>1, <2>2 DEF Lists, In, Once
  <2>5. Shared'
    BY <2>1, <2>2, <2>3, <2>4 DEF Shared, Owes, IsBusy, Finished
  <2>6. p.run # "zombie"
    BY <1>1, <1>3 DEF Fits, Status, IsBusy
  <2>7. ASSUME NEW f \in Runners, proc[f].run = "zombie" PROVE Awaited(f)'
    BY <1>2, <2>1, <2>6, <2>7
  <2> QED BY <2>1, <2>2, <2>5, <2>7 DEF Attended
<1>4. CASE ~(p.run = "running" \/ ex[cur].exited)
  <2>1. x \in Executors /\ q \in Children /\ x.state = ex[cur].state /\ q.run = "reaped"
    BY <1>1 DEF Executors, Children, Fates
  <2>2. Settle(cur, x, q)
    BY <1>0, <1>4 DEF Reap
  <2> HIDE DEF x, q
  <2>3. IsBusy(x)  BY <1>1, <2>1 DEF IsBusy
  <2>4. PICK y \in Executors, u \in Children, S \in SUBSET Execs, s \in Nat, d \in Nat :
          /\ ex' = [ex EXCEPT ![cur] = y] /\ proc' = [proc EXCEPT ![cur] = u]
          /\ S = IF IsBusy(y) THEN Runners \cup {cur} ELSE Runners \ {cur}
          /\ Lists(chld', S) /\ s <= Runs[cur] /\ Owes(y, s, d)
          /\ sub' = [sub EXCEPT ![cur] = s] /\ done' = [done EXCEPT ![cur] = d]
          /\ \/ d > 0 /\ (IsBusy(y) => u.run # "zombie")
             \/ y = x /\ u = q /\ chld' = chld /\ done' = done
    BY <1>0, <2>1, <2>2, <2>3, SettleShared
  <2>5. cur' \in Execs \cup {None} /\ (cur' # None => cur' \in S)
    BY <1>0, <2>4, AfterIs
  <2>6. Shared' /\ Runners' = S
    BY <1>0, <2>4, <2>5, OneShared
  <2>7. proc'[cur] = u /\ done'[cur] = d
    BY <1>0, <2>4 DEF Inv, Shared
  <2>8. CASE d > 0 /\ (IsBusy(y) => u.run # "zombie")
    <3>1. ASSUME NEW f \in S, proc'[f].run = "zombie" PROVE Awaited(f)'
      <4>1. CASE f = cur
        <5>1. IsBusy(y)  BY <2>4, <3>1, <4>1
        <5> QED BY <2>7, <2>8, <3>1, <4>1, <5>1
      <4>2. CASE f # cur
        BY <1>0, <2>7, <2>8, <4>2 DEF Awaited, Disturbed
      <4> QED BY <4>1, <4>2
    <3> QED BY <2>6, <3>1 DEF Attended
  <2>9. CASE y = x /\ u = q /\ chld' = chld /\ done' = done
    <3>1. ASSUME NEW f \in S, proc'[f].run = "zombie" PROVE Awaited(f)'
      <4>1. f # cur  BY <2>1, <2>7, <2>9, <3>1
      <4>2. f \in Runners /\ f \in Execs  BY <1>0, <2>4
      <4>3. proc[f] = proc'[f]  BY <1>0, <2>4, <4>1, <4>2 DEF Inv
      <4> QED BY <1>2, <2>9, <3>1, <4>1, <4>2, <4>3
    <3> QED BY <2>6, <3>1 DEF Attended
  <2> QED BY <2>4, <2>8, <2>9
<1> QED BY <1>3, <1>4

(* The executors and the shared watch agree, in every reachable state. *)
LEMMA SharedAlways == Probed => (Spec => [](Inv /\ Shared /\ Attended))
<1> SUFFICES ASSUME Probed PROVE Spec => [](Inv /\ Shared /\ Attended)
  OBVIOUS
<1>1. Init => Shared /\ Attended
  <2> SUFFICES ASSUME Init PROVE Shared /\ Attended  OBVIOUS
  <2>1. Runners = {}  BY Initial DEF Init, Runners, IsBusy
  <2>2. Lists(chld, Runners)
    <3>1. chld = [list |-> <<>>, count |-> 0, watch |-> FALSE, pend |-> FALSE]  BY DEF Init
    <3> QED BY <2>1, <3>1 DEF Lists, In, Once
  <2>3. \A e \in Execs : sub[e] <= Runs[e] /\ Owes(ex[e], sub[e], done[e])
    <3> TAKE e \in Execs
    <3>1. sub[e] = 0 /\ done[e] = 0 /\ ex[e] = Fresh  BY DEF Init
    <3>2. Runs[e] \in Nat  BY CommandAssumption
    <3>3. Owes(Fresh, 0, 0)  BY Initial DEF Owes, IsBusy
    <3> QED BY <3>1, <3>2, <3>3
  <2> QED BY <2>1, <2>2, <2>3 DEF Init, Shared, Attended
<1>2. Inv /\ Shared /\ Attended /\ [Next]_vars => Shared' /\ Attended'
  <2> SUFFICES ASSUME Inv, Shared, Attended, [Next]_vars PROVE Shared' /\ Attended'  OBVIOUS
  <2>1. ASSUME NEW e \in Execs, Submit(e) \/ SubmitFails(e) \/ Destroy(e)
        PROVE  Shared' /\ Attended'
    BY <2>1, SubmitShared, SubmitFailsShared, DestroyShared
  <2>2. ASSUME NEW e \in Execs, Cancel(e) \/ Timeout(e) \/ Grace(e)
        PROVE  Shared' /\ Attended'
    BY <2>2, TimersShared
  <2>3. ASSUME NEW e \in Execs, ChildExits(e) \/ Stolen(e)
        PROVE  Shared' /\ Attended'
    BY <2>3, ExitShared, OutputsShared
  <2>4. ASSUME NEW e \in Execs, NEW o \in Outs,
               Readable(e, o) \/ ChildWrites(e, o) \/ OutputCloses(e, o)
        PROVE  Shared' /\ Attended'
    BY <2>4, ReadableShared, OutputsShared
  <2>5. CASE ChildSignal
    BY <2>5, SignalShared
  <2>6. CASE Walk
    BY <2>6, WalkShared
  <2>7. CASE UNCHANGED vars
    <3>1. UNCHANGED <<ex, proc, chld, cur, sub, done>>  BY <2>7 DEF vars
    <3> QED BY <3>1 DEF Shared, Attended, Runners, Lists, In, Once, Owes, IsBusy, Finished,
                        Awaited, Disturbed, Ahead
  <2> QED BY <2>1, <2>2, <2>3, <2>4, <2>5, <2>6, <2>7 DEF Next
<1>3. Spec => []Inv
  BY Invariance
<1> QED BY <1>1, <1>2, <1>3, PTL DEF Spec

(* The list of the watch holds each busy executor once and no other, its   *)
(* count is the list's length, SIGCHLD is watched exactly while somebody   *)
(* runs, a call of Submit is answered once, and an executor that has all   *)
(* it waits for is not busy (sigchld_add, sigchld_remove, cmd_fire_done,   *)
(* cmd_check_completion): when whoever is gone at the probe leaves an      *)
(* output to wait for.                                                     *)
THEOREM ExecutorsHold == Probed => (Spec => []ExecutorInv)
<1>1. Inv /\ Shared => ExecutorInv
  <2> SUFFICES ASSUME Inv, Shared PROVE ExecutorInv  OBVIOUS
  <2>1. /\ Lists(chld, Runners) /\ \A e \in Execs : Busy(e) <=> e \in Runners
    BY DEF Shared, Runners, Busy, IsBusy
  <2>2. TypeOK
    <3>1. chld \in [list : Seq(Execs), count : Nat, watch : BOOLEAN, pend : BOOLEAN]
      BY <2>1 DEF Lists
    <3> QED BY <3>1 DEF Inv, Shared, TypeOK
  <2>3. Registered
    <3>1. \A e \in Execs : Busy(e) <=> \E i \in 1 .. Len(chld.list) : chld.list[i] = e
      BY <2>1, Zenon DEF Lists, In
    <3>2. cur # None => \E i \in 1 .. Len(chld.list) : chld.list[i] = cur
      BY <2>1, <3>1 DEF Shared
    <3> QED BY <2>1, <3>1, <3>2 DEF Registered, Lists, Once
  <2>4. OneResult
    BY DEF Shared, Owes, OneResult, Busy, IsBusy
  <2>5. AllMetIsDone
    BY DEF Shared, Owes, AllMetIsDone, Busy, IsBusy
  <2> QED BY <2>2, <2>3, <2>4, <2>5 DEF ExecutorInv
<1> QED BY <1>1, SharedAlways, PTL

(* A child that ended is reaped by a signal to come, unless the walk that  *)
(* would have reaped it ended at an executor that delivered its result     *)
(* (sigchld_handler).                                                      *)
THEOREM NobodyIsOverlooked == Probed => (Spec => []ReapedUnlessCutShort)
<1>1. Inv /\ Shared /\ Attended => ReapedUnlessCutShort
  <2> SUFFICES ASSUME Attended, NEW e \in Execs, Overlooked(e) PROVE Disturbed(e)
    BY DEF ReapedUnlessCutShort
  <2>1. e \in Runners  BY DEF Overlooked, Busy, Runners, IsBusy
  <2> QED BY <2>1 DEF Overlooked, Attended, Awaited
<1> QED BY <1>1, SharedAlways, PTL
=============================================================================
