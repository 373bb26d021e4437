----------------------------- MODULE MCCommand -----------------------------
(***************************************************************************)
(* Two executors: the first is used for commands of every configuration,   *)
(* the second for one whose outputs are discarded; or both for a command   *)
(* of a tool.                                                              *)
(***************************************************************************)
EXTENDS Command, TLC

CONSTANTS e1, e2

Piped    == [pty |-> FALSE, watch |-> {"out", "err"}, timeout |-> TRUE]
Plain    == [pty |-> FALSE, watch |-> {"out"}, timeout |-> FALSE]
Terminal == [pty |-> TRUE, watch |-> {"out"}, timeout |-> TRUE]
Silent   == [pty |-> FALSE, watch |-> {}, timeout |-> TRUE]

Mixed     == e1 :> {Piped, Plain, Terminal, Silent} @@ e2 :> {Silent}
MixedFast == {Piped, Plain}
MixedRuns == e1 :> 2 @@ e2 :> 1

Tools     == [e \in Execs |-> {Piped}]
OneEach   == [e \in Execs |-> 1]
=============================================================================
