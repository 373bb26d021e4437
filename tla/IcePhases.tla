----------------------------- MODULE IcePhases ------------------------------
(***************************************************************************)
(* What an ICE agent promises the peer connection above it: the order of   *)
(* the states it reports (xIceOnStateChange of libx/x/p2p/ice_agent.h).    *)
(* A failure is not final, for a late candidate or the peer's nomination   *)
(* may still bring a connection; Connected is left only by closing.        *)
(* IceAgent is shown to implement it, PeerConnection is built on it.       *)
(***************************************************************************)
VARIABLE ice

Follows == [New       |-> {"Gathering", "Checking", "Failed"},
            Gathering |-> {"Checking", "Failed"},
            Checking  |-> {"Connected", "Failed"},
            Failed    |-> {"Checking", "Connected"},
            Connected |-> {},
            Closed    |-> {}]

PhaseInit == ice = "New"

Report(s) == s \in Follows[ice] /\ ice' = s
Close     == ice # "Closed" /\ ice' = "Closed"

PhaseNext == (\E s \in {"Gathering", "Checking", "Connected", "Failed"} : Report(s)) \/ Close

PhaseSpec == PhaseInit /\ [][PhaseNext]_ice
=============================================================================
