----------------------------- MODULE MCIceAgent -----------------------------
EXTENDS IceAgent

MCSignalled == {[addr |-> "b", type |-> "srflx"]}
=============================================================================
