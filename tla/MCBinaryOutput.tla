---------------------------- MODULE MCBinaryOutput ----------------------------
(* Small instances of BinaryOutput for TLC.                                 *)
EXTENDS BinaryOutput

AllProps == {[blockMode |-> mode, blockTime |-> timed, inverted |-> inv,
              initial |-> FALSE] :
               mode \in {"refuse", "defer"}, timed \in BOOLEAN, inv \in BOOLEAN}

(* A driver that never blocks and defers requests, one that blocks and      *)
(* defers them, and one that blocks and refuses them.                       *)
Deferring == {[blockMode |-> "defer", blockTime |-> FALSE, inverted |-> FALSE,
               initial |-> FALSE]}
DeferringBlocked == {[blockMode |-> "defer", blockTime |-> TRUE, inverted |-> FALSE,
                      initial |-> FALSE]}
Refusing == {[blockMode |-> "refuse", blockTime |-> TRUE, inverted |-> FALSE,
              initial |-> FALSE]}
=============================================================================
