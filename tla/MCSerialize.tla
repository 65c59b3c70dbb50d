---------------------------- MODULE MCSerialize ----------------------------
(* The way out of the library for TLC: packets that are serialized, or a    *)
(* batch that is sent.                                                      *)
EXTENDS SerializeBuffer, RawBatch

MCLayers == {[type |-> "eth", head |-> 2, tail |-> 1, ok |-> TRUE],
             [type |-> "ip", head |-> 3, tail |-> 0, ok |-> TRUE],
             [type |-> "payload", head |-> 0, tail |-> 2, ok |-> TRUE],
             [type |-> "failure", head |-> 0, tail |-> 0, ok |-> FALSE]}
MCExpected == {<<0, 0>>, <<1, 1>>, <<3, 0>>}

MCOffered == {[bytes |-> <<1>>, dst |-> 1], [bytes |-> <<2, 3>>, dst |-> 2],
              [bytes |-> <<4, 5, 6>>, dst |-> 1]}

MCInit == Init /\ BatchInit

MCNext ==
    \/ accepted = <<>> /\ Next /\ UNCHANGED batchVars
    \/ cap(b) = 0 /\ todo = <<>> /\ BatchNext /\ UNCHANGED vars

MCSpec == MCInit /\ [][MCNext]_<<vars, batchVars>> /\ BatchFairness
=============================================================================
