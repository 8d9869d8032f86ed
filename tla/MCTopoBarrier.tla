---------------------------- MODULE MCTopoBarrier ----------------------------
(* Six sockets, so that both trees have an inner node, and a second thread    *)
(* on the first of them.                                                      *)
EXTENDS TopoBarrier

SixSockets == {[socketOf |-> [t \in Threads |-> t % 6], maxSockets |-> 6]}
=============================================================================
