------------------------------ MODULE Topology ------------------------------
(***************************************************************************)
(* The threads of the pool and the sockets they run on (HWTopoLinux.cpp,   *)
(* ThreadPool.h).  Ids count from 0.  The hardware threads are numbered    *)
(* socket by socket, the second ones of the cores after the first ones.    *)
(***************************************************************************)
EXTENDS Integers

CONSTANTS
  ActiveThreads,  \* number of threads a loop runs on
  Machines        \* for each machine, the socket of each of them, and how many
                  \* sockets it has in all

VARIABLE machine  \* the one the program runs on

Threads == 0 .. ActiveThreads - 1

SocketOf == machine.socketOf
MaxSockets == machine.maxSockets

Sockets == {SocketOf[t] : t \in Threads}

\* The first thread of a socket.
GetLeaderForSocket(s) ==
  CHOOSE t \in Threads : /\ SocketOf[t] = s
                         /\ \A u \in Threads : SocketOf[u] = s => t <= u

GetLeader(t) == GetLeaderForSocket(SocketOf[t])

IsLeader(t) == GetLeader(t) = t

\* The first cores of the sockets come in the order of the sockets.
ASSUME TopologyAssumption ==
  /\ ActiveThreads \in Nat \ {0}
  /\ \A m \in Machines :
       /\ m.maxSockets \in Nat
       /\ m.socketOf \in [Threads -> Nat]
       /\ \A t \in Threads : \A s \in 0 .. m.socketOf[t] :
            \E u \in 0 .. t : m.socketOf[u] = s
=============================================================================
