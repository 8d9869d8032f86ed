----------------------------- MODULE MCForEach -----------------------------
(* Loops for model checking ForEach: the iterations on a and b lock the      *)
(* nodes m and n in opposite orders, those on c and d one of the two.        *)
EXTENDS ForEach

TwoItems == <<"a", "b">>
Locking == [a |-> <<"m", "n">>, b |-> <<"n", "m">>, c |-> <<"m">>, d |-> <<"n">>]

\* a pushes more items than a chunk holds.
PushTwo == [a |-> <<"c", "d">>, b |-> <<>>, c |-> <<>>, d |-> <<>>]
PushC == [PushTwo EXCEPT !.a = <<"c">>]

OneSocket == [socketOf |-> [t \in Threads |-> 0], maxSockets |-> 1]
HyperThreads == [socketOf |-> [t \in Threads |-> t % 2], maxSockets |-> 2]
ManySockets == [socketOf |-> [t \in Threads |-> t], maxSockets |-> 3]

\* Both abort policies.
SmallAndLarge == {OneSocket, ManySockets}
Interleaved == {HyperThreads}
=============================================================================
