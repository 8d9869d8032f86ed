----------------------------- MODULE Termination -----------------------------
(***************************************************************************)
(* LocalTerminationDetection (substrate/Termination.h): a token goes round *)
(* the threads.  A thread that worked since the token was last there       *)
(* blackens it, and thread 0 ends the loop when the token comes back white *)
(* for the second time in a row.                                           *)
(***************************************************************************)
EXTENDS Topology

VARIABLES
  hasToken, tokenIsBlack,   \* what the neighbour writes to hand a token on
  processIsBlack,
  lastWasWhite,             \* thread 0's
  globalTerm,
  handing                   \* colour of the token a thread is handing on

termVars == <<hasToken, tokenIsBlack, processIsBlack, lastWasWhite, globalTerm,
              handing>>

\* initializeThread on every thread.
TermInit ==
  /\ hasToken = [t \in Threads |-> t = 0]
  /\ tokenIsBlack = [t \in Threads |-> FALSE]
  /\ processIsBlack = [t \in Threads |-> TRUE]
  /\ lastWasWhite = TRUE
  /\ globalTerm = FALSE
  /\ handing = [t \in Threads |-> "none"]

Colour(black) == IF black THEN "black" ELSE "white"

\* The thread has the token: it ends the loop, or takes the token's colour to
\* hand it on.  Thread 0 hands on a white one.
HandleToken(t, black) ==
  LET failed == black \/ tokenIsBlack[t] IN
  /\ processIsBlack' = [processIsBlack EXCEPT ![t] = FALSE]
  /\ tokenIsBlack' = [tokenIsBlack EXCEPT ![t] = FALSE]
  /\ \/ /\ t = 0 /\ lastWasWhite /\ ~failed
        /\ globalTerm' = TRUE
        /\ UNCHANGED <<hasToken, lastWasWhite, handing>>
     \/ /\ ~(t = 0 /\ lastWasWhite /\ ~failed)
        /\ lastWasWhite' = IF t = 0 THEN ~failed ELSE lastWasWhite
        /\ hasToken' = [hasToken EXCEPT ![t] = FALSE]
        /\ handing' = [handing EXCEPT ![t] = Colour(t # 0 /\ failed)]
        /\ UNCHANGED globalTerm

\* localTermination up to propToken.
LocalTermination(t, workHappened) ==
  LET black == processIsBlack[t] \/ workHappened IN
  \/ /\ hasToken[t]
     /\ HandleToken(t, black)
  \/ /\ ~hasToken[t]
     /\ processIsBlack' = [processIsBlack EXCEPT ![t] = black]
     /\ UNCHANGED <<hasToken, tokenIsBlack, lastWasWhite, globalTerm, handing>>

RingNext(t) == (t + 1) % ActiveThreads

\* propToken writes the token's colour first, then the token.
PropColour(t) ==
  /\ handing[t] \in {"black", "white"}
  /\ tokenIsBlack' = [tokenIsBlack EXCEPT ![RingNext(t)] = handing[t] = "black"]
  /\ handing' = [handing EXCEPT ![t] = "coloured"]
  /\ UNCHANGED <<hasToken, processIsBlack, lastWasWhite, globalTerm>>

PropToken(t) ==
  /\ handing[t] = "coloured"
  /\ hasToken' = [hasToken EXCEPT ![RingNext(t)] = TRUE]
  /\ handing' = [handing EXCEPT ![t] = "none"]
  /\ UNCHANGED <<tokenIsBlack, processIsBlack, lastWasWhite, globalTerm>>
=============================================================================
