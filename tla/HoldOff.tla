------------------------------ MODULE HoldOff ------------------------------
(***************************************************************************)
(* What a hold-off promises its readers: the held flag is up whenever the  *)
(* signal is, and comes down only once the signal has been quiet for Delay *)
(* ticks.  While the owner is starting up its readers may find either      *)
(* value; starting up ends with the flag up if the signal is.              *)
(***************************************************************************)
EXTENDS Naturals

CONSTANTS Delay,     \* how long the signal must have been quiet, at most QuietCap
          QuietCap   \* bound: the quiet time saturates here

VARIABLES signal, held, quiet, starting
vars == <<signal, held, quiet, starting>>

Init == /\ signal \in BOOLEAN
        /\ held \in BOOLEAN
        /\ quiet = 0
        /\ starting = TRUE

Rises == /\ signal' = TRUE
         /\ held' = TRUE
         /\ quiet' = 0
         /\ UNCHANGED starting

Falls == /\ signal /\ signal' = FALSE
         /\ quiet' = 0
         /\ UNCHANGED <<held, starting>>

TimePasses == /\ ~signal /\ quiet < QuietCap
              /\ quiet' = quiet + 1
              /\ UNCHANGED <<signal, held, starting>>

Released == /\ ~signal /\ quiet >= Delay
            /\ held /\ held' = FALSE
            /\ UNCHANGED <<signal, quiet, starting>>

Started == /\ starting /\ starting' = FALSE
           /\ held' \in {h \in BOOLEAN : signal => h}
           /\ UNCHANGED <<signal, quiet>>

Restarted == /\ starting' = TRUE
             /\ signal' \in BOOLEAN
             /\ held' \in BOOLEAN
             /\ quiet' = 0

Next == Rises \/ Falls \/ TimePasses \/ Released \/ Started \/ Restarted
Spec == Init /\ [][Next]_vars
=============================================================================
