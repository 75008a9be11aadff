---------------------------- MODULE AtomicLayout ----------------------------
(***************************************************************************)
(* What the transactions promise, in the words of                          *)
(* include/sway/desktop/transaction.h: "atomic layout updates".  A layout   *)
(* says of every view where it is and how large.  The screen goes from one  *)
(* complete layout that window management asked for to a later one, and     *)
(* never shows a mixture; at most one layout is on its way to the screen,   *)
(* and of the ones asked for meanwhile only the last is kept.               *)
(***************************************************************************)
CONSTANT Layouts    \* the arrangements window management can ask for

VARIABLES
    shown,   \* the layout on the screen
    flight,  \* the layout on its way to the screen, `shown' if there is none
    goal     \* the layout asked for last

Init == shown \in Layouts /\ flight = shown /\ goal = shown

\* A layout is asked for (or the last one still stands), and it waits for the
\* one in flight, starts on its way, follows the one in flight, or is shown at
\* once.
Step ==
    /\ goal' \in Layouts
    /\ \/ shown' = shown /\ flight' = flight
       \/ shown' = shown /\ flight = shown /\ flight' = goal'
       \/ shown' = flight /\ flight' = goal'
       \/ shown' = goal' /\ flight' = goal'

Spec == Init /\ [][Step]_<<shown, flight, goal>>

=============================================================================
