------------------------------ MODULE MCPower -------------------------------
(* The module TLC runs for Power: sleeping with the inhibitor switched on and *)
(* off, and idling, the lid and the key with no sleep.                       *)
EXTENDS Power

Never == [s \in Stages |-> 0]
Plain == [lockOnSleep |-> TRUE, idle |-> Never, saverLock |-> FALSE,
          lid |-> "default", key |-> "default"]

Sleepy == [Plain EXCEPT !.key = "sleep"]
Saving == [Plain EXCEPT !.lockOnSleep = FALSE, !.saverLock = TRUE,
                        !.lid = "screen_off", !.key = "screen_off",
                        !.idle = [Never EXCEPT !["dim"] = 1, !["screensaver"] = 1,
                                               !["screen_off"] = 2, !["lock"] = 2]]
Dozing == [Saving EXCEPT !.lid = "default",
                         !.idle = [Never EXCEPT !["screensaver"] = 2, !["screen_off"] = 1]]

SleepOrIdle ==
    {[configs |-> {Sleepy, [Sleepy EXCEPT !.lockOnSleep = FALSE]}, sleeps |-> 2, reloads |-> 2],
     [configs |-> {Saving, Dozing}, sleeps |-> 0, reloads |-> 1]}
=============================================================================
