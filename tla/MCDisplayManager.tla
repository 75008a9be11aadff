-------------------------- MODULE MCDisplayManager --------------------------
(* The module TLC runs for DisplayManager: logins at the greeter and         *)
(* automatic ones, with and without crashes and compositors slow to quit.    *)
EXTENDS DisplayManager

Everything == [autoUser : BOOLEAN, autoOnce : BOOLEAN, failures : BOOLEAN, slowToQuit : BOOLEAN]
AtTheGreeter == {s \in Everything : ~s.autoUser /\ s.autoOnce}
Automatic == {s \in Everything : s.autoUser /\ ~s.slowToQuit}
GreeterAndAutomatic == AtTheGreeter \cup Automatic

=============================================================================
