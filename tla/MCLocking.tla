------------------------------ MODULE MCLocking -----------------------------
(* The module TLC runs for Locking: two screens, and either one lock screen   *)
(* and screens that come and go, or two and one change of a screen.          *)
EXTENDS Locking

CONSTANTS c1, c2

OneOrTwo == {<<{c1}, 3>>, <<{c1, c2}, 1>>}
=============================================================================
