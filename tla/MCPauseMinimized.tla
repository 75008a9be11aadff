-------------------------- MODULE MCPauseMinimized --------------------------
(* The module TLC runs for PauseMinimized: a launcher and the game that it    *)
(* started, or two apps that have nothing to do with each other.             *)
EXTENDS PauseMinimized

CONSTANTS launcher, game, wl1, wl2, wg

OwnerOf(w) == IF w = wg THEN game ELSE launcher

Family == [app \in Apps |-> IF app = launcher THEN {launcher, game} ELSE {app}]
Strangers == [app \in Apps |-> {app}]

FamilyOrStrangers == [tree : {Family, Strangers}, keepSound : BOOLEAN, crashAnywhere : BOOLEAN]
QuietStrangers == [tree : {Strangers}, keepSound : {FALSE}, crashAnywhere : {FALSE}]

=============================================================================
