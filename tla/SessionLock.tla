---------------------------- MODULE SessionLock -----------------------------
(***************************************************************************)
(* The compositor's side of ext-session-lock, sway/lock.c: one lock at a   *)
(* time, a black rectangle over every screen, a surface of the lock screen *)
(* on those it knows, and the surface that has the keyboard.  A lock whose *)
(* client is gone stays, abandoned, until another client takes its place.  *)
(*                                                                         *)
(* An action is one callback.  What sends the requests, and when, is in    *)
(* Locking; here a client does anything that wlroots lets through.         *)
(* Operators marked `mutant' are wrong on purpose: each is a plausible     *)
(* mistake in the definition after it.                                     *)
(***************************************************************************)
EXTENDS Naturals

CONSTANTS
    Screens,   \* the outputs
    Clients,   \* the programs that ask for the lock
    Nobody     \* no client, no surface

ASSUME SessionLockAssumption == Nobody \notin Clients \cup Screens

VARIABLES
    output,    \* screen -> gone, off, on, or leaving: unplugged, not yet freed
    lock,      \* whose lock it is, Nobody if the session is not locked
    abandoned, \* its client is gone
    covered,   \* lock->outputs: the screens with a rectangle
    surface,   \* screen -> none, new or mapped: the lock's surface on it
    focused    \* the screen whose surface has the keyboard, Nobody if none

lockVars == <<output, lock, abandoned, covered, surface, focused>>

LockTypeOK ==
    /\ output \in [Screens -> {"gone", "off", "on", "leaving"}]
    /\ lock \in Clients \cup {Nobody} /\ abandoned \in BOOLEAN
    /\ covered \subseteq Screens
    /\ surface \in [Screens -> {"none", "new", "mapped"}]
    /\ focused \in Screens \cup {Nobody}

LockInit ==
    /\ output \in [Screens -> {"gone", "on"}]
    /\ lock = Nobody /\ abandoned = FALSE /\ covered = {}
    /\ surface = [s \in Screens |-> "none"] /\ focused = Nobody

\* root->all_outputs: a screen that is off is one of them too.
Plugged == {s \in Screens : output[s] \in {"off", "on"}}

-----------------------------------------------------------------------------
\* mutant: the keyboard is taken away and not given to another surface.
RefocusNone(s) == focused' = IF focused = s THEN Nobody ELSE focused

\* The keyboard goes from the surface on s, if it has it, to another one that
\* is mapped.
Refocus(s) ==
    LET others == {t \in covered \ {s} : surface[t] = "mapped"}
    IN  focused' \in IF focused # s THEN {focused}
                     ELSE IF others = {} THEN {Nobody} ELSE others

NoSurfaces == surface' = [s \in Screens |-> "none"] /\ focused' = Nobody

Free == lock = Nobody \/ abandoned

\* A lock request: refused while another lock has its client, else every
\* screen is covered.
Take(c) ==
    /\ Free
    /\ lock' = c /\ abandoned' = FALSE /\ covered' = Plugged
    /\ NoSurfaces
    /\ UNCHANGED output

\* What handle_new_surface asserts: the screen has a rectangle and no surface.
Expected(s) == s \in covered /\ surface[s] = "none"

\* wlroots has seen to it that there is none yet.
NewSurface(c, s) ==
    /\ lock = c /\ ~abandoned /\ output[s] = "on" /\ surface[s] = "none"
    /\ surface' = [surface EXCEPT ![s] = "new"]
    /\ UNCHANGED <<output, lock, abandoned, covered, focused>>

MapSurface(c, s) ==
    /\ lock = c /\ surface[s] = "new"
    /\ surface' = [surface EXCEPT ![s] = "mapped"]
    /\ focused' = IF focused = Nobody THEN s ELSE focused
    /\ UNCHANGED <<output, lock, abandoned, covered>>

DestroySurface(c, s) ==
    /\ lock = c /\ surface[s] # "none"
    /\ Refocus(s)
    /\ surface' = [surface EXCEPT ![s] = "none"]
    /\ UNCHANGED <<output, lock, abandoned, covered>>

Unlock(c) ==
    /\ lock = c /\ ~abandoned
    /\ lock' = Nobody /\ covered' = {}
    /\ NoSurfaces
    /\ UNCHANGED <<output, abandoned>>

\* The client is gone: its surfaces first, then its lock, which stays.
Abandon(c) ==
    /\ lock = c /\ ~abandoned
    /\ abandoned' = TRUE
    /\ NoSurfaces
    /\ UNCHANGED <<output, lock, covered>>

-----------------------------------------------------------------------------
\* mutant: only a lock that still has its client covers a new screen.
PlugAlive(s) ==
    /\ output[s] = "gone"
    /\ output' = [output EXCEPT ![s] = "off"]
    /\ covered' = IF lock # Nobody /\ ~abandoned THEN covered \cup {s} ELSE covered
    /\ UNCHANGED <<lock, abandoned, surface, focused>>

\* A screen is plugged in: off, and covered at once if the session is locked.
Plug(s) ==
    /\ output[s] = "gone"
    /\ output' = [output EXCEPT ![s] = "off"]
    /\ covered' = IF lock # Nobody THEN covered \cup {s} ELSE covered
    /\ UNCHANGED <<lock, abandoned, surface, focused>>

\* The config switches a screen on or off; its rectangle and its surface stay.
Enable(s) ==
    /\ output[s] = "off"
    /\ output' = [output EXCEPT ![s] = "on"]
    /\ UNCHANGED <<lock, abandoned, covered, surface, focused>>

Disable(s) ==
    /\ output[s] = "on"
    /\ output' = [output EXCEPT ![s] = "off"]
    /\ UNCHANGED <<lock, abandoned, covered, surface, focused>>

\* It is unplugged: wlroots destroys the surface on it.
Unplug(s) ==
    /\ s \in Plugged
    /\ output' = [output EXCEPT ![s] = "leaving"]
    /\ Refocus(s)
    /\ surface' = [surface EXCEPT ![s] = "none"]
    /\ UNCHANGED <<lock, abandoned, covered>>

\* No transaction holds it any more: it is freed with its rectangle.
FreeScreen(s) ==
    /\ output[s] = "leaving"
    /\ output' = [output EXCEPT ![s] = "gone"]
    /\ covered' = covered \ {s}
    /\ UNCHANGED <<lock, abandoned, surface, focused>>

LockNext ==
    \/ \E c \in Clients : Take(c) \/ Unlock(c) \/ Abandon(c)
    \/ \E c \in Clients, s \in Screens :
           NewSurface(c, s) \/ MapSurface(c, s) \/ DestroySurface(c, s)
    \/ \E s \in Screens : Plug(s) \/ Enable(s) \/ Disable(s) \/ Unplug(s) \/ FreeScreen(s)

LockSpec == LockInit /\ [][LockNext]_lockVars

-----------------------------------------------------------------------------
\* While the session is locked every screen has its rectangle: those that are
\* off and come on later, and those plugged in after the lock's client died.
Covered == lock # Nobody => Plugged \subseteq covered

\* The keyboard is at a surface that is there and mapped, and at one whenever
\* there is one, however screens and surfaces come and go (refocus_output):
\* else the user looks at a lock screen and cannot type.
KeyboardAtLockScreen ==
    /\ focused # Nobody => focused \in covered /\ surface[focused] = "mapped"
    /\ focused = Nobody => \A s \in Screens : surface[s] # "mapped"
    /\ lock = Nobody \/ abandoned => \A s \in Screens : surface[s] = "none"
=============================================================================
