------------------------------- MODULE Locked -------------------------------
(***************************************************************************)
(* What a locked session is: it stays locked, whoever dies, until the lock *)
(* screen that holds it has seen the right password.                       *)
(***************************************************************************)
CONSTANTS Clients, Nobody

VARIABLES
    locked, \* the session is locked
    holder, \* the lock screen it is locked by, Nobody if that is gone
    proved  \* the lock screens that have seen the right password

Init == locked = FALSE /\ holder = Nobody /\ proved = {}

\* A lock screen takes a session that is not locked, or the place of one that
\* is gone.
Take(c) ==
    /\ holder = Nobody
    /\ locked' = TRUE /\ holder' = c
    /\ UNCHANGED proved

SignIn(c) ==
    /\ c = holder
    /\ proved' = proved \cup {c}
    /\ UNCHANGED <<locked, holder>>

Unlock(c) ==
    /\ c = holder /\ c \in proved
    /\ locked' = FALSE /\ holder' = Nobody
    /\ UNCHANGED proved

\* A lock screen that is done forgets what it has seen.
Forget(c) == proved' = proved \ {c} /\ UNCHANGED <<locked, holder>>

\* The lock screen is gone: the session stays locked.
Die(c) ==
    /\ c = holder
    /\ holder' = Nobody
    /\ UNCHANGED <<locked, proved>>

Next == \E c \in Clients : Take(c) \/ SignIn(c) \/ Unlock(c) \/ Forget(c) \/ Die(c)

Spec == Init /\ [][Next]_<<locked, holder, proved>>
=============================================================================
