------------------------------ MODULE Locking -------------------------------
(***************************************************************************)
(* The lock screens, lock/main.c, and the wire between them and the        *)
(* compositor (SessionLock): both ways messages arrive in order but late,  *)
(* so that a screen may be gone when the surface for it is asked for.  A   *)
(* lock screen may die at any step; requests it has sent and that were not *)
(* read yet are lost with it, as libwayland drops the connection first.    *)
(* Not modelled: what is drawn, and keys on their way to the lock screen.  *)
(***************************************************************************)
EXTENDS SessionLock, Sequences, SequencesExt

CONSTANTS
    Passwords,  \* what the user may type
    Right,      \* the one that is right
    Bounds      \* pairs: which lock screens are started, and how often screens
                \* are plugged, unplugged, switched on and off

ASSUME LockingAssumption ==
    /\ Right \in Passwords /\ Passwords \cap {"none", "y", "n"} = {}
    /\ Bounds \subseteq (SUBSET Clients) \X Nat
    /\ IsFiniteSet(Screens)

VARIABLES
    starts,   \* the lock screens that are still to be started
    changes,  \* how often screens are still to change
    global,   \* screen -> the number of its wl_output global, counted up
    phase,    \* lock screen -> none, asked, locked, unlocking, ended or crashed
    told,     \* lock screen -> what tilewin-lock -f has returned
    knows,    \* lock screen -> screen -> the global it has a surface for, or 0
    check,    \* lock screen -> none, the password at PAM, or its answer: y or n
    requests, \* lock screen -> what it has sent and the compositor not read
    events    \* lock screen -> what it was sent and has not read

clientVars == <<phase, told, knows, check>>
vars == <<lockVars, starts, changes, global, clientVars, requests, events>>

Requests == [is : {"lock", "unlock", "hangup"}]
    \cup [is : {"surface", "destroy", "commit"}, of : Screens, global : Nat \ {0}]
Events == [is : {"locked", "finished"}]
    \cup [is : {"global", "remove", "configure"}, of : Screens, global : Nat \ {0}]

\* The type of the state.
TypeOK ==
    /\ LockTypeOK
    /\ starts \subseteq Clients /\ changes \in Nat
    /\ global \in [Screens -> Nat]
    /\ phase \in [Clients -> {"none", "asked", "locked", "unlocking", "ended", "crashed"}]
    /\ told \in [Clients -> {"waiting", "locked", "failed"}]
    /\ knows \in [Clients -> [Screens -> Nat]]
    /\ check \in [Clients -> Passwords \cup {"none", "y", "n"}]
    /\ \A c \in Clients : /\ Range(requests[c]) \subseteq Requests
                          /\ Range(events[c]) \subseteq Events

Init ==
    /\ LockInit
    /\ \E b \in Bounds : starts = b[1] /\ changes = b[2]
    /\ global = [s \in Screens |-> IF output[s] = "on" THEN 1 ELSE 0]
    /\ phase = [c \in Clients |-> "none"]
    /\ told = [c \in Clients |-> "waiting"]
    /\ knows = [c \in Clients |-> [s \in Screens |-> 0]]
    /\ check = [c \in Clients |-> "none"]
    /\ requests = [c \in Clients |-> << >>]
    /\ events = [c \in Clients |-> << >>]

Runs(c) == phase[c] \in {"asked", "locked", "unlocking"}
On == {s \in Screens : output[s] = "on"}

About(is, s, g) == [is |-> is, of |-> s, global |-> g]

Say(c, new) == requests' = [requests EXCEPT ![c] = @ \o new]
Read(c) == requests' = [requests EXCEPT ![c] = Tail(@)]
Answer(c, new) == events' = [events EXCEPT ![c] = IF Runs(c) THEN @ \o new ELSE @]

-----------------------------------------------------------------------------
\* A lock screen starts: it learns of the screens, asks for the lock and for a
\* surface on each.
Start(c) ==
    /\ c \in starts /\ starts' = starts \ {c}
    /\ phase' = [phase EXCEPT ![c] = "asked"]
    /\ knows' = [knows EXCEPT ![c] = [s \in Screens |-> IF s \in On THEN global[s] ELSE 0]]
    /\ Say(c, <<[is |-> "lock"]>> \o
              SetToSeq({About("surface", s, global[s]) : s \in On}))
    /\ UNCHANGED <<lockVars, changes, global, told, check, events>>

\* It ends, by itself or not: nobody reads the answer of the check, the parent of
\* -f that still waits reads the end of its pipe.
Ends(c, how) ==
    /\ phase' = [phase EXCEPT ![c] = how]
    /\ told' = [told EXCEPT ![c] = IF @ = "waiting" THEN "failed" ELSE @]
    /\ knows' = [knows EXCEPT ![c] = [s \in Screens |-> 0]]
    /\ check' = [check EXCEPT ![c] = "none"]
    /\ requests' = [requests EXCEPT ![c] = <<[is |-> "hangup"]>>]
    /\ events' = [events EXCEPT ![c] = << >>]

Crash(c) == Runs(c) /\ Ends(c, "crashed") /\ UNCHANGED <<lockVars, starts, changes, global>>

\* lock_locked and lock_finished: the parent of -f is told, or the second lock
\* screen exits.
Locks(c) ==
    /\ events[c] # << >> /\ Head(events[c]).is = "locked"
    /\ phase' = [phase EXCEPT ![c] = "locked"]
    /\ told' = [told EXCEPT ![c] = "locked"]
    /\ events' = [events EXCEPT ![c] = Tail(@)]
    /\ UNCHANGED <<lockVars, starts, changes, global, knows, check, requests>>

Refused(c) ==
    /\ events[c] # << >> /\ Head(events[c]).is = "finished"
    /\ Ends(c, "ended")
    /\ UNCHANGED <<lockVars, starts, changes, global>>

\* mutant: an output plugged in while locked gets no surface.
RepliesNoGlobal(c, e) ==
    CASE e.is = "remove" /\ knows[c][e.of] = e.global -> <<About("destroy", e.of, e.global)>>
      [] e.is = "configure" /\ knows[c][e.of] = e.global -> <<About("commit", e.of, e.global)>>
      [] OTHER -> << >>

\* mutant: the surface on an output that is gone is kept.
RepliesKeep(c, e) ==
    CASE e.is = "global" /\ phase[c] # "unlocking" -> <<About("surface", e.of, e.global)>>
      [] e.is = "configure" /\ knows[c][e.of] = e.global -> <<About("commit", e.of, e.global)>>
      [] OTHER -> << >>

\* A screen comes, goes, or its surface is given its size: the lock screen asks
\* for a surface, destroys its own, or draws.
Replies(c, e) ==
    CASE e.is = "global" /\ phase[c] # "unlocking" -> <<About("surface", e.of, e.global)>>
      [] e.is = "remove" /\ knows[c][e.of] = e.global -> <<About("destroy", e.of, e.global)>>
      [] e.is = "configure" /\ knows[c][e.of] = e.global -> <<About("commit", e.of, e.global)>>
      [] OTHER -> << >>

ScreenEvent(c) ==
    /\ events[c] # << >> /\ "of" \in DOMAIN Head(events[c])
    /\ LET e == Head(events[c]) IN
           /\ Say(c, Replies(c, e))
           /\ knows' = [knows EXCEPT ![c][e.of] =
                            IF e.is = "remove" THEN IF @ = e.global THEN 0 ELSE @
                            ELSE IF e.is = "global" THEN e.global ELSE @]
    /\ events' = [events EXCEPT ![c] = Tail(@)]
    /\ UNCHANGED <<lockVars, starts, changes, global, phase, told, check>>

-----------------------------------------------------------------------------
\* The user can type: a surface of the lock screen has the keyboard.
HasKeyboard(c) == lock = c /\ ~abandoned /\ focused # Nobody /\ phase[c] = "locked"

\* handle_key and start_check: a password and Return.  The child has the
\* password, the lock screen forgets it, and keys are lost until it answers.
StartCheck(c) ==
    /\ HasKeyboard(c) /\ check[c] = "none"
    /\ \E pw \in Passwords : check' = [check EXCEPT ![c] = pw]
    /\ UNCHANGED <<lockVars, starts, changes, global, phase, told, knows, requests, events>>

\* The child ends: with PAM's answer, or dying, which counts as wrong.
CheckEnds(c) ==
    /\ Runs(c) /\ check[c] \in Passwords
    /\ \E answer \in IF check[c] = Right THEN {"y", "n"} ELSE {"n"} :
           check' = [check EXCEPT ![c] = answer]
    /\ UNCHANGED <<lockVars, starts, changes, global, phase, told, knows, requests, events>>

\* mutant: a child that ends without an answer counts as a right password.
FinishCheckDead(c) ==
    /\ phase[c] = "locked" /\ check[c] \in {"y", "n"}
    /\ phase' = [phase EXCEPT ![c] = "unlocking"]
    /\ Say(c, <<[is |-> "unlock"]>>)
    /\ UNCHANGED <<lockVars, starts, changes, global, told, knows, check, events>>

\* finish_check and unlock: the request, and a roundtrip before the program
\* ends, so that the request is not lost with it.
FinishCheck(c) ==
    /\ phase[c] = "locked" /\ check[c] \in {"y", "n"}
    /\ IF check[c] = "y"
       THEN /\ phase' = [phase EXCEPT ![c] = "unlocking"]
            /\ Say(c, <<[is |-> "unlock"]>>)
            /\ UNCHANGED check
       ELSE /\ check' = [check EXCEPT ![c] = "none"]
            /\ UNCHANGED <<phase, requests>>
    /\ UNCHANGED <<lockVars, starts, changes, global, told, knows, events>>

\* mutant: the program ends without the roundtrip.
RoundtripSkipped(c) == Runs(c)

RoundtripDone(c) == requests[c] = << >>

Leave(c) ==
    /\ phase[c] = "unlocking" /\ RoundtripDone(c)
    /\ Ends(c, "ended")
    /\ UNCHANGED <<lockVars, starts, changes, global>>

-----------------------------------------------------------------------------
\* The compositor reads a request.
Reads(c, is) == requests[c] # << >> /\ Head(requests[c]).is = is

\* mutant: a lock screen is told that it has the lock before that is known.
HandleLockEarly(c) ==
    /\ Reads(c, "lock") /\ Read(c)
    /\ IF Free THEN Take(c) ELSE UNCHANGED lockVars
    /\ Answer(c, <<[is |-> "locked"]>>)
    /\ UNCHANGED <<starts, changes, global, clientVars>>

HandleLock(c) ==
    /\ Reads(c, "lock") /\ Read(c)
    /\ IF Free THEN Take(c) /\ Answer(c, <<[is |-> "locked"]>>)
       ELSE UNCHANGED lockVars /\ Answer(c, <<[is |-> "finished"]>>)
    /\ UNCHANGED <<starts, changes, global, clientVars>>

ReadsAbout(c, is, s) == Reads(c, is) /\ Head(requests[c]).of = s

\* A surface for a screen that is gone, or of a client that was refused, is
\* inert: wlroots tells the compositor nothing.
IsLive(c, s, g) == lock = c /\ ~abandoned /\ output[s] = "on" /\ global[s] = g

HandleSurface(c, s) ==
    /\ ReadsAbout(c, "surface", s) /\ Read(c)
    /\ LET g == Head(requests[c]).global IN
           IF IsLive(c, s, g)
           THEN NewSurface(c, s) /\ Answer(c, <<About("configure", s, g)>>)
           ELSE UNCHANGED <<lockVars, events>>
    /\ UNCHANGED <<starts, changes, global, clientVars>>

HandleCommit(c, s) ==
    /\ ReadsAbout(c, "commit", s) /\ Read(c)
    /\ IF lock = c /\ surface[s] = "new" THEN MapSurface(c, s) ELSE UNCHANGED lockVars
    /\ UNCHANGED <<starts, changes, global, clientVars, events>>

HandleDestroy(c, s) ==
    /\ ReadsAbout(c, "destroy", s) /\ Read(c)
    /\ IF lock = c /\ surface[s] # "none" THEN DestroySurface(c, s) ELSE UNCHANGED lockVars
    /\ UNCHANGED <<starts, changes, global, clientVars, events>>

\* Of a lock screen that has not got the lock: nothing.
HandleUnlock(c) ==
    /\ Reads(c, "unlock") /\ Read(c)
    /\ IF lock = c /\ ~abandoned THEN Unlock(c) ELSE UNCHANGED lockVars
    /\ UNCHANGED <<starts, changes, global, clientVars, events>>

HandleHangup(c) ==
    /\ Reads(c, "hangup") /\ Read(c)
    /\ IF lock = c /\ ~abandoned THEN Abandon(c) ELSE UNCHANGED lockVars
    /\ UNCHANGED <<starts, changes, global, clientVars, events>>

\* Screens change, and every lock screen is told of globals that come and go.
Tell(s, is) ==
    events' = [c \in Clients |->
                 IF Runs(c) THEN Append(events[c], About(is, s, global'[s])) ELSE events[c]]

Change(s) ==
    /\ changes > 0 /\ changes' = changes - 1
    /\ \/ Plug(s) /\ UNCHANGED <<global, events>>
       \/ Enable(s) /\ global' = [global EXCEPT ![s] = @ + 1] /\ Tell(s, "global")
       \/ Disable(s) /\ UNCHANGED global /\ Tell(s, "remove")
       \/ Unplug(s) /\ UNCHANGED global
          /\ IF output[s] = "on" THEN Tell(s, "remove") ELSE UNCHANGED events
    /\ UNCHANGED <<starts, clientVars, requests>>

Freed(s) == FreeScreen(s) /\ UNCHANGED <<starts, changes, global, clientVars, requests, events>>

Handle(c) ==
    \/ HandleLock(c) \/ HandleUnlock(c) \/ HandleHangup(c)
    \/ \E s \in Screens : HandleSurface(c, s) \/ HandleCommit(c, s) \/ HandleDestroy(c, s)

Dispatch(c) == Locks(c) \/ Refused(c) \/ ScreenEvent(c) \/ FinishCheck(c) \/ Leave(c)

Next ==
    \/ \E c \in Clients : \/ Start(c) \/ Crash(c) \/ StartCheck(c) \/ CheckEnds(c)
                          \/ Handle(c) \/ Dispatch(c)
    \/ \E s \in Screens : Change(s) \/ Freed(s)

\* The compositor reads what it is sent, and the lock screens do as long as
\* they run.  Nothing is assumed of the user, of PAM or of the screens.
Fairness == \A c \in Clients : WF_vars(Handle(c)) /\ WF_vars(Dispatch(c))

Spec == Init /\ [][Next]_vars /\ Fairness

-----------------------------------------------------------------------------
\* The asserts of handle_new_surface, lock.c: a surface is only ever asked for
\* on a screen that has a rectangle and no surface yet, although the lock screen
\* hears late of screens that go and come again.  (wlroots would disconnect it,
\* and the session stay locked with nobody to unlock it.)
SurfacesAreExpected ==
    \A c \in Clients, s \in Screens :
        ReadsAbout(c, "surface", s) /\ IsLive(c, s, Head(requests[c]).global) => Expected(s)

\* tilewin-lock -f "returns once the session is locked": when its parent says
\* so the session is locked by it, and where it says that it failed it never
\* holds the lock with a lock screen that lives.
ReturnsOnceLocked ==
    [][\A c \in Clients :
          /\ told[c] # "locked" /\ told'[c] = "locked" => lock = c /\ ~abandoned
          /\ told[c] = "failed" => ~(lock' = c /\ lock # c)]_vars

\* The session stays locked, whoever dies, until its own lock screen has seen
\* the right password.
L == INSTANCE Locked WITH
    locked <- lock # Nobody,
    holder <- IF abandoned THEN Nobody ELSE lock,
    proved <- {c \in Clients : check[c] = "y"}
ImplementsLocked == L!Spec

\* A lock screen that has the session and a screen to show itself on has the
\* keyboard in the end, so that somebody can sign in.
SomebodyCanSignIn ==
    \A c \in Clients :
        lock = c /\ ~abandoned /\ On # {} ~> focused # Nobody \/ On = {} \/ lock # c \/ abandoned

\* A right password unlocks the session, unless the lock screen dies first.
RightPasswordUnlocks ==
    \A c \in Clients : check[c] = "y" /\ phase[c] = "locked" ~> lock # c \/ phase[c] = "crashed"

=============================================================================
