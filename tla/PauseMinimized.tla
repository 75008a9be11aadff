--------------------------- MODULE PauseMinimized ---------------------------
(***************************************************************************)
(* Minimized apps stop, sway/wm/pause.c: an app all of whose windows have   *)
(* been hidden for a while is stopped with the processes it started, once   *)
(* the sound server has said that it plays nothing, and goes on when one of *)
(* its windows is shown or closed.  What was stopped is written to a file,  *)
(* for the next compositor if this one dies.                                *)
(*                                                                          *)
(* The compositor has one thread, so an action is one callback; only the    *)
(* writing of the file is a step of its own after the signals, as the       *)
(* compositor can die in between.  Time is one bit of an app: `due', its    *)
(* delay has passed since it was hidden or woken, or since it was found to  *)
(* have to keep running.  Process numbers are not used again here, which    *)
(* the code makes sure of with the start times.                             *)
(* Operators marked `mutant' are wrong on purpose: each is a plausible      *)
(* mistake in the definition after it.                                      *)
(***************************************************************************)
EXTENDS Naturals, FiniteSets

CONSTANTS
    Apps,          \* the processes with windows
    Windows,       \* the windows
    Owner(_),      \* whose they are
    Worlds,        \* who started whom, a setting, and how the compositor may die
    MayBeBusy,     \* an app may have a reason to keep running
    MaxCloses      \* bound: how often the user closes a window

ASSUME PauseMinimizedAssumption ==
    /\ Worlds \subseteq [tree : [Apps -> SUBSET Apps], keepSound : BOOLEAN, crashAnywhere : BOOLEAN]
    /\ \A x \in Worlds, app \in Apps : app \in x.tree[app]
    /\ \A w \in Windows : Owner(w) \in Apps
    /\ MayBeBusy \in BOOLEAN
    /\ MaxCloses \in Nat

VARIABLES
    world,    \* the one that this is
    up,       \* the compositor runs
    on,       \* config->tw_pause_minimized is not 0
    window,   \* window -> shown, hidden or gone
    closing,  \* the windows whose app has not yet handled a close
    closes,   \* how many closes there have been
    watched,  \* apps: app -> its entry, None without one
    idle,     \* an idle callback is to evaluate
    timer,    \* the timer is set
    stopped,  \* the processes that were stopped
    file,     \* the processes in the file
    unsaved   \* apps were stopped and the file is not written yet

vars == <<up, on, window, closing, closes, watched, idle, timer, stopped, file, unsaved>>

Tree(app) == world.tree[app]           \* an app and those it started
KeepSound == world.keepSound           \* pause_minimized_sound keep: the sound server is asked
CrashAnywhere == world.crashAnywhere   \* also between stopping and saving

None == [due |-> FALSE, paused |-> FALSE, asking |-> FALSE, tree |-> {}, is |-> FALSE]
New == [None EXCEPT !.is = TRUE]
Entries == [due : BOOLEAN, paused : BOOLEAN, asking : BOOLEAN, tree : SUBSET Apps, is : {TRUE}]

\* The type of the state: an app has a whole entry or none, and what was
\* stopped and what is in the file are processes of apps.
TypeOK ==
    /\ world \in Worlds
    /\ {up, on, idle, timer, unsaved} \subseteq BOOLEAN
    /\ window \in [Windows -> {"shown", "hidden", "gone"}]
    /\ closing \subseteq Windows /\ closes \in 0..MaxCloses
    /\ watched \in [Apps -> Entries \cup {None}]
    /\ stopped \subseteq Apps /\ file \subseteq Apps

Init ==
    /\ world \in Worlds
    /\ up = TRUE /\ on = TRUE
    /\ window = [w \in Windows |-> "gone"] /\ closing = {} /\ closes = 0
    /\ watched = [app \in Apps |-> None]
    /\ idle = FALSE /\ timer = FALSE
    /\ stopped = {} /\ file = {} /\ unsaved = FALSE

-----------------------------------------------------------------------------
Shows(app) == \E w \in Windows : Owner(w) = app /\ window[w] = "shown"

\* pid_all_hidden
AllHidden(app) ==
    ~Shows(app) /\ \E w \in Windows : Owner(w) = app /\ window[w] = "hidden"

\* What of keeps_running the windows say
ChildShows(app) == \E other \in Tree(app) \ {app} : Shows(other)

\* The processes that entries hold stopped: what save_state writes.
Held(entries) == UNION {entries[app].tree : app \in Apps}

\* schedule
Schedule(entries) ==
    timer' = (on /\ \E app \in Apps : entries[app].is /\ ~entries[app].paused
                                      /\ ~entries[app].asking)

\* try_stop for some apps, at the end of a callback, where entries and running
\* say what it did before.
TryStopUnlooked(some, entries, still) ==                            \* mutant
    \E busy \in SUBSET (IF MayBeBusy THEN some ELSE {}) :
      LET stops == {app \in some : AllHidden(app) /\ app \notin busy}
      IN  /\ watched' = [app \in Apps |->
               IF app \in stops
               THEN [entries[app] EXCEPT !.paused = TRUE, !.asking = FALSE, !.tree = Tree(app)]
               ELSE IF app \in some THEN [entries[app] EXCEPT !.asking = FALSE, !.due = FALSE]
               ELSE entries[app]]
          /\ stopped' = still \cup UNION {Tree(app) : app \in stops}
          /\ file' = Held(entries)
          /\ unsaved' = (stops # {})

TryStop(some, entries, still) ==
    \E busy \in SUBSET (IF MayBeBusy THEN some ELSE {}) :
      LET stops == {app \in some : AllHidden(app) /\ ~ChildShows(app) /\ app \notin busy}
          asked == {app \in some : AllHidden(app)} \ stops
      IN  /\ watched' = [app \in Apps |->
               IF app \in stops
               THEN [entries[app] EXCEPT !.paused = TRUE, !.asking = FALSE, !.tree = Tree(app)]
               ELSE IF app \in asked THEN [entries[app] EXCEPT !.asking = FALSE, !.due = FALSE]
               ELSE IF app \in some THEN [entries[app] EXCEPT !.asking = FALSE]
               ELSE entries[app]]
          /\ stopped' = still \cup UNION {Tree(app) : app \in stops}
          /\ file' = Held(entries)
          /\ unsaved' = (stops # {})

Due(app) == watched[app].due /\ ~watched[app].paused /\ ~watched[app].asking

Evaluate ==
    LET there == {app \in Apps : watched[app].is}
        kept == {app \in there : on /\ AllHidden(app)}
        fresh == {app \in Apps \ there : on /\ AllHidden(app)}
        entries == [app \in Apps |-> IF app \in kept THEN watched[app]
                                     ELSE IF app \in fresh THEN New ELSE None]
        still == stopped \ UNION {watched[app].tree : app \in there \ kept}
        due == {app \in kept : Due(app)}
    IN  IF KeepSound
        THEN /\ watched' = [app \in Apps |->
                  IF app \in due THEN [entries[app] EXCEPT !.asking = TRUE] ELSE entries[app]]
             /\ stopped' = still /\ file' = Held(entries) /\ UNCHANGED unsaved
             /\ Schedule(watched')
        ELSE TryStop(due, entries, still) /\ Schedule(watched')

\* tw_pause_wake, for the app of a window
Wake(owner) ==
    LET woken == {app \in Apps : watched[app].is /\ owner \in {app} \cup watched[app].tree}
    IN  /\ watched' = [app \in Apps |->
             IF app \in woken
             THEN [watched[app] EXCEPT !.paused = FALSE, !.tree = {}, !.due = FALSE]
             ELSE watched[app]]
        /\ stopped' = stopped \ UNION {watched[app].tree : app \in woken}
        /\ file' = Held(watched')

-----------------------------------------------------------------------------
Ready == up /\ ~unsaved

\* view_map: a process that runs opens a window.
Map(w) ==
    /\ Ready /\ window[w] = "gone" /\ Owner(w) \notin stopped
    /\ window' = [window EXCEPT ![w] = "shown"]
    /\ idle' = TRUE
    /\ UNCHANGED <<up, on, closing, closes, watched, timer, stopped, file, unsaved>>

\* tw_minimize, both ways; the scratchpad is the same to the apps, only that nothing is
\* evaluated on account of a window that goes there.
Hide(w) ==
    /\ Ready /\ window[w] = "shown"
    /\ window' = [window EXCEPT ![w] = "hidden"]
    /\ idle' \in {idle, TRUE}
    /\ UNCHANGED <<up, on, closing, closes, watched, timer, stopped, file, unsaved>>

Show(w) ==
    /\ Ready /\ window[w] = "hidden"
    /\ window' = [window EXCEPT ![w] = "shown"]
    /\ Wake(Owner(w)) /\ idle' = TRUE
    /\ UNCHANGED <<up, on, closing, closes, timer, unsaved>>

\* view_close: the app is asked to close its window.
CloseAsleep(w) ==                                                   \* mutant
    /\ Ready /\ window[w] # "gone" /\ closes < MaxCloses
    /\ closing' = closing \cup {w} /\ closes' = closes + 1
    /\ UNCHANGED <<up, on, window, watched, idle, timer, stopped, file, unsaved>>

Close(w) ==
    /\ Ready /\ window[w] # "gone" /\ closes < MaxCloses
    /\ closing' = closing \cup {w} /\ closes' = closes + 1
    /\ Wake(Owner(w))
    /\ UNCHANGED <<up, on, window, idle, timer, unsaved>>

\* The app handles it: it does not close the window (the work is not saved), or
Refuse(w) ==
    /\ up /\ w \in closing /\ Owner(w) \notin stopped
    /\ closing' = closing \ {w}
    /\ UNCHANGED <<up, on, window, closes, watched, idle, timer, stopped, file, unsaved>>

\* view_unmap: it does, then or by itself.
Unmap(w) ==
    /\ Ready /\ window[w] # "gone" /\ Owner(w) \notin stopped
    /\ window' = [window EXCEPT ![w] = "gone"] /\ closing' = closing \ {w}
    /\ Wake(Owner(w)) /\ idle' = TRUE
    /\ UNCHANGED <<up, on, closes, timer, unsaved>>

\* handle_idle and handle_timer
RunIdle ==
    /\ Ready /\ idle /\ idle' = FALSE
    /\ Evaluate
    /\ UNCHANGED <<up, on, window, closing, closes>>

RunTimer ==
    /\ Ready /\ timer
    /\ Evaluate
    /\ UNCHANGED <<up, on, window, closing, closes, idle>>

\* Time passes for an app.  One that runs answers a close sooner.
DelayPasses(app) ==
    /\ up /\ watched[app].is /\ ~watched[app].paused /\ ~watched[app].due
    /\ \A w \in closing : Owner(w) # app
    /\ watched' = [watched EXCEPT ![app].due = TRUE]
    /\ UNCHANGED <<up, on, window, closing, closes, idle, timer, stopped, file, unsaved>>

\* sound_finished: the answer is there, or there is none to be had and the apps
\* are asked about again later.
SoundFinished ==
    LET asked == {app \in Apps : watched[app].asking}
    IN  /\ Ready /\ asked # {}
        /\ \/ TryStop(asked, watched, stopped)
           \/ /\ MayBeBusy
              /\ watched' = [app \in Apps |->
                   IF app \in asked THEN [watched[app] EXCEPT !.asking = FALSE, !.due = FALSE]
                   ELSE watched[app]]
              /\ UNCHANGED <<stopped, file, unsaved>>
        /\ Schedule(watched')
        /\ UNCHANGED <<up, on, window, closing, closes, idle>>

\* The end of stop_app
Save ==
    /\ up /\ unsaved
    /\ file' = Held(watched) /\ unsaved' = FALSE
    /\ UNCHANGED <<up, on, window, closing, closes, watched, idle, timer, stopped>>

\* The config turns it on or off.
Configure ==
    /\ Ready /\ on' = ~on /\ idle' = TRUE
    /\ UNCHANGED <<up, window, closing, closes, watched, timer, stopped, file, unsaved>>

\* The compositor dies, or ends and lets everyone go on (tw_pause_forget), and
\* its windows are gone.
Ends ==
    /\ up' = FALSE /\ unsaved' = FALSE /\ idle' = FALSE /\ timer' = FALSE
    /\ window' = [w \in Windows |-> "gone"] /\ closing' = {}
    /\ watched' = [app \in Apps |-> None]
    /\ UNCHANGED <<on, closes>>

Crash ==
    /\ up /\ (CrashAnywhere \/ ~unsaved)
    /\ Ends /\ UNCHANGED <<stopped, file>>

Quit ==
    /\ Ready /\ Ends
    /\ stopped' = stopped \ Held(watched) /\ file' = {}

\* tw_pause_recover, when the next one starts
RecoverLater ==                                                     \* mutant
    /\ ~up /\ up' = TRUE
    /\ UNCHANGED <<on, window, closing, closes, watched, idle, timer, stopped, file, unsaved>>

Recover ==
    /\ ~up /\ up' = TRUE
    /\ stopped' = stopped \ file /\ file' = {}
    /\ UNCHANGED <<on, window, closing, closes, watched, idle, timer, unsaved>>

Step ==
    \/ \E w \in Windows : Map(w) \/ Hide(w) \/ Show(w) \/ Close(w) \/ Refuse(w) \/ Unmap(w)
    \/ \E app \in Apps : DelayPasses(app)
    \/ RunIdle \/ RunTimer \/ SoundFinished \/ Save
    \/ Configure \/ Crash \/ Quit \/ Recover

Next == Step /\ UNCHANGED world

\* Time passes, and an app that is not stopped handles a close.  The event loop
\* comes to every callback and timer in the end, whatever else it has to do, and
\* pactl answers or is given up after three seconds.
Fairness ==
    /\ SF_vars(RunIdle) /\ SF_vars(RunTimer) /\ SF_vars(SoundFinished) /\ WF_vars(Save)
    /\ \A app \in Apps : WF_vars(DelayPasses(app))
    /\ \A w \in Windows : WF_vars(Refuse(w))

Spec == Init /\ [][Next]_<<world, vars>> /\ Fairness

-----------------------------------------------------------------------------
(***************************************************************************)
(* Properties.                                                              *)
(***************************************************************************)
\* Nobody is forgotten: every process that is stopped is held by an entry that
\* wakes it, or is in the file for the next compositor, if that did not die in
\* the middle of stopping them.
NobodyIsForgotten ==
    ~CrashAnywhere =>
    /\ Ready => stopped \subseteq Held(watched) /\ file = Held(watched)
    /\ ~up => stopped \subseteq file

\* What the user sees runs: between the callbacks no window that is shown is of
\* a process that is stopped, whoever stopped it.
ShownRuns ==
    up => \A w \in Windows : window[w] = "shown" => Owner(w) \notin stopped

\* "An app all of whose windows are minimized is stopped" (docs/features.md).
CouldStop(app) == up /\ on /\ AllHidden(app) /\ ~ChildShows(app)


\* No app has started another.
Own == \A app \in Apps : Tree(app) = {app}

\* "Goes on the moment one of its windows is shown, focused or closed"
\* (docs/features.md), so that a close is handled, if the sound server is not asked
\* meanwhile.
CloseIsHandled == \A w \in Windows : w \in closing /\ Own /\ ~KeepSound ~> w \notin closing

=============================================================================
