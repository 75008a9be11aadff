------------------------- MODULE PauseMinimizedProofs -------------------------
(***************************************************************************)
(* Theorems about PauseMinimized, for any apps, windows and trees of       *)
(* processes: a window that is shown is never of a stopped process, and    *)
(* nobody who is stopped is forgotten.                                     *)
(***************************************************************************)
EXTENDS PauseMinimized, TLAPS

\* The types the arguments need.  An entry holds nothing, or its app with what
\* that has started.
Entry == [due : BOOLEAN, paused : BOOLEAN, asking : BOOLEAN, tree : SUBSET Apps, is : BOOLEAN]

TypeInv ==
    /\ world \in Worlds
    /\ {up, on, idle, timer, unsaved} \subseteq BOOLEAN
    /\ window \in [Windows -> {"shown", "hidden", "gone"}]
    /\ watched \in [Apps -> Entry]
    /\ stopped \subseteq Apps

Whole(entries) == \A app \in Apps : /\ entries[app].tree \in {{}, Tree(app)}
                                    /\ ~entries[app].is => entries[app].tree = {} /\ ~entries[app].asking

\* Who is stopped has no window that is shown, and if it has any an entry holds it.
WindowsFit ==
    \A w \in Windows : window[w] # "gone" /\ Owner(w) \in stopped =>
        window[w] = "hidden" /\ Owner(w) \in Held(watched)

HeldFits ==
    /\ ~CrashAnywhere => IF up THEN stopped \subseteq Held(watched) ELSE stopped \subseteq file
    /\ up /\ ~unsaved => file = Held(watched)

DownFits ==
    ~up => /\ ~unsaved /\ Held(watched) = {}
           /\ \A w \in Windows : window[w] = "gone"

PauseInv == TypeInv /\ Whole(watched) /\ WindowsFit /\ HeldFits /\ DownFits

LEMMA InHeld == ASSUME NEW entries, NEW x
                PROVE  x \in Held(entries) <=> \E app \in Apps : x \in entries[app].tree
    BY DEF Held

LEMMA TreeOfApps == ASSUME world \in Worlds, NEW app \in Apps
                    PROVE  Tree(app) \subseteq Apps /\ app \in Tree(app) /\ KeepSound \in BOOLEAN
    BY PauseMinimizedAssumption DEF Tree, KeepSound

\* What is left stopped by tw_pause_wake is still held, unless it was not before.
LEMMA WakeFits ==
    ASSUME PauseInv, NEW owner, Wake(owner), world' = world
    PROVE  /\ watched' \in [Apps -> Entry] /\ Whole(watched')
           /\ stopped' \subseteq stopped
           /\ stopped' \cap Held(watched) \subseteq Held(watched')
           /\ owner \in Held(watched) => owner \notin stopped'
           /\ file' = Held(watched')
<1> DEFINE woken == {app \in Apps : watched[app].is /\ owner \in {app} \cup watched[app].tree}
<1>1. \A app \in Apps :
        watched'[app] = IF app \in woken
                        THEN [watched[app] EXCEPT !.paused = FALSE, !.tree = {}, !.due = FALSE]
                        ELSE watched[app]
    BY DEF Wake
<1>2. stopped' = stopped \ UNION {watched[app].tree : app \in woken} /\ file' = Held(watched')
    BY DEF Wake
<1>3. \A app \in Apps : watched'[app].tree = IF app \in woken THEN {} ELSE watched[app].tree
    BY <1>1 DEF PauseInv, TypeInv, Entry
<1>4. watched' \in [Apps -> Entry]
    <2>1. \A app \in Apps : watched[app] \in Entry
        BY DEF PauseInv, TypeInv
    <2>2. \A e \in Entry : [e EXCEPT !.paused = FALSE, !.tree = {}, !.due = FALSE] \in Entry
        BY DEF Entry
    <2> QED
        BY <2>1, <2>2 DEF Wake
<1>5. \A app \in Apps : watched'[app].is = watched[app].is /\ watched'[app].asking = watched[app].asking
    <2>1. \A app \in Apps : watched[app] \in Entry
        BY DEF PauseInv, TypeInv
    <2>2. \A e \in Entry : /\ [e EXCEPT !.paused = FALSE, !.tree = {}, !.due = FALSE].is = e.is
                           /\ [e EXCEPT !.paused = FALSE, !.tree = {}, !.due = FALSE].asking = e.asking
        BY DEF Entry
    <2> HIDE DEF woken
    <2> QED
        BY <1>1, <2>1, <2>2
<1> HIDE DEF woken
<1>6. Whole(watched')
    BY <1>3, <1>5 DEF PauseInv, Whole, Tree
<1>7. ASSUME NEW x \in stopped', x \in Held(watched) PROVE x \in Held(watched')
    <2>1. PICK app \in Apps : x \in watched[app].tree
        BY <1>7, InHeld
    <2>2. app \notin woken
        BY <1>2, <2>1
    <2> QED
        BY <1>3, <2>1, <2>2, InHeld
<1>8. ASSUME owner \in Held(watched) PROVE owner \notin stopped'
    <2>1. PICK app \in Apps : owner \in watched[app].tree
        BY <1>8, InHeld
    <2>2. app \in woken
        BY <2>1 DEF woken, PauseInv, Whole
    <2> QED
        BY <1>2, <2>1, <2>2
<1> QED
    BY <1>2, <1>4, <1>6, <1>7, <1>8

\* Who is stopped by try_stop is held, shows nothing, and nobody else is let go of.
LEMMA TryStopFits ==
    ASSUME world \in Worlds, world' = world,
           NEW some \in SUBSET Apps, NEW entries \in [Apps -> Entry], NEW still \in SUBSET Apps,
           Whole(entries), \A app \in some : entries[app].is,
           TryStop(some, entries, still)
    PROVE  /\ watched' \in [Apps -> Entry] /\ Whole(watched')
           /\ stopped' \subseteq Apps /\ still \subseteq stopped'
           /\ \A x \in stopped' \ still : x \in Held(watched') /\ ~Shows(x)
           /\ Held(entries) \subseteq Held(watched')
           /\ file' = Held(entries) /\ unsaved' \in BOOLEAN
           /\ ~unsaved' => Held(watched') = Held(entries)
<1>1. PICK busy \in SUBSET (IF MayBeBusy THEN some ELSE {}) :
        LET stops == {app \in some : AllHidden(app) /\ ~ChildShows(app) /\ app \notin busy}
            left == {app \in some : AllHidden(app)} \ stops
        IN  /\ watched' = [app \in Apps |->
                 IF app \in stops
                 THEN [entries[app] EXCEPT !.paused = TRUE, !.asking = FALSE, !.tree = Tree(app)]
                 ELSE IF app \in left THEN [entries[app] EXCEPT !.asking = FALSE, !.due = FALSE]
                 ELSE IF app \in some THEN [entries[app] EXCEPT !.asking = FALSE]
                 ELSE entries[app]]
            /\ stopped' = still \cup UNION {Tree(app) : app \in stops}
            /\ file' = Held(entries)
            /\ unsaved' = (stops # {})
    BY DEF TryStop
<1> DEFINE stops == {app \in some : AllHidden(app) /\ ~ChildShows(app) /\ app \notin busy}
           left == {app \in some : AllHidden(app)} \ stops
<1>2. \A app \in stops : app \in some /\ app \in Apps /\ ~Shows(app) /\ ~ChildShows(app)
    BY DEF AllHidden
<1> HIDE DEF stops, left
<1>3. watched' = [app \in Apps |->
                 IF app \in stops
                 THEN [entries[app] EXCEPT !.paused = TRUE, !.asking = FALSE, !.tree = Tree(app)]
                 ELSE IF app \in left THEN [entries[app] EXCEPT !.asking = FALSE, !.due = FALSE]
                 ELSE IF app \in some THEN [entries[app] EXCEPT !.asking = FALSE]
                 ELSE entries[app]]
    BY <1>1 DEF stops, left
<1>4. stopped' = still \cup UNION {Tree(app) : app \in stops} /\ file' = Held(entries)
    BY <1>1 DEF stops
<1>5. unsaved' \in BOOLEAN /\ (~unsaved' => stops = {})
    <2>1. unsaved' = (stops # {})
        BY <1>1 DEF stops
    <2> QED
        BY <2>1
<1>6. \A app \in Apps : /\ watched'[app] \in Entry
                        /\ watched'[app].tree = IF app \in stops THEN Tree(app) ELSE entries[app].tree
                        /\ watched'[app].is = entries[app].is
                        /\ watched'[app].asking => entries[app].asking
    <2> TAKE app \in Apps
    <2>1. entries[app] \in Entry /\ Tree(app) \subseteq Apps
        BY TreeOfApps
    <2>2. CASE app \in stops
        BY <1>3, <2>1, <2>2 DEF Entry
    <2>3. CASE app \notin stops /\ app \in left
        BY <1>3, <2>1, <2>3 DEF Entry
    <2>4. CASE app \notin stops /\ app \notin left
        BY <1>3, <2>1, <2>4 DEF Entry
    <2> QED
        BY <2>2, <2>3, <2>4
<1>7. watched' \in [Apps -> Entry]
    BY <1>3, <1>6
<1>8. Held(entries) \subseteq Held(watched')
    <2> SUFFICES ASSUME NEW x \in Held(entries) PROVE x \in Held(watched')
        OBVIOUS
    <2>1. PICK app \in Apps : x \in entries[app].tree
        BY InHeld
    <2>2. x \in watched'[app].tree
        BY <1>6, <2>1 DEF Whole
    <2> QED
        BY <2>1, <2>2, InHeld
<1>9. ASSUME NEW x \in stopped' \ still PROVE x \in Held(watched') /\ ~Shows(x) /\ x \in Apps
    <2>1. PICK app \in stops : x \in Tree(app)
        BY <1>4
    <2>2. x \in Held(watched')
        BY <1>2, <1>6, <2>1, InHeld
    <2>3. ~Shows(x)
        BY <1>2, <2>1 DEF ChildShows
    <2> QED
        BY <1>2, <2>1, <2>2, <2>3, TreeOfApps
<1>10. ASSUME ~unsaved' PROVE Held(watched') = Held(entries)
    <2>1. stops = {}
        BY <1>5, <1>10
    <2>2. \A app \in Apps : watched'[app].tree = entries[app].tree
        BY <1>6, <2>1
    <2> QED
        BY <2>2 DEF Held
<1>11. Whole(watched')
    <2>1. \A app \in stops : entries[app].is
        BY <1>2
    <2> QED
        BY <1>6, <2>1 DEF Whole, Tree
<1> QED
    BY <1>4, <1>5, <1>7, <1>8, <1>9, <1>10, <1>11

-----------------------------------------------------------------------------
\* What try_stop makes of a state in which still is held by entries.
LEMMA StopKeepsInv ==
    ASSUME PauseInv, UNCHANGED <<world, window, up, on>>, up, idle' \in BOOLEAN, timer' \in BOOLEAN,
           NEW some \in SUBSET Apps, NEW entries \in [Apps -> Entry], NEW still \in SUBSET stopped,
           Whole(entries), \A app \in some : entries[app].is,
           still \cap Held(watched) \subseteq Held(entries),
           TryStop(some, entries, still)
    PROVE  PauseInv'
<1>1. /\ watched' \in [Apps -> Entry] /\ Whole(watched')
      /\ stopped' \subseteq Apps
      /\ \A x \in stopped' \ still : x \in Held(watched') /\ ~Shows(x)
      /\ Held(entries) \subseteq Held(watched')
      /\ file' = Held(entries) /\ unsaved' \in BOOLEAN
      /\ ~unsaved' => Held(watched') = Held(entries)
    BY TryStopFits DEF PauseInv, TypeInv
<1>2. TypeInv'
    BY <1>1 DEF PauseInv, TypeInv
<1>3. Whole(watched)'
    BY <1>1 DEF Whole, Tree
<1>4. WindowsFit'
    <2> SUFFICES ASSUME NEW w \in Windows, window[w] # "gone", Owner(w) \in stopped'
                 PROVE  window[w] = "hidden" /\ Owner(w) \in Held(watched')
        BY DEF WindowsFit, Held
    <2>1. CASE Owner(w) \in still
        BY <1>1, <2>1 DEF PauseInv, WindowsFit
    <2>2. CASE Owner(w) \notin still
        <3>1. window[w] # "shown"
            BY <1>1, <2>2 DEF Shows
        <3> QED
            BY <1>1, <2>2, <3>1 DEF PauseInv, TypeInv
    <2> QED
        BY <2>1, <2>2
<1>5. HeldFits'
    <2>1. ASSUME ~CrashAnywhere PROVE stopped' \subseteq Held(watched')
        <3>1. still \subseteq Held(watched')
            BY <1>1, <2>1 DEF PauseInv, HeldFits
        <3> QED
            BY <1>1, <3>1
    <2>2. ~unsaved' => file' = Held(watched')
        BY <1>1
    <2>3. CrashAnywhere' = CrashAnywhere /\ up' /\ Held(watched)' = Held(watched')
        BY DEF CrashAnywhere, Held
    <2> QED
        BY <2>1, <2>2, <2>3 DEF HeldFits
<1>6. DownFits'
    BY DEF DownFits
<1> QED
    BY <1>2, <1>3, <1>4, <1>5, <1>6 DEF PauseInv

\* The entries that stay, the new ones, and what those that go let go of.
LEMMA EvaluateFits ==
    ASSUME PauseInv, Ready, Evaluate, UNCHANGED <<world, window, up, on>>, idle' \in BOOLEAN
    PROVE  PauseInv'
<1> DEFINE there == {app \in Apps : watched[app].is}
           kept == {app \in there : on /\ AllHidden(app)}
           fresh == {app \in Apps \ there : on /\ AllHidden(app)}
           entries == [app \in Apps |-> IF app \in kept THEN watched[app]
                                        ELSE IF app \in fresh THEN New ELSE None]
           still == stopped \ UNION {watched[app].tree : app \in there \ kept}
           due == {app \in kept : Due(app)}
<1>1. None \in Entry /\ New \in Entry /\ New.tree = {} /\ None.tree = {} /\ New.is /\ ~None.is
        /\ ~None.asking /\ ~New.asking
    BY DEF None, New, Entry
<1>2. \A app \in Apps : /\ entries[app] \in Entry
                        /\ entries[app].tree = IF app \in kept THEN watched[app].tree ELSE {}
                        /\ entries[app].asking => watched[app].asking /\ app \in kept
                        /\ app \in kept => entries[app].is
    BY <1>1 DEF PauseInv, TypeInv
<1>3. entries \in [Apps -> Entry] /\ still \in SUBSET stopped /\ due \subseteq kept /\ kept \subseteq Apps
    BY <1>2
<1>4. Whole(entries)
    BY <1>1, <1>2 DEF PauseInv, Whole
<1>5. still \cap Held(watched) \subseteq Held(entries)
    <2> SUFFICES ASSUME NEW x \in still, x \in Held(watched) PROVE x \in Held(entries)
        OBVIOUS
    <2>1. PICK app \in Apps : x \in watched[app].tree
        BY InHeld
    <2>2. app \in there
        BY <2>1 DEF PauseInv, Whole
    <2>3. app \in kept
        BY <2>1, <2>2
    <2>4. x \in entries[app].tree
        BY <1>2, <2>1, <2>3
    <2> HIDE DEF entries
    <2> QED
        BY <2>4, InHeld
<1>6. timer' \in BOOLEAN
    BY DEF Evaluate, Schedule, PauseInv, TypeInv
<1>7. CASE ~KeepSound
    <2>1. TryStop(due, entries, still)
        BY <1>7 DEF Evaluate
    <2>2. \A app \in due : entries[app].is
        BY <1>2, <1>3
    <2>3. due \in SUBSET Apps
        BY <1>3
    <2> HIDE DEF entries, still, due
    <2> QED
        BY <1>3, <1>4, <1>5, <1>6, <2>1, <2>2, <2>3, StopKeepsInv DEF Ready
<1>8. CASE KeepSound
    <2>1. /\ watched' = [app \in Apps |->
                IF app \in due THEN [entries[app] EXCEPT !.asking = TRUE] ELSE entries[app]]
          /\ stopped' = still /\ file' = Held(entries) /\ UNCHANGED unsaved
        BY <1>8 DEF Evaluate
    <2>0. \A app \in due : entries[app].is
        BY <1>2, <1>3
    <2> HIDE DEF entries, still, due
    <2>2. \A app \in Apps : /\ watched'[app] \in Entry
                            /\ watched'[app].tree = entries[app].tree
                            /\ watched'[app].is = entries[app].is
                            /\ watched'[app].asking => entries[app].asking \/ app \in due
        <3>1. \A e \in Entry : /\ [e EXCEPT !.asking = TRUE] \in Entry
                               /\ [e EXCEPT !.asking = TRUE].tree = e.tree
                               /\ [e EXCEPT !.asking = TRUE].is = e.is
            BY DEF Entry
        <3> QED
            BY <1>3, <2>1, <3>1
    <2>3. Held(watched') = Held(entries)
        BY <2>2 DEF Held
    <2>4. TypeInv'
        BY <1>3, <1>6, <2>1, <2>2 DEF PauseInv, TypeInv, Ready
    <2>5. Whole(watched)'
        BY <1>4, <2>0, <2>2 DEF Whole, Tree
    <2>6. WindowsFit'
        BY <1>3, <1>5, <2>1, <2>3 DEF PauseInv, WindowsFit, Held
    <2>7. HeldFits'
        <3>1. ~CrashAnywhere => stopped' \subseteq Held(watched')
            BY <1>3, <1>5, <2>1, <2>3 DEF PauseInv, HeldFits, Ready
        <3>2. file' = Held(watched')
            BY <2>1, <2>3
        <3>3. CrashAnywhere' = CrashAnywhere /\ up' /\ Held(watched)' = Held(watched')
            BY DEF CrashAnywhere, Held, Ready
        <3> QED
            BY <3>1, <3>2, <3>3 DEF HeldFits
    <2>8. DownFits'
        BY DEF DownFits, Ready
    <2> QED
        BY <2>4, <2>5, <2>6, <2>7, <2>8 DEF PauseInv
<1> QED
    BY <1>7, <1>8

-----------------------------------------------------------------------------
LEMMA PauseInit == Init => PauseInv
<1> SUFFICES ASSUME Init PROVE PauseInv
    OBVIOUS
<1>1. None \in Entry /\ None.tree = {} /\ ~None.is /\ ~None.asking
    BY DEF None, Entry
<1>2. TypeInv
    BY <1>1 DEF Init, TypeInv
<1>3. Whole(watched) /\ Held(watched) = {}
    BY <1>1 DEF Init, Whole, Held
<1> QED
    BY <1>2, <1>3 DEF Init, PauseInv, WindowsFit, HeldFits, DownFits

\* A callback that wakes the app of a window.
LEMMA WakeKeepsInv ==
    ASSUME PauseInv, NEW w \in Windows, Wake(Owner(w)), UNCHANGED <<world, up, on, timer, unsaved>>, Ready,
           idle' \in BOOLEAN, NEW now \in {"shown", "hidden", "gone"},
           window' = [window EXCEPT ![w] = now],
           window[w] # "gone"
    PROVE  PauseInv'
<1>1. /\ watched' \in [Apps -> Entry] /\ Whole(watched')
      /\ stopped' \subseteq stopped
      /\ stopped' \cap Held(watched) \subseteq Held(watched')
      /\ Owner(w) \in Held(watched) => Owner(w) \notin stopped'
      /\ file' = Held(watched')
    BY WakeFits
<1>2. TypeInv'
    BY <1>1 DEF PauseInv, TypeInv
<1>3. Whole(watched)'
    BY <1>1 DEF Whole, Tree
<1>4. Held(watched)' = Held(watched') /\ CrashAnywhere' = CrashAnywhere
    BY DEF Held, CrashAnywhere
<1>5. WindowsFit'
    <2> SUFFICES ASSUME NEW v \in Windows, window'[v] # "gone", Owner(v) \in stopped'
                 PROVE  window'[v] = "hidden" /\ Owner(v) \in Held(watched')
        BY <1>4 DEF WindowsFit
    <2>1. v # w
        BY <1>1 DEF PauseInv, WindowsFit
    <2>2. window'[v] = window[v]
        BY <2>1 DEF PauseInv, TypeInv
    <2> QED
        BY <1>1, <2>2 DEF PauseInv, WindowsFit
<1>6. HeldFits'
    BY <1>1, <1>4 DEF HeldFits, PauseInv, Ready
<1>7. DownFits'
    BY DEF DownFits, Ready
<1> QED
    BY <1>2, <1>3, <1>5, <1>6, <1>7 DEF PauseInv

\* A step that changes neither who is stopped nor what holds them.
LEMMA RestKeepsInv ==
    ASSUME PauseInv, TypeInv', Ready, UNCHANGED <<world, up, watched, stopped, file, unsaved>>,
           \A w \in Windows : window'[w] \in {"gone", window[w]} \/ Owner(w) \notin stopped
                              \/ (window'[w] = "hidden" /\ window[w] = "shown")
    PROVE  PauseInv'
<1>1. Whole(watched)' /\ Held(watched)' = Held(watched) /\ CrashAnywhere' = CrashAnywhere
    BY DEF PauseInv, Whole, Tree, Held, CrashAnywhere
<1>2. WindowsFit'
    BY <1>1 DEF PauseInv, WindowsFit
<1>3. HeldFits' /\ DownFits'
    BY <1>1 DEF PauseInv, HeldFits, DownFits, Ready
<1> QED
    BY <1>1, <1>2, <1>3 DEF PauseInv

LEMMA DelayKeepsInv ==
    ASSUME PauseInv, NEW app \in Apps, DelayPasses(app), world' = world PROVE PauseInv'
<1>1. watched' = [watched EXCEPT ![app].due = TRUE]
        /\ UNCHANGED <<up, on, window, idle, timer, stopped, file, unsaved>>
    BY DEF DelayPasses
<1>2. \A e \in Entry : /\ [e EXCEPT !.due = TRUE] \in Entry
                       /\ [e EXCEPT !.due = TRUE].tree = e.tree
                       /\ [e EXCEPT !.due = TRUE].is = e.is
                       /\ [e EXCEPT !.due = TRUE].asking = e.asking
    BY DEF Entry
<1>3. \A a \in Apps : /\ watched'[a] \in Entry /\ watched'[a].tree = watched[a].tree
                      /\ watched'[a].is = watched[a].is /\ watched'[a].asking = watched[a].asking
    BY <1>1, <1>2 DEF PauseInv, TypeInv
<1>4. TypeInv'
    BY <1>1, <1>3 DEF PauseInv, TypeInv
<1>5. Held(watched)' = Held(watched) /\ CrashAnywhere' = CrashAnywhere
    BY <1>3 DEF Held, CrashAnywhere
<1>6. Whole(watched)'
    BY <1>3 DEF PauseInv, Whole, Tree
<1> QED
    BY <1>1, <1>4, <1>5, <1>6 DEF PauseInv, WindowsFit, HeldFits, DownFits

LEMMA SoundKeepsInv ==
    ASSUME PauseInv, SoundFinished, world' = world PROVE PauseInv'
<1> DEFINE asked == {app \in Apps : watched[app].asking}
<1>1. Ready /\ UNCHANGED <<up, on, window, idle>> /\ timer' \in BOOLEAN /\ idle' \in BOOLEAN
    BY DEF SoundFinished, Schedule, PauseInv, TypeInv
<1>2. CASE TryStop(asked, watched, stopped)
    <2>1. \A app \in asked : watched[app].is
        BY DEF PauseInv, Whole
    <2>2. asked \in SUBSET Apps /\ watched \in [Apps -> Entry] /\ Whole(watched)
        BY DEF PauseInv, TypeInv
    <2> HIDE DEF asked
    <2> QED
        BY <1>1, <1>2, <2>1, <2>2, StopKeepsInv DEF Ready
<1>3. CASE /\ watched' = [app \in Apps |->
                IF app \in asked THEN [watched[app] EXCEPT !.asking = FALSE, !.due = FALSE]
                ELSE watched[app]]
           /\ UNCHANGED <<stopped, file, unsaved>>
    <2>1. \A e \in Entry : /\ [e EXCEPT !.asking = FALSE, !.due = FALSE] \in Entry
                           /\ [e EXCEPT !.asking = FALSE, !.due = FALSE].tree = e.tree
                           /\ [e EXCEPT !.asking = FALSE, !.due = FALSE].is = e.is
                           /\ ~[e EXCEPT !.asking = FALSE, !.due = FALSE].asking
        BY DEF Entry
    <2>2. \A a \in Apps : /\ watched'[a] \in Entry /\ watched'[a].tree = watched[a].tree
                          /\ watched'[a].is = watched[a].is /\ ~watched'[a].asking
        <3> TAKE a \in Apps
        <3>1. watched[a] \in Entry
            BY DEF PauseInv, TypeInv
        <3> QED
            BY <1>3, <2>1, <3>1
    <2>3. TypeInv'
        BY <1>1, <1>3, <2>2 DEF PauseInv, TypeInv
    <2>4. Held(watched)' = Held(watched) /\ CrashAnywhere' = CrashAnywhere
        BY <2>2 DEF Held, CrashAnywhere
    <2>5. Whole(watched)'
        BY <2>2 DEF PauseInv, Whole, Tree
    <2> QED
        BY <1>1, <1>3, <2>3, <2>4, <2>5 DEF PauseInv, WindowsFit, HeldFits, DownFits
<1> QED
    BY <1>2, <1>3 DEF SoundFinished

\* The compositor dies or ends, and the next one starts.
LEMMA EndsKeepsInv ==
    ASSUME PauseInv, Crash \/ Quit \/ Recover \/ Save, world' = world PROVE PauseInv'
<1>1. None \in Entry /\ None.tree = {} /\ ~None.is /\ ~None.asking
    BY DEF None, Entry
<1>2. CrashAnywhere' = CrashAnywhere
    BY DEF CrashAnywhere
<1>3. CASE Crash \/ Quit
    <2>1. Ends /\ up /\ stopped' \subseteq stopped
        BY <1>3 DEF Crash, Quit, Ready
    <2>2. TypeInv'
        BY <1>1, <2>1 DEF Ends, PauseInv, TypeInv
    <2>3. Whole(watched)' /\ Held(watched)' = {}
        BY <1>1, <2>1 DEF Ends, Whole, Held
    <2>4. ~CrashAnywhere => stopped' \subseteq file'
        <3>1. CASE Crash
            BY <3>1 DEF Crash, PauseInv, HeldFits
        <3>2. CASE Quit
            BY <3>2 DEF Quit, Ready, PauseInv, HeldFits
        <3> QED
            BY <1>3, <3>1, <3>2
    <2> QED
        BY <1>2, <2>1, <2>2, <2>3, <2>4 DEF Ends, PauseInv, WindowsFit, HeldFits, DownFits
<1>4. CASE Recover
    <2>1. TypeInv'
        BY <1>4 DEF Recover, PauseInv, TypeInv
    <2>2. Whole(watched)' /\ Held(watched)' = Held(watched) /\ Held(watched) = {}
        BY <1>4 DEF Recover, PauseInv, Whole, Tree, Held, DownFits
    <2> QED
        BY <1>2, <1>4, <2>1, <2>2 DEF Recover, PauseInv, WindowsFit, HeldFits, DownFits
<1>5. CASE Save
    <2>1. TypeInv'
        BY <1>5 DEF Save, PauseInv, TypeInv
    <2>2. Whole(watched)' /\ Held(watched)' = Held(watched)
        BY <1>5 DEF Save, PauseInv, Whole, Tree, Held
    <2> QED
        BY <1>2, <1>5, <2>1, <2>2 DEF Save, PauseInv, WindowsFit, HeldFits, DownFits
<1> QED
    BY <1>3, <1>4, <1>5

LEMMA PauseStep == ASSUME PauseInv, [Next]_<<world, vars>> PROVE PauseInv'
<1>1. ASSUME NEW w \in Windows, Map(w) \/ Hide(w), world' = world PROVE PauseInv'
    <2>1. TypeInv'
        BY <1>1 DEF Map, Hide, PauseInv, TypeInv
    <2>2. \A v \in Windows : window'[v] \in {"gone", window[v]} \/ Owner(v) \notin stopped
                             \/ (window'[v] = "hidden" /\ window[v] = "shown")
        BY <1>1 DEF Map, Hide, PauseInv, TypeInv
    <2> QED
        BY <1>1, <2>1, <2>2, RestKeepsInv DEF Map, Hide
<1>2. ASSUME NEW w \in Windows, Show(w) \/ Close(w) \/ Unmap(w), world' = world PROVE PauseInv'
    <2>1. CASE Show(w)
        BY <1>2, <2>1, WakeKeepsInv DEF Show
    <2>2. CASE Close(w)
        <3>1. window' = [window EXCEPT ![w] = window[w]] /\ window[w] \in {"shown", "hidden", "gone"}
            BY <2>2 DEF Close, PauseInv, TypeInv
        <3> QED
            BY <1>2, <2>2, <3>1, WakeKeepsInv DEF Close, PauseInv, TypeInv
    <2>3. CASE Unmap(w)
        BY <1>2, <2>3, WakeKeepsInv DEF Unmap
    <2> QED
        BY <1>2, <2>1, <2>2, <2>3
<1>3. ASSUME NEW w \in Windows, Refuse(w), world' = world PROVE PauseInv'
    BY <1>3 DEF Refuse, PauseInv, TypeInv, Whole, Tree, WindowsFit, HeldFits, DownFits, Held, CrashAnywhere
<1>4. ASSUME NEW app \in Apps, DelayPasses(app), world' = world PROVE PauseInv'
    BY <1>4, DelayKeepsInv
<1>5. ASSUME RunIdle \/ RunTimer, world' = world PROVE PauseInv'
    BY <1>5, EvaluateFits DEF RunIdle, RunTimer, PauseInv, TypeInv
<1>6. ASSUME SoundFinished, world' = world PROVE PauseInv'
    BY <1>6, SoundKeepsInv
<1>7. ASSUME Configure, world' = world PROVE PauseInv'
    <2>1. TypeInv'
        BY <1>7 DEF Configure, PauseInv, TypeInv
    <2> QED
        BY <1>7, <2>1, RestKeepsInv DEF Configure
<1>8. ASSUME Crash \/ Quit \/ Recover \/ Save, world' = world PROVE PauseInv'
    BY <1>8, EndsKeepsInv
<1>9. CASE UNCHANGED <<world, vars>>
    BY <1>9 DEF vars, PauseInv, TypeInv, Whole, Tree, WindowsFit, HeldFits, DownFits, Held, CrashAnywhere
<1> QED
    BY <1>1, <1>2, <1>3, <1>4, <1>5, <1>6, <1>7, <1>8, <1>9 DEF Next, Step

THEOREM PauseInvariant == Spec => []PauseInv
<1> QED
    BY PauseInit, PauseStep, PTL DEF Spec

\* What the user sees runs: no window that is shown is of a stopped process.
THEOREM ShownNeverStopped == Spec => []ShownRuns
<1>1. PauseInv => ShownRuns
    BY DEF PauseInv, WindowsFit, ShownRuns
<1> QED
    BY <1>1, PauseInvariant, PTL

\* Every stopped process is held by an entry or is in the file, through crashes
\* that do not fall between the signals and the file.
THEOREM AllRemembered == Spec => []NobodyIsForgotten
<1>1. PauseInv => NobodyIsForgotten
    BY DEF PauseInv, HeldFits, NobodyIsForgotten, Ready
<1> QED
    BY <1>1, PauseInvariant, PTL
=============================================================================
