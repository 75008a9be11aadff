------------------------------ MODULE Windows ------------------------------
(* The windows of window mode on several screens: maximizing and snapping, the   *)
(* place a window goes back to, the desktops (workspaces) of a screen, and what   *)
(* becomes of desktops and windows when a screen goes away and comes back         *)
(* (sway/wm/screens.c, sway/wm/manage.c, sway/tree/output.c).                     *)
(*                                                                                *)
(* Screens are of one size, so a box is a screen of the layout and a place on it: *)
(* one of Places, a slot ("left", "right", "full"), the "middle", or the "edge" a *)
(* box that lies on another screen is pushed to when it is made to fit. The       *)
(* halves stand for the quarters too. restore_box is dropped where nothing reads  *)
(* it any more, while the window lies free, and a home keeps one box: a window    *)
(* that lies free goes back to where it is. Left out: fullscreen, minimized and   *)
(* sticky windows, windows that open and close, and tile mode, where desktops     *)
(* follow their screens as in sway.                                               *)
EXTENDS Naturals, Sequences, FiniteSets, SequencesExt

CONSTANTS Screens,     \* the screens there may be
          Row,         \* them from left to right
          Windows,     \* the windows, all floating
          Desks,       \* bound: at most this many desktops at a time
          Places,      \* where a window lies when it is neither snapped nor maximized
          MaxChanges,  \* bound: screens come and go at most this often
          MaxMade,     \* bound: the desktops there are that the user made
          None

ASSUME RowHoldsTheScreens ==
    /\ Row \in [1 .. Cardinality(Screens) -> Screens] /\ ToSet(Row) = Screens
    /\ IsFiniteSet(Screens) /\ Screens # {} /\ None \notin Screens

ASSUME DesksAreFinite == IsFiniteSet(Desks)

VARIABLES outputs,     \* the screens that are on, in the order they came
          desks,       \* the desktops: on, priority, age (in the focus stack), keep
          windows,     \* desk, as (free, left, right, full), box, restore, home of each
          changes,     \* how often a screen came or went, to bound it
          returning,   \* returning_outputs, for the idle callback
          was,         \* history: how a window was when its screen left it
          spot         \* history: where a window last lay neither snapped nor maximized

vars == <<outputs, desks, windows, changes, returning, was, spot>>

Slots == {"left", "right", "full"}
NoBox == [at |-> None, place |-> None]
At(s, p) == [at |-> s, place |-> p]
NoHome == [screen |-> None, as |-> "free", restore |-> NoBox]

Marks == Places \cup Slots \cup {"middle", "edge", None}
Boxes == [at : Screens \cup {None}, place : Marks]
Homes == [screen : Screens \cup {None}, as : Slots \cup {"free"}, restore : Boxes]
Containers == [desk : Desks, as : Slots \cup {"free"}, box : Boxes, restore : Boxes, home : Homes]
Desktops == [on : [Desks -> Screens \cup {None}], priority : [Desks -> Seq(Screens)],
             age : [Desks -> Nat], keep : SUBSET Desks]
----------------------------------------------------------------------------
(* Boxes.                                                                      *)

Fit(box, s) == IF box.at = s THEN box ELSE At(s, "edge")

Carry(box, from, to) == IF box.at = from THEN At(to, box.place) ELSE At(to, "edge")

ScreenChanged(c, from, to) ==
    [c EXCEPT !.restore = IF c.as = "free" THEN NoBox ELSE Carry(@, from, to),
              !.box = IF c.as = "free" THEN Carry(@, from, to) ELSE At(to, c.as)]

\* mutant: a snapped window forgets the place it had before
MaximizeAnew(c, s) == [c EXCEPT !.restore = c.box, !.as = "full", !.box = At(s, "full")]

Maximize(c, s) ==
    [c EXCEPT !.restore = IF c.as = "free" THEN c.box ELSE @, !.as = "full", !.box = At(s, "full")]

\* Out of its slot, to the place it has to go back to.
Restore(c, s) ==
    IF c.as = "free" THEN c
    ELSE [c EXCEPT !.as = "free", !.box = Fit(c.restore, s), !.restore = NoBox]

SnapTo(c, slot, s) ==
    CASE slot = "full" /\ c.as = "full" -> c
      [] slot = "full" /\ c.as # "full" -> Maximize(c, s)
      [] slot = "free" -> Restore(c, s)
      [] OTHER -> [c EXCEPT !.restore = IF c.as = "free" THEN c.box ELSE @,
                            !.as = slot, !.box = At(s, slot)]

\* mutant: the home is kept
ForgetNot(c) == c

Forget(c) == [c EXCEPT !.home = NoHome]
----------------------------------------------------------------------------
(* Desktops.                                                                   *)

Live(dk) == {d \in Desks : dk.on[d] # None}
Of(dk, s) == {d \in Desks : dk.on[d] = s}

\* The age of a desktop is how many of the others were looked at since.
\* output_get_active_workspace: the one looked at last of those the screen has.
Shown(dk, s) == CHOOSE d \in Of(dk, s) : \A e \in Of(dk, s) : dk.age[d] <= dk.age[e]

OnView(dk, out, d) == \E s \in ToSet(out) : Of(dk, s) # {} /\ Shown(dk, s) = d

Highest(dk, d, out) ==
    LET p == dk.priority[d]
        there == {i \in DOMAIN p : p[i] \in ToSet(out)}
    IN  IF there = {} THEN None ELSE p[CHOOSE i \in there : \A j \in there : i <= j]

Raise(dk, d) ==
    [dk EXCEPT !.age = [e \in Desks |->
        IF e = d THEN 0 ELSE IF e \in Live(dk) /\ @[e] < @[d] THEN @[e] + 1 ELSE @[e]]]

\* New desktops, the screen of each given, behind all others and in the order of
\* the screens.
Create(dk, new, out) ==
    LET later(d, e) == \E i, j \in DOMAIN out : i < j /\ out[i] = new[e] /\ out[j] = new[d]
    IN  [dk EXCEPT
          !.on = [d \in Desks |-> IF d \in DOMAIN new THEN new[d] ELSE @[d]],
          !.priority = [d \in Desks |-> IF d \in DOMAIN new THEN <<new[d]>> ELSE @[d]],
          !.age = [d \in Desks |-> IF d \in DOMAIN new
                      THEN Cardinality(Live(dk)) + Cardinality({e \in DOMAIN new : later(d, e)})
                      ELSE @[d]]]

Destroy(dk, gone) ==
    LET left == Live(dk) \ gone
    IN  [dk EXCEPT
          !.on = [d \in Desks |-> IF d \in gone THEN None ELSE @[d]],
          !.priority = [d \in Desks |-> IF d \in gone THEN <<>> ELSE @[d]],
          !.age = [d \in Desks |-> IF d \in left THEN Cardinality({e \in left : @[e] < @[d]}) ELSE 0],
          !.keep = @ \ gone]

Empty(win, d) == \A w \in Windows : win[w].desk # d

\* Of some desktops, those that go.
ConsiderDestroy(dk, win, some) ==
    Destroy(dk, {d \in some : /\ d \in Live(dk) /\ Empty(win, d) /\ d \notin dk.keep
                              /\ Shown(dk, dk.on[d]) # d})

\* move_to_workspace of some windows, to the desktops they go to; the others stay.
Moved(dk, c, d) ==
    IF c.desk = d THEN c ELSE ScreenChanged([c EXCEPT !.desk = d], dk.on[c.desk], dk.on[d])

MoveTo(dk, win, goal) ==
    LET there == [w \in Windows |-> Moved(dk, win[w], goal[w])]
        old == {win[w].desk : w \in {v \in Windows : goal[v] # win[v].desk}}
    IN  [dk |-> ConsiderDestroy(dk, there, old), win |-> there]

\* Where windows are when one of them is to go to d.
GoalOf(win, w, d) == [v \in Windows |-> IF v = w THEN d ELSE win[v].desk]

ScreenOf(w) == desks.on[windows[w].desk]
----------------------------------------------------------------------------
(* History: a window that lies free is where it went by itself or was put. One   *)
(* that is sent home goes back to what its screen remembers of it.               *)

\* was[w] is which screens left under it since it was last put somewhere, or clicked on
\* its title bar, and how it was on the screen if that is one: after a second one, what
\* it goes back to is not sure.
AtHome == [left |-> {}, as |-> "free", spot |-> None]

TypeOK ==
    /\ outputs \in Seq(Screens) /\ returning \in Seq(Screens) /\ changes \in Nat
    /\ desks \in Desktops
    /\ windows \in [Windows -> Containers]
    /\ was \in [Windows -> [left : SUBSET Screens, as : Slots \cup {"free"}, spot : Marks]]
    /\ spot \in [Windows -> Marks]

DisplacedFrom(w, s) == was[w].left = {s}

Leaves(w, s) ==
    IF was[w].left \subseteq {s} THEN [left |-> {s}, as |-> windows[w].as, spot |-> spot[w]]
    ELSE [AtHome EXCEPT !.left = was[w].left \cup {s}]

Spots(win, sent) ==
    [w \in Windows |-> IF win[w].as = "free" THEN win[w].box.place
                       ELSE IF w \in sent THEN was[w].spot ELSE spot[w]]

By(w) == /\ was' = [was EXCEPT ![w] = AtHome]
         /\ spot' = Spots(windows', {})

Same == was' = was /\ spot' = Spots(windows', {})
----------------------------------------------------------------------------
(* Screens going away and coming back.                                          *)

Remember(c, s) ==
    [c EXCEPT !.home = [screen |-> s, as |-> c.as,
                        restore |-> IF c.as = "free" THEN c.box ELSE c.restore]]

\* output_evacuate: its desktops go to the screen they were on before, or to the
\* first there is; an empty one goes, and with no screen left all wait for one.
Evacuate(dk, win, s, out) ==
    LET target(d) == IF Highest(dk, d, out) # None THEN Highest(dk, d, out) ELSE Head(out)
        full == {d \in Of(dk, s) : ~Empty(win, d)}
        without == Destroy(dk, Of(dk, s) \ full)
        moved == [without EXCEPT
                    !.on = [d \in Desks |-> IF d \in full THEN target(d) ELSE @[d]],
                    !.priority = [d \in Desks |->
                        IF d \in full /\ target(d) \notin ToSet(@[d])
                        THEN Append(@[d], target(d)) ELSE @[d]]]
    IN  IF out = <<>> THEN without
        ELSE ConsiderDestroy(moved, win, {Shown(dk, target(d)) : d \in full})

\* mutant: they stay on the desktop they were on
JoinNot(dk, win, ws, out) == [dk |-> dk, win |-> win]

\* tw_screen_left: the windows the screen showed join those on view where they went.
Join(dk, win, ws, out) ==
    IF ws \notin Live(dk) \/ out = <<>> \/ Shown(dk, dk.on[ws]) = ws THEN [dk |-> dk, win |-> win]
    ELSE MoveTo(dk, win, [w \in Windows |-> IF win[w].desk = ws THEN Shown(dk, dk.on[ws])
                                            ELSE win[w].desk])

Change == changes < MaxChanges /\ changes' = changes + 1

\* output_disable, and the arranging of the desktops it moved.
Unplug(s) ==
    /\ Change
    /\ \E i \in DOMAIN outputs : outputs[i] = s /\ outputs' = RemoveAt(outputs, i)
    /\ LET leaving == {w \in Windows : ScreenOf(w) = s}
           known == [w \in Windows |-> IF w \in leaving THEN Remember(windows[w], s) ELSE windows[w]]
           dk == Evacuate(desks, known, s, outputs')
           placed == [w \in Windows |->
                        IF w \in leaving /\ outputs' # <<>>
                        THEN ScreenChanged(known[w], s, dk.on[known[w].desk]) ELSE known[w]]
           st == Join(dk, placed, Shown(desks, s), outputs')
       IN  /\ desks' = st.dk
           /\ windows' = st.win
           /\ was' = [w \in Windows |-> IF w \in leaving THEN Leaves(w, s) ELSE was[w]]
    /\ UNCHANGED returning
    /\ spot' = Spots(windows', {})

\* restore_workspaces and output_enable: a screen left with no desktop gets a new one.
\* mutant: only the screen that came
BareAlone(dk, out) == {s \in {Last(out)} : Of(dk, s) = {}}

Bare(dk, out) == {s \in ToSet(out) : Of(dk, s) = {}}

\* output_enable, and the arranging that follows: the screen takes the desktops it
\* comes first for, and all that wait for one, where what lies outside is centered.
Plug(s) ==
    /\ s \notin ToSet(outputs)
    /\ Change
    /\ outputs' = Append(outputs, s)
    /\ LET taken == {d \in Live(desks) : outputs = <<>> \/ Highest(desks, d, outputs') = s}
           moved == [desks EXCEPT !.on = [d \in Desks |-> IF d \in taken THEN s ELSE @[d]]]
           bare == Bare(moved, outputs')
           back(c) == IF outputs = <<>> /\ desks.on[c.desk] # s
                      THEN [c EXCEPT !.box = At(desks.on[c.desk], "middle")] ELSE c
       IN  /\ \E fresh \in SUBSET (Desks \ Live(desks)) : \E new \in Bijection(fresh, bare) :
                 desks' = Create(moved, new, outputs')
           /\ windows' = [w \in Windows |->
                IF windows[w].desk \in taken THEN ScreenChanged(back(windows[w]), ScreenOf(w), s)
                ELSE windows[w]]
    /\ returning' = IF s \in ToSet(returning) THEN returning ELSE Append(returning, s)
    /\ Same

\* return_home, on its screen: from the restored size, so that maximizing or snapping
\* keeps it.
ReturnHome(c, s) ==
    SnapTo([desk |-> c.desk, as |-> "free", box |-> Fit(c.home.restore, s), restore |-> NoBox,
            home |-> NoHome],
           c.home.as, s)

\* The idle callback. A screen that is gone again is passed over.
ReturnWindows ==
    /\ returning # <<>>
    /\ LET sent == {w \in Windows : windows[w].home.screen \in ToSet(returning) \cap ToSet(outputs)}
           goal == [w \in Windows |->
                      IF w \in sent /\ ScreenOf(w) # windows[w].home.screen
                      THEN Shown(desks, windows[w].home.screen) ELSE windows[w].desk]
           st == MoveTo(desks, windows, goal)
       IN  /\ desks' = st.dk
           /\ windows' = [w \in Windows |->
                IF w \in sent THEN ReturnHome(st.win[w], windows[w].home.screen) ELSE windows[w]]
           /\ was' = [w \in Windows |-> IF w \in sent THEN AtHome ELSE was[w]]
           /\ spot' = Spots(windows', sent)
    /\ returning' = <<>>
    /\ UNCHANGED <<outputs, changes>>
----------------------------------------------------------------------------
(* What the user does.                                                          *)

\* workspace_switch, or a click on a window of that desktop.
Look(d) ==
    /\ d \in Live(desks) /\ outputs # <<>>
    /\ desks' = ConsiderDestroy(Raise(desks, d), windows, {Shown(desks, desks.on[d])})
    /\ UNCHANGED <<outputs, changes, windows, returning, was, spot>>

\* tw_desktop_new, and the switch to it.
NewDesktop(s) ==
    /\ s \in ToSet(outputs)
    /\ Cardinality(desks.keep) < MaxMade
    /\ \E d \in Desks \ Live(desks) :
         LET dk == Raise(Create(desks, [e \in {d} |-> s], outputs), d)
         IN  desks' = ConsiderDestroy([dk EXCEPT !.keep = @ \cup {d}], windows, {Shown(desks, s)})
    /\ UNCHANGED <<outputs, changes, windows, returning, was, spot>>

Focused(w) == outputs # <<>> /\ desks.age[windows[w].desk] = 0

\* The enabled screens that way from s, and the next one.
Beyond(s, way) ==
    {t \in ToSet(outputs) : \E i, j \in DOMAIN Row :
        /\ IF way = "left" THEN i < j ELSE j < i
        /\ Row[i] = t /\ Row[j] = s}

Beside(s, way) == {t \in Beyond(s, way) : \A u \in Beyond(s, way) : t \notin Beyond(u, way)}

Mirror(slot) == IF slot = "left" THEN "right" ELSE "left"

\* tw_snap left and right, when tw_snap_across carries the window on.
SnapAcross(w, way) ==
    /\ Focused(w) /\ windows[w].as = way
    /\ \E s \in Beside(ScreenOf(w), way) :
         LET to == Shown(desks, s)
             st == MoveTo(desks, [windows EXCEPT ![w] = Forget(@)], GoalOf(windows, w, to))
         IN  /\ desks' = Raise(st.dk, to)
             /\ windows' = [st.win EXCEPT ![w] = SnapTo(@, Mirror(way), s)]
    /\ UNCHANGED <<outputs, changes, returning>>
    /\ By(w)

\* tw_snap otherwise, and the maximize button.
Snap(w, way) ==
    /\ Focused(w)
    /\ windows[w].as = way => Beyond(ScreenOf(w), way) = {}
    /\ LET c == windows[w]
           slot == CASE way \in {"left", "right"} -> IF c.as = Mirror(way) THEN "free" ELSE way
                     [] way = "up" -> "full"
                     [] OTHER -> "free"
       IN  windows' = [windows EXCEPT ![w] = SnapTo(c, slot, ScreenOf(w))]
    /\ UNCHANGED <<outputs, changes, desks, returning>>
    /\ Same

\* move container to workspace, and to the desktop another screen shows: there it
\* keeps the focus, when it has it.
MoveToDesktop(w, d, follow) ==
    /\ outputs # <<>> /\ d \in Live(desks) \ {windows[w].desk}
    /\ follow => Focused(w) /\ desks.on[d] # ScreenOf(w) /\ Shown(desks, desks.on[d]) = d
    /\ LET c == ScreenChanged([Forget(windows[w]) EXCEPT !.desk = d], ScreenOf(w), desks.on[d])
           dk == IF follow THEN Raise(desks, d) ELSE desks
       IN  /\ windows' = [windows EXCEPT ![w] = c]
           /\ desks' = ConsiderDestroy(dk, windows', {windows[w].desk})
    /\ UNCHANGED <<outputs, changes, returning>>
    /\ By(w)

\* A press on the title bar let go of without moving: the press alone forgets the home.
Click(w) ==
    /\ Focused(w)
    /\ windows' = [windows EXCEPT ![w] = Forget(@)]
    /\ UNCHANGED <<outputs, changes, desks, returning>>
    /\ By(w)

\* A drag from the press on the title bar to the drop: nothing comes between.
\* The window comes out of its slot, and is on the desktop shown where it is dropped.
Dropped(w, s, p) ==
    [Restore(Forget(windows[w]), ScreenOf(w)) EXCEPT !.desk = Shown(desks, s), !.box = At(s, p)]

Before(w) == IF windows[w].as = "free" THEN windows[w].box ELSE windows[w].restore

\* finalize_move, on no edge of a screen.
Drop(w, s, p) ==
    /\ Focused(w) /\ s \in ToSet(outputs)
    /\ windows' = [windows EXCEPT ![w] = Dropped(w, s, p)]
    /\ UNCHANGED <<outputs, changes, desks, returning>>
    /\ By(w)

\* finalize_move, with the pointer at an edge of screen t, where it snaps.
DropAtEdge(w, s, t, slot) ==
    /\ Focused(w) /\ {s, t} \subseteq ToSet(outputs)
    /\ LET put == [windows EXCEPT ![w] = Dropped(w, s, "edge")]
           st == MoveTo(desks, put, GoalOf(put, w, Shown(desks, t)))
       IN  /\ desks' = IF s = t THEN desks ELSE Raise(st.dk, Shown(desks, t))
           /\ windows' = [st.win EXCEPT ![w] = [SnapTo(@, slot, t) EXCEPT !.restore = Before(w)]]
    /\ was' = [was EXCEPT ![w] = AtHome]
    /\ spot' = [spot EXCEPT ![w] = IF Before(w).at = t THEN Before(w).place ELSE None]
    /\ UNCHANGED <<outputs, changes, returning>>
----------------------------------------------------------------------------
NoDesks == [on |-> [d \in Desks |-> None], priority |-> [d \in Desks |-> <<>>],
            age |-> [d \in Desks |-> 0], keep |-> {}]

\* A desktop for each screen.
Init ==
    /\ outputs = Row
    /\ \E first \in SUBSET Desks : \E new \in Bijection(first, Screens) :
         desks = Create(NoDesks, new, Row)
    /\ changes = 0
    /\ \E d \in [Windows -> Live(desks)], p \in Places :
         windows = [w \in Windows |-> [desk |-> d[w], as |-> "free", box |-> At(desks.on[d[w]], p),
                                       restore |-> NoBox, home |-> NoHome]]
    /\ returning = <<>>
    /\ was = [w \in Windows |-> AtHome]
    /\ spot = [w \in Windows |-> windows[w].box.place]

Next ==
    \/ \E s \in Screens : Unplug(s) \/ Plug(s) \/ NewDesktop(s)
    \/ ReturnWindows
    \/ \E d \in Desks : Look(d)
    \/ \E w \in Windows :
        \/ Click(w)
        \/ \E way \in {"left", "right"} : SnapAcross(w, way)
        \/ \E way \in {"left", "right", "up", "down"} : Snap(w, way)
        \/ \E d \in Desks, follow \in BOOLEAN : MoveToDesktop(w, d, follow)
        \/ \E s \in Screens, p \in Places : Drop(w, s, p)
        \/ \E s, t \in Screens, slot \in Slots : DropAtEdge(w, s, t, slot)

Spec == Init /\ [][Next]_vars
----------------------------------------------------------------------------
(* Properties.                                                                  *)

\* Every screen that is on has a desktop to show, no window is on a desktop that is
\* gone, and desktops wait for a screen only while all screens are off.
EveryDesktopHasAScreen ==
    /\ \A s \in ToSet(outputs) : Of(desks, s) # {}
    /\ \A w \in Windows : windows[w].desk \in Live(desks)
    /\ \A d \in Live(desks) : desks.on[d] \in ToSet(outputs) \/ outputs = <<>>

\* A snapped or maximized window fills its slot of the screen it is on, and goes back
\* to where it last lay free, at the same place of that screen, whatever screens,
\* slots and desktops it has been through; but for one dragged to an edge of another
\* screen, which goes back to where the drag started as far as that screen reaches.
RestoreGoesBack ==
    outputs # <<>> =>
        \A w \in Windows : windows[w].as # "free" =>
            /\ windows[w].box = At(ScreenOf(w), windows[w].as)
            /\ spot[w] # None => windows[w].restore = At(ScreenOf(w), spot[w])

\* When a screen that was gone is back, the windows it showed return to it where they
\* were and as they were, and with what they went back to; one that was put somewhere
\* else in the meantime stays where it is, and so does, though the head of screens.c
\* does not say so, one whose title bar was only clicked.
ReturnsAsItWas ==
    [][returning # <<>> /\ returning' = <<>> =>
        \A w \in Windows :
            /\ \A s \in ToSet(returning) \cap ToSet(outputs) : DisplacedFrom(w, s) =>
                /\ desks'.on[windows'[w].desk] = s
                /\ windows'[w].as = was[w].as
                /\ was[w].spot # None =>
                    At(s, was[w].spot) =
                        IF was[w].as = "free" THEN windows'[w].box ELSE windows'[w].restore
            /\ was[w] = AtHome => windows'[w] = windows[w]]_vars

\* The windows a screen shows when it goes away are on view on another screen, if
\* there is one: none is left on a desktop nobody looks at.
StaysOnView ==
    [][\A s \in ToSet(outputs) \ ToSet(outputs') : outputs' # <<>> =>
        \A w \in Windows : windows[w].desk = Shown(desks, s)
            => OnView(desks', outputs', windows'[w].desk)]_vars
=============================================================================
