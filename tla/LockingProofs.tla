---------------------------- MODULE LockingProofs ----------------------------
(**************************************************************************)
(* Theorems about SessionLock and Locking, for any number of screens and  *)
(* lock screens: while the session is locked every screen is covered, and *)
(* the keyboard is at a lock screen's surface whenever there is one; it   *)
(* stays locked until the lock screen that holds it has seen the right    *)
(* password (Locking implements Locked); tilewin-lock -f says that it is  *)
(* locked only when it is; and a surface is only asked for on a screen    *)
(* that has a rectangle and none yet.                                     *)
(**************************************************************************)
EXTENDS Locking, FiniteSetTheorems, TLAPS

\* What refocus_output relies on: an unplugged screen has no surface left by the
\* time its rectangle is freed.
NoneWhenUnplugged == \A s \in Screens \ Plugged : surface[s] = "none"

LockInv == LockTypeOK /\ Covered /\ KeyboardAtLockScreen /\ NoneWhenUnplugged

LEMMA LockInitInv == ASSUME LockInit PROVE LockInv
  BY SessionLockAssumption DEF LockInit, LockInv, LockTypeOK, Covered, KeyboardAtLockScreen, NoneWhenUnplugged, Plugged

\* Taking the keyboard from s gives it to a mapped surface elsewhere, if there
\* is one.
LEMMA RefocusFinds ==
    ASSUME LockInv, NEW s \in Screens, Refocus(s)
    PROVE  /\ focused' \in Screens \cup {Nobody} /\ focused' # s
           /\ focused' # Nobody => focused' \in covered /\ surface[focused'] = "mapped"
           /\ focused' = Nobody => \A t \in covered \ {s} : surface[t] # "mapped"
  <1> USE SessionLockAssumption DEF LockInv, LockTypeOK, KeyboardAtLockScreen, Refocus
  <1>1. CASE focused = s BY <1>1
  <1>2. CASE focused # s BY <1>2
  <1> QED BY <1>1, <1>2

\* Every callback keeps the three together: who has the keyboard depends on
\* which surfaces are mapped, and those are on covered screens only.
LEMMA LockStep == ASSUME LockInv, [LockNext]_lockVars PROVE LockInv'
  <1> USE SessionLockAssumption DEF LockInv, LockTypeOK, Covered, KeyboardAtLockScreen, NoneWhenUnplugged, Plugged
  <1>1. ASSUME NEW c \in Clients, Take(c) PROVE LockInv'
    BY <1>1 DEF Take, NoSurfaces
  <1>2. ASSUME NEW c \in Clients, Unlock(c) PROVE LockInv'
    BY <1>2 DEF Unlock, NoSurfaces
  <1>3. ASSUME NEW c \in Clients, Abandon(c) PROVE LockInv'
    BY <1>3 DEF Abandon, NoSurfaces
  <1>4. ASSUME NEW c \in Clients, NEW s \in Screens, NewSurface(c, s) PROVE LockInv'
    BY <1>4 DEF NewSurface
  <1>5. ASSUME NEW c \in Clients, NEW s \in Screens, MapSurface(c, s) PROVE LockInv'
    BY <1>5 DEF MapSurface
  <1>6. ASSUME NEW c \in Clients, NEW s \in Screens, DestroySurface(c, s) PROVE LockInv'
    BY <1>6, RefocusFinds DEF DestroySurface
  <1>7. ASSUME NEW s \in Screens, Plug(s) PROVE LockInv'
    BY <1>7 DEF Plug
  <1>8. ASSUME NEW s \in Screens, Enable(s) PROVE LockInv'
    BY <1>8 DEF Enable
  <1>9. ASSUME NEW s \in Screens, Disable(s) PROVE LockInv'
    BY <1>9 DEF Disable
  <1>10. ASSUME NEW s \in Screens, Unplug(s) PROVE LockInv'
    BY <1>10, RefocusFinds DEF Unplug
  <1>11. ASSUME NEW s \in Screens, FreeScreen(s) PROVE LockInv'
    BY <1>11 DEF FreeScreen
  <1>12. CASE UNCHANGED lockVars BY <1>12 DEF lockVars
  <1> QED BY <1>1, <1>2, <1>3, <1>4, <1>5, <1>6, <1>7, <1>8, <1>9, <1>10, <1>11, <1>12 DEF LockNext

-----------------------------------------------------------------------------
\* Whatever the lock screens and the wire do, the compositor does one of its
\* callbacks or nothing.
LEMMA CallbacksOnly == ASSUME Next PROVE [LockNext]_lockVars
  <1> USE DEF LockNext
  <1>1. ASSUME NEW c \in Clients, Handle(c) PROVE [LockNext]_lockVars
    <2>1. CASE HandleLock(c) BY <2>1 DEF HandleLock
    <2>2. CASE HandleUnlock(c) BY <2>2 DEF HandleUnlock
    <2>3. CASE HandleHangup(c) BY <2>3 DEF HandleHangup
    <2>4. ASSUME NEW s \in Screens, HandleSurface(c, s) PROVE [LockNext]_lockVars
      BY <2>4 DEF HandleSurface
    <2>5. ASSUME NEW s \in Screens, HandleCommit(c, s) PROVE [LockNext]_lockVars
      BY <2>5 DEF HandleCommit
    <2>6. ASSUME NEW s \in Screens, HandleDestroy(c, s) PROVE [LockNext]_lockVars
      BY <2>6 DEF HandleDestroy
    <2> QED BY <1>1, <2>1, <2>2, <2>3, <2>4, <2>5, <2>6 DEF Handle
  <1>2. ASSUME NEW c \in Clients, Dispatch(c) PROVE UNCHANGED lockVars
    BY <1>2 DEF Dispatch, Locks, Refused, ScreenEvent, FinishCheck, Leave
  <1>3. ASSUME NEW c \in Clients, Start(c) \/ Crash(c) \/ StartCheck(c) \/ CheckEnds(c)
        PROVE  UNCHANGED lockVars
    BY <1>3 DEF Start, Crash, StartCheck, CheckEnds
  <1>4. ASSUME NEW s \in Screens, Change(s) \/ Freed(s) PROVE LockNext
    BY <1>4 DEF Change, Freed
  <1> QED BY <1>1, <1>2, <1>3, <1>4 DEF Next

THEOREM LockInvariant == Spec => []LockInv
  <1>1. Init => LockInv BY LockInitInv DEF Init
  <1>2. LockInv /\ [Next]_vars => LockInv'
    BY LockStep, CallbacksOnly DEF vars, lockVars
  <1> QED BY <1>1, <1>2, PTL DEF Spec

\* While the session is locked every screen is covered, however screens come
\* and go and lock screens die (sway/lock.c).
THEOREM AlwaysCovered == Spec => []Covered
  BY LockInvariant, PTL DEF LockInv

\* The keyboard is at a mapped surface of the lock screen whenever there is one
\* (refocus_output, handle_surface_map).
THEOREM KeyboardStaysAtLockScreen == Spec => []KeyboardAtLockScreen
  BY LockInvariant, PTL DEF LockInv

-----------------------------------------------------------------------------
\* The kinds of the messages of a queue, and that there is at most one of a kind.
Kinds(q) == {q[i].is : i \in 1..Len(q)}

Once(q, k) == \A i, j \in 1..Len(q) : q[i].is = k /\ q[j].is = k => i = j

LEMMA KindsOfTail ==
    ASSUME NEW S, NEW q \in Seq(S), q # << >>
    PROVE  /\ Tail(q) \in Seq(S) /\ Head(q) \in S
           /\ Kinds(Tail(q)) \subseteq Kinds(q) /\ Head(q).is \in Kinds(q)
           /\ \A k : Once(q, k) => /\ Once(Tail(q), k)
                                   /\ Head(q).is = k => k \notin Kinds(Tail(q))
<1>1. /\ Tail(q) \in Seq(S) /\ Head(q) \in S /\ Head(q) = q[1] /\ Len(q) \in Nat /\ Len(q) > 0
      /\ Len(Tail(q)) = Len(q) - 1
    OBVIOUS
<1>2. \A i \in 1..Len(Tail(q)) : Tail(q)[i] = q[i + 1] /\ i + 1 \in 1..Len(q) /\ i + 1 # 1
    BY <1>1
<1>3. 1 \in 1..Len(q)
    BY <1>1
<1>4. Kinds(Tail(q)) \subseteq Kinds(q) /\ Head(q).is \in Kinds(q)
    BY <1>1, <1>2, <1>3 DEF Kinds
<1>5. ASSUME NEW k, Once(q, k)
      PROVE  Once(Tail(q), k) /\ (Head(q).is = k => k \notin Kinds(Tail(q)))
    <2>1. ASSUME NEW i \in 1..Len(Tail(q)), NEW j \in 1..Len(Tail(q)),
                 Tail(q)[i].is = k, Tail(q)[j].is = k
          PROVE  i = j
        <3>1. i + 1 = j + 1
            BY <1>2, <1>5, <2>1 DEF Once
        <3> QED
            BY <3>1
    <2>2. ASSUME Head(q).is = k, NEW i \in 1..Len(Tail(q)), Tail(q)[i].is = k
          PROVE  FALSE
        BY <1>1, <1>2, <1>3, <1>5, <2>2 DEF Once
    <2> QED
        BY <2>1, <2>2 DEF Once, Kinds
<1> QED
    BY <1>1, <1>4, <1>5

LEMMA KindsOfConcat ==
    ASSUME NEW S, NEW q \in Seq(S), NEW r \in Seq(S)
    PROVE  /\ q \o r \in Seq(S)
           /\ Kinds(q \o r) = Kinds(q) \cup Kinds(r)
           /\ \A k : Once(q, k) /\ k \notin Kinds(r) => Once(q \o r, k)
           /\ \A k : Once(r, k) /\ k \notin Kinds(q) => Once(q \o r, k)
<1>1. /\ q \o r \in Seq(S) /\ Len(q) \in Nat /\ Len(r) \in Nat /\ Len(q \o r) = Len(q) + Len(r)
      /\ \A i \in 1..Len(q) : (q \o r)[i] = q[i]
      /\ \A i \in 1..Len(r) : (q \o r)[i + Len(q)] = r[i]
    OBVIOUS
<1>2. \A i \in 1..Len(q \o r) : i \in 1..Len(q) \/ (i - Len(q) \in 1..Len(r) /\ (q \o r)[i] = r[i - Len(q)])
    <2> TAKE i \in 1..Len(q \o r)
    <2>1. CASE i <= Len(q)
        BY <1>1, <2>1
    <2>2. CASE i > Len(q)
        <3>1. i - Len(q) \in 1..Len(r) /\ (i - Len(q)) + Len(q) = i
            BY <1>1, <2>2
        <3> QED
            BY <1>1, <3>1
    <2> QED
        BY <1>1, <2>1, <2>2
<1>3. \A i \in 1..Len(q) : i \in 1..Len(q \o r)
    BY <1>1
<1>4. \A i \in 1..Len(r) : i + Len(q) \in 1..Len(q \o r)
    BY <1>1
<1>5. Kinds(q \o r) \subseteq Kinds(q) \cup Kinds(r)
    BY <1>1, <1>2 DEF Kinds
<1>6. Kinds(q) \cup Kinds(r) \subseteq Kinds(q \o r)
    BY <1>1, <1>3, <1>4 DEF Kinds
<1>7. ASSUME NEW k, Once(q, k), k \notin Kinds(r) PROVE Once(q \o r, k)
    <2>1. \A i \in 1..Len(q \o r) : (q \o r)[i].is = k => i \in 1..Len(q) /\ q[i].is = k
        BY <1>1, <1>2, <1>7 DEF Kinds
    <2> QED
        BY <1>7, <2>1 DEF Once
<1>8. ASSUME NEW k, Once(r, k), k \notin Kinds(q) PROVE Once(q \o r, k)
    <2>1. \A i \in 1..Len(q \o r) : (q \o r)[i].is = k => i - Len(q) \in 1..Len(r) /\ r[i - Len(q)].is = k
        BY <1>1, <1>2, <1>8 DEF Kinds
    <2>2. \A i, j \in 1..Len(q \o r) : i - Len(q) = j - Len(q) => i = j
        BY <1>1
    <2> QED
        BY <1>8, <2>1, <2>2 DEF Once
<1> QED
    BY <1>1, <1>5, <1>6, <1>7, <1>8

LEMMA KindsOfFew ==
    /\ Kinds(<< >>) = {} /\ \A k : Once(<< >>, k)
    /\ \A S : \A m \in S : /\ <<m>> \in Seq(S) /\ Kinds(<<m>>) = {m.is}
                           /\ \A k : Once(<<m>>, k)
<1>1. Kinds(<< >>) = {} /\ \A k : Once(<< >>, k)
    BY DEF Kinds, Once
<1>2. ASSUME NEW S, NEW m \in S
      PROVE  <<m>> \in Seq(S) /\ Kinds(<<m>>) = {m.is} /\ \A k : Once(<<m>>, k)
    <2>1. <<m>> \in Seq(S) /\ Len(<<m>>) = 1 /\ <<m>>[1] = m
        OBVIOUS
    <2>2. 1..Len(<<m>>) = {1}
        BY <2>1
    <2> QED
        BY <2>1, <2>2 DEF Kinds, Once
<1> QED
    BY <1>1, <1>2

\* The order SetToSeq chooses is a sequence of the members.
LEMMA SetToSeqIsSeq ==
    ASSUME NEW S, IsFiniteSet(S) PROVE SetToSeq(S) \in Seq(S)
<1>1. Cardinality(S) \in Nat /\ ExistsBijection(1..Cardinality(S), S)
    BY FS_CardinalityType
<1>2. \E f \in [1..Cardinality(S) -> S] : IsInjective(f)
    BY <1>1 DEF ExistsBijection, Bijection, Injection, IsInjective
<1>3. SetToSeq(S) \in [1..Cardinality(S) -> S]
    BY <1>2 DEF SetToSeq
<1> QED
    BY <1>1, <1>3

LEMMA KindsAreOf ==
    ASSUME NEW S, NEW q \in Seq(S) PROVE Kinds(q) \subseteq {m.is : m \in S}
    BY DEF Kinds

-----------------------------------------------------------------------------
Message == [is : {"lock", "unlock", "hangup", "locked", "finished"}]
    \cup [is : {"surface", "destroy", "commit", "global", "remove", "configure"},
          of : Screens, global : Nat]

\* The types the arguments need.
WireTypeInv ==
    /\ global \in [Screens -> Nat]
    /\ phase \in [Clients -> {"none", "asked", "locked", "unlocking", "ended", "crashed"}]
    /\ told \in [Clients -> {"waiting", "locked", "failed"}]
    /\ knows \in [Clients -> [Screens -> Nat]]
    /\ check \in [Clients -> Passwords \cup {"none", "y", "n"}]
    /\ requests \in [Clients -> Seq(Message)]
    /\ events \in [Clients -> Seq(Message)]

Holds(c) == lock = c /\ ~abandoned

\* What a lock screen has sent and is to read fits what it does: the lock was
\* asked for once, who is told that it has the lock has it until it knows, and
\* unlock is only on its way after a right password.
Fit(c) ==
    /\ "lock" \in Kinds(requests[c]) => phase[c] = "asked" /\ "locked" \notin Kinds(events[c])
    /\ "unlock" \in Kinds(requests[c]) => phase[c] = "unlocking" /\ check[c] = "y"
    /\ "hangup" \in Kinds(requests[c]) => phase[c] \in {"ended", "crashed"}
    /\ Once(requests[c], "lock") /\ Once(events[c], "locked")
    /\ Kinds(events[c]) # {} => Runs(c)
    /\ "locked" \in Kinds(events[c]) => phase[c] = "asked" /\ Holds(c)
    /\ phase[c] = "locked" => Holds(c)
    /\ check[c] # "none" => phase[c] = "locked" \/ (phase[c] = "unlocking" /\ check[c] = "y")
    /\ told[c] = "failed" => phase[c] \in {"ended", "crashed"}
    /\ c \in starts => phase[c] = "none" /\ requests[c] = << >>

WireInv == WireTypeInv /\ \A c \in Clients : Fit(c)

LEMMA AboutIsMessage ==
    ASSUME NEW s \in Screens, NEW g \in Nat,
           NEW is \in {"surface", "destroy", "commit", "global", "remove", "configure"}
    PROVE  About(is, s, g) \in Message /\ About(is, s, g).is = is
    BY DEF About, Message

LEMMA WireInit == Init => WireInv
<1> SUFFICES ASSUME Init PROVE WireInv
    OBVIOUS
<1>1. WireTypeInv
    BY DEF Init, WireTypeInv
<1>2. ASSUME NEW c \in Clients PROVE Fit(c)
    BY KindsOfFew DEF Init, Fit
<1> QED
    BY <1>1, <1>2 DEF WireInv

\* What stays true of a lock screen by a step that is about its screens, or of
\* another one.
LEMMA StaysFit ==
    ASSUME NEW c \in Clients, Fit(c),
           phase'[c] = phase[c], check'[c] = check[c], told'[c] = told[c], starts' \subseteq starts,
           Holds(c) => Holds(c)',
           Kinds(requests'[c]) \subseteq Kinds(requests[c]) \cup {"surface", "destroy", "commit"},
           Kinds(events'[c]) \subseteq Kinds(events[c]) \cup {"global", "remove", "configure"},
           Once(requests'[c], "lock"), Once(events'[c], "locked"),
           Kinds(events'[c]) # {} => Runs(c),
           c \in starts' => requests'[c] = requests[c]
    PROVE  Fit(c)'
    BY DEF Fit, Runs

LEMMA OthersStayFit ==
    ASSUME NEW c \in Clients, Fit(c),
           UNCHANGED <<phase[c], check[c], told[c], requests[c], events[c]>>, starts' \subseteq starts,
           Holds(c) => Holds(c)'
    PROVE  Fit(c)'
    BY DEF Fit, Runs

-----------------------------------------------------------------------------
LEMMA StartFits ==
    ASSUME WireInv, NEW c \in Clients, Start(c) PROVE WireInv'
<1> DEFINE surfaces == {About("surface", s, global[s]) : s \in On}
           new == <<[is |-> "lock"]>> \o SetToSeq(surfaces)
<1>1. /\ phase[c] = "none" /\ requests[c] = << >> /\ check[c] = "none" /\ told[c] # "failed"
      /\ Kinds(events[c]) = {}
    BY DEF WireInv, Start, Fit, Runs
<1>2. new \in Seq(Message) /\ Once(new, "lock") /\ Kinds(new) \subseteq {"lock", "surface"}
    <2>1. IsFiniteSet(surfaces)
        <3>1. IsFiniteSet(On)
            BY LockingAssumption, FS_Subset DEF On
        <3> DEFINE f == [s \in On |-> About("surface", s, global[s])]
        <3>2. f \in Surjection(On, surfaces)
            BY DEF Surjection
        <3> QED
            BY <3>1, <3>2, FS_Surjection
    <2>2. surfaces \subseteq {m \in Message : m.is = "surface"}
        BY AboutIsMessage DEF WireInv, WireTypeInv, On
    <2>3. SetToSeq(surfaces) \in Seq(surfaces) /\ SetToSeq(surfaces) \in Seq(Message)
        BY <2>1, <2>2, SetToSeqIsSeq
    <2>4. Kinds(SetToSeq(surfaces)) \subseteq {"surface"}
        BY <2>2, <2>3, KindsAreOf
    <2>5. [is |-> "lock"] \in Message /\ [is |-> "lock"].is = "lock"
        BY DEF Message
    <2>6. <<[is |-> "lock"]>> \in Seq(Message) /\ Kinds(<<[is |-> "lock"]>>) = {"lock"}
            /\ Once(<<[is |-> "lock"]>>, "lock")
        BY <2>5, KindsOfFew
    <2> HIDE DEF surfaces
    <2>7. new \in Seq(Message) /\ Kinds(new) = {"lock"} \cup Kinds(SetToSeq(surfaces))
        BY <2>3, <2>6, KindsOfConcat
    <2>8. Once(new, "lock")
        BY <2>3, <2>4, <2>6, KindsOfConcat
    <2> QED
        BY <2>4, <2>7, <2>8
<1>3. requests' = [requests EXCEPT ![c] = new]
    <2>1. << >> \o new = new
        BY <1>2
    <2> QED
        BY <1>1, <2>1 DEF Start, Say
<1> HIDE DEF new
<1>4. WireTypeInv'
    BY <1>2, <1>3 DEF Start, WireInv, WireTypeInv
<1>5. Fit(c)'
    BY <1>1, <1>2, <1>3 DEF Start, WireInv, WireTypeInv, Fit
<1>6. ASSUME NEW d \in Clients, d # c PROVE Fit(d)'
    BY <1>3, <1>6, OthersStayFit DEF Start, WireInv, WireTypeInv, Holds, lockVars
<1> QED
    BY <1>4, <1>5, <1>6 DEF WireInv

LEMMA EndsFits ==
    ASSUME WireInv, NEW c \in Clients, NEW how \in {"ended", "crashed"}, Runs(c), Ends(c, how),
           UNCHANGED <<lockVars, starts, global>>
    PROVE  WireInv'
<1>1. [is |-> "hangup"] \in Message /\ [is |-> "hangup"].is = "hangup"
    BY DEF Message
<1>2. <<[is |-> "hangup"]>> \in Seq(Message) /\ Kinds(<<[is |-> "hangup"]>>) = {"hangup"}
        /\ Once(<<[is |-> "hangup"]>>, "lock")
    BY <1>1, KindsOfFew
<1>3. WireTypeInv'
    BY <1>2 DEF Ends, WireInv, WireTypeInv
<1>4. Fit(c)'
    BY <1>2, KindsOfFew DEF Ends, WireInv, WireTypeInv, Fit, Runs
<1>5. ASSUME NEW d \in Clients, d # c PROVE Fit(d)'
    BY <1>5, OthersStayFit DEF Ends, WireInv, WireTypeInv, Holds, lockVars
<1> QED
    BY <1>3, <1>4, <1>5 DEF WireInv

\* A message that is read.
LEMMA HeadIsOf ==
    ASSUME WireTypeInv, NEW c \in Clients, events[c] # << >>
    PROVE  /\ Head(events[c]).is \in Kinds(events[c]) /\ Head(events[c]) \in Message
           /\ Tail(events[c]) \in Seq(Message)
           /\ Kinds(Tail(events[c])) \subseteq Kinds(events[c])
           /\ Once(events[c], "locked") =>
                /\ Once(Tail(events[c]), "locked")
                /\ Head(events[c]).is = "locked" => "locked" \notin Kinds(Tail(events[c]))
    BY KindsOfTail DEF WireTypeInv

LEMMA HeadIsAsked ==
    ASSUME WireTypeInv, NEW c \in Clients, requests[c] # << >>
    PROVE  /\ Head(requests[c]).is \in Kinds(requests[c]) /\ Head(requests[c]) \in Message
           /\ Tail(requests[c]) \in Seq(Message)
           /\ Kinds(Tail(requests[c])) \subseteq Kinds(requests[c])
           /\ Once(requests[c], "lock") =>
                /\ Once(Tail(requests[c]), "lock")
                /\ Head(requests[c]).is = "lock" => "lock" \notin Kinds(Tail(requests[c]))
    BY KindsOfTail DEF WireTypeInv

LEMMA LocksFits ==
    ASSUME WireInv, NEW c \in Clients, Locks(c) PROVE WireInv'
<1>1. "locked" \in Kinds(events[c]) /\ Tail(events[c]) \in Seq(Message)
        /\ Kinds(Tail(events[c])) \subseteq Kinds(events[c]) /\ "locked" \notin Kinds(Tail(events[c]))
        /\ Once(Tail(events[c]), "locked")
    BY HeadIsOf DEF Locks, WireInv, Fit
<1>2. WireTypeInv'
    BY <1>1 DEF Locks, WireInv, WireTypeInv
<1>3. Fit(c)'
    BY <1>1 DEF Locks, WireInv, WireTypeInv, Fit, Runs, Holds, lockVars
<1>4. ASSUME NEW d \in Clients, d # c PROVE Fit(d)'
    BY <1>4, OthersStayFit DEF Locks, WireInv, WireTypeInv, Holds, lockVars
<1> QED
    BY <1>2, <1>3, <1>4 DEF WireInv

LEMMA ScreenEventFits ==
    ASSUME WireInv, NEW c \in Clients, ScreenEvent(c) PROVE WireInv'
<1> DEFINE e == Head(events[c])
           new == Replies(c, e)
<1>1. /\ e \in Message /\ e.of \in Screens /\ e.global \in Nat /\ Tail(events[c]) \in Seq(Message)
      /\ Kinds(Tail(events[c])) \subseteq Kinds(events[c]) /\ Once(Tail(events[c]), "locked")
      /\ Runs(c)
    <2>1. /\ e \in Message /\ "of" \in DOMAIN e /\ Tail(events[c]) \in Seq(Message)
          /\ Kinds(Tail(events[c])) \subseteq Kinds(events[c]) /\ Once(Tail(events[c]), "locked")
          /\ Runs(c)
        BY HeadIsOf DEF ScreenEvent, WireInv, Fit
    <2> HIDE DEF e
    <2>2. \A m \in [is : {"lock", "unlock", "hangup", "locked", "finished"}] : DOMAIN m = {"is"}
        OBVIOUS
    <2>3. e \in [is : {"surface", "destroy", "commit", "global", "remove", "configure"},
                 of : Screens, global : Nat]
        BY <2>1, <2>2 DEF Message
    <2> QED
        BY <2>1, <2>3
<1>2. new \in Seq(Message) /\ Kinds(new) \subseteq {"surface", "destroy", "commit"}
    <2> HIDE DEF e
    <2>1. \A is \in {"surface", "destroy", "commit"} :
              /\ <<About(is, e.of, e.global)>> \in Seq(Message)
              /\ Kinds(<<About(is, e.of, e.global)>>) = {is}
        BY <1>1, AboutIsMessage, KindsOfFew
    <2> QED
        BY <2>1, KindsOfFew DEF Replies
<1>3. /\ requests' = [requests EXCEPT ![c] = @ \o new]
      /\ events' = [events EXCEPT ![c] = Tail(@)]
      /\ knows' \in [Clients -> [Screens -> Nat]]
      /\ UNCHANGED <<lockVars, starts, global, phase, told, check>>
    <2>1. knows' \in [Clients -> [Screens -> Nat]]
        <3> HIDE DEF e
        <3> QED
            BY <1>1 DEF ScreenEvent, WireInv, WireTypeInv, e
    <2> QED
        BY <2>1 DEF ScreenEvent, Say
<1> HIDE DEF e, new
<1>4. /\ requests'[c] = requests[c] \o new /\ requests'[c] \in Seq(Message)
      /\ Kinds(requests'[c]) = Kinds(requests[c]) \cup Kinds(new)
      /\ Once(requests'[c], "lock")
    <2>1. requests[c] \in Seq(Message) /\ Once(requests[c], "lock") /\ requests'[c] = requests[c] \o new
        BY <1>3 DEF WireInv, WireTypeInv, Fit
    <2> QED
        BY <1>2, <2>1, KindsOfConcat
<1>5. WireTypeInv'
    BY <1>1, <1>3, <1>4 DEF WireInv, WireTypeInv
<1>6. events'[c] = Tail(events[c]) /\ c \notin starts
    BY <1>1, <1>3 DEF WireInv, WireTypeInv, Fit, Runs
<1>7. Fit(c)'
    BY <1>1, <1>2, <1>3, <1>4, <1>6, StaysFit DEF WireInv, Holds, lockVars
<1>8. ASSUME NEW d \in Clients, d # c PROVE Fit(d)'
    BY <1>3, <1>8, OthersStayFit DEF WireInv, WireTypeInv, Holds, lockVars
<1> QED
    BY <1>5, <1>7, <1>8 DEF WireInv

LEMMA StartCheckFits ==
    ASSUME WireInv, NEW c \in Clients, StartCheck(c) PROVE WireInv'
<1>1. WireTypeInv'
    BY DEF StartCheck, WireInv, WireTypeInv
<1>2. Fit(c)'
    BY DEF StartCheck, HasKeyboard, WireInv, WireTypeInv, Fit, Runs, Holds, lockVars
<1>3. ASSUME NEW d \in Clients, d # c PROVE Fit(d)'
    BY <1>3, OthersStayFit DEF StartCheck, WireInv, WireTypeInv, Holds, lockVars
<1> QED
    BY <1>1, <1>2, <1>3 DEF WireInv

\* The answer is for the lock screen that still waits for it.
LEMMA CheckEndsFits ==
    ASSUME WireInv, NEW c \in Clients, CheckEnds(c) PROVE WireInv' /\ phase[c] = "locked"
<1>1. WireTypeInv'
    BY DEF CheckEnds, WireInv, WireTypeInv
<1>2. phase[c] = "locked"
    BY LockingAssumption DEF CheckEnds, WireInv, Fit
<1>3. Fit(c)'
    BY <1>2 DEF CheckEnds, WireInv, WireTypeInv, Fit, Runs, Holds, lockVars
<1>4. ASSUME NEW d \in Clients, d # c PROVE Fit(d)'
    BY <1>4, OthersStayFit DEF CheckEnds, WireInv, WireTypeInv, Holds, lockVars
<1> QED
    BY <1>1, <1>2, <1>3, <1>4 DEF WireInv

LEMMA FinishCheckFits ==
    ASSUME WireInv, NEW c \in Clients, FinishCheck(c) PROVE WireInv'
<1>1. [is |-> "unlock"] \in Message /\ [is |-> "unlock"].is = "unlock"
    BY DEF Message
<1> DEFINE new == <<[is |-> "unlock"]>>
           all == requests[c] \o new
<1>2. new \in Seq(Message) /\ Kinds(new) = {"unlock"}
    BY <1>1, KindsOfFew
<1>3. requests[c] \in Seq(Message) /\ Once(requests[c], "lock")
    BY DEF WireInv, WireTypeInv, Fit
<1>4. all \in Seq(Message) /\ Kinds(all) = Kinds(requests[c]) \cup {"unlock"} /\ Once(all, "lock")
    <2> HIDE DEF new
    <2> QED
        BY <1>2, <1>3, KindsOfConcat
<1>5. WireTypeInv'
    <2>1. phase' \in [Clients -> {"none", "asked", "locked", "unlocking", "ended", "crashed"}]
        BY DEF FinishCheck, WireInv, WireTypeInv
    <2>2. check' \in [Clients -> Passwords \cup {"none", "y", "n"}]
        BY DEF FinishCheck, WireInv, WireTypeInv
    <2>3. requests' = requests \/ requests' = [requests EXCEPT ![c] = all]
        BY DEF FinishCheck, Say
    <2>4. requests' \in [Clients -> Seq(Message)]
        <3> HIDE DEF all
        <3> QED
            BY <1>4, <2>3 DEF WireInv, WireTypeInv
    <2> QED
        BY <2>1, <2>2, <2>4 DEF FinishCheck, WireInv, WireTypeInv
<1>6. Fit(c)'
    <2>1. CASE check[c] = "y"
        <3>1. requests'[c] = all /\ phase'[c] = "unlocking" /\ check'[c] = "y" /\ events'[c] = events[c]
                /\ told'[c] = told[c] /\ starts' = starts /\ phase[c] = "locked"
            BY <2>1 DEF FinishCheck, Say, WireInv, WireTypeInv
        <3> HIDE DEF all
        <3> QED
            BY <1>4, <3>1 DEF WireInv, Fit, Runs
    <2>2. CASE check[c] # "y"
        BY <2>2 DEF FinishCheck, WireInv, WireTypeInv, Fit, Runs, Holds, lockVars
    <2> QED
        BY <2>1, <2>2
<1>7. ASSUME NEW d \in Clients, d # c PROVE Fit(d)'
    BY <1>7, OthersStayFit DEF FinishCheck, Say, WireInv, WireTypeInv, Holds, lockVars
<1> QED
    BY <1>5, <1>6, <1>7 DEF WireInv

-----------------------------------------------------------------------------
\* What the compositor reads, Tail, and that others still wait for theirs.
LEMMA ReadFits ==
    ASSUME WireInv, NEW c \in Clients, requests[c] # << >>, Read(c)
    PROVE  /\ requests' \in [Clients -> Seq(Message)]
           /\ requests'[c] = Tail(requests[c]) /\ Kinds(requests'[c]) \subseteq Kinds(requests[c])
           /\ Once(requests'[c], "lock")
           /\ Head(requests[c]).is = "lock" => "lock" \notin Kinds(requests'[c])
           /\ \A d \in Clients : d # c => requests'[d] = requests[d]
           /\ c \notin starts
<1>1. requests'[c] = Tail(requests[c]) /\ \A d \in Clients : d # c => requests'[d] = requests[d]
    BY DEF Read, WireInv, WireTypeInv
<1>2. requests' \in [Clients -> Seq(Message)]
    BY HeadIsAsked DEF Read, WireInv, WireTypeInv
<1> QED
    BY <1>1, <1>2, HeadIsAsked DEF WireInv, Fit

\* A message for a lock screen, if it is still there.
LEMMA AnswerFits ==
    ASSUME WireInv, NEW c \in Clients, NEW m \in Message, Answer(c, <<m>>)
    PROVE  /\ events' \in [Clients -> Seq(Message)]
           /\ Kinds(events'[c]) \subseteq Kinds(events[c]) \cup {m.is}
           /\ Kinds(events'[c]) # {} => Runs(c)
           /\ m.is \notin Kinds(events[c]) \/ m.is # "locked" => Once(events'[c], "locked")
           /\ \A d \in Clients : d # c => events'[d] = events[d]
<1> DEFINE new == <<m>>
           all == events[c] \o new
<1>1. new \in Seq(Message) /\ Kinds(new) = {m.is} /\ \A k : Once(new, k)
    BY KindsOfFew
<1>2. events[c] \in Seq(Message) /\ Once(events[c], "locked") /\ (Kinds(events[c]) # {} => Runs(c))
    BY DEF WireInv, WireTypeInv, Fit
<1> HIDE DEF new
<1>3. /\ all \in Seq(Message) /\ Kinds(all) = Kinds(events[c]) \cup {m.is}
      /\ m.is \notin Kinds(events[c]) \/ m.is # "locked" => Once(all, "locked")
    BY <1>1, <1>2, KindsOfConcat
<1>4. events' = [events EXCEPT ![c] = IF Runs(c) THEN all ELSE @]
    BY DEF Answer, new
<1> HIDE DEF all
<1> QED
    BY <1>2, <1>3, <1>4 DEF WireInv, WireTypeInv

LEMMA HandleLockFits ==
    ASSUME WireInv, NEW c \in Clients, HandleLock(c) PROVE WireInv'
<1>1. /\ requests[c] # << >> /\ Head(requests[c]).is = "lock" /\ Read(c)
      /\ phase[c] = "asked" /\ "locked" \notin Kinds(events[c]) /\ Runs(c)
      /\ UNCHANGED <<starts, global, clientVars>>
    BY HeadIsAsked DEF HandleLock, Reads, WireInv, Fit, Runs
<1>2. [is |-> "locked"] \in Message /\ [is |-> "finished"] \in Message
        /\ [is |-> "locked"].is = "locked" /\ [is |-> "finished"].is = "finished"
    BY DEF Message
<1>3. c # Nobody
    BY SessionLockAssumption
<1>4. CASE Free /\ Take(c) /\ Answer(c, <<[is |-> "locked"]>>)
    <2>1. WireTypeInv'
        BY <1>1, <1>2, <1>4, ReadFits, AnswerFits DEF WireInv, WireTypeInv, clientVars
    <2>2. Holds(c)' /\ lock' = c
        BY <1>4 DEF Take, Holds
    <2>3. Fit(c)'
        BY <1>1, <1>2, <1>4, <2>2, ReadFits, AnswerFits DEF WireInv, Fit, Runs, clientVars
    <2>4. ASSUME NEW d \in Clients, d # c PROVE Fit(d)'
        <3>1. ~Holds(d)
            BY <1>4, SessionLockAssumption DEF Free, Holds
        <3> QED
            BY <1>1, <1>2, <1>4, <2>4, <3>1, ReadFits, AnswerFits, OthersStayFit DEF WireInv, clientVars
    <2> QED
        BY <2>1, <2>3, <2>4 DEF WireInv
<1>5. CASE UNCHANGED lockVars /\ Answer(c, <<[is |-> "finished"]>>)
    <2>1. WireTypeInv'
        BY <1>1, <1>2, <1>5, ReadFits, AnswerFits DEF WireInv, WireTypeInv, clientVars
    <2>2. Fit(c)'
        BY <1>1, <1>2, <1>5, ReadFits, AnswerFits DEF WireInv, Fit, Runs, Holds, clientVars, lockVars
    <2>3. ASSUME NEW d \in Clients, d # c PROVE Fit(d)'
        BY <1>1, <1>2, <1>5, <2>3, ReadFits, AnswerFits, OthersStayFit DEF WireInv, Holds, clientVars, lockVars
    <2> QED
        BY <2>1, <2>2, <2>3 DEF WireInv
<1> QED
    BY <1>4, <1>5 DEF HandleLock

LEMMA HandleScreenFits ==
    ASSUME WireInv, NEW c \in Clients, NEW s \in Screens,
           HandleSurface(c, s) \/ HandleCommit(c, s) \/ HandleDestroy(c, s)
    PROVE  WireInv' /\ UNCHANGED <<lock, abandoned, starts, clientVars>>
<1>1. /\ requests[c] # << >> /\ Read(c) /\ UNCHANGED <<starts, global, clientVars>>
      /\ UNCHANGED <<lock, abandoned>>
    BY DEF HandleSurface, HandleCommit, HandleDestroy, ReadsAbout, Reads, NewSurface, MapSurface,
       DestroySurface, lockVars
<1>2. /\ events' \in [Clients -> Seq(Message)]
      /\ Kinds(events'[c]) \subseteq Kinds(events[c]) \cup {"configure"}
      /\ Kinds(events'[c]) # {} => Runs(c)
      /\ Once(events'[c], "locked")
      /\ \A d \in Clients : d # c => events'[d] = events[d]
    <2>1. CASE UNCHANGED events
        BY <2>1 DEF WireInv, WireTypeInv, Fit
    <2>2. CASE HandleSurface(c, s) /\ events' # events
        <3> DEFINE g == Head(requests[c]).global
        <3>1. Answer(c, <<About("configure", s, g)>>) /\ g = global[s]
            BY <2>2 DEF HandleSurface, IsLive
        <3>2. About("configure", s, g) \in Message /\ About("configure", s, g).is = "configure"
            BY <3>1, AboutIsMessage DEF WireInv, WireTypeInv
        <3> QED
            BY <3>1, <3>2, AnswerFits
    <2> QED
        BY <2>1, <2>2 DEF HandleCommit, HandleDestroy
<1>3. WireTypeInv'
    BY <1>1, <1>2, ReadFits DEF WireInv, WireTypeInv, clientVars
<1>4. Fit(c)'
    BY <1>1, <1>2, ReadFits, StaysFit DEF WireInv, Holds, clientVars
<1>5. ASSUME NEW d \in Clients, d # c PROVE Fit(d)'
    BY <1>1, <1>2, <1>5, ReadFits, OthersStayFit DEF WireInv, Holds, clientVars
<1> QED
    BY <1>1, <1>3, <1>4, <1>5 DEF WireInv

LEMMA HandleEndFits ==
    ASSUME WireInv, NEW c \in Clients, HandleUnlock(c) \/ HandleHangup(c)
    PROVE  WireInv' /\ (HandleUnlock(c) => check[c] = "y") /\ phase[c] # "locked"
<1>1. /\ requests[c] # << >> /\ Read(c) /\ UNCHANGED <<starts, global, clientVars, events>>
      /\ phase[c] \in {"unlocking", "ended", "crashed"} /\ (HandleUnlock(c) => check[c] = "y")
    BY HeadIsAsked DEF HandleUnlock, HandleHangup, Reads, WireInv, Fit
<1>2. WireTypeInv'
    BY <1>1, ReadFits DEF WireInv, WireTypeInv, clientVars
<1>3. Fit(c)'
    BY <1>1, ReadFits DEF WireInv, Fit, Runs, clientVars
<1>4. ASSUME NEW d \in Clients, d # c PROVE Fit(d)'
    <2>1. Holds(d) => Holds(d)'
        BY <1>4 DEF HandleUnlock, HandleHangup, Unlock, Abandon, Holds, lockVars
    <2> QED
        BY <1>1, <1>4, <2>1, ReadFits, OthersStayFit DEF WireInv, clientVars
<1> QED
    BY <1>1, <1>2, <1>3, <1>4 DEF WireInv

LEMMA ChangeFits ==
    ASSUME WireInv, NEW s \in Screens, Change(s) \/ Freed(s)
    PROVE  WireInv' /\ UNCHANGED <<lock, abandoned, clientVars>>
<1>1. UNCHANGED <<lock, abandoned, starts, clientVars, requests>>
    BY DEF Change, Freed, Plug, Enable, Disable, Unplug, FreeScreen
<1>2. global' \in [Screens -> Nat]
    BY DEF Change, Freed, WireInv, WireTypeInv
<1>3. \/ UNCHANGED events
      \/ \E is \in {"global", "remove"} : Tell(s, is)
    BY DEF Change, Freed
<1>4. ASSUME NEW c \in Clients
      PROVE  /\ events'[c] \in Seq(Message) /\ Once(events'[c], "locked")
             /\ Kinds(events'[c]) \subseteq Kinds(events[c]) \cup {"global", "remove"}
             /\ Kinds(events'[c]) # {} => Runs(c)
    <2>1. CASE events'[c] = events[c]
        BY <2>1 DEF WireInv, WireTypeInv, Fit
    <2>2. ASSUME NEW is \in {"global", "remove"}, Tell(s, is), Runs(c)
          PROVE  /\ events'[c] \in Seq(Message) /\ Once(events'[c], "locked")
                 /\ Kinds(events'[c]) \subseteq Kinds(events[c]) \cup {"global", "remove"}
        <3> DEFINE m == About(is, s, global'[s])
                   new == <<m>>
        <3>1. m \in Message /\ m.is = is
            BY <1>2, AboutIsMessage
        <3>2. new \in Seq(Message) /\ Kinds(new) = {is}
            BY <3>1, KindsOfFew
        <3>3. events[c] \in Seq(Message) /\ Once(events[c], "locked")
            BY DEF WireInv, WireTypeInv, Fit
        <3>4. events'[c] = events[c] \o new
            <4>1. events'[c] = Append(events[c], m)
                BY <2>2 DEF Tell
            <4> HIDE DEF m
            <4> QED
                BY <3>1, <3>3, <4>1
        <3> HIDE DEF new
        <3> QED
            BY <3>2, <3>3, <3>4, KindsOfConcat
    <2> QED
        BY <1>3, <2>1, <2>2 DEF Tell
<1>5. WireTypeInv'
    <2>1. DOMAIN events' = Clients /\ events' = [c \in Clients |-> events'[c]]
        BY <1>3 DEF Tell, WireInv, WireTypeInv
    <2>2. events' \in [Clients -> Seq(Message)]
        BY <1>4, <2>1
    <2> QED
        BY <1>1, <1>2, <2>2 DEF WireInv, WireTypeInv, clientVars
<1>6. ASSUME NEW c \in Clients PROVE Fit(c)'
    BY <1>1, <1>4, StaysFit DEF WireInv, Fit, Holds, clientVars
<1> QED
    BY <1>1, <1>5, <1>6 DEF WireInv

-----------------------------------------------------------------------------
LEMMA WireStep == ASSUME WireInv, [Next]_vars PROVE WireInv'
<1>1. ASSUME NEW c \in Clients, Start(c) \/ StartCheck(c) \/ CheckEnds(c) PROVE WireInv'
    BY <1>1, StartFits, StartCheckFits, CheckEndsFits
<1>2. ASSUME NEW c \in Clients, Crash(c) PROVE WireInv'
    BY <1>2, EndsFits DEF Crash
<1>3. ASSUME NEW c \in Clients, Handle(c) PROVE WireInv'
    BY <1>3, HandleLockFits, HandleEndFits, HandleScreenFits DEF Handle
<1>4. ASSUME NEW c \in Clients, Dispatch(c) PROVE WireInv'
    <2>1. CASE Locks(c) \/ ScreenEvent(c) \/ FinishCheck(c)
        BY <2>1, LocksFits, ScreenEventFits, FinishCheckFits
    <2>2. CASE Refused(c)
        <3>1. Runs(c)
            BY <2>2, HeadIsOf DEF Refused, WireInv, Fit
        <3> QED
            BY <2>2, <3>1, EndsFits DEF Refused
    <2>3. CASE Leave(c)
        BY <2>3, EndsFits DEF Leave, Runs
    <2> QED
        BY <1>4, <2>1, <2>2, <2>3 DEF Dispatch
<1>5. ASSUME NEW s \in Screens, Change(s) \/ Freed(s) PROVE WireInv'
    BY <1>5, ChangeFits
<1>6. CASE UNCHANGED vars
    <2>1. WireTypeInv'
        BY <1>6 DEF vars, lockVars, clientVars, WireInv, WireTypeInv
    <2>2. ASSUME NEW c \in Clients PROVE Fit(c)'
        BY <1>6, OthersStayFit DEF vars, lockVars, clientVars, WireInv, Holds
    <2> QED
        BY <2>1, <2>2 DEF WireInv
<1> QED
    BY <1>1, <1>2, <1>3, <1>4, <1>5, <1>6 DEF Next

THEOREM WireInvariant == Spec => []WireInv
<1> QED
    BY WireInit, WireStep, PTL DEF Spec

\* The refinement: every step is one of Locked or changes nothing it can see.
Proved == {c \in Clients : check[c] = "y"}
Holder == IF abandoned THEN Nobody ELSE lock
LockedVars == <<lock # Nobody, Holder, Proved>>

\* A lock screen that ends forgets the right password.
LEMMA EndForgets ==
    ASSUME WireInv, NEW c \in Clients, NEW how, Ends(c, how), UNCHANGED lockVars
    PROVE  L!Forget(c)
<1>1. Proved' = Proved \ {c}
    BY DEF Ends, Proved, WireInv, WireTypeInv
<1> QED
    BY <1>1 DEF L!Forget, lockVars, Proved

LEMMA LockedStep ==
    ASSUME WireInv, [Next]_vars PROVE [L!Next]_LockedVars
<1>1. ASSUME UNCHANGED <<lock, abandoned, check>> PROVE UNCHANGED LockedVars
    BY <1>1 DEF LockedVars, Holder, Proved
<1>2. ASSUME NEW c \in Clients, Start(c) \/ Locks(c) \/ ScreenEvent(c) PROVE UNCHANGED LockedVars
    BY <1>1, <1>2 DEF Start, Locks, ScreenEvent, lockVars
<1>3. ASSUME NEW c \in Clients, StartCheck(c) \/ FinishCheck(c) PROVE UNCHANGED LockedVars
    <2>1. Proved' = Proved
        BY <1>3, LockingAssumption DEF StartCheck, FinishCheck, Proved, WireInv, WireTypeInv
    <2> QED
        BY <1>3, <2>1 DEF StartCheck, FinishCheck, lockVars, LockedVars, Holder
<1>4. ASSUME NEW c \in Clients, CheckEnds(c) PROVE L!Next \/ UNCHANGED LockedVars
    <2>1. Holds(c) /\ c # Nobody /\ UNCHANGED lockVars
        BY <1>4, CheckEndsFits, SessionLockAssumption DEF WireInv, Fit, CheckEnds
    <2>2. CASE check'[c] = "y"
        <3>1. Proved' = Proved \cup {c}
            BY <1>4, <2>2 DEF CheckEnds, Proved, WireInv, WireTypeInv
        <3>2. L!SignIn(c)
            BY <2>1, <3>1 DEF L!SignIn, Holds, lockVars, Proved
        <3> QED
            BY <3>2 DEF L!Next
    <2>3. CASE check'[c] # "y"
        <3>1. Proved' = Proved
            BY <1>4, <2>3, LockingAssumption DEF CheckEnds, Proved, WireInv, WireTypeInv
        <3> QED
            BY <2>1, <3>1 DEF LockedVars, Holder, lockVars
    <2> QED
        BY <2>2, <2>3
<1>5. ASSUME NEW c \in Clients, Crash(c) \/ Refused(c) \/ Leave(c) PROVE L!Next
    BY <1>5, EndForgets DEF Crash, Refused, Leave, L!Next
<1>6. ASSUME NEW c \in Clients, HandleLock(c) PROVE L!Next \/ UNCHANGED LockedVars
    <2>1. UNCHANGED check /\ Proved' = Proved
        BY <1>6 DEF HandleLock, clientVars, Proved
    <2>2. CASE Take(c) /\ Free
        <3>1. L!Take(c)
            BY <2>1, <2>2, SessionLockAssumption DEF Take, Free, L!Take, Proved
        <3> QED
            BY <3>1 DEF L!Next
    <2>3. CASE UNCHANGED lockVars
        BY <1>1, <2>1, <2>3 DEF lockVars
    <2> QED
        BY <1>6, <2>2, <2>3 DEF HandleLock
<1>7. ASSUME NEW c \in Clients, HandleUnlock(c) PROVE L!Next \/ UNCHANGED LockedVars
    <2>1. UNCHANGED check /\ Proved' = Proved /\ c \in Proved
        BY <1>7, HandleEndFits DEF HandleUnlock, clientVars, Proved
    <2>2. CASE lock = c /\ ~abandoned /\ Unlock(c)
        <3>1. L!Unlock(c)
            BY <2>1, <2>2, SessionLockAssumption DEF Unlock, L!Unlock, Proved
        <3> QED
            BY <3>1 DEF L!Next
    <2>3. CASE UNCHANGED lockVars
        BY <1>1, <2>1, <2>3 DEF lockVars
    <2> QED
        BY <1>7, <2>2, <2>3 DEF HandleUnlock
<1>8. ASSUME NEW c \in Clients, HandleHangup(c) PROVE L!Next \/ UNCHANGED LockedVars
    <2>1. UNCHANGED check /\ Proved' = Proved
        BY <1>8 DEF HandleHangup, clientVars, Proved
    <2>2. CASE lock = c /\ ~abandoned /\ Abandon(c)
        <3>1. L!Die(c)
            BY <2>1, <2>2, SessionLockAssumption DEF Abandon, L!Die, Proved
        <3> QED
            BY <3>1 DEF L!Next
    <2>3. CASE UNCHANGED lockVars
        BY <1>1, <2>1, <2>3 DEF lockVars
    <2> QED
        BY <1>8, <2>2, <2>3 DEF HandleHangup
<1>9. ASSUME NEW c \in Clients, NEW s \in Screens,
             HandleSurface(c, s) \/ HandleCommit(c, s) \/ HandleDestroy(c, s)
      PROVE  UNCHANGED LockedVars
    BY <1>1, <1>9, HandleScreenFits DEF clientVars
<1>10. ASSUME NEW s \in Screens, Change(s) \/ Freed(s) PROVE UNCHANGED LockedVars
    BY <1>1, <1>10, ChangeFits DEF clientVars
<1>11. CASE UNCHANGED vars
    BY <1>1, <1>11 DEF vars, lockVars, clientVars
<1> QED
    BY <1>2, <1>3, <1>4, <1>5, <1>6, <1>7, <1>8, <1>9, <1>10, <1>11 DEF Next, Handle, Dispatch

\* The session stays locked, whoever dies and however late messages are, until
\* the lock screen that holds it has seen the right password.
THEOREM StaysLocked == Spec => ImplementsLocked
<1>1. Init => L!Init
    <2> SUFFICES ASSUME Init PROVE L!Init
        OBVIOUS
    <2>1. Proved = {}
        BY DEF Init, Proved
    <2> QED
        BY <2>1 DEF Init, LockInit, L!Init, Proved
<1>2. WireInv /\ [Next]_vars => [L!Next]_LockedVars
    BY LockedStep
<1> QED
    BY <1>1, <1>2, WireInvariant, PTL DEF Spec, ImplementsLocked, L!Spec, LockedVars, Holder, Proved

\* What the parent of tilewin-lock -f returns is true: it says locked only when
\* this lock screen has the session, and one it has given up never takes it.
THEOREM ReturnsTheTruth == Spec => ReturnsOnceLocked
<1> DEFINE A == \A c \in Clients :
                  /\ told[c] # "locked" /\ told'[c] = "locked" => lock = c /\ ~abandoned
                  /\ told[c] = "failed" => ~(lock' = c /\ lock # c)
<1>1. ASSUME WireInv, [Next]_vars PROVE [A]_vars
    <2> SUFFICES ASSUME Next, NEW c \in Clients
                 PROVE  /\ told[c] # "locked" /\ told'[c] = "locked" => lock = c /\ ~abandoned
                        /\ told[c] = "failed" => ~(lock' = c /\ lock # c)
        BY <1>1
    <2>1. ASSUME told[c] # "locked", told'[c] = "locked" PROVE lock = c /\ ~abandoned
        <3>1. \A d \in Clients : \A how : Ends(d, how) => ~(told'[c] = "locked")
            BY <1>1, <2>1 DEF Ends, WireInv, WireTypeInv
        <3>2. \A d \in Clients : Locks(d) => d = c
            BY <1>1, <2>1 DEF Locks, WireInv, WireTypeInv
        <3>3. Locks(c)
            BY <2>1, <3>1, <3>2 DEF Next, Handle, Dispatch, Start, Crash, StartCheck, CheckEnds, HandleLock,
               HandleUnlock, HandleHangup, HandleSurface, HandleCommit, HandleDestroy, Refused, ScreenEvent,
               FinishCheck, Leave, Change, Freed, clientVars
        <3> QED
            BY <1>1, <3>3, HeadIsOf DEF Locks, WireInv, Fit, Holds
    <2>2. ASSUME told[c] = "failed", lock' = c, lock # c PROVE FALSE
        <3>1. c # Nobody
            BY SessionLockAssumption
        <3>2. ~HandleLock(c)
            BY <1>1, <2>2, HeadIsAsked DEF HandleLock, Reads, WireInv, Fit
        <3>3. \A d \in Clients : HandleLock(d) => d = c
            BY <2>2 DEF HandleLock, Take, lockVars
        <3>4. ASSUME NEW d \in Clients, Start(d) \/ Crash(d) \/ StartCheck(d) \/ CheckEnds(d) \/ Dispatch(d)
              PROVE  UNCHANGED lock
            BY <3>4 DEF Start, Crash, StartCheck, CheckEnds, Dispatch, Locks, Refused, ScreenEvent, FinishCheck,
               Leave, lockVars
        <3>5. ASSUME NEW d \in Clients, HandleUnlock(d) \/ HandleHangup(d) PROVE lock' \in {lock, Nobody}
            BY <3>5 DEF HandleUnlock, HandleHangup, Unlock, Abandon, lockVars
        <3>6. ASSUME NEW d \in Clients, NEW s \in Screens,
                     HandleSurface(d, s) \/ HandleCommit(d, s) \/ HandleDestroy(d, s)
              PROVE  UNCHANGED lock
            BY <3>6 DEF HandleSurface, HandleCommit, HandleDestroy, NewSurface, MapSurface, DestroySurface, lockVars
        <3>7. ASSUME NEW s \in Screens, Change(s) \/ Freed(s) PROVE UNCHANGED lock
            BY <3>7 DEF Change, Freed, Plug, Enable, Disable, Unplug, FreeScreen
        <3> QED
            BY <1>1, <2>2, <3>1, <3>2, <3>3, <3>4, <3>5, <3>6, <3>7 DEF Next, Handle
    <2> QED
        BY <2>1, <2>2
<1> QED
    BY <1>1, WireInvariant, PTL DEF Spec, ReturnsOnceLocked
-----------------------------------------------------------------------------
(****************************************************************************)
(* Surfaces are asked for where none is.  The lock screen answers what it   *)
(* hears of a screen in the order it hears it, so that between two requests *)
(* for a surface on one screen it destroys the first, and an older surface  *)
(* is destroyed before it asks for a new one.                               *)
(****************************************************************************)
Of(m, k, s) == m.is = k /\ m.of = s

Gone(m, s, g) == Of(m, "remove", s) /\ m.global = g

\* What was sent to the compositor and not read: q, of the screen s.
AsksApart(q, s) ==
    \A i, j \in 1..Len(q) :
        i < j /\ Of(q[i], "surface", s) /\ Of(q[j], "surface", s)
        => \E k \in 1..Len(q) : i < k /\ k < j /\ Of(q[k], "destroy", s)

DestroysFirst(q, s) ==
    \A j \in 1..Len(q) :
        Of(q[j], "surface", s) => \E k \in 1..Len(q) : k < j /\ Of(q[k], "destroy", s)

DestroysLast(q, s) ==
    \A i \in 1..Len(q) :
        Of(q[i], "surface", s) => \E k \in 1..Len(q) : i < k /\ Of(q[k], "destroy", s)

Destroys(q, s) == \E k \in 1..Len(q) : Of(q[k], "destroy", s)

\* What was sent to the lock screen and not read: q, of the screen s.
GlobalsApart(q, s) ==
    \A i, j \in 1..Len(q) :
        i < j /\ Of(q[i], "global", s) /\ Of(q[j], "global", s)
        => \E k \in 1..Len(q) : i < k /\ k < j /\ Gone(q[k], s, q[i].global)

GlobalsAfter(q, s, g) ==
    \A j \in 1..Len(q) :
        Of(q[j], "global", s) => \E k \in 1..Len(q) : k < j /\ Gone(q[k], s, g)

Removes(q, s, g) == \E k \in 1..Len(q) : Gone(q[k], s, g)

\* The global of s that there is, if it has one.
There(s) == {g \in {global[s]} : output[s] = "on"}

GlobalsThere(q, s, there) ==
    \A i \in 1..Len(q) :
        Of(q[i], "global", s) =>
            /\ q[i].global # 0
            /\ q[i].global \in there
               \/ \E k \in 1..Len(q) : i < k /\ Gone(q[k], s, q[i].global)

Shows(c, s) == Holds(c) /\ surface[s] # "none"

AsksInTurn(c, s) ==
    /\ AsksApart(requests[c], s)
    /\ Shows(c, s) => DestroysFirst(requests[c], s)
    /\ Runs(c) /\ knows[c][s] = 0 =>
         /\ DestroysLast(requests[c], s)
         /\ Shows(c, s) => Destroys(requests[c], s)

HearsInTurn(c, s) ==
    /\ GlobalsApart(events[c], s)
    /\ GlobalsThere(events[c], s, There(s))
    /\ knows[c][s] # 0 =>
         /\ GlobalsAfter(events[c], s, knows[c][s])
         /\ knows[c][s] \in There(s) \/ Removes(events[c], s, knows[c][s])

Turns ==
    /\ starts \subseteq Clients /\ \A c \in starts : ~Holds(c)
    /\ \A s \in Screens : output[s] = "on" => global[s] # 0
    /\ \A c \in Clients, s \in Screens : ~Runs(c) => knows[c][s] = 0
    /\ \A c \in Clients, s \in Screens : AsksInTurn(c, s) /\ HearsInTurn(c, s)

\* Reading the first message of a queue.
LEMMA AsksOfTail ==
    ASSUME NEW S, NEW q \in Seq(S), q # << >>, NEW s
    PROVE  LET t == Tail(q) IN
           /\ AsksApart(q, s) => AsksApart(t, s)
           /\ DestroysLast(q, s) => DestroysLast(t, s)
           /\ DestroysFirst(q, s) => ~Of(Head(q), "surface", s)
           /\ DestroysFirst(q, s) /\ ~Of(Head(q), "destroy", s) => DestroysFirst(t, s)
           /\ Destroys(q, s) /\ ~Of(Head(q), "destroy", s) => Destroys(t, s)
           /\ AsksApart(q, s) /\ Of(Head(q), "surface", s) => DestroysFirst(t, s)
           /\ DestroysLast(q, s) /\ Of(Head(q), "surface", s) => Destroys(t, s)
<1> DEFINE t == Tail(q)
<1>1. /\ t \in Seq(S) /\ Len(q) \in Nat /\ Len(q) > 0 /\ Len(t) = Len(q) - 1
      /\ Head(q) = q[1] /\ 1 \in 1..Len(q)
    OBVIOUS
<1>2. \A i \in 1..Len(t) : t[i] = q[i + 1] /\ i + 1 \in 1..Len(q) /\ 1 < i + 1
    BY <1>1
<1>3. \A k \in 1..Len(q) : 1 < k => k - 1 \in 1..Len(t) /\ t[k - 1] = q[k]
    BY <1>1, <1>2
<1> HIDE DEF t
<1>4. ASSUME AsksApart(q, s) PROVE AsksApart(t, s)
    <2> SUFFICES ASSUME NEW i \in 1..Len(t), NEW j \in 1..Len(t), i < j,
                        Of(t[i], "surface", s), Of(t[j], "surface", s)
                 PROVE  \E k \in 1..Len(t) : i < k /\ k < j /\ Of(t[k], "destroy", s)
        BY DEF AsksApart
    <2>1. PICK k \in 1..Len(q) : i + 1 < k /\ k < j + 1 /\ Of(q[k], "destroy", s)
        BY <1>2, <1>4 DEF AsksApart
    <2>2. k - 1 \in 1..Len(t) /\ t[k - 1] = q[k] /\ i < k - 1 /\ k - 1 < j
        BY <1>3, <2>1
    <2> QED
        BY <2>1, <2>2
<1>5. ASSUME DestroysLast(q, s) PROVE DestroysLast(t, s)
    <2> SUFFICES ASSUME NEW i \in 1..Len(t), Of(t[i], "surface", s)
                 PROVE  \E k \in 1..Len(t) : i < k /\ Of(t[k], "destroy", s)
        BY DEF DestroysLast
    <2>1. PICK k \in 1..Len(q) : i + 1 < k /\ Of(q[k], "destroy", s)
        BY <1>2, <1>5 DEF DestroysLast
    <2>2. k - 1 \in 1..Len(t) /\ t[k - 1] = q[k] /\ i < k - 1
        BY <1>3, <2>1
    <2> QED
        BY <2>1, <2>2
<1>6. ASSUME DestroysFirst(q, s) PROVE ~Of(Head(q), "surface", s)
    BY <1>1, <1>6 DEF DestroysFirst
<1>7. ASSUME DestroysFirst(q, s), ~Of(Head(q), "destroy", s) PROVE DestroysFirst(t, s)
    <2> SUFFICES ASSUME NEW j \in 1..Len(t), Of(t[j], "surface", s)
                 PROVE  \E k \in 1..Len(t) : k < j /\ Of(t[k], "destroy", s)
        BY DEF DestroysFirst
    <2>1. PICK k \in 1..Len(q) : k < j + 1 /\ Of(q[k], "destroy", s)
        BY <1>2, <1>7 DEF DestroysFirst
    <2>2. 1 < k
        BY <1>1, <1>7, <2>1
    <2>3. k - 1 \in 1..Len(t) /\ t[k - 1] = q[k] /\ k - 1 < j
        BY <1>3, <2>1, <2>2
    <2> QED
        BY <2>1, <2>3
<1>8. ASSUME Destroys(q, s), ~Of(Head(q), "destroy", s) PROVE Destroys(t, s)
    BY <1>1, <1>3, <1>8 DEF Destroys
<1>9. ASSUME AsksApart(q, s), Of(Head(q), "surface", s) PROVE DestroysFirst(t, s)
    <2> SUFFICES ASSUME NEW j \in 1..Len(t), Of(t[j], "surface", s)
                 PROVE  \E k \in 1..Len(t) : k < j /\ Of(t[k], "destroy", s)
        BY DEF DestroysFirst
    <2>1. PICK k \in 1..Len(q) : 1 < k /\ k < j + 1 /\ Of(q[k], "destroy", s)
        BY <1>1, <1>2, <1>9 DEF AsksApart
    <2>2. k - 1 \in 1..Len(t) /\ t[k - 1] = q[k] /\ k - 1 < j
        BY <1>3, <2>1
    <2> QED
        BY <2>1, <2>2
<1>10. ASSUME DestroysLast(q, s), Of(Head(q), "surface", s) PROVE Destroys(t, s)
    BY <1>1, <1>3, <1>10 DEF Destroys, DestroysLast
<1> QED
    BY <1>4, <1>5, <1>6, <1>7, <1>8, <1>9, <1>10 DEF t

\* The same of what a lock screen is to hear; T is the global that there is.
LEMMA HearsOfTail ==
    ASSUME NEW S, NEW q \in Seq(S), q # << >>, NEW s, NEW T
    PROVE  LET t == Tail(q)
               m == Head(q)
           IN
           /\ GlobalsApart(q, s) => GlobalsApart(t, s)
           /\ GlobalsThere(q, s, T) => GlobalsThere(t, s, T)
           /\ \A g : GlobalsAfter(q, s, g) /\ ~Gone(m, s, g) => GlobalsAfter(t, s, g)
           /\ \A g : GlobalsAfter(q, s, g) => ~Of(m, "global", s)
           /\ \A g : Removes(q, s, g) /\ ~Gone(m, s, g) => Removes(t, s, g)
           /\ GlobalsApart(q, s) /\ Of(m, "global", s) => GlobalsAfter(t, s, m.global)
           /\ GlobalsThere(q, s, T) /\ Of(m, "global", s) =>
                m.global # 0 /\ (m.global \in T \/ Removes(t, s, m.global))
<1> DEFINE t == Tail(q)
<1>1. /\ t \in Seq(S) /\ Len(q) \in Nat /\ Len(q) > 0 /\ Len(t) = Len(q) - 1
      /\ Head(q) = q[1] /\ 1 \in 1..Len(q)
    OBVIOUS
<1>2. \A i \in 1..Len(t) : t[i] = q[i + 1] /\ i + 1 \in 1..Len(q) /\ 1 < i + 1
    BY <1>1
<1>3. \A k \in 1..Len(q) : 1 < k => k - 1 \in 1..Len(t) /\ t[k - 1] = q[k]
    BY <1>1, <1>2
<1> HIDE DEF t
<1>4. ASSUME GlobalsApart(q, s) PROVE GlobalsApart(t, s)
    <2> SUFFICES ASSUME NEW i \in 1..Len(t), NEW j \in 1..Len(t), i < j,
                        Of(t[i], "global", s), Of(t[j], "global", s)
                 PROVE  \E k \in 1..Len(t) : i < k /\ k < j /\ Gone(t[k], s, t[i].global)
        BY DEF GlobalsApart
    <2>1. /\ i + 1 \in 1..Len(q) /\ q[i + 1] = t[i] /\ j + 1 \in 1..Len(q) /\ q[j + 1] = t[j]
          /\ i + 1 < j + 1
        BY <1>2
    <2>2. PICK k \in 1..Len(q) : i + 1 < k /\ k < j + 1 /\ Gone(q[k], s, q[i + 1].global)
        BY <1>4, <2>1 DEF GlobalsApart
    <2>3. k - 1 \in 1..Len(t) /\ t[k - 1] = q[k] /\ i < k - 1 /\ k - 1 < j
        BY <1>3, <2>2
    <2> QED
        BY <2>1, <2>2, <2>3
<1>5. ASSUME GlobalsThere(q, s, T) PROVE GlobalsThere(t, s, T)
    <2> SUFFICES ASSUME NEW i \in 1..Len(t), Of(t[i], "global", s)
                 PROVE  /\ t[i].global # 0
                        /\ t[i].global \in T
                           \/ \E k \in 1..Len(t) : i < k /\ Gone(t[k], s, t[i].global)
        BY DEF GlobalsThere
    <2>1. /\ t[i].global # 0
          /\ t[i].global \in T
             \/ \E k \in 1..Len(q) : i + 1 < k /\ Gone(q[k], s, t[i].global)
        BY <1>2, <1>5 DEF GlobalsThere
    <2>2. ASSUME NEW k \in 1..Len(q), i + 1 < k, Gone(q[k], s, t[i].global)
          PROVE  \E l \in 1..Len(t) : i < l /\ Gone(t[l], s, t[i].global)
        <3>1. k - 1 \in 1..Len(t) /\ t[k - 1] = q[k] /\ i < k - 1
            BY <1>3, <2>2
        <3> QED
            BY <2>2, <3>1
    <2> QED
        BY <2>1, <2>2
<1>6. ASSUME NEW g, GlobalsAfter(q, s, g), ~Gone(Head(q), s, g) PROVE GlobalsAfter(t, s, g)
    <2> SUFFICES ASSUME NEW j \in 1..Len(t), Of(t[j], "global", s)
                 PROVE  \E k \in 1..Len(t) : k < j /\ Gone(t[k], s, g)
        BY DEF GlobalsAfter
    <2>1. PICK k \in 1..Len(q) : k < j + 1 /\ Gone(q[k], s, g)
        BY <1>2, <1>6 DEF GlobalsAfter
    <2>2. 1 < k
        BY <1>1, <1>6, <2>1
    <2>3. k - 1 \in 1..Len(t) /\ t[k - 1] = q[k] /\ k - 1 < j
        BY <1>3, <2>1, <2>2
    <2> QED
        BY <2>1, <2>3
<1>7. ASSUME NEW g, GlobalsAfter(q, s, g) PROVE ~Of(Head(q), "global", s)
    BY <1>1, <1>7 DEF GlobalsAfter
<1>8. ASSUME NEW g, Removes(q, s, g), ~Gone(Head(q), s, g) PROVE Removes(t, s, g)
    BY <1>1, <1>3, <1>8 DEF Removes
<1>9. ASSUME GlobalsApart(q, s), Of(Head(q), "global", s)
      PROVE  GlobalsAfter(t, s, Head(q).global)
    <2> SUFFICES ASSUME NEW j \in 1..Len(t), Of(t[j], "global", s)
                 PROVE  \E k \in 1..Len(t) : k < j /\ Gone(t[k], s, Head(q).global)
        BY DEF GlobalsAfter
    <2>1. PICK k \in 1..Len(q) : 1 < k /\ k < j + 1 /\ Gone(q[k], s, Head(q).global)
        BY <1>1, <1>2, <1>9 DEF GlobalsApart
    <2>2. k - 1 \in 1..Len(t) /\ t[k - 1] = q[k] /\ k - 1 < j
        BY <1>3, <2>1
    <2> QED
        BY <2>1, <2>2
<1>10. ASSUME GlobalsThere(q, s, T), Of(Head(q), "global", s)
       PROVE  Head(q).global # 0 /\ (Head(q).global \in T \/ Removes(t, s, Head(q).global))
    BY <1>1, <1>3, <1>10 DEF Removes, GlobalsThere
<1> QED
    BY <1>4, <1>5, <1>6, <1>7, <1>8, <1>9, <1>10 DEF t

\* One more message at the end of a queue.
Longer(q, r) == Len(r) = Len(q) + 1 /\ \A i \in 1..Len(q) : r[i] = q[i]

LEMMA AppendIsLonger ==
    ASSUME NEW S, NEW q \in Seq(S), NEW m \in S
    PROVE  /\ q \o <<m>> \in Seq(S) /\ Longer(q, q \o <<m>>) /\ (q \o <<m>>)[Len(q) + 1] = m
           /\ Append(q, m) \in Seq(S) /\ Longer(q, Append(q, m)) /\ Append(q, m)[Len(q) + 1] = m
    BY DEF Longer

LEMMA AsksOfLonger ==
    ASSUME NEW S, NEW q \in Seq(S), NEW r \in Seq(S), Longer(q, r), NEW s
    PROVE  LET m == r[Len(q) + 1] IN
           /\ AsksApart(q, s) /\ (~Of(m, "surface", s) \/ DestroysLast(q, s)) => AsksApart(r, s)
           /\ DestroysFirst(q, s) /\ (~Of(m, "surface", s) \/ Destroys(q, s)) => DestroysFirst(r, s)
           /\ DestroysLast(q, s) /\ ~Of(m, "surface", s) => DestroysLast(r, s)
           /\ Destroys(q, s) => Destroys(r, s)
           /\ m.is = "destroy" /\ m.of = s => DestroysLast(r, s) /\ Destroys(r, s)
<1> DEFINE n == Len(q) + 1
           m == r[n]
<1>1. /\ Len(q) \in Nat /\ n \in Nat /\ Len(r) = n
      /\ n \in 1..Len(r) /\ \A i \in 1..Len(q) : r[i] = q[i] /\ i \in 1..Len(r) /\ i < n
    BY DEF Longer
<1>2. \A i \in 1..Len(r) : i # n => i \in 1..Len(q)
    BY <1>1
<1> HIDE DEF n
<1>3. ASSUME AsksApart(q, s), ~Of(m, "surface", s) \/ DestroysLast(q, s) PROVE AsksApart(r, s)
    <2> SUFFICES ASSUME NEW i \in 1..Len(r), NEW j \in 1..Len(r), i < j,
                        Of(r[i], "surface", s), Of(r[j], "surface", s)
                 PROVE  \E k \in 1..Len(r) : i < k /\ k < j /\ Of(r[k], "destroy", s)
        BY DEF AsksApart
    <2>1. i \in 1..Len(q)
        BY <1>1, <1>2
    <2>2. CASE j = n
        <3>1. PICK k \in 1..Len(q) : i < k /\ Of(q[k], "destroy", s)
            BY <1>1, <1>3, <2>1, <2>2 DEF DestroysLast
        <3> QED
            BY <1>1, <2>2, <3>1
    <2>3. CASE j # n
        <3>1. PICK k \in 1..Len(q) : i < k /\ k < j /\ Of(q[k], "destroy", s)
            BY <1>1, <1>2, <1>3, <2>1, <2>3 DEF AsksApart
        <3> QED
            BY <1>1, <3>1
    <2> QED
        BY <2>2, <2>3
<1>4. ASSUME DestroysFirst(q, s), ~Of(m, "surface", s) \/ Destroys(q, s) PROVE DestroysFirst(r, s)
    <2> SUFFICES ASSUME NEW j \in 1..Len(r), Of(r[j], "surface", s)
                 PROVE  \E k \in 1..Len(r) : k < j /\ Of(r[k], "destroy", s)
        BY DEF DestroysFirst
    <2>1. PICK k \in 1..Len(q) : k < j /\ Of(q[k], "destroy", s)
        <3>1. CASE j = n
            BY <1>1, <1>4, <3>1 DEF Destroys
        <3>2. CASE j # n
            BY <1>1, <1>2, <1>4, <3>2 DEF DestroysFirst
        <3> QED
            BY <3>1, <3>2
    <2> QED
        BY <1>1, <2>1
<1>5. ASSUME DestroysLast(q, s), ~Of(m, "surface", s) PROVE DestroysLast(r, s)
    <2> SUFFICES ASSUME NEW i \in 1..Len(r), Of(r[i], "surface", s)
                 PROVE  \E k \in 1..Len(r) : i < k /\ Of(r[k], "destroy", s)
        BY DEF DestroysLast
    <2>1. PICK k \in 1..Len(q) : i < k /\ Of(q[k], "destroy", s)
        BY <1>1, <1>2, <1>5 DEF DestroysLast
    <2> QED
        BY <1>1, <2>1
<1>6. ASSUME Destroys(q, s) PROVE Destroys(r, s)
    BY <1>1, <1>6 DEF Destroys
<1>7. ASSUME m.is = "destroy" /\ m.of = s PROVE DestroysLast(r, s) /\ Destroys(r, s)
    <2>1. Of(r[n], "destroy", s)
        BY <1>7 DEF Of
    <2>2. \A i \in 1..Len(r) : Of(r[i], "surface", s) => i < n
        BY <1>1, <1>2, <1>7 DEF Of
    <2> QED
        BY <1>1, <2>1, <2>2 DEF DestroysLast, Destroys
<1> QED
    BY <1>3, <1>4, <1>5, <1>6, <1>7 DEF n

LEMMA HearsOfLonger ==
    ASSUME NEW S, NEW q \in Seq(S), NEW r \in Seq(S), Longer(q, r), NEW s, NEW T, NEW U
    PROVE  LET m == r[Len(q) + 1] IN
           /\ GlobalsApart(q, s) /\ ~Of(m, "global", s) => GlobalsApart(r, s)
           /\ \A g : GlobalsAfter(q, s, g) /\ (~Of(m, "global", s) \/ Removes(q, s, g))
                       => GlobalsAfter(r, s, g)
           /\ \A g : Removes(q, s, g) => Removes(r, s, g)
           /\ \A g : Gone(m, s, g) => Removes(r, s, g)
           /\ GlobalsApart(q, s)
                /\ (\A i \in 1..Len(q) : Of(q[i], "global", s) =>
                      \E k \in 1..Len(q) : i < k /\ Gone(q[k], s, q[i].global))
                => GlobalsApart(r, s)
           /\ /\ GlobalsThere(q, s, T) /\ \A g \in T : g \in U \/ Gone(m, s, g)
              /\ Of(m, "global", s) => m.global # 0 /\ m.global \in U
              => GlobalsThere(r, s, U)
<1> DEFINE n == Len(q) + 1
           m == r[n]
<1>1. /\ Len(q) \in Nat /\ n \in Nat /\ Len(r) = n
      /\ n \in 1..Len(r) /\ \A i \in 1..Len(q) : r[i] = q[i] /\ i \in 1..Len(r) /\ i < n
    BY DEF Longer
<1>2. \A i \in 1..Len(r) : i # n => i \in 1..Len(q)
    BY <1>1
<1> HIDE DEF n
<1>3. ASSUME GlobalsApart(q, s),
             \/ ~Of(m, "global", s)
             \/ \A i \in 1..Len(q) : Of(q[i], "global", s) =>
                   \E k \in 1..Len(q) : i < k /\ Gone(q[k], s, q[i].global)
      PROVE  GlobalsApart(r, s)
    <2> SUFFICES ASSUME NEW i \in 1..Len(r), NEW j \in 1..Len(r), i < j,
                        Of(r[i], "global", s), Of(r[j], "global", s)
                 PROVE  \E k \in 1..Len(r) : i < k /\ k < j /\ Gone(r[k], s, r[i].global)
        BY DEF GlobalsApart
    <2>1. i \in 1..Len(q) /\ r[i] = q[i]
        BY <1>1, <1>2
    <2>2. CASE j = n
        <3>1. PICK k \in 1..Len(q) : i < k /\ Gone(q[k], s, q[i].global)
            BY <1>1, <1>3, <2>1, <2>2
        <3> QED
            BY <1>1, <2>1, <2>2, <3>1
    <2>3. CASE j # n
        <3>1. PICK k \in 1..Len(q) : i < k /\ k < j /\ Gone(q[k], s, q[i].global)
            BY <1>1, <1>2, <1>3, <2>1, <2>3 DEF GlobalsApart
        <3> QED
            BY <1>1, <2>1, <3>1
    <2> QED
        BY <2>2, <2>3
<1>4. ASSUME NEW g, GlobalsAfter(q, s, g), ~Of(m, "global", s) \/ Removes(q, s, g)
      PROVE  GlobalsAfter(r, s, g)
    <2> SUFFICES ASSUME NEW j \in 1..Len(r), Of(r[j], "global", s)
                 PROVE  \E k \in 1..Len(r) : k < j /\ Gone(r[k], s, g)
        BY DEF GlobalsAfter
    <2>1. PICK k \in 1..Len(q) : k < j /\ Gone(q[k], s, g)
        <3>1. CASE j = n
            BY <1>1, <1>4, <3>1 DEF Removes
        <3>2. CASE j # n
            BY <1>1, <1>2, <1>4, <3>2 DEF GlobalsAfter
        <3> QED
            BY <3>1, <3>2
    <2> QED
        BY <1>1, <2>1
<1>5. ASSUME NEW g, Removes(q, s, g) PROVE Removes(r, s, g)
    BY <1>1, <1>5 DEF Removes
<1>6. ASSUME NEW g, Gone(m, s, g) PROVE Removes(r, s, g)
    BY <1>1, <1>6 DEF Removes
<1>7. ASSUME GlobalsThere(q, s, T), \A g \in T : g \in U \/ Gone(m, s, g),
             Of(m, "global", s) => m.global # 0 /\ m.global \in U
      PROVE  GlobalsThere(r, s, U)
    <2> SUFFICES ASSUME NEW i \in 1..Len(r), Of(r[i], "global", s)
                 PROVE  /\ r[i].global # 0
                        /\ r[i].global \in U
                           \/ \E k \in 1..Len(r) : i < k /\ Gone(r[k], s, r[i].global)
        BY DEF GlobalsThere
    <2>1. CASE i = n
        BY <1>7, <2>1
    <2>2. CASE i # n
        <3>1. i \in 1..Len(q) /\ r[i] = q[i] /\ i < n
            BY <1>1, <1>2, <2>2
        <3>2. /\ r[i].global # 0
              /\ r[i].global \in T
                 \/ \E k \in 1..Len(q) : i < k /\ Gone(q[k], s, r[i].global)
            BY <1>7, <3>1 DEF GlobalsThere
        <3>3. CASE r[i].global \in T
            BY <1>1, <1>7, <3>1, <3>2, <3>3
        <3>4. CASE \E k \in 1..Len(q) : i < k /\ Gone(q[k], s, r[i].global)
            BY <1>1, <3>2, <3>4
        <3> QED
            BY <3>2, <3>3, <3>4
    <2> QED
        BY <2>1, <2>2
<1> QED
    BY <1>3, <1>4, <1>5, <1>6, <1>7 DEF n

\* A step that leaves the queue of requests as it is, reads of it, or adds to it.
LEMMA AsksStay ==
    ASSUME NEW c \in Clients, NEW s \in Screens, AsksInTurn(c, s),
           requests'[c] = requests[c], knows'[c][s] = knows[c][s],
           Runs(c)' => Runs(c), Shows(c, s)' => Shows(c, s)
    PROVE  AsksInTurn(c, s)'
    BY DEF AsksInTurn

LEMMA AsksRead ==
    ASSUME WireTypeInv, NEW c \in Clients, NEW s \in Screens, AsksInTurn(c, s),
           requests[c] # << >>, requests'[c] = Tail(requests[c]),
           knows'[c][s] = knows[c][s], Runs(c)' => Runs(c),
           Shows(c, s)' => \/ Shows(c, s) /\ ~Of(Head(requests[c]), "destroy", s)
                           \/ Of(Head(requests[c]), "surface", s)
    PROVE  AsksInTurn(c, s)'
<1>1. requests[c] \in Seq(Message)
    BY DEF WireTypeInv
<1> DEFINE q == requests[c]
           t == Tail(q)
<1>2. /\ AsksApart(q, s) => AsksApart(t, s)
      /\ DestroysLast(q, s) => DestroysLast(t, s)
      /\ DestroysFirst(q, s) /\ ~Of(Head(q), "destroy", s) => DestroysFirst(t, s)
      /\ Destroys(q, s) /\ ~Of(Head(q), "destroy", s) => Destroys(t, s)
      /\ AsksApart(q, s) /\ Of(Head(q), "surface", s) => DestroysFirst(t, s)
      /\ DestroysLast(q, s) /\ Of(Head(q), "surface", s) => Destroys(t, s)
    BY <1>1, AsksOfTail
<1> HIDE DEF t
<1> QED
    BY <1>2 DEF AsksInTurn, t

LEMMA AsksMore ==
    ASSUME WireTypeInv, NEW c \in Clients, NEW s \in Screens, AsksInTurn(c, s),
           NEW m \in Message, ~Of(m, "surface", s), requests'[c] = requests[c] \o <<m>>,
           knows'[c][s] = knows[c][s], Runs(c)' => Runs(c), Shows(c, s)' => Shows(c, s)
    PROVE  AsksInTurn(c, s)'
<1> DEFINE q == requests[c]
           r == q \o <<m>>
<1>1. q \in Seq(Message)
    BY DEF WireTypeInv
<1>2. r \in Seq(Message) /\ Longer(q, r) /\ r[Len(q) + 1] = m
    BY <1>1, AppendIsLonger
<1> HIDE DEF r
<1>3. /\ AsksApart(q, s) => AsksApart(r, s)
      /\ DestroysFirst(q, s) => DestroysFirst(r, s)
      /\ DestroysLast(q, s) => DestroysLast(r, s)
      /\ Destroys(q, s) => Destroys(r, s)
    BY <1>1, <1>2, AsksOfLonger
<1> QED
    BY <1>3 DEF AsksInTurn, r

\* The same for what it is to hear.
LEMMA HearsStay ==
    ASSUME NEW c \in Clients, NEW s \in Screens, HearsInTurn(c, s),
           events'[c] = events[c], knows'[c][s] = knows[c][s], There(s)' = There(s)
    PROVE  HearsInTurn(c, s)'
    BY DEF HearsInTurn

LEMMA HearsMore ==
    ASSUME NEW c \in Clients, NEW s \in Screens, HearsInTurn(c, s), NEW m \in Message,
           events[c] \in Seq(Message),
           events'[c] = events[c] \o <<m>>, ~Of(m, "global", s), knows'[c][s] = knows[c][s],
           \A g \in There(s) : g \in There(s)' \/ Gone(m, s, g)
    PROVE  HearsInTurn(c, s)'
<1> DEFINE q == events[c]
           r == q \o <<m>>
           T == There(s)
           U == There(s)'
           k == knows[c][s]
<1>1. r \in Seq(Message) /\ Longer(q, r) /\ r[Len(q) + 1] = m
    BY AppendIsLonger
<1>2. /\ GlobalsApart(q, s) /\ GlobalsThere(q, s, T) /\ \A g \in T : g \in U \/ Gone(m, s, g)
      /\ k # 0 => GlobalsAfter(q, s, k) /\ (k \in T \/ Removes(q, s, k))
    BY DEF HearsInTurn
<1> HIDE DEF r, T, U, k
<1>3. /\ GlobalsApart(q, s) => GlobalsApart(r, s)
      /\ \A g : GlobalsAfter(q, s, g) => GlobalsAfter(r, s, g)
      /\ \A g : Removes(q, s, g) => Removes(r, s, g)
      /\ \A g : Gone(m, s, g) => Removes(r, s, g)
      /\ GlobalsThere(r, s, U)
    BY <1>1, <1>2, HearsOfLonger
<1>4. /\ GlobalsApart(r, s) /\ GlobalsThere(r, s, U)
      /\ k # 0 => GlobalsAfter(r, s, k) /\ (k \in U \/ Removes(r, s, k))
    BY <1>2, <1>3
<1> QED
    BY <1>4 DEF HearsInTurn, r, U, k

\* A lock screen that is not there has nothing to hear.
LEMMA HearsNothing ==
    ASSUME NEW c \in Clients, NEW s \in Screens, events'[c] = << >>, knows'[c][s] = 0
    PROVE  HearsInTurn(c, s)'
    BY DEF HearsInTurn, GlobalsApart, GlobalsThere

\* A screen is switched on: of its globals of the past it hears first.
LEMMA HearsNew ==
    ASSUME NEW c \in Clients, NEW s \in Screens, HearsInTurn(c, s),
           events[c] \in Seq(Message), NEW g \in Nat \ {0},
           events'[c] = events[c] \o <<About("global", s, g)>>, knows'[c][s] = knows[c][s],
           There(s) = {}, g \in There(s)'
    PROVE  HearsInTurn(c, s)'
<1> DEFINE m == About("global", s, g)
           q == events[c]
           r == q \o <<m>>
           T == There(s)
           U == There(s)'
           k == knows[c][s]
<1>1. m \in Message /\ Of(m, "global", s) /\ m.global = g
    BY AboutIsMessage DEF Of, About
<1> HIDE DEF m
<1>2. r \in Seq(Message) /\ Longer(q, r) /\ r[Len(q) + 1] = m
    BY <1>1, AppendIsLonger
<1>3. /\ GlobalsApart(q, s) /\ GlobalsThere(q, s, T) /\ T = {} /\ g \in U
      /\ k # 0 => GlobalsAfter(q, s, k) /\ Removes(q, s, k)
    BY DEF HearsInTurn
<1>4. \A i \in 1..Len(q) : Of(q[i], "global", s) =>
        \E j \in 1..Len(q) : i < j /\ Gone(q[j], s, q[i].global)
    BY <1>3 DEF GlobalsThere
<1> HIDE DEF r, T, U, k
<1>5. /\ GlobalsApart(r, s)
      /\ \A h : GlobalsAfter(q, s, h) /\ Removes(q, s, h) => GlobalsAfter(r, s, h)
      /\ \A h : Removes(q, s, h) => Removes(r, s, h)
    BY <1>2, <1>3, <1>4, HearsOfLonger
<1>6. GlobalsThere(r, s, U)
    BY <1>1, <1>2, <1>3, HearsOfLonger
<1>7. k # 0 => GlobalsAfter(r, s, k) /\ Removes(r, s, k)
    BY <1>3, <1>5
<1> QED
    BY <1>5, <1>6, <1>7 DEF HearsInTurn, r, U, k, m

\* The lock screen reads of a screen, and answers.
LEMMA ScreenEventInTurn ==
    ASSUME WireInv, NEW c \in Clients, ScreenEvent(c), NEW s \in Screens,
           AsksInTurn(c, s), HearsInTurn(c, s)
    PROVE  AsksInTurn(c, s)' /\ HearsInTurn(c, s)'
<1> DEFINE q == events[c]
           t == Tail(q)
           e == Head(q)
           k == knows[c][s]
           new == Replies(c, e)
<1>1. /\ q \in Seq(Message) /\ q # << >> /\ e \in Message /\ Runs(c)
      /\ requests[c] \in Seq(Message) /\ k \in Nat
    BY HeadIsOf DEF ScreenEvent, WireInv, WireTypeInv, Fit
<1>2. e.of \in Screens /\ e.global \in Nat
    <2> HIDE DEF e
    <2>1. "of" \in DOMAIN e
        BY DEF ScreenEvent, e
    <2>2. \A m \in [is : {"lock", "unlock", "hangup", "locked", "finished"}] : DOMAIN m = {"is"}
        OBVIOUS
    <2>3. e \in [is : {"surface", "destroy", "commit", "global", "remove", "configure"},
                 of : Screens, global : Nat]
        BY <1>1, <2>1, <2>2 DEF Message
    <2> QED
        BY <2>3
<1>3. /\ requests'[c] = requests[c] \o new /\ events'[c] = t
      /\ UNCHANGED <<lockVars, global, phase>>
    BY DEF ScreenEvent, Say, WireInv, WireTypeInv
<1>4. knows'[c][s] = IF e.of # s THEN k
                     ELSE IF e.is = "remove" THEN IF k = e.global THEN 0 ELSE k
                     ELSE IF e.is = "global" THEN e.global ELSE k
    BY <1>2 DEF ScreenEvent, WireInv, WireTypeInv
<1>5. There(s)' = There(s) /\ Runs(c)' /\ Shows(c, s)' = Shows(c, s)
    BY <1>1, <1>3 DEF There, Runs, Shows, Holds, lockVars
<1>6. /\ GlobalsApart(q, s) /\ GlobalsThere(q, s, There(s))
      /\ k # 0 => GlobalsAfter(q, s, k) /\ (k \in There(s) \/ Removes(q, s, k))
    BY DEF HearsInTurn
<1>7. /\ GlobalsApart(t, s) /\ GlobalsThere(t, s, There(s))
      /\ k # 0 => ~Of(e, "global", s)
      /\ k # 0 /\ ~Gone(e, s, k) => GlobalsAfter(t, s, k) /\ (k \in There(s) \/ Removes(t, s, k))
      /\ Of(e, "global", s) =>
           /\ GlobalsAfter(t, s, e.global) /\ e.global # 0
           /\ e.global \in There(s) \/ Removes(t, s, e.global)
    BY <1>1, <1>6, HearsOfTail
<1> HIDE DEF t, e, k
<1>8. HearsInTurn(c, s)'
    <2>1. knows'[c][s] # 0 =>
            /\ GlobalsAfter(t, s, knows'[c][s])
            /\ knows'[c][s] \in There(s) \/ Removes(t, s, knows'[c][s])
        BY <1>4, <1>7 DEF Of, Gone
    <2> QED
        BY <1>3, <1>5, <1>7, <2>1 DEF HearsInTurn
<1>9. \A is \in {"surface", "destroy", "commit"} :
        /\ About(is, e.of, e.global) \in Message
        /\ About(is, e.of, e.global).is = is /\ About(is, e.of, e.global).of = e.of
    BY <1>2, AboutIsMessage DEF About
<1>10. CASE Of(e, "global", s) /\ phase[c] # "unlocking"
    <2> DEFINE m == About("surface", e.of, e.global)
               r == requests[c] \o <<m>>
    <2>1. new = <<m>> /\ k = 0 /\ knows'[c][s] # 0 /\ m \in Message /\ Of(m, "surface", s)
        BY <1>4, <1>7, <1>9, <1>10 DEF Replies, Of
    <2> HIDE DEF m
    <2>2. /\ r \in Seq(Message) /\ Longer(requests[c], r) /\ r[Len(requests[c]) + 1] = m
        BY <1>1, <2>1, AppendIsLonger
    <2>3. requests'[c] = r
        BY <1>3, <2>1
    <2>4. /\ AsksApart(requests[c], s) /\ DestroysLast(requests[c], s)
          /\ Shows(c, s) => DestroysFirst(requests[c], s) /\ Destroys(requests[c], s)
        BY <1>1, <2>1 DEF AsksInTurn, k
    <2> HIDE DEF r
    <2>5. AsksApart(r, s) /\ (Shows(c, s) => DestroysFirst(r, s))
        BY <1>1, <2>2, <2>4, AsksOfLonger
    <2> QED
        BY <1>5, <1>8, <2>1, <2>3, <2>5 DEF AsksInTurn
<1>11. CASE e.is = "remove" /\ e.of = s /\ k = e.global
    <2> DEFINE m == About("destroy", e.of, e.global)
               r == requests[c] \o <<m>>
    <2>1. new = <<m>> /\ m \in Message /\ m.is = "destroy" /\ m.of = s
        BY <1>9, <1>11 DEF Replies, k
    <2> HIDE DEF m
    <2>2. /\ r \in Seq(Message) /\ Longer(requests[c], r) /\ r[Len(requests[c]) + 1] = m
        BY <1>1, <2>1, AppendIsLonger
    <2>3. requests'[c] = r
        BY <1>3, <2>1
    <2>4. AsksApart(requests[c], s) /\ (Shows(c, s) => DestroysFirst(requests[c], s))
        BY DEF AsksInTurn
    <2> HIDE DEF r
    <2>5. /\ AsksApart(r, s) /\ DestroysLast(r, s) /\ Destroys(r, s)
          /\ Shows(c, s) => DestroysFirst(r, s)
        BY <1>1, <2>1, <2>2, <2>4, AsksOfLonger DEF Of
    <2> QED
        BY <1>5, <1>8, <2>3, <2>5 DEF AsksInTurn
<1>12. CASE /\ ~(Of(e, "global", s) /\ phase[c] # "unlocking")
            /\ ~(e.is = "remove" /\ e.of = s /\ k = e.global)
    <2>1. \/ new = << >>
          \/ \E is \in {"surface", "destroy", "commit"} :
                /\ new = <<About(is, e.of, e.global)>>
                /\ ~Of(About(is, e.of, e.global), "surface", s)
        BY <1>9, <1>12 DEF Replies, Of
    <2>2. knows'[c][s] = k \/ knows'[c][s] # 0
        BY <1>4, <1>7, <1>12 DEF Of
    <2>3. CASE new = << >>
        <3>1. requests'[c] = requests[c]
            BY <1>1, <1>3, <2>3
        <3> QED
            BY <1>1, <1>5, <1>8, <2>2, <3>1 DEF AsksInTurn, k
    <2>4. ASSUME NEW m \in Message, new = <<m>>, ~Of(m, "surface", s) PROVE AsksInTurn(c, s)'
        <3> DEFINE r == requests[c] \o <<m>>
        <3>1. r \in Seq(Message) /\ Longer(requests[c], r) /\ r[Len(requests[c]) + 1] = m
            BY <1>1, AppendIsLonger
        <3>2. requests'[c] = r
            BY <1>3, <2>4
        <3> HIDE DEF r
        <3>3. /\ AsksApart(requests[c], s) => AsksApart(r, s)
              /\ DestroysFirst(requests[c], s) => DestroysFirst(r, s)
              /\ DestroysLast(requests[c], s) => DestroysLast(r, s)
              /\ Destroys(requests[c], s) => Destroys(r, s)
            BY <1>1, <2>4, <3>1, AsksOfLonger
        <3> QED
            BY <1>1, <1>5, <2>2, <3>2, <3>3 DEF AsksInTurn, k
    <2> QED
        BY <1>8, <1>9, <2>1, <2>3, <2>4
<1> QED
    BY <1>10, <1>11, <1>12

-----------------------------------------------------------------------------
\* A queue without messages of any kind is empty.
LEMMA NoKindsIsEmpty ==
    ASSUME NEW S, NEW q \in Seq(S), Kinds(q) = {} PROVE q = << >>
<1>1. Len(q) \in Nat /\ \A i \in 1..Len(q) : q[i].is \in Kinds(q)
    BY DEF Kinds
<1>2. Len(q) = 0
    <2>1. Len(q) # 0 => 1 \in 1..Len(q)
        BY <1>1
    <2> QED
        BY <1>1, <2>1
<1> QED
    BY <1>2

\* The surfaces that a lock screen asks for when it starts are of different screens.
LEMMA SetToSeqIsOnce ==
    ASSUME NEW S, IsFiniteSet(S)
    PROVE  \A i, j \in 1..Len(SetToSeq(S)) : SetToSeq(S)[i] = SetToSeq(S)[j] => i = j
<1>1. Cardinality(S) \in Nat /\ ExistsBijection(1..Cardinality(S), S)
    BY FS_CardinalityType
<1>2. \E f \in [1..Cardinality(S) -> S] : IsInjective(f)
    BY <1>1 DEF ExistsBijection, Bijection, Injection, IsInjective
<1>3. SetToSeq(S) \in [1..Cardinality(S) -> S] /\ IsInjective(SetToSeq(S))
    BY <1>2 DEF SetToSeq
<1>4. Len(SetToSeq(S)) = Cardinality(S)
    BY <1>1, <1>3
<1> QED
    BY <1>3, <1>4 DEF IsInjective

\* It asks for a surface once on each screen, and knows all of them.
LEMMA StartInTurn ==
    ASSUME LockInv, WireInv, Turns, NEW c \in Clients, Start(c) PROVE Turns'
<1> DEFINE surfaces == {About("surface", s, global[s]) : s \in On}
           asked == SetToSeq(surfaces)
           new == <<[is |-> "lock"]>> \o asked
<1>1. /\ requests[c] = << >> /\ Kinds(events[c]) = {} /\ events[c] \in Seq(Message) /\ c \in starts
      /\ ~Holds(c)
    BY DEF WireInv, WireTypeInv, Start, Fit, Runs, Turns
<1>2. events[c] = << >>
    BY <1>1, NoKindsIsEmpty
<1>3. IsFiniteSet(surfaces)
    <2>1. IsFiniteSet(On)
        BY LockingAssumption, FS_Subset DEF On
    <2> DEFINE f == [s \in On |-> About("surface", s, global[s])]
    <2>2. f \in Surjection(On, surfaces)
        BY DEF Surjection
    <2> QED
        BY <2>1, <2>2, FS_Surjection
<1>4. asked \in Seq(surfaces) /\ \A i, j \in 1..Len(asked) : asked[i] = asked[j] => i = j
    BY <1>3, SetToSeqIsSeq, SetToSeqIsOnce
<1>5. \A m \in surfaces : /\ m.is = "surface" /\ m.of \in On
                          /\ m = About("surface", m.of, global[m.of])
    BY DEF About
<1>6. [is |-> "lock"].is = "lock" /\ <<[is |-> "lock"]>> \in Seq({[is |-> "lock"]})
    OBVIOUS
<1>7. /\ Len(new) = Len(asked) + 1 /\ Len(asked) \in Nat
      /\ \A i \in 1..Len(new) : IF i = 1 THEN new[i].is = "lock"
                                ELSE i - 1 \in 1..Len(asked) /\ new[i] = asked[i - 1]
    <2> HIDE DEF asked
    <2>1. /\ Len(new) = Len(asked) + 1 /\ Len(asked) \in Nat
          /\ new[1] = [is |-> "lock"]
          /\ \A i \in 2..Len(new) : new[i] = asked[i - 1]
        BY <1>4
    <2> QED
        BY <1>6, <2>1
<1>8. /\ requests'[c] = new /\ \A d \in Clients : d # c => requests'[d] = requests[d]
      /\ \A s \in Screens : knows'[c][s] = IF s \in On THEN global[s] ELSE 0
      /\ \A d \in Clients : d # c => knows'[d] = knows[d]
      /\ \A d \in Clients : d # c => Runs(d)' = Runs(d)
      /\ events' = events /\ UNCHANGED <<lockVars, global>> /\ starts' = starts \ {c}
    <2>1. << >> \o new = new
        <3>1. [is |-> "lock"] \in Message /\ surfaces \subseteq Message
            BY AboutIsMessage DEF WireInv, WireTypeInv, On, Message
        <3> HIDE DEF surfaces
        <3>2. new \in Seq(Message)
            <4>1. asked \in Seq(Message) /\ <<[is |-> "lock"]>> \in Seq(Message)
                BY <1>4, <3>1
            <4> HIDE DEF asked
            <4> QED
                BY <4>1
        <3> HIDE DEF new
        <3> QED
            BY <3>2
    <2>2. requests' = [requests EXCEPT ![c] = new]
        BY <1>1, <2>1 DEF Start, Say
    <2> HIDE DEF new
    <2> QED
        BY <2>2 DEF Start, WireInv, WireTypeInv, Runs
<1>9. ASSUME NEW s \in Screens PROVE AsksInTurn(c, s)' /\ HearsInTurn(c, s)'
    <2>1. \A i \in 1..Len(new) : Of(new[i], "surface", s) =>
            /\ s \in On /\ i - 1 \in 1..Len(asked) /\ i \in Nat
            /\ asked[i - 1] = About("surface", s, global[s])
        <3> HIDE DEF surfaces, asked, new
        <3>1. ASSUME NEW i \in 1..Len(new), Of(new[i], "surface", s)
              PROVE  /\ s \in On /\ i - 1 \in 1..Len(asked) /\ i \in Nat
                     /\ asked[i - 1] = About("surface", s, global[s])
            <4>1. i # 1 /\ i - 1 \in 1..Len(asked) /\ new[i] = asked[i - 1]
                BY <1>7, <3>1 DEF Of
            <4>2. asked[i - 1] \in surfaces
                BY <1>4, <4>1
            <4> QED
                BY <1>5, <3>1, <4>1, <4>2 DEF Of
        <3> QED
            BY <3>1
    <2> HIDE DEF surfaces, asked, new
    <2>2. AsksApart(new, s)
        BY <1>4, <2>1 DEF AsksApart
    <2>3. knows'[c][s] = 0 => DestroysLast(new, s)
        BY <1>8, <2>1 DEF DestroysLast, Turns, On
    <2>4. ~Shows(c, s)'
        BY <1>1, <1>8 DEF Shows, Holds, lockVars
    <2>5. AsksInTurn(c, s)'
        BY <1>8, <2>2, <2>3, <2>4 DEF AsksInTurn
    <2>6. There(s)' = There(s) /\ (knows'[c][s] # 0 => knows'[c][s] \in There(s))
        BY <1>8 DEF There, On, lockVars
    <2>7. HearsInTurn(c, s)'
        BY <1>2, <1>8, <2>6 DEF HearsInTurn, GlobalsApart, GlobalsThere, GlobalsAfter
    <2> QED
        BY <2>5, <2>7
<1> HIDE DEF new
<1>10. ASSUME NEW d \in Clients, d # c, NEW s \in Screens
       PROVE  AsksInTurn(d, s)' /\ HearsInTurn(d, s)'
    <2>1. There(s)' = There(s) /\ Shows(d, s)' = Shows(d, s) /\ Runs(d)' = Runs(d)
        BY <1>8, <1>10 DEF There, Shows, Holds, lockVars
    <2> QED
        BY <1>8, <1>10, <2>1, AsksStay, HearsStay DEF Turns
<1>11. /\ starts' \subseteq Clients /\ \A d \in starts' : ~Holds(d)'
       /\ \A s \in Screens : output'[s] = "on" => global'[s] # 0
       /\ \A d \in Clients, s \in Screens : ~Runs(d)' => knows'[d][s] = 0
    <2>1. Runs(c)'
        BY DEF Start, Runs, WireInv, WireTypeInv
    <2> QED
        BY <1>8, <2>1 DEF Turns, Holds, lockVars
<1> QED
    BY <1>9, <1>10, <1>11 DEF Turns

\* What it had sent is lost with it, its surfaces go when that is read.
LEMMA EndsInTurn ==
    ASSUME WireInv, Turns, NEW c \in Clients, NEW how \in {"ended", "crashed"}, Ends(c, how),
           UNCHANGED <<lockVars, starts, global>>
    PROVE  Turns'
<1> DEFINE hangup == [is |-> "hangup"]
<1>1. /\ requests'[c] = <<hangup>> /\ events'[c] = << >> /\ ~Runs(c)'
      /\ \A s \in Screens : knows'[c][s] = 0
      /\ \A d \in Clients : d # c =>
            /\ requests'[d] = requests[d] /\ events'[d] = events[d] /\ knows'[d] = knows[d]
            /\ Runs(d)' = Runs(d)
    BY DEF Ends, WireInv, WireTypeInv, Runs
<1>2. Len(<<hangup>>) = 1 /\ <<hangup>>[1].is = "hangup"
    OBVIOUS
<1> HIDE DEF hangup
<1>3. ASSUME NEW s \in Screens PROVE AsksInTurn(c, s)' /\ HearsInTurn(c, s)'
    <2>1. \A i \in 1..Len(<<hangup>>) : ~Of(<<hangup>>[i], "surface", s)
        BY <1>2 DEF Of
    <2>2. AsksInTurn(c, s)'
        BY <1>1, <2>1 DEF AsksInTurn, AsksApart, DestroysFirst
    <2>3. HearsInTurn(c, s)'
        BY <1>1 DEF HearsInTurn, GlobalsApart, GlobalsThere
    <2> QED
        BY <2>2, <2>3
<1>4. ASSUME NEW d \in Clients, d # c, NEW s \in Screens
      PROVE  AsksInTurn(d, s)' /\ HearsInTurn(d, s)'
    <2>1. There(s)' = There(s) /\ Shows(d, s)' = Shows(d, s)
        BY DEF There, Shows, Holds, lockVars
    <2> QED
        BY <1>1, <1>4, <2>1, AsksStay, HearsStay DEF Turns
<1>5. \A d \in Clients, s \in Screens : ~Runs(d)' => knows'[d][s] = 0
    BY <1>1 DEF Turns
<1> QED
    BY <1>3, <1>4, <1>5 DEF Turns, Holds, lockVars

\* The steps of a lock screen that leave the screens alone.
LEMMA ChecksInTurn ==
    ASSUME WireInv, Turns, NEW c \in Clients, StartCheck(c) \/ CheckEnds(c) \/ UNCHANGED vars
    PROVE  Turns'
<1>1. UNCHANGED <<lockVars, starts, global, phase, knows, requests, events>>
    BY DEF StartCheck, CheckEnds, vars, clientVars
<1>2. ASSUME NEW d \in Clients, NEW s \in Screens PROVE AsksInTurn(d, s)' /\ HearsInTurn(d, s)'
    <2>1. There(s)' = There(s) /\ Shows(d, s)' = Shows(d, s) /\ Runs(d)' = Runs(d)
        BY <1>1 DEF There, Shows, Holds, lockVars, Runs
    <2> QED
        BY <1>1, <2>1, AsksStay, HearsStay DEF Turns
<1>3. \A d \in Clients : Runs(d)' = Runs(d)
    BY <1>1 DEF Runs
<1> QED
    BY <1>1, <1>2, <1>3 DEF Turns, Holds, lockVars

\* Asking for the unlocking is about no screen.
LEMMA FinishCheckInTurn ==
    ASSUME WireInv, Turns, NEW c \in Clients, FinishCheck(c) PROVE Turns'
<1> DEFINE m == [is |-> "unlock"]
<1>1. m \in Message /\ m.is = "unlock"
    BY DEF Message
<1>2. /\ UNCHANGED <<lockVars, starts, global, knows, events>>
      /\ requests'[c] = requests[c] \/ requests'[c] = requests[c] \o <<m>>
      /\ \A d \in Clients : d # c => requests'[d] = requests[d]
      /\ \A d \in Clients : Runs(d)' = Runs(d)
    BY DEF FinishCheck, Say, Runs, WireInv, WireTypeInv
<1> HIDE DEF m
<1>3. ASSUME NEW d \in Clients, NEW s \in Screens PROVE AsksInTurn(d, s)' /\ HearsInTurn(d, s)'
    <2>1. There(s)' = There(s) /\ Shows(d, s)' = Shows(d, s)
        BY <1>2 DEF There, Shows, Holds, lockVars
    <2>2. ~Of(m, "surface", s)
        BY <1>1 DEF Of
    <2> QED
        BY <1>1, <1>2, <2>1, <2>2, AsksStay, AsksMore, HearsStay DEF Turns, WireInv
<1> QED
    BY <1>2, <1>3 DEF Turns, Holds, lockVars

\* Nor is hearing that the session is locked.
LEMMA LocksInTurn ==
    ASSUME WireInv, Turns, NEW c \in Clients, Locks(c) PROVE Turns'
<1>1. /\ events[c] \in Seq(Message) /\ events[c] # << >> /\ Runs(c)
      /\ Head(events[c]).is = "locked"
    BY HeadIsOf DEF Locks, WireInv, WireTypeInv, Fit
<1>2. /\ UNCHANGED <<lockVars, starts, global, knows, requests>>
      /\ events'[c] = Tail(events[c]) /\ Runs(c)'
      /\ \A d \in Clients : d # c => events'[d] = events[d] /\ Runs(d)' = Runs(d)
    BY DEF Locks, Runs, WireInv, WireTypeInv
<1>3. ASSUME NEW d \in Clients, NEW s \in Screens PROVE AsksInTurn(d, s)' /\ HearsInTurn(d, s)'
    <2>1. There(s)' = There(s) /\ Shows(d, s)' = Shows(d, s) /\ (Runs(d)' => Runs(d))
        BY <1>1, <1>2 DEF There, Shows, Holds, lockVars
    <2>2. AsksInTurn(d, s)'
        BY <1>2, <2>1, AsksStay DEF Turns
    <2>3. CASE d # c
        BY <1>2, <2>1, <2>2, <2>3, HearsStay DEF Turns
    <2>4. CASE d = c
        <3> DEFINE q == events[c]
                   t == Tail(q)
        <3>1. \A g : ~Gone(Head(q), s, g) /\ ~Of(Head(q), "global", s)
            BY <1>1 DEF Gone, Of
        <3>2. /\ GlobalsApart(q, s) => GlobalsApart(t, s)
              /\ GlobalsThere(q, s, There(s)) => GlobalsThere(t, s, There(s))
              /\ \A g : GlobalsAfter(q, s, g) => GlobalsAfter(t, s, g)
              /\ \A g : Removes(q, s, g) => Removes(t, s, g)
            BY <1>1, <3>1, HearsOfTail
        <3> HIDE DEF t
        <3>3. HearsInTurn(c, s)
            BY DEF Turns
        <3> QED
            BY <1>2, <2>1, <2>2, <2>4, <3>2, <3>3 DEF HearsInTurn, t
    <2> QED
        BY <2>3, <2>4
<1> QED
    BY <1>2, <1>3 DEF Turns, Holds, lockVars

\* What it hears of one screen leaves the others, and other lock screens, alone.
LEMMA ScreenEventsInTurn ==
    ASSUME WireInv, Turns, NEW c \in Clients, ScreenEvent(c) PROVE Turns'
<1>1. /\ UNCHANGED <<lockVars, starts, global, phase>>
      /\ \A d \in Clients : d # c =>
            /\ requests'[d] = requests[d] /\ events'[d] = events[d] /\ knows'[d] = knows[d]
    BY DEF ScreenEvent, Say, WireInv, WireTypeInv
<1>2. ASSUME NEW d \in Clients, NEW s \in Screens PROVE AsksInTurn(d, s)' /\ HearsInTurn(d, s)'
    <2>1. There(s)' = There(s) /\ Shows(d, s)' = Shows(d, s) /\ Runs(d)' = Runs(d)
        BY <1>1 DEF There, Shows, Holds, lockVars, Runs
    <2> QED
        BY <1>1, <2>1, AsksStay, HearsStay, ScreenEventInTurn DEF Turns
<1>3. \A d \in Clients, s \in Screens : ~Runs(d)' => knows'[d][s] = 0
    <2>1. Runs(c)
        BY HeadIsOf DEF ScreenEvent, WireInv, Fit
    <2> QED
        BY <1>1, <2>1 DEF Turns, Runs
<1> QED
    BY <1>1, <1>2, <1>3 DEF Turns, Holds, lockVars

-----------------------------------------------------------------------------
\* The compositor reads a request: what it shows is new only on the screen that
\* the request asks for.
LEMMA RequestsInTurn ==
    ASSUME WireInv, Turns, NEW c \in Clients, requests[c] # << >>, Read(c),
           UNCHANGED <<starts, global, output, phase, knows>>,
           \A d \in Clients : d # c => events'[d] = events[d],
           \/ events'[c] = events[c]
           \/ \E m \in Message : m.is # "global" /\ events'[c] = events[c] \o <<m>>,
           \A d \in Clients, s \in Screens :
               Shows(d, s)' => \/ Shows(d, s) /\ ~(d = c /\ Of(Head(requests[c]), "destroy", s))
                               \/ d = c /\ Of(Head(requests[c]), "surface", s),
           \A d \in starts : ~Holds(d)'
    PROVE  Turns'
<1>1. /\ requests'[c] = Tail(requests[c])
      /\ \A d \in Clients : d # c => requests'[d] = requests[d]
      /\ \A d \in Clients : Runs(d)' = Runs(d) /\ events[d] \in Seq(Message)
      /\ \A s \in Screens : There(s)' = There(s)
    BY DEF Read, WireInv, WireTypeInv, Runs, There
<1>2. ASSUME NEW d \in Clients, NEW s \in Screens PROVE AsksInTurn(d, s)'
    <2>1. CASE d = c
        BY <1>1, <2>1, AsksRead DEF Turns, WireInv
    <2>2. CASE d # c
        BY <1>1, <2>2, AsksStay DEF Turns
    <2> QED
        BY <2>1, <2>2
<1>3. ASSUME NEW d \in Clients, NEW s \in Screens PROVE HearsInTurn(d, s)'
    <2>1. CASE events'[d] = events[d]
        BY <1>1, <2>1, HearsStay DEF Turns
    <2>2. ASSUME d = c, NEW m \in Message, m.is # "global", events'[c] = events[c] \o <<m>>
          PROVE  HearsInTurn(d, s)'
        <3>1. ~Of(m, "global", s)
            BY <2>2 DEF Of
        <3> QED
            BY <1>1, <2>2, <3>1, HearsMore DEF Turns
    <2> QED
        BY <2>1, <2>2
<1> QED
    BY <1>1, <1>2, <1>3 DEF Turns

\* A lock that is taken shows nothing yet.
LEMMA HandleLockInTurn ==
    ASSUME WireInv, Turns, NEW c \in Clients, HandleLock(c) PROVE Turns'
<1> DEFINE h == Head(requests[c])
<1>1. /\ requests[c] # << >> /\ h.is = "lock" /\ Runs(c) /\ c \notin starts
    BY HeadIsAsked DEF HandleLock, Reads, WireInv, Fit, Runs
<1>2. UNCHANGED <<starts, global, output, phase, knows>> /\ Read(c)
    BY DEF HandleLock, Take, lockVars, clientVars
<1>3. \E m \in Message : m.is # "global" /\ Answer(c, <<m>>)
    <2>1. /\ [is |-> "locked"] \in Message /\ [is |-> "locked"].is # "global"
          /\ [is |-> "finished"] \in Message /\ [is |-> "finished"].is # "global"
        BY DEF Message
    <2> QED
        BY <2>1 DEF HandleLock
<1>4. /\ \A d \in Clients : d # c => events'[d] = events[d]
      /\ \E m \in Message : m.is # "global" /\ events'[c] = events[c] \o <<m>>
    BY <1>1, <1>3 DEF Answer, WireInv, WireTypeInv
<1>5. \A d \in Clients, s \in Screens : Shows(d, s)' => Shows(d, s)
    BY DEF HandleLock, Take, NoSurfaces, Shows, Holds, lockVars
<1>6. \A d \in starts : ~Holds(d)'
    BY <1>1 DEF HandleLock, Take, Holds, lockVars, Turns
<1>7. \A s \in Screens : ~Of(h, "destroy", s)
    BY <1>1 DEF Of
<1> HIDE DEF h
<1> QED
    BY <1>1, <1>2, <1>4, <1>5, <1>6, <1>7, RequestsInTurn DEF h

\* A surface that was asked for shows: its message is read, and the rest of the
\* queue destroys it before another is asked for.
LEMMA HandleSurfaceInTurn ==
    ASSUME LockInv, WireInv, Turns, NEW c \in Clients, NEW s \in Screens, HandleSurface(c, s)
    PROVE  Turns'
<1> DEFINE h == Head(requests[c])
           g == h.global
<1>1. requests[c] # << >> /\ Of(h, "surface", s) /\ h.is = "surface" /\ g \in Nat
    <2>1. requests[c] # << >> /\ h.is = "surface" /\ h.of = s /\ h \in Message
        BY HeadIsAsked DEF HandleSurface, ReadsAbout, Reads, WireInv
    <2> HIDE DEF h
    <2> QED
        BY <2>1 DEF Message, Of
<1>2. UNCHANGED <<starts, global, output, phase, knows>> /\ Read(c)
    BY DEF HandleSurface, NewSurface, lockVars, clientVars
<1>3. About("configure", s, g) \in Message /\ About("configure", s, g).is # "global"
    BY <1>1, AboutIsMessage
<1>4. /\ \A d \in Clients : d # c => events'[d] = events[d]
      /\ \/ events'[c] = events[c]
         \/ \E m \in Message : m.is # "global" /\ events'[c] = events[c] \o <<m>>
    BY <1>3 DEF HandleSurface, Answer, WireInv, WireTypeInv
<1>5. \A d \in Clients, t \in Screens : Shows(d, t)' => Shows(d, t) \/ (d = c /\ t = s)
    BY DEF HandleSurface, NewSurface, Shows, Holds, lockVars, LockInv, LockTypeOK
<1>6. \A d \in starts : ~Holds(d)'
    BY DEF HandleSurface, NewSurface, Holds, lockVars, Turns
<1>7. \A t \in Screens : ~Of(h, "destroy", t)
    BY <1>1 DEF Of
<1> HIDE DEF h
<1> QED
    BY <1>1, <1>2, <1>4, <1>5, <1>6, <1>7, RequestsInTurn DEF h

\* The other requests make no surface.
LEMMA HandleCommitInTurn ==
    ASSUME LockInv, WireInv, Turns, NEW c \in Clients, NEW s \in Screens, HandleCommit(c, s)
    PROVE  Turns'
<1> DEFINE h == Head(requests[c])
<1>1. requests[c] # << >> /\ h.is = "commit"
    BY DEF HandleCommit, ReadsAbout, Reads
<1>2. UNCHANGED <<starts, global, output, phase, knows, events>> /\ Read(c)
    BY DEF HandleCommit, MapSurface, lockVars, clientVars
<1>3. \A d \in Clients, t \in Screens : Shows(d, t)' => Shows(d, t)
    BY DEF HandleCommit, MapSurface, Shows, Holds, lockVars, LockInv, LockTypeOK
<1>4. \A d \in starts : ~Holds(d)'
    BY DEF HandleCommit, MapSurface, Holds, lockVars, Turns
<1>5. \A t \in Screens : ~Of(h, "destroy", t)
    BY <1>1 DEF Of
<1> HIDE DEF h
<1> QED
    BY <1>1, <1>2, <1>3, <1>4, <1>5, RequestsInTurn DEF h

\* A surface that is destroyed no longer shows.
LEMMA HandleDestroyInTurn ==
    ASSUME LockInv, WireInv, Turns, NEW c \in Clients, NEW s \in Screens, HandleDestroy(c, s)
    PROVE  Turns'
<1> DEFINE h == Head(requests[c])
<1>1. requests[c] # << >> /\ h.is = "destroy" /\ h.of = s
    BY DEF HandleDestroy, ReadsAbout, Reads
<1>2. UNCHANGED <<starts, global, output, phase, knows, events>> /\ Read(c)
    BY DEF HandleDestroy, DestroySurface, lockVars, clientVars
<1>3. \A d \in Clients, t \in Screens : Shows(d, t)' => Shows(d, t) /\ ~(d = c /\ t = s)
    BY DEF HandleDestroy, DestroySurface, Shows, Holds, lockVars, LockInv, LockTypeOK
<1>4. \A d \in starts : ~Holds(d)'
    BY DEF HandleDestroy, DestroySurface, Holds, lockVars, Turns
<1>5. \A t \in Screens : Of(h, "destroy", t) => t = s
    BY <1>1 DEF Of
<1> HIDE DEF h
<1> QED
    BY <1>1, <1>2, <1>3, <1>4, <1>5, RequestsInTurn DEF h

\* No surface outlives the lock or its client.
LEMMA HandleUnlockInTurn ==
    ASSUME WireInv, Turns, NEW c \in Clients, HandleUnlock(c) \/ HandleHangup(c) PROVE Turns'
<1> DEFINE h == Head(requests[c])
<1>1. requests[c] # << >> /\ h.is \in {"unlock", "hangup"}
    BY DEF HandleUnlock, HandleHangup, Reads
<1>2. UNCHANGED <<starts, global, output, phase, knows, events>> /\ Read(c)
    BY DEF HandleUnlock, HandleHangup, Unlock, Abandon, lockVars, clientVars
<1>3. \A d \in Clients, t \in Screens : Shows(d, t)' => Shows(d, t)
    BY DEF HandleUnlock, HandleHangup, Unlock, Abandon, NoSurfaces, Shows, Holds, lockVars
<1>4. \A d \in starts : ~Holds(d)'
    <2>1. \A d \in Clients : Holds(d)' => Holds(d)
        BY SessionLockAssumption DEF HandleUnlock, HandleHangup, Unlock, Abandon, Holds, lockVars
    <2>2. starts \subseteq Clients
        BY DEF Turns
    <2> QED
        BY <2>1, <2>2 DEF Turns
<1>5. \A t \in Screens : ~Of(h, "destroy", t)
    BY <1>1 DEF Of
<1> HIDE DEF h
<1> QED
    BY <1>1, <1>2, <1>3, <1>4, <1>5, RequestsInTurn DEF h

-----------------------------------------------------------------------------
\* A screen changes: who holds the lock, and what shows, is not new.
LEMMA ScreensInTurn ==
    ASSUME WireInv, Turns, NEW s \in Screens,
           UNCHANGED <<lock, abandoned, starts, clientVars, requests>>,
           \A t \in Screens : surface'[t] # "none" => surface[t] # "none",
           \A t \in Screens \ {s} : output'[t] = output[t] /\ global'[t] = global[t],
           output'[s] = "on" => global'[s] # 0,
           \A d \in Clients : HearsInTurn(d, s)',
           \A d \in Clients, t \in Screens \ {s} : HearsInTurn(d, t)'
    PROVE  Turns'
<1>1. \A d \in Clients : Runs(d)' = Runs(d) /\ Holds(d)' = Holds(d)
    BY DEF clientVars, Runs, Holds
<1>2. ASSUME NEW d \in Clients, NEW t \in Screens PROVE AsksInTurn(d, t)'
    <2>1. Shows(d, t)' => Shows(d, t)
        BY <1>1 DEF Shows
    <2> QED
        BY <1>1, <2>1, AsksStay DEF Turns, clientVars
<1>3. \A t \in Screens : output'[t] = "on" => global'[t] # 0
    BY DEF Turns
<1>4. \A d \in Clients, t \in Screens : HearsInTurn(d, t)'
    OBVIOUS
<1>5. /\ starts' \subseteq Clients /\ \A d \in starts' : ~Holds(d)'
      /\ \A d \in Clients, t \in Screens : ~Runs(d)' => knows'[d][t] = 0
    BY <1>1 DEF Turns, clientVars
<1> QED
    BY <1>2, <1>3, <1>4, <1>5 DEF Turns

\* A screen that comes or goes while it is off is told to nobody.
LEMMA QuietInTurn ==
    ASSUME WireInv, Turns, NEW s \in Screens, UNCHANGED <<global, knows, events>>,
           \A t \in Screens : There(t)' = There(t)
    PROVE  \A d \in Clients, t \in Screens : HearsInTurn(d, t)'
    BY HearsStay DEF Turns

\* Every lock screen that runs is told m, of s.
LEMMA ToldInTurn ==
    ASSUME WireInv, Turns, NEW s \in Screens, NEW g \in Nat \ {0}, UNCHANGED knows,
           NEW is \in {"global", "remove"},
           events' = [c \in Clients |->
                        IF Runs(c) THEN Append(events[c], About(is, s, g)) ELSE events[c]],
           \A t \in Screens \ {s} : There(t)' = There(t),
           \/ is = "remove" /\ There(s) \subseteq {g}
           \/ is = "global" /\ There(s) = {} /\ g \in There(s)'
    PROVE  \A d \in Clients, t \in Screens : HearsInTurn(d, t)'
<1> DEFINE m == About(is, s, g)
<1> SUFFICES ASSUME NEW d \in Clients, NEW t \in Screens PROVE HearsInTurn(d, t)'
    OBVIOUS
<1>1. m \in Message /\ m.is = is /\ m.of = s /\ m.global = g
    BY AboutIsMessage DEF About
<1>2. events[d] \in Seq(Message) /\ HearsInTurn(d, t)
    BY DEF Turns, WireInv, WireTypeInv
<1>3. CASE ~Runs(d)
    <2>1. Kinds(events[d]) = {} /\ knows'[d][t] = 0 /\ events'[d] = events[d]
        BY <1>3 DEF Turns, WireInv, Fit
    <2> QED
        BY <1>2, <2>1, NoKindsIsEmpty, HearsNothing
<1>4. CASE Runs(d)
    <2>1. events'[d] = events[d] \o <<m>>
        <3> HIDE DEF m
        <3>1. events'[d] = Append(events[d], m)
            BY <1>4 DEF m
        <3> QED
            BY <1>1, <1>2, <3>1
    <2>2. CASE t = s /\ is = "global"
        BY <1>2, <2>1, <2>2, HearsNew
    <2>3. CASE ~(t = s /\ is = "global")
        <3>1. ~Of(m, "global", t)
            BY <1>1, <2>3 DEF Of
        <3>2. \A h \in There(t) : h \in There(t)' \/ Gone(m, t, h)
            BY <1>1, <2>3 DEF Gone, Of
        <3> HIDE DEF m
        <3> QED
            BY <1>1, <1>2, <2>1, <3>1, <3>2, HearsMore
    <2> QED
        BY <2>2, <2>3
<1> QED
    BY <1>3, <1>4

\* A screen that changes: it is told where a global comes or goes.
LEMMA ChangeInTurn ==
    ASSUME LockInv, WireInv, Turns, NEW s \in Screens, Change(s) \/ Freed(s) PROVE Turns'
<1> USE DEF LockInv, LockTypeOK
<1>0. global \in [Screens -> Nat] /\ UNCHANGED <<starts, clientVars, requests>>
    BY DEF WireInv, WireTypeInv, Change, Freed
<1>1. CASE (Plug(s) \/ FreeScreen(s)) /\ UNCHANGED <<global, events>>
    <2>1. /\ UNCHANGED <<lock, abandoned, surface>> /\ output'[s] # "on"
          /\ \A t \in Screens \ {s} : output'[t] = output[t]
          /\ \A t \in Screens : There(t)' = There(t)
        BY <1>1 DEF Plug, FreeScreen, There
    <2> QED
        BY <1>0, <1>1, <2>1, QuietInTurn, ScreensInTurn DEF clientVars
<1>2. CASE Enable(s) /\ global' = [global EXCEPT ![s] = @ + 1] /\ Tell(s, "global")
    <2>1. /\ UNCHANGED <<lock, abandoned, surface>> /\ output'[s] = "on"
          /\ \A t \in Screens \ {s} : output'[t] = output[t] /\ global'[t] = global[t]
          /\ \A t \in Screens \ {s} : There(t)' = There(t)
          /\ There(s) = {} /\ global'[s] \in There(s)' /\ global'[s] \in Nat \ {0}
        BY <1>0, <1>2 DEF Enable, There
    <2>2. \A d \in Clients, t \in Screens : HearsInTurn(d, t)'
        BY <1>0, <1>2, <2>1, ToldInTurn DEF Tell, clientVars
    <2> QED
        BY <1>0, <2>1, <2>2, ScreensInTurn
<1>3. CASE (Disable(s) \/ Unplug(s)) /\ output[s] = "on" /\ UNCHANGED global /\ Tell(s, "remove")
    <2>1. /\ UNCHANGED <<lock, abandoned>> /\ output'[s] # "on"
          /\ \A t \in Screens : surface'[t] # "none" => surface[t] # "none"
          /\ \A t \in Screens \ {s} : output'[t] = output[t]
        BY <1>3 DEF Disable, Unplug
    <2>2. /\ \A t \in Screens \ {s} : There(t)' = There(t)
          /\ There(s) \subseteq {global'[s]} /\ global'[s] \in Nat \ {0}
        BY <1>0, <1>3, <2>1 DEF There, Turns
    <2>3. \A d \in Clients, t \in Screens : HearsInTurn(d, t)'
        BY <1>0, <1>3, <2>2, ToldInTurn DEF Tell, clientVars
    <2> QED
        BY <1>0, <1>3, <2>1, <2>3, ScreensInTurn
<1>4. CASE Unplug(s) /\ output[s] # "on" /\ UNCHANGED <<global, events>>
    <2>1. /\ UNCHANGED <<lock, abandoned>> /\ output'[s] # "on"
          /\ \A t \in Screens : surface'[t] # "none" => surface[t] # "none"
          /\ \A t \in Screens \ {s} : output'[t] = output[t]
          /\ \A t \in Screens : There(t)' = There(t)
        BY <1>4 DEF Unplug, There
    <2> QED
        BY <1>0, <1>4, <2>1, QuietInTurn, ScreensInTurn DEF clientVars
<1>5. Disable(s) => output[s] = "on"
    BY DEF Disable
<1> QED
    BY <1>1, <1>2, <1>3, <1>4, <1>5 DEF Change, Freed

LEMMA TurnsInit == Init => Turns
<1> SUFFICES ASSUME Init PROVE Turns
    OBVIOUS
<1>1. starts \subseteq Clients /\ \A c \in starts : ~Holds(c)
    BY LockingAssumption, SessionLockAssumption DEF Init, LockInit, Holds
<1>2. \A s \in Screens : output[s] = "on" => global[s] # 0
    BY DEF Init
<1>3. ASSUME NEW c \in Clients, NEW s \in Screens
      PROVE  AsksInTurn(c, s) /\ HearsInTurn(c, s) /\ knows[c][s] = 0
    <2>1. requests[c] = << >> /\ events[c] = << >> /\ knows[c][s] = 0 /\ ~Runs(c) /\ ~Shows(c, s)
        BY DEF Init, LockInit, Runs, Shows
    <2> QED
        BY <2>1 DEF AsksInTurn, HearsInTurn, AsksApart, GlobalsApart, GlobalsThere
<1> QED
    BY <1>1, <1>2, <1>3 DEF Turns

LEMMA TurnsStep == ASSUME LockInv, WireInv, Turns, [Next]_vars PROVE Turns'
<1>1. ASSUME NEW c \in Clients, Dispatch(c) PROVE Turns'
    <2>1. CASE Refused(c)
        BY <2>1, EndsInTurn DEF Refused
    <2>2. CASE Leave(c)
        BY <2>2, EndsInTurn DEF Leave
    <2> QED
        BY <1>1, <2>1, <2>2, LocksInTurn, ScreenEventsInTurn, FinishCheckInTurn DEF Dispatch
<1>2. ASSUME NEW c \in Clients, Crash(c) PROVE Turns'
    BY <1>2, EndsInTurn DEF Crash
<1>3. ASSUME NEW c \in Clients, Handle(c) PROVE Turns'
    BY <1>3, HandleLockInTurn, HandleUnlockInTurn, HandleSurfaceInTurn, HandleCommitInTurn,
       HandleDestroyInTurn DEF Handle
<1>4. CASE UNCHANGED vars
    <2>1. UNCHANGED <<lockVars, starts, global, phase, knows, requests, events>>
        BY <1>4 DEF vars, clientVars
    <2>2. ASSUME NEW d \in Clients, NEW s \in Screens PROVE AsksInTurn(d, s)' /\ HearsInTurn(d, s)'
        <3>1. There(s)' = There(s) /\ Shows(d, s)' = Shows(d, s) /\ Runs(d)' = Runs(d)
            BY <2>1 DEF There, Shows, Holds, lockVars, Runs
        <3> QED
            BY <2>1, <3>1, AsksStay, HearsStay DEF Turns
    <2>3. \A d \in Clients : Runs(d)' = Runs(d)
        BY <2>1 DEF Runs
    <2> QED
        BY <2>1, <2>2, <2>3 DEF Turns, Holds, lockVars
<1> QED
    BY <1>1, <1>2, <1>3, <1>4, StartInTurn, ChecksInTurn, ChangeInTurn DEF Next

\* A surface is only ever asked for on a screen that has a rectangle and none
\* yet (the asserts of handle_new_surface, sway/lock.c), although the lock screen
\* hears late of screens that go and come again.
THEOREM SurfacesAreAsExpected == Spec => []SurfacesAreExpected
<1>1. Init => Turns
    BY TurnsInit
<1>2. LockInv /\ WireInv /\ Turns /\ [Next]_vars => Turns'
    BY TurnsStep
<1>3. ASSUME LockInv, WireInv, Turns PROVE SurfacesAreExpected
    <2> SUFFICES ASSUME NEW c \in Clients, NEW s \in Screens, ReadsAbout(c, "surface", s),
                        IsLive(c, s, Head(requests[c]).global)
                 PROVE  Expected(s)
        BY DEF SurfacesAreExpected
    <2>1. s \in covered
        BY SessionLockAssumption, <1>3 DEF IsLive, LockInv, Covered, Plugged
    <2>2. Of(Head(requests[c]), "surface", s) /\ requests[c] # << >>
        BY DEF ReadsAbout, Reads, Of
    <2>3. ~DestroysFirst(requests[c], s)
        BY <1>3, <2>2, AsksOfTail DEF WireInv, WireTypeInv
    <2>4. ~Shows(c, s)
        BY <1>3, <2>3 DEF Turns, AsksInTurn
    <2>5. surface[s] = "none"
        BY <2>4 DEF Shows, Holds, IsLive
    <2> QED
        BY <2>1, <2>5 DEF Expected
<1> QED
    BY <1>1, <1>2, <1>3, LockInvariant, WireInvariant, PTL DEF Spec
=============================================================================
