--------------------------- MODULE WindowsProofs ---------------------------
(* What the windows of Windows keep, whatever the screens, desktops and windows:   *)
(* every desktop has a screen, and every window its slot and its way back.          *)
EXTENDS Windows, FiniteSetTheorems, WellFoundedInduction, TLAPS

(* No two desktops were looked at equally long ago, and none longer than there are  *)
(* others.                                                                          *)
Distinct(dk) == \A d, e \in Live(dk) : dk.age[d] = dk.age[e] => d = e
Bounded(dk) == \A d \in Live(dk) : dk.age[d] < Cardinality(Live(dk))
Ranked(dk) == Distinct(dk) /\ Bounded(dk)

\* No screen is on twice.
Once(row) == \A i, j \in DOMAIN row : row[i] = row[j] => i = j
----------------------------------------------------------------------------
(* The desktops of a screen, and the one it shows.                             *)

\* Some number of a set of naturals is the least.
LEMMA Least ==
    ASSUME NEW T \in SUBSET Nat, T # {}
    PROVE  \E x \in T : \A y \in T : x <= y
<1> DEFINE R == OpToRel(<, Nat)
<1>1. R = {ss \in Nat \X Nat : ss[1] < ss[2]}
    BY DEF OpToRel
<1>2. IsWellFoundedOn(R, Nat)
    BY NatLessThanWellFounded
<1> HIDE DEF R
<1>3. PICK x \in T : \A y \in T : ~ (<<y, x>> \in R)
    BY <1>2, WFMin
<1>4. ASSUME NEW y \in T PROVE x <= y
    <2>1. x \in Nat /\ y \in Nat /\ <<y, x>> \notin R
        BY <1>3
    <2>2. ~ (y < x)
        BY <1>1, <2>1
    <2> QED
        BY <2>1, <2>2
<1> QED
    BY <1>4

\* The desktops of a screen are live ones, and there are finitely many.
LEMMA OfIsLive ==
    ASSUME NEW dk \in Desktops
    PROVE  /\ Live(dk) \subseteq Desks
           /\ \A s \in Screens : Of(dk, s) \subseteq Live(dk)
           /\ \A s \in Screens : \A d \in Desks : d \in Of(dk, s) <=> dk.on[d] = s
           /\ \A d \in Desks : d \in Live(dk) <=> dk.on[d] # None
           /\ \A d \in Live(dk) : dk.on[d] \in Screens /\ d \in Of(dk, dk.on[d])
           /\ IsFiniteSet(Live(dk)) /\ Cardinality(Live(dk)) \in Nat
<1>1. Live(dk) \subseteq Desks
    BY DEF Live
<1>2. IsFiniteSet(Live(dk))
    BY <1>1, DesksAreFinite, FS_Subset
<1>3. Cardinality(Live(dk)) \in Nat
    BY <1>2, FS_CardinalityType
<1>4. None \notin Screens
    BY RowHoldsTheScreens
<1> QED
    BY <1>1, <1>2, <1>3, <1>4 DEF Live, Of, Desktops

\* A screen with a desktop shows one of its own, the one looked at last.
LEMMA ShownIs ==
    ASSUME NEW dk \in Desktops, NEW s, Of(dk, s) # {}
    PROVE  /\ Shown(dk, s) \in Of(dk, s)
           /\ \A e \in Of(dk, s) : dk.age[Shown(dk, s)] <= dk.age[e]
<1> DEFINE T == {dk.age[d] : d \in Of(dk, s)}
<1>1. T \in SUBSET Nat /\ T # {}
    BY DEF Of, Desktops
<1>2. PICK x \in T : \A y \in T : x <= y
    BY <1>1, Least
<1>3. PICK d \in Of(dk, s) : x = dk.age[d]
    BY <1>2
<1>4. \A e \in Of(dk, s) : dk.age[d] <= dk.age[e]
    BY <1>2, <1>3
<1> QED
    BY <1>4 DEF Shown

\* Only one is.
LEMMA ShownUnique ==
    ASSUME NEW dk \in Desktops, Distinct(dk), NEW s \in Screens, NEW d \in Of(dk, s),
           \A e \in Of(dk, s) : dk.age[d] <= dk.age[e]
    PROVE  Shown(dk, s) = d
<1>1. Shown(dk, s) \in Of(dk, s) /\ dk.age[Shown(dk, s)] <= dk.age[d]
    BY ShownIs
<1>2. dk.age[d] <= dk.age[Shown(dk, s)]
    BY <1>1
<1>3. dk.age[d] \in Nat /\ dk.age[Shown(dk, s)] \in Nat
    BY <1>1 DEF Of, Desktops
<1>4. dk.age[d] = dk.age[Shown(dk, s)]
    BY <1>1, <1>2, <1>3
<1>5. d \in Live(dk) /\ Shown(dk, s) \in Live(dk)
    BY <1>1, OfIsLive
<1> QED
    BY <1>4, <1>5 DEF Distinct

\* Counting those before each keeps the order, and the counts are less than there are.
LEMMA Counting ==
    ASSUME NEW L, IsFiniteSet(L), NEW age \in [L -> Nat],
           \A d, e \in L : age[d] = age[e] => d = e
    PROVE  LET n(d) == Cardinality({e \in L : age[e] < age[d]})
           IN  /\ \A d \in L : n(d) \in Nat /\ n(d) < Cardinality(L)
               /\ \A d, e \in L : age[d] < age[e] => n(d) < n(e)
               /\ \A d, e \in L : n(d) = n(e) => d = e
               /\ \A d, e \in L : age[d] <= age[e] <=> n(d) <= n(e)
<1> DEFINE P(d) == {e \in L : age[e] < age[d]}
           n(d) == Cardinality(P(d))
<1>1. \A d : IsFiniteSet(P(d)) /\ n(d) \in Nat
    <2> SUFFICES ASSUME NEW d PROVE IsFiniteSet(P(d)) /\ Cardinality(P(d)) \in Nat
        OBVIOUS
    <2>1. P(d) \in SUBSET L
        OBVIOUS
    <2> HIDE DEF P
    <2>2. IsFiniteSet(P(d))
        BY <2>1, FS_Subset
    <2> QED
        BY <2>2, FS_CardinalityType
<1>2. ASSUME NEW S, IsFiniteSet(S), NEW T \in SUBSET S, NEW x \in S, x \notin T
      PROVE  Cardinality(T) < Cardinality(S)
    <2>1. IsFiniteSet(T) /\ Cardinality(T) <= Cardinality(S) /\ (Cardinality(S) = Cardinality(T) => S = T)
        BY <1>2, FS_Subset
    <2>2. Cardinality(T) \in Nat /\ Cardinality(S) \in Nat
        BY <1>2, <2>1, FS_CardinalityType
    <2>3. Cardinality(T) # Cardinality(S)
        BY <1>2, <2>1
    <2> QED
        BY <2>1, <2>2, <2>3
<1>3. \A d \in L : n(d) < Cardinality(L)
    <2> SUFFICES ASSUME NEW d \in L PROVE Cardinality(P(d)) < Cardinality(L)
        OBVIOUS
    <2>1. P(d) \in SUBSET L /\ d \notin P(d)
        OBVIOUS
    <2> HIDE DEF P
    <2> QED
        BY <2>1, <1>2
<1>4. \A d, e \in L : age[d] < age[e] => n(d) < n(e)
    <2> SUFFICES ASSUME NEW d \in L, NEW e \in L, age[d] < age[e]
                 PROVE  Cardinality(P(d)) < Cardinality(P(e))
        OBVIOUS
    <2>1. P(d) \in SUBSET P(e) /\ d \in P(e) /\ d \notin P(d)
        OBVIOUS
    <2>2. IsFiniteSet(P(e))
        BY <1>1
    <2> HIDE DEF P
    <2> QED
        BY <2>1, <2>2, <1>2
<1>5. \A d, e \in L : n(d) = n(e) => d = e
    <2> SUFFICES ASSUME NEW d \in L, NEW e \in L, n(d) = n(e) PROVE d = e
        OBVIOUS
    <2>1. n(d) \in Nat /\ n(e) \in Nat
        BY <1>1
    <2> HIDE DEF n
    <2>2. ~ (age[d] < age[e]) /\ ~ (age[e] < age[d])
        BY <1>4, <2>1
    <2>3. age[d] = age[e]
        BY <2>2
    <2> QED
        BY <2>3
<1>6. \A d, e \in L : age[d] <= age[e] <=> n(d) <= n(e)
    <2> SUFFICES ASSUME NEW d \in L, NEW e \in L PROVE age[d] <= age[e] <=> n(d) <= n(e)
        OBVIOUS
    <2>1. n(d) \in Nat /\ n(e) \in Nat
        BY <1>1
    <2>2. age[d] < age[e] => n(d) < n(e)
        BY <1>4
    <2>3. age[e] < age[d] => n(e) < n(d)
        BY <1>4
    <2>4. age[d] = age[e] => n(d) = n(e)
        OBVIOUS
    <2> HIDE DEF n
    <2> QED
        BY <2>1, <2>2, <2>3, <2>4
<1> QED
    BY <1>1, <1>3, <1>4, <1>5, <1>6
----------------------------------------------------------------------------
(* What becomes of the desktops.                                               *)

\* Desktops that go leave the others on their screens and in their order.
LEMMA DestroyKeeps ==
    ASSUME NEW dk \in Desktops, Distinct(dk), NEW gone, NEW out, out = Destroy(dk, gone)
    PROVE  /\ out \in Desktops /\ Ranked(out)
           /\ Live(out) = Live(dk) \ gone
           /\ \A d \in Live(out) : out.on[d] = dk.on[d] /\ out.priority[d] = dk.priority[d]
           /\ \A d, e \in Live(out) : dk.age[d] <= dk.age[e] <=> out.age[d] <= out.age[e]
           /\ \A s \in Screens : Of(out, s) = Of(dk, s) \ gone
<1> DEFINE left == Live(dk) \ gone
           n(d) == Cardinality({e \in left : dk.age[e] < dk.age[d]})
           age == [d \in left |-> dk.age[d]]
           m(d) == Cardinality({e \in left : age[e] < age[d]})
<1>1. left \subseteq Desks /\ IsFiniteSet(left) /\ None \notin Screens
    BY OfIsLive, FS_Difference, RowHoldsTheScreens
<1>2. age \in [left -> Nat] /\ \A d, e \in left : age[d] = age[e] => d = e
    BY <1>1 DEF Desktops, Distinct
<1>3. \A d \in left : m(d) = n(d)
    <2> SUFFICES ASSUME NEW d \in left
                 PROVE  {e \in left : age[e] < age[d]} = {e \in left : dk.age[e] < dk.age[d]}
        OBVIOUS
    <2> QED
        OBVIOUS
<1>4. /\ \A d \in left : m(d) \in Nat /\ m(d) < Cardinality(left)
      /\ \A d, e \in left : m(d) = m(e) => d = e
      /\ \A d, e \in left : age[d] <= age[e] <=> m(d) <= m(e)
    <2> HIDE DEF left, age
    <2> QED
        BY <1>1, <1>2, Counting
<1>5. /\ \A d \in left : n(d) \in Nat /\ n(d) < Cardinality(left)
      /\ \A d, e \in left : n(d) = n(e) => d = e
      /\ \A d, e \in left : dk.age[d] <= dk.age[e] <=> n(d) <= n(e)
    <2> HIDE DEF m, n
    <2> QED
        BY <1>3, <1>4
<1> HIDE DEF n
<1>6. out = [on |-> [d \in Desks |-> IF d \in gone THEN None ELSE dk.on[d]],
             priority |-> [d \in Desks |-> IF d \in gone THEN <<>> ELSE dk.priority[d]],
             age |-> [d \in Desks |-> IF d \in left THEN n(d) ELSE 0],
             keep |-> dk.keep \ gone]
    BY DEF Destroy, Desktops, n
<1>7. Live(out) = left
    BY <1>6 DEF Live
<1>8. out \in Desktops
    BY <1>5, <1>6 DEF Desktops
<1>9. \A d \in Live(out) : out.age[d] = n(d) /\ out.on[d] = dk.on[d] /\ out.priority[d] = dk.priority[d]
    BY <1>1, <1>6, <1>7
<1>10. \A s \in Screens : Of(out, s) = Of(dk, s) \ gone
    BY <1>1, <1>6 DEF Of
<1> HIDE DEF left
<1>11. Ranked(out)
    BY <1>5, <1>7, <1>9 DEF Ranked, Distinct, Bounded
<1>12. \A d, e \in Live(out) : dk.age[d] <= dk.age[e] <=> out.age[d] <= out.age[e]
    BY <1>5, <1>7, <1>9
<1> QED
    BY <1>7, <1>8, <1>9, <1>10, <1>11, <1>12 DEF left

\* A screen goes on showing what it showed, unless that went.
LEMMA ShownStays ==
    ASSUME NEW dk \in Desktops, Distinct(dk), NEW gone, NEW out, out = Destroy(dk, gone),
           NEW s \in Screens, Of(dk, s) # {}, Shown(dk, s) \notin gone
    PROVE  Of(out, s) # {} /\ Shown(out, s) = Shown(dk, s)
<1> DEFINE d == Shown(dk, s)
<1>1. d \in Of(dk, s) /\ \A e \in Of(dk, s) : dk.age[d] <= dk.age[e]
    BY ShownIs
<1>2. /\ out \in Desktops /\ Distinct(out) /\ Of(out, s) = Of(dk, s) \ gone
      /\ Live(out) = Live(dk) \ gone
      /\ \A a, b \in Live(out) : dk.age[a] <= dk.age[b] <=> out.age[a] <= out.age[b]
    BY DestroyKeeps DEF Ranked
<1>3. Of(out, s) \subseteq Live(out)
    BY <1>2, OfIsLive
<1>4. d \in Of(out, s)
    BY <1>1, <1>2
<1> HIDE DEF d
<1>5. \A e \in Of(out, s) : out.age[d] <= out.age[e]
    BY <1>1, <1>2, <1>3, <1>4
<1>6. Shown(out, s) = d
    BY <1>2, <1>4, <1>5, ShownUnique
<1> QED
    BY <1>4, <1>6 DEF d

\* Only empty desktops nobody looks at go: all windows stay where they are, and all
\* screens show what they showed.
LEMMA ConsiderKeeps ==
    ASSUME NEW dk \in Desktops, Distinct(dk), NEW win, NEW some, NEW out,
           out = ConsiderDestroy(dk, win, some)
    PROVE  /\ out \in Desktops /\ Ranked(out)
           /\ Live(out) \subseteq Live(dk)
           /\ \A d \in Live(out) : out.on[d] = dk.on[d]
           /\ \A w \in Windows : win[w].desk \in Live(dk) => win[w].desk \in Live(out)
           /\ \A s \in Screens : Of(dk, s) # {} => Of(out, s) # {} /\ Shown(out, s) = Shown(dk, s)
<1> DEFINE gone == {d \in some : /\ d \in Live(dk) /\ Empty(win, d) /\ d \notin dk.keep
                                 /\ Shown(dk, dk.on[d]) # d}
<1>1. out = Destroy(dk, gone)
    BY DEF ConsiderDestroy
<1>2. \A w \in Windows : win[w].desk \notin gone
    BY DEF Empty
<1>3. \A s \in Screens : Of(dk, s) # {} => Shown(dk, s) \notin gone
    <2> SUFFICES ASSUME NEW s \in Screens, Of(dk, s) # {} PROVE Shown(dk, s) \notin gone
        OBVIOUS
    <2>1. dk.on[Shown(dk, s)] = s
        BY ShownIs DEF Of
    <2> QED
        BY <2>1
<1> HIDE DEF gone
<1>4. \A s \in Screens : Of(dk, s) # {} => Of(out, s) # {} /\ Shown(out, s) = Shown(dk, s)
    BY <1>1, <1>3, ShownStays
<1>5. /\ out \in Desktops /\ Ranked(out) /\ Live(out) = Live(dk) \ gone
      /\ \A d \in Live(out) : out.on[d] = dk.on[d]
    BY <1>1, DestroyKeeps
<1> QED
    BY <1>2, <1>4, <1>5

\* Looking at a desktop changes nothing but the order.
LEMMA RaiseKeeps ==
    ASSUME NEW dk \in Desktops, Ranked(dk), NEW d \in Live(dk), NEW out, out = Raise(dk, d)
    PROVE  /\ out \in Desktops /\ Ranked(out)
           /\ out.on = dk.on /\ Live(out) = Live(dk)
           /\ \A s : Of(out, s) = Of(dk, s)
<1> DEFINE age(e) == IF e = d THEN 0
                     ELSE IF e \in Live(dk) /\ dk.age[e] < dk.age[d] THEN dk.age[e] + 1 ELSE dk.age[e]
<1>1. out = [on |-> dk.on, priority |-> dk.priority, age |-> [e \in Desks |-> age(e)], keep |-> dk.keep]
    BY DEF Raise, Desktops
<1>2. Live(dk) \subseteq Desks /\ Cardinality(Live(dk)) \in Nat
    BY OfIsLive
<1>3. \A e \in Desks : dk.age[e] \in Nat /\ age(e) \in Nat
    BY DEF Desktops
<1>4. out \in Desktops
    <2> HIDE DEF age
    <2> QED
        BY <1>1, <1>3 DEF Desktops
<1>5. out.on = dk.on /\ Live(out) = Live(dk) /\ \A s : Of(out, s) = Of(dk, s)
    BY <1>1 DEF Live, Of
<1>6. \A e \in Live(dk) : out.age[e] = age(e)
    BY <1>1, <1>2
<1>7. \A e, f \in Live(dk) : age(e) = age(f) => e = f
    BY <1>2, <1>3 DEF Ranked, Distinct
<1>8. \A e \in Live(dk) : age(e) < Cardinality(Live(dk))
    <2> SUFFICES ASSUME NEW e \in Live(dk) PROVE age(e) < Cardinality(Live(dk))
        OBVIOUS
    <2>1. dk.age[e] < Cardinality(Live(dk)) /\ dk.age[d] < Cardinality(Live(dk))
        BY DEF Ranked, Bounded
    <2>2. dk.age[e] \in Nat /\ dk.age[d] \in Nat
        BY <1>2, <1>3
    <2> QED
        BY <1>2, <2>1, <2>2
<1> HIDE DEF age
<1> QED
    BY <1>4, <1>5, <1>6, <1>7, <1>8 DEF Ranked, Distinct, Bounded

\* New desktops come behind the others, each after those of the screens before its own.
LEMMA CreateKeeps ==
    ASSUME NEW dk \in Desktops, Ranked(dk), NEW row \in Seq(Screens),
           NEW fresh, fresh \subseteq Desks \ Live(dk), NEW bare, bare \subseteq ToSet(row),
           NEW new \in Bijection(fresh, bare), NEW out, out = Create(dk, new, row), Once(row)
    PROVE  /\ out \in Desktops /\ Ranked(out)
           /\ Live(out) = Live(dk) \cup fresh
           /\ \A d \in fresh : out.on[d] = new[d]
           /\ \A d \in Desks \ fresh : out.on[d] = dk.on[d]
<1> DEFINE place(s) == CHOOSE i \in DOMAIN row : row[i] = s
           age == [d \in fresh |-> place(new[d])]
           P(d) == {e \in fresh : \E i, j \in DOMAIN row : i < j /\ row[i] = new[e] /\ row[j] = new[d]}
           n(d) == Cardinality(P(d))
           m(d) == Cardinality({e \in fresh : age[e] < age[d]})
           N == Cardinality(Live(dk))
<1>1. /\ fresh \subseteq Desks /\ fresh \cap Live(dk) = {} /\ IsFiniteSet(fresh)
      /\ Live(dk) \subseteq Desks /\ N \in Nat /\ IsFiniteSet(Live(dk)) /\ None \notin Screens
    <2>1. fresh \subseteq Desks /\ fresh \cap Live(dk) = {}
        OBVIOUS
    <2> QED
        BY <2>1, OfIsLive, DesksAreFinite, FS_Subset, RowHoldsTheScreens
<1>2. /\ DOMAIN new = fresh
      /\ \A d \in fresh : new[d] \in bare
      /\ \A d, e \in fresh : new[d] = new[e] => d = e
    BY DEF Bijection, Injection, Surjection, IsInjective
<1>3. \A s \in ToSet(row) : place(s) \in DOMAIN row /\ row[place(s)] = s
    BY DEF ToSet
<1>4. DOMAIN row \subseteq Nat /\ \A s \in ToSet(row) : s \in Screens
    BY DEF ToSet
<1> HIDE DEF place
<1>5. age \in [fresh -> Nat] /\ \A d, e \in fresh : age[d] = age[e] => d = e
    <2>1. \A d \in fresh : new[d] \in ToSet(row) /\ age[d] = place(new[d])
        BY <1>2
    <2>2. \A d \in fresh : place(new[d]) \in Nat
        BY <1>3, <1>4, <2>1
    <2>3. ASSUME NEW d \in fresh, NEW e \in fresh, age[d] = age[e] PROVE d = e
        <3>1. new[d] = new[e]
            BY <1>3, <2>1, <2>3
        <3> QED
            BY <1>2, <3>1
    <2> QED
        BY <2>2, <2>3
<1>6. \A d \in fresh : m(d) = n(d)
    <2> SUFFICES ASSUME NEW d \in fresh PROVE {e \in fresh : age[e] < age[d]} = P(d)
        OBVIOUS
    <2> SUFFICES ASSUME NEW e \in fresh
                 PROVE  age[e] < age[d] <=>
                          \E i, j \in DOMAIN row : i < j /\ row[i] = new[e] /\ row[j] = new[d]
        OBVIOUS
    <2>1. /\ new[d] \in ToSet(row) /\ new[e] \in ToSet(row)
          /\ age[d] = place(new[d]) /\ age[e] = place(new[e])
        BY <1>2
    <2>2. /\ age[d] \in DOMAIN row /\ row[age[d]] = new[d]
          /\ age[e] \in DOMAIN row /\ row[age[e]] = new[e]
        BY <1>3, <2>1
    <2> HIDE DEF age
    <2> QED
        BY <2>2 DEF Once
<1>7. /\ \A d \in fresh : m(d) \in Nat /\ m(d) < Cardinality(fresh)
      /\ \A d, e \in fresh : m(d) = m(e) => d = e
    <2> HIDE DEF age
    <2> QED
        BY <1>1, <1>5, Counting
<1>8. /\ \A d \in fresh : n(d) \in Nat /\ n(d) < Cardinality(fresh)
      /\ \A d, e \in fresh : n(d) = n(e) => d = e
    <2> HIDE DEF m, n
    <2> QED
        BY <1>6, <1>7
<1>9. out = [on |-> [d \in Desks |-> IF d \in fresh THEN new[d] ELSE dk.on[d]],
             priority |-> [d \in Desks |-> IF d \in fresh THEN <<new[d]>> ELSE dk.priority[d]],
             age |-> [d \in Desks |-> IF d \in fresh THEN N + n(d) ELSE dk.age[d]],
             keep |-> dk.keep]
    BY <1>2 DEF Create, Desktops
<1> HIDE DEF n
<1>10. \A d \in fresh : new[d] \in Screens
    BY <1>2, <1>4
<1>11. out \in Desktops
    <2>1. \A d \in Desks : (IF d \in fresh THEN N + n(d) ELSE dk.age[d]) \in Nat
        BY <1>1, <1>8 DEF Desktops
    <2>2. \A d \in Desks : (IF d \in fresh THEN <<new[d]>> ELSE dk.priority[d]) \in Seq(Screens)
        BY <1>10 DEF Desktops
    <2>3. \A d \in Desks : (IF d \in fresh THEN new[d] ELSE dk.on[d]) \in Screens \cup {None}
        BY <1>10 DEF Desktops
    <2>4. dk.keep \in SUBSET Desks
        BY DEF Desktops
    <2> HIDE DEF N
    <2> QED
        BY <1>9, <2>1, <2>2, <2>3, <2>4 DEF Desktops
<1>12. Live(out) = Live(dk) \cup fresh
    BY <1>1, <1>9, <1>10 DEF Live
<1>13. /\ \A d \in fresh : out.on[d] = new[d] /\ out.age[d] = N + n(d)
       /\ \A d \in Desks \ fresh : out.on[d] = dk.on[d] /\ out.age[d] = dk.age[d]
    BY <1>1, <1>9
<1>14. Cardinality(fresh) \in Nat /\ Cardinality(Live(out)) = N + Cardinality(fresh)
    <2>1. Cardinality(Live(dk) \cap fresh) = 0
        BY <1>1, FS_EmptySet
    <2>2. Cardinality(fresh) \in Nat
        BY <1>1, FS_CardinalityType
    <2>3. Cardinality(Live(dk) \cup fresh) = N + Cardinality(fresh) - Cardinality(Live(dk) \cap fresh)
        BY <1>1, FS_Union
    <2> QED
        BY <1>1, <1>12, <2>1, <2>2, <2>3
<1>15. \A d \in Live(dk) : dk.age[d] \in Nat /\ dk.age[d] < N /\ out.age[d] = dk.age[d]
    BY <1>1, <1>13 DEF Ranked, Bounded, Desktops
<1>16. \A d, e \in Live(dk) : dk.age[d] = dk.age[e] => d = e
    BY DEF Ranked, Distinct
<1> HIDE DEF N
<1>17. Ranked(out)
    BY <1>1, <1>8, <1>12, <1>13, <1>14, <1>15, <1>16 DEF Ranked, Distinct, Bounded
<1> QED
    BY <1>11, <1>12, <1>13, <1>17

\* The first screen of a desktop's list that is on is one that is on.
LEMMA HighestIsOn ==
    ASSUME NEW dk \in Desktops, NEW d \in Desks, NEW out
    PROVE  Highest(dk, d, out) \in ToSet(out) \cup {None}
<1> DEFINE p == dk.priority[d]
           there == {i \in DOMAIN p : p[i] \in ToSet(out)}
<1>1. p \in Seq(Screens)
    BY DEF Desktops
<1>2. there \in SUBSET Nat
    BY <1>1
<1>3. CASE there = {}
    BY <1>3 DEF Highest
<1>4. CASE there # {}
    <2> DEFINE i == CHOOSE k \in there : \A j \in there : k <= j
    <2>1. \E k \in there : \A j \in there : k <= j
        <3> HIDE DEF there
        <3> QED
            BY <1>2, <1>4, Least
    <2>2. i \in there
        <3> HIDE DEF there
        <3> QED
            BY <2>1
    <2>3. Highest(dk, d, out) = p[i]
        BY <1>4 DEF Highest
    <2> HIDE DEF i
    <2> QED
        BY <2>2, <2>3
<1> QED
    BY <1>3, <1>4

\* A screen that goes is gone, where none is there twice.
LEMMA OneLess ==
    ASSUME NEW out \in Seq(Screens), NEW i \in DOMAIN out, NEW less, less = RemoveAt(out, i),
           Once(out)
    PROVE  /\ less \in Seq(Screens) /\ Once(less)
           /\ ToSet(less) = ToSet(out) \ {out[i]}
<1> DEFINE n == Len(out)
           a == SubSeq(out, 1, i - 1)
           b == SubSeq(out, i + 1, n)
<1>1. n \in Nat /\ i \in 1 .. n /\ DOMAIN out = 1 .. n
    OBVIOUS
<1>2. /\ a \in Seq(Screens) /\ Len(a) = i - 1 /\ \A j \in 1 .. i - 1 : a[j] = out[j]
      /\ b \in Seq(Screens) /\ Len(b) = n - i /\ \A j \in 1 .. n - i : b[j] = out[i + j]
    <2>1. a \in Seq(Screens) /\ Len(a) = i - 1 /\ \A j \in 1 .. i - 1 : a[j] = out[j]
        BY <1>1
    <2>2. b \in Seq(Screens) /\ Len(b) = n - i /\ \A j \in 1 .. n - i : b[j] = out[i + 1 + j - 1]
        BY <1>1
    <2>3. \A j \in 1 .. n - i : i + 1 + j - 1 = i + j
        BY <1>1
    <2> QED
        BY <2>1, <2>2, <2>3
<1>3. less = a \o b
    BY DEF RemoveAt
<1> HIDE DEF a, b, n
<1>4. /\ less \in Seq(Screens) /\ Len(less) = n - 1 /\ DOMAIN less = 1 .. n - 1
      /\ \A j \in 1 .. n - 1 : less[j] = IF j < i THEN out[j] ELSE out[j + 1]
    <2>1. less \in Seq(Screens) /\ Len(less) = Len(a) + Len(b)
        <3>1. a \in Seq(Screens) /\ b \in Seq(Screens)
            BY <1>2
        <3> QED
            BY <1>3, <3>1
    <2>2. Len(less) = n - 1
        BY <1>1, <1>2, <2>1
    <2>3. ASSUME NEW j \in 1 .. n - 1 PROVE less[j] = IF j < i THEN out[j] ELSE out[j + 1]
        <3>1. less[j] = IF j <= Len(a) THEN a[j] ELSE b[j - Len(a)]
            BY <1>1, <1>2, <1>3
        <3>2. CASE j < i
            <4>1. j <= Len(a) /\ j \in 1 .. i - 1
                BY <1>1, <1>2, <3>2
            <4> QED
                BY <1>2, <3>1, <3>2, <4>1
        <3>3. CASE ~ (j < i)
            <4>1. ~ (j <= Len(a)) /\ j - Len(a) = j - i + 1 /\ j - i + 1 \in 1 .. n - i
                BY <1>1, <1>2, <3>3
            <4>2. b[j - i + 1] = out[i + (j - i + 1)] /\ i + (j - i + 1) = j + 1
                BY <1>1, <1>2, <4>1
            <4> QED
                BY <3>1, <3>3, <4>1, <4>2
        <3> QED
            BY <3>2, <3>3
    <2> QED
        BY <1>1, <2>1, <2>2, <2>3
<1>5. Once(less)
    <2>1. \A j, k \in 1 .. n : out[j] = out[k] => j = k
        BY <1>1 DEF Once
    <2>2. ASSUME NEW j \in 1 .. n - 1, NEW k \in 1 .. n - 1, less[j] = less[k] PROVE j = k
        BY <1>1, <1>4, <2>1, <2>2
    <2> QED
        BY <1>4, <2>2 DEF Once
<1>6. ASSUME NEW s \in ToSet(less) PROVE s \in ToSet(out) \ {out[i]}
    <2>1. PICK j \in 1 .. n - 1 : s = less[j]
        BY <1>4, <1>6 DEF ToSet
    <2>2. PICK k \in 1 .. n : k # i /\ s = out[k]
        BY <1>1, <1>4, <2>1
    <2> QED
        BY <1>1, <2>2 DEF ToSet, Once
<1>7. ASSUME NEW s \in ToSet(out) \ {out[i]} PROVE s \in ToSet(less)
    <2>1. PICK k \in 1 .. n : s = out[k] /\ k # i
        BY <1>1, <1>7 DEF ToSet
    <2>2. CASE k < i
        <3>1. k \in 1 .. n - 1 /\ less[k] = s
            BY <1>1, <1>4, <2>1, <2>2
        <3> QED
            BY <1>4, <3>1 DEF ToSet
    <2>3. CASE ~ (k < i)
        <3>1. k - 1 \in 1 .. n - 1 /\ ~ (k - 1 < i) /\ (k - 1) + 1 = k
            BY <1>1, <2>1, <2>3
        <3>2. less[k - 1] = s
            BY <1>4, <2>1, <3>1
        <3> QED
            BY <1>4, <3>1, <3>2 DEF ToSet
    <2> QED
        BY <2>2, <2>3
<1> QED
    BY <1>4, <1>5, <1>6, <1>7
----------------------------------------------------------------------------
(* What becomes of a window.                                                   *)

\* On screen s: free, or in its slot and with the place it had, p, to go back to.
Placed(c, s, p) ==
    IF c.as = "free" THEN c.box.at = s
    ELSE c.box = At(s, c.as) /\ (p # None => c.restore = At(s, p))

\* What it has to go back to, wherever it lies now.
WayBack(c, s, p) == c.as # "free" /\ p # None => c.restore = At(s, p)

\* The place of one that lies free is known.
Noted(c, p) == c.as = "free" => p = c.box.place

\* The fields of a window, and the boxes there are.
LEMMA Fields ==
    ASSUME NEW c \in Containers
    PROVE  /\ c.desk \in Desks /\ c.as \in Slots \cup {"free"} /\ c.box \in Boxes
           /\ c.restore \in Boxes /\ c.home \in Homes
           /\ c = [desk |-> c.desk, as |-> c.as, box |-> c.box, restore |-> c.restore, home |-> c.home]
    BY DEF Containers

LEMMA AtIsBox ==
    /\ NoBox \in Boxes /\ NoHome \in Homes
    /\ \A s \in Screens, p \in Marks : At(s, p) \in Boxes
    /\ \A s, p : At(s, p).at = s /\ At(s, p).place = p
    /\ \A b \in Boxes : b.at \in Screens \cup {None} /\ b.place \in Marks
    /\ \A b \in Boxes : \A s : b.at = s => b = At(s, b.place)
    /\ Slots \subseteq Marks /\ "middle" \in Marks /\ "edge" \in Marks /\ None \in Marks
    /\ Places \subseteq Marks
<1>1. NoBox \in Boxes
    BY DEF NoBox, Boxes, Marks
<1>2. NoHome \in Homes
    BY <1>1 DEF NoHome, Homes
<1> QED
    BY <1>1, <1>2 DEF Boxes, Marks, At

\* A window with another box and another way back.
LEMMA Edited ==
    ASSUME NEW c \in Containers, NEW b, NEW r
    PROVE  [c EXCEPT !.restore = r, !.box = b]
              = [desk |-> c.desk, as |-> c.as, box |-> b, restore |-> r, home |-> c.home]
<1>1. c = [desk |-> c.desk, as |-> c.as, box |-> c.box, restore |-> c.restore, home |-> c.home]
    BY Fields
<1>2. [c EXCEPT !.restore = r, !.box = b]
        = [desk |-> c.desk, as |-> c.as, box |-> b, restore |-> r, home |-> c.home]
    <2> DEFINE e == [c EXCEPT !.restore = r, !.box = b]
    <2>1. DOMAIN e = {"desk", "as", "box", "restore", "home"}
        BY <1>1
    <2>2. e.desk = c.desk /\ e.as = c.as /\ e.box = b /\ e.restore = r /\ e.home = c.home
        BY <1>1
    <2>3. e = [x \in DOMAIN e |-> e[x]]
        OBVIOUS
    <2> HIDE DEF e
    <2>4. e = [desk |-> c.desk, as |-> c.as, box |-> b, restore |-> r, home |-> c.home]
        BY <2>1, <2>2, <2>3
    <2> QED
        BY <2>4 DEF e
<1> QED
    BY <1>2

LEMMA FitIsThere ==
    ASSUME NEW b \in Boxes, NEW s \in Screens
    PROVE  /\ Fit(b, s) \in Boxes /\ Fit(b, s).at = s
           /\ \A p : b = At(s, p) => Fit(b, s) = At(s, p)
    BY AtIsBox DEF Fit

LEMMA CarryIsThere ==
    ASSUME NEW b \in Boxes, NEW from, NEW to \in Screens
    PROVE  /\ Carry(b, from, to) \in Boxes /\ Carry(b, from, to).at = to
           /\ \A p : b = At(from, p) => Carry(b, from, to) = At(to, p)
    BY AtIsBox DEF Carry

\* A window that comes to another screen takes its slot and its way back along.
LEMMA ScreenChangedKeeps ==
    ASSUME NEW c \in Containers, NEW from, NEW to \in Screens, NEW o, o = ScreenChanged(c, from, to)
    PROVE  /\ o \in Containers /\ o.desk = c.desk /\ o.as = c.as /\ o.home = c.home
           /\ \A p : WayBack(c, from, p) => Placed(o, to, p)
           /\ \A p : Placed(c, from, p) => Placed(o, to, p)
<1> DEFINE restore == IF c.as = "free" THEN NoBox ELSE Carry(c.restore, from, to)
           box == IF c.as = "free" THEN Carry(c.box, from, to) ELSE At(to, c.as)
<1>1. o = [desk |-> c.desk, as |-> c.as, box |-> box, restore |-> restore, home |-> c.home]
    <2>1. o = [c EXCEPT !.restore = restore, !.box = box]
        BY DEF ScreenChanged
    <2> HIDE DEF restore, box
    <2> QED
        BY <2>1, Edited
<1>2. restore \in Boxes /\ box \in Boxes
    BY Fields, AtIsBox, CarryIsThere
<1>3. o \in Containers
    <2> HIDE DEF restore, box
    <2> QED
        BY <1>1, <1>2, Fields DEF Containers
<1>4. ASSUME NEW p, WayBack(c, from, p) PROVE Placed(o, to, p)
    <2>1. CASE c.as = "free"
        <3>1. o.as = "free" /\ o.box = Carry(c.box, from, to)
            BY <1>1, <2>1
        <3> QED
            BY <3>1, Fields, CarryIsThere DEF Placed
    <2>2. CASE c.as # "free"
        <3>1. o.as = c.as /\ o.box = At(to, c.as) /\ o.restore = Carry(c.restore, from, to)
            BY <1>1, <2>2
        <3>2. p # None => c.restore = At(from, p)
            BY <1>4, <2>2 DEF WayBack
        <3> QED
            BY <2>2, <3>1, <3>2, Fields, CarryIsThere DEF Placed
    <2> QED
        BY <2>1, <2>2
<1>5. \A p : Placed(c, from, p) => WayBack(c, from, p)
    BY DEF Placed, WayBack
<1> HIDE DEF restore, box
<1> QED
    BY <1>1, <1>3, <1>4, <1>5

\* Windows that move to other desktops do the same.
LEMMA MovedKeeps ==
    ASSUME NEW dk \in Desktops, NEW c \in Containers, c.desk \in Live(dk), NEW d \in Live(dk),
           NEW o, o = Moved(dk, c, d)
    PROVE  /\ o \in Containers /\ o.desk = d /\ o.as = c.as /\ o.home = c.home
           /\ \A p : Placed(c, dk.on[c.desk], p) => Placed(o, dk.on[d], p)
<1>1. CASE c.desk = d
    BY <1>1 DEF Moved
<1>2. CASE c.desk # d
    <2> DEFINE b == [c EXCEPT !.desk = d]
    <2>1. b = [desk |-> d, as |-> c.as, box |-> c.box, restore |-> c.restore, home |-> c.home]
        BY Fields
    <2>2. b \in Containers
        BY <2>1, Fields, OfIsLive DEF Containers
    <2>3. \A p : Placed(c, dk.on[c.desk], p) => Placed(b, dk.on[c.desk], p)
        BY <2>1 DEF Placed
    <2>4. o = ScreenChanged(b, dk.on[c.desk], dk.on[d]) /\ dk.on[d] \in Screens
        BY <1>2, OfIsLive DEF Moved
    <2>5. b.desk = d /\ b.as = c.as /\ b.home = c.home
        BY <2>1
    <2> HIDE DEF b
    <2> QED
        BY <2>2, <2>3, <2>4, <2>5, ScreenChangedKeeps
<1> QED
    BY <1>1, <1>2

\* Into a slot, out of it, or from one to the other: the place to go back to is kept.
LEMMA SnapKeeps ==
    ASSUME NEW c \in Containers, NEW s \in Screens, NEW slot \in Slots \cup {"free"},
           NEW o, o = SnapTo(c, slot, s)
    PROVE  /\ o \in Containers /\ o.desk = c.desk /\ o.as = slot /\ o.home = c.home
           /\ c.as = "free" /\ slot = "free" => o = c
           /\ c.as = "free" /\ slot # "free" => o.box = At(s, slot) /\ o.restore = c.box
           /\ \A p : Placed(c, s, p) /\ Noted(c, p) => Placed(o, s, p)
<1>1. CASE slot = "free"
    <2>0. o = Restore(c, s)
        BY <1>1 DEF SnapTo
    <2>1. CASE c.as = "free"
        BY <1>1, <2>0, <2>1 DEF Restore
    <2>2. CASE c.as # "free"
        <3>1. o = [desk |-> c.desk, as |-> "free", box |-> Fit(c.restore, s), restore |-> NoBox, home |-> c.home]
            BY <2>0, <2>2, Fields DEF Restore
        <3>2. Fit(c.restore, s) \in Boxes /\ Fit(c.restore, s).at = s
            BY Fields, FitIsThere
        <3>3. o \in Containers
            BY <3>1, <3>2, AtIsBox, Fields DEF Containers
        <3> QED
            BY <1>1, <2>2, <3>1, <3>2, <3>3 DEF Placed
    <2> QED
        BY <2>1, <2>2
<1>2. CASE slot # "free" /\ ~ (slot = "full" /\ c.as = "full")
    <2> DEFINE restore == IF c.as = "free" THEN c.box ELSE c.restore
    <2>1. o = [desk |-> c.desk, as |-> slot, box |-> At(s, slot), restore |-> restore, home |-> c.home]
        <3>1. o = [c EXCEPT !.restore = restore, !.as = slot, !.box = At(s, slot)]
            BY <1>2 DEF SnapTo, Maximize
        <3> HIDE DEF restore
        <3>2. DOMAIN o = {"desk", "as", "box", "restore", "home"}
            BY <3>1, Fields
        <3>3. o.desk = c.desk /\ o.as = slot /\ o.box = At(s, slot) /\ o.restore = restore /\ o.home = c.home
            BY <3>1, Fields
        <3>4. o = [x \in DOMAIN o |-> o[x]]
            BY <3>1
        <3> QED
            BY <3>2, <3>3, <3>4
    <2>2. At(s, slot) \in Boxes /\ restore \in Boxes
        BY <1>2, Fields, AtIsBox
    <2>3. o \in Containers
        <3> HIDE DEF restore
        <3> QED
            BY <2>1, <2>2, Fields DEF Containers
    <2>4. o.as = slot /\ o.box = At(s, slot) /\ o.restore = restore
        BY <2>1
    <2>5. ASSUME NEW p, Placed(c, s, p), Noted(c, p) PROVE Placed(o, s, p)
        <3>1. p # None => restore = At(s, p)
            BY <2>5, Fields, AtIsBox DEF Placed, Noted
        <3> QED
            BY <1>2, <2>4, <3>1 DEF Placed
    <2>6. o.desk = c.desk /\ o.home = c.home
        BY <2>1
    <2> QED
        BY <1>2, <2>3, <2>4, <2>5, <2>6
<1>3. CASE slot = "full" /\ c.as = "full"
    <2>1. o = c
        BY <1>3 DEF SnapTo
    <2> QED
        BY <1>3, <2>1
<1> QED
    BY <1>1, <1>2, <1>3

\* Home again, as it was.
LEMMA ReturnHomeIs ==
    ASSUME NEW c \in Containers, NEW s \in Screens, NEW o, o = ReturnHome(c, s)
    PROVE  /\ o \in Containers /\ o.desk = c.desk /\ o.as = c.home.as /\ o.home = NoHome
           /\ c.home.as = "free" => o.box = Fit(c.home.restore, s)
           /\ c.home.as # "free" => o.box = At(s, c.home.as) /\ o.restore = Fit(c.home.restore, s)
<1> DEFINE b == [desk |-> c.desk, as |-> "free", box |-> Fit(c.home.restore, s), restore |-> NoBox,
                 home |-> NoHome]
<1>1. c.home.as \in Slots \cup {"free"} /\ c.home.restore \in Boxes
    BY Fields DEF Homes
<1>3. b \in Containers
    BY <1>1, Fields, AtIsBox, FitIsThere DEF Containers
<1>4. o = SnapTo(b, c.home.as, s)
    BY DEF ReturnHome
<1>5. b.desk = c.desk /\ b.as = "free" /\ b.box = Fit(c.home.restore, s) /\ b.home = NoHome
    OBVIOUS
<1> HIDE DEF b
<1> QED
    BY <1>1, <1>3, <1>4, <1>5, SnapKeeps

\* A window put somewhere has no home to return to, and is as it was.
LEMMA ForgetKeeps ==
    ASSUME NEW c \in Containers, NEW o, o = Forget(c)
    PROVE  /\ o \in Containers /\ o.desk = c.desk /\ o.as = c.as /\ o.home = NoHome
           /\ o.box = c.box /\ o.restore = c.restore
           /\ \A s, p : Placed(c, s, p) => Placed(o, s, p)
           /\ \A p : Noted(c, p) => Noted(o, p)
<1>1. o = [desk |-> c.desk, as |-> c.as, box |-> c.box, restore |-> c.restore, home |-> NoHome]
    BY Fields DEF Forget
<1>2. o \in Containers
    BY <1>1, Fields, AtIsBox DEF Containers
<1> QED
    BY <1>1, <1>2 DEF Placed, Noted

\* What a screen remembers of a window when it goes.
LEMMA RememberIs ==
    ASSUME NEW c \in Containers, NEW s \in Screens, NEW o, o = Remember(c, s)
    PROVE  /\ o \in Containers /\ o.desk = c.desk /\ o.as = c.as
           /\ o.home.screen = s /\ o.home.as = c.as
           /\ o.home.restore = IF c.as = "free" THEN c.box ELSE c.restore
           /\ \A t, p : Placed(c, t, p) => Placed(o, t, p)
<1> DEFINE home == [screen |-> s, as |-> c.as, restore |-> IF c.as = "free" THEN c.box ELSE c.restore]
<1>1. o = [desk |-> c.desk, as |-> c.as, box |-> c.box, restore |-> c.restore, home |-> home]
    BY Fields DEF Remember
<1>2. home \in Homes
    BY Fields DEF Homes
<1>3. o.home = home
    BY <1>1
<1>4. o \in Containers
    <2> HIDE DEF home
    <2> QED
        BY <1>1, <1>2, Fields DEF Containers
<1> QED
    BY <1>1, <1>3, <1>4 DEF Placed
----------------------------------------------------------------------------
(* Desktops with their windows and screens.                                    *)

\* Every screen that is on has a desktop, every window is on one, and every desktop is
\* on a screen that is on, unless all are off.
Sound(dk, win, row) ==
    /\ \A s \in ToSet(row) : Of(dk, s) # {}
    /\ \A w \in Windows : win[w].desk \in Live(dk)
    /\ \A d \in Live(dk) : dk.on[d] \in ToSet(row) \/ row = <<>>

\* Nothing else changes for desktops that stay, nor for what screens show.
Fewer(less, dk) ==
    /\ Live(less) \subseteq Live(dk)
    /\ \A d \in Live(less) : less.on[d] = dk.on[d]
    /\ \A s \in Screens : Of(dk, s) # {} => Of(less, s) # {} /\ Shown(less, s) = Shown(dk, s)

LEMMA ScreensOfRow ==
    ASSUME NEW row \in Seq(Screens)
    PROVE  ToSet(row) \subseteq Screens /\ (row = <<>> <=> ToSet(row) = {})
<1>1. row = <<>> => ToSet(row) = {}
    BY DEF ToSet
<1>2. ASSUME row # <<>> PROVE ToSet(row) # {}
    <2>1. 1 \in DOMAIN row
        BY <1>2
    <2>2. row[1] \in ToSet(row)
        BY <2>1 DEF ToSet
    <2> QED
        BY <2>2
<1> QED
    BY <1>1, <1>2 DEF ToSet

LEMMA ConsiderSound ==
    ASSUME NEW dk \in Desktops, Distinct(dk), NEW win, NEW some, NEW row \in Seq(Screens),
           Sound(dk, win, row), NEW out, out = ConsiderDestroy(dk, win, some)
    PROVE  out \in Desktops /\ Ranked(out) /\ Fewer(out, dk) /\ Sound(out, win, row)
<1>1. out \in Desktops /\ Ranked(out) /\ Fewer(out, dk)
    BY ConsiderKeeps DEF Fewer
<1>2. \A w \in Windows : win[w].desk \in Live(out)
    BY ConsiderKeeps DEF Sound
<1> QED
    BY <1>1, <1>2, ScreensOfRow DEF Sound, Fewer

\* Windows that move are where they go, and leave all others as they were.
LEMMA MoveToKeeps ==
    ASSUME NEW dk \in Desktops, Distinct(dk), NEW row \in Seq(Screens),
           NEW win \in [Windows -> Containers], Sound(dk, win, row),
           NEW goal, \A w \in Windows : goal[w] \in Live(dk),
           NEW st, st = MoveTo(dk, win, goal)
    PROVE  /\ st.dk \in Desktops /\ Ranked(st.dk) /\ Fewer(st.dk, dk) /\ Sound(st.dk, st.win, row)
           /\ st.win \in [Windows -> Containers]
           /\ \A w \in Windows : st.win[w] = Moved(dk, win[w], goal[w]) /\ st.win[w].desk = goal[w]
           /\ \A w \in Windows : goal[w] = win[w].desk => st.win[w] = win[w]
<1> DEFINE there == [w \in Windows |-> Moved(dk, win[w], goal[w])]
           old == {win[w].desk : w \in {v \in Windows : goal[v] # win[v].desk}}
<1>1. st.dk = ConsiderDestroy(dk, there, old) /\ st.win = there
    BY DEF MoveTo
<1>2. \A w \in Windows : win[w] \in Containers /\ win[w].desk \in Live(dk)
    BY DEF Sound
<1>3. \A w \in Windows : there[w] \in Containers /\ there[w].desk = goal[w]
    BY <1>2, MovedKeeps
<1>4. \A w \in Windows : there[w] = Moved(dk, win[w], goal[w])
    OBVIOUS
<1>5. there \in [Windows -> Containers]
    BY <1>3
<1>6. \A w \in Windows : goal[w] = win[w].desk => there[w] = win[w]
    BY DEF Moved
<1> HIDE DEF there, old
<1>7. Sound(dk, there, row)
    BY <1>3 DEF Sound
<1> QED
    BY <1>1, <1>3, <1>4, <1>5, <1>6, <1>7, ConsiderSound

\* A screen that goes leaves its desktops with windows to the others, or with no other
\* to none; empty ones go.
LEMMA EvacuateKeeps ==
    ASSUME NEW dk \in Desktops, Ranked(dk), NEW row \in Seq(Screens), NEW win, Sound(dk, win, row),
           NEW s \in ToSet(row), NEW less \in Seq(Screens), ToSet(less) = ToSet(row) \ {s},
           NEW out, out = Evacuate(dk, win, s, less)
    PROVE  /\ out \in Desktops /\ Ranked(out) /\ Sound(out, win, less)
           /\ Live(out) \subseteq Live(dk)
           /\ \A d \in Live(out) : dk.on[d] # s \/ less = <<>> => out.on[d] = dk.on[d]
<1> DEFINE target(d) == IF Highest(dk, d, less) # None THEN Highest(dk, d, less) ELSE Head(less)
           full == {d \in Of(dk, s) : ~Empty(win, d)}
           gone == Of(dk, s) \ full
           without == Destroy(dk, gone)
           on == [d \in Desks |-> IF d \in full THEN target(d) ELSE without.on[d]]
           priority == [d \in Desks |-> IF d \in full /\ target(d) \notin ToSet(without.priority[d])
                                        THEN Append(without.priority[d], target(d))
                                        ELSE without.priority[d]]
           moved == [without EXCEPT !.on = on, !.priority = priority]
           some == {Shown(dk, target(d)) : d \in full}
<1>1. Distinct(dk) /\ s \in Screens /\ None \notin Screens
    BY ScreensOfRow, RowHoldsTheScreens DEF Ranked
<1>2. /\ without \in Desktops /\ Ranked(without) /\ Live(without) = Live(dk) \ gone
      /\ \A d \in Live(without) : without.on[d] = dk.on[d]
      /\ \A t \in Screens : Of(without, t) = Of(dk, t) \ gone
    <2> HIDE DEF gone
    <2> QED
        BY <1>1, DestroyKeeps
<1>3. \A w \in Windows : win[w].desk \in Live(without)
    BY <1>2 DEF Sound, Empty
<1>4. CASE less = <<>>
    <2>1. out = without
        BY <1>4 DEF Evacuate
    <2>2. ToSet(less) = {}
        BY <1>4, ScreensOfRow
    <2> HIDE DEF without
    <2> QED
        BY <1>2, <1>3, <1>4, <2>1, <2>2 DEF Sound
<1>5. CASE less # <<>>
    <2>1. out = ConsiderDestroy(moved, win, some)
        BY <1>5 DEF Evacuate
    <2>2. Head(less) \in ToSet(less)
        <3>1. 1 \in DOMAIN less /\ Head(less) = less[1]
            BY <1>5
        <3> QED
            BY <3>1 DEF ToSet
    <2>3. full \subseteq Live(without) /\ full \subseteq Desks /\ full \subseteq Of(dk, s)
        BY <1>1, <1>2, OfIsLive
    <2>4. \A d \in full : target(d) \in ToSet(less) /\ target(d) \in Screens
        BY <2>2, <2>3, HighestIsOn, ScreensOfRow
    <2> HIDE DEF target, full, gone, without, some
    <2>5. /\ without.on \in [Desks -> Screens \cup {None}]
          /\ without.priority \in [Desks -> Seq(Screens)]
          /\ without.age \in [Desks -> Nat] /\ without.keep \in SUBSET Desks
          /\ without = [on |-> without.on, priority |-> without.priority, age |-> without.age,
                        keep |-> without.keep]
        BY <1>2 DEF Desktops
    <2>6. on \in [Desks -> Screens \cup {None}]
        BY <2>4, <2>5
    <2>7. priority \in [Desks -> Seq(Screens)]
        BY <2>4, <2>5
    <2>8. /\ \A d \in full : on[d] = target(d)
          /\ \A d \in Desks \ full : on[d] = without.on[d]
        BY <2>3
    <2> HIDE DEF on, priority
    <2>9. moved = [on |-> on, priority |-> priority, age |-> without.age, keep |-> without.keep]
        <3>1. DOMAIN moved = {"on", "priority", "age", "keep"}
            BY <2>5
        <3>2. /\ moved.on = on /\ moved.priority = priority
              /\ moved.age = without.age /\ moved.keep = without.keep
            BY <2>5
        <3>3. moved = [x \in DOMAIN moved |-> moved[x]]
            OBVIOUS
        <3> HIDE DEF moved
        <3> QED
            BY <3>1, <3>2, <3>3
    <2>10. moved \in Desktops
        BY <2>5, <2>6, <2>7, <2>9 DEF Desktops
    <2>11. moved.on = on /\ moved.age = without.age
        BY <2>9
    <2> HIDE DEF moved
    <2>12. Live(moved) = Live(without)
        BY <1>1, <2>3, <2>4, <2>8, <2>11 DEF Live
    <2>13. Ranked(moved)
        BY <1>2, <2>11, <2>12 DEF Ranked, Distinct, Bounded
    <2>14. ASSUME NEW t \in ToSet(less) PROVE Of(moved, t) # {}
        <3>1. t \in ToSet(row) /\ t # s /\ t \in Screens
            BY ScreensOfRow
        <3>2. Of(dk, t) # {} /\ Of(dk, t) \cap Of(dk, s) = {}
            BY <3>1 DEF Sound, Of
        <3>3. gone \subseteq Of(dk, s)
            BY DEF gone
        <3>4. Of(dk, t) = Of(without, t)
            <4>1. Of(without, t) = Of(dk, t) \ gone
                BY <1>2, <3>1
            <4> QED
                BY <3>2, <3>3, <4>1
        <3>5. \A d \in Of(dk, t) : d \in Of(moved, t)
            BY <2>3, <2>8, <2>11, <3>2, <3>4 DEF Of
        <3> QED
            BY <3>2, <3>5
    <2>15. ASSUME NEW d \in Live(moved)
           PROVE  moved.on[d] \in ToSet(less) /\ (dk.on[d] # s => moved.on[d] = dk.on[d])
        <3>1. d \in Desks /\ d \in Live(dk) /\ d \notin gone /\ without.on[d] = dk.on[d]
            BY <1>2, <2>12, OfIsLive
        <3>2. CASE d \in full
            <4>1. dk.on[d] = s
                BY <2>3, <3>2 DEF Of
            <4> QED
                BY <2>4, <2>8, <2>11, <3>2, <4>1
        <3>3. CASE d \notin full
            <4>1. dk.on[d] # s
                BY <3>1, <3>3 DEF gone, Of
            <4>2. row # <<>>
                BY ScreensOfRow
            <4>3. dk.on[d] \in ToSet(row)
                BY <3>1, <4>2 DEF Sound
            <4> QED
                BY <2>8, <2>11, <3>1, <3>3, <4>1, <4>3
        <3> QED
            BY <3>2, <3>3
    <2>16. Sound(moved, win, less)
        BY <1>3, <2>12, <2>14, <2>15 DEF Sound
    <2>17. out \in Desktops /\ Ranked(out) /\ Fewer(out, moved) /\ Sound(out, win, less)
        BY <2>1, <2>10, <2>13, <2>16, ConsiderSound DEF Ranked
    <2>18. Live(out) \subseteq Live(dk)
        BY <1>2, <2>12, <2>17 DEF Fewer
    <2>19. \A d \in Live(out) : dk.on[d] # s => out.on[d] = dk.on[d]
        BY <2>15, <2>17 DEF Fewer
    <2> QED
        BY <1>5, <2>17, <2>18, <2>19
<1> QED
    BY <1>4, <1>5

\* The windows of a desktop that left its screen are on view, and all are on the screen
\* they were on.
LEMMA JoinKeeps ==
    ASSUME NEW dk \in Desktops, Ranked(dk), NEW row \in Seq(Screens),
           NEW win \in [Windows -> Containers], Sound(dk, win, row), NEW ws,
           NEW st, st = Join(dk, win, ws, row)
    PROVE  /\ st.dk \in Desktops /\ Ranked(st.dk) /\ Sound(st.dk, st.win, row)
           /\ st.win \in [Windows -> Containers]
           /\ \A w \in Windows : /\ st.win[w].as = win[w].as /\ st.win[w].home = win[w].home
                                 /\ \A p : Placed(win[w], dk.on[win[w].desk], p)
                                             => Placed(st.win[w], st.dk.on[st.win[w].desk], p)
           /\ \A w \in Windows : win[w].desk = ws /\ row # <<>> => OnView(st.dk, row, st.win[w].desk)
<1>1. CASE ws \notin Live(dk) \/ row = <<>>
    <2>1. st.dk = dk /\ st.win = win
        BY <1>1 DEF Join
    <2> QED
        BY <1>1, <2>1 DEF Sound
<1>2. CASE ~ (ws \notin Live(dk) \/ row = <<>>) /\ Shown(dk, dk.on[ws]) = ws
    <2>1. st.dk = dk /\ st.win = win
        BY <1>2 DEF Join
    <2>2. dk.on[ws] \in ToSet(row)
        BY <1>2 DEF Sound
    <2>3. OnView(dk, row, ws)
        BY <1>2, <2>2 DEF OnView, Sound
    <2> QED
        BY <2>1, <2>3
<1>3. CASE ~ (ws \notin Live(dk) \/ row = <<>> \/ Shown(dk, dk.on[ws]) = ws)
    <2> DEFINE t == dk.on[ws]
               d == Shown(dk, t)
               goal == [w \in Windows |-> IF win[w].desk = ws THEN d ELSE win[w].desk]
    <2>1. st = MoveTo(dk, win, goal)
        BY <1>3 DEF Join
    <2>2. t \in ToSet(row) /\ t \in Screens /\ Of(dk, t) # {}
        BY <1>3, ScreensOfRow DEF Sound
    <2>3. d \in Of(dk, t) /\ d \in Live(dk) /\ dk.on[d] = t
        <3>1. d \in Of(dk, t)
            BY <2>2, ShownIs
        <3>2. dk.on[d] = t
            BY <3>1 DEF Of
        <3> QED
            BY <2>2, <3>1, <3>2, OfIsLive
    <2>4. \A w \in Windows : goal[w] \in Live(dk) /\ dk.on[goal[w]] = dk.on[win[w].desk]
        BY <2>3 DEF Sound
    <2>5. \A w \in Windows : win[w].desk = ws => goal[w] = d
        OBVIOUS
    <2> HIDE DEF goal, d, t
    <2>6. /\ st.dk \in Desktops /\ Ranked(st.dk) /\ Fewer(st.dk, dk) /\ Sound(st.dk, st.win, row)
          /\ st.win \in [Windows -> Containers]
          /\ \A w \in Windows : st.win[w] = Moved(dk, win[w], goal[w]) /\ st.win[w].desk = goal[w]
        BY <2>1, <2>4, MoveToKeeps DEF Ranked
    <2>7. \A w \in Windows : st.dk.on[st.win[w].desk] = dk.on[win[w].desk]
        BY <2>4, <2>6 DEF Sound, Fewer
    <2>8. ASSUME NEW w \in Windows
          PROVE  /\ st.win[w].as = win[w].as /\ st.win[w].home = win[w].home
                 /\ \A p : Placed(win[w], dk.on[win[w].desk], p)
                             => Placed(st.win[w], st.dk.on[st.win[w].desk], p)
        <3>1. win[w] \in Containers /\ win[w].desk \in Live(dk)
            BY DEF Sound
        <3>2. /\ st.win[w] = Moved(dk, win[w], goal[w]) /\ goal[w] \in Live(dk)
              /\ st.dk.on[st.win[w].desk] = dk.on[goal[w]]
            BY <2>4, <2>6, <2>7
        <3> DEFINE c == win[w]
                   o == st.win[w]
                   e == goal[w]
        <3> HIDE DEF c, o, e
        <3>3. /\ o.as = c.as /\ o.home = c.home
              /\ \A p : Placed(c, dk.on[c.desk], p) => Placed(o, dk.on[e], p)
            <4>1. c \in Containers /\ c.desk \in Live(dk) /\ e \in Live(dk) /\ o = Moved(dk, c, e)
                BY <3>1, <3>2 DEF c, o, e
            <4>2. dk \in Desktops
                OBVIOUS
            <4>3. o \in Containers /\ o.desk = e /\ o.as = c.as /\ o.home = c.home
                BY <4>1, <4>2, MovedKeeps
            <4>4. \A p : Placed(c, dk.on[c.desk], p) => Placed(o, dk.on[e], p)
                BY <4>1, <4>2, MovedKeeps
            <4> QED
                BY <4>3, <4>4
        <3> QED
            BY <3>2, <3>3 DEF c, o, e
    <2>9. OnView(st.dk, row, d)
        BY <2>2, <2>6 DEF OnView, Fewer, d
    <2> QED
        BY <2>5, <2>6, <2>8, <2>9
<1> QED
    BY <1>1, <1>2, <1>3

\* A window goes to what another screen shows, and that desktop is looked at.
LEMMA GoTo ==
    ASSUME NEW dk \in Desktops, Ranked(dk), NEW row \in Seq(Screens),
           NEW win \in [Windows -> Containers], Sound(dk, win, row), NEW w \in Windows,
           NEW t \in ToSet(row), NEW to, to = Shown(dk, t),
           NEW st, st = MoveTo(dk, win, GoalOf(win, w, to)), NEW dl, dl = Raise(st.dk, to)
    PROVE  /\ dl \in Desktops /\ Ranked(dl) /\ Sound(dl, st.win, row)
           /\ to \in Live(dk) /\ dk.on[to] = t /\ dl.on[to] = t
           /\ st.win \in [Windows -> Containers]
           /\ \A v \in Windows \ {w} : /\ st.win[v] = win[v]
                                       /\ dl.on[win[v].desk] = dk.on[win[v].desk]
           /\ st.win[w].desk = to /\ st.win[w].as = win[w].as /\ st.win[w].home = win[w].home
           /\ st.win[w] = Moved(dk, win[w], to)
<1> DEFINE goal == GoalOf(win, w, to)
<1>1. t \in Screens /\ Of(dk, t) # {}
    BY ScreensOfRow DEF Sound
<1>2. to \in Of(dk, t)
    BY <1>1, ShownIs
<1>3. to \in Live(dk) /\ dk.on[to] = t
    BY <1>1, <1>2, OfIsLive DEF Of
<1>4. /\ \A v \in Windows : goal[v] = IF v = w THEN to ELSE win[v].desk
      /\ \A v \in Windows : win[v] \in Containers /\ win[v].desk \in Live(dk)
    BY DEF GoalOf, Sound
<1> HIDE DEF goal
<1>5. \A v \in Windows : goal[v] \in Live(dk)
    BY <1>3, <1>4
<1>6. st = MoveTo(dk, win, goal)
    BY DEF goal
<1>7. /\ st.dk \in Desktops /\ Ranked(st.dk) /\ Fewer(st.dk, dk) /\ Sound(st.dk, st.win, row)
      /\ st.win \in [Windows -> Containers]
      /\ \A v \in Windows : st.win[v] = Moved(dk, win[v], goal[v]) /\ st.win[v].desk = goal[v]
      /\ \A v \in Windows : goal[v] = win[v].desk => st.win[v] = win[v]
    BY <1>5, <1>6, MoveToKeeps DEF Ranked
<1>8. \A v \in Windows : goal[v] \in Live(st.dk) /\ st.dk.on[goal[v]] = dk.on[goal[v]]
    BY <1>7 DEF Sound, Fewer
<1>9. to \in Live(st.dk) /\ st.dk.on[to] = t
    BY <1>3, <1>4, <1>8
<1>10. dl \in Desktops /\ Ranked(dl) /\ dl.on = st.dk.on /\ Live(dl) = Live(st.dk) /\ \A s : Of(dl, s) = Of(st.dk, s)
    BY <1>7, <1>9, RaiseKeeps
<1>11. Sound(dl, st.win, row)
    BY <1>7, <1>10 DEF Sound
<1>12. \A v \in Windows \ {w} : st.win[v] = win[v] /\ dl.on[win[v].desk] = dk.on[win[v].desk]
    BY <1>4, <1>7, <1>8, <1>10
<1> DEFINE c == win[w]
           o == st.win[w]
<1>13. c \in Containers /\ c.desk \in Live(dk) /\ o = Moved(dk, c, to)
    BY <1>4, <1>7
<1> HIDE DEF c, o
<1>14. o.desk = to /\ o.as = c.as /\ o.home = c.home
    BY <1>3, <1>13, MovedKeeps
<1> QED
    BY <1>3, <1>7, <1>9, <1>10, <1>11, <1>12, <1>13, <1>14 DEF c, o
----------------------------------------------------------------------------
(* The invariant.                                                              *)

Histories == [left : SUBSET Screens, as : Slots \cup {"free"}, spot : Marks]

\* What a screen that left remembers of a window, and how the window was then.
Homely(h, b) ==
    /\ b.left = {} => h.screen = None
    /\ \A s \in Screens : b.left = {s} =>
        h.screen = s /\ h.as = b.as /\ (b.spot # None => h.restore = At(s, b.spot))
    /\ b.spot # None => \E s \in Screens : b.left = {s}

InPlace(w) == Placed(windows[w], ScreenOf(w), spot[w]) /\ Noted(windows[w], spot[w])
               /\ Homely(windows[w].home, was[w])

Inv ==
    /\ TypeOK
    /\ Once(outputs)
    /\ Ranked(desks)
    /\ Sound(desks, windows, outputs)
    /\ \A w \in Windows : InPlace(w)

LEMMA AtHomeIs ==
    AtHome \in Histories /\ AtHome.left = {} /\ Homely(NoHome, AtHome)
<1>1. AtHome.left = {} /\ AtHome.spot = None /\ NoHome.screen = None
    BY DEF AtHome, NoHome
<1>2. AtHome \in Histories
    BY AtIsBox DEF AtHome, Histories
<1> QED
    BY <1>1, <1>2 DEF Homely

\* Where windows last lay free is noted at every step.
LEMMA SpotsAre ==
    ASSUME TypeOK, windows' \in [Windows -> Containers], spot' = Spots(windows', {})
    PROVE  /\ spot' \in [Windows -> Marks]
           /\ \A w \in Windows : Noted(windows'[w], spot'[w])
           /\ \A w \in Windows : \A s : Placed(windows'[w], s, spot[w]) => Placed(windows'[w], s, spot'[w])
           /\ \A w \in Windows : windows'[w] = windows[w] /\ Noted(windows[w], spot[w]) => spot'[w] = spot[w]
<1>1. \A w \in Windows : spot'[w] = IF windows'[w].as = "free" THEN windows'[w].box.place ELSE spot[w]
    BY DEF Spots
<1>2. \A w \in Windows : spot[w] \in Marks /\ windows'[w].box \in Boxes
    BY Fields DEF TypeOK
<1>3. \A w \in Windows : spot'[w] \in Marks
    BY <1>1, <1>2, AtIsBox
<1>4. spot' = [w \in Windows |-> spot'[w]]
    BY DEF Spots
<1>5. spot' \in [Windows -> Marks]
    <2> DEFINE f == spot'
    <2>1. f = [w \in Windows |-> f[w]] /\ \A w \in Windows : f[w] \in Marks
        BY <1>3, <1>4
    <2> HIDE DEF f
    <2>2. f \in [Windows -> Marks]
        BY <2>1
    <2> QED
        BY <2>2 DEF f
<1>6. \A w \in Windows : Noted(windows'[w], spot'[w])
    BY <1>1 DEF Noted
<1>7. \A w \in Windows : \A s : Placed(windows'[w], s, spot[w]) => Placed(windows'[w], s, spot'[w])
    BY <1>1 DEF Placed
<1>8. \A w \in Windows : windows'[w] = windows[w] /\ Noted(windows[w], spot[w]) => spot'[w] = spot[w]
    BY <1>1 DEF Noted
<1> QED
    BY <1>5, <1>6, <1>7, <1>8

\* One window changes, or none, and the others stay where they are.
LEMMA OneIsPut ==
    ASSUME Inv, NEW w \in Windows, UNCHANGED <<outputs, changes, returning>>,
           desks' \in Desktops, Ranked(desks'), windows' \in [Windows -> Containers],
           Sound(desks', windows', outputs),
           \A v \in Windows \ {w} : /\ windows'[v] = windows[v] /\ spot'[v] = spot[v]
                                    /\ desks'.on[windows[v].desk] = ScreenOf(v),
           \/ was' = was /\ windows'[w].home = windows[w].home
           \/ was' = [was EXCEPT ![w] = AtHome] /\ windows'[w].home = NoHome,
           spot' \in [Windows -> Marks],
           Placed(windows'[w], desks'.on[windows'[w].desk], spot'[w]), Noted(windows'[w], spot'[w])
    PROVE  Inv'
<1>1. was \in [Windows -> Histories] /\ TypeOK /\ Once(outputs)
    BY DEF Inv, TypeOK, Histories
<1>2. was' \in [Windows -> Histories]
    BY <1>1, AtHomeIs
<1>3. TypeOK'
    BY <1>1, <1>2 DEF TypeOK, Histories
<1>4. ASSUME NEW v \in Windows PROVE InPlace(v)'
    <2>1. InPlace(v)
        BY DEF Inv
    <2>2. Placed(windows'[v], desks'.on[windows'[v].desk], spot'[v]) /\ Noted(windows'[v], spot'[v])
        BY <2>1 DEF InPlace
    <2>3. Homely(windows'[v].home, was'[v])
        BY <1>1, <2>1, AtHomeIs DEF InPlace
    <2> QED
        BY <2>2, <2>3 DEF InPlace, ScreenOf
<1>5. Once(outputs') /\ Sound(desks', windows', outputs')
    BY <1>1
<1> QED
    BY <1>3, <1>4, <1>5 DEF Inv

LEMMA OneChanges ==
    ASSUME Inv, NEW w \in Windows, UNCHANGED <<outputs, changes, returning>>,
           desks' \in Desktops, Ranked(desks'), windows' \in [Windows -> Containers],
           Sound(desks', windows', outputs),
           \A v \in Windows \ {w} : windows'[v] = windows[v] /\ desks'.on[windows[v].desk] = ScreenOf(v),
           Placed(windows'[w], desks'.on[windows'[w].desk], spot[w]),
           \/ was' = was /\ windows'[w].home = windows[w].home
           \/ was' = [was EXCEPT ![w] = AtHome] /\ windows'[w].home = NoHome,
           spot' = Spots(windows', {})
    PROVE  Inv'
<1>1. TypeOK /\ \A v \in Windows : Noted(windows[v], spot[v])
    BY DEF Inv, InPlace
<1>2. /\ spot' \in [Windows -> Marks] /\ Noted(windows'[w], spot'[w])
      /\ Placed(windows'[w], desks'.on[windows'[w].desk], spot'[w])
      /\ \A v \in Windows \ {w} : spot'[v] = spot[v]
    BY <1>1, SpotsAre
<1> QED
    BY <1>2, OneIsPut

\* Only the desktops change.
LEMMA DesktopsChange ==
    ASSUME Inv, UNCHANGED <<outputs, changes, windows, returning, was, spot>>,
           desks' \in Desktops, Ranked(desks'), Sound(desks', windows, outputs),
           \A v \in Windows : desks'.on[windows[v].desk] = ScreenOf(v)
    PROVE  Inv'
<1>1. TypeOK'
    BY DEF Inv, TypeOK
<1>2. \A v \in Windows : InPlace(v)'
    BY DEF Inv, InPlace, ScreenOf
<1> QED
    BY <1>1, <1>2 DEF Inv
----------------------------------------------------------------------------
(* The start.                                                                  *)

LEMMA RowIs ==
    Row \in Seq(Screens) /\ ToSet(Row) = Screens /\ Once(Row)
<1> DEFINE n == Cardinality(Screens)
<1>1. n \in Nat
    BY RowHoldsTheScreens, FS_CardinalityType
<1>2. Row \in [1 .. n -> Screens] /\ ToSet(Row) = Screens
    BY RowHoldsTheScreens
<1>3. 1 \in Int /\ n \in Int
    BY <1>1
<1>4. IsFiniteSet(1 .. n) /\ Cardinality(1 .. n) = n
    BY <1>1, <1>3, FS_Interval
<1>5. Row \in Surjection(1 .. n, Screens)
    BY <1>2 DEF Surjection, ToSet
<1>6. Cardinality(Screens) = Cardinality(1 .. n) => Row \in Injection(1 .. n, Screens)
    BY <1>4, <1>5, FS_Surjection
<1>7. Row \in Injection(1 .. n, Screens)
    BY <1>4, <1>6
<1> HIDE DEF n
<1>8. Once(Row)
    BY <1>2, <1>7 DEF Injection, IsInjective, Once
<1> QED
    BY <1>1, <1>2, <1>8

LEMMA InitSound == Init => Inv
<1> SUFFICES ASSUME Init PROVE Inv
    OBVIOUS
<1>1. /\ outputs = Row /\ changes = 0 /\ returning = <<>>
      /\ was = [w \in Windows |-> AtHome] /\ spot = [w \in Windows |-> windows[w].box.place]
    BY DEF Init
<1>2. Row \in Seq(Screens) /\ ToSet(Row) = Screens /\ Once(Row) /\ Row # <<>>
    BY RowIs, ScreensOfRow, RowHoldsTheScreens
<1>3. PICK first \in SUBSET Desks : \E new \in Bijection(first, Screens) : desks = Create(NoDesks, new, Row)
    BY DEF Init
<1>4. PICK new \in Bijection(first, Screens) : desks = Create(NoDesks, new, Row)
    BY <1>3
<1>5. NoDesks \in Desktops /\ Live(NoDesks) = {}
    BY DEF NoDesks, Desktops, Live
<1>6. Ranked(NoDesks)
    BY <1>5 DEF Ranked, Distinct, Bounded
<1>7. /\ desks \in Desktops /\ Ranked(desks) /\ Live(desks) = first
      /\ \A d \in first : desks.on[d] = new[d]
    <2>1. first \subseteq Desks \ Live(NoDesks) /\ Screens \subseteq ToSet(Row)
        BY <1>2, <1>5
    <2>2. ASSUME NEW dk \in Desktops, Ranked(dk), first \subseteq Desks \ Live(dk),
                 NEW out, out = Create(dk, new, Row)
          PROVE  /\ out \in Desktops /\ Ranked(out) /\ Live(out) = Live(dk) \cup first
                 /\ \A d \in first : out.on[d] = new[d]
        BY <1>2, <2>1, <2>2, CreateKeeps
    <2>3. /\ desks \in Desktops /\ Ranked(desks)
          /\ Live(desks) = Live(NoDesks) \cup first
          /\ \A d \in first : desks.on[d] = new[d]
        BY <1>4, <1>5, <1>6, <2>1, <2>2
    <2> QED
        BY <1>5, <2>3
<1>8. (\A d \in first : new[d] \in Screens) /\ \A s \in Screens : \E d \in first : new[d] = s
    BY DEF Bijection, Injection, Surjection
<1>9. \A s \in Screens : Of(desks, s) # {}
    <2> SUFFICES ASSUME NEW s \in Screens PROVE Of(desks, s) # {}
        OBVIOUS
    <2>1. PICK d \in first : new[d] = s
        BY <1>8
    <2>2. d \in Of(desks, s)
        BY <1>7, <2>1 DEF Of
    <2> QED
        BY <2>2
<1>10. PICK d \in [Windows -> Live(desks)] : \E p \in Places :
         windows = [w \in Windows |-> [desk |-> d[w], as |-> "free", box |-> At(desks.on[d[w]], p),
                                       restore |-> NoBox, home |-> NoHome]]
    BY DEF Init
<1>11. PICK p \in Places :
         windows = [w \in Windows |-> [desk |-> d[w], as |-> "free", box |-> At(desks.on[d[w]], p),
                                       restore |-> NoBox, home |-> NoHome]]
    BY <1>10
<1>12. ASSUME NEW w \in Windows
       PROVE  /\ windows[w] \in Containers /\ windows[w].desk \in Live(desks)
              /\ windows[w].as = "free" /\ windows[w].home = NoHome
              /\ windows[w].box = At(desks.on[windows[w].desk], p)
    <2>1. d[w] \in Live(desks) /\ d[w] \in Desks /\ desks.on[d[w]] \in Screens
        BY <1>7, <1>8
    <2>2. At(desks.on[d[w]], p) \in Boxes
        BY <2>1, AtIsBox
    <2> DEFINE b == At(desks.on[d[w]], p)
    <2>3. windows[w] = [desk |-> d[w], as |-> "free", box |-> b, restore |-> NoBox, home |-> NoHome]
        BY <1>11
    <2>4. windows[w].desk = d[w] /\ windows[w].box = b /\ windows[w].as = "free" /\ windows[w].home = NoHome
        BY <2>3
    <2> HIDE DEF b
    <2>5. windows[w] \in Containers
        BY <2>1, <2>2, <2>3, AtIsBox DEF Containers, b
    <2> QED
        BY <2>1, <2>4, <2>5 DEF b
<1>13. windows \in [Windows -> Containers]
    BY <1>11, <1>12
<1>14. \A w \in Windows : spot[w] = p
    BY <1>1, <1>12, AtIsBox
<1>15. spot \in [Windows -> Marks]
    BY <1>1, <1>12, AtIsBox
<1>16. was \in [Windows -> Histories]
    BY <1>1, AtHomeIs
<1>17. TypeOK
    BY <1>1, <1>2, <1>7, <1>13, <1>15, <1>16 DEF TypeOK, Histories
<1>18. Sound(desks, windows, outputs)
    BY <1>1, <1>2, <1>7, <1>8, <1>9, <1>12 DEF Sound
<1>19. \A w \in Windows : InPlace(w)
    <2> SUFFICES ASSUME NEW w \in Windows PROVE InPlace(w)
        OBVIOUS
    <2>1. Placed(windows[w], ScreenOf(w), spot[w])
        BY <1>12, AtIsBox DEF Placed, ScreenOf
    <2>2. Noted(windows[w], spot[w])
        BY <1>12, <1>14, AtIsBox DEF Noted
    <2>3. Homely(windows[w].home, was[w])
        BY <1>1, <1>12, AtHomeIs
    <2> QED
        BY <2>1, <2>2, <2>3 DEF InPlace
<1> QED
    BY <1>1, <1>2, <1>7, <1>17, <1>18, <1>19 DEF Inv
----------------------------------------------------------------------------
(* What the user does.                                                         *)

LEMMA InvFacts ==
    ASSUME Inv
    PROVE  /\ outputs \in Seq(Screens) /\ ToSet(outputs) \subseteq Screens
           /\ desks \in Desktops /\ Ranked(desks) /\ Distinct(desks)
           /\ windows \in [Windows -> Containers]
           /\ Sound(desks, windows, outputs)
           /\ \A w \in Windows : /\ windows[w] \in Containers /\ windows[w].desk \in Live(desks)
                                 /\ ScreenOf(w) \in Screens
                                 /\ InPlace(w)
<1>1. outputs \in Seq(Screens) /\ desks \in Desktops /\ windows \in [Windows -> Containers]
    BY DEF Inv, TypeOK
<1>2. \A w \in Windows : windows[w].desk \in Live(desks)
    BY DEF Inv, Sound
<1> QED
    BY <1>1, <1>2, ScreensOfRow, OfIsLive DEF Inv, ScreenOf, Ranked

LEMMA LookKeeps ==
    ASSUME Inv, NEW d \in Desks, Look(d)
    PROVE  Inv'
<1> DEFINE dk == Raise(desks, d)
<1>1. d \in Live(desks) /\ desks' = ConsiderDestroy(dk, windows, {Shown(desks, desks.on[d])})
    BY DEF Look
<1>2. dk \in Desktops /\ Ranked(dk) /\ dk.on = desks.on /\ Live(dk) = Live(desks) /\ \A s : Of(dk, s) = Of(desks, s)
    BY <1>1, InvFacts, RaiseKeeps
<1> HIDE DEF dk
<1>3. Sound(dk, windows, outputs)
    BY <1>2, InvFacts DEF Sound
<1>4. desks' \in Desktops /\ Ranked(desks') /\ Fewer(desks', dk) /\ Sound(desks', windows, outputs)
    BY <1>1, <1>2, <1>3, InvFacts, ConsiderSound DEF Ranked
<1>5. \A v \in Windows : desks'.on[windows[v].desk] = ScreenOf(v)
    BY <1>2, <1>4 DEF Sound, Fewer, ScreenOf
<1> QED
    BY <1>4, <1>5, DesktopsChange DEF Look

LEMMA NewDesktopKeeps ==
    ASSUME Inv, NEW s \in Screens, NewDesktop(s)
    PROVE  Inv'
<1>1. PICK d \in Desks \ Live(desks) :
         LET dk == Raise(Create(desks, [e \in {d} |-> s], outputs), d)
         IN  desks' = ConsiderDestroy([dk EXCEPT !.keep = @ \cup {d}], windows, {Shown(desks, s)})
    BY DEF NewDesktop
<1> DEFINE new == [e \in {d} |-> s]
           da == Create(desks, new, outputs)
           db == Raise(da, d)
           dc == [db EXCEPT !.keep = @ \cup {d}]
<1>2. desks' = ConsiderDestroy(dc, windows, {Shown(desks, s)})
    BY <1>1
<1>3. s \in ToSet(outputs) /\ d \in Desks
    BY DEF NewDesktop
<1>4. new \in Bijection({d}, {s}) /\ new[d] = s
    BY DEF Bijection, Injection, Surjection, IsInjective
<1>5. /\ da \in Desktops /\ Ranked(da) /\ Live(da) = Live(desks) \cup {d}
      /\ da.on[d] = s /\ \A e \in Desks \ {d} : da.on[e] = desks.on[e]
    <2> DEFINE fresh == {d}
               bare == {s}
    <2>1. /\ fresh \subseteq Desks \ Live(desks) /\ bare \subseteq ToSet(outputs)
          /\ new \in Bijection(fresh, bare)
        BY <1>3, <1>4
    <2>2. Once(outputs)
        BY DEF Inv
    <2>0. da = Create(desks, new, outputs)
        OBVIOUS
    <2> HIDE DEF new, da, fresh, bare
    <2>3. /\ da \in Desktops /\ Ranked(da) /\ Live(da) = Live(desks) \cup fresh
          /\ \A e \in fresh : da.on[e] = new[e]
          /\ \A e \in Desks \ fresh : da.on[e] = desks.on[e]
        <3>1. desks \in Desktops /\ Ranked(desks) /\ outputs \in Seq(Screens)
            BY InvFacts
        <3> QED
            BY <2>0, <2>1, <2>2, <3>1, CreateKeeps
    <2> QED
        BY <1>4, <2>3 DEF fresh
<1> HIDE DEF new, da
<1>6. db \in Desktops /\ Ranked(db) /\ db.on = da.on /\ Live(db) = Live(da) /\ \A t : Of(db, t) = Of(da, t)
    <2>1. d \in Live(da)
        BY <1>5
    <2> QED
        BY <1>5, <2>1, RaiseKeeps
<1> HIDE DEF db
<1>7. dc \in Desktops /\ dc.on = da.on /\ dc.age = db.age
    BY <1>3, <1>6 DEF Desktops
<1> HIDE DEF dc
<1>8. Live(dc) = Live(desks) \cup {d} /\ \A t : Of(dc, t) = Of(da, t)
    BY <1>5, <1>7 DEF Live, Of
<1>9. Ranked(dc)
    BY <1>5, <1>6, <1>7, <1>8 DEF Ranked, Distinct, Bounded
<1>10. Sound(dc, windows, outputs)
    <2>1. ASSUME NEW t \in ToSet(outputs) PROVE Of(dc, t) # {}
        <3>1. PICK e : e \in Of(desks, t)
            BY InvFacts DEF Sound
        <3>2. t \in Screens /\ e \in Desks /\ desks.on[e] = t /\ e \in Live(desks)
            BY <3>1, InvFacts, OfIsLive DEF Of
        <3>3. da.on[e] = t
            BY <1>5, <3>2
        <3> QED
            BY <1>8, <3>2, <3>3 DEF Of
    <2>2. ASSUME NEW e \in Live(dc) PROVE dc.on[e] \in ToSet(outputs) \/ outputs = <<>>
        <3>1. CASE e = d
            BY <1>3, <1>5, <1>7, <3>1
        <3>2. CASE e # d
            <4>1. e \in Live(desks) /\ e \in Desks \ {d}
                BY <1>8, <3>2, InvFacts, OfIsLive
            <4> QED
                BY <1>5, <1>7, <4>1, InvFacts DEF Sound
        <3> QED
            BY <3>1, <3>2
    <2>3. \A w \in Windows : windows[w].desk \in Live(dc)
        BY <1>8, InvFacts
    <2> QED
        BY <2>1, <2>2, <2>3 DEF Sound
<1>11. desks' \in Desktops /\ Ranked(desks') /\ Fewer(desks', dc) /\ Sound(desks', windows, outputs)
    BY <1>2, <1>7, <1>9, <1>10, InvFacts, ConsiderSound DEF Ranked
<1>12. ASSUME NEW v \in Windows PROVE desks'.on[windows[v].desk] = ScreenOf(v)
    <2>1. windows[v].desk \in Live(desks) /\ windows[v].desk \in Desks \ {d} /\ windows[v].desk \in Live(desks')
        BY <1>11, InvFacts, OfIsLive DEF Sound
    <2>2. desks'.on[windows[v].desk] = dc.on[windows[v].desk]
        BY <1>11, <2>1 DEF Fewer
    <2>3. dc.on[windows[v].desk] = desks.on[windows[v].desk]
        BY <1>5, <1>7, <2>1
    <2> QED
        BY <2>2, <2>3 DEF ScreenOf
<1> QED
    BY <1>11, <1>12, DesktopsChange DEF NewDesktop

LEMMA SnapStepKeeps ==
    ASSUME Inv, NEW w \in Windows, NEW way \in {"left", "right", "up", "down"}, Snap(w, way)
    PROVE  Inv'
<1> DEFINE c == windows[w]
           s == ScreenOf(w)
           slot == CASE way \in {"left", "right"} -> IF c.as = Mirror(way) THEN "free" ELSE way
                     [] way = "up" -> "full"
                     [] OTHER -> "free"
           o == SnapTo(c, slot, s)
<1>1. windows' = [windows EXCEPT ![w] = o]
    BY DEF Snap
<1>2. slot \in Slots \cup {"free"}
    BY DEF Slots
<1>3. c \in Containers /\ s \in Screens /\ Placed(c, s, spot[w]) /\ Noted(c, spot[w])
    BY InvFacts DEF InPlace
<1> HIDE DEF slot, c, s
<1>4. o \in Containers /\ o.desk = c.desk /\ o.home = c.home /\ Placed(o, s, spot[w])
    BY <1>2, <1>3, SnapKeeps
<1> HIDE DEF o
<1>5. windows' \in [Windows -> Containers] /\ windows'[w] = o /\ \A v \in Windows \ {w} : windows'[v] = windows[v]
    BY <1>1, <1>4, InvFacts
<1>6. \A v \in Windows : windows'[v].desk = windows[v].desk
    BY <1>4, <1>5 DEF c
<1>7. Sound(desks, windows', outputs)
    BY <1>6, InvFacts DEF Sound
<1>8. desks' = desks /\ was' = was /\ spot' = Spots(windows', {}) /\ UNCHANGED <<outputs, changes, returning>>
    BY DEF Snap, Same
<1>9. Placed(windows'[w], desks'.on[windows'[w].desk], spot[w]) /\ windows'[w].home = windows[w].home
    BY <1>4, <1>5, <1>6, <1>8 DEF s, ScreenOf, c
<1>10. \A v \in Windows \ {w} : windows'[v] = windows[v] /\ desks'.on[windows[v].desk] = ScreenOf(v)
    BY <1>5, <1>8 DEF ScreenOf
<1>11. desks' \in Desktops /\ Ranked(desks') /\ Sound(desks', windows', outputs)
    BY <1>7, <1>8, InvFacts
<1> QED
    BY <1>5, <1>8, <1>9, <1>10, <1>11, OneChanges

LEMMA SnapAcrossKeeps ==
    ASSUME Inv, NEW w \in Windows, NEW way \in {"left", "right"}, SnapAcross(w, way)
    PROVE  Inv'
<1>1. PICK s \in Beside(ScreenOf(w), way) :
         LET to == Shown(desks, s)
             st == MoveTo(desks, [windows EXCEPT ![w] = Forget(@)], GoalOf(windows, w, to))
         IN  /\ desks' = Raise(st.dk, to)
             /\ windows' = [st.win EXCEPT ![w] = SnapTo(@, Mirror(way), s)]
    BY DEF SnapAcross
<1> DEFINE to == Shown(desks, s)
           f == Forget(windows[w])
           win == [windows EXCEPT ![w] = f]
           st == MoveTo(desks, win, GoalOf(windows, w, to))
           o == SnapTo(st.win[w], Mirror(way), s)
<1>2. desks' = Raise(st.dk, to) /\ windows' = [st.win EXCEPT ![w] = o]
    BY <1>1
<1>3. s \in ToSet(outputs) /\ s \in Screens
    BY InvFacts DEF Beside, Beyond
<1>4. /\ f \in Containers /\ f.desk = windows[w].desk /\ f.as = windows[w].as /\ f.home = NoHome
      /\ Placed(f, ScreenOf(w), spot[w])
    BY InvFacts, ForgetKeeps DEF InPlace
<1>5. windows[w].as = way
    BY DEF SnapAcross
<1> HIDE DEF f
<1>6. win \in [Windows -> Containers] /\ win[w] = f /\ \A v \in Windows \ {w} : win[v] = windows[v]
    BY <1>4, InvFacts
<1>7. \A v \in Windows : win[v].desk = windows[v].desk
    BY <1>4, <1>6
<1>8. GoalOf(windows, w, to) = GoalOf(win, w, to)
    BY <1>7 DEF GoalOf
<1> HIDE DEF win
<1>9. Sound(desks, win, outputs)
    BY <1>7, InvFacts DEF Sound
<1>10. st = MoveTo(desks, win, GoalOf(win, w, to))
    BY <1>8
<1> HIDE DEF st, to
<1>11. to = Shown(desks, s)
    BY DEF to
<1>12. outputs \in Seq(Screens) /\ desks \in Desktops /\ Ranked(desks)
    BY InvFacts
<1>13. /\ desks' \in Desktops /\ Ranked(desks') /\ Sound(desks', st.win, outputs)
       /\ desks'.on[to] = s /\ st.win \in [Windows -> Containers]
       /\ \A v \in Windows \ {w} : st.win[v] = win[v] /\ desks'.on[win[v].desk] = desks.on[win[v].desk]
       /\ st.win[w].desk = to /\ st.win[w].as = win[w].as /\ st.win[w].home = win[w].home
       /\ \A p : Placed(win[w], desks.on[win[w].desk], p) => Placed(st.win[w], s, p)
    <2> DEFINE dl == Raise(st.dk, to)
    <2>1. dl = Raise(st.dk, to) /\ desks' = dl /\ w \in Windows
        BY <1>2
    <2> HIDE DEF dl
    <2>2. /\ dl \in Desktops /\ Ranked(dl) /\ Sound(dl, st.win, outputs)
          /\ dl.on[to] = s /\ st.win \in [Windows -> Containers]
          /\ \A v \in Windows \ {w} : st.win[v] = win[v] /\ dl.on[win[v].desk] = desks.on[win[v].desk]
          /\ st.win[w].desk = to /\ st.win[w].as = win[w].as /\ st.win[w].home = win[w].home
        BY <1>3, <1>6, <1>9, <1>10, <1>11, <1>12, <2>1, GoTo
    <2>3. st.win[w] = Moved(desks, win[w], to) /\ to \in Live(desks) /\ desks.on[to] = s
        BY <1>3, <1>6, <1>9, <1>10, <1>11, <1>12, <2>1, GoTo
    <2>4. \A p : Placed(win[w], desks.on[win[w].desk], p) => Placed(st.win[w], s, p)
        <3> DEFINE c == win[w]
                   b == st.win[w]
        <3>1. c \in Containers /\ c.desk \in Live(desks) /\ b = Moved(desks, c, to)
            BY <1>6, <1>9, <2>3 DEF Sound
        <3> HIDE DEF c, b
        <3>2. \A p : Placed(c, desks.on[c.desk], p) => Placed(b, desks.on[to], p)
            BY <1>12, <2>3, <3>1, MovedKeeps
        <3> QED
            BY <2>3, <3>2 DEF c, b
    <2> QED
        BY <2>1, <2>2, <2>4
<1>14. Placed(st.win[w], s, spot[w]) /\ Noted(st.win[w], spot[w]) /\ st.win[w] \in Containers
    <2>1. Placed(st.win[w], s, spot[w])
        BY <1>4, <1>6, <1>7, <1>13 DEF ScreenOf
    <2>2. st.win[w].as # "free"
        BY <1>4, <1>5, <1>6, <1>13
    <2> QED
        BY <1>13, <2>1, <2>2 DEF Noted
<1>15. Mirror(way) \in Slots \cup {"free"}
    BY DEF Mirror, Slots
<1>16. o \in Containers /\ o.desk = to /\ o.home = NoHome /\ Placed(o, s, spot[w])
    <2>1. o \in Containers /\ o.desk = st.win[w].desk /\ o.home = st.win[w].home /\ Placed(o, s, spot[w])
        BY <1>3, <1>14, <1>15, SnapKeeps
    <2> QED
        BY <1>4, <1>6, <1>13, <2>1
<1> HIDE DEF o
<1>17. /\ windows' \in [Windows -> Containers] /\ windows'[w] = o
       /\ \A v \in Windows \ {w} : windows'[v] = windows[v] /\ desks'.on[windows[v].desk] = ScreenOf(v)
    BY <1>2, <1>6, <1>13, <1>16 DEF ScreenOf
<1>18. Sound(desks', windows', outputs)
    <2>1. \A v \in Windows : windows'[v].desk = st.win[v].desk
        BY <1>2, <1>13, <1>16
    <2> QED
        BY <1>13, <2>1 DEF Sound
<1>19. was' = [was EXCEPT ![w] = AtHome] /\ spot' = Spots(windows', {}) /\ UNCHANGED <<outputs, changes, returning>>
    BY DEF SnapAcross, By
<1>20. Placed(windows'[w], desks'.on[windows'[w].desk], spot[w]) /\ windows'[w].home = NoHome
    BY <1>13, <1>16, <1>17
<1> QED
    BY <1>13, <1>17, <1>18, <1>19, <1>20, OneChanges

LEMMA MoveToDesktopKeeps ==
    ASSUME Inv, NEW w \in Windows, NEW d \in Desks, NEW follow \in BOOLEAN, MoveToDesktop(w, d, follow)
    PROVE  Inv'
<1> DEFINE f == Forget(windows[w])
           b == [f EXCEPT !.desk = d]
           c == ScreenChanged(b, ScreenOf(w), desks.on[d])
           dk == IF follow THEN Raise(desks, d) ELSE desks
<1>1. /\ d \in Live(desks) /\ windows' = [windows EXCEPT ![w] = c]
      /\ desks' = ConsiderDestroy(dk, windows', {windows[w].desk})
      /\ was' = [was EXCEPT ![w] = AtHome] /\ spot' = Spots(windows', {})
      /\ UNCHANGED <<outputs, changes, returning>>
    BY DEF MoveToDesktop, By
<1>2. f \in Containers /\ f.home = NoHome /\ Placed(f, ScreenOf(w), spot[w])
    BY InvFacts, ForgetKeeps DEF InPlace
<1> HIDE DEF f
<1>3. b \in Containers /\ b.desk = d /\ b.home = NoHome /\ Placed(b, ScreenOf(w), spot[w])
    <2>1. b = [desk |-> d, as |-> f.as, box |-> f.box, restore |-> f.restore, home |-> f.home]
        BY <1>2, Fields
    <2>2. b \in Containers
        BY <1>2, <2>1, Fields DEF Containers
    <2>3. /\ b.desk = d /\ b.home = NoHome /\ b.as = f.as /\ b.box = f.box /\ b.restore = f.restore
        BY <1>2, <2>1
    <2> QED
        BY <1>2, <2>2, <2>3 DEF Placed
<1> HIDE DEF b
<1>4. desks.on[d] \in Screens
    BY <1>1, InvFacts, OfIsLive
<1>5. c \in Containers /\ c.desk = d /\ c.home = NoHome /\ Placed(c, desks.on[d], spot[w])
    BY <1>3, <1>4, ScreenChangedKeeps
<1> HIDE DEF c
<1>6. /\ dk \in Desktops /\ Ranked(dk) /\ dk.on = desks.on /\ Live(dk) = Live(desks)
      /\ \A s : Of(dk, s) = Of(desks, s)
    <2>1. CASE follow
        BY <1>1, <2>1, InvFacts, RaiseKeeps
    <2>2. CASE ~follow
        BY <2>2, InvFacts
    <2> QED
        BY <2>1, <2>2
<1> HIDE DEF dk
<1>7. /\ windows' \in [Windows -> Containers] /\ windows'[w] = c
      /\ \A v \in Windows \ {w} : windows'[v] = windows[v]
    BY <1>1, <1>5, InvFacts
<1>8. Sound(dk, windows', outputs)
    <2>1. \A v \in Windows : windows'[v].desk \in Live(dk)
        BY <1>1, <1>5, <1>6, <1>7, InvFacts
    <2> QED
        BY <1>6, <2>1, InvFacts DEF Sound
<1>9. desks' \in Desktops /\ Ranked(desks') /\ Fewer(desks', dk) /\ Sound(desks', windows', outputs)
    BY <1>1, <1>6, <1>8, InvFacts, ConsiderSound DEF Ranked
<1>10. \A v \in Windows : desks'.on[windows'[v].desk] = desks.on[windows'[v].desk]
    BY <1>6, <1>9 DEF Sound, Fewer
<1>11. \A v \in Windows \ {w} : windows'[v] = windows[v] /\ desks'.on[windows[v].desk] = ScreenOf(v)
    BY <1>7, <1>10 DEF ScreenOf
<1>12. Placed(windows'[w], desks'.on[windows'[w].desk], spot[w]) /\ windows'[w].home = NoHome
    BY <1>5, <1>7, <1>10
<1> QED
    BY <1>1, <1>7, <1>9, <1>11, <1>12, OneChanges

\* Where a drag leaves a window.
LEMMA DroppedIs ==
    ASSUME Inv, NEW w \in Windows, NEW s \in ToSet(outputs), NEW p \in Marks, NEW o, o = Dropped(w, s, p)
    PROVE  /\ o \in Containers /\ o.desk = Shown(desks, s) /\ o.as = "free" /\ o.home = NoHome
           /\ o.box = At(s, p)
           /\ Shown(desks, s) \in Live(desks) /\ desks.on[Shown(desks, s)] = s /\ s \in Screens
<1> DEFINE d == Shown(desks, s)
           f == Forget(windows[w])
           r == Restore(f, ScreenOf(w))
<1>1. s \in Screens /\ Of(desks, s) # {}
    BY InvFacts DEF Sound
<1>2. d \in Of(desks, s)
    BY <1>1, InvFacts, ShownIs
<1>3. d \in Live(desks) /\ desks.on[d] = s /\ d \in Desks
    BY <1>1, <1>2, InvFacts, OfIsLive DEF Of
<1>4. f \in Containers /\ f.home = NoHome /\ ScreenOf(w) \in Screens
    BY InvFacts, ForgetKeeps
<1> HIDE DEF f, d
<1>5. r = SnapTo(f, "free", ScreenOf(w))
    BY DEF SnapTo
<1> HIDE DEF r
<1>6. r \in Containers /\ r.as = "free" /\ r.home = NoHome
    BY <1>4, <1>5, SnapKeeps
<1>7. o = [r EXCEPT !.desk = d, !.box = At(s, p)]
    BY DEF Dropped, r, f, d
<1>8. At(s, p) \in Boxes
    BY <1>1, AtIsBox
<1> DEFINE box == At(s, p)
<1> HIDE DEF box
<1>9. o = [desk |-> d, as |-> r.as, box |-> box, restore |-> r.restore, home |-> r.home]
    <2>1. o = [r EXCEPT !.desk = d, !.box = box]
        BY <1>7 DEF box
    <2>2. r = [desk |-> r.desk, as |-> r.as, box |-> r.box, restore |-> r.restore, home |-> r.home]
        BY <1>6, Fields
    <2>3. DOMAIN o = {"desk", "as", "box", "restore", "home"}
        BY <2>1, <2>2
    <2>4. o.desk = d /\ o.as = r.as /\ o.box = box /\ o.restore = r.restore /\ o.home = r.home
        BY <2>1, <2>2
    <2>5. o = [x \in DOMAIN o |-> o[x]]
        BY <2>1
    <2> QED
        BY <2>3, <2>4, <2>5
<1>10. o \in Containers
    BY <1>3, <1>6, <1>8, <1>9, Fields DEF Containers, box
<1>11. o.desk = d /\ o.as = "free" /\ o.home = NoHome /\ o.box = box
    BY <1>6, <1>9
<1> QED
    BY <1>1, <1>3, <1>10, <1>11 DEF d, box

LEMMA ClickKeeps ==
    ASSUME Inv, NEW w \in Windows, Click(w)
    PROVE  Inv'
<1> DEFINE o == Forget(windows[w])
<1>1. /\ windows' = [windows EXCEPT ![w] = o] /\ desks' = desks
      /\ was' = [was EXCEPT ![w] = AtHome] /\ spot' = Spots(windows', {})
      /\ UNCHANGED <<outputs, changes, returning>>
    BY DEF Click, By
<1>2. o \in Containers /\ o.desk = windows[w].desk /\ o.home = NoHome /\ Placed(o, ScreenOf(w), spot[w])
    BY InvFacts, ForgetKeeps DEF InPlace
<1> HIDE DEF o
<1>3. /\ windows' \in [Windows -> Containers] /\ windows'[w] = o
      /\ \A v \in Windows \ {w} : windows'[v] = windows[v] /\ desks'.on[windows[v].desk] = ScreenOf(v)
    BY <1>1, <1>2, InvFacts DEF ScreenOf
<1>4. Sound(desks', windows', outputs)
    <2>1. \A v \in Windows : windows'[v].desk = windows[v].desk
        BY <1>2, <1>3
    <2> QED
        BY <1>1, <2>1, InvFacts DEF Sound
<1>5. Placed(windows'[w], desks'.on[windows'[w].desk], spot[w]) /\ windows'[w].home = NoHome
    BY <1>1, <1>2, <1>3 DEF ScreenOf
<1>6. desks' \in Desktops /\ Ranked(desks')
    BY <1>1, InvFacts
<1> QED
    BY <1>1, <1>3, <1>4, <1>5, <1>6, OneChanges

LEMMA DropKeeps ==
    ASSUME Inv, NEW w \in Windows, NEW s \in Screens, NEW p \in Places, Drop(w, s, p)
    PROVE  Inv'
<1> DEFINE o == Dropped(w, s, p)
<1>1. /\ s \in ToSet(outputs) /\ windows' = [windows EXCEPT ![w] = o] /\ desks' = desks
      /\ was' = [was EXCEPT ![w] = AtHome] /\ spot' = Spots(windows', {})
      /\ UNCHANGED <<outputs, changes, returning>>
    BY DEF Drop, By
<1>2. p \in Marks
    BY AtIsBox
<1>3. o = Dropped(w, s, p)
    OBVIOUS
<1> HIDE DEF o
<1>4. /\ o \in Containers /\ o.desk \in Live(desks) /\ desks.on[o.desk] = s
      /\ o.as = "free" /\ o.home = NoHome /\ o.box = At(s, p)
    BY <1>1, <1>2, <1>3, DroppedIs
<1>5. /\ windows' \in [Windows -> Containers] /\ windows'[w] = o
      /\ \A v \in Windows \ {w} : windows'[v] = windows[v] /\ desks'.on[windows[v].desk] = ScreenOf(v)
    BY <1>1, <1>4, InvFacts DEF ScreenOf
<1>6. Sound(desks', windows', outputs)
    <2>1. \A v \in Windows : windows'[v].desk \in Live(desks)
        BY <1>4, <1>5, InvFacts
    <2> QED
        BY <1>1, <2>1, InvFacts DEF Sound
<1>7. Placed(windows'[w], desks'.on[windows'[w].desk], spot[w]) /\ windows'[w].home = NoHome
    BY <1>1, <1>4, <1>5, AtIsBox DEF Placed
<1>8. desks' \in Desktops /\ Ranked(desks')
    BY <1>1, InvFacts
<1> QED
    BY <1>1, <1>5, <1>6, <1>7, <1>8, OneChanges

LEMMA DropAtEdgeKeeps ==
    ASSUME Inv, NEW w \in Windows, NEW s \in Screens, NEW t \in Screens, NEW slot \in Slots,
           DropAtEdge(w, s, t, slot)
    PROVE  Inv'
<1> DEFINE e == Dropped(w, s, "edge")
           put == [windows EXCEPT ![w] = e]
           to == Shown(desks, t)
           st == MoveTo(desks, put, GoalOf(put, w, to))
           dl == Raise(st.dk, to)
           b == SnapTo(st.win[w], slot, t)
           o == [b EXCEPT !.restore = Before(w)]
           p == IF Before(w).at = t THEN Before(w).place ELSE None
<1>1. /\ s \in ToSet(outputs) /\ t \in ToSet(outputs)
      /\ desks' = IF s = t THEN desks ELSE dl
      /\ windows' = [st.win EXCEPT ![w] = o]
      /\ was' = [was EXCEPT ![w] = AtHome] /\ spot' = [spot EXCEPT ![w] = p]
      /\ UNCHANGED <<outputs, changes, returning>>
    BY DEF DropAtEdge
<1>2. e = Dropped(w, s, "edge") /\ "edge" \in Marks
    BY AtIsBox
<1>3. Before(w) \in Boxes
    BY InvFacts, Fields DEF Before
<1> HIDE DEF e
<1>4. /\ e \in Containers /\ e.desk = Shown(desks, s) /\ e.desk \in Live(desks) /\ desks.on[e.desk] = s
      /\ e.as = "free" /\ e.home = NoHome /\ e.box.at = s
    BY <1>1, <1>2, DroppedIs, AtIsBox
<1>5. put \in [Windows -> Containers] /\ put[w] = e /\ \A v \in Windows \ {w} : put[v] = windows[v]
    BY <1>4, InvFacts
<1> HIDE DEF put
<1>6. Sound(desks, put, outputs)
    <2>1. \A v \in Windows : put[v].desk \in Live(desks)
        BY <1>4, <1>5, InvFacts
    <2> QED
        BY <2>1, InvFacts DEF Sound
<1>7. to = Shown(desks, t) /\ st = MoveTo(desks, put, GoalOf(put, w, to)) /\ dl = Raise(st.dk, to)
    OBVIOUS
<1> HIDE DEF to, st, dl
<1>8. outputs \in Seq(Screens) /\ desks \in Desktops /\ Ranked(desks)
    BY InvFacts
<1>9. /\ dl \in Desktops /\ Ranked(dl) /\ Sound(dl, st.win, outputs)
      /\ to \in Live(desks) /\ desks.on[to] = t /\ dl.on[to] = t
      /\ st.win \in [Windows -> Containers]
      /\ \A v \in Windows \ {w} : st.win[v] = put[v] /\ dl.on[put[v].desk] = desks.on[put[v].desk]
      /\ st.win[w].desk = to /\ st.win[w].as = put[w].as /\ st.win[w].home = put[w].home
    BY <1>1, <1>5, <1>6, <1>7, <1>8, GoTo
<1>10. st.win[w] \in Containers /\ st.win[w].as = "free" /\ st.win[w].home = NoHome /\ st.win[w].desk = to
    BY <1>4, <1>5, <1>9
<1>11. /\ b \in Containers /\ b.desk = to /\ b.as = slot /\ b.home = NoHome /\ b.box = At(t, slot)
    <2>1. slot # "free"
        BY DEF Slots
    <2> QED
        BY <1>10, <2>1, SnapKeeps
<1> HIDE DEF b
<1>12. o = [desk |-> b.desk, as |-> b.as, box |-> b.box, restore |-> Before(w), home |-> b.home]
    BY <1>11, Fields
<1>13. o \in Containers
    BY <1>3, <1>11, <1>12, Fields DEF Containers
<1>14. o.desk = to /\ o.as = slot /\ o.home = NoHome /\ o.box = At(t, slot) /\ o.restore = Before(w)
    BY <1>11, <1>12
<1> HIDE DEF o
<1>15. p \in Marks /\ (p # None => Before(w) = At(t, p))
    BY <1>3, AtIsBox
<1> HIDE DEF p
<1>16. /\ windows' \in [Windows -> Containers] /\ windows'[w] = o
       /\ \A v \in Windows \ {w} : windows'[v] = windows[v]
    BY <1>1, <1>5, <1>9, <1>13
<1>17. desks' \in Desktops /\ Ranked(desks')
    BY <1>1, <1>8, <1>9
<1>18. \A v \in Windows \ {w} : desks'.on[windows[v].desk] = ScreenOf(v)
    BY <1>1, <1>5, <1>9 DEF ScreenOf
<1>19. Sound(desks', windows', outputs)
    <2>1. CASE s = t
        <3>1. \A v \in Windows : windows'[v].desk \in Live(desks)
            BY <1>9, <1>14, <1>16, InvFacts
        <3> QED
            BY <1>1, <2>1, <3>1, InvFacts DEF Sound
    <2>2. CASE s # t
        <3>1. \A v \in Windows : windows'[v].desk = st.win[v].desk
            BY <1>5, <1>9, <1>14, <1>16
        <3> QED
            BY <1>1, <1>9, <2>2, <3>1 DEF Sound
    <2> QED
        BY <2>1, <2>2
<1>20. desks'.on[windows'[w].desk] = t
    BY <1>1, <1>9, <1>14, <1>16
<1>21. spot \in [Windows -> Marks]
    BY DEF Inv, TypeOK
<1>22. spot' \in [Windows -> Marks] /\ spot'[w] = p /\ \A v \in Windows \ {w} : spot'[v] = spot[v]
    BY <1>1, <1>15, <1>21
<1>23. slot # "free"
    BY DEF Slots
<1>24. Placed(windows'[w], desks'.on[windows'[w].desk], spot'[w]) /\ Noted(windows'[w], spot'[w])
    BY <1>14, <1>15, <1>16, <1>20, <1>22, <1>23 DEF Placed, Noted
<1>25. windows'[w].home = NoHome
    BY <1>14, <1>16
<1> QED
    BY <1>1, <1>16, <1>17, <1>18, <1>19, <1>22, <1>24, <1>25, OneIsPut
----------------------------------------------------------------------------
(* Screens going away and coming back.                                          *)

\* What a screen that goes remembers of its windows is how they were.
LEMMA LeavesIs ==
    ASSUME Inv, NEW w \in Windows, NEW k, k = Remember(windows[w], ScreenOf(w))
    PROVE  Leaves(w, ScreenOf(w)) \in Histories /\ Homely(k.home, Leaves(w, ScreenOf(w)))
<1> DEFINE s == ScreenOf(w)
           c == windows[w]
           b == was[w]
           p == spot[w]
           n == Leaves(w, s)
<1>1. /\ c \in Containers /\ s \in Screens /\ Placed(c, s, p) /\ Noted(c, p)
      /\ b \in Histories /\ p \in Marks
    <2>1. b \in Histories /\ p \in Marks
        BY DEF Inv, TypeOK, Histories
    <2> QED
        BY <2>1, InvFacts DEF InPlace
<1>2. n = IF b.left \subseteq {s} THEN [left |-> {s}, as |-> c.as, spot |-> p]
          ELSE [left |-> b.left \cup {s}, as |-> "free", spot |-> None]
    BY DEF Leaves, AtHome
<1>3. k = Remember(c, s)
    OBVIOUS
<1> HIDE DEF n, c, b, p, s
<1>4. k.home.screen = s /\ k.home.as = c.as /\ k.home.restore = IF c.as = "free" THEN c.box ELSE c.restore
    BY <1>1, <1>3, RememberIs
<1>5. c.as \in Slots \cup {"free"} /\ c.box \in Boxes
    BY <1>1, Fields
<1>6. CASE b.left \subseteq {s}
    <2>1. n.left = {s} /\ n.as = c.as /\ n.spot = p
        BY <1>2, <1>6
    <2>2. n \in Histories
        BY <1>1, <1>2, <1>5, <1>6 DEF Histories
    <2>3. p # None => k.home.restore = At(s, p)
        BY <1>1, <1>4, <1>5, AtIsBox DEF Placed, Noted
    <2>4. Homely(k.home, n)
        BY <1>1, <1>4, <2>1, <2>3 DEF Homely
    <2> QED
        BY <2>2, <2>4 DEF n, s
<1>7. CASE ~ (b.left \subseteq {s})
    <2>1. n.left = b.left \cup {s} /\ n.spot = None
        BY <1>2, <1>7
    <2>2. b.left \in SUBSET Screens
        BY <1>1 DEF Histories
    <2>3. n \in Histories
        BY <1>1, <1>2, <1>7, <2>2, AtIsBox DEF Histories
    <2>4. \A t \in Screens : n.left # {t}
        BY <1>7, <2>1
    <2>5. n.left # {}
        BY <2>1
    <2>6. Homely(k.home, n)
        BY <2>1, <2>4, <2>5 DEF Homely
    <2> QED
        BY <2>3, <2>6 DEF n, s
<1> QED
    BY <1>6, <1>7

\* A screen that goes: what it showed is on view elsewhere, if there is a screen.
LEMMA UnplugKeeps ==
    ASSUME Inv, NEW s \in Screens, Unplug(s)
    PROVE  /\ Inv'
           /\ ToSet(outputs') = ToSet(outputs) \ {s}
           /\ outputs' # <<>> =>
                \A w \in Windows : windows[w].desk = Shown(desks, s)
                    => OnView(desks', outputs', windows'[w].desk)
<1>1. PICK i \in DOMAIN outputs : outputs[i] = s /\ outputs' = RemoveAt(outputs, i)
    BY DEF Unplug
<1>2. s \in ToSet(outputs)
    BY <1>1 DEF ToSet
<1>3. /\ outputs \in Seq(Screens) /\ desks \in Desktops /\ Ranked(desks) /\ Once(outputs)
      /\ windows \in [Windows -> Containers] /\ Sound(desks, windows, outputs)
    BY InvFacts DEF Inv
<1>4. outputs' \in Seq(Screens) /\ Once(outputs') /\ ToSet(outputs') = ToSet(outputs) \ {s}
    BY <1>1, <1>3, OneLess
<1> DEFINE less == outputs'
           leaving == {w \in Windows : ScreenOf(w) = s}
           known == [w \in Windows |-> IF w \in leaving THEN Remember(windows[w], s) ELSE windows[w]]
           dk == Evacuate(desks, known, s, less)
           placed == [w \in Windows |->
                        IF w \in leaving /\ less # <<>>
                        THEN ScreenChanged(known[w], s, dk.on[known[w].desk]) ELSE known[w]]
           ws == Shown(desks, s)
           st == Join(dk, placed, ws, less)
<1>5. /\ desks' = st.dk /\ windows' = st.win
      /\ was' = [w \in Windows |-> IF w \in leaving THEN Leaves(w, s) ELSE was[w]]
      /\ spot' = Spots(windows', {}) /\ returning' = returning /\ changes' = changes + 1
    BY DEF Unplug, Change
<1>6. ASSUME NEW w \in Windows
      PROVE  /\ known[w] \in Containers /\ known[w].desk = windows[w].desk
             /\ Placed(known[w], ScreenOf(w), spot[w])
             /\ w \in leaving => Homely(known[w].home, Leaves(w, s))
             /\ w \notin leaving => known[w].home = windows[w].home
    <2>1. windows[w] \in Containers /\ Placed(windows[w], ScreenOf(w), spot[w])
        BY InvFacts DEF InPlace
    <2>2. CASE w \in leaving
        <3>1. known[w] = Remember(windows[w], s) /\ ScreenOf(w) = s
            BY <2>2
        <3> HIDE DEF known, leaving
        <3>2. known[w] \in Containers /\ known[w].desk = windows[w].desk /\ Placed(known[w], ScreenOf(w), spot[w])
            BY <2>1, <3>1, RememberIs
        <3>3. Homely(known[w].home, Leaves(w, s))
            BY <3>1, LeavesIs
        <3> QED
            BY <2>2, <3>2, <3>3
    <2>3. CASE w \notin leaving
        <3>1. known[w] = windows[w]
            BY <2>3
        <3> QED
            BY <2>1, <2>3, <3>1
    <2> QED
        BY <2>2, <2>3
<1>7. known \in [Windows -> Containers]
    BY <1>6
<1> HIDE DEF known
<1>8. Sound(desks, known, outputs)
    BY <1>3, <1>6 DEF Sound
<1>9. less \in Seq(Screens) /\ ToSet(less) = ToSet(outputs) \ {s}
    BY <1>4
<1> HIDE DEF less
<1>10. /\ dk \in Desktops /\ Ranked(dk) /\ Sound(dk, known, less)
       /\ \A d \in Live(dk) : desks.on[d] # s \/ less = <<>> => dk.on[d] = desks.on[d]
    <2> DEFINE out == dk
    <2>1. out = Evacuate(desks, known, s, less)
        OBVIOUS
    <2> HIDE DEF out
    <2>2. /\ out \in Desktops /\ Ranked(out) /\ Sound(out, known, less)
          /\ \A d \in Live(out) : desks.on[d] # s \/ less = <<>> => out.on[d] = desks.on[d]
        BY <1>2, <1>3, <1>8, <1>9, <2>1, EvacuateKeeps
    <2> QED
        BY <2>2 DEF out
<1> HIDE DEF dk
<1>11. ASSUME NEW w \in Windows
       PROVE  /\ placed[w] \in Containers /\ placed[w].desk = known[w].desk
              /\ placed[w].home = known[w].home
              /\ Placed(placed[w], dk.on[placed[w].desk], spot[w])
    <2>1. known[w] \in Containers /\ known[w].desk \in Live(dk) /\ dk.on[known[w].desk] \in Screens
        BY <1>6, <1>10, OfIsLive DEF Sound
    <2>2. CASE w \in leaving /\ less # <<>>
        <3> DEFINE c == known[w]
                   o == placed[w]
                   t == dk.on[known[w].desk]
        <3>1. o = ScreenChanged(c, s, t)
            BY <2>2
        <3>2. Placed(c, s, spot[w])
            BY <1>6, <2>2
        <3>3. c \in Containers /\ t \in Screens
            BY <2>1
        <3> HIDE DEF c, o, t
        <3>4. o \in Containers /\ o.desk = c.desk /\ o.home = c.home /\ Placed(o, t, spot[w])
            BY <3>1, <3>2, <3>3, ScreenChangedKeeps
        <3> QED
            BY <3>4 DEF c, o, t
    <2>3. CASE ~ (w \in leaving /\ less # <<>>)
        <3>1. placed[w] = known[w]
            BY <2>3
        <3>2. desks.on[known[w].desk] = ScreenOf(w)
            BY <1>6 DEF ScreenOf
        <3>3. desks.on[known[w].desk] # s \/ less = <<>>
            BY <2>3, <3>2
        <3>4. dk.on[known[w].desk] = ScreenOf(w)
            BY <1>10, <2>1, <3>2, <3>3
        <3> QED
            BY <1>6, <2>1, <3>1, <3>4
    <2> QED
        BY <2>2, <2>3
<1>12. placed \in [Windows -> Containers]
    BY <1>11
<1> HIDE DEF placed
<1>13. Sound(dk, placed, less)
    BY <1>10, <1>11 DEF Sound
<1> DEFINE sd == st.dk
           sw == st.win
<1>14. /\ sd \in Desktops /\ Ranked(sd) /\ Sound(sd, sw, less) /\ sw \in [Windows -> Containers]
       /\ \A w \in Windows : /\ sw[w].home = placed[w].home
                             /\ \A p : Placed(placed[w], dk.on[placed[w].desk], p)
                                         => Placed(sw[w], sd.on[sw[w].desk], p)
       /\ \A w \in Windows : placed[w].desk = ws /\ less # <<>> => OnView(sd, less, sw[w].desk)
    <2> DEFINE o == st
    <2>1. o = Join(dk, placed, ws, less)
        OBVIOUS
    <2> HIDE DEF o, ws
    <2>2. /\ o.dk \in Desktops /\ Ranked(o.dk) /\ Sound(o.dk, o.win, less)
          /\ o.win \in [Windows -> Containers]
        BY <1>9, <1>10, <1>12, <1>13, <2>1, JoinKeeps
    <2>3. ASSUME NEW w \in Windows PROVE o.win[w].home = placed[w].home
        BY <1>9, <1>10, <1>12, <1>13, <2>1, JoinKeeps
    <2>4. ASSUME NEW w \in Windows, NEW p, Placed(placed[w], dk.on[placed[w].desk], p)
          PROVE  Placed(o.win[w], o.dk.on[o.win[w].desk], p)
        BY <1>9, <1>10, <1>12, <1>13, <2>1, <2>4, JoinKeeps
    <2>5. ASSUME NEW w \in Windows, placed[w].desk = ws, less # <<>>
          PROVE  OnView(o.dk, less, o.win[w].desk)
        BY <1>9, <1>10, <1>12, <1>13, <2>1, <2>5, JoinKeeps
    <2> QED
        BY <2>2, <2>3, <2>4, <2>5 DEF o
<1>15. desks' = sd /\ windows' = sw /\ outputs' = less
    BY <1>5 DEF less, dk, placed, known
<1> HIDE DEF sd, sw, st
<1>16. \A w \in Windows : Placed(windows'[w], desks'.on[windows'[w].desk], spot[w])
    BY <1>11, <1>14, <1>15
<1>17. TypeOK /\ windows' \in [Windows -> Containers]
    BY <1>14, <1>15 DEF Inv
<1>18. was' \in [Windows -> Histories]
    <2>1. \A w \in Windows : was[w] \in Histories
        BY <1>17 DEF TypeOK, Histories
    <2>2. \A w \in leaving : Leaves(w, s) \in Histories
        BY LeavesIs
    <2> QED
        BY <1>5, <2>1, <2>2
<1>19. TypeOK'
    <2>1. spot' \in [Windows -> Marks]
        BY <1>5, <1>17, SpotsAre
    <2>2. returning' \in Seq(Screens) /\ changes' \in Nat
        BY <1>5, <1>17 DEF TypeOK
    <2> QED
        BY <1>4, <1>14, <1>15, <1>17, <1>18, <2>1, <2>2 DEF TypeOK, Histories
<1>20. ASSUME NEW w \in Windows PROVE InPlace(w)'
    <2>1. Placed(windows'[w], desks'.on[windows'[w].desk], spot'[w]) /\ Noted(windows'[w], spot'[w])
        BY <1>5, <1>16, <1>17, SpotsAre
    <2>2. windows'[w].home = known[w].home
        BY <1>11, <1>14, <1>15
    <2>3. was'[w] = IF w \in leaving THEN Leaves(w, s) ELSE was[w]
        BY <1>5
    <2>4. Homely(windows[w].home, was[w])
        BY InvFacts DEF InPlace
    <2>5. Homely(windows'[w].home, was'[w])
        <3>1. CASE w \in leaving
            BY <1>6, <2>2, <2>3, <3>1
        <3>2. CASE w \notin leaving
            BY <1>6, <2>2, <2>3, <2>4, <3>2
        <3> QED
            BY <3>1, <3>2
    <2> QED
        BY <2>1, <2>5 DEF InPlace, ScreenOf
<1>21. Inv'
    BY <1>4, <1>14, <1>15, <1>19, <1>20 DEF Inv
<1>22. ASSUME outputs' # <<>>, NEW w \in Windows, windows[w].desk = Shown(desks, s)
       PROVE  OnView(desks', outputs', windows'[w].desk)
    BY <1>6, <1>11, <1>14, <1>15, <1>22
<1> QED
    BY <1>4, <1>21, <1>22

\* A screen that comes takes desktops, and each screen with none gets a new one.
LEMMA PlugKeeps ==
    ASSUME Inv, NEW s \in Screens, Plug(s)
    PROVE  Inv' /\ ToSet(outputs) \subseteq ToSet(outputs') /\ returning' # <<>>
<1> DEFINE row == outputs'
           taken == {d \in Live(desks) : outputs = <<>> \/ Highest(desks, d, row) = s}
           on == [d \in Desks |-> IF d \in taken THEN s ELSE desks.on[d]]
           moved == [desks EXCEPT !.on = on]
           bare == Bare(moved, row)
           back(c) == IF outputs = <<>> /\ desks.on[c.desk] # s
                      THEN [c EXCEPT !.box = At(desks.on[c.desk], "middle")] ELSE c
<1>1. /\ s \notin ToSet(outputs) /\ row = Append(outputs, s) /\ changes' = changes + 1
      /\ returning' = IF s \in ToSet(returning) THEN returning ELSE Append(returning, s)
      /\ was' = was /\ spot' = Spots(windows', {})
      /\ windows' = [w \in Windows |->
            IF windows[w].desk \in taken THEN ScreenChanged(back(windows[w]), ScreenOf(w), s)
            ELSE windows[w]]
    BY DEF Plug, Change, Same
<1>2. PICK fresh \in SUBSET (Desks \ Live(desks)) : \E new \in Bijection(fresh, bare) :
         desks' = Create(moved, new, row)
    BY DEF Plug
<1>3. PICK new \in Bijection(fresh, bare) : desks' = Create(moved, new, row)
    BY <1>2
<1>4. /\ outputs \in Seq(Screens) /\ desks \in Desktops /\ Ranked(desks) /\ Once(outputs)
      /\ windows \in [Windows -> Containers] /\ Sound(desks, windows, outputs)
      /\ TypeOK /\ None \notin Screens
    BY InvFacts, RowHoldsTheScreens DEF Inv
<1>5. row \in Seq(Screens) /\ Once(row) /\ ToSet(row) = ToSet(outputs) \cup {s} /\ row # <<>>
    <2> DEFINE n == Len(outputs)
    <2>1. n \in Nat /\ DOMAIN outputs = 1 .. n /\ \A i \in 1 .. n : outputs[i] # s
        BY <1>1, <1>4 DEF ToSet
    <2>2. /\ row \in Seq(Screens) /\ DOMAIN row = 1 .. n + 1 /\ row[n + 1] = s
          /\ \A i \in 1 .. n : row[i] = outputs[i]
        BY <1>1, <1>4
    <2> HIDE DEF row, n
    <2>3. \A i, j \in 1 .. n : outputs[i] = outputs[j] => i = j
        BY <1>4, <2>1 DEF Once
    <2>4. \A i \in 1 .. n + 1 : i \in 1 .. n \/ i = n + 1
        BY <2>1
    <2>5. Once(row)
        BY <2>1, <2>2, <2>3, <2>4 DEF Once
    <2>6. n + 1 \in DOMAIN row /\ \A i \in 1 .. n : i \in DOMAIN row
        BY <2>1, <2>2
    <2>7. s \in ToSet(row) /\ ToSet(outputs) \subseteq ToSet(row)
        BY <2>1, <2>2, <2>6 DEF ToSet
    <2>8. ToSet(row) \subseteq ToSet(outputs) \cup {s}
        BY <2>1, <2>2, <2>4 DEF ToSet
    <2> QED
        BY <2>2, <2>5, <2>7, <2>8, ScreensOfRow
<1>6. returning' \in Seq(Screens) /\ returning' # <<>>
    <2>1. returning \in Seq(Screens)
        BY <1>4 DEF TypeOK
    <2>2. CASE s \in ToSet(returning)
        BY <1>1, <2>1, <2>2, ScreensOfRow
    <2>3. CASE s \notin ToSet(returning)
        BY <1>1, <2>1, <2>3
    <2> QED
        BY <2>2, <2>3
<1> HIDE DEF row
<1>7. on \in [Desks -> Screens \cup {None}] /\ \A d \in Desks : on[d] = IF d \in taken THEN s ELSE desks.on[d]
    BY <1>4 DEF Desktops
<1>8. taken \subseteq Live(desks) /\ Live(desks) \subseteq Desks /\ (outputs = <<>> => taken = Live(desks))
    BY <1>4, OfIsLive
<1> HIDE DEF taken, on
<1>9. moved \in Desktops /\ moved.on = on /\ moved.age = desks.age
    BY <1>4, <1>7 DEF Desktops
<1> HIDE DEF moved
<1>10. Live(moved) = Live(desks)
    BY <1>4, <1>7, <1>8, <1>9 DEF Live
<1>11. Ranked(moved)
    BY <1>4, <1>9, <1>10 DEF Ranked, Distinct, Bounded
<1>12. bare \subseteq ToSet(row) /\ \A t \in ToSet(row) : t \in bare <=> Of(moved, t) = {}
    BY DEF Bare
<1>13. new \in Bijection(fresh, bare) /\ desks' = Create(moved, new, row) /\ fresh \subseteq Desks \ Live(moved)
    BY <1>2, <1>3, <1>10
<1> HIDE DEF bare
<1>14. /\ desks' \in Desktops /\ Ranked(desks') /\ Live(desks') = Live(desks) \cup fresh
       /\ \A d \in fresh : desks'.on[d] = new[d]
       /\ \A d \in Desks \ fresh : desks'.on[d] = on[d]
    <2> DEFINE out == desks'
    <2>1. out = Create(moved, new, row)
        BY <1>13
    <2> HIDE DEF out
    <2>2. /\ out \in Desktops /\ Ranked(out) /\ Live(out) = Live(moved) \cup fresh
          /\ \A d \in fresh : out.on[d] = new[d]
          /\ \A d \in Desks \ fresh : out.on[d] = moved.on[d]
        BY <1>5, <1>9, <1>11, <1>12, <1>13, <2>1, CreateKeeps
    <2> QED
        BY <1>9, <1>10, <2>2 DEF out
<1>15. /\ \A d \in fresh : new[d] \in bare
       /\ \A t \in bare : \E d \in fresh : new[d] = t
    BY <1>3 DEF Bijection, Injection, Surjection
<1>16. \A d \in Live(desks) : d \in Desks \ fresh
    BY <1>2, <1>8
<1>17. ASSUME NEW w \in Windows
       PROVE  /\ windows'[w] \in Containers /\ windows'[w].desk = windows[w].desk
              /\ windows'[w].home = windows[w].home
              /\ Placed(windows'[w], desks'.on[windows'[w].desk], spot[w])
    <2> DEFINE c == windows[w]
               o == windows'[w]
               f == ScreenOf(w)
    <2>1. /\ c \in Containers /\ c.desk \in Live(desks) /\ f = desks.on[c.desk] /\ f \in Screens
          /\ Placed(c, f, spot[w])
        BY InvFacts DEF InPlace, ScreenOf
    <2>2. o = IF c.desk \in taken THEN ScreenChanged(back(c), f, s) ELSE c
        BY <1>1
    <2>3. desks'.on[c.desk] = IF c.desk \in taken THEN s ELSE desks.on[c.desk]
        BY <1>7, <1>14, <1>16, <2>1
    <2> DEFINE b == back(c)
    <2> HIDE DEF c, o, f
    <2>4. b \in Containers /\ b.desk = c.desk /\ b.home = c.home /\ WayBack(b, f, spot[w])
        <3>1. CASE outputs = <<>> /\ desks.on[c.desk] # s
            <4> DEFINE box == At(desks.on[c.desk], "middle")
            <4>1. box \in Boxes /\ box.at = f
                BY <2>1, AtIsBox
            <4>2. b = [c EXCEPT !.box = box]
                BY <3>1
            <4> HIDE DEF b, box
            <4>3. b = [desk |-> c.desk, as |-> c.as, box |-> box, restore |-> c.restore, home |-> c.home]
                BY <2>1, <4>2, Fields
            <4>4. b \in Containers
                BY <2>1, <4>1, <4>3, Fields DEF Containers
            <4>5. b.desk = c.desk /\ b.as = c.as /\ b.box = box /\ b.restore = c.restore /\ b.home = c.home
                BY <4>3
            <4>6. WayBack(b, f, spot[w])
                BY <2>1, <4>5 DEF Placed, WayBack
            <4> QED
                BY <4>4, <4>5, <4>6
        <3>2. CASE ~ (outputs = <<>> /\ desks.on[c.desk] # s)
            <4>1. b = c
                BY <3>2
            <4> HIDE DEF b
            <4> QED
                BY <2>1, <4>1 DEF Placed, WayBack
        <3> QED
            BY <3>1, <3>2
    <2> HIDE DEF b
    <2>5. CASE c.desk \in taken
        <3>1. o = ScreenChanged(b, f, s)
            BY <2>2, <2>5 DEF b
        <3>2. o \in Containers /\ o.desk = b.desk /\ o.home = b.home /\ Placed(o, s, spot[w])
            BY <2>4, <3>1, ScreenChangedKeeps
        <3> QED
            BY <2>3, <2>4, <2>5, <3>2 DEF o, c
    <2>6. CASE c.desk \notin taken
        <3>1. o = c
            BY <2>2, <2>6
        <3> QED
            BY <2>1, <2>3, <2>6, <3>1 DEF o, c
    <2> QED
        BY <2>5, <2>6
<1>18. windows' \in [Windows -> Containers]
    <2> DEFINE f(w) == IF windows[w].desk \in taken THEN ScreenChanged(back(windows[w]), ScreenOf(w), s)
                       ELSE windows[w]
    <2>1. windows' = [w \in Windows |-> f(w)]
        BY <1>1
    <2> HIDE DEF f
    <2> QED
        BY <1>17, <2>1
<1>19. Sound(desks', windows', row)
    <2>1. ASSUME NEW t \in ToSet(row) PROVE Of(desks', t) # {}
        <3>1. CASE t \in bare
            <4>1. PICK d \in fresh : new[d] = t
                BY <1>15, <3>1
            <4>2. d \in Of(desks', t)
                BY <1>2, <1>14, <4>1 DEF Of
            <4> QED
                BY <4>2
        <3>2. CASE t \notin bare
            <4>1. PICK d : d \in Of(moved, t)
                BY <1>12, <3>2
            <4>2. t \in Screens
                BY <1>5, ScreensOfRow
            <4>3. d \in Desks /\ moved.on[d] = t /\ d \in Live(moved)
                BY <1>9, <4>1, <4>2, OfIsLive DEF Of
            <4>4. desks'.on[d] = t
                BY <1>9, <1>10, <1>14, <1>16, <4>3
            <4> QED
                BY <4>3, <4>4 DEF Of
        <3> QED
            BY <3>1, <3>2
    <2>2. ASSUME NEW d \in Live(desks') PROVE desks'.on[d] \in ToSet(row)
        <3>1. CASE d \in fresh
            BY <1>12, <1>14, <1>15, <3>1
        <3>2. CASE d \notin fresh
            <4>1. d \in Live(desks) /\ d \in Desks /\ desks'.on[d] = on[d]
                BY <1>8, <1>14, <1>16, <3>2
            <4>2. d \in taken \/ (desks.on[d] \in ToSet(outputs) /\ on[d] = desks.on[d])
                BY <1>4, <1>7, <1>8, <4>1 DEF Sound
            <4> QED
                BY <1>5, <1>7, <4>1, <4>2
        <3> QED
            BY <3>1, <3>2
    <2>3. \A w \in Windows : windows'[w].desk \in Live(desks')
        BY <1>14, <1>17, InvFacts
    <2> QED
        BY <2>1, <2>2, <2>3 DEF Sound
<1>20. TypeOK'
    <2>1. spot' \in [Windows -> Marks]
        BY <1>1, <1>4, <1>18, SpotsAre
    <2>2. changes' \in Nat /\ outputs' \in Seq(Screens)
        BY <1>1, <1>4, <1>5 DEF TypeOK, row
    <2> QED
        BY <1>1, <1>4, <1>6, <1>14, <1>18, <2>1, <2>2 DEF TypeOK
<1>21. ASSUME NEW w \in Windows PROVE InPlace(w)'
    <2>1. Placed(windows'[w], desks'.on[windows'[w].desk], spot'[w]) /\ Noted(windows'[w], spot'[w])
        BY <1>1, <1>4, <1>17, <1>18, SpotsAre
    <2>2. Homely(windows'[w].home, was'[w])
        BY <1>1, <1>17, InvFacts DEF InPlace
    <2> QED
        BY <2>1, <2>2 DEF InPlace, ScreenOf
<1>22. Once(outputs') /\ Sound(desks', windows', outputs') /\ ToSet(outputs) \subseteq ToSet(outputs')
    BY <1>5, <1>19 DEF row
<1> QED
    BY <1>6, <1>14, <1>20, <1>21, <1>22 DEF Inv

\* The idle callback: windows whose home is on again are there as they were.
LEMMA ReturnKeeps ==
    ASSUME Inv, ReturnWindows
    PROVE  /\ Inv' /\ outputs' = outputs
           /\ \A w \in Windows :
                /\ \A s \in ToSet(returning) \cap ToSet(outputs) : DisplacedFrom(w, s) =>
                    /\ desks'.on[windows'[w].desk] = s
                    /\ windows'[w].as = was[w].as
                    /\ was[w].spot # None =>
                        At(s, was[w].spot) =
                            IF was[w].as = "free" THEN windows'[w].box ELSE windows'[w].restore
                /\ was[w] = AtHome => windows'[w] = windows[w]
<1> DEFINE on == ToSet(returning) \cap ToSet(outputs)
           sent == {w \in Windows : windows[w].home.screen \in on}
           goal == [w \in Windows |->
                      IF w \in sent /\ ScreenOf(w) # windows[w].home.screen
                      THEN Shown(desks, windows[w].home.screen) ELSE windows[w].desk]
           st == MoveTo(desks, windows, goal)
<1>1. /\ desks' = st.dk
      /\ windows' = [w \in Windows |->
            IF w \in sent THEN ReturnHome(st.win[w], windows[w].home.screen) ELSE windows[w]]
      /\ was' = [w \in Windows |-> IF w \in sent THEN AtHome ELSE was[w]]
      /\ spot' = Spots(windows', sent)
      /\ returning' = <<>> /\ outputs' = outputs /\ changes' = changes
    BY DEF ReturnWindows
<1>2. /\ outputs \in Seq(Screens) /\ desks \in Desktops /\ Ranked(desks) /\ Once(outputs)
      /\ windows \in [Windows -> Containers] /\ Sound(desks, windows, outputs) /\ TypeOK
    BY InvFacts DEF Inv
<1>3. on \subseteq ToSet(outputs) /\ on \subseteq Screens
    BY InvFacts
<1> HIDE DEF on
<1>4. ASSUME NEW w \in Windows
      PROVE  /\ goal[w] \in Live(desks)
             /\ w \in sent => desks.on[goal[w]] = windows[w].home.screen
             /\ w \notin sent => goal[w] = windows[w].desk
    <2> DEFINE s == windows[w].home.screen
    <2>1. CASE w \in sent /\ ScreenOf(w) # s
        <3>1. goal[w] = Shown(desks, s) /\ s \in on
            BY <2>1
        <3> HIDE DEF s, goal
        <3>2. s \in Screens /\ Of(desks, s) # {}
            BY <1>2, <1>3, <3>1 DEF Sound
        <3>3. goal[w] \in Of(desks, s)
            BY <1>2, <3>1, <3>2, ShownIs
        <3>4. goal[w] \in Live(desks) /\ desks.on[goal[w]] = s
            BY <1>2, <3>2, <3>3, OfIsLive DEF Of
        <3> QED
            BY <2>1, <3>4 DEF s
    <2>2. CASE ~ (w \in sent /\ ScreenOf(w) # s)
        <3>1. goal[w] = windows[w].desk
            BY <2>2
        <3> HIDE DEF goal
        <3> QED
            BY <2>2, <3>1, InvFacts DEF ScreenOf
    <2> QED
        BY <2>1, <2>2
<1> DEFINE sd == st.dk
           sw == st.win
<1>5. /\ sd \in Desktops /\ Ranked(sd) /\ Sound(sd, sw, outputs) /\ Fewer(sd, desks)
      /\ sw \in [Windows -> Containers]
      /\ \A w \in Windows : sw[w] = Moved(desks, windows[w], goal[w]) /\ sw[w].desk = goal[w]
    <2> DEFINE o == st
    <2>1. o = MoveTo(desks, windows, goal)
        OBVIOUS
    <2> HIDE DEF o, goal, sent
    <2>2. /\ o.dk \in Desktops /\ Ranked(o.dk) /\ Sound(o.dk, o.win, outputs) /\ Fewer(o.dk, desks)
          /\ o.win \in [Windows -> Containers]
          /\ \A w \in Windows : o.win[w] = Moved(desks, windows[w], goal[w]) /\ o.win[w].desk = goal[w]
        BY <1>2, <1>4, <2>1, MoveToKeeps DEF Ranked
    <2> QED
        BY <2>2 DEF o
<1>6. desks' = sd /\ \A w \in Windows :
        windows'[w] = IF w \in sent THEN ReturnHome(sw[w], windows[w].home.screen) ELSE windows[w]
    BY <1>1
<1>7. \A w \in Windows : spot'[w] = IF windows'[w].as = "free" THEN windows'[w].box.place
                                    ELSE IF w \in sent THEN was[w].spot ELSE spot[w]
    BY <1>1 DEF Spots
<1>8. \A w \in Windows : was'[w] = IF w \in sent THEN AtHome ELSE was[w]
    BY <1>1
<1>9. \A w \in Windows : w \in sent <=> windows[w].home.screen \in on
    OBVIOUS
<1>10. \A w \in Windows : was[w] \in Histories /\ spot[w] \in Marks
    BY <1>2 DEF TypeOK, Histories
<1> HIDE DEF sent, goal, sd, sw
<1>11. \A w \in Windows : goal[w] \in Live(sd) /\ sd.on[goal[w]] = desks.on[goal[w]]
    BY <1>5 DEF Sound, Fewer
<1>12. None \notin on
    BY <1>3, RowHoldsTheScreens
<1>13. ASSUME NEW w \in Windows, w \in sent
       PROVE  LET s == windows[w].home.screen
                  o == windows'[w]
                  h == windows[w].home
              IN  /\ s \in Screens
                  /\ o \in Containers /\ o.desk = goal[w] /\ desks'.on[goal[w]] = s
                  /\ o.as = h.as /\ o.home = NoHome
                  /\ h.as = "free" => o.box = Fit(h.restore, s)
                  /\ h.as # "free" => o.box = At(s, h.as) /\ o.restore = Fit(h.restore, s)
    <2> DEFINE s == windows[w].home.screen
               c == windows[w]
               b == sw[w]
               o == windows'[w]
               g == goal[w]
    <2>1. c \in Containers /\ c.desk \in Live(desks) /\ g \in Live(desks) /\ b = Moved(desks, c, g)
        BY <1>4, <1>5, InvFacts
    <2>2. o = ReturnHome(b, s)
        BY <1>6, <1>13
    <2>3. s \in Screens /\ desks'.on[g] = s
        BY <1>3, <1>4, <1>6, <1>9, <1>11, <1>13
    <2>4. s = c.home.screen
        OBVIOUS
    <2> HIDE DEF s, c, b, o, g
    <2>5. b \in Containers /\ b.desk = g /\ b.home = c.home
        BY <1>2, <2>1, MovedKeeps
    <2>6. /\ o \in Containers /\ o.desk = b.desk /\ o.as = b.home.as /\ o.home = NoHome
          /\ b.home.as = "free" => o.box = Fit(b.home.restore, s)
          /\ b.home.as # "free" => o.box = At(s, b.home.as) /\ o.restore = Fit(b.home.restore, s)
        BY <2>2, <2>3, <2>5, ReturnHomeIs
    <2> QED
        BY <2>3, <2>5, <2>6 DEF s, c, o, g
<1>14. ASSUME NEW w \in Windows, w \in sent, was[w].spot # None
       PROVE  Fit(windows[w].home.restore, windows[w].home.screen) = At(windows[w].home.screen, was[w].spot)
    <2>1. Homely(windows[w].home, was[w])
        BY InvFacts DEF InPlace
    <2>2. PICK t \in Screens : was[w].left = {t}
        BY <1>14, <2>1 DEF Homely
    <2>3. windows[w].home.screen = t /\ windows[w].home.restore = At(t, was[w].spot)
        BY <1>14, <2>1, <2>2 DEF Homely
    <2>4. windows[w].home.restore \in Boxes
        BY InvFacts, Fields DEF Homes
    <2> QED
        BY <2>3, <2>4, FitIsThere
<1>15. ASSUME NEW w \in Windows
       PROVE  windows'[w] \in Containers /\ windows'[w].desk = goal[w] /\ spot'[w] \in Marks /\ InPlace(w)'
    <2>1. CASE w \in sent
        <3> DEFINE s == windows[w].home.screen
                   o == windows'[w]
                   h == windows[w].home
        <3>1. /\ s \in Screens
              /\ o \in Containers /\ o.desk = goal[w] /\ desks'.on[goal[w]] = s
              /\ o.as = h.as /\ o.home = NoHome
              /\ h.as = "free" => o.box = Fit(h.restore, s)
              /\ h.as # "free" => o.box = At(s, h.as) /\ o.restore = Fit(h.restore, s)
            BY <1>13, <2>1
        <3>2. was[w].spot # None => Fit(h.restore, s) = At(s, was[w].spot)
            BY <1>14, <2>1
        <3>3. h.restore \in Boxes
            BY InvFacts, Fields DEF Homes
        <3>4. Fit(h.restore, s) \in Boxes /\ Fit(h.restore, s).at = s
            BY <3>1, <3>3, FitIsThere
        <3>5. spot'[w] = IF o.as = "free" THEN o.box.place ELSE was[w].spot
            BY <1>7, <2>1
        <3>6. spot'[w] \in Marks
            BY <1>10, <3>1, <3>5, Fields, AtIsBox DEF Histories
        <3>7. Placed(o, s, spot'[w]) /\ Noted(o, spot'[w])
            BY <3>1, <3>2, <3>4, <3>5 DEF Placed, Noted
        <3>8. Homely(o.home, was'[w])
            BY <1>8, <2>1, <3>1, AtHomeIs
        <3> QED
            BY <3>1, <3>6, <3>7, <3>8 DEF InPlace, ScreenOf
    <2>2. CASE w \notin sent
        <3>1. windows'[w] = windows[w] /\ was'[w] = was[w] /\ goal[w] = windows[w].desk
            BY <1>4, <1>6, <1>8, <2>2
        <3>2. windows[w] \in Containers /\ InPlace(w)
            BY InvFacts
        <3>3. spot'[w] = spot[w]
            BY <1>7, <2>2, <3>1, <3>2 DEF InPlace, Noted
        <3>4. desks'.on[windows'[w].desk] = ScreenOf(w)
            BY <1>6, <1>11, <3>1 DEF ScreenOf
        <3>5. InPlace(w)'
            BY <3>1, <3>2, <3>3, <3>4 DEF InPlace, ScreenOf
        <3> QED
            BY <1>10, <3>1, <3>2, <3>3, <3>5
    <2> QED
        BY <2>1, <2>2
<1>16. windows' \in [Windows -> Containers] /\ spot' \in [Windows -> Marks] /\ was' \in [Windows -> Histories]
    <2>1. windows' = [w \in Windows |-> windows'[w]] /\ spot' = [w \in Windows |-> spot'[w]]
        BY <1>1 DEF Spots
    <2>2. \A w \in Windows : was'[w] \in Histories
        BY <1>8, <1>10, AtHomeIs
    <2>3. was' \in [Windows -> Histories]
        BY <1>1, <2>2
    <2> DEFINE f == windows'
               g == spot'
    <2>4. /\ f = [w \in Windows |-> f[w]] /\ g = [w \in Windows |-> g[w]]
          /\ \A w \in Windows : f[w] \in Containers /\ g[w] \in Marks
        BY <1>15, <2>1
    <2> HIDE DEF f, g
    <2>5. f \in [Windows -> Containers] /\ g \in [Windows -> Marks]
        BY <2>4
    <2> QED
        BY <2>3, <2>5 DEF f, g
<1>17. TypeOK'
    <2>1. <<>> \in Seq(Screens)
        OBVIOUS
    <2> QED
        BY <1>1, <1>2, <1>5, <1>6, <1>16, <2>1 DEF TypeOK, Histories
<1>18. Sound(desks', windows', outputs')
    BY <1>1, <1>5, <1>6, <1>11, <1>15 DEF Sound
<1>19. Inv'
    BY <1>1, <1>2, <1>5, <1>6, <1>15, <1>17, <1>18 DEF Inv
<1>20. ASSUME NEW w \in Windows, NEW s \in on, was[w].left = {s}
       PROVE  /\ desks'.on[windows'[w].desk] = s
              /\ windows'[w].as = was[w].as
              /\ was[w].spot # None =>
                    At(s, was[w].spot) = IF was[w].as = "free" THEN windows'[w].box ELSE windows'[w].restore
    <2>1. s \in Screens
        BY <1>3
    <2>2. windows[w].home.screen = s /\ windows[w].home.as = was[w].as
        BY <1>20, <2>1, InvFacts DEF InPlace, Homely
    <2>3. w \in sent
        BY <1>9, <2>2
    <2>4. /\ windows'[w].desk = goal[w] /\ desks'.on[goal[w]] = s /\ windows'[w].as = was[w].as
          /\ was[w].as = "free" => windows'[w].box = Fit(windows[w].home.restore, s)
          /\ was[w].as # "free" => windows'[w].restore = Fit(windows[w].home.restore, s)
        BY <1>13, <2>2, <2>3
    <2>5. was[w].spot # None => Fit(windows[w].home.restore, s) = At(s, was[w].spot)
        BY <1>14, <2>2, <2>3
    <2> QED
        BY <2>4, <2>5
<1>21. ASSUME NEW w \in Windows, was[w] = AtHome PROVE windows'[w] = windows[w]
    <2>1. windows[w].home.screen = None
        BY <1>21, AtHomeIs, InvFacts DEF InPlace, Homely
    <2> QED
        BY <1>6, <1>9, <1>12, <2>1
<1> QED
    BY <1>1, <1>19, <1>20, <1>21 DEF on, DisplacedFrom
----------------------------------------------------------------------------
(* The theorems.                                                               *)

LEMMA NextKeeps == Inv /\ [Next]_vars => Inv'
<1> SUFFICES ASSUME Inv, [Next]_vars PROVE Inv'
    OBVIOUS
<1>1. ASSUME NEW s \in Screens, Unplug(s) \/ Plug(s) \/ NewDesktop(s) PROVE Inv'
    BY <1>1, UnplugKeeps, PlugKeeps, NewDesktopKeeps
<1>2. CASE ReturnWindows
    BY <1>2, ReturnKeeps
<1>3. ASSUME NEW d \in Desks, Look(d) PROVE Inv'
    BY <1>3, LookKeeps
<1>4. ASSUME NEW w \in Windows, NEW way \in {"left", "right"}, SnapAcross(w, way) PROVE Inv'
    BY <1>4, SnapAcrossKeeps
<1>5. ASSUME NEW w \in Windows, NEW way \in {"left", "right", "up", "down"}, Snap(w, way) PROVE Inv'
    BY <1>5, SnapStepKeeps
<1>6. ASSUME NEW w \in Windows, NEW d \in Desks, NEW follow \in BOOLEAN, MoveToDesktop(w, d, follow)
      PROVE  Inv'
    BY <1>6, MoveToDesktopKeeps
<1>7. ASSUME NEW w \in Windows, NEW s \in Screens, NEW p \in Places, Drop(w, s, p) PROVE Inv'
    BY <1>7, DropKeeps
<1>8. ASSUME NEW w \in Windows, NEW s \in Screens, NEW t \in Screens, NEW slot \in Slots,
             DropAtEdge(w, s, t, slot)
      PROVE  Inv'
    BY <1>8, DropAtEdgeKeeps
<1>9. ASSUME NEW w \in Windows, Click(w) PROVE Inv'
    BY <1>9, ClickKeeps
<1>10. CASE UNCHANGED vars
    <2>1. UNCHANGED <<outputs, changes, windows, returning, was, spot>> /\ desks' = desks
        BY <1>10 DEF vars
    <2> QED
        BY <2>1, InvFacts, DesktopsChange DEF ScreenOf
<1> QED
    BY <1>1, <1>2, <1>3, <1>4, <1>5, <1>6, <1>7, <1>8, <1>9, <1>10 DEF Next

\* Screens come and go only where they do, and are returned to only in the callback.
LEMMA ScreensChange ==
    ASSUME Next
    PROVE  \/ \E s \in Screens : Unplug(s)
           \/ \E s \in Screens : Plug(s)
           \/ ReturnWindows
           \/ outputs' = outputs /\ returning' = returning
<1>1. ASSUME NEW s \in Screens, NewDesktop(s) PROVE outputs' = outputs /\ returning' = returning
    BY <1>1 DEF NewDesktop
<1>2. ASSUME NEW d \in Desks, Look(d) PROVE outputs' = outputs /\ returning' = returning
    BY <1>2 DEF Look
<1>3. ASSUME NEW w \in Windows, NEW way, SnapAcross(w, way)
      PROVE  outputs' = outputs /\ returning' = returning
    BY <1>3 DEF SnapAcross
<1>4. ASSUME NEW w \in Windows, NEW way, Snap(w, way) PROVE outputs' = outputs /\ returning' = returning
    BY <1>4 DEF Snap
<1>5. ASSUME NEW w \in Windows, NEW d, NEW follow, MoveToDesktop(w, d, follow)
      PROVE  outputs' = outputs /\ returning' = returning
    BY <1>5 DEF MoveToDesktop
<1>6. ASSUME NEW w \in Windows, NEW s, NEW p, Drop(w, s, p) PROVE outputs' = outputs /\ returning' = returning
    BY <1>6 DEF Drop
<1>7. ASSUME NEW w \in Windows, NEW s, NEW t, NEW slot, DropAtEdge(w, s, t, slot)
      PROVE  outputs' = outputs /\ returning' = returning
    BY <1>7 DEF DropAtEdge
<1>8. ASSUME NEW w \in Windows, Click(w) PROVE outputs' = outputs /\ returning' = returning
    BY <1>8 DEF Click
<1> QED
    BY <1>1, <1>2, <1>3, <1>4, <1>5, <1>6, <1>7, <1>8 DEF Next

LEMMA Invariant == Spec => []Inv
<1>1. Init => Inv
    BY InitSound
<1>2. Inv /\ [Next]_vars => Inv'
    BY NextKeeps
<1> QED
    BY <1>1, <1>2, PTL DEF Spec

\* Whatever screens, windows and desktops there are, the state is of the types it is
\* declared with: no desktop is on a screen there is none of, no window without one.
THEOREM TypeCorrect == Spec => []TypeOK
<1>1. Inv => TypeOK
    BY DEF Inv
<1> QED
    BY <1>1, Invariant, PTL

\* Every screen that is on has a desktop, no window is on one that is gone, and none waits
\* for a screen while there is one, however screens come and go and desktops are made and
\* left.
THEOREM DesktopsHaveScreens == Spec => []EveryDesktopHasAScreen
<1>1. Inv => EveryDesktopHasAScreen
    BY DEF Inv, Sound, EveryDesktopHasAScreen
<1> QED
    BY <1>1, Invariant, PTL

\* A snapped or maximized window fills its slot and goes back to where it last lay free,
\* through any number of slots, desktops and screens.
THEOREM SlotsRememberThePlace == Spec => []RestoreGoesBack
<1>1. Inv => RestoreGoesBack
    BY DEF Inv, InPlace, Placed, RestoreGoesBack
<1> QED
    BY <1>1, Invariant, PTL

\* Windows a screen showed return to it where and as they were, with what they went back
\* to, once it is back, unless they were put somewhere or clicked on their title bar in
\* the meantime; and a window that no screen left under moves for none.
THEOREM WindowsReturnAsTheyWere == Spec => ReturnsAsItWas
<1> DEFINE A == returning # <<>> /\ returning' = <<>> =>
        \A w \in Windows :
            /\ \A s \in ToSet(returning) \cap ToSet(outputs) : DisplacedFrom(w, s) =>
                /\ desks'.on[windows'[w].desk] = s
                /\ windows'[w].as = was[w].as
                /\ was[w].spot # None =>
                    At(s, was[w].spot) =
                        IF was[w].as = "free" THEN windows'[w].box ELSE windows'[w].restore
            /\ was[w] = AtHome => windows'[w] = windows[w]
<1>1. Inv /\ [Next]_vars => [A]_vars
    <2> SUFFICES ASSUME Inv, Next, returning # <<>>, returning' = <<>> PROVE A
        BY DEF A
    <2>1. \A s \in Screens : ~ Plug(s)
        BY PlugKeeps
    <2>2. \A s \in Screens : ~ Unplug(s)
        BY DEF Unplug
    <2>3. ReturnWindows
        BY <2>1, <2>2, ScreensChange
    <2> QED
        BY <2>3, ReturnKeeps
<1>2. ReturnsAsItWas <=> [][A]_vars
    BY DEF ReturnsAsItWas
<1> HIDE DEF A
<1> QED
    BY <1>1, <1>2, Invariant, PTL DEF Spec

\* What a screen shows when it goes is on view on another, if there is one, wherever its
\* desktop went and whether or not that stayed.
THEOREM WindowsStayOnView == Spec => StaysOnView
<1> DEFINE A == \A s \in ToSet(outputs) \ ToSet(outputs') : outputs' # <<>> =>
        \A w \in Windows : windows[w].desk = Shown(desks, s)
            => OnView(desks', outputs', windows'[w].desk)
<1>1. Inv /\ [Next]_vars => [A]_vars
    <2> SUFFICES ASSUME Inv, Next, NEW s \in ToSet(outputs) \ ToSet(outputs'), outputs' # <<>>,
                        NEW w \in Windows, windows[w].desk = Shown(desks, s)
                 PROVE  OnView(desks', outputs', windows'[w].desk)
        BY DEF A
    <2>1. \A t \in Screens : ~ Plug(t)
        BY PlugKeeps
    <2>2. outputs' # outputs /\ ~ ReturnWindows
        BY ReturnKeeps
    <2>3. PICK t \in Screens : Unplug(t)
        BY <2>1, <2>2, ScreensChange
    <2>4. s = t
        BY <2>3, UnplugKeeps
    <2> QED
        BY <2>3, <2>4, UnplugKeeps
<1>2. StaysOnView <=> [][A]_vars
    BY DEF StaysOnView
<1> HIDE DEF A
<1> QED
    BY <1>1, <1>2, Invariant, PTL DEF Spec
=============================================================================
