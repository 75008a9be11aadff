-------------------------- MODULE TransactionProofs --------------------------
(***************************************************************************)
(* Theorems about Transaction, for every set of views and workspaces.      *)
(***************************************************************************)
EXTENDS Transaction, FiniteSetTheorems, TLAPS

(***************************************************************************)
(* The operators of Transaction map states (the record Here) to states, so  *)
(* each fact is a lemma about one operator, and an action is their          *)
(* composition.                                                             *)
(***************************************************************************)
Confs == Seq(Configures)

StateType ==
    [pending : [Nodes -> NodeState],
     life    : [Nodes -> {"none", "live", "destroying"}],
     dirty   : SUBSET Nodes,
     current : [Nodes -> NodeState],
     saved   : SUBSET Views,
     queued  : Transactions,
     next    : Transactions,
     refs    : [Nodes -> Nat],
     armed   : SUBSET Nodes,
     conf    : [Views -> Confs],
     told    : [Views -> Sizes \cup {0}]]

\* A blank state has the type of a node's state, the NULL transaction that of
\* a transaction.
LEMMA BlankType == Blank \in NodeState /\ NoTxn \in Transactions
  BY DEF Blank, NodeState, NoTxn, Transactions

\* The variables have the type TypeOK gives them iff their record is a state.
LEMMA HereType == TypeOK <=>
    Here \in StateType /\ geometry \in [Floating -> Sizes \cup {0}]
  BY DEF TypeOK, Here, StateType, Confs

\* transaction_add_node yields a transaction again.
LEMMA AddDirtyType ==
    ASSUME NEW S \in StateType, NEW b \in BOOLEAN
    PROVE  AddDirty(S, b) \in StateType
  <1> DEFINE txn == [nodes   |-> S.next.nodes \cup S.dirty,
                     state   |-> [n \in Nodes |-> IF n \in S.dirty
                                    THEN S.pending[n] ELSE S.next.state[n]],
                     server  |-> IF b THEN S.next.server \cup S.dirty
                                      ELSE S.next.server,
                     waiting |-> {},
                     left    |-> 0]
             counts == [n \in Nodes |-> IF n \in NewNodes(S)
                                        THEN S.refs[n] + 1 ELSE S.refs[n]]
  <1>1. txn \in Transactions
    BY DEF StateType, Transactions
  <1>2. counts \in [Nodes -> Nat]
    BY DEF StateType
  <1>3. AddDirty(S, b) = [S EXCEPT !.next = txn, !.refs = counts, !.dirty = {}]
    BY DEF AddDirty, Snapshot
  <1> HIDE DEF txn, counts
  <1> QED BY <1>1, <1>2, <1>3 DEF StateType

\* A function on 1..n is a sequence.
LEMMA FunctionIsSeq ==
    ASSUME NEW T, NEW n \in Nat, NEW f \in [1..n -> T]
    PROVE  f \in Seq(T)
  OBVIOUS

\* A configure sent to a client is appended to the ones it has.
LEMMA SendConfigureType ==
    ASSUME NEW c \in Confs, NEW s \in Sizes \cup {0}
    PROVE  Outdated(c) \in Confs /\ SendConfigure(c, s) \in Confs
  <1>1. Len(c) \in Nat /\ \A i \in 1..Len(c) : c[i] \in Configures
    BY DEF Confs
  <1>2. [i \in 1..Len(c) |-> [size |-> c[i].size, txn |-> FALSE]]
          \in [1..Len(c) -> Configures]
    <2>1. \A d \in Configures : [size |-> d.size, txn |-> FALSE] \in Configures
      BY DEF Configures
    <2> QED BY <1>1, <2>1
  <1>3. Outdated(c) \in Confs
    BY <1>1, <1>2, FunctionIsSeq DEF Confs, Outdated
  <1>4. [size |-> s, txn |-> TRUE] \in Configures
    BY DEF Configures
  <1> QED BY <1>3, <1>4 DEF SendConfigure, Confs

\* Sets of views are finite, so that they can be counted.
LEMMA ViewsFinite ==
    ASSUME NEW V \in SUBSET Views
    PROVE  IsFiniteSet(V) /\ Cardinality(V) \in Nat
  <1>1. IsFiniteSet(Nodes) /\ V \subseteq Nodes
    BY TransactionAssumption DEF Nodes
  <1> QED BY <1>1, FS_Subset, FS_CardinalityType

\* transaction_commit_pending: the pending transaction becomes the queued one.
LEMMA LaunchType ==
    ASSUME NEW S \in StateType
    PROVE  Launch(S) \in StateType
  <1> DEFINE configured == {v \in Views : ShouldConfigure(S, v)}
             waiting == {v \in configured : ~IsHidden(S, v)}
             asked(v) == S.next.state[v].size
             txn == [nodes   |-> S.next.nodes,
                     state   |-> S.next.state,
                     server  |-> S.next.server,
                     waiting |-> waiting,
                     left    |-> Cardinality(waiting)]
             frozen == S.saved \cup {v \in S.next.nodes \cap Views : ~IsHidden(S, v)}
             confs == [v \in Views |->
                         IF v \in configured THEN SendConfigure(S.conf[v], asked(v))
                         ELSE IF v \in S.next.nodes THEN Outdated(S.conf[v])
                         ELSE S.conf[v]]
             sizes == [v \in Views |->
                         IF v \in configured THEN asked(v) ELSE S.told[v]]
             armedNow == S.armed \cup S.next.nodes
  <1>1. waiting \subseteq Views /\ Cardinality(waiting) \in Nat
    <2> waiting \in SUBSET Views
      OBVIOUS
    <2> QED BY ViewsFinite
  <1>2. txn \in Transactions
    <2> HIDE DEF waiting
    <2> QED BY <1>1 DEF StateType, Transactions
  <1>3. \A v \in Views : asked(v) \in Sizes \cup {0}
    BY DEF StateType, Transactions, Nodes, NodeState
  <1>4. frozen \in SUBSET Views
    BY DEF StateType
  <1>5. Launch(S) = [S EXCEPT !.queued = txn, !.next = NoTxn,
                              !.armed = armedNow,
                              !.saved = frozen, !.conf = confs, !.told = sizes]
    BY DEF Launch
  <1>6. sizes \in [Views -> Sizes \cup {0}]
    BY <1>3 DEF StateType
  <1>7. confs \in [Views -> Confs]
    <2>1. SUFFICES ASSUME NEW v \in Views PROVE confs[v] \in Confs
      OBVIOUS
    <2>2. S.conf[v] \in Confs
      BY DEF StateType
    <2>3. SendConfigure(S.conf[v], asked(v)) \in Confs /\ Outdated(S.conf[v]) \in Confs
      BY <1>3, <2>2, SendConfigureType
    <2> QED BY <2>2, <2>3
  <1>8. armedNow \in SUBSET Nodes
    BY DEF StateType, Transactions
  <1> HIDE DEF txn, frozen, confs, sizes, armedNow
  <1> QED BY <1>2, <1>4, <1>5, <1>6, <1>7, <1>8, BlankType DEF StateType

(***************************************************************************)
(* The reference counts.  transaction_destroy decrements ntxnrefs, so that  *)
(* even the type of `refs' rests on the counts being exact.                 *)
(***************************************************************************)
Held(S, n) == (IF n \in S.queued.nodes THEN 1 ELSE 0)
              + (IF n \in S.next.nodes THEN 1 ELSE 0)

Counted(S) ==
    \A n \in Nodes :
      /\ S.refs[n] = Held(S, n)
      /\ S.life[n] = "destroying" => S.refs[n] > 0 \/ n \in S.dirty

\* The counts of the variables' record are those RefsExact speaks of.
LEMMA HereCounted == RefsExact <=> Counted(Here)
  BY DEF RefsExact, HeldBy, Counted, Held, Here

\* Marking nodes dirty and adding the dirty nodes to the pending transaction
\* keep the counts exact.
LEMMA AddDirtyCounted ==
    ASSUME NEW S \in StateType, NEW b \in BOOLEAN, Counted(S)
    PROVE  /\ Counted(AddDirty(S, b))
           /\ AddDirty(S, b).queued = S.queued
  BY DEF AddDirty, NewNodes, StateType, Transactions, Counted, Held

\* The pending transaction moves to the empty queue with its references.
LEMMA LaunchCounted ==
    ASSUME NEW S \in StateType, Counted(S), S.queued.nodes = {}
    PROVE  Counted(Launch(S)) /\ Launch(S).next = NoTxn
  BY DEF Launch, StateType, Transactions, Counted, Held, NoTxn

\* transaction_apply keeps the type and does not touch what is counted.
LEMMA ApplyType ==
    ASSUME NEW S \in StateType
    PROVE  Apply(S) \in StateType
  <1> DEFINE shown == [n \in Nodes |-> IF n \in S.queued.nodes
                         THEN S.queued.state[n] ELSE S.current[n]]
             frozen == {v \in S.saved : StaysFrozen(S, v)}
  <1>1. shown \in [Nodes -> NodeState]
    BY DEF StateType, Transactions
  <1>2. frozen \in SUBSET Views
    BY DEF StateType
  <1>3. Apply(S) = [S EXCEPT !.current = shown, !.saved = frozen,
                             !.armed = S.armed \ S.queued.nodes]
    BY DEF Apply
  <1> HIDE DEF shown, frozen
  <1> QED BY <1>1, <1>2, <1>3 DEF StateType

LEMMA ApplyKeeps ==
    ASSUME NEW S \in StateType
    PROVE  /\ Apply(S).refs = S.refs /\ Apply(S).life = S.life
           /\ Apply(S).dirty = S.dirty /\ Apply(S).pending = S.pending
           /\ Apply(S).queued = S.queued /\ Apply(S).next = S.next
           /\ Apply(S).conf = S.conf /\ Apply(S).told = S.told
  BY DEF Apply, StateType

\* transaction_destroy gives each reference back once, and frees exactly the
\* dying nodes that lose their last one.
LEMMA DestroyGood ==
    ASSUME NEW S \in StateType, Counted(S)
    PROVE  Destroy(S) \in StateType /\ Counted(Destroy(S))
  <1> DEFINE left(n) == IF n \in S.queued.nodes THEN S.refs[n] - 1 ELSE S.refs[n]
             freed == Freed(S)
             counts == [n \in Nodes |-> left(n)]
             lives == [n \in Nodes |-> IF n \in freed THEN "none" ELSE S.life[n]]
             wanted == [n \in Nodes |-> IF n \in freed THEN Blank ELSE S.pending[n]]
             shown == [n \in Nodes |-> IF n \in freed THEN Blank ELSE S.current[n]]
  <1>1. Destroy(S) = [S EXCEPT !.refs = counts, !.queued = NoTxn, !.life = lives,
                               !.pending = wanted, !.current = shown]
    BY DEF Destroy
  <1>2. ASSUME NEW n \in Nodes
        PROVE  left(n) = IF n \in S.next.nodes THEN 1 ELSE 0
    BY DEF Counted, Held, StateType, Transactions
  <1>3. counts \in [Nodes -> Nat]
    BY <1>2
  <1>4. lives \in [Nodes -> {"none", "live", "destroying"}]
    BY DEF StateType
  <1>5. wanted \in [Nodes -> NodeState] /\ shown \in [Nodes -> NodeState]
    BY BlankType DEF StateType
  <1>6. \A n \in Nodes : lives[n] = "destroying" => counts[n] > 0 \/ n \in S.dirty
    <2> SUFFICES ASSUME NEW n \in Nodes, lives[n] = "destroying",
                        n \notin S.dirty
                 PROVE  counts[n] > 0
      OBVIOUS
    <2>1. S.life[n] = "destroying" /\ n \notin freed
      BY DEF StateType
    <2>2. CASE n \in S.queued.nodes
      <3>1. left(n) # 0
        BY <2>1, <2>2 DEF Freed, StateType
      <3>2. left(n) \in {0, 1}
        BY <1>2
      <3> QED BY <3>1, <3>2
    <2>3. CASE n \notin S.queued.nodes
      BY <2>1, <2>3 DEF Counted
    <2> QED BY <2>2, <2>3
  <1>7. \A n \in Nodes : counts[n] = IF n \in S.next.nodes THEN 1 ELSE 0
    BY <1>2
  <1> HIDE DEF counts, lives, wanted, shown
  <1>8. Destroy(S) \in StateType
    BY <1>1, <1>3, <1>4, <1>5, BlankType DEF StateType
  <1>9. /\ Destroy(S).refs = counts /\ Destroy(S).life = lives
        /\ Destroy(S).dirty = S.dirty /\ Destroy(S).queued = NoTxn
        /\ Destroy(S).next = S.next
    BY <1>1 DEF StateType
  <1>10. Counted(Destroy(S))
    BY <1>6, <1>7, <1>9 DEF Counted, Held, NoTxn
  <1> QED BY <1>8, <1>10

(***************************************************************************)
(* transaction_progress and _transaction_commit_dirty are compositions.     *)
(***************************************************************************)
Good(S) == S \in StateType /\ Counted(S)

LEMMA FinishGood ==
    ASSUME NEW S, Good(S)
    PROVE  Good(Finish(S)) /\ Finish(S).queued = NoTxn
  <1>1. Apply(S) \in StateType
    BY ApplyType DEF Good
  <1>2. Counted(Apply(S))
    BY ApplyKeeps DEF Good, Counted, Held
  <1>3. Finish(S).queued = NoTxn
    BY <1>1 DEF Finish, Destroy, StateType
  <1> QED BY <1>1, <1>2, <1>3, DestroyGood DEF Finish, Good

LEMMA LaunchGood ==
    ASSUME NEW S, Good(S), S.queued.nodes = {}
    PROVE  Good(Launch(S))
  BY LaunchType, LaunchCounted DEF Good

LEMMA ProgressGood ==
    ASSUME NEW S, Good(S)
    PROVE  Good(Progress(S))
  <1>1. Good(Finish(S)) /\ Finish(S).queued.nodes = {}
    BY FinishGood DEF NoTxn
  <1>2. Good(Launch(Finish(S)))
    BY <1>1, LaunchGood
  <1>3. Good(Finish(Launch(Finish(S))))
    BY <1>2, FinishGood
  <1> QED BY <1>1, <1>2, <1>3 DEF Progress

LEMMA CommitDirtyGood ==
    ASSUME NEW S, Good(S), NEW b \in BOOLEAN
    PROVE  Good(CommitDirty(S, b))
  <1>1. Good(AddDirty(S, b)) /\ AddDirty(S, b).queued = S.queued
    BY AddDirtyType, AddDirtyCounted DEF Good
  <1>2. S.queued.nodes = {} => Good(Progress(Launch(AddDirty(S, b))))
    BY <1>1, LaunchGood, ProgressGood
  <1> QED BY <1>1, <1>2 DEF CommitDirty

(***************************************************************************)
(* The operators of the tree.                                               *)
(***************************************************************************)
LEMMA NodesSetDirtyGood ==
    ASSUME NEW S, Good(S), NEW N \in SUBSET Nodes
    PROVE  Good(NodesSetDirty(S, N))
  <1>1. NodesSetDirty(S, N) \in StateType
    BY DEF NodesSetDirty, Good, StateType
  <1>2. Counted(NodesSetDirty(S, N))
    BY DEF NodesSetDirty, Good, StateType, Counted, Held
  <1> QED BY <1>1, <1>2 DEF Good

\* Whatever window management wants instead is no matter to the counts.
LEMMA PendingGood ==
    ASSUME NEW S, Good(S), NEW P \in [Nodes -> NodeState]
    PROVE  Good([S EXCEPT !.pending = P])
  BY DEF Good, StateType, Counted, Held

LEMMA ShareType ==
    ASSUME NEW V \in SUBSET Tiled
    PROVE  Share(Cardinality(V)) \in Sizes
  <1>1. IsFiniteSet(Tiled) /\ Cardinality(Tiled) \in Nat
    BY ViewsFinite DEF Views
  <1>2. Cardinality(V) \in 0..Cardinality(Tiled)
    BY <1>1, FS_Subset, FS_CardinalityType
  <1> QED BY <1>2, TransactionAssumption

LEMMA ArrangeGood ==
    ASSUME NEW S, Good(S), NEW w \in Workspaces
    PROVE  Good(Arrange(S, w))
  <1> DEFINE size == Share(Cardinality(TiledKids(S.pending, w)))
             P == [n \in Nodes |-> IF n \in TiledKids(S.pending, w)
                     THEN [S.pending[n] EXCEPT !.size = size] ELSE S.pending[n]]
  <1>1. size \in Sizes
    BY ShareType DEF TiledKids
  <1>2. P \in [Nodes -> NodeState]
    <2>1. \A n \in Nodes : S.pending[n] \in NodeState
      BY DEF Good, StateType
    <2> HIDE DEF size
    <2>2. \A n \in Nodes : [S.pending[n] EXCEPT !.size = size] \in NodeState
      BY <1>1, <2>1 DEF NodeState
    <2> QED BY <2>1, <2>2
  <1>3. {w} \cup S.pending[w].kids \in SUBSET Nodes
    BY DEF Good, StateType, NodeState, Nodes
  <1>4. Good([S EXCEPT !.pending = P])
    BY <1>2, PendingGood
  <1>5. Arrange(S, w) = NodesSetDirty([S EXCEPT !.pending = P],
                                      {w} \cup S.pending[w].kids)
    BY DEF Arrange, Arranged
  <1> QED BY <1>3, <1>4, <1>5, NodesSetDirtyGood

\* What leaving and joining a workspace do to the state of each node.
LEMMA LeaveEffect ==
    ASSUME NEW P \in [Nodes -> NodeState], NEW v \in Views
    PROVE  /\ Leave(P, v) \in [Nodes -> NodeState]
           /\ \A n \in Nodes :
                Leave(P, v)[n].parent = IF n = v THEN None ELSE P[n].parent
           /\ \A n \in Nodes :
                Leave(P, v)[n].kids = IF n = P[v].parent THEN P[n].kids \ {v}
                                         ELSE P[n].kids
           /\ \A n \in Nodes :
                Leave(P, v)[n].size = P[n].size
  <1> DEFINE w == P[v].parent
             L == [n \in Nodes |->
                     IF n = v THEN [P[n] EXCEPT !.parent = None]
                     ELSE IF n = w THEN [P[n] EXCEPT !.kids = @ \ {v}]
                     ELSE P[n]]
  <1>1. v \in Nodes /\ w # v /\ w \in Workspaces \cup {None}
    BY TransactionAssumption DEF Nodes, NodeState
  <1>2. Leave(P, v) = L
    BY <1>1 DEF Leave
  <1>3. \A n \in Nodes :
          /\ L[n] \in NodeState
          /\ L[n].parent = IF n = v THEN None ELSE P[n].parent
          /\ L[n].kids = IF n = w THEN P[n].kids \ {v} ELSE P[n].kids
          /\ L[n].size = P[n].size
    BY <1>1 DEF NodeState
  <1>4. L \in [Nodes -> NodeState]
    BY <1>3
  <1> QED BY <1>2, <1>3, <1>4

LEMMA JoinEffect ==
    ASSUME NEW P \in [Nodes -> NodeState], NEW v \in Views, NEW w \in Workspaces
    PROVE  /\ Join(P, v, w) \in [Nodes -> NodeState]
           /\ \A n \in Nodes :
                Join(P, v, w)[n].parent = IF n = v THEN w ELSE P[n].parent
           /\ \A n \in Nodes :
                Join(P, v, w)[n].kids = IF n = w THEN P[n].kids \cup {v}
                                           ELSE P[n].kids
           /\ \A n \in Nodes :
                Join(P, v, w)[n].size = P[n].size
  <1> DEFINE J == [n \in Nodes |->
                     IF n = v THEN [P[n] EXCEPT !.parent = w]
                     ELSE IF n = w THEN [P[n] EXCEPT !.kids = @ \cup {v}]
                     ELSE P[n]]
  <1>1. v \in Nodes /\ w \in Nodes /\ v # w
    BY TransactionAssumption DEF Nodes
  <1>2. Join(P, v, w) = J
    BY <1>1 DEF Join
  <1>3. \A n \in Nodes :
          /\ J[n] \in NodeState
          /\ J[n].parent = IF n = v THEN w ELSE P[n].parent
          /\ J[n].kids = IF n = w THEN P[n].kids \cup {v} ELSE P[n].kids
          /\ J[n].size = P[n].size
    BY <1>1 DEF NodeState
  <1>4. J \in [Nodes -> NodeState]
    BY <1>3
  <1> QED BY <1>2, <1>3, <1>4

LEMMA DetachGood ==
    ASSUME NEW S, Good(S), NEW v \in Views
    PROVE  Good(Detach(S, v))
  <1>1. S.pending \in [Nodes -> NodeState]
    BY DEF Good, StateType
  <1>2. Good([S EXCEPT !.pending = Leave(S.pending, v)])
    BY <1>1, LeaveEffect, PendingGood
  <1>3. {v, S.pending[v].parent} \ {None} \in SUBSET Nodes
    BY <1>1 DEF Nodes, NodeState
  <1> QED BY <1>2, <1>3, NodesSetDirtyGood DEF Detach

LEMMA AttachGood ==
    ASSUME NEW S, Good(S), NEW v \in Views, NEW w \in Workspaces
    PROVE  Good(Attach(S, v, w))
  <1>1. S.pending \in [Nodes -> NodeState]
    BY DEF Good, StateType
  <1>2. Good([S EXCEPT !.pending = Join(S.pending, v, w)])
    BY <1>1, JoinEffect, PendingGood
  <1> QED BY <1>2, NodesSetDirtyGood DEF Attach, Nodes

\* A node that was marked dirty before it died stays accounted for.
LEMMA DyingGood ==
    ASSUME NEW S, Good(S), NEW n \in Nodes
    PROVE  Good([NodesSetDirty(S, {n}) EXCEPT !.life[n] = "destroying"])
  <1> DEFINE D == NodesSetDirty(S, {n})
             L == [D.life EXCEPT ![n] = "destroying"]
  <1>1. Good(D)
    BY NodesSetDirtyGood
  <1>2. n \in D.dirty \/ S.life[n] = "destroying"
    BY DEF NodesSetDirty, Good, StateType
  <1>3. D.life = S.life /\ D.refs = S.refs
    BY DEF NodesSetDirty, Good, StateType
  <1>4. L \in [Nodes -> {"none", "live", "destroying"}]
    BY <1>1 DEF Good, StateType
  <1> HIDE DEF D
  <1>5. [D EXCEPT !.life = L] \in StateType
    BY <1>1, <1>4 DEF Good, StateType
  <1>6. Counted([D EXCEPT !.life = L])
    BY <1>1, <1>2, <1>3 DEF Good, StateType, Counted, Held
  <1> QED BY <1>5, <1>6 DEF Good, D

LEMMA BeginDestroyGood ==
    ASSUME NEW S, Good(S), NEW v \in Views
    PROVE  Good(BeginDestroy(S, v))
  BY DyingGood, DetachGood DEF BeginDestroy, Nodes

LEMMA ConsiderDestroyGood ==
    ASSUME NEW S, Good(S), NEW w \in Workspaces, NEW keep \in BOOLEAN
    PROVE  Good(ConsiderDestroy(S, w, keep))
  BY DyingGood DEF ConsiderDestroy, Nodes

LEMMA EnsureWorkspaceGood ==
    ASSUME NEW S, Good(S), NEW w \in Workspaces
    PROVE  Good(EnsureWorkspace(S, w))
  BY DEF EnsureWorkspace, Good, StateType, Counted, Held, Nodes

\* A view's client is told a size, or sent configures.
LEMMA ClientGood ==
    ASSUME NEW S, Good(S), NEW v \in Views,
           NEW c \in Confs, NEW s \in Sizes \cup {0}
    PROVE  /\ Good([S EXCEPT !.conf[v] = c])
           /\ Good([S EXCEPT !.conf[v] = c, !.told[v] = s])
  BY DEF Good, StateType, Counted, Held

\* A node's wanted size or visibility changes.
LEMMA WantGood ==
    ASSUME NEW S, Good(S), NEW n \in Nodes, NEW s \in Sizes \cup {0},
           NEW h \in BOOLEAN
    PROVE  /\ Good([S EXCEPT !.pending[n].size = s])
           /\ Good([S EXCEPT !.pending[n].hidden = h])
  <1>1. S.pending \in [Nodes -> NodeState]
    BY DEF Good, StateType
  <1>2. /\ [S.pending EXCEPT ![n].size = s] \in [Nodes -> NodeState]
        /\ [S.pending EXCEPT ![n].hidden = h] \in [Nodes -> NodeState]
    BY <1>1 DEF NodeState
  <1> QED BY <1>2, PendingGood

\* The instruction of a view whose client has drawn is done with.
LEMMA SetReadyGood ==
    ASSUME NEW S, Good(S), NEW v \in Views
    PROVE  Good(SetReady(S, v))
  <1> DEFINE counted == v \in S.queued.waiting /\ S.queued.left > 0
             Q == [S.queued EXCEPT !.left = IF counted THEN @ - 1 ELSE @]
             R == [S EXCEPT !.armed = @ \ {v}, !.queued = Q]
  <1>1. Q \in Transactions /\ Q.nodes = S.queued.nodes
    BY DEF Good, StateType, Transactions
  <1>2. SetReady(S, v) = Progress(R)
    BY DEF SetReady, Good, StateType, Transactions
  <1> HIDE DEF Q
  <1>3. R \in StateType
    BY <1>1 DEF Good, StateType
  <1>4. Counted(R)
    BY <1>1 DEF Good, StateType, Counted, Held
  <1> QED BY <1>2, <1>3, <1>4, ProgressGood DEF Good

\* What the variables become is a state again.
LEMMA BecomeGood ==
    ASSUME NEW S, Good(S), Become(S)
    PROVE  Good(Here')
  <1>1. Here' = S
    BY DEF Here, Become, Good, StateType
  <1> QED BY <1>1

\* A window that is open is on a workspace.
LiveOnWorkspace ==
    \A v \in Views : life[v] = "live" => pending[v].parent \in Workspaces

(***************************************************************************)
(* The inductive invariant: the variables are a state with exact counts.    *)
(***************************************************************************)
Geometries == [Floating -> Sizes \cup {0}]

CountInv == Good(Here) /\ geometry \in Geometries

LEMMA CountInvMeaning == CountInv <=> TypeOK /\ RefsExact
  BY HereType, HereCounted DEF CountInv, Good, Geometries

LEMMA InitCountInv == Init => CountInv
  <1> SUFFICES ASSUME Init PROVE CountInv
    OBVIOUS
  <1>1. /\ <<>> \in Seq(Configures)
        /\ pending \in [Nodes -> NodeState]
        /\ current \in [Nodes -> NodeState]
        /\ queued \in Transactions /\ next \in Transactions
    BY BlankType DEF Init
  <1>2. TypeOK
    BY <1>1 DEF Init, TypeOK
  <1>3. RefsExact
    BY DEF Init, RefsExact, HeldBy, NoTxn
  <1> QED BY <1>2, <1>3, CountInvMeaning

LEMMA MapCountInv ==
    ASSUME CountInv, NEW v \in Views, NEW w \in Workspaces, NEW s \in Sizes,
           Map(v, w, s)
    PROVE  CountInv'
  <1> DEFINE H == EnsureWorkspace(Here, w)
             z == IF v \in Floating THEN s ELSE 0
             N == [H EXCEPT !.life[v] = "live", !.pending[v].size = z]
             D == CommitDirty(Arrange(Attach(N, v, w), w), TRUE)
  <1>1. Good(H)
    BY EnsureWorkspaceGood DEF CountInv
  <1>2. Good([H EXCEPT !.life[v] = "live"])
    BY <1>1 DEF Good, StateType, Counted, Held
  <1>3. Good(N)
    <2>1. N = [[H EXCEPT !.life[v] = "live"] EXCEPT !.pending[v].size = z]
      OBVIOUS
    <2> QED BY <1>2, <2>1, WantGood DEF Nodes
  <1>4. Good(D)
    BY <1>3, AttachGood, ArrangeGood, CommitDirtyGood
  <1>5. Become(D) /\ geometry' \in Geometries
    BY DEF Map, CountInv, Geometries
  <1> HIDE DEF D
  <1> QED BY <1>4, <1>5, BecomeGood DEF CountInv

LEMMA UnmapCountInv ==
    ASSUME CountInv, LiveOnWorkspace, NEW v \in Views, NEW keep \in BOOLEAN, Unmap(v, keep)
    PROVE  CountInv'
  <1> DEFINE w == pending[v].parent
             N == [Here EXCEPT !.conf[v] = <<>>, !.told[v] = 0]
             C == ConsiderDestroy(BeginDestroy(N, v), w, keep)
             A == IF C.life[w] = "destroying" THEN C ELSE Arrange(C, w)
             D == CommitDirty(A, TRUE)
  <1>1. w \in Workspaces
    BY DEF LiveOnWorkspace, Unmap
  <1>2. <<>> \in Confs
    BY DEF Confs
  <1>3. Good(N)
    BY <1>2, ClientGood DEF CountInv
  <1>4. Good(C)
    BY <1>1, <1>3, BeginDestroyGood, ConsiderDestroyGood
  <1>5. Good(A)
    BY <1>1, <1>4, ArrangeGood
  <1>6. Good(D)
    BY <1>5, CommitDirtyGood
  <1>7. Become(D) /\ geometry' \in Geometries
    BY DEF Unmap, CountInv, Geometries
  <1> HIDE DEF D
  <1> QED BY <1>6, <1>7, BecomeGood DEF CountInv

LEMMA MoveToCountInv ==
    ASSUME CountInv, LiveOnWorkspace, NEW v \in Views, NEW w \in Workspaces,
           NEW keep \in BOOLEAN, MoveTo(v, w, keep)
    PROVE  CountInv'
  <1> DEFINE old == pending[v].parent
             M == Attach(Detach(EnsureWorkspace(Here, w), v), v, w)
             A == Arrange(Arrange(M, old), w)
             D == CommitDirty(ConsiderDestroy(A, old, keep), TRUE)
  <1>1. old \in Workspaces
    BY DEF LiveOnWorkspace, MoveTo
  <1>2. Good(M)
    BY EnsureWorkspaceGood, DetachGood, AttachGood DEF CountInv
  <1>3. Good(A)
    BY <1>1, <1>2, ArrangeGood
  <1>4. Good(D)
    BY <1>1, <1>3, ConsiderDestroyGood, CommitDirtyGood
  <1>5. Become(D) /\ geometry' = geometry
    BY DEF MoveTo
  <1> HIDE DEF D
  <1> QED BY <1>4, <1>5, BecomeGood DEF CountInv

LEMMA ResizeCountInv ==
    ASSUME CountInv, NEW v \in Floating, NEW s \in Sizes, Resize(v, s)
    PROVE  CountInv'
  <1> DEFINE N == [Here EXCEPT !.pending[v].size = s]
             D == CommitDirty(NodesSetDirty(N, {v}), TRUE)
  <1>1. v \in Nodes
    BY DEF Nodes, Views
  <1>2. Good(N)
    BY <1>1, WantGood DEF CountInv
  <1>3. Good(D)
    BY <1>1, <1>2, NodesSetDirtyGood, CommitDirtyGood
  <1>4. Become(D) /\ geometry' = geometry
    BY DEF Resize
  <1> HIDE DEF D
  <1> QED BY <1>3, <1>4, BecomeGood DEF CountInv

LEMMA MinimizeCountInv ==
    ASSUME CountInv, LiveOnWorkspace, NEW v \in Floating, Minimize(v)
    PROVE  CountInv'
  <1> DEFINE N == [Here EXCEPT !.pending[v].hidden = ~@]
             D == CommitDirty(Arrange(NodesSetDirty(N, {v}), pending[v].parent), TRUE)
  <1>1. v \in Nodes /\ v \in Views
    BY DEF Nodes, Views
  <1>2. pending[v].parent \in Workspaces
    BY <1>1 DEF LiveOnWorkspace, Minimize
  <1>3. (~Here.pending[v].hidden) \in BOOLEAN
    OBVIOUS
  <1>4. Good(N)
    BY <1>1, <1>3, WantGood DEF CountInv
  <1>5. Good(D)
    BY <1>1, <1>2, <1>4, NodesSetDirtyGood, ArrangeGood, CommitDirtyGood
  <1>6. Become(D) /\ geometry' = geometry
    BY DEF Minimize
  <1> HIDE DEF D
  <1> QED BY <1>5, <1>6, BecomeGood DEF CountInv

LEMMA TouchCountInv ==
    ASSUME CountInv, NEW n \in Nodes, Touch(n)
    PROVE  CountInv'
  <1> DEFINE D == NodesSetDirty(Here, {n})
  <1>1. Good(D)
    BY NodesSetDirtyGood DEF CountInv
  <1>2. Become(D) /\ geometry' = geometry
    BY DEF Touch
  <1> HIDE DEF D
  <1> QED BY <1>1, <1>2, BecomeGood DEF CountInv

LEMMA TimeoutCountInv ==
    ASSUME CountInv, HandleTimeout
    PROVE  CountInv'
  <1> DEFINE Q == [Here.queued EXCEPT !.left = 0]
             N == [Here EXCEPT !.queued = Q]
             D == Progress(N)
  <1>1. Q \in Transactions /\ Q.nodes = Here.queued.nodes
    BY DEF CountInv, Good, StateType, Transactions
  <1>2. D = Progress([Here EXCEPT !.queued.left = 0])
    OBVIOUS
  <1> HIDE DEF Q
  <1>3. Good(N)
    BY <1>1 DEF CountInv, Good, StateType, Counted, Held
  <1>4. Good(D)
    BY <1>3, ProgressGood
  <1>5. Become(D) /\ geometry' = geometry
    BY <1>2 DEF HandleTimeout
  <1> HIDE DEF D
  <1> QED BY <1>4, <1>5, BecomeGood DEF CountInv

(***************************************************************************)
(* Where live views are.  Loyal(S, T, X): a view outside X that is live in  *)
(* T was live in S, and at the same place.                                  *)
(***************************************************************************)
Loyal(S, T, X) ==
    \A u \in Views \ X :
      T.life[u] = "live" =>
        S.life[u] = "live" /\ T.pending[u].parent = S.pending[u].parent

LEMMA LoyalTrans ==
    ASSUME NEW S, NEW T, NEW U, NEW X, Loyal(S, T, X), Loyal(T, U, X)
    PROVE  Loyal(S, U, X)
  BY DEF Loyal

\* The operators of transaction.c move no view.
LEMMA FinishLoyal ==
    ASSUME NEW S, S \in StateType
    PROVE  Loyal(S, Finish(S), {})
  <1> DEFINE A == Apply(S)
             freed == Freed(A)
  <1>1. A \in StateType /\ A.life = S.life /\ A.pending = S.pending
    BY ApplyType, ApplyKeeps
  <1> HIDE DEF A
  <1>2. /\ Destroy(A).life = [n \in Nodes |-> IF n \in freed THEN "none" ELSE A.life[n]]
        /\ Destroy(A).pending =
             [n \in Nodes |-> IF n \in freed THEN Blank ELSE A.pending[n]]
    BY <1>1 DEF Destroy, StateType
  <1> HIDE DEF freed
  <1>3. Loyal(A, Destroy(A), {})
    BY <1>2 DEF Loyal, Nodes
  <1> QED BY <1>1, <1>3 DEF Finish, Loyal, A

LEMMA LaunchLoyal ==
    ASSUME NEW S, S \in StateType
    PROVE  Launch(S).life = S.life /\ Launch(S).pending = S.pending
  BY DEF Launch, StateType

LEMMA ProgressLoyal ==
    ASSUME NEW S, Good(S)
    PROVE  Loyal(S, Progress(S), {})
  <1> DEFINE F == Finish(S)
             L == Launch(F)
  <1>1. Good(F) /\ F.queued.nodes = {} /\ Loyal(S, F, {})
    BY FinishGood, FinishLoyal DEF NoTxn, Good
  <1>2. Good(L) /\ L.life = F.life /\ L.pending = F.pending
    BY <1>1, LaunchGood, LaunchLoyal DEF Good
  <1>3. Loyal(S, L, {})
    BY <1>1, <1>2 DEF Loyal
  <1>4. Loyal(L, Finish(L), {})
    BY <1>2, FinishLoyal DEF Good
  <1>5. Loyal(S, Finish(L), {})
    BY <1>3, <1>4, LoyalTrans
  <1>6. Loyal(S, S, {})
    BY DEF Loyal
  <1> HIDE DEF F
  <1> QED BY <1>1, <1>3, <1>5, <1>6 DEF Progress, F

LEMMA CommitDirtyLoyal ==
    ASSUME NEW S, Good(S), NEW b \in BOOLEAN
    PROVE  Loyal(S, CommitDirty(S, b), {})
  <1> DEFINE A == AddDirty(S, b)
             L == Launch(A)
  <1>1. /\ Good(A) /\ A.queued = S.queued
        /\ A.life = S.life /\ A.pending = S.pending
    <2>1. Good(A) /\ A.queued = S.queued
      BY AddDirtyType, AddDirtyCounted DEF Good
    <2>2. A.life = S.life /\ A.pending = S.pending
      BY DEF Good, AddDirty, StateType
    <2> QED BY <2>1, <2>2
  <1> HIDE DEF A
  <1>2. L.life = S.life /\ L.pending = S.pending
    BY <1>1, LaunchLoyal DEF Good
  <1>3. S.queued.nodes = {} => Loyal(L, Progress(L), {})
    BY <1>1, LaunchGood, ProgressLoyal
  <1> HIDE DEF L
  <1>4. S.queued.nodes = {} => Loyal(S, Progress(L), {})
    BY <1>2, <1>3 DEF Loyal
  <1>5. Loyal(S, S, {}) /\ Loyal(S, A, {})
    BY <1>1 DEF Loyal
  <1> QED BY <1>4, <1>5 DEF CommitDirty, A, L

\* Nor do arranging, marking dirty and the life of workspaces.
LEMMA NodesSetDirtyLoyal ==
    ASSUME NEW S, S \in StateType, NEW N
    PROVE  /\ NodesSetDirty(S, N).life = S.life
           /\ NodesSetDirty(S, N).pending = S.pending
  BY DEF NodesSetDirty, StateType

LEMMA ArrangeLoyal ==
    ASSUME NEW S, Good(S), NEW w \in Workspaces
    PROVE  Loyal(S, Arrange(S, w), {})
  <1> DEFINE size == Share(Cardinality(TiledKids(S.pending, w)))
             P == [n \in Nodes |-> IF n \in TiledKids(S.pending, w)
                     THEN [S.pending[n] EXCEPT !.size = size] ELSE S.pending[n]]
             T == [S EXCEPT !.pending = P]
  <1>1. \A n \in Nodes : P[n] \in NodeState /\ P[n].parent = S.pending[n].parent
    BY ShareType DEF TiledKids, Good, StateType, NodeState
  <1>2. T \in StateType /\ T.life = S.life /\ T.pending = P
    BY <1>1 DEF Good, StateType
  <1>3. Arrange(S, w) = NodesSetDirty(T, {w} \cup S.pending[w].kids)
    BY DEF Arrange, Arranged
  <1> HIDE DEF P, T
  <1>4. Arrange(S, w).life = T.life /\ Arrange(S, w).pending = T.pending
    BY <1>2, <1>3, NodesSetDirtyLoyal
  <1> QED BY <1>1, <1>2, <1>4 DEF Loyal, Nodes

LEMMA ConsiderDestroyLoyal ==
    ASSUME NEW S, Good(S), NEW w \in Workspaces, NEW keep \in BOOLEAN
    PROVE  Loyal(S, ConsiderDestroy(S, w, keep), {})
  <1> DEFINE D == NodesSetDirty(S, {w})
  <1>1. Good(D) /\ D.life = S.life /\ D.pending = S.pending
    BY NodesSetDirtyGood, NodesSetDirtyLoyal DEF Good, Nodes
  <1> HIDE DEF D
  <1>2. Loyal(S, [D EXCEPT !.life[w] = "destroying"], {})
    BY <1>1, TransactionAssumption DEF Loyal, Good, StateType
  <1> QED BY <1>2 DEF ConsiderDestroy, D, Loyal

\* Detaching and attaching move one view only.
LEMMA AttachLoyal ==
    ASSUME NEW S, Good(S), NEW v \in Views, NEW w \in Workspaces
    PROVE  /\ Loyal(S, Attach(S, v, w), {v})
           /\ Attach(S, v, w).pending[v].parent = w
  <1> DEFINE P == Join(S.pending, v, w)
             T == [S EXCEPT !.pending = P]
  <1>1. /\ P \in [Nodes -> NodeState]
        /\ \A n \in Nodes : P[n].parent = IF n = v THEN w ELSE S.pending[n].parent
    <2>1. S.pending \in [Nodes -> NodeState]
      BY DEF Good, StateType
    <2> QED BY <2>1, JoinEffect
  <1> HIDE DEF P
  <1>2. T \in StateType /\ T.life = S.life /\ T.pending = P
    BY <1>1 DEF Good, StateType
  <1>3. Attach(S, v, w) = NodesSetDirty(T, {v, w})
    BY DEF Attach, P
  <1> HIDE DEF T
  <1> QED BY <1>1, <1>2, <1>3, NodesSetDirtyLoyal DEF Loyal, Nodes

LEMMA DetachLoyal ==
    ASSUME NEW S, Good(S), NEW v \in Views
    PROVE  /\ Loyal(S, Detach(S, v), {v})
           /\ Detach(S, v).life = S.life
  <1> DEFINE P == Leave(S.pending, v)
             T == [S EXCEPT !.pending = P]
  <1>1. /\ P \in [Nodes -> NodeState]
        /\ \A n \in Nodes : P[n].parent = IF n = v THEN None ELSE S.pending[n].parent
    <2>1. S.pending \in [Nodes -> NodeState]
      BY DEF Good, StateType
    <2> QED BY <2>1, LeaveEffect
  <1> HIDE DEF P
  <1>2. T \in StateType /\ T.life = S.life /\ T.pending = P
    BY <1>1 DEF Good, StateType
  <1>3. Detach(S, v) = NodesSetDirty(T, {v, S.pending[v].parent} \ {None})
    BY DEF Detach, P
  <1> HIDE DEF T
  <1> QED BY <1>1, <1>2, <1>3, NodesSetDirtyLoyal DEF Loyal, Nodes

\* Every action leaves a live view on a workspace.
LEMMA LiveAfter ==
    ASSUME NEW S, Good(S), NEW b \in BOOLEAN, Become(CommitDirty(S, b)),
           \A u \in Views : S.life[u] = "live" => S.pending[u].parent \in Workspaces
    PROVE  LiveOnWorkspace'
  <1>1. Loyal(S, CommitDirty(S, b), {})
    BY CommitDirtyLoyal
  <1>2. life' = CommitDirty(S, b).life /\ pending' = CommitDirty(S, b).pending
    BY DEF Become
  <1> QED BY <1>1, <1>2 DEF Loyal, LiveOnWorkspace

LEMMA MapLive ==
    ASSUME CountInv, LiveOnWorkspace, NEW v \in Views, NEW w \in Workspaces,
           NEW s \in Sizes, Map(v, w, s)
    PROVE  LiveOnWorkspace'
  <1> DEFINE H == EnsureWorkspace(Here, w)
             z == IF v \in Floating THEN s ELSE 0
             N == [H EXCEPT !.life[v] = "live", !.pending[v].size = z]
             T == Attach(N, v, w)
             A == Arrange(T, w)
  <1>1. Good(H) /\ Loyal(Here, H, {})
    <2>1. H.pending = Here.pending /\ \A u \in Views : H.life[u] = Here.life[u]
      BY TransactionAssumption DEF EnsureWorkspace, CountInv, Good, StateType, Nodes
    <2> QED BY <2>1, EnsureWorkspaceGood DEF CountInv, Loyal
  <1> HIDE DEF H
  <1>2. Good([H EXCEPT !.life[v] = "live"])
    BY <1>1 DEF Good, StateType, Counted, Held
  <1>3. Good(N) /\ Loyal(H, N, {v})
    <2>1. N = [[H EXCEPT !.life[v] = "live"] EXCEPT !.pending[v].size = z]
      OBVIOUS
    <2>2. Good(N)
      BY <1>2, <2>1, WantGood DEF Nodes
    <2>3. \A u \in Views \ {v} :
            N.life[u] = H.life[u] /\ N.pending[u] = H.pending[u]
      BY <1>1 DEF Good, StateType, Nodes
    <2> QED BY <2>2, <2>3 DEF Loyal
  <1> HIDE DEF N
  <1>4. Good(T) /\ Loyal(N, T, {v}) /\ T.pending[v].parent = w
    BY <1>3, AttachGood, AttachLoyal
  <1> HIDE DEF T
  <1>5. Good(A) /\ Loyal(T, A, {})
    BY <1>4, ArrangeGood, ArrangeLoyal
  <1>6. \A u \in Views : A.life[u] = "live" => A.pending[u].parent \in Workspaces
    BY <1>1, <1>3, <1>4, <1>5 DEF Loyal, LiveOnWorkspace, Here
  <1>7. Become(CommitDirty(A, TRUE))
    BY DEF Map, H, N, T
  <1> HIDE DEF A
  <1> QED BY <1>5, <1>6, <1>7, LiveAfter

LEMMA UnmapLive ==
    ASSUME CountInv, LiveOnWorkspace, NEW v \in Views, NEW keep \in BOOLEAN,
           Unmap(v, keep)
    PROVE  LiveOnWorkspace'
  <1> DEFINE w == pending[v].parent
             N == [Here EXCEPT !.conf[v] = <<>>, !.told[v] = 0]
             D == NodesSetDirty(N, {v})
             K == [D EXCEPT !.life[v] = "destroying"]
             B == Detach(K, v)
             C == ConsiderDestroy(B, w, keep)
             A == IF C.life[w] = "destroying" THEN C ELSE Arrange(C, w)
  <1>1. w \in Workspaces
    BY DEF LiveOnWorkspace, Unmap
  <1>2. Good(N) /\ N.life = life /\ N.pending = pending
    <2>1. <<>> \in Confs
      BY DEF Confs
    <2>2. Good(N)
      BY <2>1, ClientGood DEF CountInv
    <2> QED BY <2>2 DEF Here
  <1> HIDE DEF N
  <1>3. D.life = life /\ D.pending = pending /\ Good(D) /\ Good(K)
    BY <1>2, NodesSetDirtyGood, NodesSetDirtyLoyal, DyingGood DEF Good, Nodes
  <1> HIDE DEF D
  <1>4. /\ \A u \in Views \ {v} : K.life[u] = life[u] /\ K.pending[u] = pending[u]
        /\ K.life[v] = "destroying"
    BY <1>3 DEF Good, StateType, Nodes
  <1> HIDE DEF K
  <1>5. Good(B) /\ Loyal(K, B, {v}) /\ B.life = K.life
    BY <1>3, DetachGood, DetachLoyal
  <1> HIDE DEF B
  <1>6. Good(C) /\ Loyal(B, C, {})
    BY <1>1, <1>5, ConsiderDestroyGood, ConsiderDestroyLoyal
  <1> HIDE DEF C
  <1>7. Good(A) /\ Loyal(C, A, {})
    BY <1>1, <1>6, ArrangeGood, ArrangeLoyal DEF Loyal
  <1>8. \A u \in Views : A.life[u] = "live" => A.pending[u].parent \in Workspaces
    BY <1>4, <1>5, <1>6, <1>7 DEF Loyal, LiveOnWorkspace
  <1>9. Become(CommitDirty(A, TRUE))
    BY DEF Unmap, N, D, K, B, C, BeginDestroy
  <1> HIDE DEF A
  <1> QED BY <1>7, <1>8, <1>9, LiveAfter

LEMMA MoveToLive ==
    ASSUME CountInv, LiveOnWorkspace, NEW v \in Views, NEW w \in Workspaces,
           NEW keep \in BOOLEAN, MoveTo(v, w, keep)
    PROVE  LiveOnWorkspace'
  <1> DEFINE old == pending[v].parent
             H == EnsureWorkspace(Here, w)
             D == Detach(H, v)
             M == Attach(D, v, w)
             A == Arrange(M, old)
             B == Arrange(A, w)
             C == ConsiderDestroy(B, old, keep)
  <1>1. old \in Workspaces
    BY DEF LiveOnWorkspace, MoveTo
  <1>2. Good(H) /\ Loyal(Here, H, {v})
    <2>1. H.pending = Here.pending /\ \A u \in Views : H.life[u] = Here.life[u]
      BY TransactionAssumption DEF EnsureWorkspace, CountInv, Good, StateType, Nodes
    <2> QED BY <2>1, EnsureWorkspaceGood DEF CountInv, Loyal
  <1> HIDE DEF H
  <1>3. Good(D) /\ Loyal(H, D, {v})
    BY <1>2, DetachGood, DetachLoyal
  <1> HIDE DEF D
  <1>4. Good(M) /\ Loyal(D, M, {v}) /\ M.pending[v].parent = w
    BY <1>3, AttachGood, AttachLoyal
  <1> HIDE DEF M
  <1>5. Good(A) /\ Loyal(M, A, {})
    BY <1>1, <1>4, ArrangeGood, ArrangeLoyal
  <1> HIDE DEF A
  <1>6. Good(B) /\ Loyal(A, B, {})
    BY <1>5, ArrangeGood, ArrangeLoyal
  <1> HIDE DEF B
  <1>7. Good(C) /\ Loyal(B, C, {})
    BY <1>1, <1>6, ConsiderDestroyGood, ConsiderDestroyLoyal
  <1>8. \A u \in Views : C.life[u] = "live" => C.pending[u].parent \in Workspaces
    BY <1>2, <1>3, <1>4, <1>5, <1>6, <1>7 DEF Loyal, LiveOnWorkspace, Here
  <1>9. Become(CommitDirty(C, TRUE))
    BY DEF MoveTo, H, D, M, A, B
  <1> HIDE DEF C
  <1> QED BY <1>7, <1>8, <1>9, LiveAfter

LEMMA ResizeLive ==
    ASSUME CountInv, LiveOnWorkspace, NEW v \in Floating, NEW s \in Sizes,
           Resize(v, s)
    PROVE  LiveOnWorkspace'
  <1> DEFINE N == [Here EXCEPT !.pending[v].size = s]
             A == NodesSetDirty(N, {v})
  <1>1. v \in Nodes
    BY DEF Nodes, Views
  <1>2. Good(N)
    BY <1>1, WantGood DEF CountInv
  <1>3. N.life = life /\ \A u \in Views : N.pending[u].parent = pending[u].parent
    BY <1>1 DEF CountInv, Good, StateType, Here, NodeState, Nodes
  <1> HIDE DEF N
  <1>4. Good(A) /\ A.life = N.life /\ A.pending = N.pending
    BY <1>1, <1>2, NodesSetDirtyGood, NodesSetDirtyLoyal DEF Good
  <1>5. \A u \in Views : A.life[u] = "live" => A.pending[u].parent \in Workspaces
    BY <1>3, <1>4 DEF LiveOnWorkspace
  <1>6. Become(CommitDirty(A, TRUE))
    BY DEF Resize, N
  <1> HIDE DEF A
  <1> QED BY <1>4, <1>5, <1>6, LiveAfter

LEMMA MinimizeLive ==
    ASSUME CountInv, LiveOnWorkspace, NEW v \in Floating, Minimize(v)
    PROVE  LiveOnWorkspace'
  <1> DEFINE w == pending[v].parent
             N == [Here EXCEPT !.pending[v].hidden = ~@]
             D == NodesSetDirty(N, {v})
             A == Arrange(D, w)
  <1>1. v \in Nodes /\ v \in Views
    BY DEF Nodes, Views
  <1>2. w \in Workspaces
    BY <1>1 DEF LiveOnWorkspace, Minimize
  <1>3. (~Here.pending[v].hidden) \in BOOLEAN
    OBVIOUS
  <1>4. Good(N)
    BY <1>1, <1>3, WantGood DEF CountInv
  <1>5. N.life = life /\ \A u \in Views : N.pending[u].parent = pending[u].parent
    BY <1>1 DEF CountInv, Good, StateType, Here, NodeState, Nodes
  <1> HIDE DEF N
  <1>6. Good(D) /\ D.life = N.life /\ D.pending = N.pending
    BY <1>1, <1>4, NodesSetDirtyGood, NodesSetDirtyLoyal DEF Good
  <1> HIDE DEF D
  <1>7. Good(A) /\ Loyal(D, A, {})
    BY <1>2, <1>6, ArrangeGood, ArrangeLoyal
  <1>8. \A u \in Views : A.life[u] = "live" => A.pending[u].parent \in Workspaces
    BY <1>5, <1>6, <1>7 DEF LiveOnWorkspace, Loyal
  <1>9. Become(CommitDirty(A, TRUE))
    BY DEF Minimize, D, N
  <1> HIDE DEF A
  <1> QED BY <1>7, <1>8, <1>9, LiveAfter

LEMMA TouchLive ==
    ASSUME CountInv, LiveOnWorkspace, NEW n \in Nodes, Touch(n)
    PROVE  LiveOnWorkspace'
  <1> DEFINE D == NodesSetDirty(Here, {n})
  <1>1. D.life = life /\ D.pending = pending
    BY DEF NodesSetDirty, Here
  <1>2. Become(D)
    BY DEF Touch
  <1> HIDE DEF D
  <1>3. life' = life /\ pending' = pending
    BY <1>1, <1>2 DEF Become
  <1> QED BY <1>3 DEF LiveOnWorkspace

\* A step that ends in transaction_progress.
LEMMA ProgressLive ==
    ASSUME NEW S, Good(S), Become(Progress(S)),
           \A u \in Views : S.life[u] = "live" => S.pending[u].parent \in Workspaces
    PROVE  LiveOnWorkspace'
  <1>1. Loyal(S, Progress(S), {})
    BY ProgressLoyal
  <1>2. life' = Progress(S).life /\ pending' = Progress(S).pending
    BY DEF Become
  <1> QED BY <1>1, <1>2 DEF Loyal, LiveOnWorkspace

LEMMA TimeoutLive ==
    ASSUME CountInv, LiveOnWorkspace, HandleTimeout
    PROVE  LiveOnWorkspace'
  <1> DEFINE Q == [Here.queued EXCEPT !.left = 0]
             N == [Here EXCEPT !.queued = Q]
  <1>1. Q \in Transactions /\ Q.nodes = Here.queued.nodes
    BY DEF CountInv, Good, StateType, Transactions
  <1>2. N = [Here EXCEPT !.queued.left = 0]
    OBVIOUS
  <1> HIDE DEF Q
  <1>3. Good(N)
    BY <1>1 DEF CountInv, Good, StateType, Counted, Held
  <1>4. N.life = life /\ N.pending = pending
    BY DEF Here
  <1>5. Become(Progress(N))
    BY <1>2 DEF HandleTimeout
  <1> HIDE DEF N
  <1> QED BY <1>3, <1>4, <1>5, ProgressLive DEF LiveOnWorkspace

\* The instruction of a view that is ready is gone, and no view has moved.
LEMMA SetReadyLoyal ==
    ASSUME NEW S, Good(S), NEW v \in Views
    PROVE  Loyal(S, SetReady(S, v), {})
  <1> DEFINE counted == v \in S.queued.waiting /\ S.queued.left > 0
             Q == [S.queued EXCEPT !.left = IF counted THEN @ - 1 ELSE @]
             R == [S EXCEPT !.armed = @ \ {v}, !.queued = Q]
  <1>1. Q \in Transactions /\ Q.nodes = S.queued.nodes
    BY DEF Good, StateType, Transactions
  <1>2. SetReady(S, v) = Progress(R)
    BY DEF SetReady, Good, StateType, Transactions
  <1> HIDE DEF Q
  <1>3. R \in StateType /\ R.life = S.life /\ R.pending = S.pending
    BY <1>1 DEF Good, StateType
  <1>4. Counted(R)
    BY <1>1 DEF Good, StateType, Counted, Held
  <1> HIDE DEF R
  <1>5. Loyal(R, Progress(R), {})
    BY <1>3, <1>4, ProgressLoyal DEF Good
  <1> QED BY <1>2, <1>3, <1>5 DEF Loyal

LEMMA ClientCommitInv ==
    ASSUME CountInv, LiveOnWorkspace, NEW v \in Views, NEW s \in Sizes,
           NEW k \in 0..Len(conf[v]), ClientCommit(v, k, s)
    PROVE  CountInv' /\ LiveOnWorkspace'
  <1> DEFINE left == SubSeq(conf[v], k + 1, Len(conf[v]))
             answer == Append(left, [size |-> s, txn |-> FALSE])
             acked == [Here EXCEPT !.conf[v] = left]
             newSize == /\ v \in Floating /\ s # geometry[v]
                        /\ ~AwaitsConfigure(v, left)
             wanted == [acked EXCEPT !.pending[v].size = s, !.told[v] = s]
             resized == NodesSetDirty(wanted, {v})
             answered == IF current[v].size = 0 THEN resized
                         ELSE [resized EXCEPT
                                 !.conf[v] = Append(resized.conf[v],
                                               [size |-> s, txn |-> FALSE])]
             S == IF newSize THEN CommitDirty(answered, FALSE) ELSE acked
             bySerial == v \in armed /\ k > 0 /\ conf[v][k].txn
             D == IF bySerial THEN SetReady(S, v) ELSE S
  <1>1. left \in Confs
    <2>1. conf[v] \in Seq(Configures)
      BY DEF CountInv, Good, StateType, Here, Confs
    <2>2. Len(conf[v]) \in Nat /\ k + 1 \in 1..Len(conf[v]) + 1
      BY <2>1
    <2> QED BY <2>1, <2>2 DEF Confs
  <1>2. Good(acked) /\ acked.life = life /\ acked.pending = pending
    <2>1. acked \in StateType
      BY <1>1 DEF CountInv, Good, StateType
    <2>2. Counted(acked)
      BY DEF CountInv, Good, StateType, Counted, Held
    <2> QED BY <2>1, <2>2 DEF Good, Here
  <1>3. /\ Good(resized) /\ resized.life = life
        /\ \A u \in Views : resized.pending[u].parent = pending[u].parent
    <2>1. v \in Nodes /\ s \in Sizes \cup {0}
      BY DEF Nodes
    <2> HIDE DEF acked
    <2>2. Good([acked EXCEPT !.pending[v].size = s])
      BY <1>2, <2>1, WantGood
    <2>3. wanted = [[acked EXCEPT !.pending[v].size = s] EXCEPT !.told[v] = s]
      OBVIOUS
    <2>4. Good(wanted)
      BY <2>1, <2>2, <2>3 DEF Good, StateType, Counted, Held
    <2>5. wanted.life = life /\ \A u \in Views : wanted.pending[u].parent = pending[u].parent
      BY <1>2, <2>1 DEF Good, StateType, NodeState, Nodes
    <2> HIDE DEF wanted
    <2> QED BY <2>1, <2>4, <2>5, NodesSetDirtyGood, NodesSetDirtyLoyal DEF Good
  <1> HIDE DEF acked, resized
  <1>4. /\ Good(answered) /\ answered.life = resized.life
        /\ answered.pending = resized.pending
    <2>1. resized.conf[v] \in Confs
      BY <1>3 DEF Good, StateType
    <2>2. Append(resized.conf[v], [size |-> s, txn |-> FALSE]) \in Confs
      BY <2>1 DEF Confs, Configures
    <2>3. Good(answered)
      BY <1>3, <2>2, ClientGood
    <2> QED BY <2>3
  <1> HIDE DEF answered
  <1>5. Good(S) /\ \A u \in Views : S.life[u] = "live" => S.pending[u].parent \in Workspaces
    <2>1. Good(S)
      BY <1>2, <1>4, CommitDirtyGood
    <2>2. Loyal(answered, CommitDirty(answered, FALSE), {})
      BY <1>4, CommitDirtyLoyal
    <2>3. \A u \in Views : answered.pending[u].parent = pending[u].parent
      BY <1>3, <1>4
    <2> DEFINE C == CommitDirty(answered, FALSE)
    <2>4. \A u \in Views : C.life[u] = "live" => life[u] = "live" /\ C.pending[u].parent = pending[u].parent
      BY <1>3, <1>4, <2>2, <2>3 DEF Loyal
    <2> HIDE DEF C
    <2>5. \A u \in Views : S.life[u] = "live" => life[u] = "live" /\ S.pending[u].parent = pending[u].parent
      BY <1>2, <2>4 DEF C
    <2> QED BY <2>1, <2>5 DEF LiveOnWorkspace
  <1> HIDE DEF S
  <1>6. Good(D) /\ Loyal(S, D, {})
    BY <1>5, SetReadyGood, SetReadyLoyal DEF Loyal
  <1>7. Become(D)
    BY DEF ClientCommit, D, S, answered, resized, acked
  <1>8. geometry' \in Geometries
    BY DEF ClientCommit, CountInv, Geometries
  <1> HIDE DEF D
  <1>9. LiveOnWorkspace'
    <2>1. life' = D.life /\ pending' = D.pending
      BY <1>7 DEF Become
    <2> QED BY <1>5, <1>6, <2>1 DEF Loyal, LiveOnWorkspace
  <1> QED BY <1>6, <1>7, <1>8, <1>9, BecomeGood DEF CountInv

(***************************************************************************)
(* The inductive invariant of the specification, and what it says.          *)
(***************************************************************************)
Inv == CountInv /\ LiveOnWorkspace

LEMMA InitInv == Init => Inv
  BY InitCountInv DEF Init, Inv, LiveOnWorkspace, Nodes

LEMMA NextInv == Inv /\ [Next]_vars => Inv'
  <1> SUFFICES ASSUME CountInv, LiveOnWorkspace, [Next]_vars
               PROVE  CountInv' /\ LiveOnWorkspace'
    BY DEF Inv
  <1>1. ASSUME NEW v \in Views, NEW w \in Workspaces, NEW s \in Sizes, Map(v, w, s)
        PROVE  CountInv' /\ LiveOnWorkspace'
    BY <1>1, MapCountInv, MapLive
  <1>2. ASSUME NEW v \in Views, NEW keep \in BOOLEAN, Unmap(v, keep)
        PROVE  CountInv' /\ LiveOnWorkspace'
    BY <1>2, UnmapCountInv, UnmapLive
  <1>3. ASSUME NEW v \in Views, NEW w \in Workspaces, NEW keep \in BOOLEAN,
               MoveTo(v, w, keep)
        PROVE  CountInv' /\ LiveOnWorkspace'
    BY <1>3, MoveToCountInv, MoveToLive
  <1>4. ASSUME NEW v \in Floating, NEW s \in Sizes, Resize(v, s)
        PROVE  CountInv' /\ LiveOnWorkspace'
    BY <1>4, ResizeCountInv, ResizeLive
  <1>5. ASSUME NEW v \in Floating, Minimize(v)
        PROVE  CountInv' /\ LiveOnWorkspace'
    BY <1>5, MinimizeCountInv, MinimizeLive
  <1>6. ASSUME NEW n \in Nodes, Touch(n)
        PROVE  CountInv' /\ LiveOnWorkspace'
    BY <1>6, TouchCountInv, TouchLive
  <1>7. ASSUME NEW v \in Views, NEW s \in Sizes, NEW k \in 0..Len(conf[v]),
               ClientCommit(v, k, s)
        PROVE  CountInv' /\ LiveOnWorkspace'
    BY <1>7, ClientCommitInv
  <1>8. ASSUME HandleTimeout PROVE CountInv' /\ LiveOnWorkspace'
    BY <1>8, TimeoutCountInv, TimeoutLive
  <1>9. ASSUME UNCHANGED vars PROVE CountInv' /\ LiveOnWorkspace'
    <2>1. Here' = Here /\ geometry' = geometry
      BY <1>9 DEF vars, Here
    <2>2. life' = life /\ pending' = pending
      BY <1>9 DEF vars
    <2> QED BY <2>1, <2>2 DEF CountInv, LiveOnWorkspace
  <1> QED BY <1>1, <1>2, <1>3, <1>4, <1>5, <1>6, <1>7, <1>8, <1>9 DEF Next

\* The variables keep their types: in particular no reference count and no
\* count of waiting views ever goes below zero, whatever is decremented.
THEOREM TypeCorrect == Spec => []TypeOK
  <1>1. Inv => TypeOK
    BY CountInvMeaning DEF Inv
  <1> QED BY InitInv, NextInv, <1>1, PTL DEF Spec

\* ntxnrefs is the number of transactions that hold the node, so that a node
\* is freed neither while one holds it nor never: a dying node is held by a
\* transaction or about to be.
THEOREM RefCountsExact == Spec => []RefsExact
  <1>1. Inv => RefsExact
    BY CountInvMeaning DEF Inv
  <1> QED BY InitInv, NextInv, <1>1, PTL DEF Spec

(***************************************************************************)
(* Layouts.  A state of the handlers holds three of them: the one that is   *)
(* shown (S.current), the one that will be when the queued transaction is   *)
(* applied, and the one that will be when the pending one is, too.          *)
(***************************************************************************)
Flight(S) ==
    [n \in Nodes |-> IF n \in S.queued.nodes THEN S.queued.state[n] ELSE S.current[n]]

Goal(S) ==
    [n \in Nodes |-> IF n \in S.next.nodes THEN S.next.state[n] ELSE Flight(S)[n]]

\* What a transaction does to the views and the layouts of a state.
LEMMA LayoutType ==
    ASSUME NEW S \in StateType
    PROVE  Flight(S) \in [Nodes -> NodeState] /\ Goal(S) \in [Nodes -> NodeState]
  BY DEF Flight, Goal, StateType, Transactions

\* What transaction_add_node for the dirty nodes leaves of a state.
LEMMA AddDirtyEffect ==
    ASSUME NEW S \in StateType, NEW b \in BOOLEAN
    PROVE  LET T == AddDirty(S, b)
           IN  /\ T.current = S.current /\ T.queued = S.queued
               /\ T.pending = S.pending /\ T.life = S.life
               /\ T.saved = S.saved /\ T.armed = S.armed /\ T.told = S.told
               /\ T.dirty = {} /\ T.next.nodes = S.next.nodes \cup S.dirty
               /\ S.next.server \subseteq T.next.server
               /\ T.next.state = [n \in Nodes |-> Snapshot(S, n)]
  BY DEF AddDirty, StateType

\* A change of the server's is marked as such in every instruction it touches.
LEMMA ServerRequest ==
    ASSUME NEW S \in StateType
    PROVE  S.dirty \subseteq AddDirty(S, TRUE).next.server
  BY DEF AddDirty, StateType

\* What the pending transaction leaves of a state when it takes the queue.
LEMMA LaunchEffect ==
    ASSUME NEW S \in StateType
    PROVE  LET T == Launch(S)
               configured == {v \in Views : ShouldConfigure(S, v)}
               waiting == {v \in configured : ~IsHidden(S, v)}
           IN  /\ T.current = S.current /\ T.pending = S.pending
               /\ T.life = S.life /\ T.dirty = S.dirty /\ T.next = NoTxn
               /\ T.queued.nodes = S.next.nodes /\ T.queued.state = S.next.state
               /\ T.queued.waiting = waiting
               /\ T.queued.left = Cardinality(waiting)
               /\ T.armed = S.armed \cup S.next.nodes
               /\ T.saved = S.saved \cup {v \in S.next.nodes \cap Views : ~IsHidden(S, v)}
               /\ T.told = [v \in Views |-> IF v \in configured
                              THEN S.next.state[v].size ELSE S.told[v]]
  BY DEF Launch, StateType

\* What applying and destroying the queued transaction leaves of a state.
LEMMA FinishEffect ==
    ASSUME NEW S \in StateType
    PROVE  LET T == Finish(S)
           IN  /\ T.current = [n \in Nodes |-> IF n \in Freed(S) THEN Blank
                                                ELSE Flight(S)[n]]
               /\ T.pending = [n \in Nodes |-> IF n \in Freed(S) THEN Blank
                                                ELSE S.pending[n]]
               /\ T.life = [n \in Nodes |-> IF n \in Freed(S) THEN "none"
                                             ELSE S.life[n]]
               /\ T.dirty = S.dirty /\ T.next = S.next /\ T.queued = NoTxn
               /\ T.armed = S.armed \ S.queued.nodes
               /\ T.saved = {v \in S.saved : StaysFrozen(S, v)}
               /\ T.told = S.told
  <1> DEFINE A == Apply(S)
  <1>1. A \in StateType
    BY ApplyType
  <1>2. /\ A.refs = S.refs /\ A.life = S.life /\ A.dirty = S.dirty
        /\ A.pending = S.pending /\ A.queued = S.queued /\ A.next = S.next
        /\ A.told = S.told
    BY ApplyKeeps
  <1>3. /\ A.current = Flight(S)
        /\ A.armed = S.armed \ S.queued.nodes
        /\ A.saved = {v \in S.saved : StaysFrozen(S, v)}
    BY DEF Apply, StateType, Flight
  <1>4. Freed(A) = Freed(S)
    BY <1>2 DEF Freed
  <1> HIDE DEF A
  <1> DEFINE T == Destroy(A)
  <1>5. /\ T.current = [n \in Nodes |-> IF n \in Freed(A) THEN Blank ELSE A.current[n]]
        /\ T.pending = [n \in Nodes |-> IF n \in Freed(A) THEN Blank ELSE A.pending[n]]
        /\ T.life = [n \in Nodes |-> IF n \in Freed(A) THEN "none" ELSE A.life[n]]
        /\ T.dirty = A.dirty /\ T.next = A.next /\ T.queued = NoTxn
        /\ T.armed = A.armed /\ T.saved = A.saved /\ T.told = A.told
    BY <1>1 DEF Destroy, StateType
  <1> QED BY <1>2, <1>3, <1>4, <1>5 DEF Finish, A

\* A layout is a tree of views on workspaces.
Tree(L) ==
    /\ \A v \in Views : L[v].kids = {}
    /\ \A w \in Workspaces : L[w].parent = None
    /\ \A v \in Views, w \in Workspaces : v \in L[w].kids <=> L[v].parent = w

\* The tiled views of a workspace share it.
OfWorkspace(L, w) == {t \in Tiled : L[t].parent = w}

ArrangedAt(L, w) ==
    \A v \in Tiled :
      L[v].parent = w => L[v].size = Share(Cardinality(OfWorkspace(L, w)))

\* A layout that is arranged but for the workspaces W.
Tidy(L, W) == Tree(L) /\ \A w \in Workspaces \ W : ArrangedAt(L, w)

Bare(st) == st.parent = None /\ st.kids = {}

\* No transaction holds an object that is not there, and it is on no layout.
Gone(S) ==
    \A n \in Nodes :
      S.life[n] = "none" =>
        /\ n \notin S.dirty \cup S.queued.nodes \cup S.next.nodes
        /\ S.pending[n] = Blank /\ S.current[n] = Blank

\* A dying node has left the tree that window management wants.
Dying(S) == \A n \in Nodes : S.life[n] = "destroying" => Bare(S.pending[n])

\* The queued transaction, between two steps of transaction_progress: the
\* counter is that of the views waited for, unless it was reset.
Fit(S) ==
    /\ S.armed \subseteq S.queued.nodes
    /\ S.queued.waiting \subseteq S.saved
    /\ S.queued.nodes # {} => S.saved \subseteq S.queued.nodes
    /\ S.queued.nodes = {} =>
         /\ S.saved \subseteq S.next.nodes
         /\ S.queued.left = 0 /\ S.queued.waiting = {}
    /\ S.queued.left # 0 =>
         S.queued.left = Cardinality(S.queued.waiting \cap S.armed)

\* The client of a tiled view was told the size that the view will have when
\* the queued transaction is applied.  A transaction that configures nobody
\* changes no such size.
Told(S) ==
    \A v \in Tiled :
      /\ S.life[v] = "live" => S.told[v] = Flight(S)[v].size
      /\ S.life[v] # "live" => S.told[v] = 0
      /\ v \in S.next.nodes \ S.next.server =>
           S.next.state[v].size = Flight(S)[v].size

Sane(S) ==
    /\ Good(S)
    /\ Tidy(S.current, {}) /\ Tidy(Flight(S), {})
    /\ Gone(S) /\ Dying(S) /\ Fit(S) /\ Told(S)

\* A state of a handler that changes the tree: what it has changed is dirty,
\* and it has to arrange the workspaces W yet.
Merged(S) == \A n \in Nodes \ S.dirty : S.pending[n] = Goal(S)[n]

Working(S, W) == Sane(S) /\ Tidy(S.pending, W) /\ Merged(S)

\* A state in which window management wants what the transactions hold.
Agreed(S) == Sane(S) /\ Tidy(S.pending, {}) /\ S.pending = Goal(S)

\* Such a state is one that a handler can start from.
LEMMA AgreedWorking ==
    ASSUME NEW S, Agreed(S)
    PROVE  Working(S, {})
  BY DEF Agreed, Working, Merged

\* The dirty nodes become a part of the pending transaction, and nothing is lost.
\* A client's own commit configures no tiled view, and must not resize one.
LEMMA AddDirtyAgreed ==
    ASSUME NEW S, Working(S, {}), NEW b \in BOOLEAN,
           \/ S.dirty \subseteq AddDirty(S, b).next.server
           \/ \A v \in Tiled : S.pending[v].size = Goal(S)[v].size
    PROVE  LET T == AddDirty(S, b)
           IN  /\ Agreed(T) /\ Flight(T) = Flight(S) /\ Goal(T) = S.pending
               /\ T.current = S.current /\ T.queued = S.queued
               /\ T.armed = S.armed
  <1> DEFINE T == AddDirty(S, b)
  <1> USE DEF Working, Sane
  <1>1. S \in StateType /\ Good(T) /\ T \in StateType
    BY AddDirtyType, AddDirtyCounted DEF Good
  <1>2. /\ T.current = S.current /\ T.queued = S.queued
        /\ T.pending = S.pending /\ T.life = S.life
        /\ T.saved = S.saved /\ T.armed = S.armed /\ T.told = S.told
        /\ T.dirty = {} /\ T.next.nodes = S.next.nodes \cup S.dirty
        /\ S.next.server \subseteq T.next.server
        /\ T.next.state = [n \in Nodes |-> Snapshot(S, n)]
    BY <1>1, AddDirtyEffect
  <1> HIDE DEF T
  <1>3. Flight(T) = Flight(S)
    BY <1>2 DEF Flight
  <1>4. \A n \in Nodes : Goal(T)[n] = S.pending[n]
    BY <1>2, <1>3 DEF Goal, Merged, Snapshot
  <1>5. Goal(T) = S.pending
    BY <1>1, <1>4, LayoutType DEF StateType
  <1>6. Gone(T) /\ Dying(T)
    BY <1>2 DEF Gone, Dying
  <1>7. Fit(T)
    BY <1>2 DEF Fit
  <1>8. Told(T)
    <2> SUFFICES ASSUME NEW v \in Tiled, v \in T.next.nodes \ T.next.server
                 PROVE  T.next.state[v].size = Flight(S)[v].size
      BY <1>2, <1>3 DEF Told
    <2>1. v \in Nodes
      BY DEF Nodes, Views
    <2>2. T.next.state[v] = IF v \in S.dirty THEN S.pending[v] ELSE S.next.state[v]
      BY <1>2, <2>1 DEF Snapshot
    <2>3. v \in S.next.nodes => S.next.state[v].size = Flight(S)[v].size
      BY <1>2 DEF Told
    <2>4. CASE v \in S.dirty
      <3>1. S.pending[v].size = Goal(S)[v].size
        BY <2>4 DEF T
      <3> QED BY <2>1, <2>2, <2>3, <2>4, <3>1 DEF Goal
    <2>5. CASE v \notin S.dirty
      BY <1>2, <2>2, <2>3, <2>5
    <2> QED BY <2>4, <2>5
  <1> QED BY <1>1, <1>2, <1>3, <1>5, <1>6, <1>7, <1>8 DEF T, Agreed

\* The pending transaction takes the empty queue: what was asked for is in flight.
LEMMA LaunchAgreed ==
    ASSUME NEW S, Agreed(S), S.queued.nodes = {}
    PROVE  LET T == Launch(S)
           IN  Agreed(T) /\ Flight(T) = Goal(S) /\ Goal(T) = Goal(S)
  <1> DEFINE T == Launch(S)
             configured == {v \in Views : ShouldConfigure(S, v)}
             waiting == {v \in configured : ~IsHidden(S, v)}
  <1> USE DEF Agreed, Sane
  <1>1. S \in StateType /\ Good(T)
    BY LaunchGood DEF Good
  <1>2. /\ T.current = S.current /\ T.pending = S.pending
        /\ T.life = S.life /\ T.dirty = S.dirty /\ T.next = NoTxn
        /\ T.queued.nodes = S.next.nodes /\ T.queued.state = S.next.state
        /\ T.queued.waiting = waiting
        /\ T.queued.left = Cardinality(waiting)
        /\ T.armed = S.armed \cup S.next.nodes
        /\ T.saved = S.saved \cup {v \in S.next.nodes \cap Views : ~IsHidden(S, v)}
        /\ T.told = [v \in Views |-> IF v \in configured
                       THEN S.next.state[v].size ELSE S.told[v]]
    BY <1>1, LaunchEffect
  <1>3. waiting \subseteq S.next.nodes \cap Views /\ waiting \subseteq T.saved
    BY <1>2 DEF ShouldConfigure
  <1> HIDE DEF T
  <1>4. /\ Flight(S) = [n \in Nodes |-> S.current[n]]
        /\ Flight(T) = Goal(S) /\ Goal(T) = Goal(S)
    BY <1>2 DEF Flight, Goal, NoTxn
  <1>5. Gone(T) /\ Dying(T)
    BY <1>2 DEF Gone, Dying, NoTxn
  <1>6. Fit(T)
    <2> HIDE DEF waiting
    <2>1. S.armed = {} /\ S.saved \subseteq S.next.nodes
      BY DEF Fit
    <2>2. waiting \cap T.armed = waiting
      BY <1>2, <1>3
    <2>3. T.queued.nodes = {} => waiting = {} /\ T.saved = {}
      BY <1>2, <1>3, <2>1
    <2>4. T.queued.nodes = {} => T.queued.left = 0
      BY <1>2, <2>3, FS_EmptySet
    <2>5. T.armed \subseteq T.queued.nodes /\ T.saved \subseteq T.queued.nodes
      BY <1>2, <2>1
    <2> QED BY <1>2, <1>3, <2>2, <2>3, <2>4, <2>5 DEF Fit
  <1>7. Told(T)
    <2> SUFFICES ASSUME NEW v \in Tiled
                 PROVE  /\ S.life[v] = "live" => T.told[v] = Goal(S)[v].size
                        /\ S.life[v] # "live" => T.told[v] = 0
      BY <1>2, <1>4 DEF Told, NoTxn
    <2>1. v \in Nodes /\ v \in Views
      BY DEF Nodes, Views
    <2>2. v \in configured <=> /\ v \in S.next.nodes /\ S.life[v] # "destroying"
                               /\ v \in S.next.server
                               /\ S.current[v].size # S.next.state[v].size
      BY <2>1 DEF ShouldConfigure
    <2>3. T.told[v] = IF v \in configured THEN S.next.state[v].size ELSE S.told[v]
      BY <1>2, <2>1
    <2>4. /\ S.life[v] = "live" => S.told[v] = S.current[v].size
          /\ S.life[v] # "live" => S.told[v] = 0
          /\ v \in S.next.nodes \ S.next.server => S.next.state[v].size = S.current[v].size
      BY <1>4, <2>1 DEF Told
    <2>5. S.life[v] = "none" => v \notin S.next.nodes
      BY <2>1 DEF Gone
    <2>6. S.life[v] \in {"none", "live", "destroying"}
      BY <1>1, <2>1 DEF StateType
    <2>7. Goal(S)[v] = IF v \in S.next.nodes THEN S.next.state[v] ELSE S.current[v]
      BY <1>4, <2>1 DEF Goal
    <2> HIDE DEF configured
    <2> QED BY <2>2, <2>3, <2>4, <2>5, <2>6, <2>7
  <1> QED BY <1>1, <1>2, <1>4, <1>5, <1>6, <1>7 DEF T

\* What is freed was bare, so that no layout notices.
LEMMA TidyWithout ==
    ASSUME NEW L \in [Nodes -> NodeState], Tidy(L, {}), NEW X,
           \A n \in Nodes \cap X : Bare(L[n])
    PROVE  Tidy([n \in Nodes |-> IF n \in X THEN Blank ELSE L[n]], {})
  <1> DEFINE M == [n \in Nodes |-> IF n \in X THEN Blank ELSE L[n]]
  <1>1. \A n \in Nodes : M[n].parent = L[n].parent /\ M[n].kids = L[n].kids
    BY DEF Bare, Blank
  <1>2. \A n \in Nodes : L[n].parent # None => M[n].size = L[n].size
    BY DEF Bare
  <1> HIDE DEF M
  <1>3. Tree(M)
    BY <1>1 DEF Tidy, Tree, Nodes
  <1>4. ASSUME NEW w \in Workspaces PROVE ArrangedAt(M, w)
    <2>1. OfWorkspace(M, w) = OfWorkspace(L, w)
      BY <1>1 DEF OfWorkspace, Nodes, Views
    <2>2. w # None
      BY TransactionAssumption DEF Nodes
    <2>3. ArrangedAt(L, w)
      BY DEF Tidy
    <2> QED BY <1>1, <1>2, <2>1, <2>2, <2>3 DEF ArrangedAt, Nodes, Views
  <1> QED BY <1>3, <1>4 DEF Tidy, M

\* The queued transaction is applied and destroyed: what was in flight is shown.
LEMMA FinishAgreed ==
    ASSUME NEW S, Agreed(S)
    PROVE  LET T == Finish(S)
           IN  /\ Agreed(T) /\ Flight(T) = T.current
               /\ \A n \in Nodes : /\ Placed(T.current[n]) = Placed(Flight(S)[n])
                                   /\ Placed(Goal(T)[n]) = Placed(Goal(S)[n])
  <1> DEFINE T == Finish(S)
             freed == Freed(S)
  <1> USE DEF Agreed, Sane
  <1>1. S \in StateType /\ Good(T) /\ T \in StateType
    BY FinishGood DEF Good
  <1>2. /\ T.current = [n \in Nodes |-> IF n \in freed THEN Blank ELSE Flight(S)[n]]
        /\ T.pending = [n \in Nodes |-> IF n \in freed THEN Blank ELSE S.pending[n]]
        /\ T.life = [n \in Nodes |-> IF n \in freed THEN "none" ELSE S.life[n]]
        /\ T.dirty = S.dirty /\ T.next = S.next /\ T.queued = NoTxn
        /\ T.armed = S.armed \ S.queued.nodes
        /\ T.saved = {v \in S.saved : StaysFrozen(S, v)}
        /\ T.told = S.told
    BY <1>1, FinishEffect
  <1>3. ASSUME NEW n \in Nodes
        PROVE  S.refs[n] = Held(S, n)
    BY DEF Good, Counted
  <1>4. ASSUME NEW n \in Nodes, n \in freed
        PROVE  /\ S.life[n] = "destroying"
               /\ n \notin S.next.nodes /\ n \notin S.dirty
               /\ Bare(S.pending[n]) /\ S.pending[n] = Flight(S)[n]
    <2>1. /\ n \in S.queued.nodes /\ S.life[n] = "destroying"
          /\ S.refs[n] = 1 /\ n \notin S.dirty
      BY <1>4 DEF Freed
    <2>2. n \notin S.next.nodes
      BY <1>3, <2>1 DEF Held
    <2> QED BY <2>1, <2>2 DEF Dying, Goal
  <1> HIDE DEF T, freed
  <1>5. /\ Flight(S) \in [Nodes -> NodeState] /\ S.pending \in [Nodes -> NodeState]
        /\ T.current \in [Nodes -> NodeState] /\ T.pending \in [Nodes -> NodeState]
        /\ Goal(T) \in [Nodes -> NodeState]
    BY <1>1, LayoutType DEF StateType
  <1>6. Tidy(T.current, {}) /\ Tidy(T.pending, {})
    BY <1>2, <1>4, <1>5, TidyWithout
  <1>7. Flight(T) = T.current
    BY <1>2, <1>5 DEF Flight, NoTxn
  <1>8. T.pending = Goal(T)
    <2>1. ASSUME NEW n \in Nodes PROVE T.pending[n] = Goal(T)[n]
      BY <1>2, <1>4, <1>7 DEF Goal
    <2> QED BY <1>5, <2>1
  <1>9. ASSUME NEW n \in Nodes
        PROVE  /\ Placed(T.current[n]) = Placed(Flight(S)[n])
               /\ Placed(Goal(T)[n]) = Placed(Goal(S)[n])
    BY <1>2, <1>4, <1>8 DEF Placed, Bare, Blank
  <1>10. Gone(T)
    <2> SUFFICES ASSUME NEW n \in Nodes, T.life[n] = "none"
                 PROVE  /\ n \notin T.dirty \cup T.next.nodes
                        /\ T.pending[n] = Blank /\ T.current[n] = Blank
      BY <1>2 DEF Gone, NoTxn
    <2>1. CASE n \in freed
      BY <1>2, <1>4, <2>1
    <2>2. CASE n \notin freed
      <3>1. S.life[n] = "none"
        BY <1>2, <2>2
      <3>2. n \notin S.queued.nodes
        BY <3>1 DEF Gone
      <3> QED BY <1>2, <2>2, <3>1, <3>2 DEF Gone, Flight
    <2> QED BY <2>1, <2>2
  <1>11. Dying(T)
    BY <1>2 DEF Dying
  <1>12. Fit(T)
    <2>1. T.armed = {}
      BY <1>2 DEF Fit
    <2>2. T.saved \subseteq S.next.nodes
      <3> SUFFICES ASSUME NEW v \in T.saved PROVE v \in S.next.nodes
        OBVIOUS
      <3>1. v \in S.saved /\ StaysFrozen(S, v) /\ v \in Nodes
        BY <1>1, <1>2 DEF StateType, Nodes
      <3>2. CASE v \in S.queued.nodes
        BY <1>3, <3>1, <3>2 DEF StaysFrozen, Held
      <3>3. CASE v \notin S.queued.nodes
        BY <3>1, <3>3 DEF Fit
      <3> QED BY <3>2, <3>3
    <2> QED BY <1>2, <2>1, <2>2 DEF Fit, NoTxn
  <1>13. Told(T)
    <2> SUFFICES ASSUME NEW v \in Tiled
                 PROVE  /\ T.life[v] = "live" => S.told[v] = T.current[v].size
                        /\ T.life[v] # "live" => S.told[v] = 0
                        /\ v \in S.next.nodes \ S.next.server =>
                             S.next.state[v].size = T.current[v].size
      BY <1>2, <1>7 DEF Told
    <2>1. v \in Nodes
      BY DEF Nodes, Views
    <2> QED BY <1>2, <1>4, <2>1 DEF Told
  <1> QED BY <1>1, <1>6, <1>7, <1>8, <1>9, <1>10, <1>11, <1>12, <1>13 DEF T

(***************************************************************************)
(* The steps of a transaction as AtomicLayout has them.  Screen(L) is what  *)
(* the layout L says of the views that are on a workspace.                  *)
(***************************************************************************)
Screen(L) == [v \in Views |-> Placed(L[v])]

Moves(S, T) ==
    LET shown == Screen(S.current)
        flight == Screen(Flight(S))
        goal == Screen(Goal(T))
    IN  \/ Screen(T.current) = shown /\ Screen(Flight(T)) = flight
        \/ Screen(T.current) = shown /\ flight = shown /\ Screen(Flight(T)) = goal
        \/ Screen(T.current) = flight /\ Screen(Flight(T)) = goal
        \/ Screen(T.current) = goal /\ Screen(Flight(T)) = goal

\* Between two handlers nothing is ready, and nothing pends behind an empty queue.
Orderly(S) == S.queued.nodes = {} => S.next.nodes = {}

Rested(S) == Agreed(S) /\ Orderly(S) /\ ~Ready(S)

\* Finishing the queued transaction shows the layout in flight, and no other.
LEMMA FinishShows ==
    ASSUME NEW S, Agreed(S)
    PROVE  LET T == Finish(S)
           IN  /\ Agreed(T) /\ T.next = S.next /\ T.queued = NoTxn
               /\ Screen(T.current) = Screen(Flight(S)) /\ Flight(T) = T.current
               /\ Screen(Goal(T)) = Screen(Goal(S))
  <1> DEFINE T == Finish(S)
  <1>1. T.next = S.next /\ T.queued = NoTxn
    BY FinishEffect DEF Agreed, Sane, Good
  <1>2. /\ Agreed(T) /\ Flight(T) = T.current
        /\ \A n \in Nodes : /\ Placed(T.current[n]) = Placed(Flight(S)[n])
                            /\ Placed(Goal(T)[n]) = Placed(Goal(S)[n])
    BY FinishAgreed
  <1> HIDE DEF T
  <1>3. \A v \in Views : /\ Placed(T.current[v]) = Placed(Flight(S)[v])
                         /\ Placed(Goal(T)[v]) = Placed(Goal(S)[v])
    BY <1>2 DEF Nodes
  <1> QED BY <1>1, <1>2, <1>3 DEF Screen, T

\* transaction_progress shows what was in flight, or what is asked for.
LEMMA ProgressRested ==
    ASSUME NEW S, Agreed(S), Orderly(S)
    PROVE  LET T == Progress(S)
           IN  /\ Rested(T) /\ Moves(S, T)
               /\ Screen(Goal(T)) = Screen(Goal(S))
               /\ ~Ready(S) => T = S
  <1> DEFINE F == Finish(S)
             L == Launch(F)
             G == Finish(L)
  <1>1. /\ Agreed(F) /\ F.next = S.next /\ F.queued = NoTxn
        /\ Screen(F.current) = Screen(Flight(S)) /\ Flight(F) = F.current
        /\ Screen(Goal(F)) = Screen(Goal(S))
    BY FinishShows
  <1> HIDE DEF F
  <1>2. /\ Agreed(L) /\ L.next = NoTxn /\ L.queued.nodes = F.next.nodes
        /\ Flight(L) = Goal(F) /\ Goal(L) = Goal(F) /\ L.current = F.current
    <2>1. F.queued.nodes = {} /\ F \in StateType
      BY <1>1 DEF NoTxn, Agreed, Sane, Good
    <2> QED BY <1>1, <2>1, LaunchAgreed, LaunchEffect
  <1> HIDE DEF L
  <1>3. /\ Agreed(G) /\ G.next = L.next /\ G.queued = NoTxn
        /\ Screen(G.current) = Screen(Flight(L)) /\ Flight(G) = G.current
        /\ Screen(Goal(G)) = Screen(Goal(L))
    BY <1>2, FinishShows
  <1> HIDE DEF G
  <1>4. CASE ~Ready(S)
    <2>1. Progress(S) = S
      BY <1>4 DEF Progress
    <2> QED BY <1>4, <2>1 DEF Rested, Moves
  <1>5. CASE Ready(S) /\ S.next.nodes = {}
    <2>1. Progress(S) = F
      BY <1>5 DEF Progress, F
    <2>2. Rested(F)
      BY <1>1, <1>5 DEF Rested, Orderly, Ready, NoTxn
    <2>3. Goal(F) = Flight(F)
      <3>1. F.next.nodes = {}
        BY <1>1, <1>5
      <3>2. \A n \in Nodes : Goal(F)[n] = Flight(F)[n]
        BY <3>1 DEF Goal
      <3>3. F \in StateType
        BY <1>1 DEF Agreed, Sane, Good
      <3> QED BY <3>2, <3>3, LayoutType
    <2>4. Moves(S, F)
      BY <1>1, <2>3 DEF Moves
    <2> QED BY <1>1, <1>5, <2>1, <2>2, <2>4
  <1>6. CASE Ready(S) /\ S.next.nodes # {} /\ ~Ready(L)
    <2>1. Progress(S) = L
      BY <1>6 DEF Progress, L, F
    <2>2. Rested(L)
      BY <1>2, <1>6 DEF Rested, Orderly, NoTxn
    <2>3. Moves(S, L)
      BY <1>1, <1>2 DEF Moves
    <2> QED BY <1>1, <1>2, <1>6, <2>1, <2>2, <2>3
  <1>7. CASE Ready(S) /\ S.next.nodes # {} /\ Ready(L)
    <2>1. Progress(S) = G
      BY <1>7 DEF Progress, G, L, F
    <2>2. Rested(G)
      BY <1>2, <1>3 DEF Rested, Orderly, Ready, NoTxn
    <2>3. Moves(S, G)
      BY <1>1, <1>2, <1>3 DEF Moves
    <2> QED BY <1>1, <1>2, <1>3, <1>7, <2>1, <2>2, <2>3
  <1> QED BY <1>4, <1>5, <1>6, <1>7

\* _transaction_commit_dirty: a transaction in flight is left alone.
LEMMA CommitDirtyRested ==
    ASSUME NEW S, Working(S, {}), Orderly(S), ~Ready(S), NEW b \in BOOLEAN,
           \/ S.dirty \subseteq AddDirty(S, b).next.server
           \/ \A v \in Tiled : S.pending[v].size = Goal(S)[v].size
    PROVE  LET T == CommitDirty(S, b)
           IN  /\ Rested(T) /\ Moves(S, T)
               /\ S.queued.nodes # {} =>
                    T.current = S.current /\ T.queued = S.queued /\ T.armed = S.armed
  <1> DEFINE A == AddDirty(S, b)
             L == Launch(A)
             T == Progress(L)
  <1>1. /\ Agreed(A) /\ Flight(A) = Flight(S) /\ A.current = S.current
        /\ A.queued = S.queued /\ A.armed = S.armed
    BY AddDirtyAgreed
  <1> HIDE DEF A
  <1>2. CASE S.dirty = {}
    <2>1. CommitDirty(S, b) = S
      BY <1>2 DEF CommitDirty
    <2>2. S.pending = Goal(S)
      BY <1>2, LayoutType DEF Working, Sane, Good, Merged, StateType
    <2>3. Rested(S) /\ Moves(S, S)
      BY <2>2 DEF Working, Rested, Agreed, Moves
    <2> QED BY <2>1, <2>3
  <1>3. CASE S.dirty # {} /\ S.queued.nodes # {}
    <2>1. CommitDirty(S, b) = A
      BY <1>3 DEF CommitDirty, A
    <2>2. Rested(A)
      BY <1>1, <1>3 DEF Rested, Orderly, Ready
    <2>3. Moves(S, A)
      BY <1>1 DEF Moves
    <2> QED BY <1>1, <2>1, <2>2, <2>3
  <1>4. CASE S.dirty # {} /\ S.queued.nodes = {}
    <2>1. CommitDirty(S, b) = T
      BY <1>4 DEF CommitDirty, A
    <2>2. /\ Agreed(L) /\ L.next = NoTxn /\ L.current = S.current
          /\ Flight(L) = Goal(A) /\ Goal(L) = Goal(A)
      <3>1. A \in StateType /\ A.queued.nodes = {}
        BY <1>1, <1>4 DEF Agreed, Sane, Good
      <3> QED BY <1>1, <3>1, LaunchAgreed, LaunchEffect
    <2> HIDE DEF L
    <2>3. Orderly(L)
      BY <2>2 DEF Orderly, NoTxn
    <2>4. Rested(T) /\ Moves(L, T) /\ Screen(Goal(T)) = Screen(Goal(L))
      BY <2>2, <2>3, ProgressRested
    <2>5. Screen(Flight(S)) = Screen(S.current)
      <3>1. \A v \in Views : Flight(S)[v] = S.current[v]
        BY <1>4 DEF Flight, Nodes
      <3> QED BY <3>1 DEF Screen
    <2> HIDE DEF T
    <2>6. Moves(S, T)
      BY <2>2, <2>4, <2>5 DEF Moves
    <2> QED BY <1>4, <2>1, <2>4, <2>6
  <1> QED BY <1>2, <1>3, <1>4

\* What a state is worth to the invariant apart from its type and its counts:
\* two states that agree on all the invariant speaks of.
Alike(S, T) ==
    /\ T.pending = S.pending /\ T.life = S.life /\ T.dirty = S.dirty
    /\ T.current = S.current /\ T.saved = S.saved /\ T.queued = S.queued
    /\ T.next = S.next /\ T.armed = S.armed
    /\ \A v \in Tiled : T.told[v] = S.told[v]

\* The invariant does not tell such states apart.
LEMMA AlikeSane ==
    ASSUME NEW S, NEW T, Good(T), Sane(S), Alike(S, T)
    PROVE  Sane(T) /\ Flight(T) = Flight(S) /\ Goal(T) = Goal(S)
  <1>1. Flight(T) = Flight(S) /\ Goal(T) = Goal(S)
    BY DEF Alike, Flight, Goal
  <1>2. Gone(T) /\ Dying(T)
    BY DEF Sane, Alike, Gone, Dying
  <1>3. Fit(T) 
    BY DEF Sane, Alike, Fit
  <1>4. Told(T)
    BY <1>1 DEF Sane, Alike, Told
  <1> QED BY <1>1, <1>2, <1>3, <1>4 DEF Sane, Alike

\* The timer and a client's answer change the counter of the queued transaction,
\* or its armed views.
LEMMA CounterSane ==
    ASSUME NEW S, Agreed(S), NEW T, Good(T),
           T.pending = S.pending, T.life = S.life, T.dirty = S.dirty,
           T.current = S.current, T.saved = S.saved, T.next = S.next,
           T.told = S.told,
           T.queued.nodes = S.queued.nodes, T.queued.state = S.queued.state,
           T.queued.waiting = S.queued.waiting, T.armed \subseteq S.armed,
           S.queued.nodes = {} => T.queued.left = 0,
           T.queued.left # 0 =>
             T.queued.left = Cardinality(T.queued.waiting \cap T.armed)
    PROVE  Agreed(T) /\ Flight(T) = Flight(S) /\ Goal(T) = Goal(S)
  <1> USE DEF Agreed, Sane
  <1>1. Flight(T) = Flight(S) /\ Goal(T) = Goal(S)
    BY DEF Flight, Goal
  <1>2. Gone(T) /\ Dying(T)
    BY DEF Gone, Dying
  <1>3. Fit(T)
    BY DEF Fit
  <1>4. Told(T)
    BY <1>1 DEF Told
  <1> QED BY <1>1, <1>2, <1>3, <1>4

\* set_instruction_ready, of a view that has its instruction: the count of the
\* views waited for goes with it, and the layout is applied when it was the last.
LEMMA SetReadyRested ==
    ASSUME NEW S, Rested(S), NEW v \in Views, v \in S.armed
    PROVE  LET T == SetReady(S, v)
           IN  /\ Rested(T) /\ Moves(S, T)
               /\ T.current # S.current => S.queued.waiting \cap S.armed = {v}
  <1> DEFINE counted == v \in S.queued.waiting /\ S.queued.left > 0
             Q == [S.queued EXCEPT !.left = IF counted THEN @ - 1 ELSE @]
             R == [S EXCEPT !.armed = @ \ {v}, !.queued = Q]
             T == Progress(R)
             W == S.queued.waiting \cap S.armed
  <1> USE DEF Rested
  <1>1. S \in StateType /\ Agreed(S) /\ Good(S)
    BY DEF Agreed, Sane, Good
  <1>2. SetReady(S, v) = T
    BY <1>1 DEF SetReady, StateType, Transactions
  <1>3. /\ Q \in Transactions
        /\ Q.nodes = S.queued.nodes /\ Q.state = S.queued.state
        /\ Q.waiting = S.queued.waiting
        /\ Q.left = IF counted THEN S.queued.left - 1 ELSE S.queued.left
    BY <1>1 DEF StateType, Transactions
  <1> HIDE DEF Q
  <1>4. /\ R \in StateType /\ R.queued = Q /\ R.armed = S.armed \ {v}
        /\ R.pending = S.pending /\ R.life = S.life /\ R.dirty = S.dirty
        /\ R.current = S.current /\ R.saved = S.saved /\ R.next = S.next
        /\ R.told = S.told /\ R.refs = S.refs
    BY <1>1, <1>3 DEF StateType
  <1>5. Good(R)
    BY <1>1, <1>3, <1>4 DEF Good, Counted, Held
  <1> HIDE DEF R
  <1>6. S.queued.nodes # {} /\ S.queued.left \in Nat \ {0}
    BY <1>1 DEF Agreed, Sane, Fit, Ready, StateType, Transactions
  <1>7. S.queued.left = Cardinality(W)
    BY <1>1, <1>6 DEF Agreed, Sane, Fit
  <1>8. IsFiniteSet(W)
    <2>1. W \in SUBSET Views
      BY <1>1 DEF StateType, Transactions
    <2> QED BY <2>1, ViewsFinite
  <1>9. R.queued.left = Cardinality(R.queued.waiting \cap R.armed)
    <2>1. CASE v \in S.queued.waiting
      <3>1. v \in W /\ R.queued.waiting \cap R.armed = W \ {v}
        BY <1>3, <1>4, <2>1
      <3>2. Cardinality(W \ {v}) = Cardinality(W) - 1
        BY <1>8, <3>1, FS_RemoveElement
      <3> QED BY <1>3, <1>4, <1>6, <1>7, <2>1, <3>1, <3>2
    <2>2. CASE v \notin S.queued.waiting
      <3>1. R.queued.waiting \cap R.armed = W
        BY <1>3, <1>4, <2>2
      <3> QED BY <1>3, <1>4, <1>7, <2>2, <3>1
    <2> QED BY <2>1, <2>2
  <1>10. Agreed(R) /\ Flight(R) = Flight(S) /\ Goal(R) = Goal(S)
    <2>1. R.armed \subseteq S.armed
      BY <1>4
    <2> QED BY <1>1, <1>3, <1>4, <1>5, <1>6, <1>9, <2>1, CounterSane
  <1>11. Orderly(R)
    BY <1>3, <1>4, <1>6 DEF Orderly
  <1>12. Rested(T) /\ Moves(R, T) /\ (~Ready(R) => T = R)
    BY <1>10, <1>11, ProgressRested
  <1> HIDE DEF T
  <1>13. Moves(S, T)
    BY <1>4, <1>10, <1>12 DEF Moves
  <1>14. ASSUME T.current # S.current PROVE W = {v}
    <2>1. Ready(R)
      BY <1>4, <1>12, <1>14
    <2>2. v \in W /\ Cardinality(W) = 1
      BY <1>3, <1>4, <1>6, <1>7, <2>1 DEF Ready
    <2> QED BY <1>8, <2>2, FS_Singleton
  <1> QED BY <1>2, <1>12, <1>13, <1>14

\* handle_timeout: whatever is waited for, the layout is applied.
LEMMA TimeoutRested ==
    ASSUME NEW S, Rested(S), S.queued.nodes # {}
    PROVE  LET T == Progress([S EXCEPT !.queued.left = 0])
           IN  Rested(T) /\ Moves(S, T)
  <1> DEFINE Q == [S.queued EXCEPT !.left = 0]
             R == [S EXCEPT !.queued = Q]
  <1>1. S \in StateType /\ Agreed(S) /\ Good(S)
    BY DEF Rested, Agreed, Sane, Good
  <1>2. R = [S EXCEPT !.queued.left = 0]
    OBVIOUS
  <1>3. /\ Q \in Transactions /\ Q.left = 0
        /\ Q.nodes = S.queued.nodes /\ Q.state = S.queued.state
        /\ Q.waiting = S.queued.waiting
    BY <1>1 DEF StateType, Transactions
  <1> HIDE DEF Q
  <1>4. /\ R \in StateType /\ R.queued = Q /\ R.armed = S.armed
        /\ R.pending = S.pending /\ R.life = S.life /\ R.dirty = S.dirty
        /\ R.current = S.current /\ R.saved = S.saved /\ R.next = S.next
        /\ R.told = S.told /\ R.refs = S.refs
    BY <1>1, <1>3 DEF StateType
  <1>5. Good(R)
    BY <1>1, <1>3, <1>4 DEF Good, Counted, Held
  <1> HIDE DEF R
  <1>6. Agreed(R) /\ Flight(R) = Flight(S) /\ Goal(R) = Goal(S)
    BY <1>1, <1>3, <1>4, <1>5, CounterSane
  <1>7. Orderly(R)
    BY <1>3, <1>4 DEF Orderly
  <1>8. Rested(Progress(R)) /\ Moves(R, Progress(R))
    BY <1>6, <1>7, ProgressRested
  <1>9. Moves(S, Progress(R))
    BY <1>4, <1>6, <1>8 DEF Moves
  <1> QED BY <1>2, <1>8, <1>9

(***************************************************************************)
(* What the operators of the tree do to a layout.                           *)
(***************************************************************************)
\* A layout with the same tree and the same sizes of tiled views on a workspace.
LEMMA TidySame ==
    ASSUME NEW L, NEW W, Tidy(L, W), NEW M,
           \A n \in Nodes : M[n].parent = L[n].parent /\ M[n].kids = L[n].kids,
           \A v \in Tiled : M[v].size = L[v].size
    PROVE  Tidy(M, W)
  <1>1. Tree(M)
    BY DEF Tidy, Tree, Nodes
  <1>2. \A w : OfWorkspace(M, w) = OfWorkspace(L, w)
    BY DEF OfWorkspace, Nodes, Views
  <1> QED BY <1>1, <1>2 DEF Tidy, ArrangedAt, Nodes, Views

\* Taking a view off its workspace leaves a tree, and that workspace unarranged.
LEMMA LeaveTidy ==
    ASSUME NEW P \in [Nodes -> NodeState], NEW W, Tidy(P, W),
           NEW v \in Views, P[v].parent \in Workspaces
    PROVE  /\ Tidy(Leave(P, v), W \cup {P[v].parent})
           /\ \A n \in Nodes \ {v, P[v].parent} : Leave(P, v)[n] = P[n]
           /\ Bare(Leave(P, v)[v])
  <1> DEFINE w == P[v].parent
             L == Leave(P, v)
  <1>1. /\ \A n \in Nodes : L[n].parent = IF n = v THEN None ELSE P[n].parent
        /\ \A n \in Nodes : L[n].kids = IF n = w THEN P[n].kids \ {v} ELSE P[n].kids
        /\ \A n \in Nodes : L[n].size = P[n].size
    BY LeaveEffect
  <1>2. /\ v # w /\ w # None /\ v \in Nodes
        /\ \A u \in Workspaces : u # None /\ u # v
        /\ Tiled \subseteq Nodes
    BY TransactionAssumption DEF Nodes, Views
  <1>3. \A n \in Nodes \ {v, w} : L[n] = P[n]
    BY <1>2 DEF Leave
  <1> HIDE DEF L
  <1>4. Tree(L)
    <2>1. \A x \in Views : L[x].kids = {}
      BY <1>1 DEF Tidy, Tree, Nodes
    <2>2. \A u \in Workspaces : L[u].parent = None
      BY <1>1 DEF Tidy, Tree, Nodes
    <2>3. ASSUME NEW x \in Views, NEW u \in Workspaces
          PROVE  x \in L[u].kids <=> L[x].parent = u
      <3>1. x \in P[u].kids <=> P[x].parent = u
        BY DEF Tidy, Tree
      <3>2. /\ L[x].parent = IF x = v THEN None ELSE P[x].parent
            /\ L[u].kids = IF u = w THEN P[u].kids \ {v} ELSE P[u].kids
        BY <1>1 DEF Nodes
      <3> QED BY <1>2, <3>1, <3>2
    <2> QED BY <2>1, <2>2, <2>3 DEF Tree
  <1>5. ASSUME NEW u \in Workspaces \ (W \cup {w})
        PROVE  ArrangedAt(L, u)
    <2>1. OfWorkspace(L, u) = OfWorkspace(P, u)
      BY <1>1, <1>2 DEF OfWorkspace
    <2>2. ArrangedAt(P, u)
      BY DEF Tidy
    <2> QED BY <1>1, <1>2, <2>1, <2>2 DEF ArrangedAt
  <1>6. Bare(L[v])
    BY <1>1, <1>2 DEF Tidy, Tree, Bare
  <1> QED BY <1>3, <1>4, <1>5, <1>6 DEF Tidy, L

\* So does putting a view of no workspace on one.
LEMMA JoinTidy ==
    ASSUME NEW P \in [Nodes -> NodeState], NEW W, Tidy(P, W),
           NEW v \in Views, P[v].parent = None, NEW w \in Workspaces
    PROVE  /\ Tidy(Join(P, v, w), W \cup {w})
           /\ \A n \in Nodes \ {v, w} : Join(P, v, w)[n] = P[n]
  <1> DEFINE J == Join(P, v, w)
  <1>1. /\ \A n \in Nodes : J[n].parent = IF n = v THEN w ELSE P[n].parent
        /\ \A n \in Nodes : n # w => J[n].kids = P[n].kids
        /\ \A x : x \in J[w].kids <=> x \in P[w].kids \/ x = v
        /\ \A n \in Nodes : J[n].size = P[n].size
    <2>1. \A n \in Nodes : J[n].parent = IF n = v THEN w ELSE P[n].parent
      BY JoinEffect
    <2>0. v \in Nodes /\ w \in Nodes /\ v # w
      BY TransactionAssumption DEF Nodes
    <2>2. \A n \in Nodes : n # w => J[n].kids = P[n].kids
      BY <2>0 DEF Join, NodeState
    <2>4. \A x : x \in J[w].kids <=> x \in P[w].kids \/ x = v
      BY <2>0 DEF Join, NodeState
    <2>3. \A n \in Nodes : J[n].size = P[n].size
      BY JoinEffect
    <2> QED BY <2>1, <2>2, <2>3, <2>4
  <1>2. /\ v # w /\ v \in Nodes /\ Tiled \subseteq Nodes
        /\ \A u \in Workspaces : u # None /\ u # v /\ u \notin Views
    BY TransactionAssumption DEF Nodes, Views
  <1>3. \A n \in Nodes \ {v, w} : J[n] = P[n]
    BY <1>2 DEF Join
  <1> HIDE DEF J
  <1>4. Tree(J)
    <2>1. ASSUME NEW x \in Views PROVE J[x].kids = {}
      <3>1. P[x].kids = {} /\ x # w /\ x \in Nodes
        BY <1>2 DEF Tidy, Tree, Nodes
      <3> QED BY <1>1, <3>1
    <2>2. \A u \in Workspaces : J[u].parent = None
      BY <1>1, <1>2 DEF Tidy, Tree, Nodes
    <2>3. ASSUME NEW x \in Views, NEW u \in Workspaces
          PROVE  x \in J[u].kids <=> J[x].parent = u
      <3>1. x \in P[u].kids <=> P[x].parent = u
        BY DEF Tidy, Tree
      <3>2. /\ J[x].parent = IF x = v THEN w ELSE P[x].parent
            /\ x \in J[u].kids <=> x \in P[u].kids \/ (u = w /\ x = v)
        BY <1>1 DEF Nodes
      <3> QED BY <1>2, <3>1, <3>2
    <2> QED BY <2>1, <2>2, <2>3 DEF Tree
  <1>5. ASSUME NEW u \in Workspaces \ (W \cup {w})
        PROVE  ArrangedAt(J, u)
    <2>1. OfWorkspace(J, u) = OfWorkspace(P, u)
      BY <1>1, <1>2 DEF OfWorkspace
    <2>2. ArrangedAt(P, u)
      BY DEF Tidy
    <2> QED BY <1>1, <1>2, <2>1, <2>2 DEF ArrangedAt
  <1> QED BY <1>3, <1>4, <1>5 DEF Tidy, J

\* The sizes that arrange_workspace gives.
Shared(P, w) ==
    [n \in Nodes |-> IF n \in TiledKids(P, w)
       THEN [P[n] EXCEPT !.size = Share(Cardinality(TiledKids(P, w)))] ELSE P[n]]

\* Arranging a workspace is all that was left to do for it.
LEMMA SharedTidy ==
    ASSUME NEW P \in [Nodes -> NodeState], NEW W, Tidy(P, W), NEW w \in Workspaces
    PROVE  /\ Shared(P, w) \in [Nodes -> NodeState]
           /\ Tidy(Shared(P, w), W \ {w})
           /\ \A n \in Nodes \ P[w].kids : Shared(P, w)[n] = P[n]
           /\ \A n \in Nodes : /\ Shared(P, w)[n].parent = P[n].parent
                               /\ Shared(P, w)[n].kids = P[n].kids
  <1> DEFINE size == Share(Cardinality(TiledKids(P, w)))
             M == Shared(P, w)
  <1>1. size \in Sizes
    BY ShareType DEF TiledKids
  <1>2. w \in Nodes /\ Tiled \subseteq Nodes /\ Tiled \subseteq Views
    BY DEF Nodes, Views
  <1>3. TiledKids(P, w) = OfWorkspace(P, w)
    BY DEF TiledKids, OfWorkspace, Tidy, Tree, Views
  <1> HIDE DEF size
  <1>4. \A n \in Nodes :
          /\ M[n] \in NodeState
          /\ M[n].parent = P[n].parent /\ M[n].kids = P[n].kids
          /\ M[n].size = IF n \in TiledKids(P, w) THEN size ELSE P[n].size
          /\ n \notin P[w].kids => M[n] = P[n]
    <2> SUFFICES ASSUME NEW n \in Nodes
                 PROVE  /\ M[n] \in NodeState
                        /\ M[n].parent = P[n].parent /\ M[n].kids = P[n].kids
                        /\ M[n].size = IF n \in TiledKids(P, w) THEN size ELSE P[n].size
                        /\ n \notin P[w].kids => M[n] = P[n]
      OBVIOUS
    <2>1. M[n] = IF n \in TiledKids(P, w) THEN [P[n] EXCEPT !.size = size] ELSE P[n]
      BY DEF Shared, size
    <2>2. P[n] \in NodeState
      OBVIOUS
    <2> QED BY <1>1, <2>1, <2>2 DEF NodeState, TiledKids
  <1>5. M \in [Nodes -> NodeState]
    BY <1>4 DEF Shared
  <1> HIDE DEF M
  <1>6. Tree(M)
    BY <1>4 DEF Tidy, Tree, Nodes
  <1>7. ASSUME NEW u \in Workspaces \ (W \ {w})
        PROVE  ArrangedAt(M, u)
    <2>1. OfWorkspace(M, u) = OfWorkspace(P, u)
      BY <1>2, <1>4 DEF OfWorkspace
    <2>2. CASE u = w
      BY <1>2, <1>3, <1>4, <2>1, <2>2 DEF ArrangedAt, OfWorkspace, size
    <2>3. CASE u # w
      <3>1. ArrangedAt(P, u)
        BY <2>3 DEF Tidy
      <3> QED BY <1>2, <1>3, <1>4, <2>1, <2>3, <3>1 DEF ArrangedAt, OfWorkspace
    <2> QED BY <2>2, <2>3
  <1> QED BY <1>4, <1>5, <1>6, <1>7 DEF Tidy, M

(***************************************************************************)
(* The operators of the tree, as steps of a handler.                        *)
(***************************************************************************)
\* They do not touch the transactions.
SameTransactions(S, T) ==
    /\ T.current = S.current /\ T.queued = S.queued /\ T.next = S.next
    /\ T.saved = S.saved /\ T.armed = S.armed

\* What is shown, in flight and held back is a matter of the transactions alone.
LEMMA SameLayouts ==
    ASSUME NEW S, NEW T, SameTransactions(S, T)
    PROVE  Flight(T) = Flight(S) /\ Goal(T) = Goal(S)
  BY DEF SameTransactions, Flight, Goal

\* A view that is on a workspace is alive, and so is the workspace.
LEMMA OnTreeLive ==
    ASSUME NEW S, Sane(S), NEW W, Tidy(S.pending, W),
           NEW v \in Views, NEW w \in Workspaces, S.pending[v].parent = w
    PROVE  S.life[v] = "live" /\ S.life[w] = "live" /\ v \in S.pending[w].kids
  <1>1. v \in Nodes /\ w \in Nodes /\ w # None
    BY TransactionAssumption DEF Nodes
  <1>2. v \in S.pending[w].kids
    BY DEF Tidy, Tree
  <1>3. S.life[v] # "none" /\ S.life[w] # "none"
    BY <1>1, <1>2 DEF Sane, Gone, Blank
  <1>4. S.life[v] # "destroying" /\ S.life[w] # "destroying"
    BY <1>1, <1>2 DEF Sane, Dying, Bare
  <1>5. S.life[v] \in {"none", "live", "destroying"} /\ S.life[w] \in {"none", "live", "destroying"}
    BY <1>1 DEF Sane, Good, StateType
  <1> QED BY <1>2, <1>3, <1>4, <1>5

\* Window management changes what it wants of some live nodes, and marks them.
Change(S, P, N) == NodesSetDirty([S EXCEPT !.pending = P], N)

\* A change of what is wanted of live nodes, marked dirty, leaves nothing untold.
LEMMA ChangeWorking ==
    ASSUME NEW S, Sane(S), Merged(S), NEW P \in [Nodes -> NodeState],
           NEW N \in SUBSET Nodes, NEW W, Tidy(P, W),
           \A n \in N : S.life[n] # "none",
           \A n \in Nodes : P[n] = S.pending[n] \/ (n \in N /\ S.life[n] = "live")
    PROVE  LET T == Change(S, P, N)
           IN  /\ Working(T, W) /\ SameTransactions(S, T)
               /\ T.pending = P /\ T.life = S.life /\ T.told = S.told
               /\ T.dirty = S.dirty \cup {n \in N : S.life[n] # "destroying"}
  <1> DEFINE T == Change(S, P, N)
  <1>1. Good(T)
    BY PendingGood, NodesSetDirtyGood DEF Sane, Change
  <1>2. /\ SameTransactions(S, T)
        /\ T.pending = P /\ T.life = S.life /\ T.told = S.told
        /\ T.dirty = S.dirty \cup {n \in N : S.life[n] # "destroying"}
    BY DEF Change, NodesSetDirty, Sane, Good, StateType, SameTransactions
  <1> HIDE DEF T
  <1>3. Flight(T) = Flight(S) /\ Goal(T) = Goal(S)
    BY <1>2, SameLayouts
  <1>4. Gone(T)
    BY <1>2 DEF Gone, Sane, SameTransactions
  <1>5. Dying(T)
    BY <1>2 DEF Dying, Sane
  <1>6. Fit(T)
    BY <1>2 DEF Fit, Sane, SameTransactions
  <1>7. Told(T)
    BY <1>2, <1>3 DEF Told, Sane, SameTransactions
  <1>8. Merged(T)
    BY <1>2, <1>3 DEF Merged
  <1>9. Tidy(T.current, {})
    BY <1>2 DEF Sane, SameTransactions
  <1> QED BY <1>1, <1>2, <1>3, <1>4, <1>5, <1>6, <1>7, <1>8, <1>9 DEF Working, Sane, T

\* More workspaces may be said to be unarranged than there are.
LEMMA WorkingMore ==
    ASSUME NEW S, NEW W, Working(S, W), NEW U, W \subseteq U
    PROVE  Working(S, U)
  BY DEF Working, Tidy

\* arrange_workspace settles the one workspace it is called for.
LEMMA ArrangeWorking ==
    ASSUME NEW S, NEW W, Working(S, W), NEW w \in Workspaces, S.life[w] # "none",
           NEW U, W \ {w} \subseteq U
    PROVE  LET T == Arrange(S, w)
           IN  /\ Working(T, U) /\ SameTransactions(S, T)
               /\ T.life = S.life
               /\ \A n \in Nodes : /\ T.pending[n].parent = S.pending[n].parent
                                   /\ T.pending[n].kids = S.pending[n].kids
  <1> DEFINE P == Shared(S.pending, w)
             N == {w} \cup S.pending[w].kids
  <1>1. S.pending \in [Nodes -> NodeState] /\ Tidy(S.pending, W)
    BY DEF Working, Sane, Good, StateType
  <1>2. w \in Nodes /\ S.pending[w].kids \subseteq Views /\ Views \subseteq Nodes
    BY <1>1 DEF Nodes, NodeState
  <1>3. \A v \in S.pending[w].kids : S.life[v] = "live"
    <2>1. \A v \in S.pending[w].kids : S.pending[v].parent = w
      BY <1>1, <1>2 DEF Tidy, Tree
    <2> QED BY <1>1, <1>2, <2>1, OnTreeLive DEF Working
  <1>4. Arrange(S, w) = Change(S, P, N)
    BY DEF Arrange, Arranged, Change, Shared
  <1>5. /\ P \in [Nodes -> NodeState] /\ Tidy(P, W \ {w})
        /\ \A n \in Nodes \ S.pending[w].kids : P[n] = S.pending[n]
        /\ \A n \in Nodes : /\ P[n].parent = S.pending[n].parent
                            /\ P[n].kids = S.pending[n].kids
    BY <1>1, SharedTidy
  <1> HIDE DEF P
  <1>6. N \in SUBSET Nodes /\ \A n \in N : S.life[n] # "none"
    BY <1>2, <1>3
  <1>7. \A n \in Nodes : P[n] = S.pending[n] \/ (n \in N /\ S.life[n] = "live")
    BY <1>3, <1>5
  <1> HIDE DEF N
  <1> DEFINE T == Change(S, P, N)
  <1>8. /\ Working(T, W \ {w}) /\ SameTransactions(S, T)
        /\ T.pending = P /\ T.life = S.life
    BY <1>5, <1>6, <1>7, ChangeWorking DEF Working
  <1> HIDE DEF T
  <1> QED BY <1>4, <1>5, <1>8, WorkingMore DEF T

\* container_detach of a view that is on a workspace.
LEMMA DetachWorking ==
    ASSUME NEW S, NEW W, Working(S, W), NEW v \in Views,
           NEW w \in Workspaces, S.pending[v].parent = w,
           NEW U, W \cup {w} \subseteq U
    PROVE  LET T == Detach(S, v)
           IN  /\ Working(T, U) /\ SameTransactions(S, T)
               /\ T.pending = Leave(S.pending, v) /\ T.life = S.life
               /\ T.told = S.told /\ T.dirty = S.dirty \cup {v, w}
               /\ Bare(T.pending[v]) /\ S.life[v] = "live" /\ S.life[w] = "live"
  <1> DEFINE P == Leave(S.pending, v)
             N == {v, w} \ {None}
  <1>1. S.pending \in [Nodes -> NodeState] /\ Tidy(S.pending, W)
    BY DEF Working, Sane, Good, StateType
  <1>2. N = {v, w} /\ N \in SUBSET Nodes /\ v \in Nodes
    BY TransactionAssumption DEF Nodes
  <1>3. S.life[v] = "live" /\ S.life[w] = "live"
    BY <1>1, OnTreeLive DEF Working
  <1>4. /\ P \in [Nodes -> NodeState] /\ Tidy(P, W \cup {w}) /\ Bare(P[v])
        /\ \A n \in Nodes \ {v, w} : P[n] = S.pending[n]
    BY <1>1, LeaveEffect, LeaveTidy
  <1>5. Detach(S, v) = Change(S, P, N)
    BY DEF Detach, Change
  <1> HIDE DEF P
  <1>6. \A n \in N : S.life[n] # "none"
    BY <1>2, <1>3
  <1>7. \A n \in Nodes : P[n] = S.pending[n] \/ (n \in N /\ S.life[n] = "live")
    BY <1>2, <1>3, <1>4
  <1>8. {n \in N : S.life[n] # "destroying"} = {v, w}
    BY <1>2, <1>3
  <1> HIDE DEF N
  <1> DEFINE T == Change(S, P, N)
  <1>9. /\ Working(T, W \cup {w}) /\ SameTransactions(S, T)
        /\ T.pending = P /\ T.life = S.life /\ T.told = S.told
        /\ T.dirty = S.dirty \cup {n \in N : S.life[n] # "destroying"}
    BY <1>2, <1>4, <1>6, <1>7, ChangeWorking DEF Working
  <1> HIDE DEF T
  <1> QED BY <1>3, <1>4, <1>5, <1>8, <1>9, WorkingMore DEF T, P

\* workspace_add_tiling and workspace_add_floating, of a live view that is on no
\* workspace, with the size it is given meanwhile.
Sized(P, v, s) == [P EXCEPT ![v].size = s]

\* workspace_add_tiling, workspace_add_floating: the workspace is to be arranged.
LEMMA AttachWorking ==
    ASSUME NEW S, NEW W, Working(S, W), NEW v \in Views, NEW w \in Workspaces,
           NEW s \in Sizes \cup {0}, S.pending[v].parent = None,
           S.life[v] = "live", S.life[w] = "live",
           NEW U, W \cup {w} \subseteq U
    PROVE  LET T == Attach([S EXCEPT !.pending = Sized(S.pending, v, s)], v, w)
           IN  /\ Working(T, U) /\ SameTransactions(S, T)
               /\ T.life = S.life /\ T.pending[v].parent = w
  <1> DEFINE E == Sized(S.pending, v, s)
             P == Join(E, v, w)
             N == {v, w}
             R == [S EXCEPT !.pending = E]
  <1>1. S.pending \in [Nodes -> NodeState] /\ Tidy(S.pending, W) /\ S \in StateType
    BY DEF Working, Sane, Good, StateType
  <1>2. N \in SUBSET Nodes /\ v \in Nodes /\ v # w
    BY TransactionAssumption DEF Nodes
  <1>3. /\ E \in [Nodes -> NodeState]
        /\ \A n \in Nodes : E[n].parent = S.pending[n].parent /\ E[n].kids = S.pending[n].kids
        /\ \A n \in Nodes \ {v} : E[n] = S.pending[n]
    BY <1>1, <1>2 DEF Sized, NodeState
  <1>4. Tidy(E, W)
    <2>1. Tree(E)
      BY <1>1, <1>3 DEF Tidy, Tree, Nodes
    <2>2. ASSUME NEW u \in Workspaces \ W PROVE ArrangedAt(E, u)
      <3>1. OfWorkspace(E, u) = OfWorkspace(S.pending, u)
        BY <1>3 DEF OfWorkspace, Nodes, Views
      <3>2. ArrangedAt(S.pending, u) /\ u # None
        BY <1>1, TransactionAssumption DEF Tidy, Nodes
      <3> QED BY <1>3, <3>1, <3>2 DEF ArrangedAt, Nodes, Views
    <2> QED BY <2>1, <2>2 DEF Tidy
  <1> HIDE DEF E
  <1>5. /\ P \in [Nodes -> NodeState] /\ Tidy(P, W \cup {w}) /\ P[v].parent = w
        /\ \A n \in Nodes \ {v, w} : P[n] = S.pending[n]
    <2>1. P \in [Nodes -> NodeState] /\ P[v].parent = w
      BY <1>2, <1>3, JoinEffect
    <2>2. E[v].parent = None
      BY <1>2, <1>3
    <2>3. /\ Tidy(P, W \cup {w})
          /\ \A n \in Nodes \ {v, w} : P[n] = E[n]
      BY <1>3, <1>4, <2>2, JoinTidy
    <2> QED BY <1>3, <2>1, <2>3
  <1>6. Attach(R, v, w) = Change(S, P, N)
    <2>1. R.pending = E /\ [R EXCEPT !.pending = P] = [S EXCEPT !.pending = P]
      BY <1>1 DEF StateType
    <2> HIDE DEF R
    <2> QED BY <2>1 DEF Attach, Change
  <1> HIDE DEF P, R
  <1>7. \A n \in N : S.life[n] # "none"
    BY <1>2
  <1>8. \A n \in Nodes : P[n] = S.pending[n] \/ (n \in N /\ S.life[n] = "live")
    BY <1>2, <1>5
  <1> HIDE DEF N
  <1> DEFINE T == Change(S, P, N)
  <1>9. /\ Working(T, W \cup {w}) /\ SameTransactions(S, T)
        /\ T.pending = P /\ T.life = S.life
    BY <1>2, <1>5, <1>7, <1>8, ChangeWorking DEF Working
  <1> HIDE DEF T
  <1> QED BY <1>5, <1>6, <1>9, WorkingMore DEF T, R, E

\* An object comes to life: workspace_create, view_create with view_map.
LEMMA LiveWorking ==
    ASSUME NEW S, NEW W, Working(S, W), NEW n \in Nodes, S.life[n] # "destroying"
    PROVE  LET T == [S EXCEPT !.life[n] = "live"]
           IN  /\ Working(T, W) /\ SameTransactions(S, T)
               /\ T.pending = S.pending
               /\ T.life[n] = "live"
               /\ \A m \in Nodes \ {n} : T.life[m] = S.life[m]
  <1> DEFINE life2 == [S.life EXCEPT ![n] = "live"]
             T == [S EXCEPT !.life = life2]
  <1>1. S \in StateType /\ Sane(S)
    BY DEF Working, Sane, Good
  <1>2. /\ life2 \in [Nodes -> {"none", "live", "destroying"}]
        /\ life2[n] = "live" /\ \A m \in Nodes \ {n} : life2[m] = S.life[m]
    BY <1>1 DEF StateType
  <1> HIDE DEF life2
  <1>3. /\ T \in StateType /\ SameTransactions(S, T)
        /\ T.pending = S.pending /\ T.life = life2 /\ T.dirty = S.dirty
        /\ T.told = S.told /\ T.refs = S.refs
    BY <1>1, <1>2 DEF StateType, SameTransactions
  <1> HIDE DEF T
  <1>4. Good(T)
    BY <1>1, <1>2, <1>3 DEF Sane, Good, Counted, Held, SameTransactions
  <1>5. Flight(T) = Flight(S) /\ Goal(T) = Goal(S)
    BY <1>3, SameLayouts
  <1>6. Gone(T) /\ Dying(T)
    BY <1>1, <1>2, <1>3 DEF Sane, Gone, Dying, SameTransactions
  <1>7. Fit(T)
    BY <1>1, <1>3 DEF Sane, Fit, SameTransactions
  <1>8. Told(T)
    <2> SUFFICES ASSUME NEW v \in Tiled
                 PROVE  /\ life2[v] = "live" => S.told[v] = Flight(S)[v].size
                        /\ life2[v] # "live" => S.told[v] = 0
                        /\ v \in S.next.nodes \ S.next.server =>
                             S.next.state[v].size = Flight(S)[v].size
      BY <1>3, <1>5 DEF Told, SameTransactions
    <2>1. v \in Nodes
      BY DEF Nodes, Views
    <2>2. /\ S.life[v] = "live" => S.told[v] = Flight(S)[v].size
          /\ S.life[v] # "live" => S.told[v] = 0
          /\ v \in S.next.nodes \ S.next.server =>
               S.next.state[v].size = Flight(S)[v].size
      BY <1>1 DEF Sane, Told
    <2>3. S.life[v] = "none" => Flight(S)[v].size = 0
      BY <1>1, <2>1 DEF Sane, Gone, Flight, Blank
    <2>4. S.life[v] \in {"none", "live", "destroying"}
      BY <1>1, <2>1 DEF StateType
    <2> QED BY <1>2, <2>1, <2>2, <2>3, <2>4
  <1>9. Merged(T)
    BY <1>3, <1>5 DEF Working, Merged
  <1>10. Tidy(T.current, {}) /\ Tidy(T.pending, W)
    BY <1>1, <1>3 DEF Working, Sane, SameTransactions
  <1>11. T = [S EXCEPT !.life[n] = "live"]
    BY DEF T, life2
  <1> QED BY <1>1, <1>2, <1>3, <1>4, <1>5, <1>6, <1>7, <1>8, <1>9, <1>10, <1>11
          DEF Working, Sane

\* An object that window management has no place for begins to die.
LEMMA DieWorking ==
    ASSUME NEW S, NEW W, Working(S, W), NEW n \in Nodes, NEW T, Good(T),
           SameTransactions(S, T), T.pending = S.pending, Bare(S.pending[n]),
           S.life[n] # "none", T.life = [S.life EXCEPT ![n] = "destroying"],
           S.dirty \subseteq T.dirty, T.dirty \subseteq S.dirty \cup {n},
           \A v \in Tiled : T.told[v] = IF v = n THEN 0 ELSE S.told[v]
    PROVE  Working(T, W)
  <1>1. S \in StateType /\ Sane(S)
    BY DEF Working, Sane, Good
  <1>2. T.life[n] = "destroying" /\ \A m \in Nodes \ {n} : T.life[m] = S.life[m]
    BY <1>1 DEF StateType
  <1>3. Flight(T) = Flight(S) /\ Goal(T) = Goal(S)
    BY SameLayouts
  <1>4. Gone(T) /\ Dying(T)
    BY <1>1, <1>2 DEF Sane, Gone, Dying, SameTransactions
  <1>5. Fit(T)
    BY <1>1 DEF Sane, Fit, SameTransactions
  <1>6. Told(T)
    BY <1>1, <1>2, <1>3 DEF Sane, Told, SameTransactions, Nodes, Views
  <1>7. Merged(T)
    BY <1>3 DEF Working, Merged
  <1>8. Tidy(T.current, {}) /\ Tidy(T.pending, W)
    BY <1>1 DEF Working, Sane, SameTransactions
  <1> QED BY <1>1, <1>3, <1>4, <1>5, <1>6, <1>7, <1>8 DEF Working, Sane

\* workspace_consider_destroy only marks a workspace without views.
LEMMA ConsiderDestroyWorking ==
    ASSUME NEW S, NEW W, Working(S, W), NEW w \in Workspaces, S.life[w] # "none",
           NEW keep \in BOOLEAN
    PROVE  LET T == ConsiderDestroy(S, w, keep)
           IN  /\ Working(T, W) /\ SameTransactions(S, T)
               /\ T.pending = S.pending
               /\ T.life[w] # "none"
               /\ T.life[w] = "destroying" =>
                    S.life[w] = "destroying" \/ S.pending[w].kids = {}
  <1> DEFINE D == NodesSetDirty(S, {w})
             K == [D EXCEPT !.life = [D.life EXCEPT ![w] = "destroying"]]
             T == ConsiderDestroy(S, w, keep)
  <1>1. S \in StateType /\ Sane(S) /\ Good(T) /\ w \in Nodes
    BY ConsiderDestroyGood DEF Working, Sane, Good, Nodes
  <1>2. T = S \/ (T = K /\ S.pending[w].kids = {})
    BY Zenon DEF ConsiderDestroy
  <1>3. CASE T = S
    BY <1>3 DEF SameTransactions
  <1>4. CASE T = K /\ S.pending[w].kids = {}
    <2>1. /\ D \in StateType
          /\ D.current = S.current /\ D.queued = S.queued /\ D.next = S.next
          /\ D.saved = S.saved /\ D.armed = S.armed
          /\ D.pending = S.pending /\ D.life = S.life /\ D.told = S.told
          /\ S.dirty \subseteq D.dirty /\ D.dirty \subseteq S.dirty \cup {w}
      BY <1>1 DEF NodesSetDirty, StateType
    <2> HIDE DEF D
    <2>2. /\ SameTransactions(S, K) /\ K.pending = S.pending
          /\ K.life = [S.life EXCEPT ![w] = "destroying"]
          /\ S.dirty \subseteq K.dirty /\ K.dirty \subseteq S.dirty \cup {w}
          /\ K.told = S.told
      BY <2>1 DEF StateType, SameTransactions
    <2>3. K.life[w] = "destroying"
      BY <1>1, <2>2 DEF StateType
    <2> HIDE DEF K
    <2>4. w \notin Tiled
      BY TransactionAssumption DEF Views
    <2>5. Bare(S.pending[w])
      BY <1>4 DEF Working, Tidy, Tree, Bare
    <2> HIDE DEF T
    <2>6. Working(K, W)
      BY <1>1, <1>4, <2>2, <2>4, <2>5, DieWorking
    <2> QED BY <1>4, <2>2, <2>3, <2>6 DEF T
  <1> HIDE DEF K
  <1> QED BY <1>2, <1>3, <1>4

\* container_begin_destroy, with the client of the view gone.
ClientGone(S, v) == [S EXCEPT !.conf[v] = <<>>, !.told[v] = 0]

\* container_begin_destroy leaves the workspace of the view to be arranged.
LEMMA BeginDestroyWorking ==
    ASSUME NEW S, NEW W, Working(S, W), NEW v \in Views,
           NEW w \in Workspaces, S.pending[v].parent = w,
           NEW U, W \cup {w} \subseteq U
    PROVE  LET T == BeginDestroy(ClientGone(S, v), v)
           IN  /\ Working(T, U) /\ SameTransactions(S, T)
               /\ T.life[w] = "live"
  <1> DEFINE N == [S EXCEPT !.conf[v] = <<>>, !.told[v] = 0]
             D == NodesSetDirty(N, {v})
             K == [D EXCEPT !.life = [D.life EXCEPT ![v] = "destroying"]]
             T == Detach(K, v)
             B == Detach(S, v)
  <1>1. S \in StateType /\ Sane(S) /\ v \in Nodes /\ w \in Nodes /\ v # w /\ w # None
    BY TransactionAssumption DEF Working, Sane, Good, Nodes
  <1>2. Good(T)
    <2>1. <<>> \in Confs
      BY DEF Confs
    <2>2. Good(N)
      BY <1>1, <2>1, ClientGood DEF Sane
    <2> HIDE DEF N
    <2> QED BY <2>2, BeginDestroyGood DEF BeginDestroy
  <1>3. /\ Working(B, U) /\ SameTransactions(S, B)
        /\ B.pending = Leave(S.pending, v) /\ B.life = S.life
        /\ B.told = S.told /\ B.dirty = S.dirty \cup {v, w}
        /\ Bare(B.pending[v]) /\ S.life[v] = "live" /\ S.life[w] = "live"
    BY DetachWorking
  <1> HIDE DEF B
  <1>4. /\ N.pending = S.pending /\ N.life = S.life /\ N.dirty = S.dirty
        /\ N.told = [S.told EXCEPT ![v] = 0] /\ SameTransactions(S, N)
        /\ N \in StateType
    <2>1. <<>> \in Confs
      BY DEF Confs
    <2>2. [S.conf EXCEPT ![v] = <<>>] \in [Views -> Confs]
      BY <1>1, <2>1 DEF StateType
    <2> QED BY <1>1, <2>2 DEF StateType, SameTransactions
  <1> HIDE DEF N
  <1>5. /\ D.pending = S.pending /\ D.life = S.life /\ D.dirty = S.dirty \cup {v}
        /\ D.told = [S.told EXCEPT ![v] = 0] /\ SameTransactions(S, D)
        /\ D \in StateType
    BY <1>1, <1>3, <1>4 DEF NodesSetDirty, StateType, SameTransactions
  <1> HIDE DEF D
  <1>6. /\ K.pending = S.pending /\ K.life = [S.life EXCEPT ![v] = "destroying"]
        /\ K.dirty = S.dirty \cup {v}
        /\ K.told = [S.told EXCEPT ![v] = 0] /\ SameTransactions(S, K)
        /\ K \in StateType
    BY <1>1, <1>5 DEF StateType, SameTransactions
  <1> HIDE DEF K
  <1>7. /\ T.pending = B.pending /\ T.life = K.life /\ T.dirty = B.dirty
        /\ T.told = K.told /\ SameTransactions(S, T)
    <2>1. {n \in {v, w} \ {None} : K.life[n] # "destroying"} = {w}
      BY <1>1, <1>3, <1>6 DEF StateType
    <2>2. T.dirty = K.dirty \cup {n \in {v, w} \ {None} : K.life[n] # "destroying"}
      BY <1>6 DEF Detach, NodesSetDirty, StateType
    <2>3. T.dirty = B.dirty
      BY <1>3, <1>6, <2>1, <2>2
    <2>4. /\ T.pending = Leave(K.pending, v) /\ T.life = K.life
          /\ T.told = K.told /\ SameTransactions(K, T)
      BY <1>6 DEF Detach, NodesSetDirty, StateType, SameTransactions
    <2> QED BY <1>3, <1>6, <2>3, <2>4 DEF SameTransactions
  <1>8. T = BeginDestroy(ClientGone(S, v), v)
    BY DEF BeginDestroy, ClientGone, N, D, K
  <1> HIDE DEF T
  <1>9. /\ T.life = [B.life EXCEPT ![v] = "destroying"] /\ T.life[w] = "live"
        /\ \A u \in Tiled : T.told[u] = IF u = v THEN 0 ELSE B.told[u]
    BY <1>1, <1>3, <1>6, <1>7 DEF StateType, Views
  <1>10. SameTransactions(B, T)
    BY <1>3, <1>7 DEF SameTransactions
  <1>11. Working(T, U)
    BY <1>1, <1>2, <1>3, <1>7, <1>9, <1>10, DieWorking
  <1> QED BY <1>7, <1>8, <1>9, <1>11

(***************************************************************************)
(* The actions.                                                             *)
(***************************************************************************)
LEMMA BecomeHere ==
    ASSUME NEW S \in StateType, Become(S)
    PROVE  Here' = S
  BY DEF Here, Become, StateType

\* What the operators need to know of the state a handler starts from.
LEMMA RestedType ==
    ASSUME NEW S, Rested(S)
    PROVE  S \in StateType /\ Good(S) /\ Working(S, {}) /\ S.pending = Goal(S)
  BY AgreedWorking DEF Rested, Agreed, Sane, Good

\* What every action leaves behind: transactions that agree with what is wanted,
\* and a step of the layouts.
Settles == Rested(Here') /\ Moves(Here, Here')

\* Only an empty queue is shown at once.
Patient == queued.nodes # {} => current' = current

\* A handler that ends in a commit, from a state whose changes are all dirty.
LEMMA CommitSettles ==
    ASSUME Rested(Here), NEW S, Working(S, {}), SameTransactions(Here, S),
           NEW b \in BOOLEAN,
           \/ S.dirty \subseteq AddDirty(S, b).next.server
           \/ \A v \in Tiled : S.pending[v].size = Goal(S)[v].size,
           Become(CommitDirty(S, b))
    PROVE  Settles /\ Patient
  <1> DEFINE T == CommitDirty(S, b)
  <1>1. Orderly(S) /\ ~Ready(S)
    BY DEF Rested, Orderly, Ready, SameTransactions
  <1>2. /\ Rested(T) /\ Moves(S, T)
        /\ S.queued.nodes # {} => T.current = S.current
    BY <1>1, CommitDirtyRested
  <1> HIDE DEF T
  <1>3. Here' = T
    BY <1>2, BecomeHere, RestedType DEF T
  <1>4. Flight(S) = Flight(Here)
    BY SameLayouts
  <1>5. Moves(Here, T)
    BY <1>2, <1>4 DEF Moves, SameTransactions
  <1>6. current' = Here'.current /\ S.queued = queued /\ S.current = current
    BY DEF Here, SameTransactions
  <1> QED BY <1>2, <1>3, <1>5, <1>6 DEF Settles, Patient

\* A commit of the server's own changes configures whom it resizes.
LEMMA ServerCommitSettles ==
    ASSUME Rested(Here), NEW S, Working(S, {}), SameTransactions(Here, S),
           Become(CommitDirty(S, TRUE))
    PROVE  Settles /\ Patient
  <1>1. S.dirty \subseteq AddDirty(S, TRUE).next.server
    BY ServerRequest DEF Working, Sane, Good
  <1> QED BY <1>1, CommitSettles

\* Steps that leave the transactions alone compose.
LEMMA SameTransactionsTrans ==
    ASSUME NEW S, NEW T, NEW U, SameTransactions(S, T), SameTransactions(T, U)
    PROVE  SameTransactions(S, U)
  BY DEF SameTransactions

\* A window opens.
LEMMA MapSettles ==
    ASSUME Rested(Here), NEW v \in Views, NEW w \in Workspaces, NEW s \in Sizes,
           Map(v, w, s)
    PROVE  Settles /\ Patient
  <1> DEFINE z == IF v \in Floating THEN s ELSE 0
             H == EnsureWorkspace(Here, w)
             E == [H EXCEPT !.life[v] = "live"]
             N == [H EXCEPT !.life[v] = "live", !.pending[v].size = z]
             T == Attach(N, v, w)
             A == Arrange(T, w)
  <1>1. /\ v \in Nodes /\ w \in Nodes /\ v # w /\ z \in Sizes \cup {0}
        /\ Here.life[v] = "none" /\ Here.life[w] # "destroying"
    BY TransactionAssumption DEF Map, Here, Nodes
  <1>2. Working(Here, {}) /\ Here.pending[v].parent = None
    <2>1. Working(Here, {})
      BY RestedType
    <2>2. Here.pending[v] = Blank
      BY <1>1, <2>1 DEF Working, Sane, Gone
    <2> QED BY <2>1, <2>2 DEF Blank
  <1> HIDE DEF z
  <1>3. /\ Working(H, {}) /\ SameTransactions(Here, H)
        /\ H.pending = Here.pending
        /\ H.life[w] = "live" /\ H.life[v] = "none"
    BY <1>1, <1>2, LiveWorking DEF EnsureWorkspace
  <1> HIDE DEF H
  <1>4. /\ Working(E, {}) /\ SameTransactions(H, E)
        /\ E.pending = H.pending
        /\ E.life[v] = "live" /\ E.life[w] = "live"
    BY <1>1, <1>3, LiveWorking
  <1>5. N = [E EXCEPT !.pending = Sized(E.pending, v, z)]
    BY DEF Sized
  <1> HIDE DEF E, N
  <1>6. /\ Working(T, {w}) /\ SameTransactions(E, T)
        /\ T.life[w] = "live"
    <2>1. E.pending[v].parent = None
      BY <1>2, <1>3, <1>4
    <2>2. {} \cup {w} \subseteq {w}
      OBVIOUS
    <2> QED BY <1>1, <1>4, <1>5, <2>1, <2>2, AttachWorking
  <1> HIDE DEF T
  <1>7. Working(A, {}) /\ SameTransactions(T, A)
    <2>1. {w} \ {w} \subseteq {}
      OBVIOUS
    <2> QED BY <1>6, <2>1, ArrangeWorking
  <1>8. Become(CommitDirty(A, TRUE))
    BY DEF Map, A, T, N, H, z
  <1> HIDE DEF A
  <1>9. SameTransactions(Here, A)
    BY <1>3, <1>4, <1>6, <1>7, SameTransactionsTrans
  <1> QED BY <1>7, <1>8, <1>9, ServerCommitSettles

\* A window is closed, and its workspace with it if it was the last.
LEMMA UnmapSettles ==
    ASSUME Rested(Here), LiveOnWorkspace, NEW v \in Views, NEW keep \in BOOLEAN,
           Unmap(v, keep)
    PROVE  Settles /\ Patient
  <1> DEFINE w == Here.pending[v].parent
             B == BeginDestroy(ClientGone(Here, v), v)
             C == ConsiderDestroy(B, w, keep)
             A == IF C.life[w] = "destroying" THEN C ELSE Arrange(C, w)
  <1>1. w \in Workspaces /\ w = pending[v].parent /\ Working(Here, {})
    BY RestedType DEF LiveOnWorkspace, Unmap, Here
  <1>2. Become(CommitDirty(A, TRUE))
    BY DEF Unmap, Here, ClientGone
  <1> HIDE DEF w
  <1>3. /\ Working(B, {w}) /\ SameTransactions(Here, B)
        /\ B.life[w] = "live"
    <2>1. {} \cup {w} \subseteq {w}
      OBVIOUS
    <2>2. Here.pending[v].parent = w
      BY DEF w
    <2> QED BY <1>1, <2>1, <2>2, BeginDestroyWorking
  <1> HIDE DEF B
  <1>4. /\ Working(C, {w}) /\ SameTransactions(B, C)
        /\ C.pending = B.pending /\ C.life[w] # "none"
        /\ C.life[w] = "destroying" => B.pending[w].kids = {}
    BY <1>1, <1>3, ConsiderDestroyWorking
  <1> HIDE DEF C
  <1>5. Working(A, {}) /\ SameTransactions(C, A)
    <2>1. CASE C.life[w] = "destroying"
      <3>1. OfWorkspace(C.pending, w) = {}
        BY <1>1, <1>4, <2>1 DEF Working, Tidy, Tree, OfWorkspace, Views
      <3>2. ArrangedAt(C.pending, w)
        BY <3>1 DEF ArrangedAt, OfWorkspace
      <3>3. Working(C, {})
        BY <1>4, <3>2 DEF Working, Tidy
      <3> QED BY <2>1, <3>3 DEF SameTransactions
    <2>2. CASE C.life[w] # "destroying"
      <3>1. {w} \ {w} \subseteq {}
        OBVIOUS
      <3> QED BY <1>1, <1>4, <2>2, <3>1, ArrangeWorking
    <2> QED BY <2>1, <2>2
  <1> HIDE DEF A
  <1>6. SameTransactions(Here, A)
    BY <1>3, <1>4, <1>5, SameTransactionsTrans
  <1> QED BY <1>2, <1>5, <1>6, ServerCommitSettles

\* A view moves to another workspace, and the old one may go.
LEMMA MoveToSettles ==
    ASSUME Rested(Here), LiveOnWorkspace, NEW v \in Views, NEW w \in Workspaces,
           NEW keep \in BOOLEAN, MoveTo(v, w, keep)
    PROVE  Settles /\ Patient
  <1> DEFINE old == Here.pending[v].parent
             H == EnsureWorkspace(Here, w)
             D == Detach(H, v)
             M == Attach(D, v, w)
             A == Arrange(M, old)
             B == Arrange(A, w)
             C == ConsiderDestroy(B, old, keep)
  <1>1. /\ old \in Workspaces /\ Working(Here, {}) /\ Here.pending = pending
        /\ Here.life[w] # "destroying" /\ w # old
        /\ v \in Nodes /\ w \in Nodes /\ v # w
    BY RestedType, TransactionAssumption DEF LiveOnWorkspace, MoveTo, Here, Nodes
  <1>2. Become(CommitDirty(C, TRUE))
    BY DEF MoveTo, Here
  <1>3. /\ Working(H, {}) /\ SameTransactions(Here, H)
        /\ H.pending = Here.pending /\ H.life[w] = "live"
    BY <1>1, LiveWorking DEF EnsureWorkspace
  <1> HIDE DEF H
  <1>4. /\ Working(D, {old}) /\ SameTransactions(H, D)
        /\ D.life = H.life /\ Bare(D.pending[v])
        /\ H.life[v] = "live" /\ H.life[old] = "live"
    <2>1. {} \cup {old} \subseteq {old} /\ H.pending[v].parent = old
      BY <1>3
    <2> HIDE DEF old
    <2> QED BY <1>1, <1>3, <2>1, DetachWorking
  <1> HIDE DEF D, old
  <1>5. /\ Working(M, {old, w}) /\ SameTransactions(D, M)
        /\ M.life = H.life
    <2>1. D.pending[v].size \in Sizes \cup {0} /\ D \in StateType
      BY <1>1, <1>4 DEF Working, Sane, Good, StateType, NodeState
    <2>2. Sized(D.pending, v, D.pending[v].size) = D.pending
      BY <1>1, <2>1 DEF Sized, StateType, NodeState
    <2>3. [D EXCEPT !.pending = D.pending] = D
      BY <2>1 DEF StateType
    <2>4. {old} \cup {w} \subseteq {old, w}
      OBVIOUS
    <2>5. D.pending[v].parent = None
      BY <1>4 DEF Bare
    <2>6. D.life[v] = "live" /\ D.life[w] = "live"
      BY <1>3, <1>4
    <2> DEFINE R == [D EXCEPT !.pending = Sized(D.pending, v, D.pending[v].size)]
    <2>7. R = D
      BY <2>2, <2>3
    <2>8. /\ Working(Attach(R, v, w), {old, w}) /\ SameTransactions(D, Attach(R, v, w))
          /\ Attach(R, v, w).life = D.life
      BY <1>4, <2>1, <2>4, <2>5, <2>6, AttachWorking
    <2> HIDE DEF R
    <2> QED BY <1>4, <2>7, <2>8
  <1> HIDE DEF M
  <1>6. Working(A, {w}) /\ SameTransactions(M, A) /\ A.life = H.life
    <2>1. {old, w} \ {old} \subseteq {w}
      BY <1>1
    <2> QED BY <1>1, <1>4, <1>5, <2>1, ArrangeWorking
  <1> HIDE DEF A
  <1>7. Working(B, {}) /\ SameTransactions(A, B) /\ B.life = H.life
    <2>1. {w} \ {w} \subseteq {}
      OBVIOUS
    <2> QED BY <1>3, <1>6, <2>1, ArrangeWorking
  <1> HIDE DEF B
  <1>8. Working(C, {}) /\ SameTransactions(B, C)
    BY <1>1, <1>4, <1>7, ConsiderDestroyWorking
  <1> HIDE DEF C
  <1>9. SameTransactions(Here, C)
    BY <1>3, <1>4, <1>5, <1>6, <1>7, <1>8, SameTransactionsTrans
  <1> QED BY <1>2, <1>8, <1>9, ServerCommitSettles

\* A client that chose a size itself was told it.
Chosen(S, v, s) == [S EXCEPT !.told[v] = s]

\* It does not matter whether it chose before or after it was marked dirty.
LEMMA DirtyAndChosen ==
    ASSUME NEW S \in StateType, NEW v \in Views, NEW s, NEW N
    PROVE  NodesSetDirty(Chosen(S, v, s), N) = Chosen(NodesSetDirty(S, N), v, s)
  <1> USE DEF Chosen
  <1> DEFINE T == [S EXCEPT !.told[v] = s]
             D == S.dirty \cup {n \in N : S.life[n] # "destroying"}
  <1>1. T.dirty = S.dirty /\ T.life = S.life
    BY DEF StateType
  <1>2. NodesSetDirty(T, N) = [T EXCEPT !.dirty = D]
    <2>1. {n \in N : T.life[n] # "destroying"} = {n \in N : S.life[n] # "destroying"}
      BY <1>1
    <2> HIDE DEF T
    <2> QED BY <1>1, <2>1 DEF NodesSetDirty
  <1>3. NodesSetDirty(S, N) = [S EXCEPT !.dirty = D]
    BY DEF NodesSetDirty
  <1> HIDE DEF D
  <1>4. [T EXCEPT !.dirty = D] = [[S EXCEPT !.dirty = D] EXCEPT !.told[v] = s]
    BY DEF StateType
  <1> QED BY <1>2, <1>3, <1>4

\* What is wanted of a live floating view itself changes.
LEMMA WantWorking ==
    ASSUME NEW S, NEW W, Working(S, W), NEW v \in Floating, S.life[v] = "live",
           NEW e \in NodeState,
           e.parent = S.pending[v].parent, e.kids = S.pending[v].kids
    PROVE  LET P == [S.pending EXCEPT ![v] = e]
               T == NodesSetDirty([S EXCEPT !.pending = P], {v})
           IN  /\ Working(T, W) /\ SameTransactions(S, T) /\ T.life = S.life
               /\ T.pending = P /\ T.told = S.told
  <1> DEFINE N == {v}
             P == [S.pending EXCEPT ![v] = e]
  <1>0. /\ P \in [Nodes -> NodeState] /\ \A n \in Nodes \ {v} : P[n] = S.pending[n]
        /\ P[v] = e
    BY DEF Working, Sane, Good, StateType, Nodes, Views
  <1> HIDE DEF P
  <1>1. v \in Nodes /\ N \in SUBSET Nodes /\ \A n \in N : S.life[n] # "none"
    BY DEF Nodes, Views
  <1>2. \A n \in Nodes : P[n].parent = S.pending[n].parent /\ P[n].kids = S.pending[n].kids
    BY <1>0
  <1>3. \A u \in Tiled : P[u].size = S.pending[u].size
    BY <1>0, TransactionAssumption DEF Nodes, Views
  <1>4. Tidy(P, W)
    BY <1>2, <1>3, TidySame DEF Working
  <1>5. \A n \in Nodes : P[n] = S.pending[n] \/ (n \in N /\ S.life[n] = "live")
    BY <1>0
  <1> HIDE DEF N
  <1> DEFINE T == Change(S, P, N)
  <1>6. /\ Working(T, W) /\ SameTransactions(S, T) /\ T.life = S.life
        /\ T.pending = P /\ T.told = S.told
    BY <1>0, <1>1, <1>4, <1>5, ChangeWorking DEF Working
  <1>7. T = NodesSetDirty([S EXCEPT !.pending = P], {v})
    BY DEF Change, N
  <1> HIDE DEF T
  <1> QED BY <1>6, <1>7 DEF P

\* A floating view is resized.
LEMMA ResizeSettles ==
    ASSUME Rested(Here), NEW v \in Floating, NEW s \in Sizes, Resize(v, s)
    PROVE  Settles /\ Patient
  <1> DEFINE e == [Here.pending[v] EXCEPT !.size = s]
             P == [Here.pending EXCEPT ![v] = e]
             S == NodesSetDirty([Here EXCEPT !.pending = P], {v})
  <1>1. Here \in StateType /\ Working(Here, {}) /\ v \in Nodes
    BY RestedType DEF Nodes, Views
  <1>2. /\ e \in NodeState
        /\ e.parent = Here.pending[v].parent /\ e.kids = Here.pending[v].kids
    <2>1. Here.pending[v] \in NodeState
      BY <1>1 DEF StateType
    <2> QED BY <2>1 DEF NodeState
  <1>3. Here.life[v] = "live"
    BY DEF Resize, Here
  <1>4. [Here EXCEPT !.pending = P] = [Here EXCEPT !.pending[v].size = s]
    OBVIOUS
  <1>5. Become(CommitDirty(S, TRUE))
    BY <1>4 DEF Resize
  <1> HIDE DEF e
  <1>6. Working(S, {}) /\ SameTransactions(Here, S)
    BY <1>1, <1>2, <1>3, WantWorking
  <1> HIDE DEF S
  <1> QED BY <1>5, <1>6, ServerCommitSettles

\* A view is minimized, or comes back.
LEMMA MinimizeSettles ==
    ASSUME Rested(Here), LiveOnWorkspace, NEW v \in Floating, Minimize(v)
    PROVE  Settles /\ Patient
  <1> DEFINE w == pending[v].parent
             h == ~Here.pending[v].hidden
             e == [Here.pending[v] EXCEPT !.hidden = h]
             P == [Here.pending EXCEPT ![v] = e]
             S == NodesSetDirty([Here EXCEPT !.pending = P], {v})
             A == Arrange(S, w)
  <1>1. Here \in StateType /\ Working(Here, {}) /\ v \in Nodes /\ v \in Views
    BY RestedType DEF Nodes, Views
  <1>2. w \in Workspaces /\ w = Here.pending[v].parent /\ Here.life[v] = "live"
    BY <1>1 DEF LiveOnWorkspace, Minimize, Here
  <1>3. [Here EXCEPT !.pending = P] = [Here EXCEPT !.pending[v].hidden = ~@]
    OBVIOUS
  <1>4. h \in BOOLEAN
    OBVIOUS
  <1>5. Become(CommitDirty(A, TRUE))
    BY <1>3 DEF Minimize
  <1> HIDE DEF h
  <1>6. /\ e \in NodeState
        /\ e.parent = Here.pending[v].parent /\ e.kids = Here.pending[v].kids
    <2>1. Here.pending[v] \in NodeState
      BY <1>1 DEF StateType
    <2> QED BY <1>4, <2>1 DEF NodeState
  <1> HIDE DEF e
  <1>7. Working(S, {}) /\ SameTransactions(Here, S) /\ S.life = Here.life
    BY <1>1, <1>2, <1>6, WantWorking
  <1> HIDE DEF S, w
  <1>8. Here.life[w] # "none"
    BY <1>1, <1>2, OnTreeLive DEF Working
  <1>9. Working(A, {}) /\ SameTransactions(S, A)
    <2>1. {} \ {w} \subseteq {}
      OBVIOUS
    <2> QED BY <1>2, <1>7, <1>8, <2>1, ArrangeWorking
  <1> HIDE DEF A
  <1>10. SameTransactions(Here, A)
    BY <1>7, <1>9, SameTransactionsTrans
  <1> QED BY <1>5, <1>9, <1>10, ServerCommitSettles

\* A node is marked dirty, and the commit left to another handler.
LEMMA TouchSettles ==
    ASSUME Rested(Here), NEW n \in Nodes, Touch(n)
    PROVE  Settles /\ Patient
  <1> DEFINE N == {n}
             P == Here.pending
             S == Change(Here, P, N)
  <1>1. /\ Here \in StateType /\ Working(Here, {}) /\ P = Goal(Here)
        /\ Here.life[n] = "live"
    BY RestedType DEF Touch, Here
  <1>2. Become(S)
    BY DEF Touch, Change, Here
  <1> HIDE DEF P
  <1>3. /\ N \in SUBSET Nodes /\ \A m \in N : Here.life[m] # "none"
        /\ P \in [Nodes -> NodeState] /\ Tidy(P, {})
        /\ \A m \in Nodes : P[m] = Here.pending[m] \/ (m \in N /\ Here.life[m] = "live")
    BY <1>1 DEF P, StateType, Working
  <1> HIDE DEF N
  <1>4. Working(S, {}) /\ SameTransactions(Here, S) /\ S.pending = P
    BY <1>1, <1>3, ChangeWorking DEF Working
  <1> HIDE DEF S
  <1>5. Flight(S) = Flight(Here) /\ Goal(S) = Goal(Here)
    BY <1>4, SameLayouts
  <1>6. Rested(S)
    BY <1>1, <1>4, <1>5 DEF Rested, Agreed, Working, Orderly, Ready, SameTransactions
  <1>7. Moves(Here, S)
    BY <1>4, <1>5 DEF Moves, SameTransactions
  <1>8. Here' = S
    BY <1>2, <1>6, BecomeHere, RestedType
  <1>9. current' = Here'.current /\ S.current = current
    BY <1>4 DEF Here, SameTransactions
  <1> QED BY <1>6, <1>7, <1>8, <1>9 DEF Settles, Patient

\* The timer shows what was in flight, whoever has not answered.
LEMMA TimeoutSettles ==
    ASSUME Rested(Here), HandleTimeout
    PROVE  Settles
  <1> DEFINE T == Progress([Here EXCEPT !.queued.left = 0])
  <1>1. Here.queued.nodes # {} /\ Become(T)
    BY DEF HandleTimeout, Here
  <1>2. Rested(T) /\ Moves(Here, T)
    BY <1>1, TimeoutRested
  <1> HIDE DEF T
  <1>3. Here' = T
    BY <1>1, <1>2, BecomeHere, RestedType
  <1> QED BY <1>2, <1>3 DEF Settles

\* A client's commit: a size of its own, then the answer to a configure.  The
\* layout in flight is shown only if the answer was the last one waited for.
LEMMA ClientCommitSettles ==
    ASSUME Rested(Here), NEW v \in Views, NEW s \in Sizes,
           NEW k \in 0..Len(conf[v]), ClientCommit(v, k, s)
    PROVE  /\ Settles
           /\ current' # current /\ queued.nodes # {} =>
                k > 0 /\ conf[v][k].txn /\ queued.waiting \cap armed = {v}
  <1> DEFINE left == SubSeq(conf[v], k + 1, Len(conf[v]))
             acked == [Here EXCEPT !.conf[v] = left]
             newSize == /\ v \in Floating /\ s # geometry[v]
                        /\ ~AwaitsConfigure(v, left)
             e == [acked.pending[v] EXCEPT !.size = s]
             P == [acked.pending EXCEPT ![v] = e]
             wanted == NodesSetDirty([acked EXCEPT !.pending = P], {v})
             chosen == [acked EXCEPT !.pending[v].size = s, !.told[v] = s]
             resized == NodesSetDirty(chosen, {v})
             answered == IF current[v].size = 0 THEN resized
                         ELSE [resized EXCEPT
                                 !.conf[v] = Append(resized.conf[v],
                                               [size |-> s, txn |-> FALSE])]
             S == IF newSize THEN CommitDirty(answered, FALSE) ELSE acked
             bySerial == v \in armed /\ k > 0 /\ conf[v][k].txn
             D == IF bySerial THEN SetReady(S, v) ELSE S
  <1>1. Here \in StateType /\ Good(Here) /\ Working(Here, {}) /\ Here.pending = Goal(Here)
    BY RestedType
  <1>2. left \in Confs
    <2>1. conf[v] \in Seq(Configures)
      BY <1>1 DEF StateType, Here, Confs
    <2>2. Len(conf[v]) \in Nat /\ k + 1 \in 1..Len(conf[v]) + 1
      BY <2>1
    <2> QED BY <2>1, <2>2 DEF Confs
  <1>3. Become(D)
    BY DEF ClientCommit
  <1>4. Here.life[v] = "live" /\ (newSize => v \in Floating)
    BY DEF ClientCommit, Here
  <1> HIDE DEF left, newSize, bySerial
  <1>5. Good(acked) /\ Alike(Here, acked)
    <2>1. Good(acked)
      <3>1. acked \in StateType
        BY <1>1, <1>2 DEF StateType
      <3>2. Counted(acked)
        BY <1>1 DEF Good, StateType, Counted, Held
      <3> QED BY <3>1, <3>2 DEF Good
    <2>2. Alike(Here, acked)
      BY <1>1 DEF Alike, StateType
    <2> QED BY <2>1, <2>2
  <1> HIDE DEF acked
  <1>6. Working(acked, {}) /\ SameTransactions(Here, acked) /\ acked.pending = Goal(acked)
    <2>1. Sane(acked) /\ Goal(acked) = Goal(Here)
      BY <1>1, <1>5, AlikeSane DEF Working
    <2> QED BY <1>1, <1>5, <2>1 DEF Working, Merged, Alike, SameTransactions
  <1>7. Rested(acked) /\ Moves(Here, acked)
    <2>1. Rested(acked)
      BY <1>6 DEF Rested, Agreed, Working, Orderly, Ready, SameTransactions
    <2>2. Flight(acked) = Flight(Here)
      BY <1>6, SameLayouts
    <2>3. Moves(Here, acked)
      BY <1>6, <2>2 DEF Moves, SameTransactions
    <2> QED BY <2>1, <2>3
  <1>8. ASSUME newSize
        PROVE  /\ Working(answered, {}) /\ SameTransactions(Here, answered)
               /\ \A u \in Tiled : answered.pending[u].size = Goal(answered)[u].size
    <2>1. v \in Floating /\ v \in Nodes /\ acked \in StateType
      BY <1>4, <1>5, <1>8 DEF Nodes, Views, Good
    <2>2. acked.life[v] = "live"
      BY <1>4, <1>5 DEF Alike
    <2>3. chosen = [[acked EXCEPT !.pending = P] EXCEPT !.told[v] = s]
      BY DEF P, e
    <2>4. /\ e \in NodeState
          /\ e.parent = acked.pending[v].parent /\ e.kids = acked.pending[v].kids
      <3>1. acked.pending[v] \in NodeState
        BY <2>1 DEF StateType
      <3> QED BY <3>1 DEF NodeState
    <2> HIDE DEF e
    <2>5. /\ Working(wanted, {}) /\ SameTransactions(acked, wanted)
          /\ wanted.pending = P
      BY <1>6, <2>1, <2>2, <2>4, WantWorking
    <2>6. resized = [wanted EXCEPT !.told[v] = s]
      <3>1. P \in [Nodes -> NodeState]
        BY <2>1, <2>4 DEF StateType
      <3> DEFINE A == [acked EXCEPT !.pending = P]
      <3>2. A \in StateType
        BY <2>1, <3>1 DEF StateType
      <3>3. chosen = [A EXCEPT !.told[v] = s] /\ wanted = NodesSetDirty(A, {v})
        BY <2>3
      <3> HIDE DEF A, wanted, chosen
      <3>4. NodesSetDirty(Chosen(A, v, s), {v}) = Chosen(NodesSetDirty(A, {v}), v, s)
        BY <3>2, DirtyAndChosen
      <3> QED BY <3>3, <3>4 DEF Chosen
    <2>7. \A u \in Tiled : P[u] = acked.pending[u]
      BY <2>1, TransactionAssumption DEF StateType, Nodes, Views
    <2> HIDE DEF wanted, P, chosen, resized
    <2>8. Good(resized) /\ Alike(wanted, resized)
      <3>1. wanted \in StateType /\ Counted(wanted)
        BY <2>5 DEF Working, Sane, Good
      <3>2. resized \in StateType
        BY <2>6, <3>1 DEF StateType
      <3>3. Alike(wanted, resized)
        BY <2>1, <2>6, <3>1, TransactionAssumption DEF Alike, StateType
      <3>4. Counted(resized)
        BY <2>6, <3>1 DEF Counted, Held, StateType
      <3> QED BY <3>2, <3>3, <3>4 DEF Good
    <2>9. Good(answered) /\ Alike(resized, answered)
      <3>1. resized \in StateType /\ resized.conf[v] \in Confs
        BY <2>8 DEF Good, StateType
      <3>2. Append(resized.conf[v], [size |-> s, txn |-> FALSE]) \in Confs
        BY <3>1 DEF Confs, Configures
      <3>3. Good(answered)
        BY <2>8, <3>2, ClientGood
      <3>4. Alike(resized, answered)
        BY <3>1 DEF Alike, StateType
      <3> QED BY <3>3, <3>4
    <2> HIDE DEF answered
    <2>10. Alike(wanted, answered)
      BY <2>8, <2>9 DEF Alike
    <2>11. Sane(answered) /\ Goal(answered) = Goal(wanted)
      BY <2>5, <2>9, <2>10, AlikeSane DEF Working
    <2>12. Working(answered, {}) /\ SameTransactions(wanted, answered)
           /\ answered.pending = P
      BY <2>5, <2>10, <2>11 DEF Working, Merged, Alike, SameTransactions
    <2>13. Goal(answered) = acked.pending
      BY <1>6, <2>5, <2>11, SameLayouts
    <2> QED BY <1>6, <2>5, <2>7, <2>12, <2>13, SameTransactionsTrans
  <1> HIDE DEF answered
  <1>9. /\ Rested(S) /\ Moves(Here, S)
        /\ queued.nodes # {} =>
             S.current = current /\ S.queued = queued /\ S.armed = armed
    <2>1. CASE newSize
      <3>1. S = CommitDirty(answered, FALSE)
        BY <2>1
      <3>2. Orderly(answered) /\ ~Ready(answered)
        BY <1>8, <2>1 DEF Rested, Orderly, Ready, SameTransactions
      <3>3. /\ Rested(S) /\ Moves(answered, S)
            /\ answered.queued.nodes # {} =>
                 /\ S.current = answered.current /\ S.queued = answered.queued
                 /\ S.armed = answered.armed
        BY <1>8, <2>1, <3>1, <3>2, CommitDirtyRested
      <3> HIDE DEF S
      <3>4. Flight(answered) = Flight(Here)
        BY <1>8, <2>1, SameLayouts
      <3>5. Moves(Here, S)
        BY <1>8, <2>1, <3>3, <3>4 DEF Moves, SameTransactions
      <3> QED BY <1>8, <2>1, <3>3, <3>5 DEF SameTransactions, Here
    <2>2. CASE ~newSize
      BY <1>6, <1>7, <2>2 DEF SameTransactions, Here
    <2> QED BY <2>1, <2>2
  <1> HIDE DEF S
  <1>10. CASE bySerial
    <2>1. v \in armed /\ k > 0 /\ conf[v][k].txn
      BY <1>10, Zenon DEF bySerial
    <2>2. queued.nodes # {}
      BY <1>1, <2>1 DEF Working, Sane, Fit, Here
    <2>3. /\ Rested(D) /\ Moves(S, D)
          /\ D.current # S.current => S.queued.waiting \cap S.armed = {v}
      BY <1>9, <1>10, <2>1, <2>2, SetReadyRested
    <2> HIDE DEF D
    <2>4. Here' = D
      BY <1>3, <2>3, BecomeHere, RestedType
    <2>5. S.current = Here.current /\ Flight(S) = Flight(Here)
      BY <1>9, <2>2 DEF Flight, Here
    <2>6. Moves(Here, D)
      BY <2>3, <2>5 DEF Moves
    <2>7. current' = D.current
      BY <2>4 DEF Here
    <2>8. current' # current => queued.waiting \cap armed = {v}
      BY <1>9, <2>2, <2>3, <2>7
    <2>9. Settles
      BY <2>3, <2>4, <2>6 DEF Settles
    <2> QED BY <2>1, <2>8, <2>9, Zenon
  <1>11. CASE ~bySerial
    <2>1. D = S
      BY <1>11
    <2> HIDE DEF D
    <2>2. Here' = S
      BY <1>3, <1>9, <2>1, BecomeHere, RestedType
    <2>3. current' = S.current
      BY <2>2 DEF Here
    <2>4. Settles
      BY <1>9, <2>2 DEF Settles
    <2>5. queued.nodes # {} => current' = current
      BY <1>9, <2>3
    <2> QED BY <2>4, <2>5
  <1> QED BY <1>10, <1>11

(***************************************************************************)
(* The inductive invariant of the layouts, and its theorems.                *)
(***************************************************************************)
Settled == Inv /\ Rested(Here)

\* Nothing is there at first.
LEMMA InitSettled == Init => Settled
  <1> SUFFICES ASSUME Init PROVE Rested(Here)
    BY InitInv DEF Settled
  <1> DEFINE blank == [n \in Nodes |-> Blank]
             S == Here
  <1>1. /\ Good(S) /\ S.pending = blank /\ S.current = blank
        /\ S.queued = NoTxn /\ S.next = NoTxn /\ S.saved = {} /\ S.armed = {}
        /\ S.dirty = {} /\ S.life = [n \in Nodes |-> "none"]
        /\ S.told = [v \in Views |-> 0]
    BY InitCountInv DEF Init, Here, CountInv
  <1> HIDE DEF S
  <1>2. S.queued.nodes = {} /\ S.next.nodes = {} /\ S.queued.left = 0
        /\ S.queued.waiting = {}
    BY <1>1 DEF NoTxn
  <1>3. Flight(S) = blank /\ Goal(S) = blank
    BY <1>1, <1>2 DEF Flight, Goal
  <1>4. \A n \in Nodes : blank[n] = Blank
    OBVIOUS
  <1> HIDE DEF blank
  <1>5. Tidy(blank, {})
    <2>1. Tree(blank)
      BY <1>4, TransactionAssumption DEF Tree, Blank, Nodes
    <2>2. \A w \in Workspaces : ArrangedAt(blank, w)
      BY <1>4, TransactionAssumption DEF ArrangedAt, Blank, Nodes, Views
    <2> QED BY <2>1, <2>2 DEF Tidy
  <1>6. Gone(S) /\ Dying(S)
    BY <1>1, <1>2, <1>4 DEF Gone, Dying
  <1>7. Fit(S)
    BY <1>1, <1>2 DEF Fit
  <1>8. Told(S)
    BY <1>1, <1>2, <1>3, <1>4 DEF Told, Nodes, Views, Blank
  <1>9. Rested(S)
    BY <1>1, <1>2, <1>3, <1>5, <1>6, <1>7, <1>8
       DEF Rested, Agreed, Sane, Orderly, Ready
  <1> QED BY <1>9 DEF S

\* Every step keeps the transactions in agreement and is a step of the layouts.
LEMMA NextSettles == Settled /\ [Next]_vars => Settles
  <1> SUFFICES ASSUME LiveOnWorkspace, Rested(Here), [Next]_vars
               PROVE  Settles
    BY DEF Settled, Inv
  <1>1. ASSUME NEW v \in Views, NEW w \in Workspaces, NEW s \in Sizes, Map(v, w, s)
        PROVE  Settles
    BY <1>1, MapSettles
  <1>2. ASSUME NEW v \in Views, NEW keep \in BOOLEAN, Unmap(v, keep)
        PROVE  Settles
    BY <1>2, UnmapSettles
  <1>3. ASSUME NEW v \in Views, NEW w \in Workspaces, NEW keep \in BOOLEAN,
               MoveTo(v, w, keep)
        PROVE  Settles
    BY <1>3, MoveToSettles
  <1>4. ASSUME NEW v \in Floating, NEW s \in Sizes, Resize(v, s)
        PROVE  Settles
    BY <1>4, ResizeSettles
  <1>5. ASSUME NEW v \in Floating, Minimize(v) PROVE Settles
    BY <1>5, MinimizeSettles
  <1>6. ASSUME NEW n \in Nodes, Touch(n) PROVE Settles
    BY <1>6, TouchSettles
  <1>7. ASSUME NEW v \in Views, NEW s \in Sizes, NEW k \in 0..Len(conf[v]),
               ClientCommit(v, k, s)
        PROVE  Settles
    BY <1>7, ClientCommitSettles
  <1>8. ASSUME HandleTimeout PROVE Settles
    BY <1>8, TimeoutSettles
  <1>9. ASSUME UNCHANGED vars PROVE Settles
    <2>1. Here' = Here
      BY <1>9 DEF vars, Here
    <2> QED BY <2>1 DEF Settles, Moves
  <1> QED BY <1>1, <1>2, <1>3, <1>4, <1>5, <1>6, <1>7, <1>8, <1>9 DEF Next

\* The invariant is inductive.
LEMMA NextSettled == Settled /\ [Next]_vars => Settled'
  BY NextInv, NextSettles DEF Settled, Settles

\* What the invariant says of the variables.
LEMMA SettledMeans ==
    ASSUME Settled
    PROVE  /\ Here \in StateType /\ Gone(Here) /\ Fit(Here) /\ Told(Here)
           /\ Tidy(current, {}) /\ Tidy(Flight(Here), {}) /\ Tidy(pending, {})
           /\ Tidy(Goal(Here), {}) /\ pending = Goal(Here)
           /\ Orderly(Here) /\ ~Ready(Here)
  BY DEF Settled, Rested, Agreed, Sane, Good, Here

\* No layout that holds an object that is not there refers to it.
LEMMA TreeRefers ==
    ASSUME NEW L, Tree(L), NEW n \in Nodes, L[n] = Blank, NEW m \in Nodes,
           L[m].parent \in Workspaces \cup {None}, L[m].kids \subseteq Views,
           n \in References(L[m])
    PROVE  FALSE
  <1>1. CASE m \in Views
    BY <1>1, TransactionAssumption DEF References, Tree, Blank, Nodes
  <1>2. CASE m \in Workspaces
    BY <1>2, TransactionAssumption DEF References, Tree, Blank, Nodes
  <1> QED BY <1>1, <1>2 DEF Nodes

\* Neither a transaction nor a state that is shown or will be refers to an
\* object that was freed.
LEMMA NothingDangles == Settled => NoDanglingNode
  <1> SUFFICES ASSUME Settled PROVE NoDanglingNode
    OBVIOUS
  <1>1. /\ Here \in StateType /\ Gone(Here) /\ Fit(Here)
        /\ Tree(current) /\ Tree(Flight(Here)) /\ Tree(pending)
        /\ pending = Goal(Here)
    BY SettledMeans DEF Tidy
  <1>2. /\ current \in [Nodes -> NodeState] /\ pending \in [Nodes -> NodeState]
        /\ Flight(Here) \in [Nodes -> NodeState]
    BY <1>1, LayoutType DEF StateType, Here
  <1>3. /\ dirty \subseteq Nodes /\ queued.nodes \subseteq Nodes
        /\ next.nodes \subseteq Nodes /\ armed \subseteq queued.nodes
    BY <1>1 DEF StateType, Here, Transactions, Fit
  <1>4. ASSUME NEW n \in Nodes, life[n] = "none"
        PROVE  /\ n \notin dirty \cup queued.nodes \cup next.nodes
               /\ pending[n] = Blank /\ current[n] = Blank
               /\ Flight(Here)[n] = Blank
    <2>1. /\ n \notin dirty \cup queued.nodes \cup next.nodes
          /\ pending[n] = Blank /\ current[n] = Blank
      BY <1>1, <1>4 DEF Gone, Here
    <2> QED BY <2>1 DEF Flight, Here
  <1>5. /\ \A m \in queued.nodes : queued.state[m] = Flight(Here)[m]
        /\ \A m \in next.nodes : next.state[m] = pending[m]
    <2>1. \A m \in queued.nodes : queued.state[m] = Flight(Here)[m]
      BY <1>3 DEF Flight, Here
    <2>2. \A m \in next.nodes : next.state[m] = Goal(Here)[m]
      BY <1>3 DEF Goal, Here
    <2> QED BY <1>1, <2>1, <2>2
  <1>6. ASSUME NEW n \in Nodes, life[n] = "none", NEW m \in Nodes
        PROVE  /\ n \notin References(current[m]) /\ n \notin References(pending[m])
               /\ n \notin References(Flight(Here)[m])
    <2>1. /\ current[m] \in NodeState /\ pending[m] \in NodeState
          /\ Flight(Here)[m] \in NodeState
      BY <1>2
    <2>2. n \notin References(current[m])
      BY <1>1, <1>4, <1>6, <2>1, TreeRefers DEF NodeState
    <2>3. n \notin References(pending[m])
      BY <1>1, <1>4, <1>6, <2>1, TreeRefers DEF NodeState
    <2>4. n \notin References(Flight(Here)[m])
      BY <1>1, <1>4, <1>6, <2>1, TreeRefers DEF NodeState
    <2> QED BY <2>2, <2>3, <2>4
  <1>7. \A m \in Nodes : References(current[m]) \cup References(pending[m])
                           \cup References(Flight(Here)[m]) \subseteq Nodes \cup {None}
    BY <1>2 DEF References, NodeState, Nodes
  <1> DEFINE inUse == dirty \cup queued.nodes \cup next.nodes \cup armed
                 \cup (UNION {References(current[n]) : n \in Nodes})
                 \cup (UNION {References(pending[n]) : n \in Nodes})
                 \cup (UNION {References(queued.state[n]) : n \in queued.nodes})
                 \cup (UNION {References(next.state[n]) : n \in next.nodes})
  <1>8. ASSUME NEW n \in inUse \ {None} PROVE life[n] # "none"
    <2>1. CASE n \in dirty \cup queued.nodes \cup next.nodes \cup armed
      BY <1>3, <1>4, <2>1
    <2>2. CASE \E m \in Nodes : \/ n \in References(current[m])
                                \/ n \in References(pending[m])
                                \/ n \in References(Flight(Here)[m])
      BY <1>6, <1>7, <1>8, <2>2
    <2>3. CASE \E m \in queued.nodes : n \in References(queued.state[m])
      BY <1>3, <1>5, <1>6, <1>7, <1>8, <2>3
    <2>4. CASE \E m \in next.nodes : n \in References(next.state[m])
      BY <1>3, <1>5, <1>6, <1>7, <1>8, <2>4
    <2> QED BY <1>8, <2>1, <2>2, <2>3, <2>4
  <1> QED BY <1>8 DEF NoDanglingNode

\* The trees that are drawn are trees of objects that are there.
THEOREM TreesAreSound == Spec => []TreesSound
  <1>1. ASSUME Settled PROVE CurrentTreeConsistent
    BY <1>1, SettledMeans DEF Tidy, Tree, CurrentTreeConsistent
  <1>2. Settled => TreesSound
    BY <1>1, NothingDangles DEF TreesSound
  <1> QED BY InitSettled, NextSettled, <1>2, PTL DEF Spec

\* Whatever is merged, applied, timed out or freed, what window management wants
\* of a node is what the transactions will have shown once they are applied.
THEOREM NothingIsLost == Spec => []NothingLost
  <1>1. ASSUME Settled PROVE NothingLost
    <2>1. pending = Goal(Here)
      BY <1>1, SettledMeans
    <2>2. \A n \in Nodes : Goal(Here)[n] = Eventual(n)
      BY DEF Goal, Flight, Here, Eventual
    <2> QED BY <2>1, <2>2 DEF NothingLost
  <1> QED BY InitSettled, NextSettled, <1>1, PTL DEF Spec

\* A tiled view is not shown at a size its client never heard of, whichever of the
\* transactions that resized it was superseded before its client was configured.
THEOREM ClientsKnowTheirSize == Spec => []ClientKnowsSize
  <1>1. ASSUME Settled PROVE ClientKnowsSize
    <2>1. Told(Here)
      BY <1>1, SettledMeans
    <2>2. \A v \in Tiled : v \in Nodes
      BY DEF Nodes, Views
    <2> QED BY <2>1, <2>2 DEF Told, Flight, Here, ClientKnowsSize
  <1> QED BY InitSettled, NextSettled, <1>1, PTL DEF Spec

\* num_waiting is the number of views that are waited for, it is not zero while
\* a transaction is in flight, and none is frozen without one.
THEOREM WaitingIsCounted == Spec => []WaitingCounted
  <1>1. ASSUME Settled PROVE WaitingCounted
    <2>1. Here \in StateType /\ Fit(Here) /\ Orderly(Here) /\ ~Ready(Here)
      BY <1>1, SettledMeans
    <2>2. queued.left \in Nat
      BY <2>1 DEF StateType, Transactions, Here
    <2>3. queued.nodes # {} => queued.left > 0
      BY <2>1, <2>2 DEF Ready, Here
    <2>4. /\ armed \subseteq queued.nodes /\ queued.waiting \subseteq saved
          /\ next.nodes # {} => queued.nodes # {}
      BY <2>1 DEF Fit, Orderly, Here
    <2>5. saved \subseteq queued.nodes
      BY <2>1, <2>4 DEF Fit, Here
    <2>6. queued.left = Cardinality(queued.waiting \cap armed)
      <3>1. CASE queued.nodes = {}
        <4>1. queued.waiting = {} /\ queued.left = 0
          BY <2>1, <3>1 DEF Fit, Here
        <4>2. Cardinality({}) = 0 /\ queued.waiting \cap armed = {}
          BY <4>1, FS_EmptySet
        <4> QED BY <4>1, <4>2
      <3>2. CASE queued.nodes # {}
        BY <2>1, <2>2, <2>3, <3>2 DEF Fit, Here
      <3> QED BY <3>1, <3>2
    <2> QED BY <2>3, <2>4, <2>5, <2>6 DEF WaitingCounted
  <1> QED BY InitSettled, NextSettled, <1>1, PTL DEF Spec

\* What is shown changes while views are waited for in two cases only: the timer
\* ran out, or the view that acknowledged was the last of them.
THEOREM AppliesWhenReady == Spec => AppliedWhenReady
  <1> DEFINE A == current' # current /\ queued.nodes # {}
        => \/ HandleTimeout
           \/ \E v \in Views, s \in Sizes : \E k \in 1..Len(conf[v]) :
                /\ ClientCommit(v, k, s) /\ conf[v][k].txn
                /\ queued.waiting \cap armed = {v}
  <1>1. Settled /\ [Next]_vars => [A]_vars
    <2> SUFFICES ASSUME LiveOnWorkspace, Rested(Here), [Next]_vars,
                        current' # current, queued.nodes # {}, ~HandleTimeout
                 PROVE  A
      BY DEF Settled, Inv
    <2>1. ASSUME NEW v \in Views, NEW w \in Workspaces, NEW s \in Sizes, Map(v, w, s)
          PROVE  FALSE
      BY <2>1, MapSettles DEF Patient
    <2>2. ASSUME NEW v \in Views, NEW keep \in BOOLEAN, Unmap(v, keep)
          PROVE  FALSE
      BY <2>2, UnmapSettles DEF Patient
    <2>3. ASSUME NEW v \in Views, NEW w \in Workspaces, NEW keep \in BOOLEAN,
                 MoveTo(v, w, keep)
          PROVE  FALSE
      BY <2>3, MoveToSettles DEF Patient
    <2>4. ASSUME NEW v \in Floating, NEW s \in Sizes, Resize(v, s)
          PROVE  FALSE
      BY <2>4, ResizeSettles DEF Patient
    <2>5. ASSUME NEW v \in Floating, Minimize(v) PROVE FALSE
      BY <2>5, MinimizeSettles DEF Patient
    <2>6. ASSUME NEW n \in Nodes, Touch(n) PROVE FALSE
      BY <2>6, TouchSettles DEF Patient
    <2>7. ASSUME NEW v \in Views, NEW s \in Sizes, NEW k \in 0..Len(conf[v]),
                 ClientCommit(v, k, s)
          PROVE  A
      <3>1. k > 0 /\ conf[v][k].txn /\ queued.waiting \cap armed = {v}
        BY <2>7, ClientCommitSettles
      <3>2. k \in 1..Len(conf[v])
        <4>1. conf[v] \in Confs
          BY DEF Rested, Agreed, Sane, Good, StateType, Here
        <4>2. Len(conf[v]) \in Nat
          BY <4>1 DEF Confs
        <4>3. k > 0
          BY <3>1, Zenon
        <4> QED BY <4>2, <4>3
      <3> QED BY <2>7, <3>1, <3>2, Zenon
    <2>8. ~ UNCHANGED vars
      BY DEF vars
    <2> QED BY <2>1, <2>2, <2>3, <2>4, <2>5, <2>6, <2>7, <2>8 DEF Next
  <1> HIDE DEF A
  <1>2. AppliedWhenReady <=> [][A]_vars
    BY PTL DEF AppliedWhenReady, A
  <1> QED BY InitSettled, NextSettled, <1>1, <1>2, PTL DEF Spec

(***************************************************************************)
(* The transactions implement AtomicLayout.  Its three layouts are the      *)
(* screens of current, Flight and Goal, and Moves is its step.              *)
(***************************************************************************)
LEMMA TidyIsLayout ==
    ASSUME NEW L \in [Nodes -> NodeState], Tidy(L, {})
    PROVE  Screen(L) \in Layouts
  <1> DEFINE l == Screen(L)
  <1>1. ASSUME NEW v \in Views
        PROVE  l[v] = Placed(L[v]) /\ l[v] \in NodeState /\ l[v].parent = L[v].parent
    <2>1. L[v] \in NodeState
      BY DEF Nodes
    <2> QED BY <2>1, BlankType DEF Screen, Placed, Blank
  <1>2. l \in [Views -> NodeState]
    <2>1. \A v \in Views : Placed(L[v]) \in NodeState
      BY <1>1
    <2> QED BY <2>1 DEF Screen
  <1> HIDE DEF l
  <1>3. ASSUME NEW v \in Tiled, l[v].parent # None
        PROVE  l[v].size =
                 Share(Cardinality({t \in Tiled : l[t].parent = l[v].parent}))
    <2> DEFINE w == L[v].parent
    <2>1. v \in Views /\ L[v] \in NodeState /\ l[v].parent = w
      BY <1>1 DEF Views, Nodes
    <2>2. w \in Workspaces /\ w # None
      BY <1>3, <2>1 DEF NodeState
    <2>3. l[v].size = L[v].size
      BY <1>1, <2>1, <2>2 DEF Placed
    <2>4. {t \in Tiled : l[t].parent = l[v].parent} = OfWorkspace(L, w)
      <3>1. \A t \in Tiled : l[t].parent = L[t].parent
        BY <1>1 DEF Views
      <3> QED BY <2>1, <3>1 DEF OfWorkspace
    <2> HIDE DEF w
    <2>5. L[v].size = Share(Cardinality(OfWorkspace(L, w)))
      BY <2>2 DEF Tidy, ArrangedAt, w
    <2> QED BY <2>3, <2>4, <2>5
  <1> QED BY <1>2, <1>3 DEF Layouts, IsArranged, l

\* The three layouts are arrangements.
LEMMA ScreensAreLayouts ==
    ASSUME NEW S, Rested(S)
    PROVE  /\ Screen(S.current) \in Layouts
           /\ Screen(Flight(S)) \in Layouts
           /\ Screen(Goal(S)) \in Layouts
  <1>1. /\ S \in StateType /\ Tidy(S.current, {})
        /\ Tidy(Flight(S), {}) /\ Tidy(Goal(S), {})
    BY DEF Rested, Agreed, Sane, Good
  <1>2. /\ S.current \in [Nodes -> NodeState]
        /\ Flight(S) \in [Nodes -> NodeState]
        /\ Goal(S) \in [Nodes -> NodeState]
    BY <1>1, LayoutType DEF StateType
  <1> QED BY <1>1, <1>2, TidyIsLayout

\* They are what the refinement mapping says.
LEMMA ScreensAreMapped ==
    /\ [v \in Views |-> Placed(current[v])] = Screen(Here.current)
    /\ [v \in Views |-> Placed(InFlight(v))] = Screen(Flight(Here))
    /\ [v \in Views |-> Placed(Eventual(v))] = Screen(Goal(Here))
  <1>1. \A v \in Views : /\ InFlight(v) = Flight(Here)[v]
                         /\ Eventual(v) = Goal(Here)[v]
    BY DEF InFlight, Eventual, Flight, Goal, Here, Nodes
  <1> QED BY <1>1 DEF Screen, Here

\* What is on the screen goes from one complete arrangement that was asked for to
\* a later one, and never shows a part of one: every step of the transactions is
\* a step of AtomicLayout.
THEOREM TransactionsAreAtomic == Spec => ImplementsAtomicLayout
  <1>1. Init => Abstract!Init
    <2> SUFFICES ASSUME Init PROVE Abstract!Init
      OBVIOUS
    <2>1. Settled /\ queued = NoTxn /\ next = NoTxn
      BY InitSettled DEF Init
    <2>2. Screen(Here.current) \in Layouts
      BY <2>1, ScreensAreLayouts DEF Settled
    <2>3. Flight(Here) = [n \in Nodes |-> Here.current[n]]
          /\ Goal(Here) = [n \in Nodes |-> Here.current[n]]
      BY <2>1 DEF Flight, Goal, Here, NoTxn
    <2>4. Screen(Flight(Here)) = Screen(Here.current)
          /\ Screen(Goal(Here)) = Screen(Here.current)
      BY <2>3 DEF Screen, Nodes
    <2> QED BY <2>2, <2>4, ScreensAreMapped DEF Abstract!Init
  <1>2. Settled /\ [Next]_vars => Abstract!Step
    <2> SUFFICES ASSUME Settled, [Next]_vars PROVE Abstract!Step
      OBVIOUS
    <2>1. Rested(Here') /\ Moves(Here, Here')
      BY NextSettles DEF Settles
    <2>2. Screen(Goal(Here')) \in Layouts
      BY <2>1, ScreensAreLayouts
    <2>3. /\ [v \in Views |-> Placed(current[v])]' = Screen(Here'.current)
          /\ [v \in Views |-> Placed(InFlight(v))]' = Screen(Flight(Here'))
          /\ [v \in Views |-> Placed(Eventual(v))]' = Screen(Goal(Here'))
      <3>1. \A v \in Views : /\ InFlight(v)' = Flight(Here')[v]
                             /\ Eventual(v)' = Goal(Here')[v]
        BY DEF InFlight, Eventual, Flight, Goal, Here, Nodes
      <3> QED BY <3>1 DEF Screen, Here
    <2> QED BY <2>1, <2>2, <2>3, ScreensAreMapped DEF Abstract!Step, Moves
  <1> QED BY InitSettled, NextSettled, <1>1, <1>2, PTL
       DEF Spec, ImplementsAtomicLayout, Abstract!Spec

=============================================================================
