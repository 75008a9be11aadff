----------------------------- MODULE Transaction -----------------------------
(***************************************************************************)
(* The layout transactions of the compositor, sway/desktop/transaction.c,   *)
(* with the parts of the tree and of the xdg-shell glue that drive them.    *)
(*                                                                          *)
(* Every node (a view's container or a workspace) has a `pending' state,    *)
(* which the window management changes at will, and a `current' state,      *)
(* which is what the scene graph shows.  A handler marks the nodes it       *)
(* changed dirty and ends in transaction_commit_dirty(), which snapshots    *)
(* them into the pending transaction `next'.  When no transaction is in     *)
(* flight it becomes the queued one: the clients are told their new sizes   *)
(* and the snapshots are applied, all at once, when every visible client    *)
(* has drawn at its new size or the timer has run out.                      *)
(*                                                                          *)
(* The compositor is single threaded: each action is one event handler.     *)
(* Operators marked `mutant' are wrong on purpose: each is a plausible      *)
(* mistake in the definition after it.                                      *)
(***************************************************************************)
EXTENDS Naturals, Sequences, FiniteSets

CONSTANTS
    Tiled,       \* containers of views whose size the workspace layout decides
    Floating,    \* containers of views that float and may resize themselves
    Workspaces,  \* the workspaces views can be on
    None,        \* "no workspace"
    Sizes,       \* the content sizes a view can have
    Share(_),    \* the size of each of k tiled views of one workspace
    MaxConf      \* bound: configures a client may leave unacknowledged

Views == Tiled \cup Floating
Nodes == Views \cup Workspaces

ASSUME TransactionAssumption ==
    /\ Tiled \cap Floating = {}
    /\ Views \cap Workspaces = {}
    /\ None \notin Nodes
    /\ Sizes \subseteq Nat \ {0}
    /\ \A k \in 0..Cardinality(Tiled) : Share(k) \in Sizes
    /\ IsFiniteSet(Nodes)
    /\ MaxConf \in Nat

VARIABLES
    pending,   \* node -> the state window management wants
    life,      \* node -> "none" (no such object), "live" or "destroying"
    dirty,     \* server.dirty_nodes
    current,   \* node -> the state the scene graph shows
    saved,     \* the views shown from a saved buffer (saved_surface_tree)
    queued,    \* server.queued_transaction
    next,      \* server.pending_transaction
    refs,      \* node -> ntxnrefs
    armed,     \* the nodes whose node->instruction is not NULL
    conf,      \* view -> configures sent to its client and not acknowledged
    geometry,  \* floating view -> size of the client's last accepted buffer
    told       \* view -> the size its client was last told, or chose itself

vars == <<pending, life, dirty, current, saved, queued, next, refs, armed,
          conf, geometry, told>>

(***************************************************************************)
(* States and transactions.  One record type serves both kinds of node: a   *)
(* workspace uses `kids' (its tiling and floating lists), a view the rest.  *)
(* Size 0 is the size of a container that was never arranged.               *)
(***************************************************************************)
NodeState == [parent : Workspaces \cup {None}, size : Sizes \cup {0},
              hidden : BOOLEAN, kids : SUBSET Views]

Blank == [parent |-> None, size |-> 0, hidden |-> FALSE, kids |-> {}]

\* An instruction is kept per node: `server' are the nodes whose instruction
\* has server_request set, `waiting' those that have `waiting' set, `left' is
\* num_waiting.  A transaction without nodes stands for the NULL pointer: one
\* is only created for a non-empty list of dirty nodes.
Transactions == [nodes : SUBSET Nodes, state : [Nodes -> NodeState],
                 server : SUBSET Nodes, waiting : SUBSET Views, left : Nat]

NoTxn == [nodes |-> {}, state |-> [n \in Nodes |-> Blank], server |-> {},
          waiting |-> {}, left |-> 0]

\* A configure in flight to a client; `txn' marks the one whose serial the
\* instruction of the view remembers.
Configures == [size : Sizes \cup {0}, txn : BOOLEAN]

(***************************************************************************)
(* What the functions of transaction.c work on, as one value, so that a     *)
(* handler that calls several of them is still a single step.               *)
(***************************************************************************)
Here == [pending |-> pending, life |-> life, dirty |-> dirty,
         current |-> current, saved |-> saved, queued |-> queued,
         next |-> next, refs |-> refs, armed |-> armed, conf |-> conf,
         told |-> told]

Become(S) ==
    /\ pending' = S.pending /\ life' = S.life /\ dirty' = S.dirty
    /\ current' = S.current /\ saved' = S.saved /\ queued' = S.queued
    /\ next' = S.next /\ refs' = S.refs /\ armed' = S.armed
    /\ conf' = S.conf /\ told' = S.told

\* The dirty nodes without an instruction in the pending transaction.
NewNodesOfNeither(S) == S.dirty \ (S.next.nodes \cup S.queued.nodes) \* mutant

NewNodes(S) == S.dirty \ S.next.nodes

\* What the pending transaction holds of a node once the dirty ones are added:
\* an instruction it has already is updated.
SnapshotOnce(S, n) ==                                               \* mutant
    IF n \in NewNodes(S) THEN S.pending[n] ELSE S.next.state[n]

Snapshot(S, n) == IF n \in S.dirty THEN S.pending[n] ELSE S.next.state[n]

\* transaction_add_node for every dirty node, in the pending transaction.
AddDirty(S, serverRequest) ==
    [S EXCEPT
      !.next = [nodes   |-> S.next.nodes \cup S.dirty,
                state   |-> [n \in Nodes |-> Snapshot(S, n)],
                server  |-> IF serverRequest THEN S.next.server \cup S.dirty
                                             ELSE S.next.server,
                waiting |-> {},
                left    |-> 0],
      !.refs = [n \in Nodes |->
                  IF n \in NewNodes(S) THEN S.refs[n] + 1 ELSE S.refs[n]],
      !.dirty = {}]

\* should_configure: a live view, a change the server made, and a new size.
ShouldConfigureChange(S, v) ==                                      \* mutant
    /\ v \in S.next.nodes \cap Views
    /\ S.life[v] # "destroying"
    /\ v \in S.next.server
    /\ S.pending[v].size # S.next.state[v].size

ShouldConfigure(S, v) ==
    /\ v \in S.next.nodes \cap Views
    /\ S.life[v] # "destroying"
    /\ v \in S.next.server
    /\ S.current[v].size # S.next.state[v].size

\* A view that cannot be seen is configured but not waited for.
IsHidden(S, v) == S.life[v] # "destroying" /\ S.pending[v].hidden

\* The serials of older instructions mean nothing to a new one.
Outdated(confs) ==
    [i \in 1..Len(confs) |-> [size |-> confs[i].size, txn |-> FALSE]]

\* view_configure: the client is sent its size under a new serial, which the
\* instruction remembers.
SendConfigure(confs, size) ==
    Append(Outdated(confs), [size |-> size, txn |-> TRUE])

\* The pending transaction takes the queue: transaction_commit_pending with
\* its call of transaction_commit.
Launch(S) ==
    LET configured == {v \in Views : ShouldConfigure(S, v)}
        waiting == {v \in configured : ~IsHidden(S, v)}
        asked(v) == S.next.state[v].size
    IN  [S EXCEPT
          !.queued = [nodes   |-> S.next.nodes,
                      state   |-> S.next.state,
                      server  |-> S.next.server,
                      waiting |-> waiting,
                      left    |-> Cardinality(waiting)],
          !.next = NoTxn,
          !.armed = @ \cup S.next.nodes,
          !.saved = @ \cup {v \in S.next.nodes \cap Views : ~IsHidden(S, v)},
          !.conf = [v \in Views |->
                      IF v \in configured THEN SendConfigure(S.conf[v], asked(v))
                      ELSE IF v \in S.next.nodes THEN Outdated(S.conf[v])
                      ELSE S.conf[v]],
          !.told = [v \in Views |->
                      IF v \in configured THEN asked(v) ELSE S.told[v]]]

\* The frozen buffers are dropped, except of a dying view that another
\* transaction still holds.
StaysFrozen(S, v) ==
    \/ v \notin S.queued.nodes
    \/ S.life[v] = "destroying" /\ S.refs[v] # 1

\* transaction_apply: every snapshot becomes current.
Apply(S) ==
    [S EXCEPT
      !.current = [n \in Nodes |-> IF n \in S.queued.nodes
                     THEN S.queued.state[n] ELSE S.current[n]],
      !.saved = {v \in S.saved : StaysFrozen(S, v)},
      !.armed = @ \ S.queued.nodes]

\* A dying node that no other transaction refers to and that is not about to
\* be in one is freed with the transaction that held it last.
FreedAtOnce(S) == {n \in S.queued.nodes : S.life[n] = "destroying"} \* mutant

Freed(S) == {n \in S.queued.nodes :
               S.life[n] = "destroying" /\ S.refs[n] = 1 /\ n \notin S.dirty}

\* transaction_destroy
Destroy(S) ==
    [S EXCEPT
      !.refs = [n \in Nodes |->
                  IF n \in S.queued.nodes THEN S.refs[n] - 1 ELSE S.refs[n]],
      !.queued = NoTxn,
      !.life = [n \in Nodes |-> IF n \in Freed(S) THEN "none" ELSE S.life[n]],
      !.pending = [n \in Nodes |-> IF n \in Freed(S) THEN Blank ELSE S.pending[n]],
      !.current = [n \in Nodes |-> IF n \in Freed(S) THEN Blank ELSE S.current[n]]]

Ready(S) == S.queued.nodes # {} /\ S.queued.left = 0

\* transaction_progress: a ready transaction is applied and destroyed, the
\* pending one, if any, takes its place and may be ready at once, too (there
\* is no third one, so the mutual recursion of the code ends there).
Finish(S) == Destroy(Apply(S))

ProgressOnce(S) ==                                                  \* mutant
    IF ~Ready(S) THEN S
    ELSE IF S.next.nodes = {} THEN Finish(S) ELSE Launch(Finish(S))

Progress(S) ==
    IF ~Ready(S) THEN S
    ELSE IF S.next.nodes = {} THEN Finish(S)
    ELSE LET L == Launch(Finish(S)) IN IF Ready(L) THEN Finish(L) ELSE L

\* _transaction_commit_dirty
CommitDirty(S, serverRequest) ==
    IF S.dirty = {} THEN S
    ELSE IF S.queued.nodes # {} THEN AddDirty(S, serverRequest)
    ELSE Progress(Launch(AddDirty(S, serverRequest)))

(***************************************************************************)
(* The tree.  NodesSetDirty is node_set_dirty for a set of nodes: dying     *)
(* nodes are not marked again.                                              *)
(***************************************************************************)
NodesSetDirty(S, nodes) ==
    [S EXCEPT !.dirty = @ \cup {n \in nodes : S.life[n] # "destroying"}]

TiledKids(P, w) == P[w].kids \cap Tiled

ArrangedOnly(S, w) == {w}                                           \* mutant

Arranged(S, w) == {w} \cup S.pending[w].kids

\* arrange_workspace: the tiled views share the workspace, floating ones keep
\* their size; all of them are marked dirty.
Arrange(S, w) ==
    LET P == S.pending
        size == Share(Cardinality(TiledKids(P, w)))
    IN  NodesSetDirty(
          [S EXCEPT !.pending = [n \in Nodes |->
             IF n \in TiledKids(P, w) THEN [P[n] EXCEPT !.size = size] ELSE P[n]]],
          Arranged(S, w))

\* container_detach: the view leaves its workspace.
Leave(P, v) == [P EXCEPT ![v].parent = None, ![P[v].parent].kids = @ \ {v}]

Detach(S, v) ==
    NodesSetDirty([S EXCEPT !.pending = Leave(S.pending, v)],
                  {v, S.pending[v].parent} \ {None})

\* workspace_add_tiling, workspace_add_floating
Join(P, v, w) == [P EXCEPT ![w].kids = @ \cup {v}, ![v].parent = w]

Attach(S, v, w) ==
    NodesSetDirty([S EXCEPT !.pending = Join(S.pending, v, w)], {v, w})

\* container_begin_destroy, workspace_begin_destroy (which is detached from
\* its output, not a part of the model): dirty first, then dying.
BeginDestroy(S, v) ==
    LET D == NodesSetDirty(S, {v})
    IN  Detach([D EXCEPT !.life[v] = "destroying"], v)

\* workspace_consider_destroy: an empty workspace goes, unless it is kept,
\* shown or focused, which `keep' stands for.
ConsiderDestroy(S, w, keep) ==
    IF keep \/ S.pending[w].kids # {} THEN S
    ELSE LET D == NodesSetDirty(S, {w})
         IN  [D EXCEPT !.life[w] = "destroying"]

\* workspace_create, when the workspace is not there yet
EnsureWorkspace(S, w) == [S EXCEPT !.life[w] = "live"]

-----------------------------------------------------------------------------
Init ==
    /\ pending = [n \in Nodes |-> Blank]
    /\ life = [n \in Nodes |-> "none"]
    /\ dirty = {}
    /\ current = [n \in Nodes |-> Blank]
    /\ saved = {}
    /\ queued = NoTxn
    /\ next = NoTxn
    /\ refs = [n \in Nodes |-> 0]
    /\ armed = {}
    /\ conf = [v \in Views |-> <<>>]
    /\ geometry = [v \in Floating |-> 0]
    /\ told = [v \in Views |-> 0]

\* Bound: a configure may be sent to every client now, and another one when
\* the pending transaction is launched.
RoomToConfigure ==
    \A v \in Views :
      Len(conf[v]) + (IF v \in next.nodes THEN 2 ELSE 1) <= MaxConf

\* handle_map of xdg_shell.c with view_map: a container is created and put on
\* a workspace, a floating one at the size the client drew.
Map(v, w, natural) ==
    /\ life[v] = "none" /\ life[w] # "destroying"
    /\ RoomToConfigure
    /\ LET H == EnsureWorkspace(Here, w)
           N == [H EXCEPT !.life[v] = "live",
                          !.pending[v].size = IF v \in Floating
                                              THEN natural ELSE 0]
       IN  Become(CommitDirty(Arrange(Attach(N, v, w), w), TRUE))
    /\ geometry' = [f \in Floating |-> IF f = v THEN natural ELSE geometry[f]]

\* handle_unmap of xdg_shell.c with view_unmap: the client closed its window.
\* What it was sent no longer matters.
Unmap(v, keep) ==
    LET w == pending[v].parent
        B == BeginDestroy([Here EXCEPT !.conf[v] = <<>>, !.told[v] = 0], v)
        C == ConsiderDestroy(B, w, keep)
        A == IF C.life[w] = "destroying" THEN C ELSE Arrange(C, w)
    IN  /\ life[v] = "live"
        /\ RoomToConfigure
        /\ Become(CommitDirty(A, TRUE))
        /\ geometry' = [f \in Floating |-> IF f = v THEN 0 ELSE geometry[f]]

\* move_to_workspace of wm/screens.c, by a user's command.
MoveTo(v, w, keep) ==
    LET old == pending[v].parent
        M == Attach(Detach(EnsureWorkspace(Here, w), v), v, w)
    IN  /\ life[v] = "live" /\ life[w] # "destroying" /\ w # old
        /\ RoomToConfigure
        /\ Become(CommitDirty(
             ConsiderDestroy(Arrange(Arrange(M, old), w), old, keep), TRUE))
        /\ UNCHANGED geometry

\* A floating view is given a size: resized with the pointer, restored,
\* snapped (container_floating_set_size and arrange_container).
Resize(v, size) ==
    /\ life[v] = "live" /\ size # pending[v].size
    /\ RoomToConfigure
    /\ Become(CommitDirty(
         NodesSetDirty([Here EXCEPT !.pending[v].size = size], {v}), TRUE))
    /\ UNCHANGED geometry

\* tw_minimize, to the panel or back.
Minimize(v) ==
    LET M == [Here EXCEPT !.pending[v].hidden = ~@]
    IN  /\ life[v] = "live"
        /\ RoomToConfigure
        /\ Become(CommitDirty(
             Arrange(NodesSetDirty(M, {v}), pending[v].parent), TRUE))
        /\ UNCHANGED geometry

\* seat_set_focus and others mark a node dirty, and some callers (the unlock
\* handler of lock.c, the focus handlers of xwayland.c) leave the commit to
\* whichever handler comes next.
Touch(n) ==
    /\ life[n] = "live" /\ n \notin dirty
    /\ Become(NodesSetDirty(Here, {n}))
    /\ UNCHANGED geometry

\* set_instruction_ready, for the view whose client drew at its new size.
SetReadyFirst(S, v) ==                                              \* mutant
    Progress([S EXCEPT !.armed = @ \ {v}, !.queued.left = 0])

SetReady(S, v) ==
    LET counted == v \in S.queued.waiting /\ S.queued.left > 0
    IN  Progress([S EXCEPT !.armed = @ \ {v},
                           !.queued.left = IF counted THEN @ - 1 ELSE @])

\* transaction_awaits_configure, with the configures the client has still to
\* acknowledge.
AwaitsConfigure(v, confs) ==
    v \in armed /\ \E i \in 1..Len(confs) : confs[i].txn

\* handle_commit of xdg_shell.c: the client acknowledges its first k
\* configures and commits a buffer of some size.  A floating view takes the
\* size of its buffer, unless it is a buffer from before the last configure.
ClientCommit(v, k, size) ==
    LET left == SubSeq(conf[v], k + 1, Len(conf[v]))
        acked == [Here EXCEPT !.conf[v] = left]
        newSize == /\ v \in Floating /\ size # geometry[v]
                   /\ ~AwaitsConfigure(v, left)
        resized == NodesSetDirty([acked EXCEPT !.pending[v].size = size,
                                               !.told[v] = size], {v})
        answered == IF current[v].size = 0 THEN resized
                    ELSE [resized EXCEPT
                            !.conf[v] = Append(@, [size |-> size, txn |-> FALSE])]
        S == IF newSize THEN CommitDirty(answered, FALSE) ELSE acked
        bySerial == v \in armed /\ k > 0 /\ conf[v][k].txn
    IN  /\ life[v] = "live" /\ k <= Len(conf[v])
        /\ newSize => RoomToConfigure
        /\ k > 0 \/ newSize
        /\ Become(IF bySerial THEN SetReady(S, v) ELSE S)
        /\ geometry' = [f \in Floating |->
                          IF f = v /\ newSize THEN size ELSE geometry[f]]

\* handle_timeout
HandleTimeoutOnly ==                                                \* mutant
    /\ queued.nodes # {} /\ queued.left > 0
    /\ queued' = [queued EXCEPT !.left = 0]
    /\ UNCHANGED <<pending, life, dirty, current, saved, next, refs, armed,
                   conf, geometry, told>>

HandleTimeout ==
    /\ queued.nodes # {} /\ queued.left > 0
    /\ Become(Progress([Here EXCEPT !.queued.left = 0]))
    /\ UNCHANGED geometry

Next ==
    \/ \E v \in Views, w \in Workspaces, s \in Sizes : Map(v, w, s)
    \/ \E v \in Views, keep \in BOOLEAN : Unmap(v, keep)
    \/ \E v \in Views, w \in Workspaces, keep \in BOOLEAN : MoveTo(v, w, keep)
    \/ \E v \in Floating, s \in Sizes : Resize(v, s)
    \/ \E v \in Floating : Minimize(v)
    \/ \E n \in Nodes : Touch(n)
    \/ \E v \in Views, s \in Sizes : \E k \in 0..Len(conf[v]) : ClientCommit(v, k, s)
    \/ HandleTimeout

\* The event loop runs the timer when it is due; nothing else is promised, a
\* client may never answer.  This is WF_vars(HandleTimeout) with its ENABLED
\* written out: the timer runs exactly while views are waited for.
Fairness == []<>(queued.left = 0) \/ []<><<HandleTimeout>>_vars

Spec == Init /\ [][Next]_vars /\ Fairness
-----------------------------------------------------------------------------
\* The type of the state: pending and current states of nodes, and transactions
\* whose waiting nodes and counters stay in range, as no handler checks them.
TypeOK ==
    /\ pending \in [Nodes -> NodeState]
    /\ life \in [Nodes -> {"none", "live", "destroying"}]
    /\ dirty \subseteq Nodes
    /\ current \in [Nodes -> NodeState]
    /\ saved \subseteq Views
    /\ queued \in Transactions
    /\ next \in Transactions
    /\ refs \in [Nodes -> Nat]
    /\ armed \subseteq Nodes
    /\ conf \in [Views -> Seq(Configures)]
    /\ geometry \in [Floating -> Sizes \cup {0}]
    /\ told \in [Views -> Sizes \cup {0}]

(***************************************************************************)
(* Properties.                                                              *)
(***************************************************************************)
\* The screen never shows half a move: a workspace's current list of children
\* holds exactly the views whose current parent it is, whatever was merged,
\* applied, timed out or freed in between.
CurrentTreeConsistent ==
    \A v \in Views, w \in Workspaces :
      v \in current[w].kids <=> current[v].parent = w

\* The screen never shows half an arrangement: the tiled views a workspace
\* currently shows have the size of that many views sharing it, so that they
\* neither overlap nor leave a gap.
IsArranged(layout) ==
    \A v \in Tiled :
      layout[v].parent # None =>
        layout[v].size =
          Share(Cardinality({t \in Tiled : layout[t].parent = layout[v].parent}))

\* Nothing refers to a freed node: no transaction, no dirty list, no parent
\* pointer and no list of children in any state that will be shown.
References(st) == st.kids \cup {st.parent}

NoDanglingNode ==
    LET inUse == dirty \cup queued.nodes \cup next.nodes \cup armed
                 \cup (UNION {References(current[n]) : n \in Nodes})
                 \cup (UNION {References(pending[n]) : n \in Nodes})
                 \cup (UNION {References(queued.state[n]) : n \in queued.nodes})
                 \cup (UNION {References(next.state[n]) : n \in next.nodes})
    IN  \A n \in inUse \ {None} : life[n] # "none"

\* The tree that is drawn is a tree of nodes that are there: views and the lists of
\* their workspaces agree, whatever was merged, timed out or freed in between
\* (transaction_apply, transaction_destroy), and nothing in use is freed.
TreesSound == CurrentTreeConsistent /\ NoDanglingNode

\* ntxnrefs counts the transactions that hold the node, and a dying node is
\* kept only as long as one does (or is about to, being dirty).
HeldBy(n) == (IF n \in queued.nodes THEN 1 ELSE 0)
             + (IF n \in next.nodes THEN 1 ELSE 0)

RefsExact ==
    \A n \in Nodes :
      /\ refs[n] = HeldBy(n)
      /\ life[n] = "destroying" => refs[n] > 0 \/ n \in dirty

\* num_waiting is the number of views the queued transaction still waits for,
\* and a transaction that waits for none does not stay queued.  A view is shown
\* from its frozen buffer while it is waited for, so that a buffer of the new size
\* is not seen in the old layout, and for no longer than a transaction that
\* concerns it is in flight.
WaitingCounted ==
    /\ queued.left = Cardinality(queued.waiting \cap armed)
    /\ queued.nodes # {} => queued.left > 0
    /\ armed \subseteq queued.nodes
    /\ next.nodes # {} => queued.nodes # {}
    /\ queued.waiting \subseteq saved
    /\ saved \subseteq queued.nodes

\* No change is lost in the merging of transactions: what will have been shown
\* once both transactions are applied is what window management wants, for
\* every node that is not marked for the next one.
Eventual(n) ==
    IF n \in next.nodes THEN next.state[n]
    ELSE IF n \in queued.nodes THEN queued.state[n]
    ELSE current[n]

NothingLost == \A n \in Nodes \ dirty : Eventual(n) = pending[n]

\* A tiled view at rest has the size its client was last told: the layout does not
\* show a client at a size it never heard of.  (A floating view's client chooses a
\* size of its own, which AskedSizeKept is about.)
ClientKnowsSize ==
    \A v \in Tiled :
      life[v] = "live" /\ v \notin dirty \cup queued.nodes \cup next.nodes
        => told[v] = current[v].size

\* A layout is applied while views are still waited for only by the timer;
\* otherwise the last of them has acknowledged.
AppliedWhenReady ==
    [][ current' # current /\ queued.nodes # {}
        => \/ HandleTimeout
           \/ \E v \in Views, s \in Sizes : \E k \in 1..Len(conf[v]) :
                /\ ClientCommit(v, k, s) /\ conf[v][k].txn
                /\ queued.waiting \cap armed = {v} ]_vars

\* A dying node is eventually freed, even if no client answers and window
\* management never rests.
DyingIsFreed ==
    \A n \in Nodes : life[n] = "destroying" ~> life[n] = "none"

(***************************************************************************)
(* Refinement: what is shown, in flight and asked for, of the views that    *)
(* are on a workspace.                                                      *)
(***************************************************************************)
Placed(st) == IF st.parent = None THEN Blank ELSE st
InFlight(n) == IF n \in queued.nodes THEN queued.state[n] ELSE current[n]

Layouts == {l \in [Views -> NodeState] : IsArranged(l)}

Abstract == INSTANCE AtomicLayout WITH
    shown  <- [v \in Views |-> Placed(current[v])],
    flight <- [v \in Views |-> Placed(InFlight(v))],
    goal   <- [v \in Views |-> Placed(Eventual(v))]

\* The transactions implement atomic layout updates.
ImplementsAtomicLayout == Abstract!Spec

\* "A buffer from before the client saw the size tileWin asked for [...]: wait
\* for the one of the acked size" (xdg_shell.c): a client's commit does not
\* replace the size window management asked for and the client was not told.
AskedSizeKept ==
    [][ \A v \in Floating :
          /\ \E s \in Sizes, k \in 0..Len(conf[v]) : ClientCommit(v, k, s)
          /\ v \in next.nodes /\ next.state[v].size # told[v]
          => pending'[v].size = pending[v].size ]_vars

=============================================================================
