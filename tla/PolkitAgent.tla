----------------------------- MODULE PolkitAgent -----------------------------
(***************************************************************************)
(* The requests of tilewin-polkit, polkit/main.c: polkit asks that somebody *)
(* signs in, the requests wait in a queue, and the first is shown, with a   *)
(* session of polkit's helper that asks for the password and checks it.     *)
(*                                                                          *)
(* The agent is one GLib main loop: an action is what one callback does.    *)
(* What may not be done inside the handler of a cancellation is put off to  *)
(* an idle callback, and anything can happen before that runs.              *)
(*                                                                          *)
(* Cancelling a session of the helper completes it before the call returns  *)
(* (the comment in cancel_current), so `cancelling' never outlives a step.  *)
(* Operators marked `mutant' are wrong on purpose: each is a plausible      *)
(* mistake in the definition after it.                                      *)
(***************************************************************************)
EXTENDS Naturals, Sequences, FiniteSets

CONSTANTS
    Requests,    \* the requests of polkit
    NoIdentity,  \* those that nobody may sign in for
    Accounts,    \* 0..count-1, whom one may sign in as for the others
    None         \* no request

ASSUME PolkitAgentAssumption ==
    /\ NoIdentity \subseteq Requests /\ None \notin Requests
    /\ IsFiniteSet(Accounts) /\ Accounts # {} /\ Accounts = 0..(Cardinality(Accounts) - 1)

VARIABLES
    queue,     \* agent.queue
    current,   \* agent.current
    identity,  \* request -> the account chosen in its dialog
    session,   \* agent.session: the request and the account it is for
    waiting,   \* agent.waiting, a prompt waits for the answer
    checking,  \* agent.checking
    typed,     \* agent.password: the dialogs, request and account, it was typed in
    idles,     \* the idle callbacks to come
    life,      \* request -> where it is
    reply,     \* request -> the answers polkit got
    gained,    \* the requests whose session said that the user signed in
    byUser,    \* the requests the user said no to
    byPolkit,  \* the requests polkit gave up on
    submitted  \* where passwords went: the dialog and the session

vars == <<queue, current, identity, session, waiting, checking, typed, idles, life,
          reply, gained, byUser, byPolkit, submitted>>

history == <<gained, byUser, byPolkit, submitted>>

Dialogs == Requests \X Accounts
NoSession == <<None, 0>>
Dialog == <<current, identity[current]>>

\* The type of the state: the queue, the dialog and its session, whose account
\* is always one of the request's (identity % count in next_identity).
TypeOK ==
    /\ queue \in Seq(Requests)
    /\ current \in Requests \cup {None}
    /\ identity \in [Requests -> Accounts]
    /\ session \in Dialogs \cup {NoSession}
    /\ waiting \in BOOLEAN /\ checking \in BOOLEAN
    /\ typed \subseteq Dialogs
    /\ idles \in Seq([does : {"cancel", "free"}, request : Requests])
    /\ life \in [Requests -> {"new", "queued", "shown", "removed", "freed"}]
    /\ reply \in [Requests -> Seq({"granted", "refused", "failed"})]
    /\ gained \subseteq Requests /\ byUser \subseteq Requests /\ byPolkit \subseteq Requests
    /\ submitted \subseteq Dialogs \X Dialogs

Init ==
    /\ queue = <<>> /\ current = None
    /\ identity \in [Requests -> Accounts]
    /\ session = NoSession /\ waiting = FALSE /\ checking = FALSE /\ typed = {}
    /\ idles = <<>>
    /\ life = [r \in Requests |-> "new"] /\ reply = [r \in Requests |-> <<>>]
    /\ gained = {} /\ byUser = {} /\ byPolkit = {} /\ submitted = {}

-----------------------------------------------------------------------------
\* start_next, from a queue: the first of it is shown, and those before that
\* nobody can sign in for are answered by begin_session.
StartNext(waits, lives, replies) ==
    \E first \in 1..(Len(waits) + 1) :
      LET failed == {waits[k] : k \in 1..(first - 1)}
          now == IF first > Len(waits) THEN None ELSE waits[first]
      IN  /\ failed \subseteq NoIdentity /\ now \notin NoIdentity
          /\ queue' = SubSeq(waits, first + 1, Len(waits))
          /\ current' = now
          /\ session' = IF now = None THEN NoSession ELSE <<now, identity[now]>>
          /\ life' = [r \in Requests |-> IF r \in failed THEN "freed"
                                         ELSE IF r = now THEN "shown" ELSE lives[r]]
          /\ reply' = [r \in Requests |-> IF r \in failed THEN Append(replies[r], "failed")
                                          ELSE replies[r]]
          /\ waiting' = FALSE /\ checking' = FALSE /\ typed' = {}

\* finish_request
FinishAndRest(answer) ==                                            \* mutant
    /\ queue' = queue /\ current' = None /\ session' = NoSession
    /\ life' = [life EXCEPT ![current] = "freed"]
    /\ reply' = [reply EXCEPT ![current] = Append(@, answer)]
    /\ waiting' = FALSE /\ checking' = FALSE /\ typed' = {}

Finish(answer) ==
    StartNext(queue, [life EXCEPT ![current] = "freed"],
                     [reply EXCEPT ![current] = Append(@, answer)])

\* begin_session for the request that is shown
BeginSession(account) ==
    /\ session' = <<current, account>>
    /\ waiting' = FALSE /\ checking' = FALSE

-----------------------------------------------------------------------------
\* initiate_authentication
Initiate(r) ==
    /\ life[r] = "new"
    /\ LET lives == [life EXCEPT ![r] = "queued"]
       IN  IF current = None
           THEN StartNext(Append(queue, r), lives, reply)
           ELSE /\ queue' = Append(queue, r) /\ life' = lives
                /\ UNCHANGED <<current, session, waiting, checking, typed, reply>>
    /\ UNCHANGED <<identity, idles, history>>

\* session_request: the helper has a prompt.
SessionAsks ==
    /\ session # NoSession
    /\ waiting' = TRUE /\ checking' = FALSE
    /\ UNCHANGED <<queue, current, identity, session, typed, idles, life, reply, history>>

\* session_completed, of the session there is
SessionGains ==
    /\ session # NoSession
    /\ gained' = gained \cup {session[1]}
    /\ Finish("granted")
    /\ UNCHANGED <<identity, idles, byUser, byPolkit, submitted>>

SessionFails ==
    /\ session # NoSession
    /\ BeginSession(identity[current])
    /\ UNCHANGED <<queue, current, identity, typed, idles, life, reply, history>>

\* handle_key: characters, and rubbing all of them out
Type ==
    /\ current # None /\ waiting
    /\ typed' = typed \cup {Dialog}
    /\ UNCHANGED <<queue, current, identity, session, waiting, checking, idles, life,
                   reply, history>>

Clear ==
    /\ current # None /\ typed # {} /\ typed' = {}
    /\ UNCHANGED <<queue, current, identity, session, waiting, checking, idles, life,
                   reply, history>>

\* submit
Submit ==
    /\ session # NoSession /\ waiting
    /\ waiting' = FALSE /\ checking' = TRUE
    /\ submitted' = submitted \cup {<<dialog, session>> : dialog \in typed}
    /\ typed' = {}
    /\ UNCHANGED <<queue, current, identity, session, idles, life, reply, gained, byUser,
                   byPolkit>>

\* next_identity: the two keys go through the accounts both ways.
NextIdentityKeeps(account) ==                                       \* mutant
    /\ current # None /\ Cardinality(Accounts) > 1 /\ ~checking
    /\ identity' = [identity EXCEPT ![current] = account]
    /\ BeginSession(account)
    /\ UNCHANGED <<queue, current, typed, idles, life, reply, history>>

NextIdentity(account) ==
    /\ current # None /\ Cardinality(Accounts) > 1 /\ ~checking
    /\ \E step \in {1, Cardinality(Accounts) - 1} :
          account = (identity[current] + step) % Cardinality(Accounts)
    /\ identity' = [identity EXCEPT ![current] = account]
    /\ typed' = {}
    /\ BeginSession(account)
    /\ UNCHANGED <<queue, current, idles, life, reply, history>>

\* cancel_current, for the No button and Escape
UserCancels ==
    /\ current # None
    /\ byUser' = byUser \cup {current}
    /\ Finish("refused")
    /\ UNCHANGED <<identity, idles, gained, byPolkit, submitted>>

\* request_cancelled: polkit gives up on a request, while it is there.
GivesUp(r) == life[r] \in {"queued", "shown"} /\ r \notin byPolkit

PolkitCancelsShown ==
    /\ current # None /\ GivesUp(current)
    /\ byPolkit' = byPolkit \cup {current}
    /\ idles' = Append(idles, [does |-> "cancel", request |-> current])
    /\ UNCHANGED <<queue, current, identity, session, waiting, checking, typed, life, reply,
                   gained, byUser, submitted>>

PolkitCancelsQueuedInPlace(r) ==                                    \* mutant
    /\ r # current /\ GivesUp(r)
    /\ byPolkit' = byPolkit \cup {r}
    /\ reply' = [reply EXCEPT ![r] = Append(@, "refused")]
    /\ idles' = Append(idles, [does |-> "free", request |-> r])
    /\ UNCHANGED <<queue, current, identity, session, waiting, checking, typed, life, gained,
                   byUser, submitted>>

PolkitCancelsQueued(r) ==
    /\ r # current /\ GivesUp(r)
    /\ byPolkit' = byPolkit \cup {r}
    /\ \E at \in 1..Len(queue) :
         /\ queue[at] = r /\ \A earlier \in 1..(at - 1) : queue[earlier] # r
         /\ queue' = [k \in 1..(Len(queue) - 1) |-> queue[IF k < at THEN k ELSE k + 1]]
    /\ life' = [life EXCEPT ![r] = "removed"]
    /\ reply' = [reply EXCEPT ![r] = Append(@, "refused")]
    /\ idles' = Append(idles, [does |-> "free", request |-> r])
    /\ UNCHANGED <<current, identity, session, waiting, checking, typed, gained, byUser,
                   submitted>>

\* cancel_current_later cancels the request shown now, free_request_later its own.
RunCancelUnlessChecking ==                                          \* mutant
    /\ idles # <<>> /\ Head(idles).does = "cancel"
    /\ idles' = Tail(idles)
    /\ IF current # None /\ ~checking THEN Finish("refused")
       ELSE UNCHANGED <<queue, current, session, waiting, checking, typed, life, reply>>
    /\ UNCHANGED <<identity, history>>

RunCancel ==
    /\ idles # <<>> /\ Head(idles).does = "cancel"
    /\ idles' = Tail(idles)
    /\ IF current # None THEN Finish("refused")
       ELSE UNCHANGED <<queue, current, session, waiting, checking, typed, life, reply>>
    /\ UNCHANGED <<identity, history>>

RunFree ==
    /\ idles # <<>> /\ Head(idles).does = "free"
    /\ idles' = Tail(idles)
    /\ life' = [life EXCEPT ![Head(idles).request] = "freed"]
    /\ UNCHANGED <<queue, current, identity, session, waiting, checking, typed, reply, history>>

Next ==
    \/ \E r \in Requests : Initiate(r) \/ PolkitCancelsQueued(r)
    \/ SessionAsks \/ SessionGains \/ SessionFails
    \/ Type \/ Clear \/ Submit \/ UserCancels
    \/ \E account \in Accounts : NextIdentity(account)
    \/ PolkitCancelsShown \/ RunCancel \/ RunFree

\* The main loop runs its idle callbacks.  Nothing is promised of polkit, its
\* helper and the user.
Fairness == WF_vars(RunCancel) /\ WF_vars(RunFree)

Spec == Init /\ [][Next]_vars /\ Fairness

-----------------------------------------------------------------------------
(***************************************************************************)
(* Properties.                                                              *)
(***************************************************************************)
\* A request gets one answer, and none goes without one: those that are gone
\* have theirs, those still here do not (GTask may be returned only once).
AnsweredOnce ==
    \A r \in Requests :
      Len(reply[r]) = (IF life[r] \in {"removed", "freed"} THEN 1 ELSE 0)

\* "Requests that come meanwhile wait their turn" (docs/features.md): only
\* while another is shown, each once, and exactly those that are not answered.
WaitTheirTurn ==
    /\ queue # <<>> => current # None
    /\ \A i, k \in 1..Len(queue) : queue[i] = queue[k] => i = k
    /\ \A r \in Requests : life[r] = "queued" <=> \E i \in 1..Len(queue) : queue[i] = r
    /\ \A r \in Requests : life[r] = "shown" <=> r = current

\* The session checks the account that the dialog shows, for its request.
SessionIsTheDialogs == session = (IF current = None THEN NoSession ELSE Dialog)

\* A password goes to the session of the dialog it was typed in: not to another
\* account, and not to the request that was shown next.
PasswordStaysInItsDialog == \A pair \in submitted : pair[1] = pair[2]

\* An answer has a reason: yes that the user signed in for it, no that the
\* user refused it or polkit gave up on it ("the app went away").
AnswerHasAReason ==
    \A r \in Requests : \A i \in 1..Len(reply[r]) :
      CASE reply[r][i] = "granted" -> r \in gained
        [] reply[r][i] = "refused" -> r \in byUser \cup byPolkit
        [] OTHER -> r \in NoIdentity

\* What polkit gave up on is answered, so its dialog goes.
CancelledIsAnswered ==
    \A r \in Requests : r \in byPolkit ~> life[r] = "freed"

=============================================================================
