-------------------------- MODULE PolkitAgentProofs --------------------------
(***************************************************************************)
(* Theorems about PolkitAgent, for every set of requests and any number of  *)
(* accounts: its safety invariants, but for the one that a run refutes.     *)
(***************************************************************************)
EXTENDS PolkitAgent, SequenceTheorems, TLAPS

Over == {"removed", "freed"}
Lives == [Requests -> {"new", "queued", "shown"} \cup Over]
Replies == [Requests -> Seq({"granted", "refused", "failed"})]

\* What start_next relies on: nothing is shown, the queue holds exactly the
\* requests that wait, each once, and those that are over have their answer.
Settled(waits, lives, replies) ==
    /\ waits \in Seq(Requests) /\ lives \in Lives /\ replies \in Replies
    /\ \A i, k \in 1..Len(waits) : waits[i] = waits[k] => i = k
    /\ \A r \in Requests : lives[r] = "queued" <=> \E i \in 1..Len(waits) : waits[i] = r
    /\ \A r \in Requests : lives[r] # "shown"
    /\ \A r \in Requests : Len(replies[r]) = (IF lives[r] \in Over THEN 1 ELSE 0)

\* What is typed was typed in the dialog that is shown.
TypedHere == typed \subseteq (IF current = None THEN {} ELSE {Dialog})

\* The callbacks to come that free a request find it answered.
FreesTheRemoved ==
    \A k \in 1..Len(idles) : idles[k].does = "free" => life[idles[k].request] \in Over

DialogInv == SessionIsTheDialogs /\ TypedHere /\ PasswordStaysInItsDialog
QueueInv == WaitTheirTurn /\ AnsweredOnce /\ FreesTheRemoved
Inv == TypeOK /\ DialogInv /\ QueueInv

-----------------------------------------------------------------------------
(***************************************************************************)
(* start_next.                                                              *)
(***************************************************************************)
\* The part of the type that start_next writes.
QueueType ==
    /\ queue \in Seq(Requests) /\ current \in Requests \cup {None}
    /\ session \in Dialogs \cup {NoSession}
    /\ waiting \in BOOLEAN /\ checking \in BOOLEAN /\ typed \subseteq Dialogs
    /\ life \in Lives /\ reply \in Replies

\* It shows the first request it can, answers those before it, and leaves the
\* rest waiting: what it relies on holds of the dialog that is shown then.
LEMMA StartNextServes ==
    ASSUME NEW waits, NEW lives, NEW replies, Settled(waits, lives, replies),
           identity \in [Requests -> Accounts], identity' = identity,
           StartNext(waits, lives, replies)
    PROVE  /\ QueueType' /\ SessionIsTheDialogs' /\ typed' = {}
           /\ WaitTheirTurn' /\ AnsweredOnce'
           /\ \A r \in Requests : lives[r] \in Over => life'[r] \in Over
  <1>1. PICK first \in 1..(Len(waits) + 1) :
          LET failed == {waits[k] : k \in 1..(first - 1)}
              now == IF first > Len(waits) THEN None ELSE waits[first]
          IN  /\ queue' = SubSeq(waits, first + 1, Len(waits))
              /\ current' = now
              /\ session' = IF now = None THEN NoSession ELSE <<now, identity[now]>>
              /\ life' = [r \in Requests |-> IF r \in failed THEN "freed"
                                             ELSE IF r = now THEN "shown" ELSE lives[r]]
              /\ reply' = [r \in Requests |-> IF r \in failed
                                              THEN Append(replies[r], "failed")
                                              ELSE replies[r]]
              /\ waiting' = FALSE /\ checking' = FALSE /\ typed' = {}
    BY DEF StartNext
  <1> DEFINE failed == {waits[k] : k \in 1..(first - 1)}
             now == IF first > Len(waits) THEN None ELSE waits[first]
  <1>2. /\ waits \in Seq(Requests) /\ Len(waits) \in Nat
        /\ \A k \in 1..Len(waits) : waits[k] \in Requests
    BY DEF Settled
  <1>3. /\ Len(queue') = (IF first <= Len(waits) THEN Len(waits) - first ELSE 0)
        /\ \A i \in 1..Len(queue') : queue'[i] = waits[first + i]
        /\ queue' \in Seq(Requests)
    <2>1. \A i \in (first + 1)..Len(waits) : waits[i] \in Requests
      BY <1>2
    <2>2. first + 1 \in Int /\ Len(waits) \in Int
      BY <1>2
    <2>3. /\ queue' \in Seq(Requests)
          /\ Len(queue') = (IF first + 1 <= Len(waits) THEN Len(waits) - (first + 1) + 1 ELSE 0)
          /\ \A i \in 1..(Len(waits) - (first + 1) + 1) : queue'[i] = waits[first + 1 + i - 1]
      BY ONLY <1>1, <2>1, <2>2, SubSeqProperties
    <2> QED BY <1>2, <2>3
  <1>4. /\ current' = now /\ now \in Requests \cup {None}
        /\ now = None <=> first > Len(waits)
    BY <1>1, <1>2, PolkitAgentAssumption
  <1>5. failed \subseteq Requests /\ now \notin failed
    BY <1>2, PolkitAgentAssumption DEF Settled
  <1>6. /\ life' = [r \in Requests |-> IF r \in failed THEN "freed"
                                       ELSE IF r = now THEN "shown" ELSE lives[r]]
        /\ reply' = [r \in Requests |-> IF r \in failed THEN Append(replies[r], "failed")
                                        ELSE replies[r]]
    BY <1>1
  <1>7. \A r \in Requests : r \in failed \/ r = now => lives[r] = "queued"
    <2> TAKE r \in Requests
    <2>1. r \in failed \/ r = now => \E i \in 1..Len(waits) : waits[i] = r
      BY <1>2, <1>4, PolkitAgentAssumption
    <2> QED BY <2>1 DEF Settled
  <1>8. /\ session' = (IF now = None THEN NoSession ELSE <<now, identity[now]>>)
        /\ waiting' = FALSE /\ checking' = FALSE /\ typed' = {}
    BY <1>1
  <1>a. \A r \in Requests : (\E i \in 1..Len(queue') : queue'[i] = r)
          <=> /\ \E i \in 1..Len(waits) : waits[i] = r
              /\ r \notin failed /\ r # now
    <2> TAKE r \in Requests
    <2>1. ASSUME NEW i \in 1..Len(queue'), queue'[i] = r
          PROVE  (\E k \in 1..Len(waits) : waits[k] = r) /\ r \notin failed /\ r # now
      <3>1. first + i \in 1..Len(waits) /\ waits[first + i] = r /\ first <= Len(waits)
        BY <1>2, <1>3, <2>1
      <3> QED BY <1>2, <3>1, PolkitAgentAssumption DEF Settled
    <2>2. ASSUME NEW k \in 1..Len(waits), waits[k] = r, r \notin failed, r # now
          PROVE  \E i \in 1..Len(queue') : queue'[i] = r
      <3>1. k > first
        BY <1>2, <2>2
      <3>2. k - first \in 1..Len(queue')
        BY <1>2, <1>3, <3>1
      <3>3. queue'[k - first] = r
        BY <1>2, <1>3, <2>2, <3>2
      <3> QED BY <3>2, <3>3
    <2> QED BY <2>1, <2>2
  <1> HIDE DEF failed, now
  <1>9. life' \in Lives
    BY <1>6 DEF Settled, Lives, Over
  <1>10. reply' \in Replies
    <2>1. \A r \in Requests : Append(replies[r], "failed")
                                \in Seq({"granted", "refused", "failed"})
      BY DEF Settled, Replies
    <2> QED BY <1>6, <2>1 DEF Settled, Replies
  <1>11. QueueType'
    <2>1. session' \in Dialogs \cup {NoSession}
      BY <1>4, <1>8 DEF Dialogs
    <2> QED BY <1>3, <1>4, <1>8, <1>9, <1>10, <2>1 DEF QueueType
  <1>12. SessionIsTheDialogs'
    BY <1>4, <1>8 DEF SessionIsTheDialogs, Dialog
  <1>13. WaitTheirTurn'
    <2>1. queue' # <<>> => current' # None
      BY <1>2, <1>3, <1>4
    <2>2. \A i, k \in 1..Len(queue') : queue'[i] = queue'[k] => i = k
      <3> TAKE i, k \in 1..Len(queue')
      <3> HAVE queue'[i] = queue'[k]
      <3>1. /\ first + i \in 1..Len(waits) /\ first + k \in 1..Len(waits)
            /\ queue'[i] = waits[first + i] /\ queue'[k] = waits[first + k]
        BY <1>2, <1>3
      <3>2. first + i = first + k
        BY <3>1 DEF Settled
      <3> QED BY <1>2, <1>3, <3>2
    <2>3. \A r \in Requests : life'[r] = "queued" <=> \E i \in 1..Len(queue') : queue'[i] = r
      BY <1>6, <1>a DEF Settled
    <2>4. \A r \in Requests : life'[r] = "shown" <=> r = current'
      BY <1>4, <1>5, <1>6 DEF Settled
    <2> QED BY <2>1, <2>2, <2>3, <2>4 DEF WaitTheirTurn
  <1>14. AnsweredOnce'
    <2> SUFFICES ASSUME NEW r \in Requests
                 PROVE  Len(reply'[r]) = (IF life'[r] \in Over THEN 1 ELSE 0)
      BY DEF AnsweredOnce, Over
    <2>1. replies[r] \in Seq({"granted", "refused", "failed"})
      BY DEF Settled, Replies
    <2>2. Len(replies[r]) = (IF lives[r] \in Over THEN 1 ELSE 0)
      BY DEF Settled
    <2>3. CASE r \in failed
      <3>1. Len(replies[r]) = 0
        BY <1>7, <2>2, <2>3 DEF Over
      <3>2. Len(Append(replies[r], "failed")) = Len(replies[r]) + 1
        BY <2>1
      <3> QED BY <1>6, <2>3, <3>1, <3>2 DEF Over
    <2>4. CASE r \notin failed
      BY <1>6, <1>7, <2>2, <2>4 DEF Over
    <2> QED BY <2>3, <2>4
  <1>15. \A r \in Requests : lives[r] \in Over => life'[r] \in Over
    BY <1>6, <1>7 DEF Over
  <1> QED BY <1>8, <1>11, <1>12, <1>13, <1>14, <1>15

\* The rest of the type.
Callbacks == [does : {"cancel", "free"}, request : Requests]

HistoryType ==
    /\ gained \subseteq Requests /\ byUser \subseteq Requests /\ byPolkit \subseteq Requests
    /\ submitted \subseteq Dialogs \X Dialogs

LEMMA TypeParts == TypeOK <=> /\ QueueType /\ HistoryType
                              /\ identity \in [Requests -> Accounts]
                              /\ idles \in Seq(Callbacks)
  BY DEF TypeOK, QueueType, HistoryType, Callbacks, Lives, Replies, Over

\* Whoever is shown has the session of the dialog, so a password goes there.
LEMMA SessionShown ==
    ASSUME TypeOK, SessionIsTheDialogs
    PROVE  /\ session # NoSession <=> current # None
           /\ current # None => current \in Requests /\ Dialog \in Dialogs /\ session = Dialog
  BY PolkitAgentAssumption DEF TypeOK, SessionIsTheDialogs, Dialog, Dialogs, NoSession

\* What start_next relies on holds once the request that is shown is answered.
LEMMA FinishSettled ==
    ASSUME Inv, current # None, NEW answer \in {"granted", "refused"}
    PROVE  Settled(queue, [life EXCEPT ![current] = "freed"],
                          [reply EXCEPT ![current] = Append(@, answer)])
  <1>1. /\ QueueType /\ current \in Requests
        /\ WaitTheirTurn /\ AnsweredOnce
    BY TypeParts DEF Inv, QueueInv, QueueType
  <1>2. reply[current] \in Seq({"granted", "refused", "failed"}) /\ life[current] = "shown"
    BY <1>1 DEF QueueType, WaitTheirTurn, Replies
  <1>3. /\ Append(reply[current], answer) \in Seq({"granted", "refused", "failed"})
        /\ Len(Append(reply[current], answer)) = Len(reply[current]) + 1
    BY <1>2
  <1>4. Len(reply[current]) = 0
    BY <1>1, <1>2 DEF AnsweredOnce
  <1> DEFINE lives == [life EXCEPT ![current] = "freed"]
             replies == [reply EXCEPT ![current] = Append(@, answer)]
  <1>5. lives \in Lives /\ replies \in Replies
    BY <1>1, <1>3 DEF QueueType, Lives, Replies, Over
  <1>6. \A r \in Requests : lives[r] = "queued" <=> \E i \in 1..Len(queue) : queue[i] = r
    BY <1>1, <1>2 DEF QueueType, WaitTheirTurn, Lives
  <1>7. \A r \in Requests : lives[r] # "shown"
    BY <1>1 DEF QueueType, WaitTheirTurn, Lives
  <1>8. \A r \in Requests : Len(replies[r]) = (IF lives[r] \in Over THEN 1 ELSE 0)
    <2> TAKE r \in Requests
    <2>1. CASE r = current
      <3>1. replies[r] = Append(reply[current], answer) /\ lives[r] = "freed"
        BY <1>1, <2>1 DEF QueueType, Lives, Replies
      <3> QED BY <1>3, <1>4, <3>1 DEF Over
    <2>2. CASE r # current
      <3>1. replies[r] = reply[r] /\ lives[r] = life[r]
        BY <1>1, <2>2 DEF QueueType, Lives, Replies
      <3> QED BY <1>1, <3>1 DEF AnsweredOnce, Over
    <2> QED BY <2>1, <2>2
  <1> HIDE DEF lives, replies
  <1>9. Settled(queue, lives, replies)
    BY <1>1, <1>5, <1>6, <1>7, <1>8 DEF Settled, QueueType, WaitTheirTurn
  <1> QED BY <1>9 DEF lives, replies

\* It holds, too, when a request comes while none is shown.
LEMMA InitiateSettled ==
    ASSUME Inv, current = None, NEW r \in Requests, life[r] = "new"
    PROVE  Settled(Append(queue, r), [life EXCEPT ![r] = "queued"], reply)
  <1>1. QueueType /\ WaitTheirTurn /\ AnsweredOnce
    BY TypeParts DEF Inv, QueueInv
  <1>2. queue = <<>>
    BY <1>1 DEF WaitTheirTurn
  <1> DEFINE waits == Append(queue, r)
             lives == [life EXCEPT ![r] = "queued"]
  <1>3. waits \in Seq(Requests) /\ Len(waits) = 1 /\ waits[1] = r
    BY <1>2
  <1>4. \A i \in 1..Len(waits) : waits[i] = r
    BY <1>3
  <1>5. \A i, k \in 1..Len(waits) : waits[i] = waits[k] => i = k
    BY <1>3
  <1>6. lives \in Lives
    BY <1>1 DEF QueueType, Lives
  <1>7. \A q \in Requests : lives[q] = "queued" <=> \E i \in 1..Len(waits) : waits[i] = q
    <2>1. \A q \in Requests : life[q] # "queued"
      BY <1>1, <1>2 DEF WaitTheirTurn
    <2>2. \A q \in Requests : lives[q] = (IF q = r THEN "queued" ELSE life[q])
      BY <1>1 DEF QueueType, Lives
    <2>3. \A q \in Requests : (\E i \in 1..Len(waits) : waits[i] = q) <=> q = r
      BY <1>3, <1>4
    <2> HIDE DEF lives, waits
    <2> QED BY <2>1, <2>2, <2>3
  <1>8. \A q \in Requests : lives[q] # "shown"
    BY <1>1, PolkitAgentAssumption DEF QueueType, WaitTheirTurn, Lives
  <1>9. \A q \in Requests : Len(reply[q]) = (IF lives[q] \in Over THEN 1 ELSE 0)
    BY <1>1 DEF QueueType, AnsweredOnce, Lives, Over
  <1> HIDE DEF waits, lives
  <1>10. Settled(waits, lives, reply)
    BY <1>1, <1>3, <1>5, <1>6, <1>7, <1>8, <1>9 DEF Settled, QueueType
  <1> QED BY <1>10 DEF waits, lives

-----------------------------------------------------------------------------
(***************************************************************************)
(* The steps.  Those that end the request that is shown, or show the next,  *)
(* write the same variables.                                                *)
(***************************************************************************)
NextShown ==
    /\ QueueType' /\ SessionIsTheDialogs' /\ typed' = {}
    /\ WaitTheirTurn' /\ AnsweredOnce'
    /\ \A r \in Requests : life[r] \in Over => life'[r] \in Over

LEMMA FinishShowsNext ==
    ASSUME Inv, current # None, identity' = identity,
           NEW answer \in {"granted", "refused"}, Finish(answer)
    PROVE  NextShown
  <1> DEFINE lives == [life EXCEPT ![current] = "freed"]
             replies == [reply EXCEPT ![current] = Append(@, answer)]
  <1>1. Settled(queue, lives, replies) /\ StartNext(queue, lives, replies)
    BY FinishSettled DEF Finish
  <1>2. QueueType /\ identity \in [Requests -> Accounts]
    BY TypeParts DEF Inv
  <1>3. \A r \in Requests : life[r] \in Over => lives[r] \in Over
    BY <1>2 DEF QueueType, Lives, Over
  <1> HIDE DEF lives, replies
  <1> QED BY <1>1, <1>2, <1>3, StartNextServes DEF NextShown

\* The callbacks to come still find answered whom they free.
LEMMA CallbacksKept ==
    ASSUME TypeOK, FreesTheRemoved, idles' = idles \/ (idles' = Tail(idles) /\ idles # <<>>),
           \A r \in Requests : life[r] \in Over => life'[r] \in Over
    PROVE  idles' \in Seq(Callbacks) /\ FreesTheRemoved'
  <1>1. /\ idles \in Seq(Callbacks) /\ Len(idles) \in Nat
        /\ \A k \in 1..Len(idles) : idles[k] \in Callbacks
    BY TypeParts
  <1>2. CASE idles' = idles
    BY <1>1, <1>2 DEF FreesTheRemoved, Callbacks
  <1>3. CASE idles' = Tail(idles) /\ idles # <<>>
    <2>1. /\ idles' \in Seq(Callbacks) /\ Len(idles') = Len(idles) - 1
          /\ \A k \in 1..Len(idles') : idles'[k] = idles[k + 1]
      BY <1>1, <1>3, HeadTailProperties
    <2>2. \A k \in 1..Len(idles') : k + 1 \in 1..Len(idles)
      BY <1>1, <2>1
    <2> QED BY <1>1, <2>1, <2>2 DEF FreesTheRemoved, Callbacks
  <1> QED BY <1>2, <1>3

\* A callback that is added frees a request that is answered, or none.
LEMMA CallbackAdded ==
    ASSUME TypeOK, FreesTheRemoved, NEW c \in Callbacks, idles' = Append(idles, c),
           c.does = "free" => life'[c.request] \in Over,
           \A r \in Requests : life[r] \in Over => life'[r] \in Over
    PROVE  idles' \in Seq(Callbacks) /\ FreesTheRemoved'
  <1>1. /\ idles \in Seq(Callbacks) /\ Len(idles) \in Nat
        /\ \A k \in 1..Len(idles) : idles[k] \in Callbacks
    BY TypeParts
  <1>2. /\ idles' \in Seq(Callbacks) /\ Len(idles') = Len(idles) + 1
        /\ \A k \in 1..Len(idles) : idles'[k] = idles[k]
        /\ idles'[Len(idles) + 1] = c
    BY <1>1, AppendProperties
  <1>3. \A k \in 1..Len(idles') : idles'[k].does = "free" => life'[idles'[k].request] \in Over
    <2> TAKE k \in 1..Len(idles')
    <2>1. CASE k \in 1..Len(idles)
      BY <1>1, <1>2, <2>1 DEF FreesTheRemoved, Callbacks
    <2>2. CASE k = Len(idles) + 1
      BY <1>2, <2>2
    <2> QED BY <1>1, <1>2, <2>1, <2>2
  <1> QED BY <1>2, <1>3 DEF FreesTheRemoved

\* A step that shows the next request keeps the invariant, whatever it adds to
\* the history.
LEMMA ShownNextKeeps ==
    ASSUME Inv, NextShown, identity' = identity, HistoryType',
           idles' = idles \/ (idles' = Tail(idles) /\ idles # <<>>),
           submitted' = submitted
    PROVE  Inv'
  <1>1. TypeOK /\ FreesTheRemoved /\ PasswordStaysInItsDialog
        /\ identity \in [Requests -> Accounts]
    BY TypeParts DEF Inv, DialogInv, QueueInv
  <1>2. idles' \in Seq(Callbacks) /\ FreesTheRemoved'
    BY <1>1, CallbacksKept DEF NextShown
  <1>3. TypeOK'
    <2>1. /\ QueueType' /\ HistoryType' /\ identity' \in [Requests -> Accounts]
          /\ idles' \in Seq(Callbacks)
      BY <1>1, <1>2 DEF NextShown
    <2> QED BY <2>1 DEF TypeOK, QueueType, HistoryType, Callbacks, Lives, Replies, Over
  <1>4. TypedHere' /\ PasswordStaysInItsDialog'
    BY <1>1 DEF NextShown, TypedHere, PasswordStaysInItsDialog
  <1> QED BY <1>2, <1>3, <1>4 DEF Inv, DialogInv, QueueInv, NextShown

LEMMA InitiateInv == ASSUME Inv, NEW r \in Requests, Initiate(r) PROVE Inv'
  <1>1. /\ TypeOK /\ QueueType /\ HistoryType /\ identity \in [Requests -> Accounts]
        /\ idles \in Seq(Callbacks)
    BY TypeParts DEF Inv
  <1>2. /\ life[r] = "new" /\ identity' = identity /\ idles' = idles
        /\ gained' = gained /\ byUser' = byUser /\ byPolkit' = byPolkit
        /\ submitted' = submitted
    BY DEF Initiate, history
  <1> DEFINE lives == [life EXCEPT ![r] = "queued"]
  <1>3. \A q \in Requests : life[q] \in Over => lives[q] \in Over
    BY <1>1, <1>2 DEF QueueType, Lives, Over
  <1>4. HistoryType'
    BY <1>1, <1>2 DEF HistoryType
  <1>5. CASE current = None
    <2>1. StartNext(Append(queue, r), lives, reply)
      BY <1>5 DEF Initiate
    <2>2. Settled(Append(queue, r), lives, reply)
      BY <1>2, <1>5, InitiateSettled
    <2> HIDE DEF lives
    <2>3. NextShown
      BY <1>1, <1>2, <1>3, <2>1, <2>2, StartNextServes DEF NextShown
    <2> QED BY ONLY Inv, <1>2, <1>4, <2>3, ShownNextKeeps
  <1>6. CASE current # None
    <2>1. /\ queue' = Append(queue, r) /\ life' = lives
          /\ UNCHANGED <<current, session, waiting, checking, typed, reply>>
      BY <1>6 DEF Initiate
    <2>2. /\ queue' \in Seq(Requests) /\ Len(queue') = Len(queue) + 1 /\ Len(queue) \in Nat
          /\ \A i \in 1..Len(queue) : queue'[i] = queue[i]
          /\ queue'[Len(queue) + 1] = r
      BY <1>1, <2>1, AppendProperties DEF QueueType
    <2>3. WaitTheirTurn /\ AnsweredOnce
      BY DEF Inv, QueueInv
    <2>4. \A i \in 1..Len(queue) : queue[i] # r /\ queue[i] \in Requests
      BY <1>1, <1>2, <2>3 DEF WaitTheirTurn, QueueType
    <2>5. \A q \in Requests : life'[q] = (IF q = r THEN "queued" ELSE life[q])
      BY <1>1, <2>1 DEF QueueType, Lives
    <2>6. WaitTheirTurn'
      <3>1. \A i, k \in 1..Len(queue') : queue'[i] = queue'[k] => i = k
        <4> TAKE i, k \in 1..Len(queue')
        <4> HAVE queue'[i] = queue'[k]
        <4>1. CASE i \in 1..Len(queue) /\ k \in 1..Len(queue)
          BY <2>2, <2>3, <4>1 DEF WaitTheirTurn
        <4>2. CASE i = Len(queue) + 1 \/ k = Len(queue) + 1
          BY <2>2, <2>4, <4>2
        <4> QED BY <2>2, <4>1, <4>2
      <3>2. \A q \in Requests : life'[q] = "queued"
                                  <=> \E i \in 1..Len(queue') : queue'[i] = q
        <4> TAKE q \in Requests
        <4>1. (\E i \in 1..Len(queue') : queue'[i] = q)
                <=> q = r \/ \E i \in 1..Len(queue) : queue[i] = q
          BY <2>2
        <4> QED BY <2>3, <2>5, <4>1 DEF WaitTheirTurn
      <3>3. \A q \in Requests : life'[q] = "shown" <=> q = current'
        BY <1>2, <2>1, <2>3, <2>5 DEF WaitTheirTurn
      <3> QED BY <1>6, <2>1, <3>1, <3>2, <3>3 DEF WaitTheirTurn
    <2>7. AnsweredOnce'
      BY <1>2, <2>1, <2>3, <2>5 DEF AnsweredOnce
    <2>8. TypeOK'
      BY <1>1, <1>2, <1>4, <2>1, <2>2, <2>5
         DEF TypeOK, QueueType, HistoryType, Callbacks, Lives, Replies, Over
    <2>9. idles' \in Seq(Callbacks) /\ FreesTheRemoved'
      <3>1. \A q \in Requests : life[q] \in Over => life'[q] \in Over
        BY <1>3, <2>1
      <3>2. TypeOK /\ FreesTheRemoved /\ idles' = idles
        BY <1>2 DEF Inv, QueueInv
      <3> QED BY ONLY <3>1, <3>2, CallbacksKept
    <2>10. DialogInv'
      BY <1>2, <2>1 DEF Inv, DialogInv, SessionIsTheDialogs, TypedHere,
                        PasswordStaysInItsDialog, Dialog, NoSession
    <2> QED BY <2>6, <2>7, <2>8, <2>9, <2>10 DEF Inv, QueueInv
  <1> QED BY <1>5, <1>6

\* The steps of the helper and of the user in the dialog leave the queue alone.
LEMMA QueueUntouched ==
    ASSUME QueueInv, UNCHANGED <<queue, current, idles, life, reply>>
    PROVE  QueueInv'
  BY DEF QueueInv, WaitTheirTurn, AnsweredOnce, FreesTheRemoved

LEMMA SessionAsksInv == Inv /\ SessionAsks => Inv'
  <1> SUFFICES ASSUME Inv, SessionAsks PROVE Inv'
    OBVIOUS
  <1>1. QueueInv'
    BY QueueUntouched DEF Inv, SessionAsks
  <1>2. TypeOK'
    BY DEF Inv, SessionAsks, TypeOK, history
  <1>3. DialogInv'
    BY DEF Inv, SessionAsks, DialogInv, SessionIsTheDialogs, TypedHere,
           PasswordStaysInItsDialog, Dialog, history
  <1> QED BY <1>1, <1>2, <1>3 DEF Inv

LEMMA SessionGainsInv == Inv /\ SessionGains => Inv'
  <1> SUFFICES ASSUME Inv, SessionGains PROVE Inv'
    OBVIOUS
  <1>1. /\ TypeOK /\ HistoryType /\ session # NoSession /\ current # None
        /\ current \in Requests /\ session = Dialog
    BY TypeParts, SessionShown DEF Inv, DialogInv, SessionGains
  <1>2. NextShown
    BY <1>1, FinishShowsNext DEF SessionGains
  <1>3. HistoryType'
    BY <1>1 DEF SessionGains, HistoryType, Dialog
  <1>4. identity' = identity /\ idles' = idles /\ submitted' = submitted
    BY DEF SessionGains
  <1> QED BY <1>2, <1>3, <1>4, ShownNextKeeps

LEMMA SessionFailsInv == Inv /\ SessionFails => Inv'
  <1> SUFFICES ASSUME Inv, SessionFails PROVE Inv'
    OBVIOUS
  <1>1. TypeOK /\ current # None /\ current \in Requests /\ Dialog \in Dialogs
    BY SessionShown DEF Inv, DialogInv, SessionFails
  <1>2. /\ session' = Dialog /\ waiting' = FALSE /\ checking' = FALSE
        /\ UNCHANGED <<queue, current, identity, typed, idles, life, reply, gained, byUser,
                       byPolkit, submitted>>
    BY DEF SessionFails, BeginSession, Dialog, history
  <1>3. QueueInv'
    BY <1>2, QueueUntouched DEF Inv
  <1>4. TypeOK'
    BY <1>1, <1>2 DEF TypeOK
  <1>5. DialogInv'
    BY <1>1, <1>2 DEF Inv, DialogInv, SessionIsTheDialogs, TypedHere,
                      PasswordStaysInItsDialog, Dialog
  <1> QED BY <1>3, <1>4, <1>5 DEF Inv

LEMMA TypeInv == Inv /\ (Type \/ Clear) => Inv'
  <1> SUFFICES ASSUME Inv, Type \/ Clear PROVE Inv'
    OBVIOUS
  <1>1. /\ TypeOK /\ TypedHere /\ current # None /\ Dialog \in Dialogs
    BY SessionShown DEF Inv, DialogInv, Type, Clear
  <1>2. /\ typed' = typed \cup {Dialog} \/ typed' = {}
        /\ UNCHANGED <<queue, current, identity, session, waiting, checking, idles, life,
                       reply, gained, byUser, byPolkit, submitted>>
    BY DEF Type, Clear, history
  <1>3. QueueInv'
    BY <1>2, QueueUntouched DEF Inv
  <1>4. TypeOK'
    BY <1>1, <1>2 DEF TypeOK
  <1>5. DialogInv'
    BY <1>1, <1>2 DEF Inv, DialogInv, SessionIsTheDialogs, TypedHere,
                      PasswordStaysInItsDialog, Dialog
  <1> QED BY <1>3, <1>4, <1>5 DEF Inv

\* The only step at which a password goes anywhere.
LEMMA SubmitInv == Inv /\ Submit => Inv'
  <1> SUFFICES ASSUME Inv, Submit PROVE Inv'
    OBVIOUS
  <1>1. /\ TypeOK /\ TypedHere /\ current # None /\ Dialog \in Dialogs /\ session = Dialog
    BY SessionShown DEF Inv, DialogInv, Submit
  <1>2. /\ waiting' = FALSE /\ checking' = TRUE /\ typed' = {}
        /\ UNCHANGED <<queue, current, identity, session, idles, life, reply, gained, byUser,
                       byPolkit>>
    BY DEF Submit
  <1>3. submitted' \subseteq submitted \cup {<<Dialog, Dialog>>}
    BY <1>1 DEF Submit, TypedHere
  <1>4. QueueInv'
    BY <1>2, QueueUntouched DEF Inv
  <1>5. TypeOK'
    <2>1. submitted' \subseteq Dialogs \X Dialogs
      BY <1>1, <1>3 DEF TypeOK
    <2> QED BY <1>1, <1>2, <2>1 DEF TypeOK
  <1>6. DialogInv'
    <2>1. PasswordStaysInItsDialog'
      BY <1>3 DEF Inv, DialogInv, PasswordStaysInItsDialog
    <2> QED BY <1>2, <2>1 DEF Inv, DialogInv, SessionIsTheDialogs, TypedHere, Dialog
  <1> QED BY <1>4, <1>5, <1>6 DEF Inv

LEMMA NextIdentityInv == ASSUME Inv, NEW account \in Accounts, NextIdentity(account)
                         PROVE  Inv'
  <1>1. TypeOK /\ current # None /\ current \in Requests
    BY SessionShown DEF Inv, DialogInv, NextIdentity
  <1>2. /\ identity' = [identity EXCEPT ![current] = account]
        /\ typed' = {} /\ session' = <<current, account>>
        /\ waiting' = FALSE /\ checking' = FALSE
        /\ UNCHANGED <<queue, current, idles, life, reply, gained, byUser, byPolkit,
                       submitted>>
    BY DEF NextIdentity, BeginSession, history
  <1>3. identity' \in [Requests -> Accounts] /\ identity'[current] = account
    BY <1>1, <1>2 DEF TypeOK
  <1>4. QueueInv'
    BY <1>2, QueueUntouched DEF Inv
  <1>5. TypeOK'
    BY <1>1, <1>2, <1>3 DEF TypeOK, Dialogs
  <1>6. DialogInv'
    BY <1>1, <1>2, <1>3 DEF Inv, DialogInv, SessionIsTheDialogs, TypedHere,
                            PasswordStaysInItsDialog, Dialog
  <1> QED BY <1>4, <1>5, <1>6 DEF Inv

LEMMA UserCancelsInv == Inv /\ UserCancels => Inv'
  <1> SUFFICES ASSUME Inv, UserCancels PROVE Inv'
    OBVIOUS
  <1>1. TypeOK /\ HistoryType /\ current # None /\ current \in Requests
    BY TypeParts, SessionShown DEF Inv, DialogInv, UserCancels
  <1>2. NextShown
    BY <1>1, FinishShowsNext DEF UserCancels
  <1>3. HistoryType'
    BY <1>1 DEF UserCancels, HistoryType
  <1>4. identity' = identity /\ idles' = idles /\ submitted' = submitted
    BY DEF UserCancels
  <1> QED BY <1>2, <1>3, <1>4, ShownNextKeeps

LEMMA PolkitCancelsShownInv == Inv /\ PolkitCancelsShown => Inv'
  <1> SUFFICES ASSUME Inv, PolkitCancelsShown PROVE Inv'
    OBVIOUS
  <1> DEFINE c == [does |-> "cancel", request |-> current]
  <1>1. TypeOK /\ FreesTheRemoved /\ current \in Requests
    BY SessionShown DEF Inv, DialogInv, QueueInv, PolkitCancelsShown
  <1>2. /\ byPolkit' = byPolkit \cup {current} /\ idles' = Append(idles, c)
        /\ UNCHANGED <<queue, current, identity, session, waiting, checking, typed, life,
                       reply, gained, byUser, submitted>>
    BY DEF PolkitCancelsShown
  <1>3. c \in Callbacks /\ c.does # "free"
    BY <1>1 DEF Callbacks
  <1> HIDE DEF c
  <1>4. idles' \in Seq(Callbacks) /\ FreesTheRemoved'
    BY <1>1, <1>2, <1>3, CallbackAdded
  <1>5. TypeOK'
    BY <1>1, <1>2, <1>4 DEF TypeOK, Callbacks
  <1>6. DialogInv'
    BY <1>2 DEF Inv, DialogInv, SessionIsTheDialogs, TypedHere, PasswordStaysInItsDialog,
                Dialog
  <1>7. WaitTheirTurn' /\ AnsweredOnce'
    BY <1>2 DEF Inv, QueueInv, WaitTheirTurn, AnsweredOnce
  <1> QED BY <1>4, <1>5, <1>6, <1>7 DEF Inv, QueueInv

LEMMA RunCancelInv == Inv /\ RunCancel => Inv'
  <1> SUFFICES ASSUME Inv, RunCancel PROVE Inv'
    OBVIOUS
  <1>1. TypeOK /\ HistoryType /\ FreesTheRemoved
    BY TypeParts DEF Inv, QueueInv
  <1>2. /\ idles # <<>> /\ idles' = Tail(idles) /\ identity' = identity
        /\ UNCHANGED <<gained, byUser, byPolkit, submitted>>
    BY DEF RunCancel, history
  <1>3. HistoryType'
    BY <1>1, <1>2 DEF HistoryType
  <1>4. CASE current # None
    <2>1. NextShown
      BY <1>2, <1>4, FinishShowsNext DEF RunCancel
    <2> QED BY <1>2, <1>3, <2>1, ShownNextKeeps
  <1>5. CASE current = None
    <2>1. UNCHANGED <<queue, current, session, waiting, checking, typed, life, reply>>
      BY <1>5 DEF RunCancel
    <2>2. idles' \in Seq(Callbacks) /\ FreesTheRemoved'
      BY <1>1, <1>2, <2>1, CallbacksKept
    <2>3. TypeOK'
      BY <1>1, <1>2, <2>1, <2>2 DEF TypeOK, Callbacks
    <2>4. DialogInv'
      BY <1>2, <2>1 DEF Inv, DialogInv, SessionIsTheDialogs, TypedHere,
                        PasswordStaysInItsDialog, Dialog
    <2>5. WaitTheirTurn' /\ AnsweredOnce'
      BY <2>1 DEF Inv, QueueInv, WaitTheirTurn, AnsweredOnce
    <2> QED BY <2>2, <2>3, <2>4, <2>5 DEF Inv, QueueInv
  <1> QED BY <1>4, <1>5

\* A request that waits and is given up leaves the queue, answered.
LEMMA PolkitCancelsQueuedInv ==
    ASSUME Inv, NEW r \in Requests, PolkitCancelsQueued(r) PROVE Inv'
  <1> DEFINE c == [does |-> "free", request |-> r]
  <1>1. /\ TypeOK /\ QueueType /\ WaitTheirTurn /\ AnsweredOnce /\ FreesTheRemoved
    BY TypeParts DEF Inv, QueueInv
  <1>2. /\ r # current /\ byPolkit' = byPolkit \cup {r} /\ idles' = Append(idles, c)
        /\ life' = [life EXCEPT ![r] = "removed"]
        /\ reply' = [reply EXCEPT ![r] = Append(@, "refused")]
        /\ UNCHANGED <<current, identity, session, waiting, checking, typed, gained, byUser,
                       submitted>>
    BY DEF PolkitCancelsQueued
  <1>3. PICK at \in 1..Len(queue) :
          /\ queue[at] = r
          /\ queue' = [k \in 1..(Len(queue) - 1) |-> queue[IF k < at THEN k ELSE k + 1]]
    BY DEF PolkitCancelsQueued
  <1>4. Len(queue) \in Nat \ {0} /\ \A k \in 1..Len(queue) : queue[k] \in Requests
    BY <1>1 DEF QueueType
  <1>5. /\ queue' \in Seq(Requests) /\ Len(queue') = Len(queue) - 1
        /\ \A k \in 1..Len(queue') : queue'[k] = queue[IF k < at THEN k ELSE k + 1]
    <2>1. queue' \in [1..(Len(queue) - 1) -> Requests]
      BY <1>3, <1>4
    <2>2. Len(queue) - 1 \in Nat
      BY <1>4
    <2>3. queue' \in Seq(Requests)
      BY <2>1, <2>2, SeqDef
    <2>4. DOMAIN queue' = 1..(Len(queue) - 1)
      BY <2>1
    <2>5. Len(queue') = Len(queue) - 1
      BY <2>2, <2>3, <2>4, LenProperties
    <2> QED BY <1>3, <2>3, <2>5
  <1>6. life[r] = "queued"
    BY <1>1, <1>3 DEF WaitTheirTurn
  <1>7. \A q \in Requests : life'[q] = (IF q = r THEN "removed" ELSE life[q])
    BY <1>1, <1>2 DEF QueueType, Lives
  <1>8. \A q \in Requests : (\E k \in 1..Len(queue') : queue'[k] = q)
          <=> q # r /\ \E k \in 1..Len(queue) : queue[k] = q
    <2> TAKE q \in Requests
    <2>1. ASSUME NEW k \in 1..Len(queue'), queue'[k] = q
          PROVE  q # r /\ \E i \in 1..Len(queue) : queue[i] = q
      <3> DEFINE i == IF k < at THEN k ELSE k + 1
      <3>1. i \in 1..Len(queue) /\ queue[i] = q /\ i # at
        BY <1>4, <1>5, <2>1
      <3> HIDE DEF i
      <3> QED BY <1>1, <1>3, <3>1 DEF WaitTheirTurn
    <2>2. ASSUME NEW i \in 1..Len(queue), queue[i] = q, q # r
          PROVE  \E k \in 1..Len(queue') : queue'[k] = q
      <3> DEFINE k == IF i < at THEN i ELSE i - 1
      <3>1. i # at
        BY <1>3, <2>2
      <3>2. k \in 1..Len(queue') /\ i = (IF k < at THEN k ELSE k + 1)
        BY <1>4, <1>5, <3>1
      <3> HIDE DEF k
      <3> QED BY <1>5, <2>2, <3>2
    <2> QED BY <2>1, <2>2
  <1>9. WaitTheirTurn'
    <2>1. queue' # <<>> => current' # None
      BY <1>1, <1>2, <1>4 DEF WaitTheirTurn
    <2>2. \A i, k \in 1..Len(queue') : queue'[i] = queue'[k] => i = k
      <3> TAKE i, k \in 1..Len(queue')
      <3> HAVE queue'[i] = queue'[k]
      <3> DEFINE from(j) == IF j < at THEN j ELSE j + 1
      <3>1. from(i) \in 1..Len(queue) /\ from(k) \in 1..Len(queue)
        BY <1>4, <1>5
      <3>2. queue[from(i)] = queue[from(k)]
        BY <1>5
      <3>3. from(i) = from(k)
        BY <1>1, <3>1, <3>2 DEF WaitTheirTurn
      <3> QED BY <1>4, <1>5, <3>3
    <2>3. \A q \in Requests : life'[q] = "queued" <=> \E i \in 1..Len(queue') : queue'[i] = q
      BY <1>1, <1>7, <1>8 DEF WaitTheirTurn
    <2>4. \A q \in Requests : life'[q] = "shown" <=> q = current'
      BY <1>1, <1>2, <1>7 DEF WaitTheirTurn
    <2> QED BY <2>1, <2>2, <2>3, <2>4 DEF WaitTheirTurn
  <1>10. reply[r] \in Seq({"granted", "refused", "failed"}) /\ Len(reply[r]) = 0
    BY <1>1, <1>6 DEF QueueType, Replies, AnsweredOnce
  <1>11. /\ Append(reply[r], "refused") \in Seq({"granted", "refused", "failed"})
         /\ Len(Append(reply[r], "refused")) = 1
    BY <1>10
  <1>12. \A q \in Requests :
           reply'[q] = (IF q = r THEN Append(reply[r], "refused") ELSE reply[q])
    BY <1>1, <1>2 DEF QueueType, Replies
  <1>13. AnsweredOnce'
    BY <1>1, <1>7, <1>11, <1>12 DEF AnsweredOnce
  <1>14. life' \in Lives /\ reply' \in Replies
    BY <1>1, <1>2, <1>11 DEF QueueType, Lives, Replies, Over
  <1>15. c \in Callbacks /\ life'[c.request] \in Over
    BY <1>7 DEF Callbacks, Over
  <1>16. \A q \in Requests : life[q] \in Over => life'[q] \in Over
    BY <1>7 DEF Over
  <1> HIDE DEF c
  <1>17. idles' \in Seq(Callbacks) /\ FreesTheRemoved'
    BY <1>1, <1>2, <1>15, <1>16, CallbackAdded
  <1>18. TypeOK'
    <2>1. byPolkit' \subseteq Requests
      BY <1>1, <1>2 DEF TypeOK
    <2>2. /\ TypeOK /\ queue' \in Seq(Requests)
          /\ UNCHANGED <<current, identity, session, waiting, checking, typed, gained, byUser,
                         submitted>>
      BY <1>1, <1>2, <1>5
    <2> QED BY <1>14, <1>17, <2>1, <2>2 DEF TypeOK, Callbacks, Lives, Replies, Over
  <1>19. DialogInv'
    BY <1>2 DEF Inv, DialogInv, SessionIsTheDialogs, TypedHere, PasswordStaysInItsDialog,
                Dialog
  <1> QED BY <1>9, <1>13, <1>17, <1>18, <1>19 DEF Inv, QueueInv

LEMMA RunFreeInv == Inv /\ RunFree => Inv'
  <1> SUFFICES ASSUME Inv, RunFree PROVE Inv'
    OBVIOUS
  <1> DEFINE r == Head(idles).request
  <1>1. /\ TypeOK /\ QueueType /\ WaitTheirTurn /\ AnsweredOnce /\ FreesTheRemoved
        /\ idles \in Seq(Callbacks)
    BY TypeParts DEF Inv, QueueInv
  <1>2. /\ idles # <<>> /\ Head(idles).does = "free" /\ idles' = Tail(idles)
        /\ life' = [life EXCEPT ![r] = "freed"]
        /\ UNCHANGED <<queue, current, identity, session, waiting, checking, typed, reply,
                       gained, byUser, byPolkit, submitted>>
    BY DEF RunFree, history
  <1>3. r \in Requests /\ life[r] \in Over
    <2>1. Head(idles) = idles[1] /\ 1 \in 1..Len(idles) /\ Head(idles) \in Callbacks
      BY <1>1, <1>2, HeadTailProperties
    <2> QED BY <1>1, <1>2, <2>1 DEF FreesTheRemoved, Callbacks
  <1> HIDE DEF r
  <1>4. \A q \in Requests : life'[q] = (IF q = r THEN "freed" ELSE life[q])
    BY <1>1, <1>2 DEF QueueType, Lives
  <1>5. \A q \in Requests : life[q] \in Over <=> life'[q] \in Over
    BY <1>3, <1>4 DEF Over
  <1>6. \A q \in Requests : /\ life'[q] = "queued" <=> life[q] = "queued"
                            /\ life'[q] = "shown" <=> life[q] = "shown"
    BY <1>3, <1>4 DEF Over
  <1>7. WaitTheirTurn'
    BY <1>1, <1>2, <1>6 DEF WaitTheirTurn
  <1>8. AnsweredOnce'
    BY <1>1, <1>2, <1>5 DEF AnsweredOnce, Over
  <1>9. idles' \in Seq(Callbacks) /\ FreesTheRemoved'
    BY <1>1, <1>2, <1>5, CallbacksKept
  <1>10. TypeOK'
    <2>1. life' \in Lives
      BY <1>1, <1>2 DEF QueueType, Lives, Over
    <2> QED BY <1>1, <1>2, <1>9, <2>1 DEF TypeOK, Callbacks, Lives, Over
  <1>11. DialogInv'
    BY <1>2 DEF Inv, DialogInv, SessionIsTheDialogs, TypedHere, PasswordStaysInItsDialog,
                Dialog
  <1> QED BY <1>7, <1>8, <1>9, <1>10, <1>11 DEF Inv, QueueInv

-----------------------------------------------------------------------------
(***************************************************************************)
(* The inductive invariant of the specification, and what it says.          *)
(***************************************************************************)
LEMMA InitInv == Init => Inv
  <1> SUFFICES ASSUME Init PROVE Inv
    OBVIOUS
  <1>1. TypeOK
    <2>1. queue \in Seq(Requests) /\ idles \in Seq(Callbacks)
      BY EmptySeq DEF Init
    <2>2. /\ current \in Requests \cup {None} /\ identity \in [Requests -> Accounts]
          /\ session \in Dialogs \cup {NoSession} /\ waiting \in BOOLEAN /\ checking \in BOOLEAN
      BY DEF Init
    <2>3. /\ typed \subseteq Dialogs /\ gained \subseteq Requests /\ byUser \subseteq Requests
          /\ byPolkit \subseteq Requests /\ submitted \subseteq Dialogs \X Dialogs
      BY DEF Init
    <2>4. life \in [Requests -> {"new", "queued", "shown", "removed", "freed"}]
      BY DEF Init
    <2>5. reply \in [Requests -> Seq({"granted", "refused", "failed"})]
      BY EmptySeq DEF Init
    <2> QED BY <2>1, <2>2, <2>3, <2>4, <2>5 DEF TypeOK, Callbacks
  <1>2. DialogInv
    BY DEF Init, DialogInv, SessionIsTheDialogs, TypedHere, PasswordStaysInItsDialog
  <1>3. QueueInv
    BY PolkitAgentAssumption DEF Init, QueueInv, WaitTheirTurn, AnsweredOnce,
                                 FreesTheRemoved
  <1> QED BY <1>1, <1>2, <1>3 DEF Inv

LEMMA NextInv == Inv /\ [Next]_vars => Inv'
  <1> SUFFICES ASSUME Inv, [Next]_vars PROVE Inv'
    OBVIOUS
  <1>1. ASSUME NEW r \in Requests, Initiate(r) PROVE Inv'
    BY <1>1, InitiateInv
  <1>2. ASSUME NEW r \in Requests, PolkitCancelsQueued(r) PROVE Inv'
    BY <1>2, PolkitCancelsQueuedInv
  <1>3. ASSUME NEW account \in Accounts, NextIdentity(account) PROVE Inv'
    BY <1>3, NextIdentityInv
  <1>4. CASE SessionAsks \/ SessionGains \/ SessionFails
    BY <1>4, SessionAsksInv, SessionGainsInv, SessionFailsInv
  <1>5. CASE Type \/ Clear \/ Submit \/ UserCancels
    BY <1>5, TypeInv, SubmitInv, UserCancelsInv
  <1>6. CASE PolkitCancelsShown \/ RunCancel \/ RunFree
    BY <1>6, PolkitCancelsShownInv, RunCancelInv, RunFreeInv
  <1>7. CASE UNCHANGED vars
    BY <1>7 DEF vars, history, Inv, TypeOK, DialogInv, SessionIsTheDialogs, TypedHere,
                PasswordStaysInItsDialog, Dialog, QueueInv, WaitTheirTurn, AnsweredOnce,
                FreesTheRemoved
  <1> QED BY <1>1, <1>2, <1>3, <1>4, <1>5, <1>6, <1>7 DEF Next

\* The variables keep their types: in particular the account of a dialog is one
\* of those the request may be signed in for, however often it is changed.
THEOREM TypeCorrect == Spec => []TypeOK
  <1>1. Inv => TypeOK
    BY DEF Inv
  <1> QED BY InitInv, NextInv, <1>1, PTL DEF Spec

\* Every request gets exactly one answer, by the time it is gone and not before,
\* in whatever order it is cancelled, refused, granted or has nobody to ask.
THEOREM OneAnswer == Spec => []AnsweredOnce
  <1>1. Inv => AnsweredOnce
    BY DEF Inv, QueueInv
  <1> QED BY InitInv, NextInv, <1>1, PTL DEF Spec

\* The queue holds exactly the requests that wait, each once, and is empty
\* unless one is shown: nobody is forgotten in it.
THEOREM TurnsKept == Spec => []WaitTheirTurn
  <1>1. Inv => WaitTheirTurn
    BY DEF Inv, QueueInv
  <1> QED BY InitInv, NextInv, <1>1, PTL DEF Spec

\* The helper checks the account of the dialog that is shown, also after it was
\* changed or another request took its place.
THEOREM SessionOfTheDialog == Spec => []SessionIsTheDialogs
  <1>1. Inv => SessionIsTheDialogs
    BY DEF Inv, DialogInv
  <1> QED BY InitInv, NextInv, <1>1, PTL DEF Spec

\* A password only ever goes to the session of the dialog it was typed in.
THEOREM PasswordStays == Spec => []PasswordStaysInItsDialog
  <1>1. Inv => PasswordStaysInItsDialog
    BY DEF Inv, DialogInv
  <1> QED BY InitInv, NextInv, <1>1, PTL DEF Spec

=============================================================================
