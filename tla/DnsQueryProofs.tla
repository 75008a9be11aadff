--------------------------- MODULE DnsQueryProofs ----------------------------
(***************************************************************************)
(* Theorems about DnsQuery, for any number of ids, questions, servers and  *)
(* connections and whatever the network repeats, loses or is late with: a  *)
(* question gets one answer, it is to that question, and it goes to whom   *)
(* asked it.  It is SERVFAIL before the deadline only when every server    *)
(* has failed, or the one that is asked over TCP, if nothing is repeated   *)
(* or late.  And the cache is sound.                                       *)
(***************************************************************************)
EXTENDS DnsQuery, FiniteSetTheorems, TLAPS

\* The types the arguments need: all but that of the cache, which has its own.
Endings == {"answer", "failed", "tcp", "deadline"}

Recorded == [kind : Kinds, name : Names \cup {"none"}, client : 0..MaxAccepts,
             end : {"unasked", "open"} \cup Endings, replies : Nat,
             got : Names \cup {"none", "servfail"}, at : 0..MaxAccepts, failed : SUBSET Targets]

TypeInv ==
    /\ world \in Worlds
    /\ pend \in [Ids -> Pendings \cup {Free}]
    /\ gen \in 0..world.questions
    /\ asked \subseteq Asked /\ jobs \subseteq Jobs
    /\ conns \in [Conns -> [serial : 0..MaxAccepts, client : 0..MaxAccepts]]
    /\ serials \in 0..MaxAccepts /\ accepts \in 0..MaxAccepts
    /\ log \in [Gens -> Recorded]

\* A serial is of one connection, and never used again.
ConnsFit ==
    /\ serials = accepts
    /\ \A c \in Conns : conns[c].serial = conns[c].client /\ conns[c].client <= accepts
    /\ \A c, d \in Conns : conns[c].serial = conns[d].serial /\ c # d => conns[c].serial = 0

\* What is pending under an id is open, and still what was asked by whom.
PendFits(id) ==
    pend[id] # Free =>
        LET p == pend[id]
            q == log[p.gen]
        IN  /\ p.gen <= gen /\ q.end = "open"
            /\ q.kind = p.kind /\ q.name = p.name /\ q.client = p.serial

OneId ==
    \A i, j \in Ids : pend[i] # Free /\ pend[j] # Free /\ pend[i].gen = pend[j].gen => i = j

\* A thread's question is one that was asked, and the one pending under its id if
\* that has the same gen.
JobsFit ==
    \A j \in jobs : /\ j.gen <= gen
                    /\ pend[j.id] # Free /\ pend[j.id].gen = j.gen => pend[j.id].name = j.name

\* What the record of a question says at each of its stages.
AskerFits(q) == q.client <= accepts /\ (q.kind = "tcp" <=> q.client # 0)

EndFits(q) ==
    /\ q.end \notin {"unasked", "open"} =>
         /\ q.got \in {"servfail", q.name}
         /\ q.replies = 0 \/ (q.replies = 1 /\ q.at = q.client /\ q.kind # "prefetch")
         /\ StillListens(q) => q.replies = 1
    /\ q.end = "open" => q.replies = 0 /\ q.got = "none" /\ q.at = 0

LogFits(g) ==
    /\ g > gen => log[g] = Unasked
    /\ g <= gen => log[g].end # "unasked"
    /\ log[g].end = "open" => \E id \in Ids : pend[id] # Free /\ pend[id].gen = g
    /\ AskerFits(log[g]) /\ EndFits(log[g])

QuestionInv ==
    /\ TypeInv /\ ConnsFit /\ OneId /\ JobsFit
    /\ \A id \in Ids : PendFits(id)
    /\ \A g \in Gens : LogFits(g)

-----------------------------------------------------------------------------
LEMMA WorldFits ==
    ASSUME world \in Worlds
    PROVE  /\ world.servers \in Nat /\ world.questions \in Nat /\ Batch \in Nat
           /\ world.doh \subseteq Targets /\ MaxAccepts \in Nat
    BY DnsQueryAssumption DEF Targets

LEMMA FreeIsNone == Free \notin Pendings /\ Free.gen = 0
    BY DEF Free, Pendings, Gens

LEMMA PendingHasGen ==
    ASSUME TypeInv, NEW id \in Ids
    PROVE  /\ pend[id] # Free => pend[id] \in Pendings /\ pend[id].gen \in Gens
           /\ \A g \in Gens : pend[id].gen = g => pend[id] # Free
    BY FreeIsNone DEF TypeInv, Pendings, Gens, Free

LEMMA QuestionInit == Init => QuestionInv
<1> SUFFICES ASSUME Init PROVE QuestionInv
    OBVIOUS
<1>1. TypeInv
    BY DnsQueryAssumption DEF Init, TypeInv, Closed, Unasked, Recorded, Kinds, Gens
<1>2. ConnsFit
    BY DEF Init, ConnsFit, Closed
<1>3. OneId /\ JobsFit /\ \A id \in Ids : PendFits(id)
    BY DEF Init, OneId, JobsFit, PendFits
<1>4. \A g \in Gens : LogFits(g)
    BY DEF Init, LogFits, Gens, AskerFits, EndFits, Unasked
<1> QED
    BY <1>1, <1>2, <1>3, <1>4 DEF QuestionInv

-----------------------------------------------------------------------------
\* A question goes on under its id: what it is and who asked it stay.
SameQuestion(p, q) == q.gen = p.gen /\ q.kind = p.kind /\ q.name = p.name /\ q.serial = p.serial

JobsOf(id, p, work) == \A j \in jobs' : j \in work \/ (j.id = id /\ j.gen = p.gen /\ j.name = p.name)

LEMMA GoesOn ==
    ASSUME QuestionInv, NEW id \in Ids, pend[id] # Free, NEW q \in Pendings,
           SameQuestion(pend[id], q), pend' = [pend EXCEPT ![id] = q],
           asked' \subseteq Asked, jobs' \subseteq Jobs, JobsOf(id, q, jobs),
           UNCHANGED <<world, gen, conns, serials, accepts, log>>
    PROVE  QuestionInv'
<1>1. \A i \in Ids : pend'[i] = IF i = id THEN q ELSE pend[i]
    BY DEF QuestionInv, TypeInv
<1>2. q # Free /\ pend[id] \in Pendings /\ q.gen \in Gens
    BY FreeIsNone DEF QuestionInv, TypeInv, Pendings
<1>3. TypeInv'
    BY DEF QuestionInv, TypeInv, Pendings, Gens, Targets, Asked, Jobs, Recorded
<1>4. ConnsFit'
    BY DEF QuestionInv, ConnsFit
<1>5. OneId'
    BY <1>1, <1>2 DEF QuestionInv, OneId, SameQuestion
<1>6. JobsFit'
    <2> SUFFICES ASSUME NEW j \in jobs'
                 PROVE  /\ j.gen <= gen
                        /\ pend'[j.id] # Free /\ pend'[j.id].gen = j.gen => pend'[j.id].name = j.name
        BY DEF JobsFit
    <2>1. j.id \in Ids
        BY DEF Jobs
    <2>2. CASE j \in jobs
        BY <1>1, <2>1, <2>2 DEF QuestionInv, JobsFit, SameQuestion
    <2>3. CASE j.id = id /\ j.gen = q.gen /\ j.name = q.name
        BY <1>1, <1>2, <2>3 DEF QuestionInv, PendFits, SameQuestion
    <2> QED
        BY <2>2, <2>3 DEF JobsOf
<1>7. ASSUME NEW i \in Ids PROVE PendFits(i)'
    BY <1>1, <1>2 DEF QuestionInv, PendFits, SameQuestion
<1>8. ASSUME NEW g \in Gens' PROVE LogFits(g)'
    <2>1. g \in Gens /\ LogFits(g)
        BY DEF QuestionInv, Gens
    <2>2. log[g].end = "open" => \E i \in Ids : pend'[i] # Free /\ pend'[i].gen = g
        BY <1>1, <1>2, <2>1 DEF LogFits, SameQuestion
    <2> QED
        BY <2>1, <2>2 DEF LogFits, AskerFits, EndFits, StillListens
<1> QED
    BY <1>3, <1>4, <1>5, <1>6, <1>7, <1>8 DEF QuestionInv

\* A step that only drops messages.
LEMMA Drops ==
    ASSUME QuestionInv, asked' \subseteq Asked, jobs' \subseteq jobs,
           UNCHANGED <<world, pend, gen, conns, serials, accepts, log>>
    PROVE  QuestionInv'
<1>1. TypeInv' /\ ConnsFit' /\ OneId'
    BY DEF QuestionInv, TypeInv, ConnsFit, OneId, Pendings, Gens, Targets, Asked, Jobs, Recorded
<1>2. JobsFit' /\ \A id \in Ids : PendFits(id)'
    BY DEF QuestionInv, JobsFit, PendFits
<1>3. ASSUME NEW g \in Gens' PROVE LogFits(g)'
    BY DEF QuestionInv, LogFits, AskerFits, EndFits, StillListens, Gens
<1> QED
    BY <1>1, <1>2, <1>3 DEF QuestionInv
-----------------------------------------------------------------------------
\* What send_more does to the question.
LEMMA SendsMore ==
    ASSUME TypeInv, NEW id \in Ids, NEW p \in Pendings, NEW upto \in Nat, NEW lost \in SUBSET Targets,
           NEW messages \in SUBSET Asked, NEW work \in SUBSET Jobs,
           SendMore(id, p, upto, lost, messages, work)
    PROVE  \E q \in Pendings : /\ SameQuestion(p, q) /\ pend' = [pend EXCEPT ![id] = q]
                               /\ asked' \subseteq Asked /\ jobs' \subseteq Jobs /\ JobsOf(id, q, work)
<1> DEFINE count == IF upto <= world.servers THEN upto ELSE world.servers
           now == {t \in Targets : p.nsent < t /\ t <= count}
           sent == now \ lost
           q == [p EXCEPT !.nsent = IF count > @ THEN count ELSE @,
                          !.nfailed = @ + Cardinality(lost), !.failed = @ \cup lost]
<1>1. world.servers \in Nat
    BY WorldFits DEF TypeInv
<1>2. Cardinality(lost) \in Nat
    <2>1. IsFiniteSet(Targets)
        BY <1>1, FS_Interval DEF Targets
    <2> QED
        BY <2>1, FS_Subset, FS_CardinalityType
<1>3. count \in 0..world.servers
    BY <1>1
<1>4. q \in Pendings /\ SameQuestion(p, q)
    <2>1. p.nsent \in 0..world.servers /\ p.nfailed \in Nat /\ p.failed \in SUBSET Targets
        BY DEF Pendings
    <2>2. (IF count > p.nsent THEN count ELSE p.nsent) \in 0..world.servers
        BY <1>3, <2>1
    <2>3. p.nfailed + Cardinality(lost) \in Nat /\ p.failed \cup lost \in SUBSET Targets
        BY <1>2, <2>1
    <2>4. \A s \in 0..world.servers, n \in Nat, f \in SUBSET Targets :
            LET new == [p EXCEPT !.nsent = s, !.nfailed = n, !.failed = f]
            IN  new \in Pendings /\ SameQuestion(p, new)
        BY DEF Pendings, SameQuestion
    <2> HIDE DEF count
    <2> QED
        BY <2>2, <2>3, <2>4
<1>5. pend' = [pend EXCEPT ![id] = q]
    BY DEF SendMore
<1>6. asked' \subseteq Asked
    BY DEF SendMore, Asked, Pendings
<1>7. jobs' \subseteq Jobs /\ JobsOf(id, q, work)
    <2>1. jobs' = work \cup
             {[id |-> id, gen |-> p.gen, name |-> p.name, target |-> t, doh |-> TRUE] :
                t \in sent \cap world.doh}
        BY DEF SendMore
    <2>2. \A t \in sent : [id |-> id, gen |-> p.gen, name |-> p.name, target |-> t, doh |-> TRUE] \in Jobs
        BY DEF Jobs, Pendings
    <2> HIDE DEF q, sent
    <2> QED
        BY <1>4, <2>1, <2>2 DEF JobsOf, SameQuestion
<1> QED
    BY <1>4, <1>5, <1>6, <1>7

\* The record of a question that ends.
LEMMA FinishFits ==
    ASSUME QuestionInv, NEW id \in Ids, pend[id] # Free,
           NEW got \in {"servfail", pend[id].name}, NEW end \in Endings, NEW failed \in SUBSET Targets,
           NEW kept, NEW messages \in SUBSET Asked, Finish(id, got, kept, end, failed, messages),
           jobs' \subseteq jobs,
           UNCHANGED <<world, gen, conns, serials, accepts>>
    PROVE  QuestionInv'
<1> DEFINE p == pend[id]
           g == p.gen
           r == Replied(g, p, got, end, failed)
           at == Reaches(p)
<1>1. p \in Pendings /\ g \in Gens /\ PendFits(id) /\ LogFits(g) /\ log[g] \in Recorded
    BY PendingHasGen DEF QuestionInv, TypeInv
<1>2. /\ pend' = [pend EXCEPT ![id] = Free] /\ log' = [log EXCEPT ![g] = r]
      /\ asked' \subseteq Asked
    BY DEF Finish, FreePending, StillUnderWay
<1>3. \A i \in Ids : pend'[i] = IF i = id THEN Free ELSE pend[i]
    BY <1>2 DEF QuestionInv, TypeInv
<1>4. at # {} => /\ p.kind = "tcp"
                 /\ conns[CHOOSE c \in at : TRUE].client = p.serial
                 /\ conns[CHOOSE c \in at : TRUE].client \in 0..MaxAccepts
    <2>1. at # {} => (CHOOSE c \in at : TRUE) \in at
        OBVIOUS
    <2> QED
        BY <2>1 DEF Reaches, QuestionInv, TypeInv, ConnsFit
<1>5. p.kind = "tcp" /\ at = {} => \A c \in Conns : conns[c].client # p.serial
    BY DEF Reaches, QuestionInv, TypeInv, ConnsFit
<1>6. /\ r \in Recorded /\ r.kind = p.kind /\ r.name = p.name /\ r.client = p.serial /\ r.end = end
      /\ r.got = got
      /\ r.replies = (IF p.kind = "udp" \/ at # {} THEN 1 ELSE 0)
      /\ r.at = (IF at # {} THEN p.serial ELSE 0)
    <2>1. /\ log[g].kind = p.kind /\ log[g].name = p.name /\ log[g].client = p.serial
          /\ log[g].replies = 0 /\ log[g].at = 0
        BY <1>1 DEF PendFits, LogFits, EndFits
    <2>2. got \in Names \cup {"none", "servfail"}
        BY <1>1 DEF Pendings
    <2> DEFINE n == log[g].replies + (IF p.kind = "udp" \/ at # {} THEN 1 ELSE 0)
               a == IF at # {} THEN conns[CHOOSE c \in at : TRUE].client ELSE log[g].at
    <2>3. r = [log[g] EXCEPT !.end = end, !.got = got, !.failed = failed, !.replies = n, !.at = a]
        BY DEF Replied
    <2>4. /\ n = (IF p.kind = "udp" \/ at # {} THEN 1 ELSE 0) /\ n \in Nat
          /\ a = (IF at # {} THEN p.serial ELSE 0) /\ a \in 0..MaxAccepts
        BY <1>1, <1>4, <2>1 DEF Recorded
    <2> HIDE DEF p, g, at, n, a, r
    <2>5. [log[g] EXCEPT !.end = end, !.got = got, !.failed = failed, !.replies = n, !.at = a] \in Recorded
        BY <1>1, <2>2, <2>4 DEF Recorded
    <2>6. /\ r.kind = log[g].kind /\ r.name = log[g].name /\ r.client = log[g].client
          /\ r.end = end /\ r.got = got /\ r.replies = n /\ r.at = a
        BY <1>1, <2>3 DEF Recorded
    <2> QED
        BY <2>1, <2>3, <2>4, <2>5, <2>6
<1> HIDE DEF r
<1>7. \A h \in Gens : log'[h] = IF h = g THEN r ELSE log[h]
    BY <1>1, <1>2 DEF QuestionInv, TypeInv
<1>8. TypeInv'
    BY <1>2, <1>6, <1>1 DEF QuestionInv, TypeInv, Pendings, Gens, Targets, Asked, Jobs, Recorded
<1>9. ConnsFit' /\ OneId'
    BY <1>3 DEF QuestionInv, ConnsFit, OneId
<1>10. JobsFit'
    BY <1>3 DEF QuestionInv, JobsFit, TypeInv, Jobs
<1>11. ASSUME NEW i \in Ids PROVE PendFits(i)'
    <2>1. CASE i = id
        BY <1>3, <2>1 DEF PendFits
    <2>2. CASE i # id
        <3>1. pend[i] # Free => pend[i].gen # g /\ pend[i].gen \in Gens
            BY <2>2, PendingHasGen DEF QuestionInv, OneId
        <3> QED
            BY <1>3, <1>7, <2>2, <3>1 DEF QuestionInv, PendFits
    <2> QED
        BY <2>1, <2>2
<1>12. ASSUME NEW h \in Gens' PROVE LogFits(h)'
    <2>1. h \in Gens /\ LogFits(h)
        BY <1>12 DEF QuestionInv, Gens
    <2>2. CASE h # g
        <3>1. log'[h] = log[h]
            BY <1>7, <2>1, <2>2
        <3>2. \A i \in Ids : pend[i] # Free /\ pend[i].gen = h => pend'[i] = pend[i]
            BY <1>3, <2>2
        <3> QED
            BY <2>1, <3>1, <3>2 DEF LogFits, AskerFits, EndFits, StillListens
    <2>3. CASE h = g
        <3>1. log'[h] = r
            BY <1>7, <2>1, <2>3
        <3>2. r.client <= accepts /\ (r.kind = "tcp" <=> r.client # 0) /\ g <= gen
            BY <1>1, <1>6 DEF LogFits, AskerFits, PendFits
        <3>3. r.kind \in Kinds
            BY <1>6 DEF Recorded
        <3>4. EndFits(r)
            BY <1>4, <1>5, <1>6, <3>2, <3>3 DEF EndFits, Kinds, StillListens, Endings
        <3>5. EndFits(log[h])'
            BY <3>1, <3>4 DEF EndFits, StillListens
        <3>6. r.end \notin {"unasked", "open"}
            BY <1>6 DEF Endings
        <3>7. AskerFits(log[h])'
            BY <3>1, <3>2 DEF AskerFits
        <3>8. ~(h > gen)
            BY <1>1, <2>3, <3>2 DEF Gens, QuestionInv, TypeInv
        <3> QED
            BY <3>1, <3>5, <3>6, <3>7, <3>8 DEF LogFits
    <2> QED
        BY <2>2, <2>3
<1> QED
    BY <1>8, <1>9, <1>10, <1>11, <1>12 DEF QuestionInv
-----------------------------------------------------------------------------
\* The end of a question, with what it leaves alone.
Kept == UNCHANGED <<world, gen, conns, serials, accepts>>

LEMMA OneFailedFits ==
    ASSUME QuestionInv, NEW id \in Ids, pend[id] # Free, NEW t \in Targets,
           NEW messages \in SUBSET Asked, NEW work \in SUBSET jobs,
           OneFailed(id, t, messages, work), Kept
    PROVE  QuestionInv'
<1> DEFINE p == [pend[id] EXCEPT !.nfailed = @ + 1, !.failed = @ \cup {t}]
<1>1. pend[id] \in Pendings
    BY PendingHasGen DEF QuestionInv
<1>2. p \in Pendings /\ SameQuestion(pend[id], p)
    <2>1. pend[id].nfailed + 1 \in Nat /\ pend[id].failed \cup {t} \in SUBSET Targets
        BY <1>1 DEF Pendings
    <2>2. \A n \in Nat, f \in SUBSET Targets :
            LET new == [pend[id] EXCEPT !.nfailed = n, !.failed = f]
            IN  new \in Pendings /\ SameQuestion(pend[id], new)
        BY <1>1 DEF Pendings, SameQuestion
    <2> QED
        BY <2>1, <2>2
<1>3. work \in SUBSET Jobs /\ TypeInv
    BY DEF QuestionInv, TypeInv
<1> HIDE DEF p
<1>4. CASE /\ pend' = [pend EXCEPT ![id] = p]
           /\ asked' = messages /\ jobs' = work
           /\ UNCHANGED <<cache, log>>
    BY <1>2, <1>3, <1>4, GoesOn DEF JobsOf, Kept
<1>5. CASE /\ \E lost \in SUBSET Targets : SendMore(id, p, p.nsent + 1, lost, messages, work)
           /\ UNCHANGED <<cache, log>>
    <2>1. PICK lost \in SUBSET Targets : SendMore(id, p, p.nsent + 1, lost, messages, work)
        BY <1>5
    <2>2. p.nsent + 1 \in Nat
        BY <1>2, <1>3, WorldFits DEF Pendings, TypeInv
    <2>3. PICK q \in Pendings : /\ SameQuestion(p, q) /\ pend' = [pend EXCEPT ![id] = q]
                                /\ asked' \subseteq Asked /\ jobs' \subseteq Jobs /\ JobsOf(id, q, work)
        BY <1>2, <1>3, <2>1, <2>2, SendsMore
    <2>4. SameQuestion(pend[id], q) /\ JobsOf(id, q, jobs)
        BY <1>2, <2>3 DEF SameQuestion, JobsOf
    <2> QED
        BY <1>5, <2>3, <2>4, GoesOn DEF Kept
<1>6. CASE /\ Finish(id, "servfail", FALSE, "failed", p.failed, messages)
           /\ jobs' = work
    BY <1>2, <1>6, FinishFits DEF Kept, Pendings, Endings
<1> QED
    BY <1>4, <1>5, <1>6 DEF OneFailed, p

LEMMA GotAnswerFits ==
    ASSUME QuestionInv, NEW id \in Ids, pend[id] # Free, NEW t \in Targets,
           NEW messages \in SUBSET Asked, NEW work \in SUBSET jobs,
           GotAnswer(id, t, pend[id].name, messages, work), Kept
    PROVE  QuestionInv'
<1>1. pend[id] \in Pendings
    BY PendingHasGen DEF QuestionInv
<1>2. CASE OneFailed(id, t, messages, work)
    BY <1>2, OneFailedFits
<1>3. CASE /\ \E kept \in Keepable :
                Finish(id, pend[id].name, kept, "answer", pend[id].failed, messages)
           /\ jobs' = work
    BY <1>1, <1>3, FinishFits DEF Kept, Pendings, Endings
<1>4. CASE AskOverTcp(id, t, messages)
    <2> DEFINE p == pend[id]
               job == [id |-> id, gen |-> p.gen, name |-> p.name, target |-> t, doh |-> FALSE]
               q == [p EXCEPT !.tcpBusy = TRUE]
    <2>1. job \in Jobs /\ q \in Pendings /\ SameQuestion(p, q)
        BY <1>1 DEF Jobs, Pendings, SameQuestion
    <2>2. asked' = messages /\ UNCHANGED log
        BY <1>4 DEF AskOverTcp
    <2>3. CASE UNCHANGED <<pend, jobs>>
        BY <2>2, <2>3, Drops DEF Kept
    <2>4. CASE pend' = [pend EXCEPT ![id].tcpBusy = TRUE] /\ jobs' = jobs \cup {job}
        <3>1. pend' = [pend EXCEPT ![id] = q]
            BY <2>4
        <3>2. job.id = id /\ job.gen = p.gen /\ job.name = p.name
            OBVIOUS
        <3> HIDE DEF q, job, p
        <3>3. jobs' \subseteq Jobs /\ JobsOf(id, q, jobs)
            BY <2>1, <2>4, <3>2 DEF JobsOf, SameQuestion, QuestionInv, TypeInv
        <3> QED
            BY <2>1, <2>2, <3>1, <3>3, GoesOn DEF Kept, p
    <2> QED
        BY <1>4, <2>3, <2>4 DEF AskOverTcp
<1> QED
    BY <1>2, <1>3, <1>4 DEF GotAnswer

LEMMA OnUpstreamFits == ASSUME QuestionInv, NEW m \in asked, OnUpstream(m), UNCHANGED world PROVE QuestionInv'
<1>1. m \in Asked /\ Received(m) \subseteq Asked /\ m.id \in Ids /\ m.target \in Targets
    BY DEF QuestionInv, TypeInv, Received, Asked
<1>2. CASE Accepts(pend[m.id], m)
    BY <1>1, <1>2, GotAnswerFits DEF OnUpstream, Accepts, Kept
<1>3. CASE ~Accepts(pend[m.id], m)
    BY <1>1, <1>3, Drops DEF OnUpstream
<1> QED
    BY <1>2, <1>3

LEMMA JobDoneFits == ASSUME QuestionInv, NEW j \in jobs, JobDone(j), UNCHANGED world PROVE QuestionInv'
<1> DEFINE work == jobs \ {j}
           p == pend[j.id]
<1>1. j \in Jobs /\ j.id \in Ids /\ j.target \in Targets /\ asked \subseteq Asked
    BY DEF QuestionInv, TypeInv, Jobs
<1>2. CASE ~StillWanted(p, j)
    BY <1>1, <1>2, Drops DEF JobDone
<1>3. CASE StillWanted(p, j)
    <2>1. p # Free /\ p.name = j.name /\ p \in Pendings
        BY <1>1, <1>3, PendingHasGen DEF StillWanted, QuestionInv, JobsFit
    <2>2. CASE j.doh /\ GotAnswer(j.id, j.target, j.name, asked, work)
        BY <1>1, <2>1, <2>2, GotAnswerFits DEF JobDone, Kept
    <2>3. CASE /\ \/ \E kept \in Keepable : Finish(j.id, j.name, kept, "tcp", p.failed, asked)
                  \/ Finish(j.id, "servfail", FALSE, "tcp", p.failed, asked)
               /\ jobs' = work
        BY <1>1, <2>1, <2>3, FinishFits DEF JobDone, Pendings, Endings
    <2> QED
        BY <1>3, <2>2, <2>3 DEF JobDone
<1> QED
    BY <1>2, <1>3

LEMMA RetryFits == ASSUME QuestionInv, NEW id \in Ids, Retry(id), UNCHANGED world PROVE QuestionInv'
<1> DEFINE p == [pend[id] EXCEPT !.retry = FALSE]
<1>1. pend[id] \in Pendings /\ TypeInv /\ world.servers \in Nat
    BY PendingHasGen, WorldFits DEF QuestionInv, Retry, TypeInv
<1>2. p \in Pendings /\ SameQuestion(pend[id], p)
    BY <1>1 DEF Pendings, SameQuestion
<1>3. PICK lost \in SUBSET Targets : SendMore(id, p, world.servers, lost, asked, jobs)
    BY DEF Retry
<1> HIDE DEF p
<1>4. PICK q \in Pendings : /\ SameQuestion(p, q) /\ pend' = [pend EXCEPT ![id] = q]
                            /\ asked' \subseteq Asked /\ jobs' \subseteq Jobs /\ JobsOf(id, q, jobs)
    BY <1>1, <1>2, <1>3, SendsMore DEF TypeInv
<1>5. SameQuestion(pend[id], q)
    BY <1>2, <1>4 DEF SameQuestion
<1> QED
    BY <1>4, <1>5, GoesOn DEF Retry

LEMMA DeadlineFits == ASSUME QuestionInv, NEW id \in Ids, Deadline(id), UNCHANGED world PROVE QuestionInv'
<1>1. pend[id] # Free /\ pend[id] \in Pendings
    BY PendingHasGen DEF Deadline, QuestionInv
<1>2. Finish(id, "servfail", FALSE, "deadline", pend[id].failed, asked)
    BY DEF Deadline
<1>3. asked \subseteq Asked /\ jobs' \subseteq jobs
    BY DEF Deadline, QuestionInv, TypeInv
<1> QED
    BY <1>1, <1>2, <1>3, FinishFits DEF Deadline, Pendings, Endings

-----------------------------------------------------------------------------
\* A new question: its number is new, to the threads and to the log.
LEMMA NewPendingFits ==
    ASSUME QuestionInv, UNCHANGED world, NEW id \in Ids, NEW kind \in Kinds, NEW name \in Names,
           NEW serial \in 0..MaxAccepts, NEW client \in 0..MaxAccepts,
           client = serial, serial <= accepts, kind = "tcp" <=> client # 0,
           NewPending(id, kind, name, serial, client)
    PROVE  QuestionInv'
<1> DEFINE g == gen + 1
           p == [gen |-> g, kind |-> kind, name |-> name, serial |-> serial,
                 nsent |-> 0, nfailed |-> 0, tcpBusy |-> FALSE, retry |-> TRUE, failed |-> {}]
           r == [Unasked EXCEPT !.kind = kind, !.name = name, !.client = client, !.end = "open"]
<1>1. /\ world.questions \in Nat /\ world.servers \in Nat /\ Batch \in Nat /\ MaxAccepts \in Nat
      /\ gen \in Nat /\ gen < world.questions
    BY WorldFits DEF QuestionInv, TypeInv, NewPending
<1>2. g \in Gens /\ gen' = g /\ p \in Pendings
    BY <1>1 DEF NewPending, Gens, Pendings
<1>3. PICK lost \in SUBSET Targets : SendMore(id, p, Batch, lost, asked, jobs)
    BY DEF NewPending
<1>4. log' = [log EXCEPT ![g] = r]
    BY DEF NewPending
<1>5. /\ r \in Recorded /\ r.kind = kind /\ r.name = name /\ r.client = client /\ r.end = "open"
      /\ r.replies = 0 /\ r.got = "none" /\ r.at = 0
    <2>1. /\ Unasked \in Recorded /\ Unasked.replies = 0 /\ Unasked.got = "none" /\ Unasked.at = 0
        BY <1>1 DEF Recorded, Unasked, Kinds
    <2>2. \A u \in Recorded, e \in {"open"} :
            LET new == [u EXCEPT !.kind = kind, !.name = name, !.client = client, !.end = e]
            IN  /\ new \in Recorded /\ new.kind = kind /\ new.name = name /\ new.client = client
                /\ new.end = e /\ new.replies = u.replies /\ new.got = u.got /\ new.at = u.at
        BY DEF Recorded
    <2> QED
        BY <2>1, <2>2
<1> HIDE DEF p, r
<1>6. PICK q \in Pendings : /\ SameQuestion(p, q) /\ pend' = [pend EXCEPT ![id] = q]
                            /\ asked' \subseteq Asked /\ jobs' \subseteq Jobs /\ JobsOf(id, q, jobs)
    BY <1>1, <1>2, <1>3, SendsMore DEF QuestionInv, TypeInv
<1>7. q.gen = g /\ q.kind = kind /\ q.name = name /\ q.serial = serial /\ q # Free
    BY <1>6, FreeIsNone DEF SameQuestion, p
<1>8. \A i \in Ids : pend'[i] = IF i = id THEN q ELSE pend[i]
    BY <1>6 DEF QuestionInv, TypeInv
<1>9. \A h \in Gens : log'[h] = IF h = g THEN r ELSE log[h]
    BY <1>2, <1>4 DEF QuestionInv, TypeInv
<1>10. \A i \in Ids : pend[i] # Free => pend[i].gen \in Gens /\ pend[i].gen <= gen /\ pend[i].gen # g
    <2> TAKE i \in Ids
    <2>1. pend[i] # Free => pend[i].gen \in Gens /\ pend[i].gen <= gen
        BY PendingHasGen DEF QuestionInv, PendFits
    <2> QED
        BY <1>1, <2>1 DEF Gens
<1>11. TypeInv'
    <2>1. log' \in [Gens -> Recorded] /\ pend' \in [Ids -> Pendings \cup {Free}]
        BY <1>4, <1>5, <1>6 DEF QuestionInv, TypeInv
    <2>2. gen' \in 0..world.questions
        BY <1>1, <1>2
    <2> QED
        BY <1>6, <2>1, <2>2 DEF NewPending, QuestionInv, TypeInv, Pendings, Gens, Targets, Asked, Jobs, Recorded
<1>12. ConnsFit' /\ OneId'
    BY <1>7, <1>8, <1>10 DEF QuestionInv, ConnsFit, OneId, NewPending
<1>13. JobsFit'
    <2> SUFFICES ASSUME NEW j \in jobs'
                 PROVE  /\ j.gen <= g
                        /\ pend'[j.id] # Free /\ pend'[j.id].gen = j.gen => pend'[j.id].name = j.name
        BY <1>2 DEF JobsFit
    <2>1. j.id \in Ids /\ j.gen \in Nat
        BY <1>1, <1>6 DEF Jobs, Gens
    <2>2. CASE j \in jobs
        <3>1. j.gen <= gen
            BY <2>2 DEF QuestionInv, JobsFit
        <3>2. j.gen <= g /\ j.gen # g
            BY <1>1, <2>1, <3>1
        <3> QED
            BY <1>7, <1>8, <2>1, <2>2, <3>2 DEF QuestionInv, JobsFit
    <2>3. CASE j.id = id /\ j.gen = q.gen /\ j.name = q.name
        BY <1>1, <1>7, <1>8, <2>1, <2>3
    <2> QED
        BY <1>6, <2>2, <2>3 DEF JobsOf
<1>14. ASSUME NEW i \in Ids PROVE PendFits(i)'
    <2>1. CASE i = id
        BY <1>1, <1>2, <1>5, <1>7, <1>8, <1>9, <2>1 DEF PendFits
    <2>2. CASE i # id
        <3>1. pend'[i] = pend[i] /\ (pend[i] # Free => log'[pend[i].gen] = log[pend[i].gen] /\ pend[i].gen <= g)
            BY <1>1, <1>8, <1>9, <1>10, <2>2 DEF Gens
        <3> QED
            BY <1>2, <3>1 DEF QuestionInv, PendFits
    <2> QED
        BY <2>1, <2>2
<1>15. ASSUME NEW h \in Gens' PROVE LogFits(h)'
    <2>1. h \in Gens /\ LogFits(h) /\ h \in Nat
        BY <1>1, <1>15 DEF QuestionInv, Gens
    <2>2. CASE h = g
        <3>1. log'[h] = r /\ ~(h > g) /\ pend'[id] # Free /\ pend'[id].gen = h
            BY <1>1, <1>7, <1>8, <1>9, <2>1, <2>2
        <3>2. UNCHANGED <<accepts, conns>>
            BY DEF NewPending
        <3> QED
            BY <1>2, <1>5, <3>1, <3>2 DEF LogFits, AskerFits, EndFits
    <2>3. CASE h # g
        <3>1. log'[h] = log[h] /\ (h > g => h > gen) /\ (h <= g => h <= gen)
            BY <1>1, <1>9, <2>1, <2>3
        <3>2. UNCHANGED <<accepts, conns>>
            BY DEF NewPending
        <3>3. \A i \in Ids : pend[i] # Free => pend'[i] = pend[i]
            BY <1>8 DEF NewPending
        <3> QED
            BY <1>2, <2>1, <3>1, <3>2, <3>3 DEF LogFits, AskerFits, EndFits, StillListens
    <2> QED
        BY <2>2, <2>3
<1> QED
    BY <1>11, <1>12, <1>13, <1>14, <1>15 DEF QuestionInv

LEMMA AsksFit ==
    ASSUME QuestionInv, UNCHANGED world, NEW id \in Ids, NEW name \in Names,
           AskUdp(id, name) \/ Prefetch(id, name) \/ \E c \in Conns : AskTcp(id, name, c)
    PROVE  QuestionInv'
<1>1. 0 \in 0..MaxAccepts /\ 0 <= accepts
    BY WorldFits DEF QuestionInv, TypeInv
<1>2. CASE AskUdp(id, name)
    BY <1>1, <1>2, NewPendingFits DEF AskUdp, Kinds
<1>3. CASE Prefetch(id, name)
    BY <1>1, <1>3, NewPendingFits DEF Prefetch, Kinds
<1>4. ASSUME NEW c \in Conns, AskTcp(id, name, c) PROVE QuestionInv'
    <2> DEFINE s == conns[c].serial
               k == conns[c].client
    <2>1. s \in 0..MaxAccepts /\ k \in 0..MaxAccepts /\ k = s /\ s <= accepts
        BY DEF QuestionInv, TypeInv, ConnsFit
    <2>2. s # 0
        <3>1. conns[c] \in [serial : 0..MaxAccepts, client : 0..MaxAccepts] /\ conns[c] # Closed
            BY <1>4 DEF AskTcp, QuestionInv, TypeInv
        <3> QED
            BY <2>1, <3>1 DEF Closed
    <2>3. NewPending(id, "tcp", name, s, k)
        BY <1>4 DEF AskTcp
    <2> HIDE DEF s, k
    <2> QED
        BY <2>1, <2>2, <2>3, NewPendingFits DEF Kinds
<1> QED
    BY <1>2, <1>3, <1>4

LEMMA ConnsStayFit ==
    ASSUME QuestionInv, UNCHANGED world, NEW c \in Conns, Accept(c) \/ CloseConn(c)
    PROVE  QuestionInv'
<1>1. accepts \in Nat /\ MaxAccepts \in Nat /\ UNCHANGED <<pend, gen, asked, jobs, log>>
    BY WorldFits DEF QuestionInv, TypeInv, Accept, CloseConn
<1>2. \/ /\ accepts < MaxAccepts /\ accepts' = accepts + 1 /\ serials' = accepts + 1
         /\ conns' = [conns EXCEPT ![c] = [serial |-> accepts + 1, client |-> accepts + 1]]
      \/ /\ UNCHANGED <<accepts, serials>>
         /\ conns' = [conns EXCEPT ![c] = [serial |-> 0, client |-> 0]]
    BY DEF QuestionInv, ConnsFit, Accept, CloseConn, Closed
<1>3. TypeInv'
    <2>1. /\ accepts' \in 0..MaxAccepts /\ serials' \in 0..MaxAccepts
          /\ conns' \in [Conns -> [serial : 0..MaxAccepts, client : 0..MaxAccepts]]
        BY <1>1, <1>2 DEF QuestionInv, TypeInv
    <2> QED
        BY <1>1, <2>1 DEF QuestionInv, TypeInv, Pendings, Gens, Targets, Asked, Jobs, Recorded
<1>4. ConnsFit'
    BY <1>1, <1>2 DEF QuestionInv, TypeInv, ConnsFit
<1>5. OneId' /\ JobsFit' /\ \A id \in Ids : PendFits(id)'
    BY <1>1 DEF QuestionInv, OneId, JobsFit, PendFits
<1>6. ASSUME NEW g \in Gens' PROVE LogFits(g)'
    <2>1. g \in Gens /\ LogFits(g) /\ log[g] \in Recorded /\ log' = log
        BY <1>1 DEF QuestionInv, TypeInv, Gens
    <2>2. log[g].client <= accepts /\ log[g].client \in 0..MaxAccepts /\ accepts <= accepts'
        BY <1>1, <1>2, <2>1 DEF LogFits, AskerFits, Recorded
    <2>3. StillListens(log[g])' => StillListens(log[g])
        <3>1. log[g].kind = "tcp" => log[g].client # 0
            BY <2>1 DEF LogFits, AskerFits
        <3>2. \A d \in Conns : conns'[d].client = log[g].client /\ log[g].client # 0
                                  => conns[d].client = log[g].client
            BY <1>1, <1>2, <2>2 DEF QuestionInv, TypeInv
        <3> QED
            BY <2>1, <3>1, <3>2 DEF StillListens
    <2>4. log[g].client <= accepts'
        BY <1>1, <1>2, <2>2
    <2> QED
        BY <1>1, <2>1, <2>3, <2>4 DEF LogFits, AskerFits, EndFits
<1> QED
    BY <1>3, <1>4, <1>5, <1>6 DEF QuestionInv

LEMMA QuestionStep == QuestionInv /\ [Next]_<<world, vars>> => QuestionInv'
<1> SUFFICES ASSUME QuestionInv, [Next]_<<world, vars>> PROVE QuestionInv'
    OBVIOUS
<1>1. asked \subseteq Asked
    BY DEF QuestionInv, TypeInv
<1>2. CASE UNCHANGED <<world, vars>>
    BY <1>1, <1>2, Drops DEF vars
<1>3. CASE Next
    <2>1. CASE \E name \in Names : CacheHit(name)
        BY <1>1, <1>3, <2>1, Drops DEF Next, CacheHit
    <2>2. CASE \E e \in cache : Expires(e)
        BY <1>1, <1>3, <2>2, Drops DEF Next, Expires
    <2>3. CASE Reload
        BY <1>1, <1>3, <2>3, Drops DEF Next, Reload
    <2> QED
        BY <1>3, <2>1, <2>2, <2>3, AsksFit, ConnsStayFit, OnUpstreamFits, JobDoneFits, RetryFits, DeadlineFits
           DEF Next, Step
<1> QED
    BY <1>2, <1>3

-----------------------------------------------------------------------------
\* What questions, their records, threads and connections have to do with one
\* another, in every order in which answers, repeats and threads may come.
THEOREM QuestionInvariant == Spec => []QuestionInv
<1> QED
    BY QuestionInit, QuestionStep, PTL DEF Spec

\* A question of an app gets exactly one answer, if its asker is still there, and
\* one of the prefetching gets none.
THEOREM OneAnswer == Spec => []AnsweredOnce
<1>1. QuestionInv => AnsweredOnce
    <2> SUFFICES ASSUME QuestionInv, NEW g \in Gens
                 PROVE  /\ log[g].end = "open" <=> \E id \in Ids : OpenUnder(g) = {id}
                        /\ log[g].end \in {"unasked", "open"} => log[g].replies = 0
                        /\ log[g].replies <= (IF log[g].kind = "prefetch" THEN 0 ELSE 1)
                        /\ log[g].end \notin {"unasked", "open"} /\ StillListens(log[g]) => log[g].replies = 1
        BY DEF AnsweredOnce
    <2>1. LogFits(g) /\ log[g] \in Recorded /\ g \in Nat /\ gen \in Nat
        BY WorldFits DEF QuestionInv, TypeInv, Gens
    <2>2. log[g].end = "unasked" => log[g].replies = 0
        BY <2>1 DEF LogFits, Unasked
    <2>3. \A id \in Ids : id \in OpenUnder(g) <=> pend[id] # Free /\ pend[id].gen = g
        BY PendingHasGen DEF QuestionInv, OpenUnder
    <2>4. \A i, j \in OpenUnder(g) : i = j
        BY <2>3 DEF QuestionInv, OneId, OpenUnder
    <2>5. ASSUME log[g].end = "open" PROVE \E id \in Ids : OpenUnder(g) = {id}
        <3>1. PICK id \in Ids : pend[id] # Free /\ pend[id].gen = g
            BY <2>1, <2>5 DEF LogFits
        <3>2. OpenUnder(g) = {id}
            BY <2>3, <2>4, <3>1
        <3> QED
            BY <3>2
    <2>6. ASSUME NEW id \in Ids, OpenUnder(g) = {id} PROVE log[g].end = "open"
        BY <2>3, <2>6 DEF QuestionInv, PendFits
    <2> QED
        BY <2>1, <2>2, <2>5, <2>6 DEF LogFits, EndFits
<1> QED
    BY <1>1, QuestionInvariant, PTL

\* An answer is to the question and goes to whom asked it, whatever was under way
\* when an id or the place of a connection was used again.
THEOREM AnswersFit == Spec => []AnswerFits
<1>1. QuestionInv => AnswerFits
    <2> SUFFICES ASSUME QuestionInv, NEW g \in Gens
                 PROVE  /\ log[g].got \in {"none", "servfail", log[g].name}
                        /\ log[g].replies > 0 => log[g].at = log[g].client
        BY DEF AnswerFits
    <2>1. LogFits(g) /\ log[g] \in Recorded /\ g \in Nat /\ gen \in Nat
        BY WorldFits DEF QuestionInv, TypeInv, Gens
    <2>2. log[g].end = "unasked" => log[g].replies = 0 /\ log[g].got = "none"
        BY <2>1 DEF LogFits, Unasked
    <2> QED
        BY <2>1, <2>2 DEF LogFits, EndFits
<1> QED
    BY <1>1, QuestionInvariant, PTL

-----------------------------------------------------------------------------
(***************************************************************************)
(* A question fails only when every server has failed, or the one that is  *)
(* asked over TCP, if no answer is repeated or late.  nfailed is a number: *)
(* what it counts are different servers because each that has failed has   *)
(* nothing under way any more, of this question or of one that had its id  *)
(* before.                                                                 *)
(***************************************************************************)
Prompt == ~world.late

\* What is under way of a question p under an id, and what nfailed counts.
Counts(id, p, messages, work) ==
    /\ p.nfailed = Cardinality(p.failed) /\ p.failed \subseteq 1..p.nsent
    /\ \A m \in messages :
         m.id = id => m.target <= p.nsent /\ m.target \notin p.failed /\ m.name = p.name
    /\ \A j \in work :
         j.id = id /\ j.gen = p.gen => /\ j.target <= p.nsent /\ j.target \notin p.failed
                                       /\ ~j.doh => p.tcpBusy /\ p.kind # "udp"

\* Who is asked over HTTPS answers only that way.
Sources(messages, work) ==
    /\ \A m \in messages : m.target \notin world.doh
    /\ \A j \in work : j.doh <=> j.target \in world.doh

CountFits(id) ==
    /\ pend[id] # Free => Counts(id, pend[id], asked, jobs)
    /\ pend[id] = Free => \A m \in asked : m.id # id

FailInv ==
    /\ Sources(asked, jobs)
    /\ Prompt => /\ \A id \in Ids : CountFits(id)
                 /\ \A g \in Gens : FailsFairly(log[g])

LEMMA TargetsAreFinite ==
    ASSUME world \in Worlds
    PROVE  IsFiniteSet(Targets) /\ Cardinality(Targets) = world.servers
<1>1. 1 \in Int /\ world.servers \in Int /\ world.servers \in Nat
    BY WorldFits
<1>2. /\ IsFiniteSet(1..world.servers)
      /\ Cardinality(1..world.servers) = IF 1 > world.servers THEN 0 ELSE world.servers - 1 + 1
    BY <1>1, FS_Interval
<1> QED
    BY <1>1, <1>2 DEF Targets

LEMMA RecordsDiffer ==
    ASSUME NEW A, NEW B, NEW C, NEW D, NEW E,
           NEW k \in [id : A, gen : B, name : C, target : D, doh : E],
           NEW j \in [id : A, gen : B, name : C, target : D, doh : E],
           k.id = j.id, k.gen = j.gen, k.name = j.name, k.target = j.target, k.doh = j.doh
    PROVE  k = j
OBVIOUS

LEMMA JobsDiffer ==
    ASSUME NEW k \in Jobs, NEW j \in Jobs, k.id = j.id, k.gen = j.gen, k.name = j.name,
           k.target = j.target, k.doh = j.doh
    PROVE  k = j
<1>1. /\ k \in [id : Ids, gen : Gens, name : Names, target : Targets, doh : BOOLEAN]
      /\ j \in [id : Ids, gen : Gens, name : Names, target : Targets, doh : BOOLEAN]
    BY Zenon DEF Jobs
<1> QED
    BY <1>1, RecordsDiffer, Zenon

LEMMA FailInit == Init => FailInv
    BY DEF Init, FailInv, Sources, CountFits, Unasked, FailsFairly

\* Of the other questions nothing is new under way.
LEMMA CountsGoOn ==
    ASSUME TypeInv, FailInv, NEW id \in Ids, NEW q \in Pendings,
           pend' = [pend EXCEPT ![id] = q],
           Sources(asked', jobs'), Prompt => Counts(id, q, asked', jobs'),
           \A m \in asked' : m \in asked \/ m.id = id,
           \A j \in jobs' : j \in jobs \/ j.id = id,
           \A g \in Gens : log'[g] = log[g] \/ log'[g].got = "none",
           UNCHANGED world
    PROVE  FailInv'
<1>1. Prompt' = Prompt /\ Targets' = Targets /\ Gens' = Gens
    BY DEF Prompt, Targets, Gens
<1>2. Sources(asked, jobs)'
    BY DEF Sources
<1>3. ASSUME Prompt, NEW i \in Ids PROVE CountFits(i)'
    <2>1. CASE i = id
        <3>1. pend'[i] = q /\ q # Free
            BY <2>1, FreeIsNone DEF TypeInv
        <3> QED
            BY <1>3, <2>1, <3>1 DEF CountFits
    <2>2. CASE i # id
        <3>1. pend'[i] = pend[i]
            BY <2>2 DEF TypeInv
        <3>2. CountFits(i)
            BY <1>3 DEF FailInv
        <3>3. /\ \A m \in asked' : m.id = i => m \in asked
              /\ \A j \in jobs' : j.id = i => j \in jobs
            BY <2>2
        <3> QED
            BY <3>1, <3>2, <3>3 DEF CountFits, Counts
    <2> QED
        BY <2>1, <2>2
<1>4. ASSUME Prompt, NEW g \in Gens PROVE FailsFairly(log[g])'
    BY <1>1, <1>4 DEF FailInv, FailsFairly
<1> QED
    BY <1>1, <1>2, <1>3, <1>4 DEF FailInv

\* A step of none of the questions.
LEMMA CountsStay ==
    ASSUME FailInv, asked' \subseteq asked, jobs' \subseteq jobs,
           UNCHANGED <<world, pend, log>>
    PROVE  FailInv'
<1>1. Prompt' = Prompt /\ Targets' = Targets /\ Gens' = Gens
    BY DEF Prompt, Targets, Gens
<1>2. Sources(asked, jobs)'
    BY DEF Sources, FailInv
<1>3. ASSUME Prompt, NEW i \in Ids PROVE CountFits(i)'
    <2>1. CountFits(i)
        BY <1>3 DEF FailInv
    <2> QED
        BY <2>1 DEF CountFits, Counts
<1>4. ASSUME Prompt, NEW g \in Gens PROVE FailsFairly(log[g])'
    BY <1>1, <1>4 DEF FailInv, FailsFairly
<1> QED
    BY <1>1, <1>2, <1>3, <1>4 DEF FailInv

LEMMA FinishCounts ==
    ASSUME QuestionInv, FailInv, NEW id \in Ids, pend[id] # Free, NEW got, NEW kept, NEW end, NEW failed,
           NEW messages, messages \subseteq asked, jobs' \subseteq jobs,
           Finish(id, got, kept, end, failed, messages),
           Prompt => FailsFairly([got |-> got, end |-> end, failed |-> failed, kind |-> pend[id].kind]),
           UNCHANGED world
    PROVE  FailInv'
<1> DEFINE g == pend[id].gen
           r == Replied(g, pend[id], got, end, failed)
<1>1. Prompt' = Prompt /\ Targets' = Targets /\ Gens' = Gens
    BY DEF Prompt, Targets, Gens
<1>2. /\ pend' = [pend EXCEPT ![id] = Free] /\ log' = [log EXCEPT ![g] = r]
      /\ asked' \subseteq asked
    BY DEF Finish, FreePending, StillUnderWay
<1>3. Prompt => \A m \in asked' : m.id # id
    BY DEF Finish, StillUnderWay, Prompt
<1>4. TypeInv /\ g \in Gens /\ log[g] \in Recorded /\ log[g].kind = pend[id].kind
    BY PendingHasGen DEF QuestionInv, TypeInv, PendFits
<1>5. r.end = end /\ r.failed = failed /\ r.got = got /\ r.kind = pend[id].kind
    BY <1>4 DEF Replied, Recorded
<1> HIDE DEF r
<1>6. \A h \in Gens : log'[h] = IF h = g THEN r ELSE log[h]
    BY <1>2, <1>4 DEF TypeInv
<1>7. Sources(asked, jobs)'
    BY <1>2 DEF Sources, FailInv
<1>8. ASSUME Prompt, NEW i \in Ids PROVE CountFits(i)'
    <2>1. CountFits(i)
        BY <1>8 DEF FailInv
    <2>2. pend'[i] = IF i = id THEN Free ELSE pend[i]
        BY <1>2, <1>4 DEF TypeInv
    <2> QED
        BY <1>2, <1>3, <1>8, <2>1, <2>2 DEF CountFits, Counts
<1>9. ASSUME Prompt, NEW h \in Gens PROVE FailsFairly(log[h])'
    <2>1. CASE h = g
        BY <1>1, <1>5, <1>6, <1>9, <2>1 DEF FailsFairly
    <2>2. CASE h # g
        BY <1>1, <1>6, <1>9, <2>2 DEF FailInv, FailsFairly
    <2> QED
        BY <2>1, <2>2
<1> QED
    BY <1>1, <1>7, <1>8, <1>9 DEF FailInv

\* send_more: who is asked now was not asked before, and who could not be is
\* counted once.
LEMMA SendCounts ==
    ASSUME TypeInv, NEW id \in Ids, NEW p \in Pendings, NEW upto \in Nat, NEW lost \in SUBSET Targets,
           NEW messages \in SUBSET Asked, NEW work \in SUBSET Jobs,
           SendMore(id, p, upto, lost, messages, work), Sources(messages, work),
           Prompt => Counts(id, p, messages, work)
    PROVE  \E q \in Pendings : /\ SameQuestion(p, q) /\ pend' = [pend EXCEPT ![id] = q]
                               /\ Sources(asked', jobs')
                               /\ Prompt => Counts(id, q, asked', jobs')
                               /\ \A m \in asked' : m \in messages \/ m.id = id
                               /\ \A j \in jobs' : j \in work \/ j.id = id
<1> DEFINE count == IF upto <= world.servers THEN upto ELSE world.servers
           now == {t \in Targets : p.nsent < t /\ t <= count}
           sent == now \ lost
           n == IF count > p.nsent THEN count ELSE p.nsent
           q == [p EXCEPT !.nsent = n, !.nfailed = @ + Cardinality(lost), !.failed = @ \cup lost]
<1>1. /\ world.servers \in Nat /\ world.doh \subseteq Targets
      /\ p.nsent \in 0..world.servers /\ p.nfailed \in Nat /\ p.failed \in SUBSET Targets
    BY WorldFits DEF TypeInv, Pendings
<1>2. IsFiniteSet(lost) /\ IsFiniteSet(p.failed) /\ Cardinality(lost) \in Nat
    <2>1. IsFiniteSet(Targets)
        BY TargetsAreFinite DEF TypeInv
    <2>2. IsFiniteSet(lost) /\ IsFiniteSet(p.failed)
        BY <1>1, <2>1, FS_Subset
    <2> QED
        BY <2>2, FS_CardinalityType
<1>3. count \in 0..world.servers /\ n \in 0..world.servers /\ p.nsent <= n
    BY <1>1
<1>4. /\ lost \subseteq now /\ pend' = [pend EXCEPT ![id] = q]
      /\ asked' = messages \cup
             {[id |-> id, name |-> p.name, target |-> t] : t \in sent \ world.doh}
      /\ jobs' = work \cup
             {[id |-> id, gen |-> p.gen, name |-> p.name, target |-> t, doh |-> TRUE] :
                t \in sent \cap world.doh}
    BY DEF SendMore
<1>5. /\ \A t \in now : p.nsent < t /\ t <= n /\ t \in Nat
      /\ \A t \in 1..p.nsent : t \notin now /\ t \in 1..n
    BY <1>1, <1>3 DEF Targets
<1> HIDE DEF count, now, n
<1>6. /\ q \in Pendings /\ SameQuestion(p, q) /\ q.nsent = n /\ q.failed = p.failed \cup lost
      /\ q.nfailed = p.nfailed + Cardinality(lost) /\ q.name = p.name /\ q.gen = p.gen
      /\ q.tcpBusy = p.tcpBusy /\ q.kind = p.kind
    <2>1. p.nfailed + Cardinality(lost) \in Nat /\ p.failed \cup lost \in SUBSET Targets
        BY <1>1, <1>2
    <2>2. \A a \in 0..world.servers, b \in Nat, f \in SUBSET Targets :
            LET new == [p EXCEPT !.nsent = a, !.nfailed = b, !.failed = f]
            IN  new \in Pendings /\ SameQuestion(p, new)
        BY DEF Pendings, SameQuestion
    <2>3. q \in Pendings /\ SameQuestion(p, q)
        BY <1>3, <2>1, <2>2
    <2>4. /\ q.nsent = n /\ q.failed = p.failed \cup lost /\ q.nfailed = p.nfailed + Cardinality(lost)
          /\ q.tcpBusy = p.tcpBusy
        BY DEF Pendings
    <2> QED
        BY <2>3, <2>4 DEF SameQuestion
<1> HIDE DEF q
<1>7. /\ \A m \in asked' : m \in messages \/ (m.id = id /\ m.name = p.name /\ m.target \in sent \ world.doh)
      /\ \A j \in jobs' : j \in work \/ (j.id = id /\ j.target \in sent \cap world.doh /\ j.doh)
    BY <1>4
<1>8. Sources(asked', jobs')
    BY <1>7 DEF Sources
<1>9. ASSUME Prompt PROVE Counts(id, q, asked', jobs')
    <2>1. p.nfailed = Cardinality(p.failed) /\ p.failed \subseteq 1..p.nsent
        BY <1>9 DEF Counts
    <2>2. p.failed \cap lost = {} /\ p.failed \cup lost \subseteq 1..n /\ sent \cap (p.failed \cup lost) = {}
        <3>1. \A t \in p.failed : t \notin now /\ t \in 1..n
            BY <1>5, <2>1
        <3>2. \A t \in lost : t \in now /\ t \in 1..n
            <4>1. \A t \in now : t \in 1..n
                BY <1>1, <1>3, <1>5
            <4> QED
                BY <1>4, <4>1
        <3> QED
            BY <3>1, <3>2
    <2>3. Cardinality(p.failed \cup lost) = p.nfailed + Cardinality(lost)
        <3>1. Cardinality(p.failed \cup lost)
                = Cardinality(p.failed) + Cardinality(lost) - Cardinality(p.failed \cap lost)
            BY <1>2, FS_Union
        <3>2. Cardinality(p.failed \cap lost) = 0
            BY <2>2, FS_EmptySet
        <3> QED
            BY <1>1, <1>2, <2>1, <3>1, <3>2
    <2>4. ASSUME NEW m \in asked', m.id = id
          PROVE  m.target <= n /\ m.target \notin p.failed \cup lost /\ m.name = p.name
        <3>1. CASE m \in messages
            <4>1. m.target <= p.nsent /\ m.target \notin p.failed /\ m.name = p.name /\ m.target \in Nat
                BY <1>9, <2>4, <3>1 DEF Counts, Asked, Targets
            <4>2. m.target \notin now
                BY <1>1, <1>5, <4>1 DEF Pendings
            <4> QED
                BY <1>1, <1>3, <1>4, <4>1, <4>2
        <3>2. CASE m \notin messages
            BY <1>5, <1>7, <2>2, <3>2
        <3> QED
            BY <3>1, <3>2
    <2>5. ASSUME NEW j \in jobs', j.id = id, j.gen = p.gen
          PROVE  /\ j.target <= n /\ j.target \notin p.failed \cup lost
                 /\ ~j.doh => p.tcpBusy /\ p.kind # "udp"
        <3>1. CASE j \in work
            <4>1. /\ j.target <= p.nsent /\ j.target \notin p.failed /\ j.target \in Nat
                  /\ ~j.doh => p.tcpBusy /\ p.kind # "udp"
                BY <1>9, <2>5, <3>1 DEF Counts, Jobs, Targets
            <4>2. j.target \notin now
                BY <1>1, <1>5, <4>1
            <4> QED
                BY <1>1, <1>3, <1>4, <4>1, <4>2
        <3>2. CASE j \notin work
            BY <1>5, <1>7, <2>2, <3>2
        <3> QED
            BY <3>1, <3>2
    <2> QED
        BY <1>6, <2>2, <2>3, <2>4, <2>5 DEF Counts
<1> QED
    BY <1>4, <1>6, <1>7, <1>8, <1>9

\* A server has failed: it had something under way, and has nothing any more.
LEMMA OneFailedCounts ==
    ASSUME QuestionInv, FailInv, NEW id \in Ids, pend[id] # Free, NEW t \in Targets,
           NEW messages, messages \subseteq asked, NEW work, work \subseteq jobs,
           Prompt => /\ t <= pend[id].nsent /\ t \notin pend[id].failed
                     /\ \A m \in messages : m.id = id => m.target # t
                     /\ \A j \in work : j.id = id /\ j.gen = pend[id].gen => j.target # t,
           OneFailed(id, t, messages, work), UNCHANGED world
    PROVE  FailInv'
<1> DEFINE p == [pend[id] EXCEPT !.nfailed = @ + 1, !.failed = @ \cup {t}]
<1>1. /\ TypeInv /\ pend[id] \in Pendings /\ world.servers \in Nat
      /\ pend[id].nsent \in 0..world.servers /\ pend[id].nfailed \in Nat
      /\ pend[id].failed \in SUBSET Targets
    BY PendingHasGen, WorldFits DEF QuestionInv, TypeInv, Pendings
<1>2. p \in Pendings
    <2>1. pend[id].nfailed + 1 \in Nat /\ pend[id].failed \cup {t} \in SUBSET Targets
        BY <1>1
    <2>2. \A n \in Nat, f \in SUBSET Targets :
            [pend[id] EXCEPT !.nfailed = n, !.failed = f] \in Pendings
        BY <1>1 DEF Pendings
    <2> QED
        BY <2>1, <2>2
<1>3. /\ p.nfailed = pend[id].nfailed + 1 /\ p.failed = pend[id].failed \cup {t}
      /\ p.nsent = pend[id].nsent /\ p.name = pend[id].name /\ p.gen = pend[id].gen
      /\ p.tcpBusy = pend[id].tcpBusy /\ p.kind = pend[id].kind
    BY <1>1 DEF Pendings
<1> HIDE DEF p
<1>4. Sources(messages, work) /\ messages \in SUBSET Asked /\ work \in SUBSET Jobs
    BY <1>1 DEF FailInv, Sources, TypeInv
<1>5. IsFiniteSet(p.failed)
    BY <1>1, <1>2, TargetsAreFinite, FS_Subset DEF TypeInv, Pendings
<1>6. ASSUME Prompt PROVE Counts(id, p, messages, work)
    <2>1. Counts(id, pend[id], asked, jobs) /\ t \in 1..pend[id].nsent /\ t \notin pend[id].failed
        <3>1. t \in Nat /\ 1 <= t
            BY <1>1 DEF Targets
        <3> QED
            BY <1>1, <1>6, <3>1 DEF FailInv, CountFits
    <2>2. Cardinality(p.failed) = Cardinality(pend[id].failed) + 1
        <3>1. IsFiniteSet(pend[id].failed)
            BY <1>1, TargetsAreFinite, FS_Subset DEF TypeInv
        <3> QED
            BY <1>3, <2>1, <3>1, FS_AddElement
    <2> QED
        BY <1>3, <1>6, <2>1, <2>2 DEF Counts
<1>7. CASE /\ pend' = [pend EXCEPT ![id] = p]
           /\ asked' = messages /\ jobs' = work
           /\ UNCHANGED <<cache, log>>
    <2>1. Prompt => Counts(id, p, asked', jobs')
        BY <1>6, <1>7
    <2>2. Sources(asked', jobs')
        BY <1>4, <1>7
    <2> QED
        BY <1>1, <1>2, <1>7, <2>1, <2>2, CountsGoOn
<1>8. CASE /\ \E lost \in SUBSET Targets : SendMore(id, p, p.nsent + 1, lost, messages, work)
           /\ UNCHANGED <<cache, log>>
    <2>1. PICK lost \in SUBSET Targets : SendMore(id, p, p.nsent + 1, lost, messages, work)
        BY <1>8
    <2>2. p.nsent + 1 \in Nat
        BY <1>1, <1>3
    <2>3. PICK q \in Pendings : /\ SameQuestion(p, q) /\ pend' = [pend EXCEPT ![id] = q]
                                /\ Sources(asked', jobs')
                                /\ Prompt => Counts(id, q, asked', jobs')
                                /\ \A m \in asked' : m \in messages \/ m.id = id
                                /\ \A j \in jobs' : j \in work \/ j.id = id
        BY <1>1, <1>2, <1>4, <1>6, <2>1, <2>2, SendCounts
    <2>4. /\ \A m \in asked' : m \in asked \/ m.id = id
          /\ \A j \in jobs' : j \in jobs \/ j.id = id
        BY <2>3
    <2> QED
        BY <1>1, <1>8, <2>3, <2>4, CountsGoOn
<1>9. CASE /\ ~(p.nfailed < p.nsent) /\ ~(p.nsent < world.servers)
           /\ Finish(id, "servfail", FALSE, "failed", p.failed, messages) /\ jobs' = work
    <2>1. ASSUME Prompt PROVE p.failed = Targets
        <3>1. p.nfailed = Cardinality(p.failed) /\ p.failed \subseteq Targets
            BY <1>2, <1>6, <2>1 DEF Counts, Pendings
        <3>2. Cardinality(p.failed) >= world.servers
            BY <1>1, <1>3, <1>9, <3>1
        <3>3. Cardinality(p.failed) <= Cardinality(Targets)
                /\ (Cardinality(p.failed) = Cardinality(Targets) => p.failed = Targets)
            BY <1>1, <3>1, TargetsAreFinite, FS_Subset DEF TypeInv
        <3>4. Cardinality(p.failed) \in Nat /\ Cardinality(Targets) = world.servers
            BY <1>1, <1>5, FS_CardinalityType, TargetsAreFinite DEF TypeInv
        <3> QED
            BY <1>1, <3>2, <3>3, <3>4
    <2>2. jobs' \subseteq jobs
        BY <1>9
    <2> QED
        BY <1>9, <2>1, <2>2, FinishCounts DEF FailsFairly
<1> QED
    BY <1>7, <1>8, <1>9 DEF OneFailed, p

LEMMA GotAnswerCounts ==
    ASSUME QuestionInv, FailInv, NEW id \in Ids, pend[id] # Free, NEW t \in Targets,
           NEW messages, messages \subseteq asked, NEW work, work \subseteq jobs,
           Prompt => /\ t <= pend[id].nsent /\ t \notin pend[id].failed
                     /\ \A m \in messages : m.id = id => m.target # t
                     /\ \A j \in work : j.id = id /\ j.gen = pend[id].gen => j.target # t,
           NEW answer \in Names, GotAnswer(id, t, answer, messages, work),
           work = jobs \/ t \in world.doh, UNCHANGED world
    PROVE  FailInv'
<1>1. CASE OneFailed(id, t, messages, work)
    BY <1>1, OneFailedCounts
<1>2. CASE /\ \E kept \in Keepable : Finish(id, answer, kept, "answer", pend[id].failed, messages)
           /\ jobs' = work
    <2>1. answer # "servfail"
        BY DnsQueryAssumption
    <2> QED
        BY <1>2, <2>1, FinishCounts DEF FailsFairly
<1>3. CASE pend[id].kind # "udp" /\ t \notin world.doh /\ AskOverTcp(id, t, messages)
    <2> DEFINE p == pend[id]
               job == [id |-> id, gen |-> p.gen, name |-> p.name, target |-> t, doh |-> FALSE]
               q == [p EXCEPT !.tcpBusy = TRUE]
    <2>1. p \in Pendings /\ TypeInv
        BY PendingHasGen DEF QuestionInv
    <2>2. /\ q \in Pendings /\ q.nfailed = p.nfailed /\ q.failed = p.failed /\ q.nsent = p.nsent
          /\ q.name = p.name /\ q.gen = p.gen /\ q.tcpBusy /\ q.kind = p.kind
        BY <2>1 DEF Pendings
    <2>3. asked' = messages /\ UNCHANGED log
        BY <1>3 DEF AskOverTcp
    <2>4. CASE UNCHANGED <<pend, jobs>>
        BY <2>3, <2>4, CountsStay
    <2>5. CASE pend' = [pend EXCEPT ![id].tcpBusy = TRUE] /\ jobs' = jobs \cup {job}
        <3>1. pend' = [pend EXCEPT ![id] = q]
            BY <2>5
        <3>2. job.id = id /\ job.doh = FALSE /\ job.target = t
            OBVIOUS
        <3> HIDE DEF q, job
        <3>3. Sources(asked', jobs')
            BY <1>3, <2>3, <2>5, <3>2 DEF FailInv, Sources
        <3>4. ASSUME Prompt PROVE Counts(id, q, asked', jobs')
            <4>1. Counts(id, p, asked, jobs)
                BY <3>4 DEF FailInv, CountFits
            <4>2. \A j \in jobs' : j \in jobs \/ (j.target = t /\ ~j.doh)
                BY <2>5, <3>2
            <4> QED
                BY <1>3, <2>2, <2>3, <3>4, <4>1, <4>2 DEF Counts
        <3>5. /\ \A m \in asked' : m \in asked \/ m.id = id
              /\ \A j \in jobs' : j \in jobs \/ j.id = id
            BY <2>3, <2>5, <3>2
        <3> QED
            BY <2>1, <2>2, <2>3, <3>1, <3>3, <3>4, <3>5, CountsGoOn
    <2> QED
        BY <1>3, <2>4, <2>5 DEF AskOverTcp
<1> QED
    BY <1>1, <1>2, <1>3 DEF GotAnswer

LEMMA OnUpstreamCounts ==
    ASSUME QuestionInv, FailInv, NEW m \in asked, OnUpstream(m), UNCHANGED world PROVE FailInv'
<1>1. TypeInv /\ m \in Asked /\ Received(m) \subseteq asked /\ m.id \in Ids /\ m.target \in Targets
    BY DEF QuestionInv, TypeInv, Received, Asked
<1>2. CASE Accepts(pend[m.id], m)
    <2> DEFINE p == pend[m.id]
    <2>1. p # Free /\ m.target <= p.nsent /\ m.name = p.name /\ m.target \notin world.doh
        BY <1>2 DEF Accepts, FailInv, Sources
    <2>2. ASSUME Prompt
          PROVE  /\ m.target \notin p.failed
                 /\ \A n \in Received(m) : n.id = m.id => n.target # m.target
        <3>1. /\ m.target \notin p.failed
              /\ \A n \in asked : n.id = m.id => n.name = p.name
            BY <1>1, <2>1, <2>2 DEF FailInv, CountFits, Counts
        <3>2. Received(m) = asked \ {m}
            BY <2>2 DEF Received, Prompt
        <3>3. \A n \in asked : n.id = m.id /\ n.name = m.name /\ n.target = m.target => n = m
            BY <1>1 DEF TypeInv, Asked
        <3> QED
            BY <2>1, <3>1, <3>2, <3>3
    <2>3. Prompt => \A j \in jobs : j.id = m.id /\ j.gen = p.gen => j.target # m.target
        <3>1. ~p.tcpBusy
            BY <1>2 DEF Accepts
        <3>2. \A j \in jobs : j.doh => j.target # m.target
            BY <2>1 DEF FailInv, Sources
        <3> QED
            BY <1>1, <2>1, <3>1, <3>2 DEF FailInv, CountFits, Counts
    <2>4. GotAnswer(m.id, m.target, m.name, Received(m), jobs)
        BY <1>2 DEF OnUpstream
    <2> QED
        BY <1>1, <2>1, <2>2, <2>3, <2>4, GotAnswerCounts DEF Asked
<1>3. CASE ~Accepts(pend[m.id], m)
    BY <1>1, <1>3, CountsStay DEF OnUpstream
<1> QED
    BY <1>2, <1>3

LEMMA JobDoneCounts ==
    ASSUME QuestionInv, FailInv, NEW j \in jobs, JobDone(j), UNCHANGED world PROVE FailInv'
<1> DEFINE work == jobs \ {j}
           p == pend[j.id]
<1>1. TypeInv /\ j \in Jobs /\ j.id \in Ids /\ j.target \in Targets
    BY DEF QuestionInv, TypeInv, Jobs
<1>2. CASE ~StillWanted(p, j)
    BY <1>1, <1>2, CountsStay DEF JobDone
<1>3. CASE StillWanted(p, j)
    <2>1. p # Free /\ p.gen = j.gen
        BY <1>3 DEF StillWanted
    <2>2. CASE j.doh /\ GotAnswer(j.id, j.target, j.name, asked, work)
        <3>1. j.target \in world.doh /\ \A m \in asked : m.target # j.target
            BY <2>2 DEF FailInv, Sources
        <3>2. ASSUME Prompt
              PROVE  /\ j.target <= p.nsent /\ j.target \notin p.failed
                     /\ \A k \in work : k.id = j.id /\ k.gen = p.gen => k.target # j.target
            <4>1. j.target <= p.nsent /\ j.target \notin p.failed
                BY <1>1, <2>1, <2>2, <3>2 DEF FailInv, CountFits, Counts
            <4>2. \A k \in jobs : k.id = j.id /\ k.gen = p.gen => k.name = j.name
                BY <1>1, <2>1 DEF QuestionInv, JobsFit
            <4>3. \A k \in jobs : (/\ k.id = j.id /\ k.gen = j.gen /\ k.name = j.name
                                   /\ k.target = j.target /\ k.doh = j.doh) => k = j
                <5>1. ASSUME NEW k \in jobs, k.id = j.id, k.gen = j.gen, k.name = j.name,
                             k.target = j.target, k.doh = j.doh
                      PROVE  k = j
                    <6>1. k \in Jobs /\ j \in Jobs
                        BY <1>1, <5>1 DEF TypeInv
                    <6> QED
                        BY <5>1, <6>1, JobsDiffer, Zenon
                <5> QED
                    BY <5>1, Zenon
            <4>4. \A k \in jobs : k.target = j.target => k.doh = j.doh
                BY <1>1, <2>2, <3>1 DEF FailInv, Sources, TypeInv, Jobs
            <4> QED
                BY <2>1, <4>1, <4>2, <4>3, <4>4
        <3> QED
            BY <1>1, <2>1, <2>2, <3>1, <3>2, GotAnswerCounts DEF Jobs
    <2>3. CASE /\ ~j.doh
               /\ \/ \E kept \in Keepable : Finish(j.id, j.name, kept, "tcp", p.failed, asked)
                  \/ Finish(j.id, "servfail", FALSE, "tcp", p.failed, asked)
               /\ jobs' = work
        <3>1. jobs' \subseteq jobs
            BY <2>3
        <3>3. Prompt => j.target \notin p.failed /\ p.kind # "udp"
            BY <1>1, <2>1, <2>3 DEF FailInv, CountFits, Counts
        <3>4. ASSUME NEW got
              PROVE  Prompt => FailsFairly([got |-> got, end |-> "tcp", failed |-> p.failed,
                                            kind |-> p.kind])
            BY <1>1, <3>3 DEF FailsFairly
        <3>2. ASSUME NEW got, NEW kept, Finish(j.id, got, kept, "tcp", p.failed, asked) PROVE FailInv'
            BY <1>1, <2>1, <3>1, <3>2, <3>4, FinishCounts
        <3> QED
            BY <2>3, <3>2
    <2> QED
        BY <1>3, <2>2, <2>3 DEF JobDone
<1> QED
    BY <1>2, <1>3

LEMMA RetryCounts ==
    ASSUME QuestionInv, FailInv, NEW id \in Ids, Retry(id), UNCHANGED world PROVE FailInv'
<1> DEFINE p == [pend[id] EXCEPT !.retry = FALSE]
<1>1. pend[id] \in Pendings /\ pend[id] # Free /\ TypeInv /\ world.servers \in Nat
    BY PendingHasGen, WorldFits DEF QuestionInv, Retry, TypeInv
<1>2. /\ p \in Pendings /\ p.nfailed = pend[id].nfailed /\ p.failed = pend[id].failed
      /\ p.nsent = pend[id].nsent /\ p.name = pend[id].name /\ p.gen = pend[id].gen
      /\ p.tcpBusy = pend[id].tcpBusy /\ p.kind = pend[id].kind
    BY <1>1 DEF Pendings
<1>3. PICK lost \in SUBSET Targets : SendMore(id, p, world.servers, lost, asked, jobs)
    BY DEF Retry
<1> HIDE DEF p
<1>4. Prompt => Counts(id, p, asked, jobs)
    BY <1>1, <1>2 DEF FailInv, CountFits, Counts
<1>5. Sources(asked, jobs) /\ asked \in SUBSET Asked /\ jobs \in SUBSET Jobs
    BY <1>1 DEF FailInv, TypeInv
<1>6. PICK q \in Pendings : /\ SameQuestion(p, q) /\ pend' = [pend EXCEPT ![id] = q]
                            /\ Sources(asked', jobs')
                            /\ Prompt => Counts(id, q, asked', jobs')
                            /\ \A m \in asked' : m \in asked \/ m.id = id
                            /\ \A j \in jobs' : j \in jobs \/ j.id = id
    BY <1>1, <1>2, <1>3, <1>4, <1>5, SendCounts
<1>7. UNCHANGED log
    BY DEF Retry
<1> QED
    BY <1>1, <1>6, <1>7, CountsGoOn

LEMMA NewPendingCounts ==
    ASSUME QuestionInv, FailInv, UNCHANGED world, NEW id \in Ids, NEW kind \in Kinds, NEW name \in Names,
           NEW serial \in 0..MaxAccepts, NEW client, NewPending(id, kind, name, serial, client)
    PROVE  FailInv'
<1> DEFINE g == gen + 1
           p == [gen |-> g, kind |-> kind, name |-> name, serial |-> serial,
                 nsent |-> 0, nfailed |-> 0, tcpBusy |-> FALSE, retry |-> TRUE, failed |-> {}]
           r == [Unasked EXCEPT !.kind = kind, !.name = name, !.client = client, !.end = "open"]
<1>1. /\ TypeInv /\ world.questions \in Nat /\ world.servers \in Nat /\ Batch \in Nat
      /\ gen \in Nat /\ gen < world.questions /\ pend[id] = Free
    BY WorldFits DEF QuestionInv, TypeInv, NewPending
<1>2. /\ p \in Pendings /\ p.nfailed = 0 /\ p.failed = {} /\ p.nsent = 0 /\ p.gen = g /\ g \in Gens
    BY <1>1 DEF Gens, Pendings
<1>3. PICK lost \in SUBSET Targets : SendMore(id, p, Batch, lost, asked, jobs)
    BY DEF NewPending
<1>4. log' = [log EXCEPT ![g] = r] /\ r.got = "none"
    BY DEF NewPending, Unasked
<1> HIDE DEF p, r
<1>5. Sources(asked, jobs) /\ asked \in SUBSET Asked /\ jobs \in SUBSET Jobs
    BY <1>1 DEF FailInv, TypeInv
<1>6. ASSUME Prompt PROVE Counts(id, p, asked, jobs)
    <2>1. \A m \in asked : m.id # id
        BY <1>1, <1>6 DEF FailInv, CountFits
    <2>2. \A j \in jobs : j.gen # g
        <3>1. \A j \in jobs : j.gen \in Nat /\ j.gen <= gen
            BY <1>1 DEF QuestionInv, JobsFit, TypeInv, Jobs, Gens
        <3> QED
            BY <1>1, <3>1
    <2> QED
        BY <1>2, <2>1, <2>2, FS_EmptySet DEF Counts
<1>7. PICK q \in Pendings : /\ SameQuestion(p, q) /\ pend' = [pend EXCEPT ![id] = q]
                            /\ Sources(asked', jobs')
                            /\ Prompt => Counts(id, q, asked', jobs')
                            /\ \A m \in asked' : m \in asked \/ m.id = id
                            /\ \A j \in jobs' : j \in jobs \/ j.id = id
    BY <1>1, <1>2, <1>3, <1>5, <1>6, SendCounts
<1>8. \A h \in Gens : log'[h] = log[h] \/ log'[h].got = "none"
    <2>1. \A h \in Gens : log'[h] = IF h = g THEN r ELSE log[h]
        BY <1>1, <1>2, <1>4 DEF TypeInv
    <2> QED
        BY <1>4, <2>1
<1> QED
    BY <1>1, <1>7, <1>8, CountsGoOn

LEMMA FailStep ==
    QuestionInv /\ FailInv /\ [Next]_<<world, vars>> => FailInv'
<1> SUFFICES ASSUME QuestionInv, FailInv, [Next]_<<world, vars>> PROVE FailInv'
    OBVIOUS
<1>1. TypeInv /\ \A c \in Conns : conns[c].serial \in 0..MaxAccepts
    BY DEF QuestionInv, TypeInv
<1>2. CASE UNCHANGED <<world, vars>>
    BY <1>2, CountsStay DEF vars
<1>3. CASE Next
    <2>1. CASE (\E name \in Names : CacheHit(name)) \/ (\E e \in cache : Expires(e)) \/ Reload
                 \/ (\E c \in Conns : Accept(c) \/ CloseConn(c))
        BY <1>3, <2>1, CountsStay DEF Next, CacheHit, Expires, Reload, Accept, CloseConn
    <2>2. ASSUME NEW id \in Ids, NEW name \in Names,
                 \/ AskUdp(id, name) \/ Prefetch(id, name)
                 \/ \E c \in Conns : AskTcp(id, name, c)
          PROVE  FailInv'
        <3>1. 0 \in 0..MaxAccepts
            BY WorldFits, <1>1 DEF TypeInv
        <3> QED
            BY <1>1, <1>3, <2>2, <3>1, NewPendingCounts DEF Next, AskUdp, Prefetch, AskTcp, Kinds
    <2>3. ASSUME NEW id \in Ids, Deadline(id) PROVE FailInv'
        BY <1>1, <1>3, <2>3, FinishCounts DEF Next, Deadline, FailsFairly
    <2> QED
        BY <1>3, <2>1, <2>2, <2>3, OnUpstreamCounts, JobDoneCounts, RetryCounts DEF Next, Step
<1> QED
    BY <1>2, <1>3

\* A question is SERVFAIL before its deadline only when every server has failed, or
\* when it did not come over UDP and the server that is asked over TCP cannot answer,
\* with any number of servers and questions, whatever sends fail and in whatever
\* order servers fail, are asked and are given up.
THEOREM FailsOnlyWhenNoneIsLeft == Spec => []FailsWhenNoneIsLeft
<1>1. FailInv => FailsWhenNoneIsLeft
    BY DEF FailInv, FailsWhenNoneIsLeft, Prompt
<1> QED
    BY <1>1, FailInit, FailStep, QuestionInvariant, PTL DEF Spec

-----------------------------------------------------------------------------
(***************************************************************************)
(* The cache.  Its size is kept because making room makes some: entries    *)
(* have different ages, so that fewer than `goal' of them are younger.     *)
(***************************************************************************)
Distinct(entries) ==
    \A e, f \in entries : e.name = f.name \/ e.age = f.age => e = f

Truthful(entries) == \A e \in entries : e.answer = e.name

CacheFits(entries) ==
    /\ entries \subseteq Entries /\ IsFiniteSet(entries)
    /\ Distinct(entries) /\ Truthful(entries)

CacheInv == CacheFits(cache) /\ Cardinality(cache) <= world.cacheSize

\* What becomes of an entry that is older, or gone.
LEMMA FieldsOf ==
    ASSUME NEW A, NEW F, NEW e \in [name : A, answer : A, fresh : F, age : Nat]
    PROVE  /\ e.name \in A /\ e.answer \in A /\ e.age \in Nat
           /\ \A n \in Nat :
                LET o == [e EXCEPT !.age = n]
                IN  /\ o \in [name : A, answer : A, fresh : F, age : Nat]
                    /\ o.name = e.name /\ o.answer = e.answer /\ o.age = n
           /\ \A b \in F :
                LET o == [e EXCEPT !.fresh = b]
                IN  /\ o \in [name : A, answer : A, fresh : F, age : Nat]
                    /\ o.name = e.name /\ o.answer = e.answer /\ o.age = e.age
OBVIOUS

LEMMA EntryFields ==
    ASSUME NEW e \in Entries
    PROVE  /\ e.name \in Names /\ e.answer \in Names /\ e.age \in Nat
           /\ \A n \in Nat :
                LET o == [e EXCEPT !.age = n]
                IN  /\ o \in Entries
                    /\ o.name = e.name /\ o.answer = e.answer /\ o.age = n
           /\ LET o == [e EXCEPT !.fresh = FALSE]
              IN  /\ o \in Entries
                  /\ o.name = e.name /\ o.answer = e.answer /\ o.age = e.age
<1> DEFINE F == BOOLEAN
<1>1. Entries = [name : Names, answer : Names, fresh : F, age : Nat] /\ FALSE \in F
    BY Zenon DEF Entries
<1> HIDE DEF F
<1>2. e \in [name : Names, answer : Names, fresh : F, age : Nat]
    BY <1>1
<1> QED
    BY <1>1, <1>2, FieldsOf

\* The value of a function at every member of a set.
LEMMA ImageOf ==
    ASSUME NEW S, IsFiniteSet(S), NEW f
    PROVE  IsFiniteSet({f[e] : e \in S}) /\ Cardinality({f[e] : e \in S}) <= Cardinality(S)
<1> DEFINE T == {f[e] : e \in S}
           g == [e \in S |-> f[e]]
<1>1. g \in Surjection(S, T)
    BY DEF Surjection
<1> QED
    BY <1>1, FS_Surjection

\* Entries changed one by one, no two to the same name or age.
LEMMA ChangedFits ==
    ASSUME NEW entries, CacheFits(entries), NEW f,
           \A e \in entries : f[e] \in Entries /\ f[e].name = e.name /\ f[e].answer = f[e].name,
           \A e, d \in entries : f[e].age = f[d].age => e = d
    PROVE  /\ CacheFits({f[e] : e \in entries})
           /\ Cardinality({f[e] : e \in entries}) <= Cardinality(entries)
<1>1. /\ IsFiniteSet({f[e] : e \in entries})
      /\ Cardinality({f[e] : e \in entries}) <= Cardinality(entries)
    BY ImageOf DEF CacheFits
<1>2. \A e, d \in entries : f[e].name = f[d].name \/ f[e].age = f[d].age => f[e] = f[d]
    BY DEF CacheFits, Distinct
<1>3. Distinct({f[e] : e \in entries})
    BY <1>2 DEF Distinct
<1> QED
    BY <1>1, <1>3 DEF CacheFits, Truthful

LEMMA PartFits ==
    ASSUME NEW entries, CacheFits(entries), NEW part \in SUBSET entries
    PROVE  /\ CacheFits(part) /\ Cardinality(part) <= Cardinality(entries)
           /\ Cardinality(part) \in Nat /\ Cardinality(entries) \in Nat
    BY FS_Subset, FS_CardinalityType DEF CacheFits, Distinct, Truthful

\* Ages that count the younger differ as the ages did.
LEMMA RankedFits ==
    ASSUME NEW entries, CacheFits(entries)
    PROVE  /\ CacheFits(Ranked(entries)) /\ Cardinality(Ranked(entries)) <= Cardinality(entries)
           /\ \A r \in Ranked(entries) : \E e \in entries : r.name = e.name
<1> DEFINE Younger(e) == {f \in entries : f.age < e.age}
           older == [e \in entries |-> [e EXCEPT !.age = Cardinality(Younger(e))]]
<1>1. \A e \in entries : IsFiniteSet(Younger(e)) /\ Cardinality(Younger(e)) \in Nat
    BY FS_Subset, FS_CardinalityType DEF CacheFits
<1>2. \A e \in entries : e \in Entries /\ e.age \in Nat
    BY EntryFields DEF CacheFits
<1>3. ASSUME NEW e \in entries, NEW d \in entries, e.age < d.age
      PROVE  Cardinality(Younger(e)) # Cardinality(Younger(d))
    <2>1. e \in Younger(d) /\ e \notin Younger(e)
        BY <1>2, <1>3
    <2>2. Younger(e) \subseteq Younger(d)
        BY <1>2, <1>3
    <2> HIDE DEF Younger
    <2> QED
        BY <1>1, <2>1, <2>2, FS_Subset
<1> HIDE DEF Younger
<1>4. \A e \in entries : /\ older[e] \in Entries /\ older[e].name = e.name
                         /\ older[e].answer = e.answer
                         /\ older[e].age = Cardinality(Younger(e))
    <2> SUFFICES ASSUME NEW e \in entries, NEW n, n = Cardinality(Younger(e))
                 PROVE  LET o == [e EXCEPT !.age = n]
                        IN  o \in Entries /\ o.name = e.name /\ o.answer = e.answer /\ o.age = n
        OBVIOUS
    <2>1. e \in Entries /\ n \in Nat
        BY <1>1, <1>2
    <2> QED
        BY <2>1, EntryFields
<1>5. Ranked(entries) = {older[e] : e \in entries}
    BY DEF Ranked, Younger
<1> HIDE DEF older
<1>6. ASSUME NEW e \in entries, NEW d \in entries, older[e].age = older[d].age
      PROVE  e = d
    <2>1. e.age = d.age
        BY <1>2, <1>3, <1>4, <1>6
    <2> QED
        BY <2>1 DEF CacheFits, Distinct
<1>7. \A e \in entries : older[e].answer = older[e].name
    BY <1>4 DEF CacheFits, Truthful
<1>8. /\ CacheFits({older[e] : e \in entries})
      /\ Cardinality({older[e] : e \in entries}) <= Cardinality(entries)
    BY <1>4, <1>6, <1>7, ChangedFits
<1> QED
    BY <1>4, <1>5, <1>8, Zenon

\* One more entry that is used now, of a name the others are not of.
LEMMA UsedNowFits ==
    ASSUME NEW others, CacheFits(others), NEW entry \in Entries, entry.answer = entry.name,
           \A e \in others : e.name # entry.name
    PROVE  /\ CacheFits(UsedNow(entry, others))
           /\ Cardinality(UsedNow(entry, others)) <= Cardinality(others) + 1
<1> DEFINE ranked == Ranked(others)
           later == [e \in ranked |-> [e EXCEPT !.age = @ + 1]]
           rest == {later[e] : e \in ranked}
           first == [entry EXCEPT !.age = 0]
<1>1. /\ CacheFits(ranked) /\ Cardinality(ranked) <= Cardinality(others)
      /\ \A e \in ranked : e.name # entry.name
    BY RankedFits
<1>2. /\ Cardinality(others) \in Nat /\ Cardinality(ranked) \in Nat
      /\ IsFiniteSet(others) /\ IsFiniteSet(ranked)
    BY <1>1, FS_CardinalityType DEF CacheFits
<1>3. first \in Entries /\ first.name = entry.name /\ first.answer = entry.name /\ first.age = 0
    BY EntryFields
<1>4. UsedNow(entry, others) = {first} \cup rest
    BY DEF UsedNow
<1> HIDE DEF ranked, first
<1>5. \A e \in ranked : /\ later[e] \in Entries /\ later[e].name = e.name
                        /\ later[e].answer = e.answer /\ later[e].age = e.age + 1 /\ e.age \in Nat
    <2> SUFFICES ASSUME NEW e \in ranked
                 PROVE  /\ later[e] \in Entries /\ later[e].name = e.name
                        /\ later[e].answer = e.answer /\ later[e].age = e.age + 1 /\ e.age \in Nat
        OBVIOUS
    <2>1. e \in Entries
        BY <1>1 DEF CacheFits
    <2>2. e.age \in Nat
        BY <2>1, EntryFields
    <2>3. e.age + 1 \in Nat
        BY <2>2
    <2> QED
        BY <2>1, <2>2, <2>3, EntryFields
<1> HIDE DEF later
<1>6. \A e, d \in ranked : later[e].age = later[d].age => e = d
    BY <1>1, <1>5 DEF CacheFits, Distinct
<1>7. \A e \in ranked : later[e].answer = later[e].name
    BY <1>1, <1>5 DEF CacheFits, Truthful
<1>8. CacheFits(rest) /\ Cardinality(rest) <= Cardinality(ranked)
    BY <1>1, <1>5, <1>6, <1>7, ChangedFits
<1>9. \A e \in rest : e.name # first.name /\ e.age # first.age
    BY <1>1, <1>3, <1>5
<1> HIDE DEF rest
<1> DEFINE all == rest \cup {first}
<1>10. IsFiniteSet(all) /\ Cardinality(all) <= Cardinality(others) + 1
    <2>1. IsFiniteSet(rest) /\ Cardinality(rest) \in Nat
        BY <1>8, FS_CardinalityType DEF CacheFits
    <2>2. /\ IsFiniteSet(all)
          /\ Cardinality(all) = IF first \in rest THEN Cardinality(rest) ELSE Cardinality(rest) + 1
        BY <2>1, FS_AddElement
    <2> QED
        BY <1>1, <1>2, <1>8, <2>1, <2>2
<1>11. Distinct(all) /\ Truthful(all)
    BY <1>3, <1>8, <1>9 DEF CacheFits, Distinct, Truthful
<1>12. all \subseteq Entries
    BY <1>3, <1>8 DEF CacheFits
<1>13. UsedNow(entry, others) = all
    BY <1>4
<1> HIDE DEF all
<1>14. CacheFits(all)
    BY <1>10, <1>11, <1>12 DEF CacheFits
<1> QED
    BY <1>10, <1>13, <1>14

\* What is kept has ages below goal, and no age twice.
LEMMA MakeRoomFits ==
    ASSUME world \in Worlds, NEW entries, CacheFits(entries)
    PROVE  /\ CacheFits(MakeRoom(entries)) /\ Cardinality(MakeRoom(entries)) <= world.goal
           /\ world.goal \in Nat /\ world.cacheSize \in Nat /\ world.goal < world.cacheSize
           /\ \A r \in MakeRoom(entries) : \E e \in entries : r.name = e.name
<1> DEFINE alive == {f \in entries : f.fresh}
           room == MakeRoom(entries)
<1>1. world.goal \in Nat /\ world.cacheSize \in Nat /\ world.goal < world.cacheSize
    BY DnsQueryAssumption
<1>2. alive \subseteq entries
    BY Zenon
<1>3. room = {e \in Ranked(alive) : e.age < world.goal}
    BY Zenon DEF MakeRoom
<1> HIDE DEF alive, room
<1>4. CacheFits(Ranked(alive)) /\ \A r \in Ranked(alive) : \E e \in alive : r.name = e.name
    BY <1>2, PartFits, RankedFits
<1>5. CacheFits(room) /\ \A r \in room : r.age \in Nat /\ r.age < world.goal
    <2>1. room \subseteq Ranked(alive)
        BY <1>3
    <2>2. CacheFits(room)
        BY <1>4, <2>1, PartFits
    <2>3. \A r \in room : r.age \in Nat
        BY <2>2, EntryFields DEF CacheFits
    <2> QED
        BY <1>3, <2>2, <2>3
<1>6. Cardinality(room) <= world.goal
    <2> DEFINE ages == 1..world.goal
               f == [r \in room |-> r.age + 1]
    <2>1. IsFiniteSet(ages) /\ Cardinality(ages) = world.goal
        <3>1. 1 \in Int /\ world.goal \in Int /\ (1 > world.goal => world.goal = 0)
            BY <1>1
        <3>2. IsFiniteSet(ages) /\ Cardinality(ages) = IF 1 > world.goal THEN 0 ELSE world.goal - 1 + 1
            BY <3>1, FS_Interval
        <3> QED
            BY <1>1, <3>1, <3>2
    <2>2. f \in [room -> ages]
        BY <1>1, <1>5
    <2>3. \A r, t \in room : f[r] = f[t] => r = t
        BY <1>5 DEF CacheFits, Distinct
    <2> HIDE DEF ages, f
    <2>4. f \in Injection(room, ages)
        BY <2>2, <2>3 DEF Injection, IsInjective
    <2> QED
        BY <2>1, <2>4, FS_Injection
<1>7. \A r \in room : \E e \in entries : r.name = e.name
    BY <1>2, <1>3, <1>4
<1> QED
    BY <1>1, <1>5, <1>6, <1>7 DEF room

LEMMA NewEntry ==
    ASSUME NEW name \in Names, NEW age \in Nat
    PROVE  LET e == [name |-> name, answer |-> name, fresh |-> TRUE, age |-> age]
           IN  e \in Entries /\ e.name = name /\ e.answer = name /\ e.age = age
<1> QED
    BY DEF Entries

LEMMA StoreFits ==
    ASSUME world \in Worlds, CacheInv, NEW name \in Names
    PROVE  CacheFits(Store(name, name)) /\ Cardinality(Store(name, name)) <= world.cacheSize
<1> DEFINE entry == [name |-> name, answer |-> name, fresh |-> TRUE, age |-> 0]
           stored == [e \in cache |-> IF e.name = name THEN [entry EXCEPT !.age = e.age] ELSE e]
<1>1. entry \in Entries /\ entry.name = name /\ entry.answer = name
    BY NewEntry
<1>2. CacheFits(cache) /\ Cardinality(cache) <= world.cacheSize /\ IsFiniteSet(cache)
      /\ Cardinality(cache) \in Nat /\ world.cacheSize \in Nat
    BY MakeRoomFits, FS_CardinalityType DEF CacheInv, CacheFits
<1>3. CASE Cached(name)
    <2>1. Store(name, name) = {stored[e] : e \in cache}
        BY <1>3 DEF Store
    <2> HIDE DEF entry
    <2>2. \A e \in cache : /\ stored[e] \in Entries /\ stored[e].name = e.name
                           /\ stored[e].answer = e.name /\ stored[e].age = e.age
        <3> SUFFICES ASSUME NEW e \in cache
                     PROVE  /\ stored[e] \in Entries /\ stored[e].name = e.name
                            /\ stored[e].answer = e.name /\ stored[e].age = e.age
            OBVIOUS
        <3>1. e \in Entries /\ e.age \in Nat /\ e.answer = e.name
            BY <1>2, EntryFields DEF CacheFits, Truthful
        <3>2. CASE e.name = name
            BY <1>1, <3>1, <3>2, EntryFields
        <3>3. CASE e.name # name
            BY <3>1, <3>3
        <3> QED
            BY <3>2, <3>3
    <2> HIDE DEF stored
    <2>3. \A e, d \in cache : stored[e].age = stored[d].age => e = d
        BY <1>2, <2>2 DEF CacheFits, Distinct
    <2>4. \A e \in cache : stored[e].answer = stored[e].name
        BY <2>2
    <2>5. /\ CacheFits({stored[e] : e \in cache})
          /\ Cardinality({stored[e] : e \in cache}) <= Cardinality(cache)
        BY <1>2, <2>2, <2>3, <2>4, ChangedFits
    <2>6. Cardinality({stored[e] : e \in cache}) \in Nat
        BY <2>5, FS_CardinalityType DEF CacheFits
    <2> QED
        BY <1>2, <2>1, <2>5, <2>6
<1>4. CASE ~Cached(name)
    <2> DEFINE others == IF Cardinality(cache) >= world.cacheSize THEN MakeRoom(cache) ELSE cache
    <2>1. Store(name, name) = UsedNow(entry, others)
        BY <1>4 DEF Store
    <2>2. /\ CacheFits(others) /\ Cardinality(others) < world.cacheSize
          /\ \A e \in others : e.name # name
        <3>1. \A e \in cache : e.name # name
            BY <1>4 DEF Cached
        <3>2. CASE Cardinality(cache) >= world.cacheSize
            <4>1. IsFiniteSet(MakeRoom(cache)) /\ Cardinality(MakeRoom(cache)) \in Nat
                BY <1>2, MakeRoomFits, FS_CardinalityType DEF CacheFits
            <4> QED
                BY <1>2, <3>1, <3>2, <4>1, MakeRoomFits
        <3>3. CASE ~(Cardinality(cache) >= world.cacheSize)
            BY <1>2, <3>1, <3>3
        <3> QED
            BY <3>2, <3>3
    <2>3. Cardinality(others) \in Nat
        BY <2>2, FS_CardinalityType DEF CacheFits
    <2> HIDE DEF entry, others
    <2>4. /\ CacheFits(UsedNow(entry, others))
          /\ Cardinality(UsedNow(entry, others)) <= Cardinality(others) + 1
        BY <1>1, <2>2, UsedNowFits
    <2>5. Cardinality(UsedNow(entry, others)) \in Nat
        BY <2>4, FS_CardinalityType DEF CacheFits
    <2> QED
        BY <1>2, <2>1, <2>2, <2>3, <2>4, <2>5
<1> QED
    BY <1>3, <1>4

-----------------------------------------------------------------------------
LEMMA CacheInit == Init => CacheInv
<1> SUFFICES ASSUME Init PROVE CacheInv
    OBVIOUS
<1>1. cache = {} /\ world \in Worlds
    BY DEF Init
<1>2. world.cacheSize \in Nat /\ IsFiniteSet({}) /\ Cardinality({}) = 0
    BY <1>1, FS_EmptySet, DnsQueryAssumption
<1> QED
    BY <1>1, <1>2 DEF CacheInv, CacheFits, Distinct, Truthful

\* A question that is answered leaves the answer to it in the cache, or nothing.
LEMMA FinishKeeps ==
    ASSUME QuestionInv, CacheInv, UNCHANGED world, NEW id \in Ids, pend[id] # Free,
           NEW got, NEW kept \in BOOLEAN, kept => got = pend[id].name, NEW end, NEW failed,
           NEW messages, Finish(id, got, kept, end, failed, messages)
    PROVE  CacheInv'
<1>1. pend[id].name \in Names
    BY PendingHasGen DEF QuestionInv, Pendings
<1>2. CASE kept
    <2>1. cache' = Store(pend[id].name, pend[id].name)
        BY <1>2 DEF Finish
    <2>2. world \in Worlds
        BY DEF QuestionInv, TypeInv
    <2> QED
        BY <1>1, <2>1, <2>2, StoreFits DEF CacheInv
<1>3. CASE ~kept
    BY <1>3 DEF Finish, CacheInv
<1> QED
    BY <1>2, <1>3

LEMMA KeepableIs == Keepable \subseteq BOOLEAN
    BY DnsQueryAssumption DEF Keepable

LEMMA OneFailedKeeps ==
    ASSUME QuestionInv, CacheInv, UNCHANGED world, NEW id \in Ids, pend[id] # Free,
           NEW t, NEW messages, NEW work, OneFailed(id, t, messages, work)
    PROVE  CacheInv'
<1> DEFINE p == [pend[id] EXCEPT !.nfailed = @ + 1, !.failed = @ \cup {t}]
<1>1. CASE cache' = cache
    BY <1>1 DEF CacheInv
<1>2. CASE Finish(id, "servfail", FALSE, "failed", p.failed, messages)
    BY <1>2, FinishKeeps
<1> QED
    BY <1>1, <1>2 DEF OneFailed

LEMMA GotAnswerKeeps ==
    ASSUME QuestionInv, CacheInv, UNCHANGED world, NEW id \in Ids, pend[id] # Free,
           NEW t, NEW messages, NEW work, GotAnswer(id, t, pend[id].name, messages, work)
    PROVE  CacheInv'
<1>1. CASE cache' = cache
    BY <1>1 DEF CacheInv
<1>2. ASSUME NEW kept \in Keepable,
             Finish(id, pend[id].name, kept, "answer", pend[id].failed, messages)
      PROVE  CacheInv'
    BY <1>2, KeepableIs, FinishKeeps
<1> QED
    BY <1>1, <1>2, OneFailedKeeps DEF GotAnswer, AskOverTcp

LEMMA OnUpstreamKeeps ==
    ASSUME QuestionInv, CacheInv, UNCHANGED world, NEW m \in asked, OnUpstream(m)
    PROVE  CacheInv'
<1>1. m.id \in Ids
    BY DEF QuestionInv, TypeInv, Asked
<1>2. CASE Accepts(pend[m.id], m)
    <2>1. pend[m.id] # Free /\ m.name = pend[m.id].name
        BY <1>2 DEF Accepts
    <2> QED
        BY <1>1, <1>2, <2>1, GotAnswerKeeps DEF OnUpstream
<1>3. CASE ~Accepts(pend[m.id], m)
    BY <1>3 DEF OnUpstream, CacheInv
<1> QED
    BY <1>2, <1>3

LEMMA JobDoneKeeps ==
    ASSUME QuestionInv, CacheInv, UNCHANGED world, NEW j \in jobs, JobDone(j)
    PROVE  CacheInv'
<1> DEFINE p == pend[j.id]
           work == jobs \ {j}
<1>1. j.id \in Ids
    BY DEF QuestionInv, TypeInv, Jobs
<1>2. CASE ~StillWanted(p, j)
    BY <1>2 DEF JobDone, CacheInv
<1>3. CASE StillWanted(p, j)
    <2>1. p # Free /\ j.name = p.name
        BY <1>3 DEF StillWanted, QuestionInv, JobsFit
    <2>2. CASE j.doh
        <3>1. GotAnswer(j.id, j.target, p.name, asked, work)
            BY <1>3, <2>1, <2>2 DEF JobDone
        <3> QED
            BY <1>1, <2>1, <3>1, GotAnswerKeeps
    <2>3. CASE \E kept \in Keepable : Finish(j.id, j.name, kept, "tcp", p.failed, asked)
        <3>1. PICK kept \in Keepable : Finish(j.id, j.name, kept, "tcp", p.failed, asked)
            BY <2>3
        <3> QED
            BY <1>1, <2>1, <3>1, KeepableIs, FinishKeeps
    <2>4. CASE Finish(j.id, "servfail", FALSE, "tcp", p.failed, asked)
        BY <1>1, <2>1, <2>4, FinishKeeps
    <2> QED
        BY <1>3, <2>2, <2>3, <2>4 DEF JobDone
<1> QED
    BY <1>2, <1>3

\* An entry that is too old keeps its place, and one that is used changes it.
LEMMA ExpiresKeeps ==
    ASSUME world \in Worlds, CacheInv, UNCHANGED world, NEW e \in cache, Expires(e)
    PROVE  CacheInv'
<1> DEFINE aged == [d \in cache |-> IF d = e THEN [e EXCEPT !.fresh = FALSE] ELSE d]
<1>1. cache' = {aged[d] : d \in cache}
    BY DEF Expires
<1>2. CacheFits(cache) /\ e \in Entries /\ cache \subseteq Entries
    BY DEF CacheInv, CacheFits
<1>3. \A d \in cache : /\ aged[d] \in Entries /\ aged[d].name = d.name
                       /\ aged[d].answer = d.answer /\ aged[d].age = d.age
    BY <1>2, EntryFields
<1> HIDE DEF aged
<1>4. \A d, f \in cache : aged[d].age = aged[f].age => d = f
    BY <1>2, <1>3 DEF CacheFits, Distinct
<1>5. \A d \in cache : aged[d].answer = aged[d].name
    BY <1>2, <1>3 DEF CacheFits, Truthful
<1>6. CacheFits(cache') /\ Cardinality(cache') <= Cardinality(cache)
    BY <1>1, <1>2, <1>3, <1>4, <1>5, ChangedFits
<1>7. Cardinality(cache') \in Nat /\ Cardinality(cache) \in Nat
    BY <1>2, <1>6, FS_CardinalityType DEF CacheFits
<1>8. world.cacheSize \in Nat
    BY DnsQueryAssumption
<1> QED
    BY <1>6, <1>7, <1>8 DEF CacheInv

LEMMA CacheHitKeeps ==
    ASSUME world \in Worlds, CacheInv, UNCHANGED world, NEW name \in Names, CacheHit(name)
    PROVE  CacheInv'
<1>1. PICK e \in cache : cache' = UsedNow(e, cache \ {e})
    BY DEF CacheHit
<1> DEFINE others == cache \ {e}
<1>2. CacheFits(cache) /\ e \in Entries /\ e.answer = e.name /\ IsFiniteSet(cache)
    BY <1>1 DEF CacheInv, CacheFits, Truthful
<1>3. CacheFits(others) /\ \A d \in others : d.name # e.name
    BY <1>2, PartFits DEF CacheFits, Distinct
<1>4. Cardinality(others) = Cardinality(cache) - 1 /\ Cardinality(cache) \in Nat
    BY <1>2, FS_RemoveElement, FS_CardinalityType
<1> HIDE DEF others
<1>5. cache' = UsedNow(e, others)
    BY <1>1 DEF others
<1>6. CacheFits(cache') /\ Cardinality(cache') <= Cardinality(others) + 1
    BY <1>2, <1>3, <1>5, UsedNowFits
<1>7. Cardinality(cache') \in Nat /\ world.cacheSize \in Nat
    BY <1>6, FS_CardinalityType, DnsQueryAssumption DEF CacheFits
<1> QED
    BY <1>4, <1>6, <1>7 DEF CacheInv

LEMMA CacheStep == QuestionInv /\ CacheInv /\ [Next]_<<world, vars>> => CacheInv'
<1> SUFFICES ASSUME QuestionInv, CacheInv, [Next]_<<world, vars>> PROVE CacheInv'
    OBVIOUS
<1>1. CASE UNCHANGED <<world, vars>>
    BY <1>1 DEF vars, CacheInv
<1>2. CASE Next
    <2>1. CASE UNCHANGED cache
        BY <1>2, <2>1 DEF Next, CacheInv
    <2>2. CASE Reload
        <3>1. /\ cache' = {} /\ world' = world /\ world \in Worlds
              /\ IsFiniteSet({}) /\ Cardinality({}) = 0
            BY <1>2, <2>2, FS_EmptySet DEF Next, Reload, QuestionInv, TypeInv
        <3>2. world.cacheSize \in Nat
            BY <3>1, DnsQueryAssumption
        <3> QED
            BY <3>1, <3>2 DEF CacheInv, CacheFits, Distinct, Truthful
    <2>3. ASSUME NEW id \in Ids, Deadline(id) PROVE CacheInv'
        BY <1>2, <2>3, FinishKeeps DEF Next, Deadline
    <2> QED
        BY <1>2, <2>1, <2>2, <2>3, CacheHitKeeps, ExpiresKeeps, OnUpstreamKeeps, JobDoneKeeps
           DEF QuestionInv, TypeInv, Next, Step, AskUdp, AskTcp, Prefetch, NewPending, Accept, CloseConn, Retry
<1> QED
    BY <1>1, <1>2

\* The cache never has two entries of a name, nor an answer to another question,
\* nor more entries than it may have, for any size and any share of it that is
\* kept when room is made, in whatever order entries are used, expire and are
\* stored by answers and threads that are late.
THEOREM CacheIsSound == Spec => []CacheSound
<1>1. CacheInv => CacheSound
    BY DEF CacheInv, CacheFits, Distinct, Truthful, CacheSound
<1> QED
    BY <1>1, CacheInit, CacheStep, QuestionInvariant, PTL DEF Spec

\* The state of questions, cache and connections has its type.
THEOREM TypeCorrect == Spec => []TypeOK
<1>1. QuestionInv /\ CacheInv => TypeOK
    BY Zenon DEF QuestionInv, TypeInv, CacheInv, CacheFits, TypeOK, Recorded, Endings
<1> QED
    BY <1>1, CacheInit, CacheStep, QuestionInvariant, PTL DEF Spec
=============================================================================
