------------------------------ MODULE DnsQuery ------------------------------
(***************************************************************************)
(* The questions of tilewin-dnsd, dns/main.c: what becomes of a question of *)
(* an app, or of the prefetching, from its arrival to its one answer.       *)
(*                                                                          *)
(* A question that neither the cache nor a block list answers is `pending'  *)
(* under a random id.  It goes to the first few of its servers at once, to  *)
(* the next one when those have all said that they cannot answer, and to    *)
(* all of them when the retry timer has run out.  A server is asked over    *)
(* UDP, or over HTTPS by a thread that writes the result to a pipe; an      *)
(* answer too large for UDP is asked for again over TCP by such a thread,   *)
(* too.  Datagrams may be lost, repeated and late, threads may be late.     *)
(*                                                                          *)
(* The service is single threaded but for the jobs of those threads: an     *)
(* action is the handling of one message, or one timer of one question.     *)
(* Operators marked `mutant' are wrong on purpose: each is a plausible      *)
(* mistake in the definition after it.                                      *)
(***************************************************************************)
EXTENDS Naturals, FiniteSets

CONSTANTS
    Ids,          \* the ids of questions
    Names,        \* the names asked for
    Conns,        \* the places for TCP connections of clients
    Worlds,       \* the servers, the size of the cache and what may fail
    CacheOn,      \* whether the config has the cache on
    Batch,        \* how many servers are asked at once
    MaxAccepts    \* bound: connections accepted

\* The servers are 1..servers in the order they are asked, doh those asked over
\* HTTPS; goal is what is left of the cache when room is made in it; the network
\* may repeat an answer, or bring it when its question has ended and its id is
\* used again (late); sendto and pthread_create may fail (sendsFail); and the
\* bound on the questions that become pending.
ASSUME DnsQueryAssumption ==
    /\ \A w \in Worlds :
         /\ {w.servers, w.cacheSize, w.goal, w.questions} \subseteq Nat
         /\ w.doh \subseteq 1..w.servers /\ Batch \in 1..w.servers
         /\ w.goal < w.cacheSize
         /\ {w.late, w.sendsFail} \subseteq BOOLEAN
    /\ CacheOn \in BOOLEAN /\ MaxAccepts \in Nat
    /\ "servfail" \notin Names

VARIABLES
    world,    \* the one that this is
    pend,     \* d.pend: id -> the pending question, Free for NULL
    gen,      \* d.gen, the number of questions that became pending
    asked,    \* questions under way to a server over UDP, or answers to them
    jobs,     \* questions in the hands of a thread
    cache,    \* d.cache
    conns,    \* d.conns
    serials,  \* d.conn_serial
    accepts,  \* how many connections there have been
    log       \* what became of each question, by its gen

vars == <<pend, gen, asked, jobs, cache, conns, serials, accepts, log>>

Targets == 1..world.servers
Gens == 1..world.questions
Kinds == {"udp", "tcp", "prefetch"}

\* `failed' are the targets that nfailed counts, for the properties.
Free == [gen |-> 0, kind |-> "udp", name |-> "none", serial |-> 0, nsent |-> 0,
         nfailed |-> 0, tcpBusy |-> FALSE, retry |-> FALSE, failed |-> {}]

Pendings == [gen : Gens, kind : Kinds, name : Names, serial : 0..MaxAccepts,
             nsent : 0..world.servers, nfailed : Nat, tcpBusy : BOOLEAN,
             retry : BOOLEAN, failed : SUBSET Targets]

Asked == [id : Ids, name : Names, target : Targets]
Jobs == [id : Ids, gen : Gens, name : Names, target : Targets, doh : BOOLEAN]

\* Of `used', the time of an entry's last use, its age: how many were used since.
Entries == [name : Names, answer : Names, fresh : BOOLEAN, age : Nat]

\* A connection: its serial, and who is at the other end.
Closed == [serial |-> 0, client |-> 0]

\* `end' says how the question ended: with an answer, because every server had
\* failed, with what came over TCP, or at its deadline.
Unasked == [kind |-> "udp", name |-> "none", client |-> 0, end |-> "unasked",
            replies |-> 0, got |-> "none", at |-> 0, failed |-> {}]

\* The type of the state: d.pend, d.cache and d.conns, with a question under
\* every id or none, and messages only of questions that were asked.
TypeOK ==
    /\ world \in Worlds
    /\ pend \in [Ids -> Pendings \cup {Free}]
    /\ gen \in 0..world.questions
    /\ asked \subseteq Asked
    /\ jobs \subseteq Jobs
    /\ cache \subseteq Entries
    /\ conns \in [Conns -> [serial : 0..MaxAccepts, client : 0..MaxAccepts]]
    /\ serials \in 0..MaxAccepts /\ accepts \in 0..MaxAccepts
    /\ log \in [Gens -> [kind : Kinds, name : Names \cup {"none"},
                         client : 0..MaxAccepts,
                         end : {"unasked", "open", "answer", "failed", "tcp", "deadline"},
                         replies : Nat, got : Names \cup {"none", "servfail"},
                         at : 0..MaxAccepts, failed : SUBSET Targets]]

Init ==
    /\ world \in Worlds
    /\ pend = [id \in Ids |-> Free] /\ gen = 0
    /\ asked = {} /\ jobs = {} /\ cache = {}
    /\ conns = [c \in Conns |-> Closed] /\ serials = 0 /\ accepts = 0
    /\ log = [g \in Gens |-> Unasked]

-----------------------------------------------------------------------------
(***************************************************************************)
(* The cache.                                                               *)
(***************************************************************************)
Cached(name) == \E e \in cache : e.name = name
CachedFresh(name) == \E e \in cache : e.name = name /\ e.fresh

\* The ages of entries of which some were removed.
Ranked(entries) ==
    {[e EXCEPT !.age = Cardinality({f \in entries : f.age < e.age})] : e \in entries}

\* An entry that is used now, among the others.
UsedNow(entry, others) ==
    {[entry EXCEPT !.age = 0]} \cup {[e EXCEPT !.age = @ + 1] : e \in Ranked(others)}

\* cache_make_room: the gone first, then the ones used longest ago.
MakeRoom(entries) ==
    {e \in Ranked({f \in entries : f.fresh}) : e.age < world.goal}

\* cache_store of an answer.  With the cache on it is kept unless its time to
\* live, or the lack of one, says otherwise.
Keepable == {CacheOn, FALSE}

StoreRoomOnce(name, answer) ==                                      \* mutant
    LET entry == [name |-> name, answer |-> answer, fresh |-> TRUE, age |-> 0]
    IN  IF Cached(name)
        THEN {IF e.name = name THEN [entry EXCEPT !.age = e.age] ELSE e : e \in cache}
        ELSE UsedNow(entry, IF Cardinality(cache) > world.cacheSize
                            THEN MakeRoom(cache) ELSE cache)

Store(name, answer) ==
    LET entry == [name |-> name, answer |-> answer, fresh |-> TRUE, age |-> 0]
    IN  IF Cached(name)
        THEN {IF e.name = name THEN [entry EXCEPT !.age = e.age] ELSE e : e \in cache}
        ELSE UsedNow(entry, IF Cardinality(cache) >= world.cacheSize
                            THEN MakeRoom(cache) ELSE cache)

\* Time passes for an entry.
Expires(e) ==
    /\ e.fresh
    /\ cache' = (cache \ {e}) \cup {[e EXCEPT !.fresh = FALSE]}
    /\ UNCHANGED <<pend, gen, asked, jobs, conns, serials, accepts, log>>

\* answer_query finds a fresh entry: it was used now, and the answer goes out.
CacheHit(name) ==
    /\ \E e \in cache : e.name = name /\ e.fresh /\ cache' = UsedNow(e, cache \ {e})
    /\ UNCHANGED <<pend, gen, asked, jobs, conns, serials, accepts, log>>

\* reload clears it.
Reload ==
    /\ cache # {} /\ cache' = {}
    /\ UNCHANGED <<pend, gen, asked, jobs, conns, serials, accepts, log>>

-----------------------------------------------------------------------------
(***************************************************************************)
(* Asking the servers.                                                      *)
(***************************************************************************)
\* send_more up to a number of targets: the sends to `lost' fail.  The
\* messages are what is under way without them.
SendMore(id, p, upto, lost, messages, work) ==
    LET count == IF upto <= world.servers THEN upto ELSE world.servers
        now == {t \in Targets : p.nsent < t /\ t <= count}
        sent == now \ lost
    IN  /\ lost \subseteq (IF world.sendsFail THEN now ELSE {})
        /\ pend' = [pend EXCEPT ![id] =
                      [p EXCEPT !.nsent = IF count > @ THEN count ELSE @,
                                !.nfailed = @ + Cardinality(lost),
                                !.failed = @ \cup lost]]
        /\ asked' = messages \cup
             {[id |-> id, name |-> p.name, target |-> t] : t \in sent \ world.doh}
        /\ jobs' = work \cup
             {[id |-> id, gen |-> p.gen, name |-> p.name, target |-> t, doh |-> TRUE] :
                t \in sent \cap world.doh}

\* new_pending with forward: the question is put under a free id.
NewPending(id, kind, name, serial, client) ==
    /\ pend[id] = Free /\ gen < world.questions
    /\ gen' = gen + 1
    /\ \E lost \in SUBSET Targets :
         SendMore(id, [gen |-> gen + 1, kind |-> kind, name |-> name, serial |-> serial,
                       nsent |-> 0, nfailed |-> 0, tcpBusy |-> FALSE, retry |-> TRUE,
                       failed |-> {}],
                  Batch, lost, asked, jobs)
    /\ log' = [log EXCEPT ![gen + 1] =
                 [Unasked EXCEPT !.kind = kind, !.name = name, !.client = client,
                                 !.end = "open"]]
    /\ UNCHANGED <<cache, conns, serials, accepts>>

\* answer_query for a question that is not answered at once
AskUdp(id, name) == ~CachedFresh(name) /\ NewPending(id, "udp", name, 0, 0)

AskTcp(id, name, c) ==
    /\ conns[c] # Closed /\ ~CachedFresh(name)
    /\ NewPending(id, "tcp", name, conns[c].serial, conns[c].client)

\* prefetch_round, also when the entry is about to expire
Prefetch(id, name) == CacheOn /\ NewPending(id, "prefetch", name, 0, 0)

\* on_tcp_accept
Accept(c) ==
    /\ conns[c] = Closed /\ accepts < MaxAccepts
    /\ accepts' = accepts + 1 /\ serials' = serials + 1
    /\ conns' = [conns EXCEPT ![c] = [serial |-> serials', client |-> accepts']]
    /\ UNCHANGED <<pend, gen, asked, jobs, cache, log>>

\* close_conn: the client closed it, or it was idle for ten seconds.
CloseConn(c) ==
    /\ conns[c] # Closed
    /\ conns' = [conns EXCEPT ![c] = Closed]
    /\ UNCHANGED <<pend, gen, asked, jobs, cache, serials, accepts, log>>

-----------------------------------------------------------------------------
(***************************************************************************)
(* The end of a question.                                                   *)
(***************************************************************************)
\* deliver: over UDP, or on the connection with the serial, if it is there.
Reaches(p) ==
    IF p.kind = "tcp" THEN {c \in Conns : conns[c].serial = p.serial} ELSE {}

\* free_pending
FreePendingUnlessTcp(id, end) ==                                    \* mutant
    IF end = "tcp" THEN pend ELSE [pend EXCEPT ![id] = Free]

FreePending(id, end) == [pend EXCEPT ![id] = Free]

\* Datagrams of a question that ends are lost or late.
StillUnderWay(id, messages) ==
    IF world.late THEN messages ELSE {m \in messages : m.id # id}

\* finish, with an answer to `got', or "servfail" (made up, or of a server)
Replied(g, p, got, end, failed) ==
    LET at == Reaches(p)
    IN  [log[g] EXCEPT
           !.end = end, !.got = got, !.failed = failed,
           !.replies = @ + (IF p.kind = "udp" \/ at # {} THEN 1 ELSE 0),
           !.at = IF at # {} THEN conns[CHOOSE c \in at : TRUE].client ELSE @]

Finish(id, got, kept, end, failed, messages) ==
    LET p == pend[id]
    IN  /\ pend' = FreePending(id, end)
        /\ asked' = StillUnderWay(id, messages)
        /\ cache' = IF kept THEN Store(p.name, got) ELSE cache
        /\ log' = [log EXCEPT ![p.gen] = Replied(p.gen, p, got, end, failed)]

\* A server said that it cannot answer, or over HTTPS nothing at all: SERVFAIL
\* and REFUSED in got_answer, and target_failed.
OneFailedEarly(id, t, messages, work) ==                            \* mutant
    LET p == [pend[id] EXCEPT !.nfailed = @ + 1, !.failed = @ \cup {t}]
    IN  IF p.nfailed < p.nsent
        THEN /\ pend' = [pend EXCEPT ![id] = p]
             /\ asked' = messages /\ jobs' = work
             /\ UNCHANGED <<cache, log>>
        ELSE /\ Finish(id, "servfail", FALSE, "failed", p.failed, messages)
             /\ jobs' = work

OneFailed(id, t, messages, work) ==
    LET p == [pend[id] EXCEPT !.nfailed = @ + 1, !.failed = @ \cup {t}]
    IN  IF p.nfailed < p.nsent
        THEN /\ pend' = [pend EXCEPT ![id] = p]
             /\ asked' = messages /\ jobs' = work
             /\ UNCHANGED <<cache, log>>
        ELSE IF p.nsent < world.servers
        THEN /\ \E lost \in SUBSET Targets :
                  SendMore(id, p, p.nsent + 1, lost, messages, work)
             /\ UNCHANGED <<cache, log>>
        ELSE /\ Finish(id, "servfail", FALSE, "failed", p.failed, messages)
             /\ jobs' = work

\* ask_over_tcp, for an answer that was cut off
AskOverTcp(id, t, messages) ==
    LET p == pend[id]
        job == [id |-> id, gen |-> p.gen, name |-> p.name, target |-> t, doh |-> FALSE]
    IN  /\ \/ pend' = [pend EXCEPT ![id].tcpBusy = TRUE] /\ jobs' = jobs \cup {job}
           \/ world.sendsFail /\ UNCHANGED <<pend, jobs>>
        /\ asked' = messages
        /\ UNCHANGED <<cache, log>>

\* got_answer, for an answer to the question: the server cannot answer, the
\* answer goes on, or it was cut off and its asker may get all of it.
GotAnswer(id, t, answer, messages, work) ==
    \/ OneFailed(id, t, messages, work)
    \/ /\ \E kept \in Keepable : Finish(id, answer, kept, "answer", pend[id].failed, messages)
       /\ jobs' = work
    \/ /\ pend[id].kind # "udp" /\ t \notin world.doh
       /\ AskOverTcp(id, t, messages)

Received(m) == IF world.late THEN asked ELSE asked \ {m}

\* What on_upstream and got_answer ask of a message: it has the id of a pending
\* question, is from a server that was asked, and answers that question.
Accepts(p, m) ==
    /\ p # Free /\ ~p.tcpBusy
    /\ m.target <= p.nsent
    /\ m.name = p.name

OnUpstream(m) ==
    /\ m \in asked
    /\ IF Accepts(pend[m.id], m)
       THEN GotAnswer(m.id, m.target, m.name, Received(m), jobs)
       ELSE asked' = Received(m) /\ UNCHANGED <<pend, jobs, cache, log>>
    /\ UNCHANGED <<gen, conns, serials, accepts>>

\* tcp_job_done, for a thread that asked over HTTPS or TCP
StillWantedById(p, j) == p # Free                                   \* mutant

StillWanted(p, j) == p # Free /\ p.gen = j.gen

JobDone(j) ==
    /\ j \in jobs
    /\ LET work == jobs \ {j}
           p == pend[j.id]
       IN  IF ~StillWanted(p, j)
           THEN jobs' = work /\ UNCHANGED <<pend, asked, cache, log>>
           ELSE IF j.doh THEN GotAnswer(j.id, j.target, j.name, asked, work)
           ELSE /\ \/ \E kept \in Keepable : Finish(j.id, j.name, kept, "tcp", p.failed, asked)
                   \/ Finish(j.id, "servfail", FALSE, "tcp", p.failed, asked)
                /\ jobs' = work
    /\ UNCHANGED <<gen, conns, serials, accepts>>

\* housekeeping: the servers not asked yet are, as the first did not answer.
Retry(id) ==
    LET p == pend[id]
    IN  /\ p # Free /\ p.retry /\ ~p.tcpBusy
        /\ \E lost \in SUBSET Targets :
             SendMore(id, [p EXCEPT !.retry = FALSE], world.servers, lost, asked, jobs)
        /\ UNCHANGED <<gen, cache, conns, serials, accepts, log>>

Deadline(id) ==
    /\ pend[id] # Free
    /\ Finish(id, "servfail", FALSE, "deadline", pend[id].failed, asked)
    /\ UNCHANGED <<gen, jobs, conns, serials, accepts>>

Step ==
    \/ \E id \in Ids, name \in Names : AskUdp(id, name) \/ Prefetch(id, name)
    \/ \E id \in Ids, name \in Names, c \in Conns : AskTcp(id, name, c)
    \/ \E name \in Names : CacheHit(name)
    \/ \E e \in cache : Expires(e)
    \/ Reload
    \/ \E c \in Conns : Accept(c) \/ CloseConn(c)
    \/ \E m \in asked : OnUpstream(m)
    \/ \E j \in jobs : JobDone(j)
    \/ \E id \in Ids : Retry(id) \/ Deadline(id)

Next == Step /\ UNCHANGED world

Spec == Init /\ [][Next]_<<world, vars>>

-----------------------------------------------------------------------------
(***************************************************************************)
(* Properties.                                                              *)
(***************************************************************************)
\* No question gets two answers, whatever repeats, comes late or is asked
\* twice: a question is pending under one id exactly as long as it is open,
\* nothing was sent for an open one, and a prefetch is never answered.  And every
\* question of an app that ended got its answer, whatever the servers did, unless
\* its connection is gone: the one who asked over UDP, or is still connected, is
\* not left waiting.
OpenUnder(g) == {id \in Ids : pend[id].gen = g}

StillListens(q) ==
    \/ q.kind = "udp"
    \/ q.kind = "tcp" /\ \E c \in Conns : conns[c].client = q.client

AnsweredOnce ==
    \A g \in Gens :
      /\ log[g].end = "open" <=> \E id \in Ids : OpenUnder(g) = {id}
      /\ log[g].end \in {"unasked", "open"} => log[g].replies = 0
      /\ log[g].replies <= (IF log[g].kind = "prefetch" THEN 0 ELSE 1)
      /\ log[g].end \notin {"unasked", "open"} /\ StillListens(log[g]) => log[g].replies = 1

\* An answer is to the question, and goes to whom asked it: not to the next
\* question under a used id, and not to the next client on a used connection.
AnswerFits ==
    \A g \in Gens :
      /\ log[g].got \in {"none", "servfail", log[g].name}
      /\ log[g].replies > 0 => log[g].at = log[g].client

\* The cache has at most one entry of a name, whose answer is to that name, and
\* no more than its size.
CacheSound ==
    /\ Cardinality(cache) <= world.cacheSize
    /\ \A e, f \in cache : e.name = f.name => e = f
    /\ \A e \in cache : e.answer = e.name

\* "A server failing (SERVFAIL) does not fail the query" (tests/dns_service.py):
\* SERVFAIL before the deadline says that every server of the question has failed,
\* if no answer is repeated or comes when its id is used again.  One exception is
\* the code's: a question that came over TCP, or of the prefetching, may have had an
\* answer that was cut off; the server it came from, which has not failed, is then
\* asked over TCP, and when that fails no other is asked.
FailsFairly(q) ==
    q.got = "servfail" =>
        \/ q.end = "deadline"
        \/ q.end = "failed" /\ q.failed = Targets
        \/ q.end = "tcp" /\ q.kind # "udp" /\ q.failed # Targets

FailsWhenNoneIsLeft == ~world.late => \A g \in Gens : FailsFairly(log[g])

=============================================================================
