------------------------ MODULE DisplayManagerProofs -------------------------
(***************************************************************************)
(* Theorems about DisplayManager, for any settings, any number of prompts   *)
(* and of quick deaths: a user's session never shares the screen with a     *)
(* greeter, a password that was asked for never meets the daemon, and a     *)
(* reply never meets a later attempt.                                       *)
(***************************************************************************)
EXTENDS DisplayManager, TLAPS

ToDaemon == {"login", "answer", "cancel", "power"}
ToGreeter == {"secret", "visible", "failed", "ok", "refused"}

\* What a queue may hold: no answer or cancel, at most one; no login, at most one;
\* no prompt, at most one; no reply, and none after the last of an attempt.
Answers == {"answer", "cancel"}
Prompts == {"secret", "visible"}
Verdicts == {"failed", "ok"}

Lacks(q, words) == \A i \in 1..Len(q) : q[i] \notin words
AtMostOne(q, words) ==
    \A i, j \in 1..Len(q) : i < j /\ q[i] \in words => q[j] \notin words
VerdictIsLast(q) ==
    \A i, j \in 1..Len(q) : i < j /\ q[i] \in Verdicts => q[j] \notin Replies

Silent(q) == Lacks(q, Answers)
OneAnswer(q) == AtMostOne(q, Answers)
NoLogin(q) == Lacks(q, {"login"})
OneLogin(q) == AtMostOne(q, {"login"})
NoPrompt(q) == Lacks(q, Prompts)
OnePrompt(q) == AtMostOne(q, Prompts)
NoReply(q) == Lacks(q, Replies)
NoFailed(q) == Lacks(q, {"failed"})
NoVerdict(q) == Lacks(q, Verdicts)

\* Where the daemon is when no greeter is to be expected, when one may run, and
\* on its way out.
Between == {"auto", "start", "after"}
Unattended == {"autoCheck", "autoPoll", "autoWait"}
Serving == {"loop", "stop", "retry"}
Leaving == {"endStop", "endWait", "ended"}

\* A login screen is up or may yet come.
On == pc \in Serving \/ (~term /\ pc \notin Leaving)

\* The worker was told to go on, or has gone on.
Permitted == InSession \/ (worker = "waiting" /\ ctl = "G")

\* Where everything is, with the greeter's deaths counted up to the last.
PlacesFit == PlacesOK /\ (deaths = MaxQuickDeaths => pc = "gaveUp")

\* A greeter's compositor runs under its process.  Between two login screens
\* there is none, and no worker.
GreeterFits ==
    /\ screen # "none" <=> greeter = "running"
    /\ pc \in Between /\ ~term => greeter = "none" /\ worker = "none"
    /\ pc \in Unattended \cup Leaving /\ ~term => greeter = "none"
    /\ pc \in {"autoPoll", "retry", "gaveUp"} => greeter = "none"

\* A greeter that is told to make room has its compositor and is told to quit:
\* one that was not would be killed and leave the compositor behind.
StopFits ==
    /\ pc = "stop" =>
         /\ "daemon" \notin conn /\ "daemon" \notin old /\ "queue" \notin old
         /\ greeter # "opening" /\ screen # "booting"
         /\ screen # "none" => quitting
    /\ ~SlowToQuit /\ orphan => pc \in Leaving

\* A worker that talks to a greeter holds the socket, and nobody has talked to a
\* greeter that waits to be accepted.  Two wait only where no worker is.
SocketFits ==
    /\ conn = {} => toDaemon = << >>
    /\ "daemon" \in conn => "daemon" \notin old
    /\ "worker" \in conn => "worker" \notin old
    /\ kind = "login" /\ worker \in Authenticating => "worker" \in conn \/ "worker" \in old
    /\ On /\ ("worker" \in conn \/ "worker" \in old) =>
         kind = "login" /\ worker \in Authenticating \cup {"waiting"}
    /\ "queue" \in conn => Silent(toDaemon) /\ toGreeter = << >> /\ screen # "prompt"
    /\ "queue" \in old => conn = {"queue"} /\ (On => worker = "none")
    /\ screen \notin Stages => toGreeter = << >>
    /\ ctl = "A" => worker \in {"waiting", "zombie"} \/ pc = "ended"

\* A login that a greeter which is gone has left gets no answer, hence no further than
\* the first prompt.
Starting == greeter = "opening" \/ screen = "booting"

Unanswered == {"forked", "pam", "asking", "failing"}

OldLoginFits ==
    /\ greeter = "none" /\ On =>
         "queue" \notin old /\ "daemon" \notin old /\ (conn = {"worker"} \/ Silent(toDaemon))
    /\ Starting => old = {} /\ Silent(toDaemon)
    /\ Starting /\ On =>
         /\ worker \in Unanswered \cup {"none", "zombie"} /\ ctl # "A"
         /\ worker \in Unanswered => kind = "login"
    /\ Starting /\ "queue" \in conn /\ On => worker = "none"
    /\ On /\ ("worker" \in old \/ (Starting /\ "worker" \in conn)) =>
         worker \in Unanswered /\ (worker \in {"forked", "pam"} => prompts = 0)
    /\ Silent(oldSaid)

\* Who was told to go on has the screen to itself.
HandOver == Permitted => greeter = "none" /\ (SlowToQuit \/ ~orphan)

\* A reply belongs to the attempt that is made: none comes before the daemon has
\* read the login, and none after a verdict.
RepliesFit ==
    pc \in Serving /\ screen \in Stages =>
      /\ screen \in {"idle", "done"} => NoReply(toGreeter)
      /\ screen = "idle" => "worker" \notin conn
      /\ OneLogin(toDaemon) /\ VerdictIsLast(toGreeter)
      /\ ~NoLogin(toDaemon) => screen = "checking" /\ NoReply(toGreeter) /\ "worker" \notin conn
      /\ "worker" \in conn /\ (screen = "done" \/ ~NoVerdict(toGreeter)) => worker \notin Unanswered
      /\ ~NoFailed(toGreeter) => "worker" \notin conn

\* A prompt, its answer or neither: what was asked is open in one place, and only
\* while the worker waits for it.
PromptsFit ==
    pc \in Serving /\ "daemon" \in conn /\ ~Failures =>
      /\ OneAnswer(toDaemon) /\ OnePrompt(toGreeter)
      /\ ~Silent(toDaemon) => NoPrompt(toGreeter) /\ screen # "prompt"
      /\ screen = "prompt" => NoPrompt(toGreeter)
      /\ worker # "asking" \/ "worker" \notin conn =>
           Silent(toDaemon) /\ NoPrompt(toGreeter) /\ screen # "prompt"

Inv ==
    /\ PlacesFit /\ GreeterFits /\ StopFits /\ SocketFits /\ OldLoginFits /\ HandOver
    /\ RepliesFit /\ PromptsFit
-----------------------------------------------------------------------------
\* What sending and reading change of a queue.
LEMMA LacksKept ==
    ASSUME NEW S, NEW q \in Seq(S), NEW words
    PROVE  /\ \A w \in S : w \notin words /\ Lacks(q, words) => Lacks(Append(q, w), words)
           /\ q # << >> /\ Lacks(q, words) =>
                Head(q) \notin words /\ Lacks(Tail(q), words)
    BY DEF Lacks

\* ... where there is at most one of some words,
LEMMA AtMostOneKept ==
    ASSUME NEW S, NEW q \in Seq(S), NEW words
    PROVE  /\ Lacks(q, words) => AtMostOne(q, words)
           /\ \A w \in S : w \notin words /\ AtMostOne(q, words) => AtMostOne(Append(q, w), words)
           /\ \A w \in S : Lacks(q, words) => AtMostOne(Append(q, w), words)
           /\ q # << >> /\ AtMostOne(q, words) =>
                /\ AtMostOne(Tail(q), words)
                /\ Head(q) \in words => Lacks(Tail(q), words)
    BY DEF Lacks, AtMostOne

\* and where nothing of an attempt comes after its verdict.
LEMMA VerdictIsLastKept ==
    ASSUME NEW S, NEW q \in Seq(S)
    PROVE  /\ \A w \in S : w \notin Replies /\ VerdictIsLast(q) => VerdictIsLast(Append(q, w))
           /\ \A w \in S : Lacks(q, Verdicts) => VerdictIsLast(Append(q, w))
           /\ q # << >> /\ VerdictIsLast(q) =>
                /\ VerdictIsLast(Tail(q))
                /\ Head(q) \in Verdicts => Lacks(Tail(q), Replies)
<1>1. Verdicts \subseteq Replies
    BY DEF Verdicts, Replies
<1> QED
    BY <1>1 DEF Lacks, VerdictIsLast

\* The same of the predicates on the two queues.
LEMMA EmptyQueues ==
    /\ << >> \in Seq(ToDaemon) /\ << >> \in Seq(ToGreeter)
    /\ Silent(<< >>) /\ OneAnswer(<< >>) /\ NoLogin(<< >>) /\ OneLogin(<< >>)
    /\ NoPrompt(<< >>) /\ OnePrompt(<< >>) /\ NoReply(<< >>) /\ NoFailed(<< >>)
    /\ NoVerdict(<< >>) /\ VerdictIsLast(<< >>)
    BY DEF Lacks, AtMostOne, Silent, OneAnswer, NoLogin, OneLogin, NoPrompt, OnePrompt, NoReply,
           NoFailed, NoVerdict, VerdictIsLast

LEMMA DaemonQueue ==
    ASSUME NEW q \in Seq(ToDaemon)
    PROVE  /\ Silent(q) => OneAnswer(q)
           /\ \A w \in ToDaemon :
                /\ Append(q, w) \in Seq(ToDaemon)
                /\ w \notin Answers => /\ Silent(q) => Silent(Append(q, w))
                                       /\ OneAnswer(q) => OneAnswer(Append(q, w))
                /\ Silent(q) => OneAnswer(Append(q, w))
                /\ w # "login" => /\ NoLogin(q) => NoLogin(Append(q, w))
                                  /\ OneLogin(q) => OneLogin(Append(q, w))
                /\ NoLogin(q) => OneLogin(Append(q, w))
           /\ q # << >> =>
                /\ Tail(q) \in Seq(ToDaemon) /\ Head(q) \in ToDaemon
                /\ Silent(q) => Silent(Tail(q)) /\ Head(q) \notin Answers
                /\ OneAnswer(q) => OneAnswer(Tail(q)) /\ (Head(q) \in Answers => Silent(Tail(q)))
                /\ NoLogin(q) => NoLogin(Tail(q)) /\ Head(q) # "login"
                /\ OneLogin(q) => OneLogin(Tail(q)) /\ (Head(q) = "login" => NoLogin(Tail(q)))
<1>1. \A w \in ToDaemon : Append(q, w) \in Seq(ToDaemon)
    OBVIOUS
<1>2. q # << >> => Tail(q) \in Seq(ToDaemon) /\ Head(q) \in ToDaemon
    OBVIOUS
<1>3. \A w \in ToDaemon : w # "login" <=> w \notin {"login"}
    OBVIOUS
<1>4. q # << >> => (Head(q) = "login" <=> Head(q) \in {"login"})
    OBVIOUS
<1> HIDE DEF ToDaemon
<1> QED
    BY <1>1, <1>2, <1>3, <1>4, LacksKept, AtMostOneKept
       DEF Silent, OneAnswer, NoLogin, OneLogin

LEMMA GreeterQueue ==
    ASSUME NEW q \in Seq(ToGreeter)
    PROVE  /\ \A w \in ToGreeter :
                /\ Append(q, w) \in Seq(ToGreeter)
                /\ w \notin Prompts => /\ NoPrompt(q) => NoPrompt(Append(q, w))
                                       /\ OnePrompt(q) => OnePrompt(Append(q, w))
                /\ NoPrompt(q) => OnePrompt(Append(q, w))
                /\ w \notin Replies => /\ NoReply(q) => NoReply(Append(q, w))
                                       /\ VerdictIsLast(q) => VerdictIsLast(Append(q, w))
                /\ NoVerdict(q) => VerdictIsLast(Append(q, w))
                /\ w \notin Verdicts /\ NoVerdict(q) => NoVerdict(Append(q, w))
                /\ w # "failed" /\ NoFailed(q) => NoFailed(Append(q, w))
           /\ q # << >> =>
                /\ Tail(q) \in Seq(ToGreeter) /\ Head(q) \in ToGreeter
                /\ NoPrompt(q) => NoPrompt(Tail(q)) /\ Head(q) \notin Prompts
                /\ OnePrompt(q) => OnePrompt(Tail(q)) /\ (Head(q) \in Prompts => NoPrompt(Tail(q)))
                /\ NoReply(q) => NoReply(Tail(q)) /\ Head(q) \notin Replies
                /\ VerdictIsLast(q) =>
                     VerdictIsLast(Tail(q)) /\ (Head(q) \in Verdicts => NoReply(Tail(q)))
                /\ NoVerdict(q) => NoVerdict(Tail(q)) /\ Head(q) \notin Verdicts
                /\ NoFailed(q) => NoFailed(Tail(q)) /\ Head(q) # "failed"
           /\ NoReply(q) => NoPrompt(q) /\ NoVerdict(q)
           /\ NoVerdict(q) => NoFailed(q)
<1>1. \A w \in ToGreeter : Append(q, w) \in Seq(ToGreeter)
    OBVIOUS
<1>2. q # << >> => Tail(q) \in Seq(ToGreeter) /\ Head(q) \in ToGreeter
    OBVIOUS
<1>3. \A w \in ToGreeter : w # "failed" <=> w \notin {"failed"}
    OBVIOUS
<1>4. q # << >> => (Head(q) = "failed" <=> Head(q) \in {"failed"})
    OBVIOUS
<1>5. /\ NoReply(q) => NoPrompt(q) /\ NoVerdict(q)
      /\ NoVerdict(q) => NoFailed(q)
    BY DEF Lacks, NoReply, NoPrompt, NoVerdict, NoFailed, Replies, Prompts, Verdicts
<1> HIDE DEF ToGreeter
<1> QED
    BY <1>1, <1>2, <1>3, <1>4, <1>5, LacksKept, AtMostOneKept, VerdictIsLastKept
       DEF NoPrompt, OnePrompt, NoReply, NoVerdict, NoFailed

\* What becomes of the ends of the connections, and of what nobody has read, when a worker
\* ends or goes on, and when the daemon closes its own.
LEMMA LetGoIs ==
    ASSUME conn \in Ends, old \in Ends, LetGo
    PROVE  /\ conn' \in Ends /\ old' \in Ends
           /\ "worker" \notin conn' /\ "worker" \notin old'
           /\ ("queue" \in conn' <=> "queue" \in conn) /\ ("daemon" \in conn' <=> "daemon" \in conn)
           /\ ("queue" \in old' <=> "queue" \in old) /\ ("daemon" \in old' <=> "daemon" \in old)
           /\ conn = {"queue"} => conn' = {"queue"}
           /\ conn \in {{}, {"worker"}} => conn' = {}
           /\ old = {} => old' = {}
           /\ toDaemon' = << >> \/ (conn' # {} /\ toDaemon' = toDaemon)
           /\ oldSaid' = << >> \/ oldSaid' = oldSaid
           /\ toDaemon \in Seq(ToDaemon) => toDaemon' \in Seq(ToDaemon)
           /\ oldSaid \in Seq(ToDaemon) => oldSaid' \in Seq(ToDaemon)
    BY EmptyQueues DEF LetGo, Remain, Ends

LEMMA CloseSocketIs ==
    ASSUME conn \in Ends, old \in Ends, CloseSocket
    PROVE  /\ conn' \in Ends /\ old' \in Ends
           /\ "daemon" \notin conn' /\ "daemon" \notin old'
           /\ ("queue" \in conn' <=> "queue" \in conn) /\ ("worker" \in conn' <=> "worker" \in conn)
           /\ ("queue" \in old' <=> "queue" \in old) /\ ("worker" \in old' <=> "worker" \in old)
           /\ conn = {"queue"} => conn' = {"queue"}
           /\ conn' \in {{}, {"queue"}, {"worker"}}
           /\ old = {} => old' = {}
           /\ toDaemon' = << >> \/ (conn' # {} /\ toDaemon' = toDaemon)
           /\ oldSaid' = << >> \/ oldSaid' = oldSaid
           /\ toDaemon \in Seq(ToDaemon) => toDaemon' \in Seq(ToDaemon)
           /\ oldSaid \in Seq(ToDaemon) => oldSaid' \in Seq(ToDaemon)
    BY EmptyQueues DEF CloseSocket, Remain, Ends

\* Every process sets its flags to what a flag may be.
LEMMA FlagsKept == FlagsOK /\ Next => FlagsOK'
<1>1. FlagsOK /\ GreeterNext => FlagsOK'
    BY Zenon DEF FlagsOK, GreeterNext, GreeterOpens, daemonVars, socketVars, workerVars,
       GreeterConnects, Submit, Send, With, AnswerPrompt, PowerButton, greeterVars, GreeterHears,
       GreeterHearsEnd, CompositorEnds, GreeterProgramDies, OrphanEnds
<1>2. FlagsOK /\ WorkerNext => FlagsOK'
    BY Zenon DEF FlagsOK, WorkerNext, WorkerBegins, daemonVars, greeterVars, socketVars,
       WorkerAsks, Tell, HangsUp, WorkerHears, Heeds, WorkerHearsEnd, WorkerDecides, WorkerFails,
       LetGo, Remain,
       WorkerWritesA, WorkerGoes, WorkerOpens, SessionStarts, SessionEnds, WorkerExits, WorkerDies
<1>3. FlagsOK /\ DaemonNext => FlagsOK'
    BY Zenon DEF FlagsOK, DaemonNext, AutoStarts, greeterVars, socketVars, workerVars, StartLogin,
       AutoUser, AutoOnce, AutoChecks, SignalWorker, LetGo, Remain, AutoPolls, CtlEnded,
       AutoWaits, LoginScreen,
       StartGreeter, SignalGreeter, CloseSocket, AcceptGreeter, daemonVars, GreeterSaid,
       OldGreeterSaid, HangsUp,
       GreeterHungUp, WorkerSaid, StopDone, StopKills, ReapWorker, ReapGreeter, RetryGreeter,
       LeaveLoop, AfterLoginScreen, EndWaits
<1>4. FlagsOK /\ Term => FlagsOK'
    BY Zenon DEF FlagsOK, Term, greeterVars, socketVars, workerVars
<1> QED
    BY <1>1, <1>2, <1>3, <1>4 DEF Next

-----------------------------------------------------------------------------
\* Every action keeps the invariant, whose parts are expanded in what follows.
USE DEF Inv, PlacesFit, PlacesOK, GreeterFits, StopFits, SocketFits, OldLoginFits, HandOver,
    RepliesFit, PromptsFit, Permitted, InSession, Between, Unattended, Serving, Leaving, On,
    Starting, Unanswered, Ends, ToDaemon, ToGreeter, Answers, Prompts, Verdicts, Replies, Stages,
    Authenticating,
    SlowToQuit, Failures

\* The greeter.
LEMMA GreeterOpensKeeps == Inv /\ GreeterOpens /\ UNCHANGED setting => Inv'
    BY EmptyQueues, DaemonQueue, GreeterQueue DEF GreeterOpens, daemonVars, socketVars, workerVars

LEMMA GreeterConnectsKeeps == Inv /\ GreeterConnects /\ UNCHANGED setting => Inv'
    BY EmptyQueues, DaemonQueue, GreeterQueue DEF GreeterConnects, daemonVars, workerVars

LEMMA SubmitKeeps == Inv /\ Submit /\ UNCHANGED setting => Inv'
    BY EmptyQueues, DaemonQueue, GreeterQueue DEF Submit, daemonVars, workerVars, Send, With

LEMMA AnswerPromptKeeps == Inv /\ AnswerPrompt /\ UNCHANGED setting => Inv'
<1> SUFFICES ASSUME Inv, AnswerPrompt, UNCHANGED setting
             PROVE  Inv'
    OBVIOUS
<1>1. PICK word \in Answers : Send(word)
    BY DEF AnswerPrompt, Answers
<1> QED
    BY <1>1, EmptyQueues, DaemonQueue, GreeterQueue DEF AnswerPrompt, daemonVars, workerVars,
       Send, With

LEMMA PowerButtonKeeps == Inv /\ PowerButton /\ UNCHANGED setting => Inv'
    BY EmptyQueues, DaemonQueue, GreeterQueue DEF PowerButton, daemonVars, greeterVars,
       workerVars, Send, With

LEMMA GreeterHearsKeeps == Inv /\ GreeterHears /\ UNCHANGED setting => Inv'
    BY EmptyQueues, DaemonQueue, GreeterQueue DEF GreeterHears, daemonVars, workerVars, With

LEMMA GreeterHearsEndKeeps == Inv /\ GreeterHearsEnd /\ UNCHANGED setting => Inv'
    BY EmptyQueues, DaemonQueue, GreeterQueue DEF GreeterHearsEnd, daemonVars, socketVars,
       workerVars

LEMMA CompositorEndsKeeps == Inv /\ CompositorEnds /\ UNCHANGED setting => Inv'
    BY EmptyQueues, DaemonQueue, GreeterQueue DEF CompositorEnds, daemonVars, workerVars

LEMMA GreeterProgramDiesKeeps == Inv /\ GreeterProgramDies /\ UNCHANGED setting => Inv'
    BY EmptyQueues, DaemonQueue, GreeterQueue DEF GreeterProgramDies, daemonVars, workerVars

LEMMA OrphanEndsKeeps == Inv /\ OrphanEnds /\ UNCHANGED setting => Inv'
    BY EmptyQueues, DaemonQueue, GreeterQueue DEF OrphanEnds, daemonVars, socketVars, workerVars

\* The worker.  What it tells the greeter depends on whether that is there.
LEMMA WorkerBeginsKeeps == Inv /\ WorkerBegins /\ UNCHANGED setting => Inv'
    BY EmptyQueues, DaemonQueue, GreeterQueue DEF WorkerBegins, daemonVars, greeterVars,
       socketVars

LEMMA WorkerAsksKeeps == Inv /\ WorkerAsks /\ UNCHANGED setting => Inv'
    BY EmptyQueues, DaemonQueue, GreeterQueue, DisplayManagerAssumption DEF WorkerAsks,
       daemonVars, greeterVars, Tell, HangsUp

LEMMA WorkerHearsKeeps == Inv /\ WorkerHears /\ UNCHANGED setting => Inv'
<1> SUFFICES ASSUME Inv, WorkerHears, UNCHANGED setting
             PROVE  Inv'
    OBVIOUS
<1>1. CASE "worker" \in conn /\ toDaemon # << >> /\ worker' = Heeds(Head(toDaemon))
           /\ toDaemon' = Tail(toDaemon) /\ UNCHANGED oldSaid
    BY <1>1, EmptyQueues, DaemonQueue, GreeterQueue DEF WorkerHears, Heeds, daemonVars, greeterVars
<1>2. CASE "worker" \in old /\ oldSaid # << >> /\ worker' = Heeds(Head(oldSaid))
           /\ oldSaid' = Tail(oldSaid) /\ UNCHANGED toDaemon
    <2>1. On => worker' = "asking" /\ Silent(oldSaid')
        BY <1>2, DaemonQueue DEF Heeds
    <2> QED
        BY <1>2, <2>1, EmptyQueues, DaemonQueue, GreeterQueue DEF WorkerHears, Heeds, daemonVars,
           greeterVars
<1> QED
    BY <1>1, <1>2 DEF WorkerHears

LEMMA WorkerHearsEndKeeps == Inv /\ WorkerHearsEnd /\ UNCHANGED setting => Inv'
    BY EmptyQueues, DaemonQueue, GreeterQueue DEF WorkerHearsEnd, daemonVars, greeterVars,
       socketVars, HangsUp

LEMMA WorkerDecidesKeeps == Inv /\ WorkerDecides /\ UNCHANGED setting => Inv'
<1> SUFFICES ASSUME Inv, WorkerDecides, UNCHANGED setting
             PROVE  Inv'
    OBVIOUS
<1>1. CASE UNCHANGED toGreeter
    <2>1. CASE worker' = "failing"
        BY <1>1, <2>1, EmptyQueues, DaemonQueue, GreeterQueue DEF WorkerDecides, daemonVars,
           greeterVars, socketVars
    <2>2. CASE worker' = "ready"
        BY <1>1, <2>2, EmptyQueues, DaemonQueue, GreeterQueue DEF WorkerDecides, daemonVars,
           greeterVars, socketVars, Tell, HangsUp
    <2> QED
        BY <2>1, <2>2 DEF WorkerDecides
<1>2. CASE toGreeter' # toGreeter
    <2>1. /\ screen \in Stages /\ toGreeter' = Append(toGreeter, "ok")
          /\ kind = "login" /\ worker' = "ready"
        BY <1>2 DEF WorkerDecides, Tell, HangsUp, socketVars
    <2> QED
        BY <1>2, <2>1, EmptyQueues, DaemonQueue, GreeterQueue DEF WorkerDecides, daemonVars,
           greeterVars, socketVars, Tell, HangsUp
<1> QED
    BY <1>1, <1>2

LEMMA WorkerFailsKeeps == Inv /\ WorkerFails /\ UNCHANGED setting => Inv'
<1> SUFFICES ASSUME Inv, WorkerFails, UNCHANGED setting
             PROVE  Inv'
    OBVIOUS
<1>1. CASE UNCHANGED toGreeter
    <2>1. CASE kind = "login" /\ LetGo
        BY <1>1, <2>1, LetGoIs, EmptyQueues, DaemonQueue, GreeterQueue DEF WorkerFails, daemonVars,
           greeterVars, Tell, HangsUp
    <2>2. CASE kind # "login" /\ UNCHANGED socketVars
        BY <1>1, <2>2, EmptyQueues, DaemonQueue, GreeterQueue DEF WorkerFails, daemonVars,
           greeterVars, socketVars
    <2> QED
        BY <2>1, <2>2 DEF WorkerFails
<1>2. CASE toGreeter' # toGreeter
    <2>1. /\ screen \in Stages /\ toGreeter' = Append(toGreeter, "failed")
          /\ kind = "login" /\ LetGo /\ "worker" \in conn /\ worker = "failing"
          /\ worker' = "zombie"
        BY <1>2 DEF WorkerFails, Tell, HangsUp, socketVars
    <2>2. /\ toGreeter' \in Seq(ToGreeter)
          /\ NoPrompt(toGreeter) => NoPrompt(toGreeter')
          /\ NoVerdict(toGreeter) => VerdictIsLast(toGreeter')
          /\ OnePrompt(toGreeter) => OnePrompt(toGreeter')
        BY <2>1, GreeterQueue
    <2>3. PlacesFit'
        BY <2>1, <2>2, LetGoIs DEF WorkerFails, daemonVars, greeterVars
    <2>4. GreeterFits' /\ StopFits' /\ HandOver'
        BY <2>1, LetGoIs DEF WorkerFails, daemonVars, greeterVars
    <2>5. SocketFits' /\ OldLoginFits'
        BY <2>1, LetGoIs, EmptyQueues DEF WorkerFails, daemonVars, greeterVars
    <2>6. RepliesFit' /\ PromptsFit'
        BY <1>2, <2>1, <2>2, LetGoIs, EmptyQueues, GreeterQueue DEF WorkerFails, daemonVars,
           greeterVars, Tell
    <2> QED
        BY <2>3, <2>4, <2>5, <2>6
<1> QED
    BY <1>1, <1>2

LEMMA WorkerWritesAKeeps == Inv /\ WorkerWritesA /\ UNCHANGED setting => Inv'
    BY EmptyQueues, DaemonQueue, GreeterQueue DEF WorkerWritesA, daemonVars, greeterVars,
       socketVars

LEMMA WorkerGoesKeeps == Inv /\ WorkerGoes /\ UNCHANGED setting => Inv'
    BY EmptyQueues, DaemonQueue, GreeterQueue DEF WorkerGoes, daemonVars, greeterVars, LetGo, Remain

LEMMA WorkerOpensKeeps == Inv /\ WorkerOpens /\ UNCHANGED setting => Inv'
    BY EmptyQueues, DaemonQueue, GreeterQueue DEF WorkerOpens, daemonVars, greeterVars, socketVars

LEMMA SessionStartsKeeps == Inv /\ SessionStarts /\ UNCHANGED setting => Inv'
    BY EmptyQueues, DaemonQueue, GreeterQueue DEF SessionStarts, daemonVars, greeterVars,
       socketVars

LEMMA SessionEndsKeeps == Inv /\ SessionEnds /\ UNCHANGED setting => Inv'
    BY EmptyQueues, DaemonQueue, GreeterQueue DEF SessionEnds, daemonVars, greeterVars, socketVars

LEMMA WorkerExitsKeeps == Inv /\ WorkerExits /\ UNCHANGED setting => Inv'
    BY EmptyQueues, DaemonQueue, GreeterQueue DEF WorkerExits, daemonVars, greeterVars, socketVars

LEMMA WorkerDiesKeeps == Inv /\ WorkerDies /\ UNCHANGED setting => Inv'
<1> SUFFICES ASSUME Inv, WorkerDies, UNCHANGED setting
             PROVE  Inv'
    OBVIOUS
<1>1. PlacesFit'
    BY LetGoIs DEF WorkerDies, daemonVars, greeterVars
<1>2. GreeterFits' /\ StopFits' /\ HandOver'
    BY LetGoIs DEF WorkerDies, daemonVars, greeterVars
<1>3. SocketFits' /\ OldLoginFits'
    BY LetGoIs, EmptyQueues DEF WorkerDies, daemonVars, greeterVars
<1>4. RepliesFit' /\ PromptsFit'
    BY LetGoIs, EmptyQueues DEF WorkerDies, daemonVars, greeterVars
<1> QED
    BY <1>1, <1>2, <1>3, <1>4

\* The daemon.
LEMMA AutoStartsKeeps == Inv /\ AutoStarts /\ UNCHANGED setting => Inv'
    BY EmptyQueues, DaemonQueue, GreeterQueue, DisplayManagerAssumption DEF AutoStarts,
       greeterVars, socketVars, workerVars, StartLogin, AutoUser, AutoOnce

LEMMA AutoChecksKeeps == Inv /\ AutoChecks /\ UNCHANGED setting => Inv'
<1> SUFFICES ASSUME Inv, AutoChecks, UNCHANGED setting
             PROVE  Inv'
    OBVIOUS
<1>1. CASE UNCHANGED <<workerVars, socketVars>>
    BY <1>1, EmptyQueues, DaemonQueue, GreeterQueue DEF AutoChecks, greeterVars, socketVars,
       workerVars
<1>2. CASE term /\ SignalWorker /\ pc' = "autoWait"
    <2>1. CASE LetGo /\ worker' = "zombie"
        BY <1>2, <2>1, LetGoIs, EmptyQueues DEF AutoChecks, greeterVars, SignalWorker
    <2>2. CASE UNCHANGED <<worker, conn, old, toDaemon, oldSaid>>
        BY <1>2, <2>2 DEF AutoChecks, greeterVars, SignalWorker
    <2> QED
        BY <1>2, <2>1, <2>2 DEF SignalWorker
<1> QED
    BY <1>1, <1>2 DEF AutoChecks

LEMMA AutoPollsKeeps == Inv /\ AutoPolls /\ UNCHANGED setting => Inv'
    BY EmptyQueues, DaemonQueue, GreeterQueue DEF AutoPolls, greeterVars, socketVars, CtlEnded

LEMMA AutoWaitsKeeps == Inv /\ AutoWaits /\ UNCHANGED setting => Inv'
    BY EmptyQueues, DaemonQueue, GreeterQueue DEF AutoWaits, greeterVars, socketVars

LEMMA LoginScreenKeeps == Inv /\ LoginScreen /\ UNCHANGED setting => Inv'
<1> SUFFICES ASSUME Inv, LoginScreen, UNCHANGED setting
             PROVE  Inv'
    OBVIOUS
<1>1. CASE term
    BY <1>1, CloseSocketIs, EmptyQueues DEF LoginScreen, workerVars, SignalGreeter
<1>2. CASE ~term /\ UNCHANGED greeterVars
    BY <1>2, EmptyQueues, DaemonQueue, GreeterQueue, DisplayManagerAssumption DEF LoginScreen,
       workerVars, socketVars, StartGreeter, greeterVars
<1>3. CASE ~term /\ greeter' = "opening"
    BY <1>3, EmptyQueues, DaemonQueue, GreeterQueue, DisplayManagerAssumption DEF LoginScreen,
       workerVars, socketVars, StartGreeter, greeterVars
<1> QED
    BY <1>1, <1>2, <1>3 DEF LoginScreen, StartGreeter

LEMMA AcceptGreeterKeeps == Inv /\ AcceptGreeter /\ UNCHANGED setting => Inv'
<1> SUFFICES ASSUME Inv, AcceptGreeter, UNCHANGED setting
             PROVE  Inv'
    OBVIOUS
<1>1. CASE "queue" \in old
    BY <1>1, EmptyQueues, DaemonQueue, GreeterQueue DEF AcceptGreeter, Remain, daemonVars,
       greeterVars, workerVars
<1>2. CASE "queue" \notin old
    <2>1. /\ conn' = {"daemon"} /\ toDaemon' = toDaemon /\ "queue" \in conn
          /\ old' = old \ {"daemon"} /\ old' \in Ends
          /\ oldSaid' = << >> \/ oldSaid' = oldSaid
        BY <1>2 DEF AcceptGreeter, Remain
    <2>2. oldSaid' \in Seq(ToDaemon)
        BY <2>1, EmptyQueues
    <2> QED
        BY <1>2, <2>1, <2>2, EmptyQueues, DaemonQueue, GreeterQueue DEF AcceptGreeter, daemonVars,
           greeterVars, workerVars
<1> QED
    BY <1>1, <1>2

LEMMA GreeterSaidKeeps == Inv /\ GreeterSaid /\ UNCHANGED setting => Inv'
<1> SUFFICES ASSUME Inv, GreeterSaid, UNCHANGED setting
             PROVE  Inv'
    OBVIOUS
<1>1. CASE Head(toDaemon) = "login" /\ StartLogin("login") /\ UNCHANGED toGreeter
    BY <1>1, EmptyQueues, DaemonQueue, GreeterQueue, DisplayManagerAssumption DEF GreeterSaid,
       daemonVars, greeterVars, workerVars, HangsUp, StartLogin
<1>2. CASE UNCHANGED <<toGreeter, workerVars>>
    BY <1>2, EmptyQueues, DaemonQueue, GreeterQueue, DisplayManagerAssumption DEF GreeterSaid,
       daemonVars, greeterVars, workerVars, HangsUp, StartLogin
<1>3. ASSUME NEW word \in {"failed", "refused"}, toGreeter' = Append(toGreeter, word),
             screen \in Stages, UNCHANGED workerVars, word = "failed" => Head(toDaemon) = "login"
      PROVE  Inv'
    BY <1>3, EmptyQueues, DaemonQueue, GreeterQueue, DisplayManagerAssumption DEF GreeterSaid,
       daemonVars, greeterVars, workerVars, HangsUp, StartLogin
<1> QED
    BY <1>1, <1>2, <1>3 DEF GreeterSaid, HangsUp, workerVars

LEMMA OldGreeterSaidKeeps == Inv /\ OldGreeterSaid /\ UNCHANGED setting => Inv'
    BY EmptyQueues, DaemonQueue, GreeterQueue, DisplayManagerAssumption DEF OldGreeterSaid,
       daemonVars, greeterVars, workerVars, StartLogin

LEMMA GreeterHungUpKeeps == Inv /\ GreeterHungUp /\ UNCHANGED setting => Inv'
    BY EmptyQueues, DaemonQueue, GreeterQueue DEF GreeterHungUp, daemonVars, greeterVars,
       workerVars, HangsUp, CloseSocket, Remain

LEMMA WorkerSaidKeeps == Inv /\ WorkerSaid /\ UNCHANGED setting => Inv'
<1> SUFFICES ASSUME Inv, WorkerSaid, UNCHANGED setting
             PROVE  Inv'
    OBVIOUS
<1>1. CASE CtlEnded /\ ctl' = "none" /\ UNCHANGED <<pc, socketVars, greeterVars>>
    BY <1>1, EmptyQueues, DaemonQueue, GreeterQueue DEF WorkerSaid, greeterVars, socketVars,
       SignalGreeter,
       CloseSocket, Remain, CtlEnded
<1>2. CASE ctl = "A" /\ ctl' = "read" /\ pc' = "stop" /\ CloseSocket /\ SignalGreeter
    <2>1. screen' # "none" => quitting'
        BY <1>2, Zenon DEF SignalGreeter
    <2> QED
        BY <1>2, <2>1, EmptyQueues, DaemonQueue, GreeterQueue DEF WorkerSaid, greeterVars,
           SignalGreeter, CloseSocket, Remain, CtlEnded
<1> QED
    BY <1>1, <1>2 DEF WorkerSaid

LEMMA StopDoneKeeps == Inv /\ StopDone /\ UNCHANGED setting => Inv'
<1> SUFFICES ASSUME Inv, StopDone, UNCHANGED setting
             PROVE  Inv'
    OBVIOUS
<1>1. CASE pc = "stop"
    BY <1>1, EmptyQueues, DaemonQueue, GreeterQueue DEF StopDone, socketVars
<1>2. CASE pc = "endStop"
    <2>1. CASE LetGo /\ worker' = "zombie"
        BY <1>2, <2>1, LetGoIs, EmptyQueues DEF StopDone, SignalWorker
    <2>2. CASE UNCHANGED <<worker, conn, old, toDaemon, oldSaid>>
        BY <1>2, <2>2 DEF StopDone, SignalWorker
    <2> QED
        BY <1>2, <2>1, <2>2 DEF StopDone, SignalWorker
<1> QED
    BY <1>1, <1>2 DEF StopDone

LEMMA StopKillsKeeps == Inv /\ StopKills /\ UNCHANGED setting => Inv'
    BY EmptyQueues, DaemonQueue, GreeterQueue DEF StopKills, daemonVars, workerVars

LEMMA ReapWorkerKeeps == Inv /\ ReapWorker /\ UNCHANGED setting => Inv'
    BY EmptyQueues, DaemonQueue, GreeterQueue DEF ReapWorker, greeterVars, socketVars

LEMMA ReapGreeterKeeps == Inv /\ ReapGreeter /\ UNCHANGED setting => Inv'
    BY EmptyQueues, DaemonQueue, GreeterQueue, DisplayManagerAssumption DEF ReapGreeter,
       workerVars, CloseSocket, Remain

LEMMA RetryGreeterKeeps == Inv /\ RetryGreeter /\ UNCHANGED setting => Inv'
<1> SUFFICES ASSUME Inv, RetryGreeter, UNCHANGED setting
             PROVE  Inv'
    OBVIOUS
<1>1. CASE UNCHANGED greeterVars
    BY <1>1, EmptyQueues, DaemonQueue, GreeterQueue DEF RetryGreeter, greeterVars, socketVars,
       workerVars, StartGreeter
<1>2. CASE greeter' = "opening" /\ worker = "none"
    BY <1>2, EmptyQueues, DaemonQueue, GreeterQueue DEF RetryGreeter, greeterVars, socketVars,
       workerVars, StartGreeter
<1> QED
    BY <1>1, <1>2 DEF RetryGreeter, StartGreeter

LEMMA LeaveLoopKeeps == Inv /\ LeaveLoop /\ UNCHANGED setting => Inv'
    BY EmptyQueues, DaemonQueue, GreeterQueue DEF LeaveLoop, greeterVars, socketVars, workerVars

LEMMA AfterLoginScreenKeeps == Inv /\ AfterLoginScreen /\ UNCHANGED setting => Inv'
<1> SUFFICES ASSUME Inv, AfterLoginScreen, UNCHANGED setting
             PROVE  Inv'
    OBVIOUS
<1>1. CASE once
    BY <1>1, CloseSocketIs, EmptyQueues DEF AfterLoginScreen,
       workerVars, SignalGreeter
<1>2. CASE ~once
    BY <1>2, EmptyQueues, DaemonQueue, GreeterQueue DEF AfterLoginScreen, greeterVars, socketVars,
       workerVars, AutoOnce
<1> QED
    BY <1>1, <1>2

LEMMA EndWaitsKeeps == Inv /\ EndWaits /\ UNCHANGED setting => Inv'
    BY EmptyQueues, DaemonQueue, GreeterQueue DEF EndWaits, greeterVars, socketVars

\* SIGTERM.
LEMMA TermKeeps == Inv /\ Term /\ UNCHANGED setting => Inv'
    BY EmptyQueues, DaemonQueue, GreeterQueue DEF Term, greeterVars, socketVars, workerVars

HIDE DEF Inv, PlacesFit, PlacesOK, GreeterFits, StopFits, SocketFits, OldLoginFits, HandOver,
    RepliesFit, PromptsFit, Permitted, InSession, Between, Unattended, Serving, Leaving, On,
    Starting, Unanswered, Ends, ToDaemon, ToGreeter, Answers, Prompts, Verdicts, Replies, Stages,
    Authenticating,
    SlowToQuit, Failures

-----------------------------------------------------------------------------
\* The initial states satisfy the invariant.
LEMMA InitHolds == Init => Inv
    BY EmptyQueues, DisplayManagerAssumption
    DEF Init, Inv, PlacesFit, PlacesOK, GreeterFits, StopFits, SocketFits, OldLoginFits,
        HandOver, RepliesFit, PromptsFit, Permitted, InSession, Between, Unattended, Serving,
        Leaving, On, Starting, Unanswered, Ends, Stages, Authenticating, ToDaemon, ToGreeter

\* A step that changes nothing keeps the invariant.
LEMMA StutterKeeps == Inv /\ UNCHANGED <<setting, vars>> => Inv'
    BY DEF vars, daemonVars, greeterVars, socketVars, workerVars, Inv, PlacesFit, PlacesOK,
           GreeterFits, StopFits, SocketFits, OldLoginFits, HandOver, RepliesFit, PromptsFit,
           Permitted, InSession, On, Starting, CtlEnded, SlowToQuit, Failures

\* Everything the other theorems say of the three kinds of processes rests on this:
\* where the daemon, the greeter and the worker may be relative to each other.
THEOREM ProcessesFit == Spec => []Inv
<1>1. Init => Inv
    BY InitHolds
<1>2. Inv /\ [Next]_<<setting, vars>> => Inv'
    <2> SUFFICES ASSUME Inv, [Next]_<<setting, vars>>
                 PROVE  Inv'
        OBVIOUS
    <2>1. CASE GreeterNext /\ UNCHANGED setting
        BY <2>1, GreeterOpensKeeps, GreeterConnectsKeeps, SubmitKeeps, AnswerPromptKeeps,
           PowerButtonKeeps, GreeterHearsKeeps, GreeterHearsEndKeeps, CompositorEndsKeeps,
           GreeterProgramDiesKeeps, OrphanEndsKeeps
           DEF GreeterNext
    <2>2. CASE WorkerNext /\ UNCHANGED setting
        BY <2>2, WorkerBeginsKeeps, WorkerAsksKeeps, WorkerHearsKeeps, WorkerHearsEndKeeps,
           WorkerDecidesKeeps, WorkerFailsKeeps, WorkerWritesAKeeps, WorkerGoesKeeps,
           WorkerOpensKeeps, SessionStartsKeeps, SessionEndsKeeps, WorkerExitsKeeps,
           WorkerDiesKeeps
           DEF WorkerNext
    <2>3. CASE DaemonNext /\ UNCHANGED setting
        BY <2>3, AutoStartsKeeps, AutoChecksKeeps, AutoPollsKeeps, AutoWaitsKeeps,
           LoginScreenKeeps, AcceptGreeterKeeps, GreeterSaidKeeps, OldGreeterSaidKeeps,
           GreeterHungUpKeeps,
           WorkerSaidKeeps, StopDoneKeeps, StopKillsKeeps, ReapWorkerKeeps, ReapGreeterKeeps,
           RetryGreeterKeeps, LeaveLoopKeeps, AfterLoginScreenKeeps, EndWaitsKeeps
           DEF DaemonNext
    <2>4. CASE Term /\ UNCHANGED setting
        BY <2>4, TermKeeps
    <2>5. CASE UNCHANGED <<setting, vars>>
        BY <2>5, StutterKeeps
    <2> QED
        BY <2>1, <2>2, <2>3, <2>4, <2>5 DEF Next
<1> QED
    BY <1>1, <1>2, PTL DEF Spec

\* The state of the daemon, the greeter and the worker has its type.
THEOREM TypeCorrect == Spec => []TypeOK
<1>1. Init => FlagsOK
    BY DEF Init, FlagsOK
<1>2. FlagsOK /\ [Next]_<<setting, vars>> => FlagsOK'
    <2>1. CASE UNCHANGED <<setting, vars>>
        BY <2>1 DEF FlagsOK, vars, daemonVars, greeterVars, workerVars
    <2> QED
        BY <2>1, FlagsKept
<1>3. Inv /\ FlagsOK => TypeOK
    BY DEF Inv, PlacesFit, TypeOK
<1> QED
    BY <1>1, <1>2, <1>3, ProcessesFit, PTL DEF Spec

\* "The greeter gives up the screen before anything starts": no greeter, no
\* compositor of one and no compositor left behind is there while a user's
\* session is opened, runs or is closed.
THEOREM SessionHasTheScreen == Spec => []ScreenHandedOver
<1>1. Inv => ScreenHandedOver
    BY DEF Inv, GreeterFits, HandOver, Permitted, ScreenHandedOver
<1> QED
    BY <1>1, ProcessesFit, PTL

\* "Passwords only ever pass through the worker": what was typed in answer to a
\* prompt is not in the socket when the daemon listens on it.
THEOREM DaemonSeesNoPassword == Spec => []PasswordsPassTheDaemonBy
<1>1. Inv => PasswordsPassTheDaemonBy
    BY DEF Inv, PromptsFit, Serving, PasswordsPassTheDaemonBy, Silent, Lacks, Answers
<1> QED
    BY <1>1, ProcessesFit, PTL

\* A login screen that waits for a name finds neither a reply to an earlier attempt nor
\* a worker of one at its connection, though one may be at work on what a greeter before
\* it has left behind.
THEOREM AttemptsKeptApart == Spec => []RepliesFitTheAttempt
<1>1. Inv => RepliesFitTheAttempt
    <2> SUFFICES ASSUME Inv, screen = "idle", ~term
                 PROVE  /\ "worker" \notin conn
                        /\ \A i \in 1..Len(toGreeter) : toGreeter[i] \notin Replies
        BY DEF RepliesFitTheAttempt
    <2>1. pc \in Serving /\ screen \in Stages
        BY DEF Inv, PlacesFit, PlacesOK, GreeterFits, Between, Unattended, Leaving, Serving, Stages
    <2> QED
        BY <2>1 DEF Inv, RepliesFit, NoReply, Lacks
<1> QED
    BY <1>1, ProcessesFit, PTL

=============================================================================
