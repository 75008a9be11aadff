---------------------------- MODULE DisplayManager ----------------------------
(***************************************************************************)
(* The display manager, dm/main.c and dm/greeter.c: a root daemon, the      *)
(* greeter (a login screen on a compositor of its own, under a process that *)
(* holds its PAM session) and one worker process per login, which holds PAM *)
(* from the first prompt to the end of the user's session.                  *)
(*                                                                          *)
(*   greeter -> daemon   login, power                                       *)
(*   greeter -> worker   answer, cancel (on the same socket)                *)
(*   worker -> greeter   secret, visible, failed, ok                        *)
(*   worker -> daemon    'A', the password was right                        *)
(*   daemon -> worker    'G', the greeter is gone, go ahead                 *)
(*                                                                          *)
(* Every process runs by itself, and each may die: a step of this module is *)
(* what one of them does between two points where another can be seen to    *)
(* have moved.  Operators marked `mutant' are wrong on purpose: each is a   *)
(* plausible mistake in the definition after it.                            *)
(***************************************************************************)
EXTENDS Naturals, Sequences

CONSTANTS
    Settings,        \* the config files, and how the machine may behave
    MaxPrompts,      \* bound: questions PAM asks in one login
    MaxQuickDeaths   \* GREETER_MAX_QUICK_DEATHS

ASSUME DisplayManagerAssumption ==
    /\ Settings \subseteq [autoUser : BOOLEAN, autoOnce : BOOLEAN,
                           failures : BOOLEAN, slowToQuit : BOOLEAN]
    /\ MaxPrompts \in Nat /\ MaxQuickDeaths \in Nat \ {0}

VARIABLES
    setting,    \* the one that this is
    pc,         \* where the daemon is
    once,       \* --once
    term,       \* got_term
    autoDone,   \* the marker file autologin-done
    deaths,     \* quick_deaths
    greeter,    \* dm.greeter_pid: the process that holds the greeter's session
    screen,     \* its compositor with the greeter on it: stage, or how far it is
    quitting,   \* that compositor was sent SIGTERM
    orphan,     \* a compositor whose process was killed, still on the terminal
    pendingAnswer, \* answer_pending of the greeter
    conn,       \* who has the connection of the newest greeter, or its place in the queue
    toDaemon,   \* messages of that greeter not yet read
    toGreeter,  \* messages to it not yet read
    old,        \* who has the connection of the greeter before, which is gone
    oldSaid,    \* messages of that one not yet read
    worker,     \* dm.worker_pid: what the worker of a login is doing
    kind,       \* of that login
    prompts,    \* questions asked in it
    ctl,        \* dm.worker_ctl and what was written on it
    leaving,    \* the session of the user was sent SIGTERM
    opened      \* a session of a user has run since the daemon started

daemonVars == <<pc, once, term, autoDone, deaths>>
greeterVars == <<greeter, screen, quitting, orphan, pendingAnswer>>
socketVars == <<conn, toDaemon, toGreeter, old, oldSaid>>
workerVars == <<worker, kind, prompts, ctl, leaving, opened>>
vars == <<daemonVars, greeterVars, socketVars, workerVars>>

AutoUser == setting.autoUser       \* autologin_user is set
AutoOnce == setting.autoOnce       \* autologin_once
Failures == setting.failures       \* processes may die and system calls may fail
SlowToQuit == setting.slowToQuit   \* a compositor may need more than two seconds to quit

\* The stages of a greeter that has its connection; `lost' is one that found
\* it closed.
Stages == {"idle", "checking", "prompt", "done"}

\* The worker before it has let the daemon know that the password was right,
\* and the one that will still read from the greeter.
Authenticating == {"forked", "pam", "asking", "failing", "ready"}

\* A connection waits in the queue of dm.listen_fd, or is the daemon's greeter_fd, of
\* which a worker gets a copy when it is forked.
Ends == {{}, {"queue"}, {"daemon"}, {"daemon", "worker"}, {"worker"}}

\* The type of the state: where the daemon, the greeter and the worker are, and
\* the messages each may find on its end of a socket or pipe.
FlagsOK ==
    {once, term, autoDone, quitting, orphan, pendingAnswer, leaving, opened} \subseteq BOOLEAN

PlacesOK ==
    /\ setting \in Settings
    /\ pc \in {"auto", "autoCheck", "autoPoll", "autoWait", "start", "loop", "stop",
               "retry", "after", "endStop", "endWait", "ended", "gaveUp"}
    /\ deaths \in 0..MaxQuickDeaths
    /\ greeter \in {"none", "opening", "running", "zombie"}
    /\ screen \in Stages \cup {"none", "booting", "lost", "gone"}
    /\ conn \in Ends /\ old \in Ends
    /\ toDaemon \in Seq({"login", "answer", "cancel", "power"})
    /\ oldSaid \in Seq({"login", "answer", "cancel", "power"})
    /\ toGreeter \in Seq({"secret", "visible", "failed", "ok", "refused"})
    /\ worker \in Authenticating \cup {"none", "waiting", "opening", "starting",
                                       "session", "closing", "zombie"}
    /\ kind \in {"login", "auto"}
    /\ prompts \in 0..MaxPrompts
    /\ ctl \in {"none", "quiet", "A", "read", "G"}

TypeOK == FlagsOK /\ PlacesOK

Init ==
    /\ setting \in Settings
    /\ pc = "auto" /\ once \in BOOLEAN /\ term = FALSE /\ autoDone = FALSE /\ deaths = 0
    /\ greeter = "none" /\ screen = "none" /\ quitting = FALSE /\ orphan = FALSE
    /\ pendingAnswer = FALSE
    /\ conn = {} /\ toDaemon = <<>> /\ toGreeter = <<>> /\ old = {} /\ oldSaid = <<>>
    /\ worker = "none" /\ kind = "login" /\ prompts = 0 /\ ctl = "none"
    /\ leaving = FALSE /\ opened = FALSE

-----------------------------------------------------------------------------
(***************************************************************************)
(* The greeter: its process, its compositor and the login screen.           *)
(***************************************************************************)
\* greeter_worker, up to the start of the compositor
GreeterOpens ==
    /\ greeter = "opening"
    /\ \/ greeter' = "running" /\ screen' = "booting" /\ quitting' = FALSE
       \/ Failures /\ greeter' = "zombie" /\ UNCHANGED <<screen, quitting>>
    /\ UNCHANGED <<orphan, pendingAnswer, daemonVars, socketVars, workerVars>>

\* connect_daemon: the connection waits to be accepted, behind what a greeter that is
\* gone may have left there.  (Whatever came before that one is closed by then.)
GreeterConnects ==
    /\ screen = "booting"
    /\ screen' = "idle" /\ pendingAnswer' = FALSE
    /\ conn' = {"queue"} /\ toDaemon' = <<>> /\ toGreeter' = <<>>
    /\ old' = conn /\ oldSaid' = toDaemon
    /\ UNCHANGED <<greeter, quitting, orphan, daemonVars, workerVars>>

With(word) == IF conn = {} THEN toDaemon ELSE Append(toDaemon, word)

Send(word) == toDaemon' = With(word) /\ UNCHANGED <<conn, toGreeter, old, oldSaid>>

\* submit, with the password typed before the first prompt
SubmitAgain ==                                                      \* mutant
    /\ screen \in {"idle", "checking"}
    /\ screen' = "checking" /\ pendingAnswer' = TRUE /\ Send("login")
    /\ UNCHANGED <<greeter, quitting, orphan, daemonVars, workerVars>>

Submit ==
    /\ screen = "idle"
    /\ screen' = "checking" /\ pendingAnswer' = TRUE /\ Send("login")
    /\ UNCHANGED <<greeter, quitting, orphan, daemonVars, workerVars>>

\* submit in answer to a further question, or Escape
AnswerPrompt ==
    /\ screen = "prompt"
    /\ screen' = "checking" /\ (Send("answer") \/ Send("cancel"))
    /\ UNCHANGED <<greeter, quitting, orphan, pendingAnswer, daemonVars, workerVars>>

\* power_button.  Bound: one request, or the refusal of one, on its way.
PowerButton ==
    /\ screen \in Stages \ {"done"}
    /\ \A i \in 1..Len(toDaemon) : toDaemon[i] # "power"
    /\ \A i \in 1..Len(toGreeter) : toGreeter[i] # "refused"
    /\ Send("power")
    /\ UNCHANGED <<greeterVars, daemonVars, workerVars>>

\* handle_daemon
GreeterHears ==
    /\ screen \in Stages /\ toGreeter # <<>>
    /\ LET word == Head(toGreeter)
           first == word = "secret" /\ pendingAnswer
       IN  /\ screen' = CASE word \in {"secret", "visible"} /\ ~first -> "prompt"
                          [] word = "failed" -> "idle"
                          [] word = "ok" -> "done"
                          [] OTHER -> screen
           /\ pendingAnswer' =
                (pendingAnswer /\ word \notin {"secret", "visible", "failed"})
           /\ toDaemon' = IF first THEN With("answer") ELSE toDaemon
    /\ toGreeter' = Tail(toGreeter)
    /\ UNCHANGED <<conn, old, oldSaid, greeter, quitting, orphan, daemonVars, workerVars>>

\* handle_daemon at the end of the connection
GreeterHearsEnd ==
    /\ screen \in Stages /\ conn = {} /\ toGreeter = <<>>
    /\ screen' = IF screen = "done" THEN "gone" ELSE "lost"
    /\ UNCHANGED <<greeter, quitting, orphan, pendingAnswer, daemonVars, socketVars, workerVars>>

\* The compositor ends, because it was told to or (Failures) by itself: its
\* process closes the session of the greeter and exits.
CompositorEnds ==
    /\ screen # "none" /\ (quitting \/ Failures)
    /\ screen' = "none" /\ quitting' = FALSE /\ greeter' = "zombie"
    /\ toGreeter' = <<>>
    /\ UNCHANGED <<orphan, pendingAnswer, conn, toDaemon, old, oldSaid, daemonVars, workerVars>>

\* The login screen dies, and the compositor stays.
GreeterProgramDies ==
    /\ Failures /\ screen \in Stages \cup {"booting"}
    /\ screen' = "gone" /\ toGreeter' = <<>>
    /\ UNCHANGED <<greeter, quitting, orphan, pendingAnswer, conn, toDaemon, old, oldSaid,
                   daemonVars, workerVars>>

\* The killed greeter's compositor ends at last.
OrphanEnds ==
    /\ orphan /\ orphan' = FALSE
    /\ UNCHANGED <<greeter, screen, quitting, pendingAnswer, daemonVars,
                   socketVars, workerVars>>

GreeterNext ==
    \/ GreeterOpens \/ GreeterConnects \/ Submit \/ AnswerPrompt \/ PowerButton
    \/ GreeterHears \/ GreeterHearsEnd \/ CompositorEnds \/ GreeterProgramDies
    \/ OrphanEnds

-----------------------------------------------------------------------------
(***************************************************************************)
(* The worker of a login.                                                   *)
(***************************************************************************)
HangsUp == screen \notin Stages   \* the newest greeter's end of its socket is closed

Tell(word) ==
    /\ toGreeter' = IF HangsUp \/ "worker" \notin conn THEN toGreeter ELSE Append(toGreeter, word)

\* Who has the connections from now on.  What nobody has, nobody reads.
Remain(c, o) ==
    /\ conn' = c /\ toDaemon' = IF c = {} THEN <<>> ELSE toDaemon
    /\ old' = o /\ oldSaid' = IF o = {} THEN <<>> ELSE oldSaid

\* The worker's copy of the socket is closed.
LetGo == Remain(conn \ {"worker"}, old \ {"worker"})

\* login_worker no longer has the SIGTERM handler of the daemon.
WorkerBegins ==
    /\ worker = "forked"
    /\ worker' = "pam"
    /\ UNCHANGED <<kind, prompts, ctl, leaving, opened, greeterVars, socketVars,
                   daemonVars>>

\* PAM asks: talk_to_greeter sends the prompt.  An automatic login has no
\* conversation and its service asks nothing.
WorkerAsks ==
    /\ worker = "pam" /\ kind = "login" /\ prompts < MaxPrompts
    /\ worker' = "asking" /\ prompts' = prompts + 1
    /\ \E word \in {"secret", "visible"} : Tell(word)
    /\ UNCHANGED <<conn, old, toDaemon, oldSaid, kind, ctl, leaving, opened, greeterVars,
                   daemonVars>>

HeedsAnything(word) == IF word = "cancel" THEN "failing" ELSE "pam"  \* mutant

\* talk_to_greeter reads until an answer or `cancel' comes; nothing else counts.
Heeds(word) == CASE word = "answer" -> "pam" [] word = "cancel" -> "failing" [] OTHER -> "asking"

\* What comes to the worker, and may come yet.
WorkerHears ==
    /\ worker = "asking"
    /\ \/ /\ "worker" \in conn /\ toDaemon # <<>>
          /\ worker' = Heeds(Head(toDaemon)) /\ toDaemon' = Tail(toDaemon)
          /\ UNCHANGED oldSaid
       \/ /\ "worker" \in old /\ oldSaid # <<>>
          /\ worker' = Heeds(Head(oldSaid)) /\ oldSaid' = Tail(oldSaid)
          /\ UNCHANGED toDaemon
    /\ UNCHANGED <<conn, old, toGreeter, kind, prompts, ctl, leaving, opened,
                   greeterVars, daemonVars>>

WorkerHearsEnd ==
    /\ worker = "asking"
    /\ \/ "worker" \in conn /\ toDaemon = <<>> /\ HangsUp
       \/ "worker" \in old /\ oldSaid = <<>>
    /\ worker' = "failing"
    /\ UNCHANGED <<kind, prompts, ctl, leaving, opened, greeterVars, socketVars,
                   daemonVars>>

\* dm_backend_authenticate has returned.  A password is asked for before
\* PAM lets anyone in.
WorkerDecides ==
    /\ worker = "pam"
    /\ \/ worker' = "failing" /\ UNCHANGED socketVars
       \/ /\ kind = "login" => prompts > 0
          /\ worker' = "ready"
          /\ UNCHANGED <<conn, old, toDaemon, oldSaid>>
          /\ IF kind = "login" THEN Tell("ok") ELSE UNCHANGED toGreeter
    /\ UNCHANGED <<kind, prompts, ctl, leaving, opened, greeterVars, daemonVars>>

WorkerFails ==
    /\ worker = "failing"
    /\ worker' = "zombie"
    /\ IF kind = "login" THEN Tell("failed") /\ LetGo ELSE UNCHANGED socketVars
    /\ UNCHANGED <<kind, prompts, ctl, leaving, opened, greeterVars, daemonVars>>

WorkerWritesA ==
    /\ worker = "ready"
    /\ worker' = "waiting" /\ ctl' = "A"
    /\ UNCHANGED <<kind, prompts, leaving, opened, greeterVars, socketVars, daemonVars>>

\* 'G' came: the worker lets go of the greeter's socket.
WorkerEarly ==                                                      \* mutant
    /\ worker = "waiting" /\ ctl \in {"A", "read", "G"}
    /\ worker' = "opening"
    /\ LetGo
    /\ UNCHANGED <<toGreeter, kind, prompts, ctl, leaving, opened,
                   greeterVars, daemonVars>>

WorkerGoes ==
    /\ worker = "waiting" /\ ctl = "G"
    /\ worker' = "opening"
    /\ LetGo
    /\ UNCHANGED <<toGreeter, kind, prompts, ctl, leaving, opened,
                   greeterVars, daemonVars>>

\* dm_backend_open, then run_in_session: from its start the worker only passes
\* SIGTERM on, and until worker_child is set there is no one to pass it to.
WorkerOpens ==
    /\ worker = "opening"
    /\ \/ worker' = "starting"
       \/ Failures /\ worker' = "zombie"
    /\ UNCHANGED <<kind, prompts, ctl, leaving, opened, greeterVars, socketVars,
                   daemonVars>>

SessionStarts ==
    /\ worker = "starting"
    /\ worker' = "session" /\ leaving' = FALSE /\ opened' = TRUE
    /\ UNCHANGED <<kind, prompts, ctl, greeterVars, socketVars, daemonVars>>

SessionEnds ==
    /\ worker = "session"
    /\ worker' = "closing"
    /\ UNCHANGED <<kind, prompts, ctl, leaving, opened, greeterVars, socketVars,
                   daemonVars>>

WorkerExits ==
    /\ worker = "closing"
    /\ worker' = "zombie"
    /\ UNCHANGED <<kind, prompts, ctl, leaving, opened, greeterVars, socketVars,
                   daemonVars>>

\* A crash in a PAM module, before the session has begun.
WorkerDies ==
    /\ Failures /\ worker \in Authenticating \cup {"waiting", "opening"}
    /\ worker' = "zombie"
    /\ LetGo
    /\ UNCHANGED <<toGreeter, kind, prompts, ctl, leaving, opened,
                   greeterVars, daemonVars>>

WorkerNext ==
    \/ WorkerBegins \/ WorkerAsks \/ WorkerHears \/ WorkerHearsEnd \/ WorkerDecides \/ WorkerFails
    \/ WorkerWritesA \/ WorkerGoes \/ WorkerOpens \/ SessionStarts \/ SessionEnds
    \/ WorkerExits \/ WorkerDies

-----------------------------------------------------------------------------
(***************************************************************************)
(* The daemon.                                                              *)
(***************************************************************************)
\* start_greeter: the config of the compositor is written, and a process
\* forked; either may fail.
StartGreeter(started, failed) ==
    \/ /\ greeter' = "opening" /\ pc' = started
       /\ UNCHANGED <<screen, quitting, orphan, pendingAnswer>>
    \/ Failures /\ pc' = failed /\ UNCHANGED greeterVars

\* stop_process, up to the SIGTERM: a greeter's process passes it on once its
\* compositor runs, and has the handler of the daemon before.
SignalGreeter ==
    /\ quitting' = (quitting \/ screen # "none")
    /\ UNCHANGED <<greeter, screen, orphan, pendingAnswer>>

\* stop_greeter closes the socket first; a worker may still have it.
CloseSocket == Remain(conn \ {"daemon"}, old \ {"daemon"})

\* What SIGTERM does to the worker.
SignalWorker ==
    /\ IF worker \in (Authenticating \ {"forked"}) \cup {"waiting", "opening"}
       THEN worker' = "zombie" /\ LetGo
       ELSE UNCHANGED <<worker, conn, old, toDaemon, oldSaid>>
    /\ leaving' = (leaving \/ worker = "session")
    /\ UNCHANGED <<kind, prompts, ctl, opened, toGreeter>>

\* start_login, when it succeeds
StartLogin(k) ==
    /\ worker' = "forked" /\ kind' = k /\ prompts' = 0 /\ ctl' = "quiet"
    /\ leaving' = FALSE
    /\ UNCHANGED opened

\* autologin_if_set, up to its loop
AutoStarts ==
    /\ pc = "auto"
    /\ IF ~AutoUser \/ (AutoOnce /\ autoDone)
       THEN pc' = "start" /\ UNCHANGED <<autoDone, workerVars>>
       ELSE /\ autoDone' = TRUE
            /\ \/ pc' = "autoCheck" /\ StartLogin("auto")
               \/ Failures /\ pc' = "start" /\ UNCHANGED workerVars
    /\ UNCHANGED <<once, term, deaths, greeterVars, socketVars>>

\* its loop: the condition, the poll (which a signal between the two does not
\* wake), and what comes after
AutoChecks ==
    /\ pc = "autoCheck"
    /\ IF ~term /\ ctl # "none" THEN pc' = "autoPoll" /\ UNCHANGED <<workerVars, socketVars>>
       ELSE /\ pc' = "autoWait"
            /\ IF term THEN SignalWorker ELSE UNCHANGED <<workerVars, socketVars>>
    /\ UNCHANGED <<once, term, autoDone, deaths, greeterVars>>

\* The worker's end of the pipe is closed and nothing is left in it.
CtlEnded == worker = "zombie" /\ ctl \in {"quiet", "read", "G"}

AutoPolls ==
    /\ pc = "autoPoll" /\ (ctl = "A" \/ CtlEnded)
    /\ ctl' = IF ctl = "A" THEN "G" ELSE "none"
    /\ pc' = "autoCheck"
    /\ UNCHANGED <<once, term, autoDone, deaths, worker, kind, prompts, leaving, opened,
                   greeterVars, socketVars>>

\* wait_for_worker
AutoWaits ==
    /\ pc = "autoWait" /\ worker \in {"none", "zombie"}
    /\ worker' = "none" /\ ctl' = "none" /\ pc' = "start"
    /\ UNCHANGED <<once, term, autoDone, deaths, kind, prompts, leaving, opened,
                   greeterVars, socketVars>>

\* The loop of main, and the head of login_screen_until_session_ended.
LoginScreen ==
    /\ pc = "start"
    /\ IF term
       THEN pc' = "endStop" /\ SignalGreeter /\ CloseSocket /\ UNCHANGED deaths
       ELSE StartGreeter("loop", "after") /\ deaths' = 0 /\ UNCHANGED socketVars
    /\ UNCHANGED <<once, term, autoDone, toGreeter, workerVars>>

\* accept_greeter: the first in the queue, and the newest one counts.
AcceptGreeter ==
    /\ pc = "loop" /\ ~term
    /\ IF "queue" \in old
       THEN Remain(conn \ {"daemon"}, {"daemon"})
       ELSE "queue" \in conn /\ Remain({"daemon"}, old \ {"daemon"})
    /\ UNCHANGED <<toGreeter, daemonVars, greeterVars, workerVars>>

\* greeter_said, which is not called while a worker talks to the greeter: a
\* login starts a worker, or is refused, or (Failures) silently fails; a power
\* request may be refused; anything else is ignored.
GreeterSaid ==
    /\ pc = "loop" /\ ~term /\ "daemon" \in conn /\ worker = "none" /\ toDaemon # <<>>
    /\ LET word == Head(toDaemon)
           reply(r) == toGreeter' = IF HangsUp THEN toGreeter ELSE Append(toGreeter, r)
       IN  \/ /\ word = "login" /\ StartLogin("login")
              /\ conn' = {"daemon", "worker"} /\ UNCHANGED toGreeter
           \/ word = "login" /\ reply("failed") /\ UNCHANGED <<conn, workerVars>>
           \/ word = "power" /\ reply("refused") /\ UNCHANGED <<conn, workerVars>>
           \/ (word # "login" \/ Failures) /\ UNCHANGED <<conn, toGreeter, workerVars>>
    /\ toDaemon' = Tail(toDaemon)
    /\ UNCHANGED <<old, oldSaid, daemonVars, greeterVars>>

\* The same of what a greeter left that is gone, where no reply arrives.
OldGreeterSaid ==
    /\ pc = "loop" /\ ~term /\ "daemon" \in old /\ worker = "none" /\ oldSaid # <<>>
    /\ \/ Head(oldSaid) = "login" /\ StartLogin("login") /\ old' = {"daemon", "worker"}
       \/ UNCHANGED <<old, workerVars>>
    /\ oldSaid' = Tail(oldSaid)
    /\ UNCHANGED <<conn, toDaemon, toGreeter, daemonVars, greeterVars>>

GreeterHungUp ==
    /\ pc = "loop" /\ ~term /\ worker = "none"
    /\ \/ "daemon" \in conn /\ toDaemon = <<>> /\ HangsUp
       \/ "daemon" \in old /\ oldSaid = <<>>
    /\ CloseSocket
    /\ UNCHANGED <<toGreeter, daemonVars, greeterVars, workerVars>>

\* worker_said: the greeter has to go before the worker may go on.
WorkerSaid ==
    /\ pc = "loop" /\ ~term
    /\ \/ /\ ctl = "A" /\ ctl' = "read" /\ pc' = "stop"
          /\ CloseSocket /\ SignalGreeter
       \/ /\ CtlEnded /\ ctl' = "none"
          /\ UNCHANGED <<pc, socketVars, greeterVars>>
    /\ UNCHANGED <<once, term, autoDone, deaths, toGreeter, worker, kind, prompts, leaving,
                   opened>>

\* stop_process, when the greeter's process has ended in time; then 'G', or on
\* the way out SIGTERM for the worker.
StopDoneUnsignalled ==                                              \* mutant
    /\ pc \in {"stop", "endStop"} /\ greeter \in {"none", "zombie"}
    /\ greeter' = "none"
    /\ IF pc = "stop" THEN pc' = "loop" /\ ctl' = "G"
       ELSE pc' = "endWait" /\ UNCHANGED ctl
    /\ UNCHANGED <<once, term, autoDone, deaths, screen, quitting, orphan, pendingAnswer,
                   worker, kind, prompts, leaving, opened, socketVars>>

StopDone ==
    /\ pc \in {"stop", "endStop"} /\ greeter \in {"none", "zombie"}
    /\ greeter' = "none"
    /\ IF pc = "stop"
       THEN /\ pc' = "loop" /\ ctl' = "G"
            /\ UNCHANGED <<worker, kind, prompts, leaving, opened, socketVars>>
       ELSE pc' = "endWait" /\ SignalWorker
    /\ UNCHANGED <<once, term, autoDone, deaths, screen, quitting, orphan, pendingAnswer>>

\* stop_process after two seconds: SIGKILL, which is not passed on.
StopKills ==
    /\ pc \in {"stop", "endStop"} /\ greeter \in {"opening", "running"}
    /\ SlowToQuit \/ ~quitting
    /\ greeter' = "zombie" /\ screen' = "none" /\ quitting' = FALSE
    /\ orphan' = (orphan \/ screen # "none")
    /\ toGreeter' = <<>>
    /\ UNCHANGED <<pendingAnswer, conn, toDaemon, old, oldSaid, daemonVars, workerVars>>

ReapWorkerAndStay ==                                                \* mutant
    /\ pc = "loop" /\ ~term /\ worker = "zombie"
    /\ worker' = "none" /\ ctl' = "none"
    /\ UNCHANGED <<pc, once, term, autoDone, deaths, kind, prompts, leaving, opened,
                   greeterVars, socketVars>>

ReapWorker ==
    /\ pc = "loop" /\ ~term /\ worker = "zombie"
    /\ worker' = "none" /\ ctl' = "none"
    /\ pc' = IF greeter = "none" THEN "after" ELSE "loop"
    /\ UNCHANGED <<once, term, autoDone, deaths, kind, prompts, leaving, opened,
                   greeterVars, socketVars>>

\* The greeter died by itself: quickly or not.  Each turn of the loop accepts before it
\* reaps: what the one before left in the queue is not there any more.
ReapGreeter ==
    /\ pc = "loop" /\ ~term /\ greeter = "zombie" /\ "queue" \notin old
    /\ greeter' = "none" /\ CloseSocket
    /\ deaths' \in {0, deaths + 1}
    /\ pc' = IF deaths' >= MaxQuickDeaths THEN "gaveUp" ELSE "retry"
    /\ UNCHANGED <<once, term, autoDone, screen, quitting, orphan, pendingAnswer, toGreeter,
                   workerVars>>

\* After a second, the greeter is started again, unless a worker is still there.
RetryGreeter ==
    /\ pc = "retry"
    /\ IF worker = "none" THEN StartGreeter("loop", "after")
       ELSE pc' = "loop" /\ UNCHANGED greeterVars
    /\ UNCHANGED <<once, term, autoDone, deaths, socketVars, workerVars>>

LeaveLoop ==
    /\ pc = "loop" /\ term
    /\ pc' = "after"
    /\ UNCHANGED <<once, term, autoDone, deaths, greeterVars, socketVars, workerVars>>

\* The rest of the loop of main: with autologin_once off, the automatic login
\* comes again, whatever ended the login screen.
AfterLoginScreen ==
    /\ pc = "after"
    /\ IF once THEN pc' = "endStop" /\ SignalGreeter /\ CloseSocket
       ELSE pc' = (IF AutoOnce THEN "start" ELSE "auto") /\ UNCHANGED <<socketVars, greeterVars>>
    /\ UNCHANGED <<once, term, autoDone, deaths, toGreeter, workerVars>>

\* The end of main.
EndWaits ==
    /\ pc = "endWait" /\ worker \in {"none", "zombie"}
    /\ worker' = "none" /\ pc' = "ended"
    /\ UNCHANGED <<once, term, autoDone, deaths, kind, prompts, ctl, leaving, opened,
                   greeterVars, socketVars>>

DaemonNext ==
    \/ AutoStarts \/ AutoChecks \/ AutoPolls \/ AutoWaits \/ LoginScreen
    \/ AcceptGreeter \/ GreeterSaid \/ OldGreeterSaid \/ GreeterHungUp \/ WorkerSaid
    \/ StopDone \/ StopKills \/ ReapWorker \/ ReapGreeter \/ RetryGreeter \/ LeaveLoop
    \/ AfterLoginScreen \/ EndWaits

\* SIGTERM for the daemon (on_term).  It interrupts a poll it meets.
Term ==
    /\ ~term /\ pc \notin {"ended", "gaveUp"}
    /\ term' = TRUE
    /\ pc' \in (IF pc = "autoPoll" THEN {"autoPoll", "autoCheck"} ELSE {pc})
    /\ UNCHANGED <<once, autoDone, deaths, greeterVars, socketVars, workerVars>>

Next == (GreeterNext \/ WorkerNext \/ DaemonNext \/ Term) /\ UNCHANGED setting

\* Every process goes on: PAM returns, a compositor that is told to quit does,
\* a session that is told to end does.  Nobody has to log in, answer a prompt
\* or log out.
Fairness ==
    /\ WF_vars(AutoStarts) /\ WF_vars(AutoChecks) /\ WF_vars(AutoPolls)
    /\ WF_vars(AutoWaits) /\ WF_vars(LoginScreen) /\ WF_vars(AcceptGreeter)
    /\ WF_vars(GreeterSaid) /\ WF_vars(OldGreeterSaid) /\ WF_vars(GreeterHungUp)
    /\ WF_vars(WorkerSaid)
    /\ WF_vars(StopDone \/ StopKills) /\ WF_vars(ReapWorker) /\ WF_vars(ReapGreeter)
    /\ WF_vars(RetryGreeter) /\ WF_vars(LeaveLoop) /\ WF_vars(AfterLoginScreen)
    /\ WF_vars(EndWaits)
    /\ WF_vars(GreeterOpens) /\ WF_vars(GreeterConnects) /\ WF_vars(GreeterHears)
    /\ WF_vars(GreeterHearsEnd) /\ WF_vars(quitting /\ CompositorEnds)
    /\ WF_vars(WorkerBegins) /\ WF_vars(WorkerAsks \/ WorkerDecides)
    /\ WF_vars(WorkerHears) /\ WF_vars(WorkerHearsEnd) /\ WF_vars(WorkerFails)
    /\ WF_vars(WorkerWritesA) /\ WF_vars(WorkerGoes) /\ WF_vars(WorkerOpens)
    /\ WF_vars(SessionStarts) /\ WF_vars(leaving /\ SessionEnds) /\ WF_vars(WorkerExits)

Spec == Init /\ [][Next]_<<setting, vars>> /\ Fairness

-----------------------------------------------------------------------------
\* "The password was right: the greeter gives up the screen before anything
\* starts" (dm/main.c): while a user's session is opened, runs or is closed,
\* there is neither a greeter nor a compositor of one, if compositors quit within
\* the two seconds they are given.
InSession == worker \in {"opening", "starting", "session", "closing"}

ScreenHandedOver == InSession /\ ~SlowToQuit => greeter = "none" /\ screen = "none" /\ ~orphan

\* "Passwords only ever pass through the worker, which reads from the same
\* socket" (dm/main.c): an answer that is under way in the socket never meets
\* the daemon listening on it, in place of the worker that asked, unless
\* that has crashed.
PasswordsPassTheDaemonBy ==
    ~Failures /\ pc = "loop" /\ "daemon" \in conn /\ worker = "none" =>
      \A i \in 1..Len(toDaemon) : toDaemon[i] # "answer"

\* A login screen that waits for a user name gets no reply to an earlier
\* attempt, and a new attempt never meets the worker of an earlier one: one that still
\* works on what a greeter left that is gone has the connection of that greeter.
Replies == {"secret", "visible", "failed", "ok"}

RepliesFitTheAttempt ==
    screen = "idle" /\ ~term =>
      /\ "worker" \notin conn
      /\ \A i \in 1..Len(toGreeter) : toGreeter[i] \notin Replies

\* "worker exits: the session is over: the greeter comes back" (dm/main.c), or
\* with --once the daemon ends, if nothing crashes
\* and logins are not automatic.
GreeterComesBack ==
    worker = "closing" /\ ~Failures /\ ~AutoUser ~> term \/ (IF once THEN pc = "ended" ELSE screen = "idle")

\* The daemon ends on SIGTERM, as the tests rely on; only a session that runs
\* may hold it up, for as long as it does, under the same conditions.
OnlySessionDelaysTerm ==
    term /\ ~Failures /\ ~AutoUser ~> pc \in {"ended", "gaveUp"} \/ worker = "session"

=============================================================================
