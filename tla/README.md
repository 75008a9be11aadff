# Verification of tileWin

tileWin is a Wayland desktop: a compositor derived from sway (`sway/`), and around it a
panel, a settings app, a login manager, a lock screen, a DNS service, a polkit agent and other
helpers, each a process of its own. This directory holds TLA+ models of the parts whose
correctness depends on the order of events, the TLC runs that check them on small instances, and
proofs, checked by TLAPS, of what holds for every instance.

    tlc -workers 2 -config MCTransaction_tiled.cfg MCTransaction
    tlapm PowerProofs.tla

`PROJECT.json` lists the runs, the mutants (for each checked property a plausible mistake in the
code that makes the property fail), the source lines of each definition, the findings, the
hazards and the theorems. Paths below are relative to the source directory.

## 1. The system

| Component | State | Operations | Interacts with |
|---|---|---|---|
| Layout transactions (`sway/desktop/transaction.c`, `sway/tree/`) | pending and current state of every node, dirty nodes, the transaction in flight and the one being collected, reference counts | mark dirty, commit, apply, time out, ready by serial or geometry, destroy | all of window management; clients, which answer configures late or never |
| Desktops and windows on screens (`sway/wm/screens.c`, `wm/manage.c`, `tree/output.c`, `tree/workspace.c`) | the desktops of a screen, the order of screens a desktop prefers, the focus order; snapped or maximized, the box to go back to, the home of a window whose screen left | snap, maximize, drag, move to a desktop, look at one; a screen leaves, comes back; windows return | transactions, screens that come and go, an idle callback |
| Container tree and focus (`sway/tree/`, `sway/input/seat.c`) | containers, workspaces, outputs, focus order | attach, detach, reap, move, focus | transactions, IPC |
| Stopping of minimized apps (`sway/wm/pause.c`) | entry of an app, its tree, a state file | evaluate, stop, wake, save, recover | processes, sound server |
| Power, sleep, idle (`sway/wm/power.c`) | the delay inhibitor, the sleep timer; idle stages, screen saver, lid, key | prepare for sleep, give up, wake; input, stage, inhibit, lid, key, reload | logind, lock screen, idle-inhibit clients |
| Session lock (`sway/lock.c`) | the lock, its rectangle and surface on each screen, who has the keyboard | lock, refuse, abandon, replace, unlock; screens come, go, are switched | lock screens, outputs |
| Lock screen (`lock/main.c`) | its surfaces, the child that checks the password, what `-f` returned | ask for the lock and surfaces, check, unlock, end | the compositor over a wire, PAM |
| Display manager (`dm/main.c`, `dm/greeter.c`) | daemon, greeter, compositor, worker; one socket, one pair of pipes | login, prompt, answer, start, stop, reap, SIGTERM | PAM, logind, four processes that may all die |
| DNS service (`dns/main.c`) | pending questions by id, cache, connections, jobs of threads | ask, answer, fail, retry, expire | apps, DNS servers, a network that loses and repeats |
| Polkit agent (`polkit/main.c`) | queue of requests, dialog, session of the helper, password | initiate, prompt, submit, complete, cancel | polkit, its helper, the user |
| Sessions, hung windows (`sway/wm/session.c`, `hung.c`) | a file of windows; pings | save, restore; ping, pong | clients |
| Clipboard (`clipboard/main.c`), notifications (`panel/notify.c`), IPC (`sway/ipc-server.c`) | history and timers; notifications; write queues | | clients |
| Everything else: drawing, menus, config parsing, settings, screensavers, scripts | | | |

Four things make this code hard. Single-threaded event loops call each other by message, so
state read in one callback is used in a later one (transactions, polkit's idle callbacks, the
answer of the sound server, the windows that return to their screen). Processes are forked,
signalled and reaped while each may die or not have set up its handlers yet (display manager,
stopping of apps). The world has several clocks: logind, the compositor and the lock screen each
go on while messages to the others are under way. And what is outside, clients, servers, the
user, screens, is late, repeated, missing or gone.

What makes each component correct, in a sentence: the screen shows only complete layouts, and a
node is freed exactly when nothing refers to it; every screen has a desktop and a window goes back
to where it was; the screen is with the greeter or with the session and a password reaches only
the worker that asked; a question gets its own answer once; a request of polkit is answered once,
for its own reason; nobody is left stopped; a locked session is unlocked by a right password only;
the computer does not sleep unlocked; what saves power is undone by the next input.

## 2. The modules

| Module | Of | Code it stands for |
|---|---|---|
| `Transaction` | layout transactions and as much of the tree and its clients as they need | `sway/desktop/transaction.c`, parts of `xdg_shell.c`, `container.c`, `workspace.c`, `view.c`, `arrange.c` |
| `AtomicLayout` | what transactions promise; `Transaction` is shown to implement it | the comment in `include/sway/desktop/transaction.h` |
| `Windows` | floating windows, desktops, screens | `sway/wm/screens.c`, `wm/manage.c`, `tree/output.c`, `tree/workspace.c`, the move of a window |
| `SessionLock` | the lock of the compositor | `sway/lock.c`, `desktop/output.c` as far as the lock goes |
| `Locking` | lock screens, their wire, composed with `SessionLock` | `lock/main.c` |
| `Locked` | what a locked session is; `Locking` is shown to implement it | the comments of `sway/lock.c` and the protocol it serves |
| `SleepLock` | the inhibitor, the lock before a sleep, the power key, with logind | `sway/wm/power.c` |
| `Power` | idle stages, screen saver, lid, key, composed with `SleepLock` | `sway/wm/power.c` |
| `DisplayManager` | daemon, greeter, compositor, worker | `dm/main.c`, `dm/greeter.c` |
| `DnsQuery` | questions, cache, connections, threads | `dns/main.c` |
| `PolkitAgent` | requests, dialog, helper session | `polkit/main.c` |
| `PauseMinimized` | apps, windows, state file | `sway/wm/pause.c` |
| `...Proofs` | theorems about the module of that name | |
| `MC...` | the same with the constants TLC needs | |

Conventions. An action is what one callback, handler or process does between two points where
somebody else can be seen to have acted; a handler with a commit at its end has the commit in its
action. A definition has the name of the function it models where that is possible. Operators
marked `mutant` are deliberately wrong and used by no specification: they are what a property is
tried against. Bounds are constants whose comment begins with `bound`. Where a program can be set
up in ways that do not mix, the setup is a constant set of records (`Settings`, `Worlds`,
`Bounds`) of which `Init` picks one, so that one run looks at all of them. The `TypeOK` of
a module says what its variables are. History variables, which only properties
read, say so where they are declared.

### Transaction

The variables are the fields of the code: `pending` and `current` of a node are
`con->pending` and `con->current`, `life` says whether the object is there and whether it is
`destroying`, `refs` is `ntxnrefs`, `dirty` is `server.dirty_nodes`, `queued` and `next` are
`server.queued_transaction` and `server.pending_transaction`, `armed` the nodes with an
`instruction`, `saved` the views drawn from a saved buffer, `conf` the configures a client has not
acknowledged. A handler maps states (records of all variables) to states, so that
`Become(CommitDirty(Arrange(...), TRUE))` reads in the order the code runs: change the pending
state, arrange, commit the dirty nodes, launch if nothing is in flight, apply if nothing is waited
for. `told`, the size a client heard of last, is for the properties.

Clients acknowledge any configure they were sent (`ClientCommit`), skip some, draw a size of their
own when they float, or never answer. Views open, close, move, are resized and minimized in any
state of a transaction; workspaces come with their first and go with their last view, unless
something keeps them. Of sizes only one number is kept: `Share(k)` is the size of each of k tiled
views. Outputs, the root, nested containers, full screen and XWayland are not in it.

### Windows

`outputs` are the enabled screens in the order they came (`root->outputs`); `desks` the
workspaces, with the screen each is on, its `output_priority`, its `age`, and those that stay when
empty (`keep`). The age of a desktop is its place in the focus stack reduced to workspaces: how many
of the others were looked at since. `windows` has, of each
floating container, its workspace, whether it is free, in a half or maximized, its box, the box it
goes back to (`restore_box`) and its home (`tw_home_*`); `returning` is `returning_outputs`, with
the idle callback that empties it. A box is a screen and a place on it, as screens are of one
size: what the code computes with coordinates (`tw_carry_box`, fitting a box to a work area)
becomes "the same place on that screen" or "pushed to its edge". The handlers run to their end:
`Unplug` is `output_disable` with remembering, evacuating and joining the windows on view, and the
arranging that carries them; a drag is one step, and arranging is immediate.

Loops over desktops and windows are written as what they do to all of them at once (`Evacuate`,
`MoveTo`, `ReturnWindows`). That is what the code does one after the other: a desktop that is shown
is never destroyed, destroying one that is not changes nothing of what the screens show, and a
desktop the loop empties is considered when its last window has left. `Create` numbers new desktops
in the order of the screens.

`spot` is a history: where a window last lay free. So is `was`: which screens left under a window
since it was put somewhere and, while that is one, how the window was on it. They are what the
promise "returns as it was" is measured by. `Click` is a press on a title bar let go of without
moving, which forgets the home and does nothing else (`seatop_begin_move_floating`), and which `was`
therefore counts as having put the window where it is; `Drop` and `DropAtEdge` are a press and a
drag. A press on an edge, to resize, forgets the home too (`seatop_begin_resize_floating`) and is
not in the model, nor is resizing.

### SessionLock, Locking, Locked

`SessionLock` has an action per callback of `sway/lock.c`: `lock` is `server.session_lock.lock`,
`covered` the outputs with a `sway_session_lock_output`, `surface` what the lock screen has put on
each, `focused` the surface with the keyboard. A screen that is unplugged is `leaving` until the
transaction that holds it has ended. On its own it takes any request wlroots lets through.

`Locking` adds the lock screens and what is under way: `requests` and `events` are the two
directions of each connection, in order but late. So a lock screen asks for a surface on a screen
that has gone, or gone and come again with another global (`global` counts them), is refused
because another one has the lock, or dies, with its requests lost (`Ends`, `HandleHangup`).
`check` is the child that runs PAM, with its answer; `told` what the parent of `tilewin-lock -f`
has returned. `Locked` is the abstract lock: taken, kept through the death of its holder, ended by
a holder that has seen the right password. `Locking!L` is the refinement mapping.

### SleepLock, Power

`SleepLock` has the compositor and logind: `fd` and `holds` are the delay inhibitor on the two sides
(what tileWin thinks it holds, how many logind has given), `call` the D-Bus call of `inhibit()` that
has been answered but not stored, `bus` the `PrepareForSleep` signals that are not handled, `timer`
and `waited` the sleep timer, `sleeping` and `resting` what the power key is stopped by. Since
sd-bus reads signals while it waits for a reply, and `inhibit` handles them before it stores the
descriptor, a call is two steps. logind grants no inhibitor once a sleep is announced, falls asleep
when none is held, and has a patience longer than `SLEEP_LOCK_TIMEOUT_MS`. The bus is there and
logind refuses for no other reason: without either there is nothing to hold, and the computer sleeps
unlocked.

`Power` adds the rest of `power.c`: `idle` is the time since `last_input`, `done` the stages that
ran (a bit mask in the code), `armed` the timer, `saver` who started the screen saver, `idleOff`,
`lidOff`, `lidDisabled` the reasons for dark screens. `Wake` is `wake()`, `RunStages` the loop of
`handle_timer` over the stages that are due in their order. `lit` is whether the screens have power,
`ownOn` whether the laptop's own one is enabled: what commands have made of the output configs. New
settings come in two ways, a command that sets one (`ConfigChanged`) and a reload of the file
(`Reload`), which also puts the output configs back to those of the file, with all screens on. That
the modeset follows 10 ms later is not a step of its own, and a file that switches screens off, or a
user who does, is not in the model. `keyed`, `unarmed`, `given`, `reloaded`, `excused` and `raced`
are histories: they name the orders of events after which a property is not claimed (see "Where a
property needs its instance").

### DisplayManager

`pc` is where the daemon is in `main`; `greeter` the process that holds the session of the greeter,
`screen` its compositor with the stage of the greeter program, `orphan` a compositor that outlived
that process; `once` the option; `worker` the process of a login; `ctl` the pipe between daemon and
worker; `toDaemon` and `toGreeter` the two directions of the socket of the greeter, which the daemon
reads while there is no worker and the worker otherwise. `conn` says who has that connection: it
waits in the queue of the listening socket, or the daemon has it (`greeter_fd`), or a worker has a
copy from its fork, also when the daemon has closed its own. A greeter may die and leave its
connection in the queue, with a login in it; then it is `old`, with `oldSaid`, and the daemon
accepts it first, hears that login, and closes it when it accepts the newer one ("the newest one
counts", `AcceptGreeter`), while a worker may still be at work on it. There are never more than
these two: a greeter is reaped only after a turn of the loop that accepts, and a third is not
started while there is a worker (proved, `OldLoginFits`). Signals act at once, on a process that may
not have set its handlers. `setting` says whether logins are automatic, whether processes may die
and calls fail anywhere (`Failures`), and whether a compositor may outlive the two seconds of
`stop_process` (`SlowToQuit`). An automatic login that is begun after a SIGTERM takes the place of a
worker that is still there (`dm.worker_pid` is overwritten), which is followed no further.

### DnsQuery

`pend` is the array `d.pend`, `asked` the datagrams under way (to and from servers: a lost one is a
message nobody receives), `jobs` the threads, `cache` the entries, with their time of last use
(`used`) as the rank of it, their `age`, `conns` the places for TCP connections. A message is a
question's id, name and server, and its answer is read as any answer: good, SERVFAIL, or cut off.
`log`, for the properties, has what became of each question. Freshness of an entry is one bit; ids
are chosen freely among the free ones, as `random16` does. `world` has the servers, whether sends
fail, and whether the network is `late`: repeats an answer, or brings it when its question has ended
and its id is used again. Otherwise what is under way when a question ends is lost
(`StillUnderWay`).

### PolkitAgent

`queue`, `current`, `session`, `waiting`, `checking` are fields of `agent`; `typed` is what the
password consists of, as the dialogs (request and account) it was typed in; `idles` the idle
callbacks to come, in order. `StartNext` has the recursion between `start_next`, `begin_session`
and `finish_request`, by which requests nobody may sign in for are answered on the way to the next
that is shown.

### PauseMinimized

`watched` is the list `apps`, `stopped` the processes that are stopped, whoever did it, `file` the
processes in the state file, `unsaved` the moment in `stop_app` between the signals and the
file. `idle` and `timer` are the event sources. `due` is one bit for `since_ms`, the delay and
`next_check_ms`. `Tree(app)` is the app with the processes it started that have windows; `world`
says who started whom, whether the sound server is asked and where the compositor may die. `Hide` is
minimizing, after which an evaluation is asked for, and sending a tiled window to the scratchpad,
after which none is.

## 3. The runs

A run's instance is the smallest in which its question has an answer; the bounds stand in the
`.cfg` and the `MC` module.

| Run | Instance | What it shows |
|---|---|---|
| `tiled` | two tiled views, two workspaces, three configures per client | `TreesSound`: the tree that is drawn is one, of nodes that are there; `RefsExact`; `NothingLost` in merging; `ClientKnowsSize`; `AppliedWhenReady`: or timed out; `ImplementsAtomicLayout` |
| `mixed` | a tiled and a floating view, which may be resized, minimized, and choose a size of its own | `WaitingCounted`: who is waited for is counted, and views are frozen for as long; with fairness, `DyingIsFreed` |
| `windows` | two screens, three desktops, two of them of the user's making, one window, four times a screen comes or goes | `EveryDesktopHasAScreen`, `RestoreGoesBack`, `ReturnsAsItWas`, `StaysOnView` |
| `lock` | two screens; one lock screen and three changes of a screen, or two lock screens and one change | `Covered`, `KeyboardAtLockScreen`, `SurfacesAreExpected` (the asserts of `handle_new_surface` hold), `ReturnsOnceLocked`, `ImplementsLocked`; with fairness, `SomebodyCanSignIn` and `RightPasswordUnlocks` |
| `power` | two sleeps and two reloads that switch the lock before sleep on and off; or idle stages, lid and key with one reload; patience and idle time of two ticks | `SleepsLocked`, `HeldForTheNextSleep`, `KeyWorksOnlyWhenRested`, `PowerFollowsInput`; with fairness, `SleepIsLetGo` |
| `login` | logins with up to two prompts, at the greeter or automatic, with and without `--once`, deaths and failing calls anywhere, compositors slow to quit | `PasswordsPassTheDaemonBy`, `ScreenHandedOver`, `RepliesFitTheAttempt`; with fairness, `GreeterComesBack`, `OnlySessionDelaysTerm` |
| `questions` | two ids, two names, one place for connections; a cache of one, a UDP and an HTTPS server, answers repeated and late; or neither, and failing sends and threads, with one question and three servers or two questions and two | `AnsweredOnce`, `AnswerFits`, `CacheSound`, `FailsWhenNoneIsLeft` |
| `requests` | two requests and one without identity, two accounts | `AnsweredOnce`, `WaitTheirTurn`, `PasswordStaysInItsDialog`; with fairness, `CancelledIsAnswered` |
| `pause` | a launcher with two windows and its game, or two apps that are strangers; the sound server asked or not; deaths between callbacks or anywhere | `NobodyIsForgotten`, `ShownRuns`; with fairness, `CloseIsHandled` |

Two is enough for most sets: the code distinguishes "this one" from "another one", and each instance
was chosen so that every action of its module fires and the mutants of its properties are found.
Three configures let a client be two behind. Four changes of screens are two that leave and return,
or one that does so twice while the other is gone; one window suffices, as windows only meet in the
question whether a desktop is empty. At most two of the three desktops there are at a time are of
the user's making (`MaxMade`), which stay when they are empty. Three changes let a screen leave and
come again while a lock screen has not heard of either, and one more change meet it; with two lock
screens one may take the place of the other while a screen changes. A patience of two has a look
that gives up and one that does not; two sleeps have a second one announced while the first is being
handled. A cache of one makes room with the second name; the code's `cache_size` is at least 100, so
that making room always makes some, which is what `goal < cacheSize` keeps of it. Three servers are
one that is asked at once, one over HTTPS and one that is held back; two questions without late
answers may have the same id one after the other, which one question cannot show. Symmetry is used
only in runs that check no liveness (`questions`, `shown`, `windows`), over ids, names, places,
requests and desktops, which their modules treat alike.

Deadlock is not checked: the environments may fall silent (no windows left to open, all
questions asked, the daemon ended, no screen left to change), and then nothing happens.

### Findings: runs that are expected to fail

| Run | What the code does |
|---|---|
| `stale` | a size tileWin asked a floating window for while a transaction is in flight is overwritten by an older buffer of the client: `transaction_awaits_configure` only knows the transaction in flight |
| `shown` | polkit's cancellation of one request refuses the next: the idle callback cancels whatever is shown by then |
| `woken` | an app woken by a close, which keeps its window, is not stopped again until another window changes: `tw_pause_wake` sets no timer |

Each quotes the comment or document it contradicts in `PROJECT.json`.

### Where a property needs its instance

Some properties except rare orders of events by a condition or a history variable, or hold only in
the instance of their run. TLC finds a counterexample when the condition is taken out or the
constant changed.

| Property, in | does not cover | because |
|---|---|---|
| `ClientKnowsSize`, `tiled` | a floating view | one that enlarges itself while a transaction is in flight, and is put back to the current size before the next one, is not told: `should_configure` compares with `current`, not with what the client has |
| `ScreenHandedOver`, `login` | `slowToQuit` | the SIGKILL after two seconds hits the process that holds the greeter's session, and its compositor keeps the screen |
| `GreeterComesBack`, `login` | `failures` | a greeter that cannot be started, or dies while a login is checked, ends `login_screen_until_session_ended` without a session; a program that dies under its compositor is never started again, as the daemon waits for the compositor only |
| `PasswordsPassTheDaemonBy`, `login` | `failures` | the daemon reads what was answered to a worker that died |
| `OnlySessionDelaysTerm`, `login` | `failures`, and `autoUser` | a SIGTERM that meets a worker just forked is swallowed by the handler it inherited; then daemon and worker wait for each other |
| `FailsWhenNoneIsLeft`, `questions` | `late` | a repeated SERVFAIL counts for two servers, as no one remembers which have failed; and a SERVFAIL that comes for an earlier question of the same name under the same id counts for the later one, so that its server may fail twice |
| `FailsWhenNoneIsLeft`, `questions` | a question over TCP, or of the prefetching, with an answer that was cut off | the server it came from is asked over TCP, and its failure ends the question at once (`tcp_job_done`, `dns/main.c:1650`), though other servers have not failed; the property says that it happens in no other case |
| `CloseIsHandled`, `pause` | `keepSound` | a close that wakes an app leaves `asking`, and the answer of the sound server stops it before its new delay is over and before it has handled the close |
| `CloseIsHandled`, `pause` | apps that started others (`Own`) | a launcher whose delay is over is stopped with its game, though that is just handling a close; and waking a launcher runs the game it started, whose own entry stays paused |
| `NobodyIsForgotten`, `pause` | `crashAnywhere` | a compositor that dies between the signals and the file leaves processes stopped |
| `SleepsLocked`, `HeldForTheNextSleep`, `power` | `raced` | a `PrepareForSleep` handled within `inhibit()` finds no descriptor: the computer sleeps unlocked, or an inhibitor is left over or missing; likewise one signal behind another |
| `SleepsLocked`, `power` | `excused` | the lock screen was later than the time-out, the user unlocked or switched the lock off, or the sleep was announced while nothing was held |
| `PowerFollowsInput`, `power` | `keyed` | the key's `screen_off` sets `idle_screen_off` but no stage, so that the next input wakes nothing, against the comment in `power.c` that any input turns the screens on again |
| `PowerFollowsInput`, `power` | `given` | a reload that gives the lid to logind while it is closed: opening leaves `lid_screen_off` or the disabled screen as it is |
| `PowerFollowsInput`, `power` | `reloaded` | a reload rebuilds the output configs and asks for a modeset (`config.c:506`, `583`), so that a screen which the closed lid had switched off or disabled is on again behind it, while `lid_screen_off` and `lid_disabled_output` stay as they are; until the lid is opened only their other half is claimed |
| `PowerFollowsInput`, `power` | `unarmed` | `screensaver stop` takes the stage back without setting the timer |
| `ReturnsAsItWas`, `windows` | a window under which two screens left (`was`) | the second screen that leaves before a window could return overwrites its home, and the first is forgotten |
| `ReturnsAsItWas`, `windows` | a window clicked on its title bar (`Click`) | the press alone forgets the home (`decoration.c:570`, `seatop_move_floating.c:204`), also the first of the two clicks that maximize: the window stays where it is when its screen comes back, though nobody put it there, against `screens.c:8-11` and `docs/features.md:39` ("unless you moved them in the meantime") |
| `RestoreGoesBack`, `windows` | a drag to an edge of another screen | the box to go back to is the one on the screen where the drag began |

And, of `power`: a saver that the `screen_off` stage ends is not followed by a lock when the user
comes back, though `screensaver_lock` is set (`docs/configuration.md`). Of `windows`: a window
dragged from a screen that is unplugged before the drop is sent back to it although a hand put it
elsewhere, and so is one that the keyboard moved (`move position` does not forget the home).

### Fairness

Only what the code's scheduling gives. `Transaction`: the event loop fires the timer of a
transaction in flight; clients promise nothing. `Locking`: compositor and lock screens read what
they are sent as long as they run (weak fairness of `Handle` and `Dispatch` of each); the user, PAM
and the screens promise nothing. `Power`: the event loop comes to signals, to the end of a call
and to the sleep timer, and logind goes to sleep once nobody holds it. `DisplayManager`: every
process that can go on does, and a compositor or session ends after its SIGTERM; the user, the
length of a session and PAM's prompts promise nothing. `PolkitAgent`: the main loop runs its idle
callbacks. `PauseMinimized`: the event loop comes to callbacks and timers however often they are
reset (strong fairness), pactl answers or is given up after three seconds, time passes, and a
running app handles a close. `DnsQuery` and `Windows` have safety properties only and state none.

## 4. What is proved

For every value of the constants that their assumptions allow.

`TransactionProofs` (any finite sets of views and workspaces, any sizes and `Share`): all the safety
properties of the runs `tiled` and `mixed`, in two stages, and the refinement. Handlers are
compositions of operators on states, so each operator has a lemma for what it does to an invariant,
and an action's step cites those of its operators.

* `TypeCorrect` and `RefCountsExact` (`RefsExact`), on `Inv == CountInv /\ LiveOnWorkspace`: the
  counts, the types, that dirty and instructed nodes exist, and that a live view is on a workspace
  that is there (otherwise `Unmap` would mark a node dirty that is gone).
* `TreesAreSound` (`TreesSound`), `NothingIsLost` (`NothingLost`), `ClientsKnowTheirSize`
  (`ClientKnowsSize`) and `WaitingIsCounted` (`WaitingCounted`), on `Settled == Inv /\ Rested(Here)`.
  The idea is that a state holds three layouts: `current`, which is shown; `Flight`, which will be
  when the transaction in flight is applied; and `Goal`, which will be when the one being collected
  is applied too. Each is a tree and arranged (`Tidy`), and `pending`, what window management wants,
  is `Goal` (`Agreed`). The rest is what keeps that so: who is gone is on none of them and in no
  transaction (`Gone`), who is dying is not on `pending` (`Dying`), waiting, saved and armed views
  are those of the transaction in flight (`Fit`), and a tiled view was told its size in `Flight`
  (`Told`). The last one needs that a transaction which configures nobody, one that no handler of
  the server asked for, changes no size of a tiled view. Within a handler, between the change of the
  tree and the commit, `Agreed` does not hold; `Working(S, W)` does, in which the dirty nodes may
  differ and the workspaces `W` are to be arranged yet. So detaching, attaching, arranging, dying
  and committing each lead from one `Working` state to the next, and the commit back to `Rested`.
* `AppliesWhenReady` (`AppliedWhenReady`): only the timer and the view that was waited for last
  change what is shown.
* `TransactionsAreAtomic`: `Spec => ImplementsAtomicLayout`. `Moves(S, T)` is the step of
  `AtomicLayout` in terms of the three layouts: nothing; the pending layout is taken in flight; the
  one in flight is shown and the pending one follows; or all are shown. Each operator that can
  finish or launch a transaction is shown to make one, which takes that what a dying view leaves is
  not on a screen.

`PolkitAgentProofs` (any requests, those nobody may sign in for among them, any number of
accounts): `TypeCorrect`, `OneAnswer` (`AnsweredOnce`), `TurnsKept` (`WaitTheirTurn`),
`SessionOfTheDialog` and `PasswordStays` (`PasswordStaysInItsDialog`), which are all the invariants
of the run `requests`. The invariant is `Inv == TypeOK /\ DialogInv /\ QueueInv`. Two conjuncts are
there only because the others are not inductive without them: `TypedHere` (what is typed was typed
in the dialog that is shown; without it `Submit` could send an earlier dialog's password) and
`FreesTheRemoved` (the idle callbacks to come that free a request find it answered; without it
`RunFree` could free one that waits). Every handler that ends a dialog ends in `start_next`, so the
lemma `StartNextServes` is the core: from a queue of exactly the requests that wait, it shows one
that can be answered, answers those before it once, and leaves the rest waiting.

`LockingProofs` (any finite set of screens, any lock screens, any number
of changes):

* `AlwaysCovered` (`Covered`) and `KeyboardStaysAtLockScreen` (`KeyboardAtLockScreen`) of
  `SessionLock`, hence of any program that sends it requests. On `LockInvariant`, which adds that an
  unplugged screen has no surface: without it `FreeScreen` could take the rectangle under the
  surface that has the keyboard.
* `StaysLocked`: `Spec => ImplementsLocked`: compositor, wire and lock screens implement `Locked`.
* `ReturnsTheTruth`: `Spec => ReturnsOnceLocked`. Both on `WireInvariant`, which says for each lock
  screen what may be under way given its phase: one lock request at most and no answer before it,
  one `locked` at most and only for the holder, an unlock request only from one that has seen the
  right password, a hang-up only of one that has ended. Queues are abstracted to the kinds
  of messages in them (`Kinds`) and to kinds there is at most one of (`Once`); three lemmas say how
  reading and sending change those.
* `SurfacesAreAsExpected` (`SurfacesAreExpected`): the asserts of `handle_new_surface` hold. Here
  the kinds of messages do not suffice and their order counts, so the invariant `Turns` is about
  positions in the queues. Of the requests of a lock screen: between two for a surface on one
  screen there is the destruction of the first (`AsksApart`); while a surface is shown, a request
  for another has a destruction before it (`DestroysFirst`); and when the lock screen knows of no
  such screen, every request has one behind it (`DestroysLast`). Of the events it has not read: the
  same with globals and their removal (`HearsInTurn`). The second half is what makes the first
  inductive: the lock screen asks when it hears of a global, and would ask twice if it could hear
  of two without the removal between them.

`PowerProofs` (any patience, stages, settings, number of sleeps and reloads): every safety property
of the run `power`. `AlwaysHeld`, `KeyRestsEnough` and `NeverAsleepUnlocked` rest on
`SleepInvariant`: unless `raced`, the bus holds what logind's state says is not yet handled
(`BusFits`), the inhibitor is held, asked for, or will be taken at a wake-up that is to come
(`InhibitorFits`), the key rests over exactly that stretch (`KeyFits`), and a sleep that nothing
excuses is held up by an inhibitor and, once its signal is handled, watched by the timer
(`HeldUp`). `AlwaysFollows` (`PowerFollowsInput`) is inductive with the types (`IdleInv`): each
of its four parts was written so that every handler keeps it, a reload behind a closed lid being the
exception in the part on dark screens (`OffForAReason`).

`PauseMinimizedProofs` (any apps, windows and kinship of apps, any way the compositor may die):
`ShownNeverStopped` (`ShownRuns`) and `AllRemembered` (`NobodyIsForgotten`), both invariants of the
run `pause`. On `PauseInvariant`: an entry holds nothing or its whole tree, and a question to the
sound server is only open of an entry that holds nothing (`Whole`), who is stopped and has a window
has it hidden and is held (`WindowsFit`), the file is what is held, but for the moment before it is
written (`HeldFits`), and nothing is left of a compositor that is gone (`DownFits`).

`DnsQueryProofs` (any ids, names, servers and connections, any retries, any number of changes):
`OneAnswer` (`AnsweredOnce`) and `AnswersFit` (`AnswerFits`). On `QuestionInv`: serials of
connections are unique and never come back (`ConnsFit`), an id stands for one question at a time
(`OneId`), a job carries the generation of the thread it runs on (`JobsFit`), what is pending is
open and is sent on as it was asked (`PendFits`), and the record of a question is that of the stage
it has reached (`LogFits`): without the last two, a late answer or a late failure of a thread could
meet a slot that another question has taken since. Handlers are built from four ways of going on,
with a lemma for each (`NewPendingFits`, `FinishFits`, `GoesOn`, `Drops`). The cache is no part of
it.

`CacheIsSound` (`CacheSound`), for any `cacheSize` and `goal`: on `CacheInv`, whose point is that no
two entries have the same age (`Distinct`). So fewer than `goal` entries have an age below `goal`,
which is why making room makes some and one more entry fits; and ages counted anew after a removal
(`Ranked`) differ again, as who is older has more younger ones. That an answer is stored under the
name it is the answer to takes `JobsFit` of a thread and `Accepts` of a datagram. With it,
`TypeCorrect`.

`FailsOnlyWhenNoneIsLeft` (`FailsWhenNoneIsLeft`) needs `FailInv` besides. `nfailed` is a number and
the code compares it with `nsent`; that it counts different servers is so because a server that has
failed has nothing under way any more for this id, neither a datagram nor a job of this generation
(`Counts`), and a server is asked in one way only (`Sources`). For the exception, a thread that asks
over TCP belongs to a question that did not come over UDP, and asks a server that has not failed.
When the property was first checked, it was with one question only; the proof did not go through for
two, as nothing said that what is under way for an id is of the question that has it now. TLC then
found the execution: it needs a datagram that outlives its question, and is what `late` stands for
now (see the table above).

`DisplayManagerProofs` (any settings, any number of prompts and of quick deaths, crashes and SIGTERM
at any moment): `TypeCorrect`, `SessionHasTheScreen` (`ScreenHandedOver`), `DaemonSeesNoPassword`
(`PasswordsPassTheDaemonBy`) and `AttemptsKeptApart` (`RepliesFitTheAttempt`), all the invariants of
the run `login`. On `ProcessesFit`, whose parts are: when there is a greeter and a worker at all
(`GreeterFits`); a greeter told to make room has its handler of SIGTERM by then, so none is killed
before its compositor (`StopFits`); who holds the sockets (`SocketFits`); and three that make the
properties inductive. `OldLoginFits`: the connection of a greeter that died before it was accepted
may be accepted when the next one starts, or is up and has connected too, and then a login in it
starts a worker whose greeter is gone; that worker has the older connection, gets no answer and so
never to 'A', else the greeter that starts would be told to quit before it can be. The same part has
it that nothing is left of an older connection when a greeter starts, so that there are two at most.
`RepliesFit`: at most one login under way, nothing after a verdict. `PromptsFit`: a prompt is open
in one place only, in the one queue, on the screen or as its answer in the other, and only while the
worker waits for it.

`WindowsProofs` (any finite non-empty set of screens in any row, any windows and places, any finite
set of desktops, any number of changes): `TypeCorrect`, `DesktopsHaveScreens`
(`EveryDesktopHasAScreen`), `SlotsRememberThePlace` (`RestoreGoesBack`), and the action properties
`WindowsReturnAsTheyWere` (`ReturnsAsItWas`) and `WindowsStayOnView` (`StaysOnView`), all the
properties of the run `windows`. On `Inv`, whose parts are:

* `Once`: no screen is on twice, so that one that goes is gone.
* `Ranked`: no two desktops have the same age. Without it "the one looked at last" is not one
  (`ShownUnique`), and a screen could show another desktop than the one the window was put on. It
  takes counting: desktops that are created get ages nobody has, and ages counted anew after others
  were destroyed differ again, as who is older has more younger ones (`DestroyKeeps`).
* `Sound`: `EveryDesktopHasAScreen` of any desktops, windows and screens, as it has to hold at
  every stage of a handler. `ConsiderKeeps` is its core: destroying desktops that are empty and not
  shown takes from no screen what it shows, nor from a window where it is.
* `InPlace`, for each window: it is where `spot` says (`Placed`, `Noted`), which is
  `RestoreGoesBack` with what it needs also while all screens are off; and its home is
  what `was` says of the one screen that left under it (`Homely`). Without `Homely`, what `ReturnWindows` puts
  back could be anything.

Each operator that moves a window or a desktop has a lemma for what it keeps (`MoveToKeeps`,
`EvacuateKeeps`, `JoinKeeps`, `SnapKeeps`), also where a window is carried twice within one
handler, to the desktop's new screen and to the desktop on view. That `Windows` has sets and
functions where the code has loops is what makes these lemmas provable: over folds they would be
inductions.

Each theorem about an invariant has the same shape: the initial states satisfy it, each action
keeps it (a lemma per action where that takes an argument), and it implies the property.
The assumptions are those named in the modules, which TLC evaluates for the instances.

What stays with TLC: the liveness properties only, as TLAPS reasons about neither ENABLED nor
liveness here. They are `DyingIsFreed`, `SomebodyCanSignIn`, `RightPasswordUnlocks`, `SleepIsLetGo`,
`GreeterComesBack`, `OnlySessionDelaysTerm`, `CancelledIsAnswered` and `CloseIsHandled`. Every
invariant and every action property of the passing runs, and both refinements, are theorems.

## 5. What is not modelled, and why

Drawing, parsing, GTK pages, scripts and code taken over from sway that only wraps wlroots: no
state whose order matters. Failing of `malloc`. Time is abstracted to what may come before what.
Within the modelled parts: XWayland views and nested containers (`Transaction`); tile mode,
fullscreen, minimized, sticky and closing windows, quarters and splits, and the steps of a drag
(`Windows`); the sizes of rectangles and what a lock screen draws (`SessionLock`, `Locking`); the
inhibitors that take lid and key from logind, the actions that start another program or end the
computer, the battery saver, and which windows inhibit idling (`Power`); what is remembered of a
login (`DisplayManager`); speed tests, block lists and prefetch ranking (`DnsQuery`); key repeat
(`PolkitAgent`); processes that fork while they are stopped (`PauseMinimized`). Hazards of parts
that are not modelled stand in `PROJECT.json` with a note.

Most of the repository's lines are the panel, the settings app, the screen savers, parsers,
and sway's own code: the models cover a small share of the lines, and the parts in which several
actors meet.

## 6. Plan

Done of the plan so far: transactions, display manager, DNS questions, polkit agent, stopping of
apps, sleep and power, the session lock with its lock screens, windows on screens. In this order
comes next:

1. `Transaction`, extended: XWayland views (ready by geometry), nested containers and their
   reaping.
2. `DnsLists`: speed tests, downloads and a reload in between; the domain set as a function against
   a set of suffixes.
3. `FocusStack` (`seat.c`), `SessionRestore` (`wm/session.c`), `Notifications`, `Clipboard`,
   `IpcClient`, hung windows.

Theorems to come are those of these modules. Of the modules there are, only liveness has none.
