----------------------------- MODULE SleepLock ------------------------------
(***************************************************************************)
(* Locking before the computer sleeps, sway/wm/power.c: a delay inhibitor  *)
(* holds logind back while the lock screen comes up; it is let go of when  *)
(* that is there or too late, and taken again after the sleep.             *)
(*                                                                         *)
(* The compositor has one thread.  While it takes the inhibitor it reads   *)
(* what else the bus brings before it stores the descriptor (`call'), so   *)
(* that step is in two; a sleep that is announced there finds none.        *)
(* logind, its signals and the lock screen are modelled by what the code   *)
(* relies on: no inhibitor is granted once a sleep is announced, and       *)
(* logind's own patience is longer than tileWin's.                         *)
(* Operators marked `mutant' are wrong on purpose: each is a plausible     *)
(* mistake in the definition after it.                                     *)
(***************************************************************************)
EXTENDS Naturals, Sequences

CONSTANT Patience   \* SLEEP_LOCK_TIMEOUT_MS, in ticks of the sleep timer

ASSUME SleepLockAssumption == Patience \in Nat \ {0}

VARIABLES
    config,   \* the settings
    sleeps,   \* how often a sleep is still to be announced
    locked,   \* server.session_lock.lock
    coming,   \* the lock command runs and has not locked yet
    logind,   \* awake, announced or asleep
    bus,      \* its PrepareForSleep signals that are not handled yet
    holds,    \* how many delay inhibitors it has given that are not closed
    fd,       \* sleep_inhibit_fd >= 0
    call,     \* none, or what the inhibit() under way will return
    timer,    \* sleep_timer: off, waiting for the lock screen, or settling
    waited,   \* sleep_waited_ms, in ticks
    sleeping, \* the compositor knows that the computer goes to sleep
    resting,  \* POWER_KEY_REST_MS are not over
    asked,    \* the power key has asked for a sleep that is not announced yet
    excused,  \* history: why this sleep may find the session unlocked
    raced     \* history: a signal was handled where it is not expected

sleepVars == <<sleeps, locked, coming, logind, bus, holds, fd, call, timer, waited,
               sleeping, resting, asked, excused, raced>>
lockScreen == <<locked, coming>>
keyVars == <<sleeping, resting, asked>>

SleepTypeOK ==
    /\ {locked, coming, fd, sleeping, resting, asked, excused, raced} \subseteq BOOLEAN
    /\ logind \in {"awake", "announced", "asleep"}
    /\ bus \in Seq({"sleep", "wake"})
    /\ {sleeps, holds} \subseteq Nat
    /\ call \in {"none", "granted", "refused"}
    /\ timer \in {"off", "waiting", "settling"}
    /\ waited \in 0..Patience

One(b) == IF b THEN 1 ELSE 0

\* main() has read the config and takes the inhibitor if it is to.
SleepInit ==
    /\ locked = FALSE /\ coming = FALSE
    /\ logind = "awake" /\ bus = << >>
    /\ fd = FALSE /\ timer = "off" /\ waited = 0
    /\ call = (IF config.lockOnSleep THEN "granted" ELSE "none")
    /\ holds = One(config.lockOnSleep)
    /\ sleeping = FALSE /\ resting = FALSE /\ asked = FALSE
    /\ excused = FALSE /\ raced = FALSE

Awake == logind # "asleep"
Free == Awake /\ call = "none"   \* the event loop is where callbacks start

-----------------------------------------------------------------------------
\* release_sleep_inhibitor and update_sleep_inhibitor, as the callbacks below
\* use them: what is held, stored and waited for afterwards.
Release == holds' = holds - One(fd) /\ fd' = FALSE /\ timer' = "off" /\ UNCHANGED call

\* The descriptor is stored at once: within a signal handler the bus gives no
\* other signal.
ReleaseAndRetake ==
    LET granted == config.lockOnSleep /\ logind = "awake"
    IN  /\ holds' = holds - One(fd) + One(granted)
        /\ fd' = granted /\ timer' = "off" /\ UNCHANGED call

Update(want) ==
    IF ~want THEN Release
    ELSE IF timer # "off" \/ fd THEN UNCHANGED <<holds, fd, timer, call>>
    ELSE /\ call' = (IF logind = "awake" THEN "granted" ELSE "refused")
         /\ holds' = holds + One(logind = "awake")
         /\ UNCHANGED <<fd, timer>>

\* inhibit() returns, when the bus has nothing more to say.
CallReturns ==
    /\ Awake /\ call # "none" /\ bus = << >>
    /\ fd' = (call = "granted") /\ call' = "none"
    /\ UNCHANGED <<config, sleeps, lockScreen, logind, bus, holds, timer, waited, keyVars,
                   excused, raced>>

\* The settings are read again (tw_power_config_changed, its part for sleep).
SleepConfigChanged(want) ==
    /\ Update(want)
    /\ excused' = (excused \/ (logind = "announced" /\ ~want))
    /\ UNCHANGED <<sleeps, lockScreen, logind, bus, waited, keyVars, raced>>

\* mutant: after a sleep that was called off the inhibitor is kept as it is.
HandleWakeKeeps ==
    /\ bus # << >> /\ Head(bus) = "wake" /\ bus' = Tail(bus)
    /\ sleeping' = FALSE /\ resting' = TRUE
    /\ UNCHANGED <<holds, fd, timer, call>>
    /\ raced' = (raced \/ call # "none" \/ Tail(bus) # << >>)
    /\ UNCHANGED <<config, sleeps, lockScreen, logind, waited, asked, excused>>

\* PrepareForSleep(false).
HandleWake ==
    /\ bus # << >> /\ Head(bus) = "wake" /\ bus' = Tail(bus)
    /\ sleeping' = FALSE /\ resting' = TRUE
    /\ ReleaseAndRetake
    /\ raced' = (raced \/ call # "none" \/ Tail(bus) # << >>)
    /\ UNCHANGED <<config, sleeps, lockScreen, logind, waited, asked, excused>>

\* PrepareForSleep(true).
HandleSleep ==
    /\ bus # << >> /\ Head(bus) = "sleep" /\ bus' = Tail(bus)
    /\ sleeping' = TRUE
    /\ \/ /\ ~fd \/ timer # "off"
          /\ UNCHANGED <<holds, fd, timer, call, waited, coming>>
       \/ /\ fd /\ timer = "off" /\ locked
          /\ Release
          /\ UNCHANGED <<waited, coming>>
       \/ /\ fd /\ timer = "off" /\ ~locked
          /\ coming' = TRUE /\ timer' = "waiting" /\ waited' = 0
          /\ UNCHANGED <<holds, fd, call>>
    /\ raced' = (raced \/ call # "none")
    /\ UNCHANGED <<config, sleeps, locked, logind, resting, asked, excused>>

\* handle_bus, from the event loop or within inhibit().
HandleBus == Awake /\ (HandleWake \/ HandleSleep)

\* mutant: it does not give up.
HandleSleepTimerForever ==
    /\ Free /\ timer # "off"
    /\ \/ timer = "settling" /\ Release /\ UNCHANGED <<waited, excused>>
       \/ /\ timer = "waiting" /\ locked
          /\ timer' = "settling"
          /\ UNCHANGED <<holds, fd, call, waited, excused>>
    /\ UNCHANGED <<config, sleeps, lockScreen, logind, bus, keyVars, raced>>

\* mutant: it gives up at its first look.
HandleSleepTimerAtOnce ==
    /\ Free /\ timer # "off"
    /\ Release
    /\ UNCHANGED <<config, sleeps, lockScreen, logind, bus, keyVars, raced, waited, excused>>

\* handle_sleep_timer.
HandleSleepTimer ==
    /\ Free /\ timer # "off"
    /\ \/ timer = "settling" /\ Release /\ UNCHANGED <<waited, excused>>
       \/ /\ timer = "waiting" /\ locked
          /\ timer' = "settling"
          /\ UNCHANGED <<holds, fd, call, waited, excused>>
       \/ /\ timer = "waiting" /\ ~locked
          /\ waited' = waited + 1
          /\ IF waited' = Patience THEN Release /\ excused' = TRUE
             ELSE UNCHANGED <<holds, fd, timer, call, excused>>
    /\ UNCHANGED <<config, sleeps, lockScreen, logind, bus, keyVars, raced>>

\* mutant: only the time since the last wake-up counts.
KeyRestsTime == resting

\* power_key_resting.
KeyRests == sleeping \/ resting

\* The power key asks for a sleep; its rest is over only after the sleep has
\* been announced.
AskToSleep ==
    /\ Free /\ ~KeyRests /\ sleeps > 0
    /\ resting' = TRUE /\ asked' = TRUE
    /\ UNCHANGED <<config, sleeps, lockScreen, logind, bus, holds, fd, call, timer, waited,
                   sleeping, excused, raced>>

RestEnds ==
    /\ Awake /\ resting /\ ~asked
    /\ resting' = FALSE
    /\ UNCHANGED <<config, sleeps, lockScreen, logind, bus, holds, fd, call, timer, waited,
                   sleeping, asked, excused, raced>>

-----------------------------------------------------------------------------
\* The lock screen comes up, or does not, and the user unlocks.
LockScreenStep ==
    /\ Free
    /\ \/ coming /\ coming' = FALSE /\ locked' \in {locked, TRUE} /\ UNCHANGED excused
       \/ locked /\ locked' = FALSE /\ UNCHANGED coming /\ excused' = TRUE
    /\ UNCHANGED <<config, sleeps, logind, bus, holds, fd, call, timer, waited, keyVars, raced>>

\* logind announces a sleep, whoever asked.
Announce ==
    /\ logind = "awake" /\ sleeps > 0
    /\ sleeps' = sleeps - 1
    /\ logind' = "announced" /\ bus' = Append(bus, "sleep")
    /\ excused' = (holds = 0) /\ asked' = FALSE
    /\ raced' = (raced \/ bus # << >>)
    /\ UNCHANGED <<config, lockScreen, holds, fd, call, timer, waited, sleeping, resting>>

FallAsleep ==
    /\ logind = "announced" /\ holds = 0
    /\ logind' = "asleep"
    /\ UNCHANGED <<config, sleeps, lockScreen, bus, holds, fd, call, timer, waited, keyVars,
                   excused, raced>>

\* Its patience is at an end: later than tileWin's, so that neither the signal
\* nor the timer is still to be handled.
LosePatience ==
    /\ logind = "announced" /\ holds > 0
    /\ Free /\ bus = << >> /\ timer = "off"
    /\ logind' = "asleep"
    /\ UNCHANGED <<config, sleeps, lockScreen, bus, holds, fd, call, timer, waited, keyVars,
                   excused, raced>>

\* The sleep is over, or called off.
WakeUp ==
    /\ logind # "awake"
    /\ logind' = "awake" /\ bus' = Append(bus, "wake")
    /\ UNCHANGED <<config, sleeps, lockScreen, holds, fd, call, timer, waited, keyVars,
                   excused, raced>>

-----------------------------------------------------------------------------
\* "lock the session before the computer sleeps [...] however that was asked
\* for": it does not fall asleep unlocked, unless the lock screen was too late,
\* the user has unlocked or switched this off since, logind had been under way
\* before it could be held, or a signal was handled within inhibit() or behind
\* another.
SleepsLocked ==
    [][logind = "announced" /\ logind' = "asleep" => locked \/ excused \/ raced]_logind

\* Whenever all is quiet logind is held back for the next sleep, by exactly one
\* inhibitor: none is left over from the last one and none is missing.
HeldForTheNextSleep ==
    ~raced => /\ Free /\ logind = "awake" /\ bus = << >> => fd = config.lockOnSleep
              /\ holds = One(fd) + One(call = "granted")

\* The press that wakes the computer, or a second press before the sleep is
\* announced, does not ask for another sleep, although logind's signals arrive
\* late: while it works, no wake-up is left to be handled.
KeyWorksOnlyWhenRested ==
    Free /\ ~KeyRests /\ ~raced =>
        ~asked /\ \A i \in 1..Len(bus) : bus[i] = "wake" => \E k \in 1..i : bus[k] = "sleep"

\* tileWin lets go of logind in the end, so that a computer that is to sleep
\* does not wait for logind's patience.
SleepIsLetGo == logind = "announced" /\ ~raced ~> logind # "announced" \/ raced
=============================================================================
