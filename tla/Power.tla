------------------------------- MODULE Power --------------------------------
(***************************************************************************)
(* Screen power, sway/wm/power.c: the idle stages, the screen saver, the   *)
(* laptop lid and the power key, together with SleepLock.                  *)
(*                                                                         *)
(* Time without input is a small number.  One timer is armed for the next  *)
(* stage; it may fire early, as input does not move it.  All screens are   *)
(* on or off together, but for the laptop's own, which the lid switches    *)
(* off by itself when there is another.  They are what the output configs  *)
(* say: commands change those, and the modeset that follows is no step of  *)
(* its own.                                                                *)
(***************************************************************************)
EXTENDS SleepLock, FiniteSets

CONSTANTS
    Worlds,   \* what is looked at: the settings that follow each other, and
              \* how many sleeps are announced and settings are read
    MaxIdle   \* bound: how long there is no input

Stages == {"dim", "screen_off", "lock", "sleep", "screensaver"}

Config == [lockOnSleep : BOOLEAN, idle : [Stages -> 0..MaxIdle], saverLock : BOOLEAN,
           lid : {"default", "screen_off"}, key : {"default", "sleep", "screen_off"}]

ASSUME PowerAssumption ==
    /\ MaxIdle \in Nat
    /\ \A w \in Worlds : w.configs \subseteq Config /\ w.sleeps \in Nat /\ w.reloads \in Nat

VARIABLES
    world,       \* which of the worlds this is
    reloads,     \* how often settings are still to be read
    idle,        \* the time since last_input
    inhibited,   \* an app, or keep awake: the timers rest
    done,        \* the stages that ran since the last input
    armed,       \* the timer is set
    dimmed,      \* power.dim
    saver,       \* none, idle, or hand: "screensaver start"
    fresh,       \* it was started by hand less than SAVER_GRACE_MS ago
    lit,         \* the screens are on
    idleOff,     \* idle_screen_off
    lidClosed,
    lidOff,      \* lid_screen_off
    lidDisabled, \* lid_disabled_output
    ownOn,       \* the laptop's own screen is enabled
    keyed,       \* history: the key switched the screens off, no wake() since
    unarmed,     \* history: the saver was stopped with no timer set
    given,       \* history: the lid was opened when it was logind's
    reloaded     \* history: a reload has undone what the lid switched off

idleVars == <<idle, inhibited, done, armed, dimmed, saver, fresh, lit, idleOff,
              lidClosed, lidOff, lidDisabled, ownOn, keyed, unarmed, given, reloaded>>
vars == <<world, config, reloads, sleepVars, idleVars>>

\* The type of the state.
TypeOK ==
    /\ SleepTypeOK
    /\ world \in Worlds /\ config \in world.configs
    /\ reloads \in Nat
    /\ idle \in 0..MaxIdle /\ done \subseteq Stages
    /\ saver \in {"none", "idle", "hand"}
    /\ {inhibited, armed, dimmed, fresh, lit, idleOff, lidClosed, lidOff, lidDisabled,
        ownOn, keyed, unarmed, given, reloaded} \subseteq BOOLEAN

Uses(s) == config.idle[s] > 0
ToRun(cfg, over) == {s \in Stages : cfg.idle[s] > 0 /\ s \notin over}

\* schedule(): the timer is set if a stage is still to run.
ScheduleFor(cfg, over, rests) == armed' = (~rests /\ ToRun(cfg, over) # {})

Init ==
    /\ world \in Worlds /\ config \in world.configs
    /\ sleeps = world.sleeps /\ reloads = world.reloads
    /\ SleepInit
    /\ idle = 0 /\ inhibited = FALSE /\ done = {}
    /\ armed = (ToRun(config, {}) # {})
    /\ dimmed = FALSE /\ saver = "none" /\ fresh = FALSE
    /\ lit = TRUE /\ idleOff = FALSE
    /\ lidClosed = FALSE /\ lidOff = FALSE /\ lidDisabled = FALSE /\ ownOn = TRUE
    /\ keyed = FALSE /\ unarmed = FALSE /\ given = FALSE /\ reloaded = FALSE

SleepRest == <<sleeps, locked, logind, bus, holds, fd, call, timer, waited, keyVars, excused, raced>>
LidVars == <<lidClosed, lidOff, lidDisabled, ownOn, given, reloaded>>

-----------------------------------------------------------------------------
\* mutant: wake() does not look at the lid.
WakeLid ==
    /\ coming' = (coming \/ (saver # "none" /\ config.saverLock))
    /\ saver' = "none" /\ fresh' = FALSE /\ dimmed' = FALSE
    /\ idleOff' = FALSE /\ lit' = (lit \/ idleOff)
    /\ done' = {} /\ keyed' = FALSE

\* wake(): ends the screen saver, with a lock if that is set, and undoes dimming
\* and switching off.
Wake ==
    /\ coming' = (coming \/ (saver # "none" /\ config.saverLock))
    /\ saver' = "none" /\ fresh' = FALSE /\ dimmed' = FALSE
    /\ idleOff' = FALSE /\ lit' = (lit \/ (idleOff /\ ~lidOff))
    /\ done' = {} /\ keyed' = FALSE

Asleep == UNCHANGED <<world, config, reloads, SleepRest>>

InGrace == saver = "hand" /\ fresh

\* tw_power_activity: what lets go of the keys that started the saver does not
\* end it.  With nothing to undo the timer is left as it is.
Input ==
    /\ Free
    /\ idle' = 0
    /\ IF InGrace \/ done = {}
       THEN UNCHANGED <<coming, saver, fresh, dimmed, idleOff, lit, done, keyed, armed, unarmed>>
       ELSE /\ Wake
            /\ ScheduleFor(config, {}, inhibited) /\ unarmed' = FALSE
    /\ UNCHANGED <<inhibited, LidVars>> /\ Asleep

\* Time passes, no further than to the next stage that is due.
Due == {s \in ToRun(config, done) : idle >= config.idle[s]}

Tick ==
    /\ Free
    /\ idle < MaxIdle /\ (armed /\ ~inhibited => Due = {})
    /\ idle' = idle + 1 /\ fresh' = FALSE
    /\ UNCHANGED <<inhibited, done, armed, dimmed, saver, lit, idleOff, keyed, unarmed, LidVars, coming>>
    /\ Asleep

\* handle_timer: the stages that are due, in the order of the enum.
RunStages(due) ==
    /\ done' = done \cup due
    /\ dimmed' = (dimmed \/ "dim" \in due)
    /\ idleOff' = (idleOff \/ "screen_off" \in due)
    /\ lit' = (lit /\ "screen_off" \notin due)
    /\ coming' = (coming \/ "lock" \in due)
    /\ saver' = (IF "screensaver" \in due /\ ~idleOff'
                 THEN IF saver = "none" \/ due \cap {"lock", "sleep"} # {} THEN "idle" ELSE saver
                 ELSE IF due \cap {"screen_off", "lock", "sleep"} # {} THEN "none" ELSE saver)

HandleTimer ==
    /\ Free /\ armed
    /\ LET due == IF inhibited THEN {} ELSE Due IN
           /\ RunStages(due)
           /\ ScheduleFor(config, done \cup due, inhibited)
    /\ UNCHANGED <<idle, inhibited, fresh, keyed, unarmed, LidVars>> /\ Asleep

\* apply_inhibited: an app or the switch keeps the screen on, or no longer does.
Inhibit ==
    /\ Free
    /\ inhibited' = ~inhibited /\ idle' = 0
    /\ IF inhibited' THEN Wake
       ELSE UNCHANGED <<coming, saver, fresh, dimmed, idleOff, lit, done, keyed>>
    /\ ScheduleFor(config, done', inhibited') /\ unarmed' = FALSE
    /\ UNCHANGED LidVars /\ Asleep

\* "screensaver start" and "screensaver stop".
StartSaver ==
    /\ Free /\ saver = "none"
    /\ saver' = "hand" /\ fresh' = TRUE
    /\ done' = done \cup {"screensaver"}
    /\ UNCHANGED <<idle, inhibited, armed, dimmed, lit, idleOff, keyed, unarmed, LidVars, coming>>
    /\ Asleep

StopSaver ==
    /\ Free
    /\ saver' = "none" /\ fresh' = FALSE
    /\ done' = done \ {"screensaver"}
    /\ unarmed' = (unarmed \/ ~armed)
    /\ UNCHANGED <<idle, inhibited, armed, dimmed, lit, idleOff, keyed, LidVars, coming>>
    /\ Asleep

-----------------------------------------------------------------------------
ScreenVars == <<lit, lidOff, lidDisabled, ownOn>>

\* tw_power_lid, with or without another screen; the laptop's own may be off
\* since the lid was given back to logind.
CloseLid ==
    /\ Free /\ ~lidClosed
    /\ lidClosed' = TRUE
    /\ IF config.lid = "default" THEN UNCHANGED ScreenVars
       ELSE \/ ownOn /\ ownOn' = FALSE /\ lidDisabled' = TRUE /\ UNCHANGED <<lit, lidOff>>
            \/ lidOff' = TRUE /\ lit' = FALSE /\ UNCHANGED <<lidDisabled, ownOn>>
    /\ UNCHANGED <<idle, inhibited, done, armed, dimmed, saver, fresh, idleOff, keyed, unarmed,
                   given, reloaded, coming>>
    /\ Asleep

OpenLid ==
    /\ Free /\ lidClosed
    /\ lidClosed' = FALSE
    /\ IF config.lid = "default"
       THEN /\ given' = (given \/ lidOff \/ lidDisabled)
            /\ UNCHANGED <<ScreenVars, reloaded>>
       ELSE /\ lit' = (lit \/ lidOff) /\ ownOn' = (ownOn \/ lidDisabled)
            /\ lidOff' = FALSE /\ lidDisabled' = FALSE
            /\ given' = FALSE /\ reloaded' = FALSE
    /\ UNCHANGED <<idle, inhibited, done, armed, dimmed, saver, fresh, idleOff, keyed, unarmed, coming>>
    /\ Asleep

\* The power key: its press counts as input before it comes to tw_power_key.
PowerKey ==
    \/ config.key = "sleep" /\ AskToSleep /\ UNCHANGED <<world, reloads, idleVars>>
    \/ /\ Free /\ config.key = "screen_off" /\ ~KeyRests /\ (done = {} \/ InGrace)
       /\ idle' = 0
       /\ idleOff' = TRUE /\ lit' = FALSE /\ keyed' = TRUE
       /\ UNCHANGED <<inhibited, done, armed, dimmed, saver, fresh, unarmed, LidVars, coming>>
       /\ Asleep

\* tw_power_config_changed.
NewSettings ==
    /\ Free /\ reloads > 0
    /\ reloads' = reloads - 1
    /\ config' \in world.configs
    /\ SleepConfigChanged(config'.lockOnSleep)
    /\ ScheduleFor(config', done, inhibited) /\ unarmed' = FALSE
    /\ UNCHANGED <<world, idle, inhibited, done, dimmed, saver, fresh, idleOff, keyed,
                   lidClosed, lidOff, lidDisabled, given>>

\* Commands change the settings.
ConfigChanged == NewSettings /\ UNCHANGED <<lit, ownOn, reloaded>>

\* do_reload: the output configs are those of the file again, where all screens
\* are on; what idling and the lid have switched off stays on record.
Reload ==
    /\ NewSettings
    /\ lit' = TRUE /\ ownOn' = TRUE
    /\ reloaded' = (reloaded \/ lidOff \/ lidDisabled)

Sleeps ==
    /\ CallReturns \/ HandleBus \/ HandleSleepTimer \/ RestEnds
       \/ LockScreenStep \/ Announce \/ FallAsleep \/ LosePatience \/ WakeUp
    /\ UNCHANGED <<world, reloads, idleVars>>

Next ==
    \/ Sleeps \/ PowerKey \/ ConfigChanged \/ Reload
    \/ Input \/ Tick \/ HandleTimer \/ Inhibit \/ StartSaver \/ StopSaver \/ CloseLid \/ OpenLid

\* The event loop runs, and logind goes on once nobody holds it.
Fairness ==
    /\ WF_vars(CallReturns /\ UNCHANGED <<world, reloads, idleVars>>)
    /\ WF_vars(HandleBus /\ UNCHANGED <<world, reloads, idleVars>>)
    /\ WF_vars(HandleSleepTimer /\ UNCHANGED <<world, reloads, idleVars>>)
    /\ WF_vars(FallAsleep /\ UNCHANGED <<world, reloads, idleVars>>)

Spec == Init /\ [][Next]_vars /\ Fairness

-----------------------------------------------------------------------------
\* Whatever idling has done the next input undoes, as a stage that ran is in
\* `done': dimming, the saver, and the screens, unless it was the key that
\* switched them off.
NextInputUndoes ==
    /\ dimmed => "dim" \in done
    /\ saver # "none" => "screensaver" \in done
    /\ idleOff => "screen_off" \in done \/ keyed

\* Screens are only off because of idling, the key or a closed lid, one of which
\* turns them on again; and while the lid keeps them off, input does not.  A lid
\* that was given back to logind while closed is one exception, the other a
\* reload, which turns on the screens behind a closed lid.
OffForAReason ==
    /\ ~lit => idleOff \/ lidOff
    /\ ~ownOn => lidDisabled
    /\ lidOff \/ lidDisabled => lidClosed \/ given
    /\ ~reloaded => (lidOff => ~lit) /\ (lidDisabled => ~ownOn)

\* While a stage is still to run the timer is set, whatever was inhibited,
\* started by hand or configured meanwhile.  Stopping the saver by hand is the
\* exception.
StagesAreAwaited == ToRun(config, done) # {} /\ ~inhibited => armed \/ unarmed

\* Nothing saves power while an app keeps the screen on, and no saver runs
\* behind a screen that idling has switched off.
InhibitedStaysLit ==
    /\ inhibited => ~dimmed /\ saver # "idle" /\ (idleOff => keyed)
    /\ saver = "idle" /\ idleOff => keyed

\* What saves power follows the input: it is undone by the next, has a reason,
\* rests while something inhibits it, and is waited for while its stage is to come.
PowerFollowsInput == NextInputUndoes /\ OffForAReason /\ InhibitedStaysLit /\ StagesAreAwaited
=============================================================================
