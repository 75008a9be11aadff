---------------------------- MODULE PowerProofs ------------------------------
(***************************************************************************)
(* Theorems about Power and SleepLock, for any settings, any number of     *)
(* sleeps and any patience: the computer does not fall asleep unlocked,    *)
(* exactly one inhibitor is held for the next sleep, the power key rests   *)
(* when it must, and what saves power follows the input.                   *)
(***************************************************************************)
EXTENDS Power, TLAPS

\* The types the arguments need; they hold whatever is raced.
TypeInv ==
    /\ {locked, coming, fd, sleeping, resting, asked, excused, raced, config.lockOnSleep}
         \subseteq BOOLEAN
    /\ logind \in {"awake", "announced", "asleep"}
    /\ call \in {"none", "granted", "refused"}
    /\ timer \in {"off", "waiting", "settling"}
    /\ world \in Worlds /\ config \in world.configs

\* What is still to be handled of logind's signals tells where it is.
BusFits ==
    \/ logind = "awake" /\ bus \in {<< >>, <<"wake">>, <<"sleep", "wake">>}
    \/ logind # "awake" /\ bus \in {<< >>, <<"sleep">>}

\* The inhibitor is held, asked for, or will be taken again at the wake-up that
\* is still to be handled; the sleep timer only runs during a sleep.
InhibitorFits ==
    /\ holds = One(fd) + One(call = "granted")
    /\ call # "none" => ~fd /\ timer = "off" /\ config.lockOnSleep
    /\ call = "refused" => logind # "awake" \/ bus # << >>
    /\ timer # "off" => fd /\ (logind # "awake" \/ bus # << >>)
    /\ logind = "awake" /\ bus = << >> /\ call = "none" => fd = config.lockOnSleep

\* The key rests from the press to the announcement, and from the handling of the
\* sleep to that of the wake-up.
KeyFits ==
    /\ asked => resting
    /\ bus = <<"wake">> \/ (logind # "awake" /\ bus = << >>) => sleeping

\* A sleep that nothing excuses is held up until the session is locked: by an
\* inhibitor, and by the timer once the signal is handled.
Unlocked == logind = "announced" /\ ~locked /\ ~excused

HeldUp ==
    /\ Unlocked => holds > 0
    /\ Unlocked /\ bus = << >> => timer = "waiting"
    /\ timer = "settling" => locked \/ excused

SleepInv == TypeInv /\ (raced \/ (BusFits /\ InhibitorFits /\ KeyFits /\ HeldUp))

Good == BusFits /\ InhibitorFits /\ KeyFits /\ HeldUp

\* The sequences of signals that occur.
LEMMA SleepThenWake == Append(<<"sleep">>, "wake") = <<"sleep", "wake">>
<1> DEFINE s == <<"sleep">>
           a == Append(s, "wake")
<1>1. s \in Seq({"sleep", "wake"}) /\ Len(s) = 1 /\ s[1] = "sleep"
    OBVIOUS
<1>2. a \in Seq({"sleep", "wake"}) /\ Len(a) = 2 /\ a[1] = "sleep" /\ a[2] = "wake"
    <2> HIDE DEF s
    <2> QED
        BY <1>1, SMTT(30)
<1>3. \A q \in Seq({"sleep", "wake"}) : Len(q) = 2 => q = <<q[1], q[2]>>
    OBVIOUS
<1> HIDE DEF a
<1> QED
    BY <1>2, <1>3 DEF a

LEMMA Signals ==
    /\ Append(<< >>, "sleep") = <<"sleep">> /\ Append(<< >>, "wake") = <<"wake">>
    /\ Append(<<"sleep">>, "wake") = <<"sleep", "wake">>
    /\ Head(<<"sleep">>) = "sleep" /\ Head(<<"wake">>) = "wake"
    /\ Head(<<"sleep", "wake">>) = "sleep"
    /\ Tail(<<"sleep">>) = << >> /\ Tail(<<"wake">>) = << >>
    /\ Tail(<<"sleep", "wake">>) = <<"wake">>
    /\ <<"sleep">> # << >> /\ <<"wake">> # << >> /\ <<"sleep", "wake">> # << >>
    /\ <<"sleep">> # <<"wake">> /\ <<"sleep">> # <<"sleep", "wake">>
    /\ <<"wake">> # <<"sleep", "wake">>
    BY SleepThenWake

LEMMA SettingsAreBoolean ==
    ASSUME NEW w \in Worlds, NEW c \in w.configs
    PROVE  c.lockOnSleep \in BOOLEAN
    BY PowerAssumption DEF Config

LEMMA InitGood == Init => TypeInv /\ Good
<1> SUFFICES ASSUME Init PROVE TypeInv /\ Good
    OBVIOUS
<1>1. TypeInv
    BY SettingsAreBoolean DEF Init, SleepInit, TypeInv
<1>2. Good
    BY <1>1, Signals DEF Init, SleepInit, TypeInv, Good, BusFits, InhibitorFits, KeyFits, HeldUp, Unlocked, One
<1> QED
    BY <1>1, <1>2

LEMMA CallReturnsGood ==
    ASSUME TypeInv, Good, CallReturns, ~raced' PROVE Good'
<1>1. BusFits'
    BY Signals DEF CallReturns, Good, BusFits, TypeInv, lockScreen, keyVars
<1>2. InhibitorFits'
    BY Signals DEF CallReturns, Good, BusFits, InhibitorFits, TypeInv, lockScreen, keyVars, One
<1>3. KeyFits'
    BY Signals DEF CallReturns, Good, BusFits, KeyFits, TypeInv, lockScreen, keyVars
<1>4. HeldUp'
    BY Signals DEF CallReturns, Good, BusFits, InhibitorFits, HeldUp, Unlocked, TypeInv, lockScreen, keyVars
<1> QED
    BY <1>1, <1>2, <1>3, <1>4 DEF Good

LEMMA HandleWakeGood ==
    ASSUME TypeInv, Good, HandleWake, ~raced' PROVE Good'
<1>1. /\ call = "none" /\ logind = "awake" /\ bus = <<"wake">> /\ bus' = << >>
      /\ ReleaseAndRetake /\ ~sleeping' /\ resting'
      /\ UNCHANGED <<logind, config, locked, excused, asked>>
    BY Signals DEF HandleWake, Good, BusFits, lockScreen
<1>2. BusFits' /\ KeyFits'
    BY <1>1, Signals DEF BusFits, KeyFits
<1>3. holds = One(fd) /\ config.lockOnSleep \in BOOLEAN
    BY <1>1 DEF Good, InhibitorFits, One, TypeInv
<1>4. InhibitorFits'
    BY <1>1, <1>3 DEF InhibitorFits, ReleaseAndRetake, One, TypeInv
<1>5. HeldUp'
    BY <1>1 DEF HeldUp, Unlocked, ReleaseAndRetake
<1> QED
    BY <1>2, <1>4, <1>5 DEF Good

LEMMA HandleSleepGood ==
    ASSUME TypeInv, Good, HandleSleep, ~raced' PROVE Good'
<1>1. /\ call = "none" /\ (logind # "awake" \/ bus' # << >>) /\ sleeping'
      /\ UNCHANGED <<logind, config, locked, excused, resting, asked>>
    BY Signals DEF HandleSleep, Good, BusFits
<1>2. BusFits' /\ KeyFits'
    <2>1. CASE bus = <<"sleep">> /\ bus' = << >> /\ logind # "awake"
        BY <1>1, <2>1 DEF Good, BusFits, KeyFits
    <2>2. CASE bus = <<"sleep", "wake">> /\ bus' = <<"wake">> /\ logind = "awake"
        BY <1>1, <2>2 DEF Good, BusFits, KeyFits
    <2> QED
        BY <2>1, <2>2, Signals DEF HandleSleep, Good, BusFits
<1>3. CASE UNCHANGED <<holds, fd, timer, call>> /\ (~fd \/ timer # "off")
    <2>1. InhibitorFits'
        BY <1>1, <1>3 DEF Good, InhibitorFits
    <2>2. HeldUp'
        BY <1>1, <1>3 DEF Good, HeldUp, Unlocked, InhibitorFits, One, TypeInv
    <2> QED
        BY <1>2, <2>1, <2>2 DEF Good
<1>4. CASE fd /\ timer = "off" /\ locked /\ Release
    <2>1. InhibitorFits'
        BY <1>1, <1>4 DEF Good, InhibitorFits, Release, One, TypeInv
    <2>2. HeldUp'
        BY <1>1, <1>4 DEF Good, HeldUp, Unlocked, Release
    <2> QED
        BY <1>2, <2>1, <2>2 DEF Good
<1>5. CASE fd /\ timer = "off" /\ ~locked /\ timer' = "waiting" /\ UNCHANGED <<holds, fd, call>>
    <2>1. InhibitorFits'
        BY <1>1, <1>5 DEF Good, InhibitorFits
    <2>2. HeldUp'
        BY <1>1, <1>5 DEF Good, HeldUp, Unlocked
    <2> QED
        BY <1>2, <2>1, <2>2 DEF Good
<1> QED
    BY <1>3, <1>4, <1>5 DEF HandleSleep

LEMMA HandleSleepTimerGood ==
    ASSUME TypeInv, Good, HandleSleepTimer, ~raced' PROVE Good'
<1>1. /\ call = "none" /\ timer # "off"
      /\ UNCHANGED <<logind, bus, config, locked, sleeping, resting, asked>>
    BY DEF HandleSleepTimer, Free, lockScreen, keyVars
<1>2. BusFits' /\ KeyFits'
    BY <1>1 DEF Good, BusFits, KeyFits
<1>3. CASE Release /\ (locked \/ excused')
    <2>1. InhibitorFits'
        BY <1>1, <1>3 DEF Good, InhibitorFits, Release, One, TypeInv
    <2>2. HeldUp'
        BY <1>1, <1>3 DEF HeldUp, Unlocked, Release
    <2> QED
        BY <1>2, <2>1, <2>2 DEF Good
<1>4. CASE timer' # "off" /\ UNCHANGED <<holds, fd, call, excused>> /\ (timer' = timer \/ locked)
    <2>1. InhibitorFits'
        BY <1>1, <1>4 DEF Good, InhibitorFits
    <2>2. HeldUp'
        BY <1>1, <1>4 DEF Good, HeldUp, Unlocked
    <2> QED
        BY <1>2, <2>1, <2>2 DEF Good
<1>5. CASE timer = "settling"
    BY <1>3, <1>5 DEF HandleSleepTimer, Good, HeldUp
<1>6. CASE timer = "waiting" /\ locked
    BY <1>4, <1>6 DEF HandleSleepTimer
<1>7. CASE timer = "waiting" /\ ~locked
    BY <1>3, <1>4, <1>7 DEF HandleSleepTimer
<1> QED
    BY <1>1, <1>5, <1>6, <1>7 DEF TypeInv

LEMMA RestEndsGood ==
    ASSUME TypeInv, Good, RestEnds, ~raced' PROVE Good'
<1>1. BusFits'
    BY DEF RestEnds, Good, BusFits, lockScreen
<1>2. InhibitorFits'
    BY DEF RestEnds, Good, InhibitorFits, lockScreen
<1>3. KeyFits'
    BY DEF RestEnds, Good, KeyFits, lockScreen
<1>4. HeldUp'
    BY DEF RestEnds, Good, HeldUp, Unlocked, lockScreen
<1> QED
    BY <1>1, <1>2, <1>3, <1>4 DEF Good

LEMMA AskToSleepGood ==
    ASSUME TypeInv, Good, AskToSleep, ~raced' PROVE Good'
<1>1. BusFits'
    BY DEF AskToSleep, Good, BusFits, lockScreen
<1>2. InhibitorFits'
    BY DEF AskToSleep, Good, InhibitorFits, lockScreen
<1>3. KeyFits'
    BY DEF AskToSleep, Good, KeyFits, lockScreen
<1>4. HeldUp'
    BY DEF AskToSleep, Good, HeldUp, Unlocked, lockScreen
<1> QED
    BY <1>1, <1>2, <1>3, <1>4 DEF Good

LEMMA LockScreenStepGood ==
    ASSUME TypeInv, Good, LockScreenStep, ~raced' PROVE Good'
<1>1. UNCHANGED <<config, logind, bus, holds, fd, call, timer, sleeping, resting, asked>>
    BY DEF LockScreenStep, keyVars
<1>2. BusFits' /\ InhibitorFits' /\ KeyFits'
    BY <1>1 DEF Good, BusFits, InhibitorFits, KeyFits
<1>3. (locked \/ excused => locked' \/ excused')
    BY DEF LockScreenStep
<1>4. HeldUp'
    BY <1>1, <1>3 DEF Good, HeldUp, Unlocked
<1> QED
    BY <1>2, <1>4 DEF Good

LEMMA AnnounceGood ==
    ASSUME TypeInv, Good, Announce, ~raced' PROVE Good'
<1>1. /\ logind = "awake" /\ bus = << >> /\ logind' = "announced" /\ bus' = <<"sleep">>
      /\ ~asked' /\ excused' = (holds = 0)
      /\ UNCHANGED <<config, locked, holds, fd, call, timer, sleeping, resting>>
    BY Signals DEF Announce, lockScreen
<1>2. BusFits' /\ InhibitorFits' /\ KeyFits'
    BY <1>1, Signals DEF Good, BusFits, InhibitorFits, KeyFits
<1>3. timer = "off" /\ holds \in Nat
    BY <1>1 DEF Good, InhibitorFits, One
<1>4. HeldUp'
    <2>1. ~excused' => holds # 0
        BY <1>1, Zenon
    <2> QED
        BY <1>1, <1>3, <2>1, Signals DEF HeldUp, Unlocked
<1> QED
    BY <1>2, <1>4 DEF Good

LEMMA FallAsleepGood ==
    ASSUME TypeInv, Good, FallAsleep, ~raced' PROVE Good'
<1>1. BusFits'
    BY DEF FallAsleep, Good, BusFits, lockScreen, keyVars, TypeInv, InhibitorFits
<1>2. InhibitorFits'
    BY DEF FallAsleep, Good, InhibitorFits, lockScreen, keyVars, TypeInv, BusFits
<1>3. KeyFits'
    BY DEF FallAsleep, Good, KeyFits, lockScreen, keyVars, TypeInv, InhibitorFits, BusFits
<1>4. HeldUp'
    BY DEF FallAsleep, Good, HeldUp, Unlocked, lockScreen, keyVars, TypeInv, InhibitorFits, BusFits
<1> QED
    BY <1>1, <1>2, <1>3, <1>4 DEF Good

LEMMA LosePatienceGood ==
    ASSUME TypeInv, Good, LosePatience, ~raced' PROVE Good'
<1>1. BusFits'
    BY DEF LosePatience, Good, BusFits, lockScreen, keyVars, Free, TypeInv, InhibitorFits
<1>2. InhibitorFits'
    BY DEF LosePatience, Good, InhibitorFits, lockScreen, keyVars, Free, TypeInv, BusFits
<1>3. KeyFits'
    BY DEF LosePatience, Good, KeyFits, lockScreen, keyVars, Free, TypeInv, InhibitorFits, BusFits
<1>4. HeldUp'
    BY DEF LosePatience, Good, HeldUp, Unlocked, lockScreen, keyVars, Free, TypeInv, InhibitorFits, BusFits
<1> QED
    BY <1>1, <1>2, <1>3, <1>4 DEF Good

LEMMA WakeUpGood ==
    ASSUME TypeInv, Good, WakeUp, ~raced' PROVE Good'
<1>1. BusFits'
    BY Signals DEF WakeUp, Good, BusFits, TypeInv, lockScreen, keyVars, One
<1>2. InhibitorFits'
    BY Signals DEF WakeUp, Good, BusFits, InhibitorFits, TypeInv, lockScreen, keyVars, One
<1>3. KeyFits'
    BY Signals DEF WakeUp, Good, BusFits, KeyFits, TypeInv, lockScreen, keyVars, One
<1>4. HeldUp'
    BY Signals DEF WakeUp, Good, BusFits, InhibitorFits, HeldUp, Unlocked, TypeInv, lockScreen, keyVars, One
<1> QED
    BY <1>1, <1>2, <1>3, <1>4 DEF Good

LEMMA NewSettingsGood ==
    ASSUME TypeInv, Good, NewSettings, ~raced' PROVE Good'
<1> DEFINE want == config'.lockOnSleep
<1>1. want \in BOOLEAN
    BY SettingsAreBoolean DEF TypeInv, NewSettings
<1>2. /\ call = "none" /\ Update(want)
      /\ UNCHANGED <<locked, logind, bus, sleeping, resting, asked>>
    BY DEF NewSettings, SleepConfigChanged, Free, lockScreen, keyVars
<1>3. (excused => excused') /\ (~want /\ logind = "announced" => excused')
    BY DEF NewSettings, SleepConfigChanged
<1>4. BusFits' /\ KeyFits'
    BY <1>2 DEF Good, BusFits, KeyFits
<1> HIDE DEF want
<1>5. CASE ~want
    <2>1. Release
        BY <1>2, <1>5 DEF Update
    <2>2. InhibitorFits'
        <3>1. config'.lockOnSleep = FALSE
            BY <1>1, <1>5 DEF want
        <3>2. holds' = 0 /\ call' = "none" /\ timer' = "off" /\ fd' = FALSE
            BY <1>2, <2>1 DEF Good, InhibitorFits, Release, One, TypeInv
        <3>3. holds' = One(fd') + One(call' = "granted")
            BY <3>2 DEF One
        <3>4. fd' = config'.lockOnSleep
            BY <3>1, <3>2
        <3> QED
            BY <3>2, <3>3, <3>4 DEF InhibitorFits
    <2>3. HeldUp'
        BY <1>2, <1>3, <1>5, <2>1 DEF HeldUp, Unlocked, Release
    <2> QED
        BY <1>4, <2>2, <2>3 DEF Good
<1>6. CASE want /\ (timer # "off" \/ fd)
    <2>1. UNCHANGED <<holds, fd, timer, call>>
        BY <1>2, <1>6 DEF Update
    <2>2. fd
        BY <1>6 DEF Good, InhibitorFits
    <2>3. InhibitorFits'
        BY <1>2, <1>6, <2>1, <2>2 DEF Good, InhibitorFits, want
    <2>4. HeldUp'
        BY <1>2, <1>3, <2>1 DEF Good, HeldUp, Unlocked
    <2> QED
        BY <1>4, <2>3, <2>4 DEF Good
<1>7. CASE want /\ timer = "off" /\ ~fd
    <2>1. /\ call' = (IF logind = "awake" THEN "granted" ELSE "refused")
          /\ holds' = holds + One(logind = "awake") /\ UNCHANGED <<fd, timer>>
        BY <1>2, <1>7 DEF Update
    <2>2. holds = 0
        BY <1>2, <1>7 DEF Good, InhibitorFits, One
    <2>3. holds' = One(fd') + One(call' = "granted")
        BY <1>7, <2>1, <2>2 DEF One
    <2>4. call' # "none" /\ ~fd' /\ timer' = "off" /\ config'.lockOnSleep
            /\ (call' = "refused" => logind' # "awake")
        BY <1>2, <1>7, <2>1 DEF want
    <2>5. InhibitorFits'
        BY <2>3, <2>4 DEF InhibitorFits, One
    <2>6. HeldUp'
        BY <1>2, <1>3, <1>7, <2>1, <2>2 DEF Good, HeldUp, Unlocked
    <2> QED
        BY <1>4, <2>5, <2>6 DEF Good
<1> QED
    BY <1>1, <1>5, <1>6, <1>7

LEMMA AsleepGood ==
    ASSUME TypeInv, Good, Asleep PROVE Good'
<1>1. BusFits'
    BY DEF Asleep, Good, BusFits, SleepRest, keyVars
<1>2. InhibitorFits'
    BY DEF Asleep, Good, InhibitorFits, SleepRest, keyVars
<1>3. KeyFits'
    BY DEF Asleep, Good, KeyFits, SleepRest, keyVars
<1>4. HeldUp'
    BY DEF Asleep, Good, HeldUp, Unlocked, SleepRest, keyVars
<1> QED
    BY <1>1, <1>2, <1>3, <1>4 DEF Good

LEMMA TypeStep ==
    ASSUME TypeInv, [Next]_vars PROVE TypeInv'
<1>1. CASE Sleeps
    <2>1. world' = world /\ config' = config
        BY <1>1 DEF Sleeps, CallReturns, HandleBus, HandleWake, HandleSleep, HandleSleepTimer, RestEnds,
           LockScreenStep, Announce, FallAsleep, LosePatience, WakeUp
    <2>2. logind' \in {"awake", "announced", "asleep"} /\ call' \in {"none", "granted", "refused"}
            /\ timer' \in {"off", "waiting", "settling"}
        BY <1>1 DEF Sleeps, CallReturns, HandleBus, HandleWake, HandleSleep, HandleSleepTimer, RestEnds,
           LockScreenStep, Announce, FallAsleep, LosePatience, WakeUp, Release, ReleaseAndRetake, TypeInv
    <2>3. locked' \in BOOLEAN /\ coming' \in BOOLEAN
        BY <1>1 DEF Sleeps, CallReturns, HandleBus, HandleWake, HandleSleep, HandleSleepTimer, RestEnds,
           LockScreenStep, Announce, FallAsleep, LosePatience, WakeUp, TypeInv, lockScreen
    <2>4. fd' \in BOOLEAN /\ excused' \in BOOLEAN /\ raced' \in BOOLEAN
        BY <1>1 DEF Sleeps, CallReturns, HandleBus, HandleWake, HandleSleep, HandleSleepTimer, RestEnds,
           LockScreenStep, Announce, FallAsleep, LosePatience, WakeUp, Release, ReleaseAndRetake, TypeInv
    <2>5. sleeping' \in BOOLEAN /\ resting' \in BOOLEAN /\ asked' \in BOOLEAN
        BY <1>1 DEF Sleeps, CallReturns, HandleBus, HandleWake, HandleSleep, HandleSleepTimer, RestEnds,
           LockScreenStep, Announce, FallAsleep, LosePatience, WakeUp, TypeInv, keyVars
    <2> QED
        BY <2>1, <2>2, <2>3, <2>4, <2>5 DEF TypeInv
<1>2. CASE UNCHANGED <<world, config, SleepRest>> /\ coming' \in BOOLEAN
    BY <1>2 DEF TypeInv, SleepRest, keyVars
<1>3. CASE Input \/ Tick \/ HandleTimer \/ Inhibit \/ StartSaver \/ StopSaver \/ CloseLid \/ OpenLid
    <2>1. coming' \in BOOLEAN
        BY <1>3 DEF Input, Tick, HandleTimer, Inhibit, StartSaver, StopSaver, CloseLid, OpenLid,
           Wake, RunStages, TypeInv
    <2> QED
        BY <1>2, <1>3, <2>1 DEF Input, Tick, HandleTimer, Inhibit, StartSaver, StopSaver, CloseLid, OpenLid,
           Asleep
<1>4. CASE PowerKey
    <2>1. CASE AskToSleep /\ world' = world
        BY <2>1 DEF AskToSleep, TypeInv, lockScreen
    <2>2. CASE Asleep /\ UNCHANGED coming
        BY <1>2, <2>2 DEF Asleep, TypeInv
    <2> QED
        BY <1>4, <2>1, <2>2 DEF PowerKey
<1>5. CASE NewSettings
    <2>1. world' \in Worlds /\ config' \in world'.configs /\ config'.lockOnSleep \in BOOLEAN
        BY <1>5, SettingsAreBoolean DEF NewSettings, TypeInv
    <2>2. UNCHANGED <<locked, coming, sleeping, resting, asked, raced, logind>> /\ excused' \in BOOLEAN
        BY <1>5 DEF NewSettings, SleepConfigChanged, lockScreen, keyVars
    <2>3. fd' \in BOOLEAN /\ call' \in {"none", "granted", "refused"}
            /\ timer' \in {"off", "waiting", "settling"}
        BY <1>5 DEF NewSettings, SleepConfigChanged, Update, Release, TypeInv
    <2> QED
        BY <2>1, <2>2, <2>3 DEF TypeInv
<1>6. CASE UNCHANGED vars
    BY <1>2, <1>6 DEF vars, sleepVars, TypeInv, SleepRest, keyVars
<1> QED
    BY <1>1, <1>3, <1>4, <1>5, <1>6 DEF Next, ConfigChanged, Reload

LEMMA GoodStep ==
    ASSUME TypeInv, Good, [Next]_vars, ~raced' PROVE Good'
<1>1. CASE Sleeps
    BY <1>1, CallReturnsGood, HandleWakeGood, HandleSleepGood, HandleSleepTimerGood, RestEndsGood,
       LockScreenStepGood, AnnounceGood, FallAsleepGood, LosePatienceGood, WakeUpGood
       DEF Sleeps, HandleBus
<1>2. CASE PowerKey
    BY <1>2, AskToSleepGood, AsleepGood DEF PowerKey
<1>3. CASE ConfigChanged \/ Reload
    BY <1>3, NewSettingsGood DEF ConfigChanged, Reload
<1>4. CASE Input \/ Tick \/ HandleTimer \/ Inhibit \/ StartSaver \/ StopSaver \/ CloseLid \/ OpenLid
    BY <1>4, AsleepGood DEF Input, Tick, HandleTimer, Inhibit, StartSaver, StopSaver, CloseLid, OpenLid
<1>5. CASE UNCHANGED vars
    BY <1>5, AsleepGood DEF vars, sleepVars, Asleep, SleepRest, keyVars
<1> QED
    BY <1>1, <1>2, <1>3, <1>4, <1>5 DEF Next

\* What was raced stays so: the history variable is only ever set.
LEMMA RacedStays == TypeInv /\ raced /\ [Next]_vars => raced'
<1> SUFFICES ASSUME TypeInv, raced, [Next]_vars PROVE raced'
    OBVIOUS
<1>1. CASE Sleeps
    BY <1>1 DEF Sleeps, CallReturns, HandleBus, HandleWake, HandleSleep, HandleSleepTimer, RestEnds,
       LockScreenStep, Announce, FallAsleep, LosePatience, WakeUp
<1>2. CASE Asleep
    BY <1>2 DEF Asleep, SleepRest
<1>3. CASE PowerKey \/ ConfigChanged \/ Reload
    BY <1>2, <1>3 DEF PowerKey, AskToSleep, ConfigChanged, Reload, NewSettings, SleepConfigChanged
<1>4. CASE Input \/ Tick \/ HandleTimer \/ Inhibit \/ StartSaver \/ StopSaver \/ CloseLid \/ OpenLid
    BY <1>2, <1>4 DEF Input, Tick, HandleTimer, Inhibit, StartSaver, StopSaver, CloseLid, OpenLid
<1> QED
    BY <1>1, <1>3, <1>4 DEF Next, vars, sleepVars

THEOREM SleepInvariant == Spec => []SleepInv
<1>1. Init => SleepInv
    BY InitGood DEF SleepInv, Good
<1>2. SleepInv /\ [Next]_vars => SleepInv'
    BY TypeStep, GoodStep, RacedStays DEF SleepInv, Good
<1> QED
    BY <1>1, <1>2, PTL DEF Spec

\* Whenever all is quiet logind is held back for the next sleep, by exactly one
\* inhibitor, whatever the settings, the sleeps and the patience.
THEOREM AlwaysHeld == Spec => []HeldForTheNextSleep
<1>1. SleepInv => HeldForTheNextSleep
    BY DEF SleepInv, InhibitorFits, HeldForTheNextSleep, Free
<1> QED
    BY <1>1, SleepInvariant, PTL

\* While the power key works no sleep is asked for and no wake-up is left to be
\* handled that is not behind the announcement of its sleep.
THEOREM KeyRestsEnough == Spec => []KeyWorksOnlyWhenRested
<1>1. SleepInv => KeyWorksOnlyWhenRested
    <2> SUFFICES ASSUME SleepInv, Free, ~KeyRests, ~raced
                 PROVE  ~asked /\ \A i \in 1..Len(bus) : bus[i] = "wake" =>
                                    \E k \in 1..i : bus[k] = "sleep"
        BY DEF KeyWorksOnlyWhenRested
    <2>1. ~asked /\ ~sleeping
        BY DEF SleepInv, KeyFits, KeyRests
    <2>2. bus \in {<< >>, <<"sleep">>, <<"sleep", "wake">>}
        BY <2>1 DEF SleepInv, BusFits, KeyFits
    <2>3. CASE bus = << >>
        BY <2>1, <2>3
    <2>4. CASE bus = <<"sleep">> \/ bus = <<"sleep", "wake">>
        <3>1. bus[1] = "sleep" /\ Len(bus) \in Nat
            BY <2>4
        <3>2. \A i \in 1..Len(bus) : 1 \in 1..i
            BY <3>1
        <3> QED
            BY <2>1, <3>1, <3>2
    <2> QED
        BY <2>2, <2>3, <2>4
<1> QED
    BY <1>1, SleepInvariant, PTL

\* The computer does not fall asleep unlocked, unless that is excused.
THEOREM NeverAsleepUnlocked == Spec => SleepsLocked
<1>1. SleepInv /\ [Next]_vars =>
         [logind = "announced" /\ logind' = "asleep" => locked \/ excused \/ raced]_logind
    <2> SUFFICES ASSUME SleepInv, [Next]_vars, logind = "announced", logind' = "asleep",
                        ~locked, ~excused, ~raced
                 PROVE  FALSE
        OBVIOUS
    <2>1. CASE FallAsleep
        BY <2>1 DEF FallAsleep, SleepInv, HeldUp, Unlocked
    <2>2. CASE LosePatience
        BY <2>2 DEF LosePatience, SleepInv, HeldUp, Unlocked
    <2>3. FallAsleep \/ LosePatience
        BY DEF Next, vars, sleepVars, Sleeps, CallReturns, HandleBus, HandleWake, HandleSleep, HandleSleepTimer,
           RestEnds, LockScreenStep, Announce, WakeUp, PowerKey, AskToSleep, ConfigChanged, Reload, NewSettings, SleepConfigChanged,
           Asleep, SleepRest, Input, Tick, HandleTimer, Inhibit, StartSaver, StopSaver, CloseLid, OpenLid
    <2> QED
        BY <2>1, <2>2, <2>3
<1> QED
    BY <1>1, SleepInvariant, PTL DEF Spec, SleepsLocked

-----------------------------------------------------------------------------
\* Idling: the types its arguments need.
IdleTypeInv ==
    /\ {inhibited, armed, dimmed, lit, idleOff, lidClosed, lidOff, lidDisabled, ownOn, keyed, unarmed,
      given, reloaded}
         \subseteq BOOLEAN
    /\ saver \in {"none", "idle", "hand"}
    /\ done \subseteq Stages

IdleInv == IdleTypeInv /\ PowerFollowsInput

LEMMA IdleTypeStep ==
    ASSUME IdleTypeInv, [Next]_vars PROVE IdleTypeInv'
<1>1. CASE Sleeps \/ ConfigChanged \/ Reload \/ PowerKey \/ UNCHANGED vars
    BY <1>1 DEF Sleeps, ConfigChanged, Reload, NewSettings, PowerKey, idleVars, vars, LidVars, IdleTypeInv, ScheduleFor, Asleep
<1>2. CASE Input
    BY <1>2 DEF Input, Wake, ScheduleFor, LidVars, IdleTypeInv
<1>3. CASE Inhibit
    BY <1>3 DEF Inhibit, Wake, ScheduleFor, LidVars, IdleTypeInv
<1>4. CASE HandleTimer
    <2>1. Due \subseteq Stages
        BY DEF Due, ToRun
    <2> QED
        BY <1>4, <2>1 DEF HandleTimer, RunStages, ScheduleFor, LidVars, IdleTypeInv
<1>5. CASE Tick \/ StartSaver \/ StopSaver
    BY <1>5 DEF Tick, StartSaver, StopSaver, LidVars, IdleTypeInv, Stages
<1>6. CASE CloseLid \/ OpenLid
    BY <1>6 DEF CloseLid, OpenLid, ScreenVars, IdleTypeInv
<1> QED
    BY <1>1, <1>2, <1>3, <1>4, <1>5, <1>6 DEF Next

LEMMA WakeFollows ==
    ASSUME IdleInv, Wake, UNCHANGED LidVars
    PROVE  NextInputUndoes' /\ OffForAReason' /\ InhibitedStaysLit'
<1>1. NextInputUndoes' /\ InhibitedStaysLit'
    BY DEF Wake, NextInputUndoes, InhibitedStaysLit
<1>2. OffForAReason'
    BY DEF Wake, LidVars, OffForAReason, IdleInv, PowerFollowsInput
<1> QED
    BY <1>1, <1>2

\* schedule() as it is called after input, after stages, and for new settings.
LEMMA ScheduleAwaits ==
    ASSUME NEW rests \in BOOLEAN, rests = inhibited', ScheduleFor(config', done', rests)
    PROVE  StagesAreAwaited'
    BY DEF ScheduleFor, StagesAreAwaited

LEMMA InputFollows == ASSUME IdleInv, Input PROVE PowerFollowsInput'
<1>1. CASE UNCHANGED <<coming, saver, fresh, dimmed, idleOff, lit, done, keyed, armed, unarmed>>
    BY <1>1 DEF Input, Asleep, LidVars, IdleInv, PowerFollowsInput, NextInputUndoes, OffForAReason,
       InhibitedStaysLit, StagesAreAwaited
<1>2. CASE Wake /\ ScheduleFor(config, {}, inhibited) /\ unarmed' = FALSE
    <2>1. UNCHANGED <<inhibited, config, LidVars>>
        BY DEF Input, Asleep
    <2>2. NextInputUndoes' /\ OffForAReason' /\ InhibitedStaysLit'
        BY <1>2, <2>1, WakeFollows DEF LidVars
    <2>3. StagesAreAwaited'
        BY <1>2, <2>1, ScheduleAwaits DEF Wake, IdleInv, IdleTypeInv
    <2> QED
        BY <2>2, <2>3 DEF PowerFollowsInput
<1> QED
    BY <1>1, <1>2 DEF Input

LEMMA InhibitFollows == ASSUME IdleInv, Inhibit PROVE PowerFollowsInput'
<1>1. UNCHANGED <<config, LidVars>> /\ ScheduleFor(config, done', inhibited') /\ inhibited' \in BOOLEAN
    BY DEF Inhibit, Asleep, IdleInv, IdleTypeInv
<1>2. StagesAreAwaited'
    BY <1>1, ScheduleAwaits
<1>3. CASE inhibited'
    BY <1>1, <1>2, <1>3, WakeFollows DEF Inhibit, LidVars, PowerFollowsInput
<1>4. CASE ~inhibited'
    <2>1. UNCHANGED <<saver, dimmed, idleOff, lit, done, keyed>>
        BY <1>4 DEF Inhibit
    <2>2. saver' = "idle" /\ idleOff' => keyed'
        BY <2>1 DEF IdleInv, PowerFollowsInput, InhibitedStaysLit
    <2> QED
        BY <1>1, <1>2, <1>4, <2>1, <2>2 DEF LidVars, IdleInv, PowerFollowsInput, NextInputUndoes,
           OffForAReason, InhibitedStaysLit
<1> QED
    BY <1>3, <1>4

LEMMA HandleTimerFollows == ASSUME IdleInv, HandleTimer PROVE PowerFollowsInput'
<1> DEFINE due == IF inhibited THEN {} ELSE Due
<1>1. RunStages(due) /\ ScheduleFor(config, done \cup due, inhibited)
        /\ UNCHANGED <<config, inhibited, keyed, unarmed, LidVars>>
    BY DEF HandleTimer, Asleep
<1>2. inhibited => due = {}
    OBVIOUS
<1> HIDE DEF due
<1>3. NextInputUndoes'
    BY <1>1 DEF RunStages, NextInputUndoes, IdleInv, PowerFollowsInput
<1>4. OffForAReason'
    BY <1>1 DEF RunStages, OffForAReason, LidVars, IdleInv, PowerFollowsInput
<1>5. InhibitedStaysLit'
    BY <1>1, <1>2 DEF RunStages, InhibitedStaysLit, IdleInv, PowerFollowsInput
<1>6. StagesAreAwaited'
    BY <1>1, ScheduleAwaits DEF RunStages, IdleInv, IdleTypeInv
<1> QED
    BY <1>3, <1>4, <1>5, <1>6 DEF PowerFollowsInput

LEMMA SaverFollows == ASSUME IdleInv, StartSaver \/ StopSaver \/ Tick PROVE PowerFollowsInput'
<1>1. UNCHANGED <<config, inhibited, armed, dimmed, lit, idleOff, keyed, LidVars>>
    BY DEF StartSaver, StopSaver, Tick, Asleep
<1>2. NextInputUndoes'
    BY <1>1 DEF StartSaver, StopSaver, Tick, NextInputUndoes, IdleInv, PowerFollowsInput
<1>3. OffForAReason' /\ InhibitedStaysLit'
    BY <1>1 DEF StartSaver, StopSaver, Tick, OffForAReason, InhibitedStaysLit, LidVars, IdleInv,
       PowerFollowsInput
<1>4. StagesAreAwaited'
    <2>1. CASE StartSaver \/ Tick
        <3>1. done \subseteq done' /\ unarmed' = unarmed
            BY <2>1 DEF StartSaver, Tick
        <3> QED
            BY <1>1, <3>1 DEF ToRun, StagesAreAwaited, IdleInv, PowerFollowsInput
    <2>2. CASE StopSaver
        <3>1. armed' \/ unarmed'
            BY <2>2 DEF StopSaver
        <3> QED
            BY <3>1 DEF StagesAreAwaited
    <2> QED
        BY <2>1, <2>2
<1> QED
    BY <1>2, <1>3, <1>4 DEF PowerFollowsInput

LEMMA LidFollows == ASSUME IdleInv, CloseLid \/ OpenLid PROVE PowerFollowsInput'
<1>1. UNCHANGED <<config, inhibited, done, armed, dimmed, saver, idleOff, keyed, unarmed>>
    BY DEF CloseLid, OpenLid, Asleep
<1>2. OffForAReason'
    BY <1>1 DEF CloseLid, OpenLid, ScreenVars, OffForAReason, IdleInv, IdleTypeInv, PowerFollowsInput
<1> QED
    BY <1>1, <1>2 DEF NextInputUndoes, InhibitedStaysLit, StagesAreAwaited, IdleInv, PowerFollowsInput

LEMMA KeyFollows == ASSUME IdleInv, PowerKey PROVE PowerFollowsInput'
<1>1. CASE AskToSleep /\ UNCHANGED idleVars
    BY <1>1 DEF AskToSleep, idleVars, NextInputUndoes, OffForAReason, InhibitedStaysLit, StagesAreAwaited,
       IdleInv, PowerFollowsInput
<1>2. CASE idleOff' = TRUE /\ lit' = FALSE /\ keyed' = TRUE
            /\ UNCHANGED <<config, inhibited, done, armed, dimmed, saver, unarmed, LidVars>>
    BY <1>2 DEF LidVars, NextInputUndoes, OffForAReason, InhibitedStaysLit, StagesAreAwaited, IdleInv,
       PowerFollowsInput
<1> QED
    BY <1>1, <1>2 DEF PowerKey, Asleep

LEMMA SettingsFollow == ASSUME IdleInv, ConfigChanged \/ Reload PROVE PowerFollowsInput'
<1>1. /\ UNCHANGED <<inhibited, done, dimmed, saver, idleOff, keyed, lidClosed, lidOff, lidDisabled, given>>
      /\ ScheduleFor(config', done, inhibited)
    BY DEF ConfigChanged, Reload, NewSettings
<1>2. StagesAreAwaited'
    BY <1>1, ScheduleAwaits DEF IdleInv, IdleTypeInv
<1>3. OffForAReason'
    BY <1>1 DEF ConfigChanged, Reload, OffForAReason, IdleInv, IdleTypeInv, PowerFollowsInput
<1> QED
    BY <1>1, <1>2, <1>3 DEF NextInputUndoes, InhibitedStaysLit, IdleInv, PowerFollowsInput

\* What saves power follows the input, for any settings, however long nobody is
\* there, and whatever is read again while the lid is closed.
THEOREM AlwaysFollows == Spec => []PowerFollowsInput
<1>1. Init => IdleInv
    BY DEF Init, IdleInv, IdleTypeInv, PowerFollowsInput, NextInputUndoes, OffForAReason, InhibitedStaysLit,
       StagesAreAwaited
<1>2. IdleInv /\ [Next]_vars => IdleInv'
    <2> SUFFICES ASSUME IdleInv, [Next]_vars PROVE PowerFollowsInput'
        BY IdleTypeStep DEF IdleInv
    <2>1. CASE Sleeps
        <3>1. UNCHANGED idleVars
            BY <2>1 DEF Sleeps
        <3>2. config' = config
            BY <2>1 DEF Sleeps, CallReturns, HandleBus, HandleWake, HandleSleep, HandleSleepTimer, RestEnds,
               LockScreenStep, Announce, FallAsleep, LosePatience, WakeUp
        <3> QED
            BY <3>1, <3>2 DEF idleVars, NextInputUndoes, OffForAReason, InhibitedStaysLit,
               StagesAreAwaited, IdleInv, PowerFollowsInput
    <2>2. CASE UNCHANGED vars
        BY <2>2 DEF vars, idleVars, NextInputUndoes, OffForAReason, InhibitedStaysLit, StagesAreAwaited,
           IdleInv, PowerFollowsInput
    <2> QED
        BY <2>1, <2>2, InputFollows, InhibitFollows, HandleTimerFollows, SaverFollows, LidFollows, KeyFollows,
           SettingsFollow DEF Next
<1>3. IdleInv => PowerFollowsInput
    BY DEF IdleInv
<1> QED
    BY <1>1, <1>2, <1>3, PTL DEF Spec
=============================================================================
