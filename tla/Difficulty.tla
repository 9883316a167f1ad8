------------------------------ MODULE Difficulty ------------------------------
(***************************************************************************)
(* The dynamic difficulty of main.go: a counter of issued challenges and a *)
(* current difficulty in the pluginContext of every worker VM, and one     *)
(* value in the host's shared data, which every worker publishes on its    *)
(* tick and reads only while it has no difficulty of its own.              *)
(*                                                                         *)
(* 0 stands for "none" throughout: no x-challenge-difficulty header (or    *)
(* one that is not a positive number), no current difficulty, nothing      *)
(* published, no ipintel elevation.                                        *)
(***************************************************************************)
EXTENDS PluginConfig

CONSTANTS
    Workers,     \* the worker VMs, one pluginContext in each
    NoPlugin,    \* a worker whose plugin has not started
    RawConfigs,  \* the configurations the operator deploys, in any order
    Overrides,   \* values of the x-challenge-difficulty header, 0 for none
    Thresholds,  \* challenges per tick from which each level is reached
    MaxCounter   \* bound on challengeCounter

\* The thresholds of OnTick.
SourceThresholds == <<35, 80, 180, 400, 800>>

\* What each level adds to the base difficulty; level 0 is no pressure.
PressureBump == <<1, 2, 3, 4, 6>>
Levels == 0..5

ASSUME DifficultyAssumption ==
    /\ NoPlugin \notin Config
    /\ RawConfigs \subseteq RawConfig
    /\ Overrides \subseteq Nat /\ 0 \in Overrides
    /\ Thresholds \in [1..5 -> Nat \ {0}]
    /\ MaxCounter \in Nat

VARIABLES
    plugin,            \* the configuration of every worker's pluginContext
    currentDiff,       \* its currentDiff
    challengeCounter,  \* its challengeCounter
    sharedDiff         \* the host's "challenge:current_difficulty"

difficultyVars == <<plugin, currentDiff, challengeCounter, sharedDiff>>

DifficultyTypeOK ==
    /\ plugin \in [Workers -> Config \cup {NoPlugin}]
    /\ currentDiff \in [Workers -> Nat]
    /\ challengeCounter \in [Workers -> Nat]
    /\ sharedDiff \in Nat

Running(w) == plugin[w] # NoPlugin

-----------------------------------------------------------------------------
(* Choosing a difficulty.                                                  *)

\* The upper bound forgotten.
SeedClampNoMaximum(d, lo, hi) == IF d < lo THEN lo ELSE d

Clamp(d, lo, hi) == IF d < lo THEN lo ELSE IF d > hi THEN hi ELSE d

Bounded(c, d) == Clamp(d, c.min, c.max)

\* A worker without a difficulty of its own takes over the published one.
AdoptsShared(w, override) == override = 0 /\ currentDiff[w] = 0 /\ sharedDiff # 0

\* Priority: header, own current value, published value, configured base.
EffectiveDifficulty(w, override) ==
    Bounded(plugin[w],
        IF override # 0 THEN override
        ELSE IF currentDiff[w] # 0 THEN currentDiff[w]
        ELSE IF sharedDiff # 0 THEN sharedDiff
        ELSE plugin[w].base)

\* The elevation taken as it is configured.
SeedElevationUnclamped(w, override, elevation) ==
    IF elevation = 0 THEN EffectiveDifficulty(w, override) ELSE elevation

\* With an ipintel elevation, the effective difficulty is only the floor.
ChallengeDifficulty(w, override, elevation) ==
    IF elevation = 0 THEN EffectiveDifficulty(w, override)
    ELSE Clamp(elevation, EffectiveDifficulty(w, override), plugin[w].max)

\* The published value preferred to the worker's own.
SeedCachesPublished(w, override) ==
    currentDiff' = IF override = 0 /\ sharedDiff # 0
                   THEN [currentDiff EXCEPT ![w] = Bounded(plugin[w], sharedDiff)]
                   ELSE currentDiff

\* The side effect of getEffectiveDifficulty: the adopted value is cached.
CacheShared(w, override) ==
    currentDiff' = IF AdoptsShared(w, override)
                   THEN [currentDiff EXCEPT ![w] = EffectiveDifficulty(w, override)]
                   ELSE currentDiff

-----------------------------------------------------------------------------
(* The steps.                                                              *)

DifficultyInit ==
    /\ plugin = [w \in Workers |-> NoPlugin]
    /\ currentDiff = [w \in Workers |-> 0]
    /\ challengeCounter = [w \in Workers |-> 0]
    /\ sharedDiff = 0

\* A challenge leaves: recordChallengeIssued.
CountChallenge(w, override) ==
    /\ Running(w)
    /\ challengeCounter[w] < MaxCounter
    /\ CacheShared(w, override)
    /\ challengeCounter' = [challengeCounter EXCEPT ![w] = @ + 1]
    /\ UNCHANGED <<plugin, sharedDiff>>

\* A difficulty was chosen but the challenge could not be generated.
AbandonChallenge(w, override) ==
    /\ Running(w)
    /\ CacheShared(w, override)
    /\ UNCHANGED <<plugin, challengeCounter, sharedDiff>>

\* The level that `recent` challenges reach.
ReachesLevel(recent, level) ==
    /\ level # 0 => recent >= Thresholds[level]
    /\ \A higher \in Levels : higher > level => recent < Thresholds[higher]

\* The bump is added to the difficulty in force, not to the base.
SeedPressureAccumulates(c, level) ==
    Bounded(c, IF level = 0 THEN c.base ELSE sharedDiff + PressureBump[level])

PressureDifficulty(c, level) ==
    Bounded(c, IF level = 0 THEN c.base ELSE c.base + PressureBump[level])

\* The counter not reset.
SeedTickKeepsCounter(w) ==
    /\ Running(w)
    /\ \E level \in Levels :
        /\ ReachesLevel(challengeCounter[w], level)
        /\ currentDiff' = [currentDiff EXCEPT ![w] = PressureDifficulty(plugin[w], level)]
        /\ sharedDiff' = PressureDifficulty(plugin[w], level)
    /\ UNCHANGED <<plugin, challengeCounter>>

OnTick(w) ==
    /\ Running(w)
    /\ \E level \in Levels :
        /\ ReachesLevel(challengeCounter[w], level)
        /\ currentDiff' = [currentDiff EXCEPT ![w] = PressureDifficulty(plugin[w], level)]
        /\ sharedDiff' = PressureDifficulty(plugin[w], level)
    /\ challengeCounter' = [challengeCounter EXCEPT ![w] = 0]
    /\ UNCHANGED plugin

\* The check of the secret forgotten.
SeedStartsWithoutSecret(w, raw) ==
    /\ plugin' = [plugin EXCEPT ![w] = Compile(raw)]
    /\ currentDiff' = [currentDiff EXCEPT ![w] = 0]
    /\ challengeCounter' = [challengeCounter EXCEPT ![w] = 0]
    /\ UNCHANGED sharedDiff

\* A new pluginContext on one worker: first start, configuration update, or a
\* VM started again.  Shared data belongs to the host and stays.  Without a
\* usable secret OnPluginStart fails and nothing changes.
OnPluginStart(w, raw) ==
    /\ StartsWith(raw)
    /\ plugin' = [plugin EXCEPT ![w] = Compile(raw)]
    /\ currentDiff' = [currentDiff EXCEPT ![w] = 0]
    /\ challengeCounter' = [challengeCounter EXCEPT ![w] = 0]
    /\ UNCHANGED sharedDiff

\* The Envoy process ends: every VM and the shared data go with it.
HostRestart ==
    /\ plugin' = [w \in Workers |-> NoPlugin]
    /\ currentDiff' = [w \in Workers |-> 0]
    /\ challengeCounter' = [w \in Workers |-> 0]
    /\ sharedDiff' = 0

DifficultyNext ==
    \/ \E w \in Workers :
        \/ \E override \in Overrides : CountChallenge(w, override)
        \/ \E override \in Overrides : AbandonChallenge(w, override)
        \/ OnTick(w)
        \/ \E raw \in RawConfigs : OnPluginStart(w, raw)
    \/ HostRestart

DifficultySpec == DifficultyInit /\ [][DifficultyNext]_difficultyVars

\* The host keeps calling OnTick on a started plugin, every five seconds.
FairDifficultySpec ==
    DifficultySpec /\ \A w \in Workers : WF_difficultyVars(OnTick(w))
-----------------------------------------------------------------------------
(* Properties.                                                             *)

Elevations(w) == {0, plugin[w].target}

\* getEffectiveDifficulty "always respects min/max bounds" (main.go:756), and
\* so does what the ipintel gate makes of it: whatever a worker inherited from
\* another configuration through shared data or from the header, the challenge
\* it sends next is as hard as its own configuration allows.
OfferedInBounds ==
    \A w \in Workers : Running(w) =>
        \A override \in Overrides, elevation \in Elevations(w) :
            ChallengeDifficulty(w, override, elevation) \in plugin[w].min..plugin[w].max

\* "It always respects min/max bounds" (main.go:756), at the lower end: whatever
\* ticks, pressure and published values have made of a worker's difficulty, the
\* challenge it sends next is no easier than the configured minimum, also where
\* minimum and maximum are not a range (main.go:180).
OfferedAtLeastMinimum ==
    \A w \in Workers : Running(w) =>
        \A override \in Overrides, elevation \in Elevations(w) :
            ChallengeDifficulty(w, override, elevation) >= plugin[w].min

WithinBump(d) ==
    \E raw \in RawConfigs : StartsWith(raw) /\ d <= BaseDifficulty(raw) + 6

\* "Dynamic pressure can bump up to +6" (README.md): without a header, a
\* challenge is never more than 6 bits harder than the base of some deployed
\* configuration, however the ticks of the workers, their restarts, changes of
\* the configuration and the published value interleave: bumps do not add up.
BumpAtMostSix ==
    \A w \in Workers : Running(w) => WithinBump(EffectiveDifficulty(w, 0))

\* Once a worker has a difficulty of its own, only its own pressure moves it:
\* what other workers publish meanwhile does not, and a new pluginContext
\* starts without one (getEffectiveDifficulty reads shared data only then).
OwnPressureOnly ==
    [][\A w \in Workers : currentDiff[w] # 0 /\ currentDiff'[w] # currentDiff[w] =>
        \/ currentDiff'[w] = 0 /\ challengeCounter'[w] = 0
        \/ /\ plugin'[w] = plugin[w]
           /\ sharedDiff' = currentDiff'[w]
           /\ \E level \in Levels :
                /\ ReachesLevel(challengeCounter[w], level)
                /\ currentDiff'[w] = PressureDifficulty(plugin[w], level)]_difficultyVars

\* No challenge is counted, and no plugin is started over one with a difficulty.
Quiet ==
    /\ \A w \in Workers :
        /\ challengeCounter'[w] <= challengeCounter[w]
        /\ currentDiff[w] # 0 => currentDiff'[w] # 0
    /\ plugin' = plugin

\* Pressure passes: when challenges stop, every worker's difficulty returns to
\* its base for good, including the workers that had taken over a published
\* value (OnTick resets the counter it reads).
PressurePasses ==
    <>[][Quiet]_difficultyVars =>
        <>[](\A w \in Workers : Running(w) => EffectiveDifficulty(w, 0) = plugin[w].base)
=============================================================================
