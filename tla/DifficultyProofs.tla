--------------------------- MODULE DifficultyProofs ---------------------------
(***************************************************************************)
(* What holds of Difficulty for any number of workers, any configurations, *)
(* thresholds and headers.                                                 *)
(***************************************************************************)
EXTENDS Difficulty, TLAPS

\* OnPluginStart makes a well-formed pluginContext of every JSON with a usable
\* secret (main.go:153-231).
LEMMA CompileType ==
    ASSUME NEW raw \in RawConfig, StartsWith(raw)
    PROVE  Compile(raw) \in Config
<1>1. MinDifficulty(raw) \in Nat /\ MaxDifficulty(raw) \in Nat /\ BaseDifficulty(raw) \in Nat
    BY DEF RawConfig, MinDifficulty, MaxDifficulty, BaseDifficulty, OrDefault
<1>2. RenewalWindow(raw) \in Nat
    <2>1. raw.slidingRenewalTTL \in Int
        BY DEF RawConfig
    <2> QED
        BY <2>1 DEF RenewalWindow
<1>6. RenewalMaxAge(raw) \in Nat
    <2>1. raw.renewalTTL \in Int
        BY DEF RawConfig
    <2> QED
        BY <1>2, <2>1 DEF RenewalMaxAge, RenewalTTLMultiple
<1>3. IPIntelMode(raw) \in {"off", "challenge", "difficulty"}
    BY DEF RawConfig, IPIntelMode
<1>4. ProtectAll(raw) \in BOOLEAN /\ UNION CompiledRules(raw) \subseteq Targets
    BY DEF RawConfig, ProtectAll, CompiledRules
<1>5. raw.secret \in Keys
    BY DEF RawConfig, StartsWith
<1> QED
    BY <1>1, <1>2, <1>3, <1>4, <1>5, <1>6 DEF Compile, Config, RawConfig

\* The base of a compiled configuration lies in its bounds, when they are a
\* range at all (main.go:183-188).
LEMMA CompileBounds ==
    ASSUME NEW raw \in RawConfig, MinDifficulty(raw) <= MaxDifficulty(raw)
    PROVE  /\ Compile(raw).min <= Compile(raw).base
           /\ Compile(raw).base <= Compile(raw).max
           /\ Compile(raw).min = MinDifficulty(raw)
           /\ Compile(raw).max = MaxDifficulty(raw)
<1>1. MinDifficulty(raw) \in Nat /\ MaxDifficulty(raw) \in Nat
    BY DEF RawConfig, MinDifficulty, MaxDifficulty, OrDefault
<1>2. raw.base \in Nat
    BY DEF RawConfig
<1>3. BaseDifficulty(raw) \in MinDifficulty(raw)..MaxDifficulty(raw)
    BY <1>1, <1>2 DEF BaseDifficulty, OrDefault
<1> QED
    BY <1>1, <1>3 DEF Compile

\* clampDifficulty (main.go:790-798).
LEMMA ClampInRange ==
    ASSUME NEW d \in Nat, NEW lo \in Nat, NEW hi \in Nat
    PROVE  /\ Clamp(d, lo, hi) \in Nat
           /\ lo <= hi => Clamp(d, lo, hi) \in lo..hi
BY DEF Clamp

-----------------------------------------------------------------------------
\* Every started plugin comes from one of the deployed configurations.
Deployed ==
    \A w \in Workers : Running(w) =>
        \E raw \in RawConfigs : StartsWith(raw) /\ plugin[w] = Compile(raw)

DifficultyInv == DifficultyTypeOK /\ Deployed

\* The difficulty a running worker chooses is a number, whatever it inherits.
LEMMA EffectiveType ==
    ASSUME DifficultyTypeOK, NEW w \in Workers, Running(w), NEW override \in Nat
    PROVE  EffectiveDifficulty(w, override) \in Nat
<1>1. plugin[w] \in Config
    BY DEF DifficultyTypeOK, Running
<1>2. plugin[w].min \in Nat /\ plugin[w].max \in Nat /\ plugin[w].base \in Nat
    BY <1>1 DEF Config
<1>3. currentDiff[w] \in Nat /\ sharedDiff \in Nat
    BY DEF DifficultyTypeOK
<1> QED
    BY <1>2, <1>3, ClampInRange DEF EffectiveDifficulty, Bounded

LEMMA PressureType ==
    ASSUME NEW c \in Config, NEW level \in Levels
    PROVE  PressureDifficulty(c, level) \in Nat
<1>1. c.min \in Nat /\ c.max \in Nat /\ c.base \in Nat
    BY DEF Config
<1>2. level # 0 => PressureBump[level] \in Nat
    <2>1. level \in {0, 1, 2, 3, 4, 5}
        BY DEF Levels
    <2>2. /\ PressureBump[1] = 1 /\ PressureBump[2] = 2 /\ PressureBump[3] = 3
          /\ PressureBump[4] = 4 /\ PressureBump[5] = 6
        BY DEF PressureBump
    <2> QED
        BY <2>1, <2>2
<1> DEFINE d == IF level = 0 THEN c.base ELSE c.base + PressureBump[level]
<1>3. d \in Nat
    BY <1>1, <1>2
<1>4. Clamp(d, c.min, c.max) \in Nat
    BY <1>1, <1>3, ClampInRange
<1> QED
    BY <1>4 DEF PressureDifficulty, Bounded

\* Reading the shared value keeps currentDiff a function to numbers.
LEMMA CacheType ==
    ASSUME DifficultyTypeOK, NEW w \in Workers, Running(w), NEW override \in Nat,
           CacheShared(w, override)
    PROVE  currentDiff' \in [Workers -> Nat]
BY EffectiveType DEF DifficultyTypeOK, CacheShared

-----------------------------------------------------------------------------
LEMMA DifficultyInitInv == DifficultyInit => DifficultyInv
BY DEF DifficultyInit, DifficultyInv, DifficultyTypeOK, Deployed, Running

LEMMA DifficultyNextInv ==
    DifficultyInv /\ [DifficultyNext]_difficultyVars => DifficultyInv'
<1> SUFFICES ASSUME DifficultyInv, [DifficultyNext]_difficultyVars
             PROVE  DifficultyInv'
    OBVIOUS
<1> USE DEF DifficultyInv
<1>1. ASSUME NEW w \in Workers, NEW override \in Overrides, CountChallenge(w, override)
      PROVE  DifficultyInv'
    <2>1. override \in Nat
        BY DifficultyAssumption
    <2>2. currentDiff' \in [Workers -> Nat]
        BY <1>1, <2>1, CacheType DEF CountChallenge
    <2>3. DifficultyTypeOK'
        <3>1. challengeCounter' \in [Workers -> Nat]
            BY <1>1 DEF CountChallenge, DifficultyTypeOK
        <3> QED
            BY <1>1, <2>2, <3>1 DEF CountChallenge, DifficultyTypeOK
    <2>4. Deployed'
        BY <1>1 DEF CountChallenge, Deployed, Running
    <2> QED
        BY <2>3, <2>4
<1>2. ASSUME NEW w \in Workers, NEW override \in Overrides, AbandonChallenge(w, override)
      PROVE  DifficultyInv'
    <2>1. override \in Nat
        BY DifficultyAssumption
    <2>2. currentDiff' \in [Workers -> Nat]
        BY <1>2, <2>1, CacheType DEF AbandonChallenge
    <2>3. DifficultyTypeOK'
        BY <1>2, <2>2 DEF AbandonChallenge, DifficultyTypeOK
    <2>4. Deployed'
        BY <1>2 DEF AbandonChallenge, Deployed, Running
    <2> QED
        BY <2>3, <2>4
<1>3. ASSUME NEW w \in Workers, OnTick(w)
      PROVE  DifficultyInv'
    <2>1. plugin[w] \in Config
        BY <1>3 DEF OnTick, Running, DifficultyTypeOK
    <2>2. PICK level \in Levels :
            /\ currentDiff' = [currentDiff EXCEPT ![w] = PressureDifficulty(plugin[w], level)]
            /\ sharedDiff' = PressureDifficulty(plugin[w], level)
        BY <1>3 DEF OnTick
    <2>3. PressureDifficulty(plugin[w], level) \in Nat
        BY <2>1, PressureType
    <2> QED
        BY <1>3, <2>2, <2>3 DEF OnTick, DifficultyTypeOK, Deployed, Running
<1>4. ASSUME NEW w \in Workers, NEW raw \in RawConfigs, OnPluginStart(w, raw)
      PROVE  DifficultyInv'
    <2>1. Compile(raw) \in Config
        BY <1>4, CompileType, DifficultyAssumption DEF OnPluginStart
    <2>2. DifficultyTypeOK'
        BY <1>4, <2>1 DEF OnPluginStart, DifficultyTypeOK
    <2>3. Deployed'
        <3> SUFFICES ASSUME NEW v \in Workers, Running(v)'
                     PROVE  \E r \in RawConfigs : StartsWith(r) /\ plugin'[v] = Compile(r)
            BY DEF Deployed
        <3>1. CASE v = w
            BY <1>4, <3>1 DEF OnPluginStart, DifficultyTypeOK
        <3>2. CASE v # w
            BY <1>4, <3>2 DEF OnPluginStart, DifficultyTypeOK, Deployed, Running
        <3> QED
            BY <3>1, <3>2
    <2> QED
        BY <2>2, <2>3
<1>5. ASSUME HostRestart
      PROVE  DifficultyInv'
    BY <1>5 DEF HostRestart, DifficultyTypeOK, Deployed, Running
<1>6. ASSUME UNCHANGED difficultyVars
      PROVE  DifficultyInv'
    BY <1>6 DEF difficultyVars, DifficultyTypeOK, Deployed, Running
<1> QED
    BY <1>1, <1>2, <1>3, <1>4, <1>5, <1>6 DEF DifficultyNext

\* Difficulties and counters stay numbers, and a running worker always has a
\* well-formed pluginContext.
THEOREM DifficultyTypeCorrect == DifficultySpec => []DifficultyTypeOK
<1>1. DifficultyInv => DifficultyTypeOK
    BY DEF DifficultyInv
<1> QED
    BY <1>1, DifficultyInitInv, DifficultyNextInv, PTL DEF DifficultySpec

-----------------------------------------------------------------------------
\* The bounds of every deployed configuration are a range.  The code makes sure
\* of it except for a minimum above 26 without a maximum over it (main.go:180).
RangesDeployed == \A raw \in RawConfigs : MinDifficulty(raw) <= MaxDifficulty(raw)

LEMMA ElevatedInRange ==
    ASSUME NEW lo \in Nat, NEW hi \in Nat, NEW d \in lo..hi, NEW e \in Nat
    PROVE  Clamp(e, d, hi) \in lo..hi
BY DEF Clamp

LEMMA InBoundsFromInv ==
    ASSUME RangesDeployed, DifficultyInv
    PROVE  OfferedInBounds
<1> SUFFICES ASSUME NEW w \in Workers, Running(w),
                    NEW override \in Overrides, NEW elevation \in Elevations(w)
             PROVE  ChallengeDifficulty(w, override, elevation) \in plugin[w].min..plugin[w].max
    BY DEF OfferedInBounds
<1> DEFINE c == plugin[w]
           d == EffectiveDifficulty(w, override)
<1>1. PICK raw \in RawConfigs : StartsWith(raw) /\ plugin[w] = Compile(raw)
    BY DEF DifficultyInv, Deployed
<1>2. c.min <= c.max
    BY <1>1, CompileBounds, DifficultyAssumption DEF RangesDeployed, Compile
<1>3. c.min \in Nat /\ c.max \in Nat /\ c.base \in Nat /\ c.target \in Nat
    BY DEF DifficultyInv, DifficultyTypeOK, Running, Config
<1>4. override \in Nat /\ currentDiff[w] \in Nat /\ sharedDiff \in Nat
    BY DifficultyAssumption DEF DifficultyInv, DifficultyTypeOK
<1>5. d \in c.min..c.max
    BY <1>2, <1>3, <1>4, ClampInRange DEF EffectiveDifficulty, Bounded
<1>6. elevation \in Nat
    BY <1>3 DEF Elevations
<1> HIDE DEF c, d
<1>7. Clamp(elevation, d, c.max) \in c.min..c.max
    BY <1>3, <1>5, <1>6, ElevatedInRange
<1> QED
    BY <1>5, <1>7 DEF c, d, ChallengeDifficulty

\* "It always respects min/max bounds" (main.go:756) for every deployment whose
\* bounds are ranges: whatever other configurations left in shared data, with or
\* without a header or an elevation.
THEOREM OfferedInBoundsAlways ==
    ASSUME RangesDeployed
    PROVE  DifficultySpec => []OfferedInBounds
<1>1. DifficultyInv => OfferedInBounds
    BY InBoundsFromInv
<1> QED
    BY <1>1, DifficultyInitInv, DifficultyNextInv, PTL DEF DifficultySpec
-----------------------------------------------------------------------------
\* A tick moves a difficulty to its own pressure, a start and the end of the host
\* drop it, and nothing else touches a worker's difficulty once there is one.
LEMMA OwnPressureStep ==
    ASSUME DifficultyInv, DifficultyNext, NEW v \in Workers,
           currentDiff[v] # 0, currentDiff'[v] # currentDiff[v]
    PROVE  \/ currentDiff'[v] = 0 /\ challengeCounter'[v] = 0
           \/ /\ plugin'[v] = plugin[v]
              /\ sharedDiff' = currentDiff'[v]
              /\ \E level \in Levels :
                   /\ ReachesLevel(challengeCounter[v], level)
                   /\ currentDiff'[v] = PressureDifficulty(plugin[v], level)
<1> USE DEF DifficultyInv, DifficultyTypeOK
<1>1. ASSUME NEW w \in Workers, NEW override \in Overrides, CacheShared(w, override)
      PROVE  FALSE
    BY <1>1 DEF CacheShared, AdoptsShared
<1>2. ASSUME NEW w \in Workers, OnTick(w)
      PROVE  /\ plugin'[v] = plugin[v]
             /\ sharedDiff' = currentDiff'[v]
             /\ \E level \in Levels :
                  /\ ReachesLevel(challengeCounter[v], level)
                  /\ currentDiff'[v] = PressureDifficulty(plugin[v], level)
    <2>1. PICK level \in Levels :
            /\ ReachesLevel(challengeCounter[w], level)
            /\ currentDiff' = [currentDiff EXCEPT ![w] = PressureDifficulty(plugin[w], level)]
            /\ sharedDiff' = PressureDifficulty(plugin[w], level)
        BY <1>2 DEF OnTick
    <2>2. v = w
        BY <2>1
    <2> QED
        BY <1>2, <2>1, <2>2 DEF OnTick
<1>3. ASSUME NEW w \in Workers, NEW raw \in RawConfigs, OnPluginStart(w, raw)
      PROVE  currentDiff'[v] = 0 /\ challengeCounter'[v] = 0
    BY <1>3 DEF OnPluginStart
<1>4. ASSUME HostRestart
      PROVE  currentDiff'[v] = 0 /\ challengeCounter'[v] = 0
    BY <1>4 DEF HostRestart
<1> QED
    BY <1>1, <1>2, <1>3, <1>4 DEF DifficultyNext, CountChallenge, AbandonChallenge

\* Whatever other workers publish, a worker that has a difficulty follows its own
\* challenges only (main.go:767-786).
THEOREM OwnPressureOnlyAlways == DifficultySpec => OwnPressureOnly
<1> DEFINE Own(w) ==
        \/ currentDiff'[w] = 0 /\ challengeCounter'[w] = 0
        \/ /\ plugin'[w] = plugin[w]
           /\ sharedDiff' = currentDiff'[w]
           /\ \E level \in Levels :
                /\ ReachesLevel(challengeCounter[w], level)
                /\ currentDiff'[w] = PressureDifficulty(plugin[w], level)
    Step == \A w \in Workers : currentDiff[w] # 0 /\ currentDiff'[w] # currentDiff[w] => Own(w)
<1>1. DifficultyInv /\ [DifficultyNext]_difficultyVars => [Step]_difficultyVars
    BY OwnPressureStep
<1>2. DifficultySpec => [][Step]_difficultyVars
    BY <1>1, DifficultyInitInv, DifficultyNextInv, PTL DEF DifficultySpec
<1> QED
    BY <1>2 DEF OwnPressureOnly

-----------------------------------------------------------------------------
\* No difficulty in force or published is more than 6 above every deployed base.
Bumped ==
    /\ sharedDiff # 0 => WithinBump(sharedDiff)
    /\ \A w \in Workers : currentDiff[w] # 0 => WithinBump(currentDiff[w])

LEMMA BaseType ==
    ASSUME NEW raw \in RawConfigs
    PROVE  BaseDifficulty(raw) \in Nat
BY DifficultyAssumption DEF RawConfig, MinDifficulty, MaxDifficulty, BaseDifficulty, OrDefault

\* The bounds of one configuration do not lift the difficulty of another out of
\* the bump.
LEMMA ClampBumped ==
    ASSUME RangesDeployed, DifficultyInv, NEW w \in Workers, Running(w),
           NEW d \in Nat, WithinBump(d) \/ d = plugin[w].base
    PROVE  WithinBump(Bounded(plugin[w], d))
<1>1. PICK raw \in RawConfigs : StartsWith(raw) /\ plugin[w] = Compile(raw)
    BY DEF DifficultyInv, Deployed
<1>2. plugin[w].base = BaseDifficulty(raw) /\ BaseDifficulty(raw) \in Nat
    BY <1>1, BaseType DEF Compile
<1>3. plugin[w].min <= plugin[w].base /\ plugin[w].base <= plugin[w].max
    BY <1>1, CompileBounds, DifficultyAssumption DEF RangesDeployed, Compile
<1>4. plugin[w].min \in Nat /\ plugin[w].max \in Nat
    BY DEF DifficultyInv, DifficultyTypeOK, Running, Config
<1>5. Bounded(plugin[w], d) \in Nat
      /\ (Bounded(plugin[w], d) <= d \/ Bounded(plugin[w], d) <= plugin[w].base)
    BY <1>2, <1>3, <1>4 DEF Bounded, Clamp
<1>6. CASE Bounded(plugin[w], d) <= plugin[w].base
    BY <1>1, <1>2, <1>5, <1>6 DEF WithinBump
<1>7. CASE Bounded(plugin[w], d) <= d /\ d = plugin[w].base
    BY <1>6, <1>7
<1>8. CASE Bounded(plugin[w], d) <= d /\ WithinBump(d)
    <2>1. PICK r \in RawConfigs : StartsWith(r) /\ d <= BaseDifficulty(r) + 6
        BY <1>8 DEF WithinBump
    <2>2. BaseDifficulty(r) \in Nat
        BY BaseType
    <2> QED
        BY <1>5, <1>8, <2>1, <2>2 DEF WithinBump
<1> QED
    BY <1>5, <1>6, <1>7, <1>8

LEMMA BumpAtMostSixFromInv ==
    ASSUME RangesDeployed, DifficultyInv, Bumped, NEW w \in Workers, Running(w)
    PROVE  WithinBump(EffectiveDifficulty(w, 0))
<1>1. currentDiff[w] \in Nat /\ sharedDiff \in Nat /\ plugin[w].base \in Nat
    BY DEF DifficultyInv, DifficultyTypeOK, Running, Config
<1> QED
    BY <1>1, ClampBumped DEF EffectiveDifficulty, Bumped

\* The highest level adds 6.
LEMMA PressureBumped ==
    ASSUME NEW c \in Config, NEW level \in Levels, c.min <= c.base, c.base <= c.max
    PROVE  PressureDifficulty(c, level) <= c.base + 6
<1>1. c.min \in Nat /\ c.max \in Nat /\ c.base \in Nat
    BY DEF Config
<1>2. level # 0 => PressureBump[level] \in 0..6
    <2>1. level \in {0, 1, 2, 3, 4, 5}
        BY DEF Levels
    <2>2. /\ PressureBump[1] = 1 /\ PressureBump[2] = 2 /\ PressureBump[3] = 3
          /\ PressureBump[4] = 4 /\ PressureBump[5] = 6
        BY DEF PressureBump
    <2> QED
        BY <2>1, <2>2
<1> DEFINE d == IF level = 0 THEN c.base ELSE c.base + PressureBump[level]
<1>3. d \in Nat /\ d <= c.base + 6
    BY <1>1, <1>2
<1> HIDE DEF d
<1>4. Clamp(d, c.min, c.max) <= c.base + 6
    BY <1>1, <1>3 DEF Clamp
<1> QED
    BY <1>4 DEF PressureDifficulty, Bounded, d

LEMMA BumpedNext ==
    ASSUME RangesDeployed, DifficultyInv, Bumped, [DifficultyNext]_difficultyVars
    PROVE  Bumped'
<1>1. ASSUME NEW w \in Workers, NEW override \in Overrides,
             CountChallenge(w, override) \/ AbandonChallenge(w, override)
      PROVE  Bumped'
    <2>1. Running(w) /\ CacheShared(w, override) /\ UNCHANGED sharedDiff
        BY <1>1 DEF CountChallenge, AbandonChallenge
    <2>2. WithinBump(EffectiveDifficulty(w, 0))
        BY <2>1, BumpAtMostSixFromInv
    <2> QED
        BY <2>1, <2>2 DEF CacheShared, AdoptsShared, Bumped, DifficultyInv, DifficultyTypeOK
<1>2. ASSUME NEW w \in Workers, OnTick(w)
      PROVE  Bumped'
    <2>1. PICK level \in Levels :
            /\ currentDiff' = [currentDiff EXCEPT ![w] = PressureDifficulty(plugin[w], level)]
            /\ sharedDiff' = PressureDifficulty(plugin[w], level)
        BY <1>2 DEF OnTick
    <2>2. PICK raw \in RawConfigs : StartsWith(raw) /\ plugin[w] = Compile(raw)
        BY <1>2 DEF DifficultyInv, Deployed, OnTick
    <2>3. /\ plugin[w] \in Config
          /\ plugin[w].min <= plugin[w].base /\ plugin[w].base <= plugin[w].max
        BY <1>2, <2>2, CompileBounds, DifficultyAssumption
        DEF RangesDeployed, DifficultyInv, DifficultyTypeOK, OnTick, Running
    <2>4. PressureDifficulty(plugin[w], level) <= plugin[w].base + 6
        BY <2>3, PressureBumped
    <2>5. WithinBump(PressureDifficulty(plugin[w], level))
        BY <2>2, <2>4 DEF WithinBump, Compile
    <2> QED
        BY <2>1, <2>5 DEF Bumped, DifficultyInv, DifficultyTypeOK
<1>3. ASSUME NEW w \in Workers, NEW raw \in RawConfigs, OnPluginStart(w, raw)
      PROVE  Bumped'
    BY <1>3 DEF OnPluginStart, Bumped, DifficultyInv, DifficultyTypeOK
<1>4. ASSUME HostRestart
      PROVE  Bumped'
    BY <1>4 DEF HostRestart, Bumped
<1>5. ASSUME UNCHANGED difficultyVars
      PROVE  Bumped'
    BY <1>5 DEF difficultyVars, Bumped
<1> QED
    BY <1>1, <1>2, <1>3, <1>4, <1>5 DEF DifficultyNext

\* "Dynamic pressure can bump up to +6" (README.md), over every deployment there
\* was: any number of workers may inherit, publish and start again under any of
\* the configurations, and the bumps do not add up.
THEOREM BumpAtMostSixAlways ==
    ASSUME RangesDeployed
    PROVE  DifficultySpec => []BumpAtMostSix
<1>1. DifficultyInit => Bumped
    BY DEF DifficultyInit, Bumped
<1>2. DifficultyInv /\ Bumped /\ [DifficultyNext]_difficultyVars => Bumped'
    BY BumpedNext
<1>3. DifficultyInv /\ Bumped => BumpAtMostSix
    BY BumpAtMostSixFromInv DEF BumpAtMostSix
<1> QED
    BY <1>1, <1>2, <1>3, DifficultyInitInv, DifficultyNextInv, PTL DEF DifficultySpec
=============================================================================
