----------------------------- MODULE PluginConfig -----------------------------
(***************************************************************************)
(* The plugin configuration: what OnPluginStart makes of the JSON it is    *)
(* given (main.go, ipintel.go, protected.go).  A raw configuration is a    *)
(* record of the values read from the JSON, 0 standing for an absent or    *)
(* unparsable number, which is what gjson's Uint() and Int() return for    *)
(* it.  Compile(raw) is the state of the new pluginContext.                *)
(***************************************************************************)
EXTENDS Integers

CONSTANTS
    Keys,        \* HMAC secrets of at least MinSecretLen bytes
    NoKey,       \* a missing, blank or too short secret
    Targets,     \* what a request asks for: a (host, path) pair
    BadRule,     \* a `protected` entry that compileProtectedRule drops
    Categories,  \* the ipintel categories
    DBOpens      \* whether the embedded ipintel database can be opened

ASSUME ConfigAssumption ==
    /\ NoKey \notin Keys
    /\ DBOpens \in BOOLEAN

RenewalTTLMultiple == 6

\* The JSON as read: an entry of `protected` is the set of targets it matches.
RawConfig ==
    [secret: Keys \cup {NoKey}, base: Nat, min: Nat, max: Nat,
     slidingRenewalTTL: Int, renewalTTL: Int,
     clientIPSource: {"auto", "source_address"},
     mode: {"", "challenge", "difficulty", "invalid"},
     cats: SUBSET Categories, target: Nat,
     protected: SUBSET ({BadRule} \cup SUBSET Targets)]

\* The fields of a started pluginContext.  mode = "off" when ipintel is disabled.
Config ==
    [key: Keys, base: Nat, min: Nat, max: Nat,
     slidingRenewalTTL: Nat, renewalTTL: Nat,
     clientIPSource: {"auto", "source_address"},
     mode: {"off", "challenge", "difficulty"},
     cats: SUBSET Categories, target: Nat,
     protectAll: BOOLEAN, protects: SUBSET Targets]

-----------------------------------------------------------------------------
(* Difficulty defaults and bounds.                                         *)

\* A bound or base below 1 was not configured.
OrDefault(value, default) == IF value < 1 THEN default ELSE value

MinDifficulty(raw) == OrDefault(raw.min, 12)

MaxDifficulty(raw) == IF raw.max < MinDifficulty(raw) THEN 26 ELSE raw.max

\* The base is raised to the minimum first and lowered to the maximum after it.
BaseDifficulty(raw) ==
    LET base   == OrDefault(raw.base, 18)
        raised == IF base < MinDifficulty(raw) THEN MinDifficulty(raw) ELSE base
    IN  IF raised > MaxDifficulty(raw) THEN MaxDifficulty(raw) ELSE raised

-----------------------------------------------------------------------------
(* Sliding renewal: a window of 0 disables it, and the cookie's Max-Age    *)
(* is then 0 too.                                                          *)

RenewalWindow(raw) == IF raw.slidingRenewalTTL < 0 THEN 0 ELSE raw.slidingRenewalTTL

RenewalMaxAge(raw) ==
    IF RenewalWindow(raw) = 0 THEN 0
    ELSE IF raw.renewalTTL > 0 THEN raw.renewalTTL
    ELSE RenewalTTLMultiple * RenewalWindow(raw)

-----------------------------------------------------------------------------
(* Selective protection: entries that do not compile are dropped, and a    *)
(* list in which none is left protects everything.                         *)

CompiledRules(raw) == raw.protected \ {BadRule}

ProtectAll(raw) == CompiledRules(raw) = {}

-----------------------------------------------------------------------------
(* ipintel: an absent mode means "challenge"; the gate is off without a    *)
(* valid mode, without a category, or without a database.                  *)

IPIntelMode(raw) ==
    IF raw.mode = "invalid" \/ raw.cats = {} \/ ~ DBOpens THEN "off"
    ELSE IF raw.mode = "" THEN "challenge" ELSE raw.mode

-----------------------------------------------------------------------------
\* OnPluginStart fails, and starts nothing, without a usable secret.
StartsWith(raw) == raw.secret # NoKey

Compile(raw) ==
    [key               |-> raw.secret,
     base              |-> BaseDifficulty(raw),
     min               |-> MinDifficulty(raw),
     max               |-> MaxDifficulty(raw),
     slidingRenewalTTL |-> RenewalWindow(raw),
     renewalTTL        |-> RenewalMaxAge(raw),
     clientIPSource    |-> raw.clientIPSource,
     mode              |-> IPIntelMode(raw),
     cats              |-> IF IPIntelMode(raw) = "off" THEN {} ELSE raw.cats,
     target            |-> IF IPIntelMode(raw) = "off" THEN 0 ELSE raw.target,
     protectAll        |-> ProtectAll(raw),
     protects          |-> UNION CompiledRules(raw)]
=============================================================================
