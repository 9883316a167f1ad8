------------------------------- MODULE PowFilter -------------------------------
(***************************************************************************)
(* The filter: requests and responses of many streams over several worker  *)
(* VMs, the credentials they create, and the life of the plugin under them *)
(* (main.go).                                                              *)
(*                                                                         *)
(* A VM runs one callback at a time, so a callback is one step.  Between   *)
(* OnHttpRequestHeaders and OnHttpResponseHeaders of a stream anything may  *)
(* happen: time passes, other streams run, plugins start, the stream dies. *)
(* A stream is represented from the callback that leaves something for its *)
(* response to do; the response of any other stream changes no state.      *)
(* Credentials, once issued, are in the clients' hands for good: a request *)
(* may present any of them, from any origin.                               *)
(***************************************************************************)
EXTENDS Decisions, Difficulty, FiniteSets

CONSTANTS
    Streams,        \* streams that can be between request and response
    NoStream,       \* an unused stream
    MaxTime,        \* bound on now
    MaxChallenges,  \* bound on the number of different challenges issued
    MaxClearances   \* bound on the number of different clearances minted

\* What OnHttpRequestHeaders leaves in the httpHeaders context: the
\* pluginContext it came in with, the client, and which flag is set.
Stream == [cfg: Config, ip: MaybeIP, grant: {"issue", "renew"}]

ASSUME FilterAssumption ==
    /\ NoStream \notin Stream
    /\ MaxTime \in Nat /\ MaxChallenges \in Nat /\ MaxClearances \in Nat

VARIABLES
    now,         \* the clock, in seconds
    streams,     \* the streams waiting for their response headers
    challenges,  \* every challenge ever issued
    clearances,  \* every clearance ever minted
    earned       \* history: the solutions accepted, as <<key, address the challenge
                 \* was issued to, address the solution came from>>

filterVars == <<now, streams, challenges, clearances, earned>>
vars == <<now, streams, challenges, clearances, earned,
          plugin, currentDiff, challengeCounter, sharedDiff>>

TypeOK ==
    /\ DifficultyTypeOK
    /\ now \in Nat
    /\ streams \in [Streams -> Stream \cup {NoStream}]
    /\ challenges \subseteq Challenge
    /\ clearances \subseteq Clearance
    /\ earned \subseteq Keys \X MaybeIP \X MaybeIP

\* One solution stands for the cookie solution and the challenge-token header:
\* the code tries both, and does the same with the first that verifies.
Requests ==
    [origin: Origins, target: Targets, override: Overrides,
     clearance: clearances \cup {NoToken},
     solution: [challenge: challenges, solved: BOOLEAN] \cup {NoSolution}]

-----------------------------------------------------------------------------
(* OnHttpRequestHeaders on worker w.                                       *)

Forward(w, r) ==
    /\ Running(w)
    /\ GoesThrough(plugin[w], r, now)
    /\ UNCHANGED vars

RenewClearance(s, w, r) ==
    LET c == plugin[w] IN
    /\ Running(w) /\ streams[s] = NoStream
    /\ Protected(c, r) /\ HasRenewable(c, r, now)
    /\ streams' = [streams EXCEPT ![s] =
                     [cfg |-> c, ip |-> ClientIP(c, r), grant |-> "renew"]]
    /\ UNCHANGED <<now, challenges, clearances, earned, difficultyVars>>

AcceptSolution(s, w, r) ==
    LET c == plugin[w] IN
    /\ Running(w) /\ streams[s] = NoStream
    /\ Protected(c, r) /\ HasSolution(c, r, now)
    /\ streams' = [streams EXCEPT ![s] =
                     [cfg |-> c, ip |-> ClientIP(c, r), grant |-> "issue"]]
    /\ earned' = earned \cup {<<c.key, r.solution.challenge.ip, ClientIP(c, r)>>}
    /\ UNCHANGED <<now, challenges, clearances, difficultyVars>>

\* The 403 with a fresh challenge.
IssueChallenge(w, r) ==
    LET c    == plugin[w]
        diff == ChallengeDifficulty(w, r.override, Elevation(c, ClientIP(c, r)))
    IN
    /\ Running(w)
    /\ IsChallenged(c, r, now)
    /\ challenges' = challenges \cup
         {GenerateChallenge(c.key, diff, ResolveClientContext(c, r.origin), now)}
    /\ Cardinality(challenges') <= MaxChallenges
    /\ CountChallenge(w, r.override)
    /\ UNCHANGED <<now, streams, clearances, earned>>

\* The salt cannot be read: the request goes upstream, unproven and uncounted.
FailOpen(w, r) ==
    /\ Running(w)
    /\ IsChallenged(plugin[w], r, now)
    /\ AbandonChallenge(w, r.override)
    /\ UNCHANGED filterVars

-----------------------------------------------------------------------------
(* OnHttpResponseHeaders of stream s: the clearance is minted when the     *)
(* upstream answers, with the key of the plugin the request came in with.  *)

MintClearance(s) ==
    /\ streams[s] # NoStream
    /\ clearances' = clearances \cup
         {GenerateClearance(streams[s].cfg.key, streams[s].ip, now)}
    /\ Cardinality(clearances') <= MaxClearances
    /\ streams' = [streams EXCEPT ![s] = NoStream]
    /\ UNCHANGED <<now, challenges, earned, difficultyVars>>

\* The stream is reset before its response, or the salt cannot be read.
LoseGrant(s) ==
    /\ streams[s] # NoStream
    /\ streams' = [streams EXCEPT ![s] = NoStream]
    /\ UNCHANGED <<now, challenges, clearances, earned, difficultyVars>>

-----------------------------------------------------------------------------
(* The plugin and its host.  A stream keeps the pluginContext it came in   *)
(* with; a host that ends takes its streams along, not the clients' tokens. *)

Tick(w) == OnTick(w) /\ UNCHANGED filterVars

StartPlugin(w, raw) == OnPluginStart(w, raw) /\ UNCHANGED filterVars

RestartHost ==
    /\ HostRestart
    /\ streams' = [s \in Streams |-> NoStream]
    /\ UNCHANGED <<now, challenges, clearances, earned>>

PassTime ==
    /\ now < MaxTime
    /\ now' = now + 1
    /\ UNCHANGED <<streams, challenges, clearances, earned, difficultyVars>>

-----------------------------------------------------------------------------
Init ==
    /\ DifficultyInit
    /\ now = 0
    /\ streams = [s \in Streams |-> NoStream]
    /\ challenges = {} /\ clearances = {} /\ earned = {}

OnHttpRequestHeaders(w, r) ==
    \/ Forward(w, r)
    \/ \E s \in Streams : RenewClearance(s, w, r) \/ AcceptSolution(s, w, r)
    \/ IssueChallenge(w, r)
    \/ FailOpen(w, r)

OnHttpResponseHeaders(s) == MintClearance(s) \/ LoseGrant(s)

Next ==
    \/ \E w \in Workers :
        \/ \E r \in Requests : OnHttpRequestHeaders(w, r)
        \/ Tick(w)
        \/ \E raw \in RawConfigs : StartPlugin(w, raw)
    \/ \E s \in Streams : OnHttpResponseHeaders(s)
    \/ RestartHost
    \/ PassTime

Spec == Init /\ [][Next]_vars

-----------------------------------------------------------------------------
(* Properties.                                                             *)

\* What a worker would let through or renew for an address, and what a stream
\* is about to be given, was earned: under that worker's own secret a solution
\* was accepted from that address, of a challenge issued to that address.  No
\* chain of renewals, secret rotations, restarts or requests without a known
\* address turns a credential into one for somebody else (parseClearanceMAC
\* skips the binding when the address is unknown, and a renewal binds the new
\* token to the address of the request, main.go:351).
EarnedAccess ==
    \A ip \in IPs :
        /\ \A w \in Workers, token \in clearances :
             Running(w) /\ ParseClearance(plugin[w].key, token, ip)
                => <<plugin[w].key, ip, ip>> \in earned
        /\ \A s \in Streams :
             streams[s] # NoStream /\ streams[s].ip = ip
                => <<streams[s].cfg.key, ip, ip>> \in earned

\* Some token for the address is within its lifetime or within the window of
\* some deployed configuration, or a stream is about to be given one.
Alive(key, ip) ==
    \/ \E token \in clearances, raw \in RawConfigs :
         token.key = key /\ token.ip = ip /\ now <= token.exp + RenewalWindow(raw)
    \/ \E s \in Streams :
         streams[s] # NoStream /\ streams[s].cfg.key = key /\ streams[s].ip = ip

\* A lapse is final: once an address has nothing left within lifetime or
\* window, only a challenge issued to it within the last ChallengeLifetime
\* brings its access back, never an old clearance or an old solution
\* (verifySolutionMAC's expiry, shouldRenewClearance's window).
RevivedByChallenge ==
    \A key \in Keys, ip \in IPs :
        ~ Alive(key, ip) /\ Alive(key, ip)' =>
            \E challenge \in challenges :
                challenge.key = key /\ challenge.ip = ip /\ now <= challenge.exp

LapseIsFinal == [][RevivedByChallenge]_vars

\* Every challenge is as hard as the bounds of a configuration with its secret
\* allow, through header overrides, ipintel elevation, and difficulties left in
\* shared data by workers of another configuration (main.go:756).
IssuedInBounds ==
    \A challenge \in challenges : \E raw \in RawConfigs :
        /\ raw.secret = challenge.key
        /\ challenge.diff \in MinDifficulty(raw)..MaxDifficulty(raw)

-----------------------------------------------------------------------------
(* The promise.  A party is a secret and a known address; the credentials  *)
(* for it, issued by whichever worker, are what it holds.                  *)

Parties == Keys \X IPs

RenewalWindows ==
    [p \in Parties |-> {RenewalWindow(raw) : raw \in {r \in RawConfigs : r.secret = p[1]}}]

\* The seconds until the last of these tokens for the party is over.
Until(tokens, p) ==
    UNION {0..token.exp : token \in {t \in tokens : t.key = p[1] /\ t.ip = p[2]}}

Solvable == [p \in Parties |-> Until(challenges, p)]

Held == [p \in Parties |-> Until(clearances, p)]

Grantee(s) == <<streams[s].cfg.key, streams[s].ip>>

Granted == {Grantee(s) : s \in {t \in Streams : streams[t] # NoStream}} \cap Parties

Lease == INSTANCE AccessLease WITH
    Windows <- RenewalWindows, solvable <- Solvable, lease <- Held, granted <- Granted

\* The filter keeps its promise: over all workers, streams, rotations of the
\* secret, lost responses, restarts and requests without a known address, an
\* address gains access only by solving in time a challenge issued to it, or by
\* coming back within the window of a clearance it holds (main.go:296-411).
ImplementsLease == Lease!Spec
=============================================================================
