---------------------------- MODULE PowFilterProofs ----------------------------
(***************************************************************************)
(* What holds of PowFilter for any number of workers and streams, any      *)
(* secrets, clients, configurations and lifetimes, and without the bounds  *)
(* TLC needs.                                                              *)
(***************************************************************************)
EXTENDS PowFilter, DifficultyProofs

\* The resolved address is a normalised one or none (main.go:520-576).
LEMMA ResolveType ==
    ASSUME NEW c \in Config, NEW origin \in Origins
    PROVE  /\ ResolveClientIP(c, origin) \in MaybeIP
           /\ ResolveClientContext(c, origin) \in ClientContext
<1>1. /\ origin.peer \in MaybeIP /\ origin.xri \in MaybeIP /\ origin.conn \in MaybeConn
      /\ origin.xff \in Seq(MaybeIP)
    BY IdentityAssumption DEF Origin
<1>2. FirstForwardedIP(origin.xff) \in MaybeIP
    <2> DEFINE xff    == origin.xff
               usable == {i \in DOMAIN xff : xff[i] # NoIP}
               first  == {i \in usable : \A j \in usable : i <= j}
    <2>1. \A i \in DOMAIN xff : xff[i] \in MaybeIP
        BY <1>1
    <2>2. ASSUME first # {}
          PROVE  (CHOOSE i \in first : TRUE) \in DOMAIN xff
        <3>1. (CHOOSE i \in first : TRUE) \in first
            BY <2>2
        <3> QED
            BY <3>1
    <2>3. FirstForwardedIP(xff) = IF first = {} THEN NoIP ELSE xff[CHOOSE i \in first : TRUE]
        BY DEF FirstForwardedIP
    <2> QED
        BY <2>1, <2>2, <2>3 DEF MaybeIP
<1>3. ResolveClientIP(c, origin) \in MaybeIP
    BY <1>1, <1>2 DEF ResolveClientIP
<1> QED
    BY <1>1, <1>3 DEF ResolveClientContext, ClientContext

\* What a running worker works with.
LEMMA RunningType ==
    ASSUME TypeOK, NEW w \in Workers, Running(w)
    PROVE  plugin[w] \in Config
BY DEF TypeOK, DifficultyTypeOK, Running

LEMMA RequestType ==
    ASSUME TypeOK, NEW w \in Workers, Running(w), NEW r \in Requests
    PROVE  /\ ClientIP(plugin[w], r) \in MaybeIP
           /\ ResolveClientContext(plugin[w], r.origin) \in ClientContext
           /\ r.override \in Overrides
           /\ r.override \in Nat
           /\ r.clearance \in clearances \cup {NoToken}
           /\ r.solution # NoSolution => r.solution.challenge \in challenges
<1>1. /\ r.origin \in Origins /\ r.override \in Overrides
      /\ r.clearance \in clearances \cup {NoToken}
      /\ r.solution \in [challenge: challenges, solved: BOOLEAN] \cup {NoSolution}
    BY DEF Requests
<1> QED
    BY <1>1, RunningType, ResolveType, DifficultyAssumption DEF ClientIP

\* A challenge the filter issues is well formed, its difficulty a number.
LEMMA ElevationType ==
    ASSUME NEW c \in Config, NEW ip \in MaybeIP
    PROVE  Elevation(c, ip) \in {0, c.target} /\ Elevation(c, ip) \in Nat
BY DEF Elevation, VerdictElevation, Config

LEMMA ChallengeType ==
    ASSUME TypeOK, NEW w \in Workers, Running(w), NEW r \in Requests
    PROVE  LET c == plugin[w]
               diff == ChallengeDifficulty(w, r.override, Elevation(c, ClientIP(c, r)))
           IN  /\ diff \in Nat
               /\ GenerateChallenge(c.key, diff, ResolveClientContext(c, r.origin), now)
                    \in Challenge
<1> DEFINE c == plugin[w]
           ip == ClientIP(c, r)
           e == Elevation(c, ip)
           d == EffectiveDifficulty(w, r.override)
           diff == ChallengeDifficulty(w, r.override, e)
           client == ResolveClientContext(c, r.origin)
<1>1. c \in Config
    BY RunningType
<1>2. e \in Nat
    BY <1>1, RequestType, ElevationType
<1>3. d \in Nat
    BY RequestType, EffectiveType DEF TypeOK
<1>4. c.max \in Nat /\ c.key \in Keys
    BY <1>1 DEF Config
<1>5. diff \in Nat
    <2>1. Clamp(e, d, c.max) \in Nat
        BY <1>2, <1>3, <1>4, ClampInRange
    <2> QED
        BY <1>3, <2>1 DEF ChallengeDifficulty
<1>6. client \in ClientContext
    BY RequestType
<1>7. client.ip \in MaybeIP /\ client.conn \in MaybeConn
    BY <1>6 DEF ClientContext
<1>8. now + ChallengeLifetime \in Nat
    BY LifetimeAssumption DEF TypeOK
<1>9. (IF diff < 1 THEN DefaultDifficulty ELSE diff) \in Nat
    BY <1>5 DEF DefaultDifficulty
<1> HIDE DEF c, diff, client
<1>10. GenerateChallenge(c.key, diff, client, now) \in Challenge
    BY <1>4, <1>7, <1>8, <1>9 DEF GenerateChallenge, Challenge
<1> QED
    BY <1>5, <1>10 DEF c, diff, client

-----------------------------------------------------------------------------
(* The inductive invariant: types, plugins that come from deployed         *)
(* configurations, and every credential earned.  EarnedAccess itself is    *)
(* not inductive: it speaks only of the secrets of running workers, and a  *)
(* worker may start with any secret at any time.                           *)

Earned ==
    /\ \A token \in clearances :
         token.ip # NoIP => <<token.key, token.ip, token.ip>> \in earned
    /\ \A s \in Streams : streams[s] # NoStream =>
         (streams[s].ip # NoIP =>
            <<streams[s].cfg.key, streams[s].ip, streams[s].ip>> \in earned)

Inv == TypeOK /\ Deployed /\ Earned

LEMMA InvInit == Init => Inv
<1> SUFFICES ASSUME Init
             PROVE  Inv
    OBVIOUS
<1>1. DifficultyInv
    BY DifficultyInitInv DEF Init
<1>2. /\ now \in Nat
      /\ streams \in [Streams -> Stream \cup {NoStream}]
      /\ challenges \subseteq Challenge
      /\ clearances \subseteq Clearance
      /\ earned \subseteq Keys \X MaybeIP \X MaybeIP
    BY DEF Init
<1>3. Earned
    BY DEF Init, Earned
<1> QED
    BY <1>1, <1>2, <1>3 DEF Inv, TypeOK, DifficultyInv

\* Every step of the filter is a step of Difficulty or leaves it alone.
LEMMA DifficultySimulated == [Next]_vars => [DifficultyNext]_difficultyVars
<1> SUFFICES ASSUME [Next]_vars
             PROVE  [DifficultyNext]_difficultyVars
    OBVIOUS
<1>1. ASSUME NEW w \in Workers, NEW r \in Requests, IssueChallenge(w, r)
      PROVE  DifficultyNext
    BY <1>1 DEF IssueChallenge, DifficultyNext, Requests
<1>2. ASSUME NEW w \in Workers, NEW r \in Requests, FailOpen(w, r)
      PROVE  DifficultyNext
    BY <1>2 DEF FailOpen, DifficultyNext, Requests
<1>3. ASSUME NEW w \in Workers, Tick(w)
      PROVE  DifficultyNext
    BY <1>3 DEF Tick, DifficultyNext
<1>4. ASSUME NEW w \in Workers, NEW raw \in RawConfigs, StartPlugin(w, raw)
      PROVE  DifficultyNext
    BY <1>4 DEF StartPlugin, DifficultyNext
<1>5. ASSUME RestartHost
      PROVE  DifficultyNext
    BY <1>5 DEF RestartHost, DifficultyNext
<1>6. ASSUME NEW w \in Workers, NEW r \in Requests,
             \/ Forward(w, r)
             \/ \E s \in Streams : RenewClearance(s, w, r) \/ AcceptSolution(s, w, r)
      PROVE  UNCHANGED difficultyVars
    BY <1>6 DEF Forward, RenewClearance, AcceptSolution, vars, difficultyVars
<1>7. ASSUME (\E s \in Streams : OnHttpResponseHeaders(s)) \/ PassTime \/ UNCHANGED vars
      PROVE  UNCHANGED difficultyVars
    BY <1>7 DEF OnHttpResponseHeaders, MintClearance, LoseGrant, PassTime, vars, difficultyVars
<1> QED
    BY <1>1, <1>2, <1>3, <1>4, <1>5, <1>6, <1>7 DEF Next, OnHttpRequestHeaders

LEMMA DeployedKept == Inv /\ [Next]_vars => DifficultyTypeOK' /\ Deployed'
BY DifficultySimulated, DifficultyNextInv DEF Inv, TypeOK, DifficultyInv

-----------------------------------------------------------------------------
\* A stream is only given what the request earned.
LEMMA RenewKeeps ==
    ASSUME Inv, NEW w \in Workers, NEW r \in Requests, NEW s \in Streams,
           RenewClearance(s, w, r)
    PROVE  streams' \in [Streams -> Stream \cup {NoStream}] /\ Earned'
<1> DEFINE c == plugin[w]
           ip == ClientIP(c, r)
           new == [cfg |-> c, ip |-> ip, grant |-> "renew"]
<1>1. Running(w) /\ HasRenewable(c, r, now) /\ streams' = [streams EXCEPT ![s] = new]
    BY DEF RenewClearance
<1>2. c \in Config /\ ip \in MaybeIP
    BY <1>1, RunningType, RequestType DEF Inv
<1>3. new \in Stream
    BY <1>2 DEF Stream
<1>4. streams \in [Streams -> Stream \cup {NoStream}]
    BY DEF Inv, TypeOK
<1>5. ip # NoIP => <<c.key, ip, ip>> \in earned
    <2>1. r.clearance \in clearances /\ r.clearance.key = c.key
        BY <1>1, RequestType DEF HasRenewable, ParseClearance, Inv
    <2>2. ip # NoIP => r.clearance.ip = ip
        BY <1>1 DEF HasRenewable, ParseClearance
    <2> QED
        BY <2>1, <2>2 DEF Inv, Earned
<1>6. UNCHANGED <<clearances, earned>>
    BY DEF RenewClearance
<1> HIDE DEF c, ip
<1>7. ASSUME NEW t \in Streams, streams'[t] # NoStream, streams'[t].ip # NoIP
      PROVE  <<streams'[t].cfg.key, streams'[t].ip, streams'[t].ip>> \in earned
    <2>1. CASE t = s
        BY <1>1, <1>4, <1>5, <1>7, <2>1
    <2>2. CASE t # s
        BY <1>1, <1>4, <1>7, <2>2 DEF Inv, Earned
    <2> QED
        BY <2>1, <2>2
<1>8. Earned'
    BY <1>6, <1>7 DEF Inv, Earned
<1> QED
    BY <1>1, <1>3, <1>4, <1>8

LEMMA AcceptKeeps ==
    ASSUME Inv, NEW w \in Workers, NEW r \in Requests, NEW s \in Streams,
           AcceptSolution(s, w, r)
    PROVE  /\ streams' \in [Streams -> Stream \cup {NoStream}]
           /\ earned' \subseteq Keys \X MaybeIP \X MaybeIP
           /\ Earned'
<1> DEFINE c == plugin[w]
           ip == ClientIP(c, r)
           new == [cfg |-> c, ip |-> ip, grant |-> "issue"]
           issuedTo == r.solution.challenge.ip
<1>1. /\ Running(w) /\ HasSolution(c, r, now) /\ streams' = [streams EXCEPT ![s] = new]
      /\ earned' = earned \cup {<<c.key, issuedTo, ip>>}
      /\ UNCHANGED clearances
    BY DEF AcceptSolution
<1>2. c \in Config /\ ip \in MaybeIP
    BY <1>1, RunningType, RequestType DEF Inv
<1>3. new \in Stream /\ c.key \in Keys
    BY <1>2 DEF Stream, Config
<1>4. streams \in [Streams -> Stream \cup {NoStream}]
    BY DEF Inv, TypeOK
<1>5. issuedTo \in MaybeIP
    BY <1>1, RequestType DEF HasSolution, Inv, TypeOK, Challenge
<1>6. ip # NoIP => issuedTo = ip
    BY <1>1 DEF HasSolution, VerifySolution, MatchChallengeContext, ResolveClientContext, ClientIP
<1> HIDE DEF c, ip, issuedTo
<1>7. earned' \subseteq Keys \X MaybeIP \X MaybeIP
    BY <1>1, <1>2, <1>3, <1>5 DEF Inv, TypeOK
<1>8. ASSUME NEW t \in Streams, streams'[t] # NoStream, streams'[t].ip # NoIP
      PROVE  <<streams'[t].cfg.key, streams'[t].ip, streams'[t].ip>> \in earned'
    <2>1. CASE t = s
        BY <1>1, <1>4, <1>6, <1>8, <2>1
    <2>2. CASE t # s
        BY <1>1, <1>4, <1>8, <2>2 DEF Inv, Earned
    <2> QED
        BY <2>1, <2>2
<1>9. Earned'
    BY <1>1, <1>8 DEF Inv, Earned
<1> QED
    BY <1>1, <1>3, <1>4, <1>7, <1>9

\* The minted clearance is the one the stream was to be given.
LEMMA MintKeeps ==
    ASSUME Inv, NEW s \in Streams, MintClearance(s)
    PROVE  /\ streams' \in [Streams -> Stream \cup {NoStream}]
           /\ clearances' \subseteq Clearance
           /\ Earned'
<1> DEFINE new == GenerateClearance(streams[s].cfg.key, streams[s].ip, now)
<1>1. /\ streams[s] # NoStream
      /\ clearances' = clearances \cup {new}
      /\ streams' = [streams EXCEPT ![s] = NoStream]
      /\ UNCHANGED earned
    BY DEF MintClearance
<1>2. streams \in [Streams -> Stream \cup {NoStream}]
    BY DEF Inv, TypeOK
<1>3. streams[s].cfg.key \in Keys /\ streams[s].ip \in MaybeIP
    BY <1>1, <1>2 DEF Stream, Config
<1>4. new \in Clearance
    <2>1. now + ClearanceLifetime \in Nat
        BY LifetimeAssumption DEF Inv, TypeOK
    <2> QED
        BY <1>3, <2>1 DEF GenerateClearance, Clearance
<1>5. new.ip # NoIP => <<new.key, new.ip, new.ip>> \in earned
    BY <1>1 DEF GenerateClearance, Inv, Earned
<1> HIDE DEF new
<1>6. Earned'
    BY <1>1, <1>2, <1>5 DEF Inv, Earned
<1> QED
    BY <1>1, <1>2, <1>4, <1>6 DEF Inv, TypeOK

-----------------------------------------------------------------------------
LEMMA InvNext == Inv /\ [Next]_vars => Inv'
<1> SUFFICES ASSUME Inv, [Next]_vars
             PROVE  Inv'
    OBVIOUS
<1>1. DifficultyTypeOK' /\ Deployed'
    BY DeployedKept
<1> DEFINE RestOK == /\ now \in Nat
                     /\ streams \in [Streams -> Stream \cup {NoStream}]
                     /\ challenges \subseteq Challenge
                     /\ clearances \subseteq Clearance
                     /\ earned \subseteq Keys \X MaybeIP \X MaybeIP
<1>2. RestOK /\ Earned
    BY DEF Inv, TypeOK
<1>3. ASSUME UNCHANGED filterVars
      PROVE  RestOK' /\ Earned'
    BY <1>2, <1>3 DEF filterVars, Earned
<1>4. ASSUME NEW w \in Workers, NEW r \in Requests,
             Forward(w, r) \/ FailOpen(w, r)
      PROVE  UNCHANGED filterVars
    BY <1>4 DEF Forward, FailOpen, vars, filterVars
<1>5. ASSUME NEW w \in Workers, Tick(w) \/ \E raw \in RawConfigs : StartPlugin(w, raw)
      PROVE  UNCHANGED filterVars
    BY <1>5 DEF Tick, StartPlugin
<1>6. ASSUME UNCHANGED vars
      PROVE  UNCHANGED filterVars
    BY <1>6 DEF vars, filterVars
<1>7. ASSUME NEW w \in Workers, NEW r \in Requests, NEW s \in Streams,
             RenewClearance(s, w, r)
      PROVE  RestOK' /\ Earned'
    <2>1. UNCHANGED <<now, challenges, clearances, earned>>
        BY <1>7 DEF RenewClearance
    <2> QED
        BY <1>2, <1>7, <2>1, RenewKeeps
<1>8. ASSUME NEW w \in Workers, NEW r \in Requests, NEW s \in Streams,
             AcceptSolution(s, w, r)
      PROVE  RestOK' /\ Earned'
    <2>1. UNCHANGED <<now, challenges, clearances>>
        BY <1>8 DEF AcceptSolution
    <2> QED
        BY <1>2, <1>8, <2>1, AcceptKeeps
<1>9. ASSUME NEW w \in Workers, NEW r \in Requests, IssueChallenge(w, r)
      PROVE  RestOK' /\ Earned'
    <2>1. Running(w) /\ UNCHANGED <<now, streams, clearances, earned>>
        BY <1>9 DEF IssueChallenge
    <2>2. challenges' \subseteq Challenge
        BY <1>2, <1>9, <2>1, ChallengeType DEF IssueChallenge, Inv
    <2> QED
        BY <1>2, <2>1, <2>2 DEF Earned
<1>10. ASSUME NEW s \in Streams, MintClearance(s)
       PROVE  RestOK' /\ Earned'
    <2>1. UNCHANGED <<now, challenges, earned>>
        BY <1>10 DEF MintClearance
    <2> QED
        BY <1>2, <1>10, <2>1, MintKeeps
<1>11. ASSUME NEW s \in Streams, LoseGrant(s)
       PROVE  RestOK' /\ Earned'
    BY <1>2, <1>11 DEF LoseGrant, Earned
<1>12. ASSUME RestartHost
       PROVE  RestOK' /\ Earned'
    BY <1>2, <1>12 DEF RestartHost, Earned
<1>13. ASSUME PassTime
       PROVE  RestOK' /\ Earned'
    BY <1>2, <1>13 DEF PassTime, Earned
<1>14. RestOK' /\ Earned'
    BY <1>3, <1>4, <1>5, <1>6, <1>7, <1>8, <1>9, <1>10, <1>11, <1>12, <1>13
       DEF Next, OnHttpRequestHeaders, OnHttpResponseHeaders
<1> QED
    BY <1>1, <1>14 DEF Inv, TypeOK

\* Every credential, stream and plugin is well formed, for any numbers of them.
THEOREM TypeCorrect == Spec => []TypeOK
<1>1. Inv => TypeOK
    BY DEF Inv
<1> QED
    BY <1>1, InvInit, InvNext, PTL DEF Spec

\* Whatever a worker lets through or renews for a known address was earned from
\* that address, with a challenge issued to it, under that worker's own secret.
THEOREM EarnedAccessAlways == Spec => []EarnedAccess
<1>1. Inv => EarnedAccess
    <2> SUFFICES ASSUME Inv, NEW ip \in IPs
                 PROVE  /\ \A w \in Workers, token \in clearances :
                             Running(w) /\ ParseClearance(plugin[w].key, token, ip)
                                => <<plugin[w].key, ip, ip>> \in earned
                        /\ \A s \in Streams :
                             streams[s] # NoStream /\ streams[s].ip = ip
                                => <<streams[s].cfg.key, ip, ip>> \in earned
        BY DEF EarnedAccess
    <2>1. ip # NoIP
        BY IdentityAssumption
    <2> QED
        BY <2>1 DEF Inv, Earned, ParseClearance
<1> QED
    BY <1>1, InvInit, InvNext, PTL DEF Spec

-----------------------------------------------------------------------------
(* A lapse is final.                                                       *)

\* Nothing but the passing of time could keep a lapsed address alive, and it
\* does not.
LEMMA AliveMonotone ==
    ASSUME Inv, NEW key \in Keys, NEW ip \in IPs, Alive(key, ip)',
           clearances' \subseteq clearances, now' \in Nat, now <= now',
           \A s \in Streams : streams'[s] \in {streams[s], NoStream}
    PROVE  Alive(key, ip)
<1>1. CASE \E token \in clearances', raw \in RawConfigs :
             token.key = key /\ token.ip = ip /\ now' <= token.exp + RenewalWindow(raw)
    <2>1. PICK token \in clearances, raw \in RawConfigs :
             token.key = key /\ token.ip = ip /\ now' <= token.exp + RenewalWindow(raw)
        BY <1>1
    <2>2. token.exp \in Nat
        BY DEF Inv, TypeOK, Clearance
    <2>3. RenewalWindow(raw) \in Nat
        <3>1. raw.slidingRenewalTTL \in Int
            BY DifficultyAssumption DEF RawConfig
        <3> QED
            BY <3>1 DEF RenewalWindow
    <2>4. now \in Nat
        BY DEF Inv, TypeOK
    <2>5. now <= token.exp + RenewalWindow(raw)
        BY <2>1, <2>2, <2>3, <2>4
    <2> QED
        BY <2>1, <2>5 DEF Alive
<1>2. CASE \E s \in Streams :
             streams'[s] # NoStream /\ streams'[s].cfg.key = key /\ streams'[s].ip = ip
    BY <1>2 DEF Alive
<1> QED
    BY <1>1, <1>2 DEF Alive

\* A renewal finds its address alive.
LEMMA RenewFindsAlive ==
    ASSUME Inv, NEW w \in Workers, NEW r \in Requests, NEW s \in Streams,
           RenewClearance(s, w, r), ClientIP(plugin[w], r) \in IPs
    PROVE  Alive(plugin[w].key, ClientIP(plugin[w], r))
<1> DEFINE c == plugin[w]
           ip == ClientIP(c, r)
           token == r.clearance
<1>1. Running(w) /\ HasRenewable(c, r, now)
    BY DEF RenewClearance
<1>2. token \in clearances /\ token.key = c.key /\ token.ip = ip
    BY <1>1, RequestType, IdentityAssumption DEF HasRenewable, ParseClearance, Inv
<1>3. now - token.exp <= c.slidingRenewalTTL
    BY <1>1 DEF HasRenewable, ShouldRenewClearance
<1>4. PICK raw \in RawConfigs : c = Compile(raw)
    BY <1>1 DEF Inv, Deployed
<1>5. c.slidingRenewalTTL = RenewalWindow(raw)
    BY <1>4 DEF Compile
<1>6. token.exp \in Nat /\ now \in Nat /\ c.slidingRenewalTTL \in Nat
    BY <1>1, <1>2, RunningType DEF Inv, TypeOK, Clearance, Config
<1> HIDE DEF c, ip, token
<1>7. now <= token.exp + RenewalWindow(raw)
    BY <1>3, <1>5, <1>6
<1>8. Alive(c.key, ip)
    BY <1>2, <1>7 DEF Alive
<1> QED
    BY <1>8 DEF c, ip

\* A stream that is given something is the only one that changes.
LEMMA GrantAlive ==
    ASSUME Inv, NEW key \in Keys, NEW ip \in IPs, NEW s \in Streams, NEW new \in Stream,
           streams' = [streams EXCEPT ![s] = new], UNCHANGED <<now, clearances>>,
           Alive(key, ip)', ~ Alive(key, ip)
    PROVE  new.cfg.key = key /\ new.ip = ip
<1>1. streams \in [Streams -> Stream \cup {NoStream}]
    BY DEF Inv, TypeOK
<1>2. ~ \E token \in clearances', raw \in RawConfigs :
             token.key = key /\ token.ip = ip /\ now' <= token.exp + RenewalWindow(raw)
    BY DEF Alive
<1>3. PICK t \in Streams :
             streams'[t] # NoStream /\ streams'[t].cfg.key = key /\ streams'[t].ip = ip
    BY <1>2 DEF Alive
<1>4. CASE t = s
    BY <1>1, <1>3, <1>4
<1>5. CASE t # s
    BY <1>1, <1>3, <1>5 DEF Alive
<1> QED
    BY <1>4, <1>5

LEMMA RevivedStep == Inv /\ [Next]_vars => [RevivedByChallenge]_vars
<1> SUFFICES ASSUME Inv, [Next]_vars, NEW key \in Keys, NEW ip \in IPs,
                    ~ Alive(key, ip), Alive(key, ip)'
             PROVE  \E challenge \in challenges :
                        challenge.key = key /\ challenge.ip = ip /\ now <= challenge.exp
    BY DEF RevivedByChallenge
<1>1. now \in Nat /\ streams \in [Streams -> Stream \cup {NoStream}]
    BY DEF Inv, TypeOK
<1>2. ASSUME clearances' \subseteq clearances, now' \in Nat, now <= now',
             \A s \in Streams : streams'[s] \in {streams[s], NoStream}
      PROVE  FALSE
    BY <1>2, AliveMonotone
<1>3. ASSUME UNCHANGED <<now, streams, clearances>>
      PROVE  FALSE
    BY <1>1, <1>2, <1>3
<1>4. ASSUME NEW w \in Workers, NEW r \in Requests,
             Forward(w, r) \/ FailOpen(w, r) \/ IssueChallenge(w, r)
      PROVE  UNCHANGED <<now, streams, clearances>>
    BY <1>4 DEF Forward, FailOpen, IssueChallenge, vars, filterVars
<1>5. ASSUME NEW w \in Workers, Tick(w) \/ \E raw \in RawConfigs : StartPlugin(w, raw)
      PROVE  UNCHANGED <<now, streams, clearances>>
    BY <1>5 DEF Tick, StartPlugin, filterVars
<1>6. ASSUME NEW w \in Workers, NEW r \in Requests, NEW s \in Streams,
             RenewClearance(s, w, r)
      PROVE  FALSE
    <2> DEFINE new == [cfg |-> plugin[w], ip |-> ClientIP(plugin[w], r), grant |-> "renew"]
    <2>1. /\ Running(w)
          /\ streams' = [streams EXCEPT ![s] = new]
          /\ UNCHANGED <<now, clearances>>
        BY <1>6 DEF RenewClearance
    <2>2. new \in Stream
        BY <2>1, RunningType, RequestType DEF Inv, Stream
    <2>3. new.cfg.key = key /\ new.ip = ip
        <3> HIDE DEF new
        <3> QED
            BY <2>1, <2>2, GrantAlive
    <2>4. Alive(plugin[w].key, ClientIP(plugin[w], r))
        BY <1>6, <2>3, RenewFindsAlive
    <2> QED
        BY <2>3, <2>4
<1>7. ASSUME NEW w \in Workers, NEW r \in Requests, NEW s \in Streams,
             AcceptSolution(s, w, r)
      PROVE  \E challenge \in challenges :
                challenge.key = key /\ challenge.ip = ip /\ now <= challenge.exp
    <2> DEFINE new == [cfg |-> plugin[w], ip |-> ClientIP(plugin[w], r), grant |-> "issue"]
    <2>1. /\ Running(w) /\ HasSolution(plugin[w], r, now)
          /\ streams' = [streams EXCEPT ![s] = new]
          /\ UNCHANGED <<now, clearances>>
        BY <1>7 DEF AcceptSolution
    <2>2. new \in Stream
        BY <2>1, RunningType, RequestType DEF Inv, Stream
    <2>3. new.cfg.key = key /\ new.ip = ip
        <3> HIDE DEF new
        <3> QED
            BY <2>1, <2>2, GrantAlive
    <2>4. ip # NoIP
        BY IdentityAssumption
    <2>5. r.solution.challenge \in challenges
        BY <2>1, RequestType DEF Inv, HasSolution
    <2>6. /\ r.solution.challenge.key = key
          /\ r.solution.challenge.ip = ip
          /\ now <= r.solution.challenge.exp
        BY <2>1, <2>3, <2>4 DEF HasSolution, VerifySolution, MatchChallengeContext,
                               ResolveClientContext, ClientIP
    <2> QED
        BY <2>5, <2>6
<1>8. ASSUME NEW s \in Streams, MintClearance(s)
      PROVE  FALSE
    <2> DEFINE new == GenerateClearance(streams[s].cfg.key, streams[s].ip, now)
    <2>1. /\ streams[s] # NoStream
          /\ clearances' = clearances \cup {new}
          /\ streams' = [streams EXCEPT ![s] = NoStream]
          /\ now' = now
        BY <1>8 DEF MintClearance
    <2>2. ~ (streams[s].cfg.key = key /\ streams[s].ip = ip)
        BY <2>1 DEF Alive
    <2>3. ~ (new.key = key /\ new.ip = ip)
        BY <2>2 DEF GenerateClearance
    <2> HIDE DEF new
    <2>4. CASE \E token \in clearances', raw \in RawConfigs :
                 token.key = key /\ token.ip = ip /\ now' <= token.exp + RenewalWindow(raw)
        BY <2>1, <2>3, <2>4 DEF Alive
    <2>5. CASE \E t \in Streams :
                 streams'[t] # NoStream /\ streams'[t].cfg.key = key /\ streams'[t].ip = ip
        BY <1>1, <2>1, <2>5 DEF Alive
    <2> QED
        BY <2>4, <2>5 DEF Alive
<1>9. ASSUME NEW s \in Streams, LoseGrant(s)
      PROVE  FALSE
    BY <1>1, <1>2, <1>9 DEF LoseGrant
<1>10. ASSUME RestartHost
       PROVE  FALSE
    BY <1>1, <1>2, <1>10 DEF RestartHost
<1>11. ASSUME PassTime
       PROVE  FALSE
    <2>1. now' \in Nat /\ now <= now' /\ UNCHANGED <<streams, clearances>>
        BY <1>1, <1>11 DEF PassTime
    <2> QED
        BY <1>2, <2>1
<1>12. CASE UNCHANGED vars
    BY <1>3, <1>12 DEF vars
<1> QED
    BY <1>3, <1>4, <1>5, <1>6, <1>7, <1>8, <1>9, <1>10, <1>11, <1>12
       DEF Next, OnHttpRequestHeaders, OnHttpResponseHeaders

\* Once an address has nothing left within lifetime or window, only a challenge
\* issued to it within the last ChallengeLifetime gives it access again.
THEOREM LapseIsFinalAlways == Spec => LapseIsFinal
<1>1. Spec => [][RevivedByChallenge]_vars
    BY InvInit, InvNext, RevivedStep, PTL DEF Spec
<1> QED
    BY <1>1 DEF LapseIsFinal

-----------------------------------------------------------------------------
(* Difficulty of the issued challenges.                                    *)

LEMMA IssuedStep ==
    ASSUME RangesDeployed, Inv, IssuedInBounds, [Next]_vars
    PROVE  IssuedInBounds'
<1>1. ASSUME UNCHANGED challenges
      PROVE  IssuedInBounds'
    BY <1>1 DEF IssuedInBounds
<1>2. ASSUME NEW w \in Workers, NEW r \in Requests, IssueChallenge(w, r)
      PROVE  IssuedInBounds'
    <2> DEFINE c == plugin[w]
               ip == ClientIP(c, r)
               e == Elevation(c, ip)
               diff == ChallengeDifficulty(w, r.override, e)
               new == GenerateChallenge(c.key, diff, ResolveClientContext(c, r.origin), now)
    <2>1. Running(w) /\ challenges' = challenges \cup {new}
        BY <1>2 DEF IssueChallenge
    <2>2. OfferedInBounds
        BY InBoundsFromInv DEF Inv, TypeOK, DifficultyInv
    <2>3. c \in Config /\ ip \in MaybeIP /\ r.override \in Overrides
        BY <2>1, RunningType, RequestType DEF Inv
    <2>4. diff \in c.min..c.max
        <3>1. e \in Elevations(w)
            BY <2>3, ElevationType DEF Elevations
        <3> QED
            BY <2>1, <2>2, <2>3, <3>1 DEF OfferedInBounds
    <2>5. PICK raw \in RawConfigs : c = Compile(raw)
        BY <2>1 DEF Inv, Deployed
    <2>6. /\ raw.secret = c.key
          /\ c.min = MinDifficulty(raw) /\ c.max = MaxDifficulty(raw)
        BY <2>5 DEF Compile
    <2>7. MinDifficulty(raw) \in Nat /\ MinDifficulty(raw) >= 1 /\ MaxDifficulty(raw) \in Nat
        <3>1. raw.min \in Nat /\ raw.max \in Nat
            BY DifficultyAssumption DEF RawConfig
        <3> QED
            BY <3>1 DEF MinDifficulty, MaxDifficulty, OrDefault
    <2> HIDE DEF c, e, diff
    <2>8. new.key = c.key /\ new.diff = diff
        BY <2>4, <2>6, <2>7 DEF GenerateChallenge
    <2>9. raw.secret = new.key /\ new.diff \in MinDifficulty(raw)..MaxDifficulty(raw)
        BY <2>4, <2>6, <2>8
    <2> HIDE DEF new
    <2> QED
        BY <2>1, <2>9 DEF IssuedInBounds
<1>3. ASSUME NEW w \in Workers, NEW r \in Requests,
             \/ Forward(w, r) \/ FailOpen(w, r)
             \/ \E s \in Streams : RenewClearance(s, w, r) \/ AcceptSolution(s, w, r)
      PROVE  UNCHANGED challenges
    BY <1>3 DEF Forward, FailOpen, RenewClearance, AcceptSolution, vars, filterVars
<1>4. ASSUME NEW w \in Workers, Tick(w) \/ \E raw \in RawConfigs : StartPlugin(w, raw)
      PROVE  UNCHANGED challenges
    BY <1>4 DEF Tick, StartPlugin, filterVars
<1>5. ASSUME \/ \E s \in Streams : OnHttpResponseHeaders(s)
             \/ RestartHost \/ PassTime \/ UNCHANGED vars
      PROVE  UNCHANGED challenges
    BY <1>5 DEF OnHttpResponseHeaders, MintClearance, LoseGrant, RestartHost, PassTime, vars
<1> QED
    BY <1>1, <1>2, <1>3, <1>4, <1>5 DEF Next, OnHttpRequestHeaders

\* Where the deployed bounds are ranges, every challenge ever issued lies in the
\* bounds of a configuration with its secret.
THEOREM IssuedInBoundsAlways ==
    ASSUME RangesDeployed
    PROVE  Spec => []IssuedInBounds
<1>1. Init => IssuedInBounds
    BY DEF Init, IssuedInBounds
<1>2. Inv /\ IssuedInBounds /\ [Next]_vars => IssuedInBounds'
    BY IssuedStep
<1> QED
    BY <1>1, <1>2, InvInit, InvNext, PTL DEF Spec
=============================================================================
