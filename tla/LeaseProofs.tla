------------------------------ MODULE LeaseProofs ------------------------------
(***************************************************************************)
(* The filter implements Difficulty and AccessLease, for any number of     *)
(* workers, streams, secrets, clients and configurations.                  *)
(***************************************************************************)
EXTENDS PowFilterProofs

\* The dynamic difficulty goes its own way under the traffic of the filter, so what
\* is proved of it alone holds of the filter (main.go:296, 213).
THEOREM DifficultyImplemented == Spec => DifficultySpec
<1>1. Init => DifficultyInit
    BY DEF Init
<1> QED
    BY <1>1, DifficultySimulated, PTL DEF Spec, DifficultySpec

-----------------------------------------------------------------------------
(* What the parties hold, and who is about to be given a lease, as the     *)
(* tokens and the streams say it.                                          *)

Holding(tokens) == [p \in Parties |-> Until(tokens, p)]

GrantedIn(open) ==
    {<<open[s].cfg.key, open[s].ip>> : s \in {t \in Streams : open[t] # NoStream}} \cap Parties

LEMMA Mapping ==
    /\ Solvable = Holding(challenges) /\ Solvable' = Holding(challenges')
    /\ Held = Holding(clearances) /\ Held' = Holding(clearances')
    /\ Granted = GrantedIn(streams) /\ Granted' = GrantedIn(streams')
BY DEF Solvable, Held, Granted, Grantee, Holding, GrantedIn

LEMMA UntilOne ==
    ASSUME NEW tokens, NEW t, NEW p
    PROVE  /\ t.key = p[1] /\ t.ip = p[2] =>
                Until(tokens \cup {t}, p) = Until(tokens, p) \cup 0..t.exp
           /\ ~ (t.key = p[1] /\ t.ip = p[2]) =>
                Until(tokens \cup {t}, p) = Until(tokens, p)
<1> DEFINE Of(T) == {u \in T : u.key = p[1] /\ u.ip = p[2]}
<1>1. CASE t.key = p[1] /\ t.ip = p[2]
    <2>1. Of(tokens \cup {t}) = Of(tokens) \cup {t}
        BY <1>1
    <2> HIDE DEF Of
    <2>2. UNION {0..u.exp : u \in Of(tokens) \cup {t}}
            = (UNION {0..u.exp : u \in Of(tokens)}) \cup 0..t.exp
        <3>1. \A x : x \in UNION {0..u.exp : u \in Of(tokens) \cup {t}}
                <=> x \in (UNION {0..u.exp : u \in Of(tokens)}) \cup 0..t.exp
            BY Zenon
        <3> QED
            BY <3>1, Zenon
    <2> QED
        BY <1>1, <2>1, <2>2 DEF Until, Of
<1>2. CASE ~ (t.key = p[1] /\ t.ip = p[2])
    <2>1. Of(tokens \cup {t}) = Of(tokens)
        BY <1>2
    <2> QED
        BY <1>2, <2>1 DEF Until
<1> QED
    BY <1>1, <1>2

\* One more token extends what its party holds.
LEMMA HoldingOne ==
    ASSUME NEW tokens, NEW t, t.key \in Keys
    PROVE  /\ t.ip \in IPs => Holding(tokens \cup {t}) =
                [Holding(tokens) EXCEPT ![<<t.key, t.ip>>] = @ \cup 0..t.exp]
           /\ t.ip \notin IPs => Holding(tokens \cup {t}) = Holding(tokens)
<1>1. ASSUME NEW p \in Parties
      PROVE  (t.key = p[1] /\ t.ip = p[2]) <=> p = <<t.key, t.ip>>
    BY DEF Parties
<1>2. ASSUME t.ip \in IPs
      PROVE  Holding(tokens \cup {t}) =
               [Holding(tokens) EXCEPT ![<<t.key, t.ip>>] = @ \cup 0..t.exp]
    <2>1. \A p \in Parties : Until(tokens \cup {t}, p) =
             IF p = <<t.key, t.ip>> THEN Until(tokens, p) \cup 0..t.exp ELSE Until(tokens, p)
        <3>1. ASSUME NEW p \in Parties, p = <<t.key, t.ip>>
              PROVE  Until(tokens \cup {t}, p) = Until(tokens, p) \cup 0..t.exp
            <4>1. t.key = p[1] /\ t.ip = p[2]
                BY <1>1, <3>1
            <4> QED
                BY <4>1, UntilOne
        <3>2. ASSUME NEW p \in Parties, p # <<t.key, t.ip>>
              PROVE  Until(tokens \cup {t}, p) = Until(tokens, p)
            <4>1. ~ (t.key = p[1] /\ t.ip = p[2])
                BY <1>1, <3>2
            <4> QED
                BY <4>1, UntilOne
        <3> QED
            BY <3>1, <3>2
    <2>2. /\ DOMAIN Holding(tokens) = Parties
          /\ \A p \in Parties : Holding(tokens)[p] = Until(tokens, p)
        BY DEF Holding
    <2>3. [Holding(tokens) EXCEPT ![<<t.key, t.ip>>] = @ \cup 0..t.exp]
            = [p \in Parties |-> IF p = <<t.key, t.ip>> THEN Until(tokens, p) \cup 0..t.exp
                                 ELSE Until(tokens, p)]
        BY <2>2
    <2> QED
        BY <2>1, <2>3 DEF Holding
<1>3. ASSUME t.ip \notin IPs
      PROVE  Holding(tokens \cup {t}) = Holding(tokens)
    <2>1. \A p \in Parties : p[2] # t.ip
        BY <1>3 DEF Parties
    <2>2. ASSUME NEW p \in Parties
          PROVE  Until(tokens \cup {t}, p) = Until(tokens, p)
        <3>1. ~ (t.key = p[1] /\ t.ip = p[2])
            BY <2>1
        <3> QED
            BY <3>1, UntilOne
    <2> QED
        BY <2>2 DEF Holding
<1> QED
    BY <1>2, <1>3

\* A stream that is given something adds its party, if the address is known.
LEMMA GrantedMore ==
    ASSUME NEW open \in [Streams -> Stream \cup {NoStream}], NEW s \in Streams,
           open[s] = NoStream, NEW new \in Stream
    PROVE  GrantedIn([open EXCEPT ![s] = new]) =
             GrantedIn(open) \cup ({<<new.cfg.key, new.ip>>} \cap Parties)
<1> DEFINE after == [open EXCEPT ![s] = new]
           Busy(o) == {t \in Streams : o[t] # NoStream}
<1>1. new # NoStream
    BY FilterAssumption
<1>2. after[s] = new /\ \A t \in Streams \ {s} : after[t] = open[t]
    OBVIOUS
<1>3. Busy(after) = Busy(open) \cup {s} /\ s \notin Busy(open)
    BY <1>1, <1>2
<1> HIDE DEF after
<1>4. {<<after[t].cfg.key, after[t].ip>> : t \in Busy(after)}
        = {<<open[t].cfg.key, open[t].ip>> : t \in Busy(open)} \cup {<<new.cfg.key, new.ip>>}
    BY <1>2, <1>3
<1>5. GrantedIn(after) = GrantedIn(open) \cup ({<<new.cfg.key, new.ip>>} \cap Parties)
    BY <1>4 DEF GrantedIn
<1> QED
    BY <1>5 DEF after

\* A stream that ends takes its party with it, unless another has the same.
LEMMA GrantedLess ==
    ASSUME NEW open \in [Streams -> Stream \cup {NoStream}], NEW s \in Streams,
           open[s] # NoStream
    PROVE  LET p == <<open[s].cfg.key, open[s].ip>>
           IN  /\ GrantedIn([open EXCEPT ![s] = NoStream])
                    \in {GrantedIn(open), GrantedIn(open) \ {p}}
               /\ p \in Parties => p \in GrantedIn(open)
               /\ p \notin Parties =>
                    GrantedIn([open EXCEPT ![s] = NoStream]) = GrantedIn(open)
<1> DEFINE after == [open EXCEPT ![s] = NoStream]
           p == <<open[s].cfg.key, open[s].ip>>
           Busy(o) == {t \in Streams : o[t] # NoStream}
           others == {<<open[t].cfg.key, open[t].ip>> : t \in Busy(open) \ {s}}
<1>1. after[s] = NoStream /\ \A t \in Streams \ {s} : after[t] = open[t]
    OBVIOUS
<1>2. Busy(after) = Busy(open) \ {s} /\ s \in Busy(open)
    BY <1>1
<1> HIDE DEF after
<1>3. {<<after[t].cfg.key, after[t].ip>> : t \in Busy(after)} = others
    BY <1>1, <1>2
<1>4. {<<open[t].cfg.key, open[t].ip>> : t \in Busy(open)} = others \cup {p}
    BY <1>2
<1>5. GrantedIn(after) = others \cap Parties
      /\ GrantedIn(open) = (others \cup {p}) \cap Parties
    BY <1>3, <1>4 DEF GrantedIn
<1> HIDE DEF others, p
<1>6. GrantedIn(after) \in {GrantedIn(open), GrantedIn(open) \ {p}}
    <2>1. CASE p \in others \/ p \notin Parties
        <3>1. GrantedIn(after) = GrantedIn(open)
            BY <1>5, <2>1
        <3> QED
            BY <3>1
    <2>2. CASE p \notin others
        <3>1. GrantedIn(after) = GrantedIn(open) \ {p}
            BY <1>5, <2>2
        <3> QED
            BY <3>1
    <2> QED
        BY <2>1, <2>2
<1>7. /\ p \in Parties => p \in GrantedIn(open)
      /\ p \notin Parties => GrantedIn(after) = GrantedIn(open)
    BY <1>5
<1> QED
    BY <1>6, <1>7 DEF after, p

-----------------------------------------------------------------------------
(* Every step of the filter is one of the abstract steps, or changes       *)
(* nothing of what they speak of.                                          *)

LEMMA LeaseInit == Init => Lease!Init
<1> SUFFICES ASSUME Init PROVE Lease!Init
    OBVIOUS
<1>1. \A p : Until({}, p) = {}
    BY DEF Until
<1>2. Solvable = [p \in Parties |-> {}] /\ Held = [p \in Parties |-> {}]
    BY <1>1 DEF Init, Solvable, Held
<1>3. Granted = {}
    BY DEF Init, Granted
<1> QED
    BY <1>2, <1>3 DEF Init, Lease!Init

\* A challenge issued to a known address, and one nobody can be held to.
LEMMA IssueStep ==
    ASSUME Inv, NEW w \in Workers, NEW r \in Requests, IssueChallenge(w, r)
    PROVE  (\E p \in Parties : Lease!Challenge(p)) \/ UNCHANGED Lease!leaseVars
<1> DEFINE c == plugin[w]
           diff == ChallengeDifficulty(w, r.override, Elevation(c, ClientIP(c, r)))
           client == ResolveClientContext(c, r.origin)
           new == GenerateChallenge(c.key, diff, client, now)
<1>1. /\ Running(w) /\ challenges' = challenges \cup {new}
      /\ UNCHANGED <<now, streams, clearances>>
    BY DEF IssueChallenge
<1>2. c \in Config /\ client \in ClientContext
    BY <1>1, RunningType, RequestType DEF Inv
<1>3. new.key \in Keys /\ new.exp = now + ChallengeLifetime
    BY <1>2 DEF GenerateChallenge, Config
<1> HIDE DEF new
<1>4. UNCHANGED <<now, Held, Granted>>
    BY <1>1, Mapping
<1>5. CASE new.ip \in IPs
    <2>1. Solvable' = [Solvable EXCEPT ![<<new.key, new.ip>>] = @ \cup 0..new.exp]
        BY <1>1, <1>3, <1>5, HoldingOne, Mapping
    <2>2. <<new.key, new.ip>> \in Parties
        BY <1>3, <1>5 DEF Parties
    <2> QED
        BY <1>3, <1>4, <2>1, <2>2 DEF Lease!Challenge
<1>6. CASE new.ip \notin IPs
    <2>1. Solvable' = Solvable
        BY <1>1, <1>3, <1>6, HoldingOne, Mapping
    <2> QED
        BY <1>4, <2>1 DEF Lease!leaseVars
<1> QED
    BY <1>5, <1>6

\* What stream s is about to be given, by AcceptSolution and RenewClearance.
LEMMA GiveStep ==
    ASSUME Inv, NEW s \in Streams, NEW new \in Stream,
           streams[s] = NoStream, streams' = [streams EXCEPT ![s] = new],
           UNCHANGED <<now, challenges, clearances>>
    PROVE  /\ UNCHANGED <<now, Solvable, Held>>
           /\ Granted' = Granted \cup ({<<new.cfg.key, new.ip>>} \cap Parties)
<1>1. UNCHANGED <<now, Solvable, Held>>
    BY Mapping
<1>2. streams \in [Streams -> Stream \cup {NoStream}]
    BY DEF Inv, TypeOK
<1> QED
    BY <1>1, <1>2, GrantedMore, Mapping

LEMMA AcceptStep ==
    ASSUME Inv, NEW w \in Workers, NEW r \in Requests, NEW s \in Streams,
           AcceptSolution(s, w, r)
    PROVE  (\E p \in Parties : Lease!Solve(p)) \/ UNCHANGED Lease!leaseVars
<1> DEFINE c == plugin[w]
           ip == ClientIP(c, r)
           new == [cfg |-> c, ip |-> ip, grant |-> "issue"]
           issued == r.solution.challenge
<1>1. /\ Running(w) /\ HasSolution(c, r, now) /\ streams[s] = NoStream
      /\ streams' = [streams EXCEPT ![s] = new]
      /\ UNCHANGED <<now, challenges, clearances>>
    BY DEF AcceptSolution
<1>2. c \in Config /\ ip \in MaybeIP
    BY <1>1, RunningType, RequestType DEF Inv
<1>3. new \in Stream /\ c.key \in Keys
    BY <1>2 DEF Stream, Config
<1>4. issued \in challenges
    BY <1>1, RequestType DEF Inv, HasSolution
<1>5. now <= issued.exp /\ issued.key = c.key /\ (ip # NoIP => issued.ip = ip)
    BY <1>1 DEF HasSolution, VerifySolution, MatchChallengeContext, ResolveClientContext,
                ClientIP
<1>6. issued.exp \in Nat /\ now \in Nat
    BY <1>4 DEF Inv, TypeOK, Challenge
<1>7. new.cfg.key = c.key /\ new.ip = ip
    OBVIOUS
<1> HIDE DEF c, ip, new, issued
<1>8. /\ UNCHANGED <<now, Solvable, Held>>
      /\ Granted' = Granted \cup ({<<c.key, ip>>} \cap Parties)
    BY <1>1, <1>3, <1>7, GiveStep
<1>9. CASE ip \in IPs
    <2>1. <<c.key, ip>> \in Parties
        BY <1>3, <1>9 DEF Parties
    <2>2. issued.ip = ip
        BY <1>5, <1>9, IdentityAssumption
    <2>3. now \in Until(challenges, <<c.key, ip>>)
        BY <1>4, <1>5, <1>6, <2>2 DEF Until
    <2>4. now \in Solvable[<<c.key, ip>>]
        BY <2>1, <2>3 DEF Solvable
    <2> QED
        BY <1>8, <2>1, <2>4 DEF Lease!Solve
<1>10. CASE ip \notin IPs
    <2>1. Granted' = Granted
        BY <1>8, <1>10 DEF Parties
    <2> QED
        BY <1>8, <2>1 DEF Lease!leaseVars
<1> QED
    BY <1>9, <1>10

LEMMA RenewStep ==
    ASSUME Inv, NEW w \in Workers, NEW r \in Requests, NEW s \in Streams,
           RenewClearance(s, w, r)
    PROVE  (\E p \in Parties : Lease!Renew(p)) \/ UNCHANGED Lease!leaseVars
<1> DEFINE c == plugin[w]
           ip == ClientIP(c, r)
           new == [cfg |-> c, ip |-> ip, grant |-> "renew"]
           token == r.clearance
<1>1. /\ Running(w) /\ HasRenewable(c, r, now) /\ streams[s] = NoStream
      /\ streams' = [streams EXCEPT ![s] = new]
      /\ UNCHANGED <<now, challenges, clearances>>
    BY DEF RenewClearance
<1>2. c \in Config /\ ip \in MaybeIP
    BY <1>1, RunningType, RequestType DEF Inv
<1>3. new \in Stream /\ c.key \in Keys
    BY <1>2 DEF Stream, Config
<1>4. token \in clearances /\ token.key = c.key /\ (ip # NoIP => token.ip = ip)
    BY <1>1, RequestType DEF HasRenewable, ParseClearance, Inv
<1>5. now - token.exp <= c.slidingRenewalTTL
    BY <1>1 DEF HasRenewable, ShouldRenewClearance
<1>6. PICK raw \in RawConfigs : c = Compile(raw)
    BY <1>1 DEF Inv, Deployed
<1>7. c.slidingRenewalTTL = RenewalWindow(raw) /\ raw.secret = c.key
    BY <1>6 DEF Compile
<1>8. token.exp \in Nat /\ now \in Nat /\ c.slidingRenewalTTL \in Nat
    BY <1>2, <1>4 DEF Inv, TypeOK, Clearance, Config
<1>9. new.cfg.key = c.key /\ new.ip = ip
    OBVIOUS
<1> HIDE DEF c, ip, new, token
<1>10. /\ UNCHANGED <<now, Solvable, Held>>
       /\ Granted' = Granted \cup ({<<c.key, ip>>} \cap Parties)
    BY <1>1, <1>3, <1>9, GiveStep
<1>11. CASE ip \in IPs
    <2> DEFINE p == <<c.key, ip>>
    <2>1. p \in Parties /\ p[1] = c.key /\ p[2] = ip
        BY <1>3, <1>11 DEF Parties
    <2>2. token.ip = ip
        BY <1>4, <1>11, IdentityAssumption
    <2> HIDE DEF p
    <2>3. token.exp \in Until(clearances, p)
        BY <1>4, <1>8, <2>1, <2>2 DEF Until
    <2>4. token.exp \in Held[p]
        BY <2>1, <2>3 DEF Held
    <2>5. RenewalWindow(raw) \in RenewalWindows[p]
        BY <1>7, <2>1 DEF RenewalWindows
    <2>6. now <= token.exp + RenewalWindow(raw)
        BY <1>5, <1>7, <1>8
    <2>7. Granted' = Granted \cup {p}
        BY <1>10, <2>1 DEF p
    <2> QED
        BY <1>10, <2>1, <2>4, <2>5, <2>6, <2>7 DEF Lease!Renew
<1>12. CASE ip \notin IPs
    <2>1. Granted' = Granted
        BY <1>10, <1>12 DEF Parties
    <2> QED
        BY <1>10, <2>1 DEF Lease!leaseVars
<1> QED
    BY <1>11, <1>12

LEMMA MintStep ==
    ASSUME Inv, NEW s \in Streams, MintClearance(s)
    PROVE  (\E p \in Parties : Lease!Grant(p)) \/ UNCHANGED Lease!leaseVars
<1> DEFINE key == streams[s].cfg.key
           ip == streams[s].ip
           new == GenerateClearance(key, ip, now)
<1>1. /\ streams[s] # NoStream /\ streams' = [streams EXCEPT ![s] = NoStream]
      /\ clearances' = clearances \cup {new}
      /\ UNCHANGED <<now, challenges>>
    BY DEF MintClearance
<1>2. streams \in [Streams -> Stream \cup {NoStream}]
    BY DEF Inv, TypeOK
<1>3. key \in Keys
    BY <1>1, <1>2 DEF Stream, Config
<1>4. new.key = key /\ new.ip = ip /\ new.exp = now + ClearanceLifetime
    BY DEF GenerateClearance
<1>5. /\ Granted' \in {Granted, Granted \ {<<key, ip>>}}
      /\ <<key, ip>> \in Parties => <<key, ip>> \in Granted
      /\ <<key, ip>> \notin Parties => Granted' = Granted
    BY <1>1, <1>2, GrantedLess, Mapping
<1> HIDE DEF key, ip, new
<1>6. UNCHANGED <<now, Solvable>>
    BY <1>1, Mapping
<1>7. CASE ip \in IPs
    <2>1. <<key, ip>> \in Parties
        BY <1>3, <1>7 DEF Parties
    <2>2. Held' = [Held EXCEPT ![<<key, ip>>] = @ \cup 0..(now + ClearanceLifetime)]
        BY <1>1, <1>3, <1>4, <1>7, HoldingOne, Mapping
    <2> QED
        BY <1>5, <1>6, <2>1, <2>2 DEF Lease!Grant
<1>8. CASE ip \notin IPs
    <2>1. <<key, ip>> \notin Parties
        BY <1>8 DEF Parties
    <2>2. Held' = Held
        BY <1>1, <1>3, <1>4, <1>8, HoldingOne, Mapping
    <2> QED
        BY <1>5, <1>6, <2>1, <2>2 DEF Lease!leaseVars
<1> QED
    BY <1>7, <1>8

LEMMA LeaseStep == Inv /\ [Next]_vars => [Lease!Next]_Lease!leaseVars
<1> SUFFICES ASSUME Inv, [Next]_vars
             PROVE  [Lease!Next]_Lease!leaseVars
    OBVIOUS
<1>1. ASSUME UNCHANGED filterVars
      PROVE  UNCHANGED Lease!leaseVars
    BY <1>1, Mapping DEF filterVars, Lease!leaseVars
<1>2. ASSUME NEW w \in Workers, NEW r \in Requests,
             Forward(w, r) \/ FailOpen(w, r)
      PROVE  UNCHANGED filterVars
    BY <1>2 DEF Forward, FailOpen, vars, filterVars
<1>3. ASSUME NEW w \in Workers, Tick(w) \/ \E raw \in RawConfigs : StartPlugin(w, raw)
      PROVE  UNCHANGED filterVars
    BY <1>3 DEF Tick, StartPlugin
<1>4. ASSUME UNCHANGED vars
      PROVE  UNCHANGED filterVars
    BY <1>4 DEF vars, filterVars
<1>5. ASSUME NEW w \in Workers, NEW r \in Requests, NEW s \in Streams,
             RenewClearance(s, w, r)
      PROVE  [Lease!Next]_Lease!leaseVars
    BY <1>5, RenewStep DEF Lease!Next
<1>6. ASSUME NEW w \in Workers, NEW r \in Requests, NEW s \in Streams,
             AcceptSolution(s, w, r)
      PROVE  [Lease!Next]_Lease!leaseVars
    BY <1>6, AcceptStep DEF Lease!Next
<1>7. ASSUME NEW w \in Workers, NEW r \in Requests, IssueChallenge(w, r)
      PROVE  [Lease!Next]_Lease!leaseVars
    BY <1>7, IssueStep DEF Lease!Next
<1>8. ASSUME NEW s \in Streams, MintClearance(s)
      PROVE  [Lease!Next]_Lease!leaseVars
    BY <1>8, MintStep DEF Lease!Next
<1>9. ASSUME NEW s \in Streams, LoseGrant(s)
      PROVE  Lease!Forget
    <2>1. /\ streams[s] # NoStream /\ streams' = [streams EXCEPT ![s] = NoStream]
          /\ UNCHANGED <<now, challenges, clearances>>
        BY <1>9 DEF LoseGrant
    <2>2. streams \in [Streams -> Stream \cup {NoStream}]
        BY DEF Inv, TypeOK
    <2>3. Granted' \in {Granted, Granted \ {<<streams[s].cfg.key, streams[s].ip>>}}
        BY <2>1, <2>2, GrantedLess, Mapping
    <2> QED
        BY <2>1, <2>3, Mapping DEF Lease!Forget
<1>10. ASSUME RestartHost
       PROVE  Lease!Forget
    <2>1. Granted' = {} /\ UNCHANGED <<now, challenges, clearances>>
        BY <1>10, Mapping DEF RestartHost, GrantedIn
    <2> QED
        BY <2>1, Mapping DEF Lease!Forget
<1>11. ASSUME PassTime
       PROVE  Lease!PassTime
    BY <1>11, Mapping DEF PassTime, Lease!PassTime
<1> QED
    BY <1>1, <1>2, <1>3, <1>4, <1>5, <1>6, <1>7, <1>8, <1>9, <1>10, <1>11
       DEF Next, OnHttpRequestHeaders, OnHttpResponseHeaders, Lease!Next

\* An address gains access only by solving in time a challenge issued to it, or by
\* coming back within the window of a clearance it holds, over all workers, streams,
\* rotations of the secret, lost responses and restarts (main.go:296-411).
THEOREM LeaseImplemented == Spec => ImplementsLease
<1>1. Spec => Lease!Spec
    BY InvInit, InvNext, LeaseInit, LeaseStep, PTL DEF Spec, Lease!Spec
<1> QED
    BY <1>1 DEF ImplementsLease

-----------------------------------------------------------------------------
(* What the implementation of Difficulty gives the filter.                 *)

\* Under the traffic of the filter, too, bumps do not add up and no worker follows
\* another's pressure (main.go:213-250, 767-786).
THEOREM FilterPressure ==
    ASSUME RangesDeployed
    PROVE  Spec => []OfferedInBounds /\ []BumpAtMostSix /\ OwnPressureOnly
BY DifficultyImplemented, OfferedInBoundsAlways, BumpAtMostSixAlways, OwnPressureOnlyAlways, PTL
================================================================================
