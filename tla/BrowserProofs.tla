----------------------------- MODULE BrowserProofs -----------------------------
(***************************************************************************)
(* What holds of Browser for any number of tabs, any lifetimes and any     *)
(* deployment, as long as the salts do not run out.                        *)
(***************************************************************************)
EXTENDS Browser, FiniteSetTheorems, TLAPS

\* There is always another salt (crypt.go:119 reads 32 random bytes).
SaltsLeft == ~ (Salts \subseteq SaltsInUse)

LEMMA ConfigType ==
    /\ config.key \in Keys /\ config.base \in Nat
    /\ config.slidingRenewalTTL \in Nat /\ config.renewalTTL \in Nat
<1>1. Deployment \in RawConfig /\ Deployment.secret # NoKey
    BY BrowserAssumption DEF StartsWith
<1>2. /\ Deployment.secret \in Keys
      /\ Deployment.base \in Nat /\ Deployment.min \in Nat /\ Deployment.max \in Nat
      /\ Deployment.slidingRenewalTTL \in Int /\ Deployment.renewalTTL \in Int
    BY <1>1 DEF RawConfig
<1>3. BaseDifficulty(Deployment) \in Nat
    BY <1>2 DEF MinDifficulty, MaxDifficulty, BaseDifficulty, OrDefault
<1>4. RenewalWindow(Deployment) \in Nat /\ RenewalMaxAge(Deployment) \in Nat
    BY <1>2 DEF RenewalWindow, RenewalMaxAge, RenewalTTLMultiple
<1> QED
    BY <1>2, <1>3, <1>4 DEF config, Compile

\* The filter sees the address of the browser, whatever it is configured to look at.
LEMMA HomeIdentity ==
    /\ HomeIP # NoIP
    /\ \A j : ClientIP(config, RequestWith(j)) = HomeIP
    /\ ResolveClientContext(config, HomeOrigin) = [ip |-> HomeIP, conn |-> conn]
    /\ \A j : ResolveClientContext(config, RequestWith(j).origin) = [ip |-> HomeIP, conn |-> conn]
<1>1. HomeIP # NoIP
    BY BrowserAssumption, IdentityAssumption
<1>2. ResolveClientIP(config, HomeOrigin) = HomeIP
    BY <1>1 DEF ResolveClientIP, HomeOrigin
<1>3. HomeOrigin.conn = conn
    BY DEF HomeOrigin
<1>4. \A j : RequestWith(j).origin = HomeOrigin
    BY DEF RequestWith
<1> QED
    BY <1>1, <1>2, <1>3, <1>4 DEF ClientIP, ResolveClientContext

-----------------------------------------------------------------------------
(* The invariant: types; what a tab works on or is about to be given is a  *)
(* challenge made for it, no further in the future than one lifetime.      *)

Made(challenge, time) ==
    /\ challenge \in SignedChallenge
    /\ challenge.token.key = config.key /\ challenge.token.ip = HomeIP
    /\ challenge.token.exp <= time + ChallengeLifetime

OwnWork ==
    \A t \in Tabs :
        /\ tabs[t].phase \in {"page", "solving"} =>
             Made(tabs[t].work, now) /\ tabs[t].answer = NoAnswer
        /\ tabs[t].answer # NoAnswer =>
             /\ tabs[t].phase \in {"loading", "confirming"}
             /\ tabs[t].answer.grant = "challenge" => Made(tabs[t].answer.challenge, now)
             /\ tabs[t].answer.grant = "renew" => config.slidingRenewalTTL > 0

\* The cookies j are those the filter made for the browser, and the challenge is
\* kept until it is over.
OwnJar(j, time) ==
    /\ j.challenge # NoCookie =>
         /\ Made(j.challenge.value, time)
         /\ j.challenge.value.token.exp <= j.challenge.until
    /\ j.clearance # NoCookie =>
         j.clearance.value.key = config.key /\ j.clearance.value.ip = HomeIP

Inv == BrowserTypeOK /\ OwnWork /\ OwnJar(jar, now)

LEMMA JarType ==
    /\ EmptyJar \in Jar
    /\ \A j \in Jar : \A c \in Cookies(SignedChallenge) :
         /\ [j EXCEPT !.nonce = c] \in Jar /\ [j EXCEPT !.challenge = c] \in Jar
         /\ [j EXCEPT !.nonce = c].challenge = j.challenge
         /\ [j EXCEPT !.nonce = c].clearance = j.clearance
         /\ [j EXCEPT !.nonce = c].nonce = c
         /\ [j EXCEPT !.challenge = c].challenge = c
    /\ \A j \in Jar : \A c \in Cookies(Clearance) :
         /\ [j EXCEPT !.clearance = c] \in Jar
         /\ [j EXCEPT !.clearance = c].clearance = c
         /\ [j EXCEPT !.clearance = c].challenge = j.challenge
BY DEF Jar, EmptyJar, Cookies

LEMMA FreshMade ==
    ASSUME BrowserTypeOK, SaltsLeft
    PROVE  /\ Made(FreshChallenge, now)
           /\ FreshChallenge.token.conn = conn
<1>1. (CHOOSE salt \in Salts : salt \notin SaltsInUse) \in Salts
    BY DEF SaltsLeft
<1>2. now + ChallengeLifetime \in Nat
    BY LifetimeAssumption DEF BrowserTypeOK
<1>3. (IF config.base < 1 THEN DefaultDifficulty ELSE config.base) \in Nat
    BY ConfigType DEF DefaultDifficulty
<1> DEFINE token == GenerateChallenge(config.key, config.base,
                                      ResolveClientContext(config, HomeOrigin), now)
<1>4. token = [key |-> config.key, ip |-> HomeIP, conn |-> conn,
               exp |-> now + ChallengeLifetime,
               diff |-> IF config.base < 1 THEN DefaultDifficulty ELSE config.base]
    BY HomeIdentity DEF GenerateChallenge
<1>5. HomeIP \in MaybeIP /\ conn \in MaybeConn
    BY BrowserAssumption DEF BrowserTypeOK, MaybeIP, MaybeConn
<1>6. token \in Challenge
    BY <1>2, <1>3, <1>4, <1>5, ConfigType DEF Challenge
<1>7. FreshChallenge.token = token /\ FreshChallenge \in SignedChallenge
    BY <1>1, <1>6 DEF FreshChallenge, SignedChallenge
<1> QED
    BY <1>2, <1>4, <1>7 DEF Made

\* What the filter makes of a request.
LEMMA AnswerMade ==
    ASSUME BrowserTypeOK, SaltsLeft, NEW r, NEW answer \in AnswersTo(r)
    PROVE  /\ answer \in Answer /\ answer # NoAnswer
           /\ answer.grant = "challenge" =>
                Made(answer.challenge, now) /\ IsChallenged(config, r, now)
           /\ answer.grant = "renew" => config.slidingRenewalTTL > 0
<1>1. PICK g \in Grants :
        /\ answer = Answering(g)
        /\ g = "renew" => HasRenewable(config, r, now)
        /\ g = "challenge" => IsChallenged(config, r, now)
    BY DEF AnswersTo
<1>2. Made(FreshChallenge, now)
    BY FreshMade
<1>3. now \in Nat
    BY DEF BrowserTypeOK
<1>4. answer \in Answer
    BY <1>1, <1>2, <1>3 DEF Answering, Answer, Made
<1>5. answer.grant = g /\ (g = "challenge" => answer.challenge = FreshChallenge)
    BY <1>1 DEF Answering
<1>6. g = "renew" => config.slidingRenewalTTL > 0
    BY <1>1 DEF HasRenewable, ShouldRenewClearance
<1> QED
    BY <1>1, <1>2, <1>4, <1>5, <1>6, BrowserAssumption

\* Time makes nothing that was made in time too late.
LEMMA MadeLater ==
    ASSUME NEW challenge, NEW m \in Nat, NEW n \in Nat, m <= n, Made(challenge, m)
    PROVE  Made(challenge, n)
<1>1. challenge.token.exp \in Nat
    BY DEF Made, SignedChallenge, Challenge
<1> QED
    BY <1>1, LifetimeAssumption DEF Made

LEMMA InvInit == Init => Inv
<1> SUFFICES ASSUME Init PROVE Inv
    OBVIOUS
<1>1. Cardinality({}) = 0
    BY FS_EmptySet
<1>2. [phase |-> "idle", work |-> NoChallenge, answer |-> NoAnswer] \in Tab
    BY DEF Tab, Phases
<1>3. BrowserTypeOK
    BY <1>1, <1>2, JarType DEF Init, BrowserTypeOK
<1>4. OwnWork /\ OwnJar(jar, now)
    BY DEF Init, OwnWork, OwnJar, EmptyJar
<1> QED
    BY <1>3, <1>4 DEF Inv

\* One tab goes on, and what it is left with is as it should be.
LEMMA TabStep ==
    ASSUME Inv, NEW t \in Tabs, NEW tab \in Tab,
           tabs' = [tabs EXCEPT ![t] = tab], now' = now, conn' = conn,
           jar' \in Jar, OwnJar(jar', now),
           cleared' \in SUBSET Nat, Cardinality(cleared') <= 1,
           active' \in SUBSET Nat, Cardinality(active') <= 1,
           tab.phase \in {"page", "solving"} => Made(tab.work, now) /\ tab.answer = NoAnswer,
           tab.answer # NoAnswer =>
             /\ tab.phase \in {"loading", "confirming"}
             /\ tab.answer.grant = "challenge" => Made(tab.answer.challenge, now)
             /\ tab.answer.grant = "renew" => config.slidingRenewalTTL > 0
    PROVE  Inv'
<1>1. tabs \in [Tabs -> Tab]
    BY DEF Inv, BrowserTypeOK
<1>2. BrowserTypeOK'
    BY <1>1 DEF Inv, BrowserTypeOK
<1>3. \A u \in Tabs : tabs'[u] = IF u = t THEN tab ELSE tabs[u]
    BY <1>1
<1>4. OwnWork'
    BY <1>3 DEF Inv, OwnWork
<1> QED
    BY <1>2, <1>4 DEF Inv

LEMMA SendStep ==
    ASSUME Inv, SaltsLeft, NEW t \in Tabs, NEW j \in Jar, OwnJar(j, now),
           NEW phase \in {"loading", "confirming"}, Send(t, j, phase)
    PROVE  Inv'
<1>1. PICK answer \in AnswersTo(RequestWith(j)) :
        tabs' = [tabs EXCEPT ![t] =
                    [phase |-> phase, work |-> NoChallenge, answer |-> answer]]
    BY DEF Send
<1>2. /\ answer \in Answer /\ answer # NoAnswer
      /\ answer.grant = "challenge" => Made(answer.challenge, now)
      /\ answer.grant = "renew" => config.slidingRenewalTTL > 0
    BY AnswerMade DEF Inv
<1> DEFINE tab == [phase |-> phase, work |-> NoChallenge, answer |-> answer]
<1>3. tab \in Tab
    BY <1>2 DEF Tab, Phases
<1> QED
    BY <1>1, <1>2, <1>3, TabStep DEF Send, Inv, BrowserTypeOK

\* A history holds one time at most.
LEMMA OneTime == \A n \in Nat : {n} \in SUBSET Nat /\ Cardinality({n}) <= 1
<1>1. \A n \in Nat : Cardinality({n}) = 1
    BY FS_Singleton
<1> QED
    BY <1>1

LEMMA StartStep ==
    ASSUME Inv, NEW t \in Tabs, StartSolving(t)
    PROVE  Inv'
<1>1. CASE jar.challenge = NoCookie
    <2> DEFINE tab == [phase |-> "failed", work |-> NoChallenge, answer |-> NoAnswer]
    <2>1. tab \in Tab
        BY DEF Tab, Phases
    <2> QED
        BY <1>1, <2>1, TabStep DEF StartSolving, Inv, BrowserTypeOK
<1>2. CASE jar.challenge # NoCookie
    <2> DEFINE tab == [phase |-> "solving", work |-> jar.challenge.value, answer |-> NoAnswer]
    <2>1. Made(jar.challenge.value, now)
        BY <1>2 DEF Inv, OwnJar
    <2>2. tab \in Tab
        BY <2>1 DEF Tab, Phases, Made
    <2> QED
        BY <1>2, <2>1, <2>2, TabStep DEF StartSolving, Inv, BrowserTypeOK
<1> QED
    BY <1>1, <1>2

LEMMA SolveStep ==
    ASSUME Inv, SaltsLeft, NEW t \in Tabs, Solve(t)
    PROVE  Inv'
<1> DEFINE nonce == Stored(tabs[t].work, ChallengeLifetime)
           j == [jar EXCEPT !.nonce = nonce]
<1>1. jar \in Jar /\ now + ChallengeLifetime \in Nat /\ Made(tabs[t].work, now)
    BY LifetimeAssumption DEF Inv, BrowserTypeOK, OwnWork, Solve
<1>2. nonce \in Cookies(SignedChallenge)
    BY <1>1 DEF Stored, Cookies, Made
<1>3. j \in Jar /\ j.challenge = jar.challenge /\ j.clearance = jar.clearance
    BY <1>1, <1>2, JarType
<1>4. OwnJar(j, now)
    BY <1>3 DEF OwnJar, Inv
<1> QED
    BY <1>3, <1>4, SendStep DEF Solve

LEMMA ChallengeStored ==
    ASSUME Inv, NEW challenge, Made(challenge, now)
    PROVE  LET j == JarAfterChallenge(challenge) IN
           /\ j \in Jar /\ OwnJar(j, now)
           /\ j.challenge # NoCookie /\ j.challenge.value = challenge
           /\ j.challenge.until = now + ChallengeLifetime
           /\ j.clearance = NoCookie
<1> DEFINE c == ChallengeCookie(challenge)
           j == JarAfterChallenge(challenge)
<1>1. now + ChallengeLifetime \in Nat /\ challenge \in SignedChallenge
    BY LifetimeAssumption DEF Inv, BrowserTypeOK, Made
<1>2. c = [value |-> challenge, until |-> now + ChallengeLifetime]
    BY DEF ChallengeCookie, Stored
<1>3. c \in Cookies(SignedChallenge) /\ c # NoCookie
    BY <1>1, <1>2, BrowserAssumption DEF Cookies
<1>4. j \in Jar /\ j.challenge = c
    BY <1>3, JarType DEF JarAfterChallenge
<1>5. j.clearance = NoCookie
    BY DEF JarAfterChallenge, EmptyJar
<1>6. OwnJar(j, now)
    BY <1>2, <1>4, <1>5 DEF OwnJar, Made
<1> QED
    BY <1>2, <1>3, <1>4, <1>5, <1>6

\* A clearance comes with the solve cookies taken away, or left as they were.
LEMMA GrantStored ==
    ASSUME Inv, NEW grant \in Grants, NEW minted \in BOOLEAN
    PROVE  LET j == JarAfterGrant(grant, minted) IN
           /\ j \in Jar /\ OwnJar(j, now)
           /\ ~ minted => j = jar
           /\ minted =>
                /\ j.clearance # NoCookie
                /\ j.clearance.value \in Clearance
                /\ j.clearance.value.exp = now + ClearanceLifetime
                /\ j.clearance.until =
                     now + IF grant = "renew" THEN config.renewalTTL ELSE ClearanceLifetime
<1> DEFINE c == ClearanceCookie(grant)
           kept == IF grant = "issue" THEN EmptyJar ELSE jar
           j == JarAfterGrant(grant, minted)
           age == IF grant = "renew" THEN config.renewalTTL ELSE ClearanceLifetime
           token == [key |-> config.key, ip |-> HomeIP, exp |-> now + ClearanceLifetime]
<1>1. now + ClearanceLifetime \in Nat /\ now + age \in Nat
    BY LifetimeAssumption, ConfigType DEF Inv, BrowserTypeOK
<1>2. token \in Clearance
    BY <1>1, ConfigType, BrowserAssumption DEF Clearance, MaybeIP
<1>3. c = [value |-> token, until |-> now + age]
    BY DEF ClearanceCookie, Stored, GenerateClearance
<1>4. c \in Cookies(Clearance) /\ c # NoCookie
    BY <1>1, <1>2, <1>3, BrowserAssumption DEF Cookies
<1>5. kept \in Jar /\ OwnJar(kept, now)
    BY JarType DEF Inv, BrowserTypeOK, OwnJar, EmptyJar
<1>6. CASE minted
    <2>1. j = [kept EXCEPT !.clearance = c]
        BY <1>6 DEF JarAfterGrant
    <2>2. j \in Jar /\ j.clearance = c /\ j.challenge = kept.challenge
        BY <1>4, <1>5, <2>1, JarType
    <2>3. OwnJar(j, now)
        BY <1>3, <1>5, <2>2 DEF OwnJar
    <2>4. c.value = token /\ c.until = now + age /\ token.exp = now + ClearanceLifetime
        BY <1>3
    <2> HIDE DEF c, token
    <2> QED
        BY <1>2, <1>4, <1>6, <2>2, <2>3, <2>4
<1>7. CASE ~ minted
    BY <1>7 DEF JarAfterGrant, Inv, BrowserTypeOK
<1> QED
    BY <1>6, <1>7

LEMMA ReceiveStep ==
    ASSUME Inv, NEW t \in Tabs, ReceiveChallenge(t)
    PROVE  Inv'
<1> DEFINE answer == tabs[t].answer
           tab == IF tabs[t].phase = "loading"
                  THEN [phase |-> "page", work |-> answer.challenge, answer |-> NoAnswer]
                  ELSE [phase |-> "confirmed", work |-> NoChallenge, answer |-> NoAnswer]
<1>1. Made(answer.challenge, now) /\ answer.challenge \in SignedChallenge
    BY DEF ReceiveChallenge, Inv, OwnWork, Made
<1>2. tab \in Tab
    BY <1>1 DEF Tab, Phases
<1>3. jar' \in Jar /\ OwnJar(jar', now)
    BY <1>1, ChallengeStored DEF ReceiveChallenge
<1>4. tabs' = [tabs EXCEPT ![t] = tab]
    BY DEF ReceiveChallenge
<1>5. tab.answer = NoAnswer /\ (tab.phase = "page" => tab.work = answer.challenge)
      /\ tab.phase # "solving"
    OBVIOUS
<1> HIDE DEF tab
<1> QED
    BY <1>1, <1>2, <1>3, <1>4, <1>5, TabStep DEF ReceiveChallenge, Inv, BrowserTypeOK

LEMMA PageStep ==
    ASSUME Inv, NEW t \in Tabs, ReceivePage(t)
    PROVE  Inv'
<1> DEFINE answer == tabs[t].answer
           tab == [phase  |-> IF tabs[t].phase = "loading" THEN "served" ELSE "confirmed",
                   work   |-> NoChallenge, answer |-> NoAnswer]
<1>1. answer.grant \in Grants /\ answer.at \in Nat
    BY DEF ReceivePage, Inv, BrowserTypeOK, Tab, Answer
<1>2. tab \in Tab
    BY DEF Tab, Phases
<1>3. jar' \in Jar /\ OwnJar(jar', now)
    BY <1>1, GrantStored DEF ReceivePage
<1>4. now + ClearanceLifetime \in Nat
    BY LifetimeAssumption DEF Inv, BrowserTypeOK
<1>5. cleared' \in SUBSET Nat /\ Cardinality(cleared') <= 1
    BY <1>4, OneTime DEF ReceivePage, Inv, BrowserTypeOK
<1>6. active' \in SUBSET Nat /\ Cardinality(active') <= 1
    BY <1>1, OneTime DEF ReceivePage, Inv, BrowserTypeOK
<1>7. tabs' = [tabs EXCEPT ![t] = tab]
    BY DEF ReceivePage
<1> QED
    BY <1>2, <1>3, <1>5, <1>6, <1>7, TabStep DEF ReceivePage

LEMMA LeaveStep ==
    ASSUME Inv, NEW t \in Tabs, GiveUp(t) \/ Lose(t)
    PROVE  Inv'
<1>1. PICK phase \in {"failed", "idle", "confirmed"} :
        tabs' = [tabs EXCEPT ![t] =
                   [phase |-> phase, work |-> NoChallenge, answer |-> NoAnswer]]
    BY DEF GiveUp, Lose
<1>2. [phase |-> phase, work |-> NoChallenge, answer |-> NoAnswer] \in Tab
    BY DEF Tab, Phases
<1>3. UNCHANGED <<now, conn, jar, cleared, active>>
    BY DEF GiveUp, Lose
<1> QED
    BY <1>1, <1>2, <1>3, TabStep DEF Inv, BrowserTypeOK

\* Time takes cookies away and changes none.
LEMMA AgedStep ==
    ASSUME Inv, PassTime
    PROVE  /\ Inv'
           /\ \A name \in {"challenge", "clearance"} :
                /\ jar'[name] \in {jar[name], NoCookie}
                /\ jar[name] # NoCookie /\ now' <= jar[name].until => jar'[name] = jar[name]
<1>1. /\ now \in Nat /\ now' \in Nat /\ now <= now'
      /\ jar \in Jar
    BY DEF Inv, BrowserTypeOK, PassTime
<1>2. DOMAIN jar = {"challenge", "nonce", "clearance"}
    BY <1>1 DEF Jar
<1>3. /\ jar' = [name \in {"challenge", "nonce", "clearance"} |->
           IF HonoursMaxAge /\ jar[name] # NoCookie /\ jar[name].until < now' THEN NoCookie
           ELSE jar[name]]
    BY <1>2 DEF PassTime
<1>4. jar' \in Jar
    BY <1>1, <1>3 DEF Jar, Cookies
<1>5. \A name \in {"challenge", "nonce", "clearance"} : jar'[name] \in {jar[name], NoCookie}
    BY <1>3
<1>6. \A name \in {"challenge", "clearance"} :
        jar[name] # NoCookie /\ now' <= jar[name].until => jar'[name] = jar[name]
    <2>1. \A name \in {"challenge", "clearance"} : jar[name] # NoCookie => jar[name].until \in Nat
        BY <1>1 DEF Jar, Cookies
    <2> QED
        BY <1>1, <1>3, <2>1
<1>7. \A challenge : Made(challenge, now) => Made(challenge, now')
    BY <1>1, MadeLater
<1>8. OwnJar(jar', now')
    BY <1>5, <1>7 DEF OwnJar, Inv
<1>9. OwnWork'
    BY <1>7 DEF OwnWork, Inv, PassTime
<1>10. BrowserTypeOK'
    BY <1>1, <1>4 DEF PassTime, Inv, BrowserTypeOK
<1> QED
    BY <1>5, <1>6, <1>8, <1>9, <1>10 DEF Inv

LEMMA InvNext == Inv /\ SaltsLeft /\ [Next]_vars => Inv'
<1> SUFFICES ASSUME Inv, SaltsLeft, [Next]_vars PROVE Inv'
    OBVIOUS
<1>1. ASSUME NEW t \in Tabs, Navigate(t) \/ Reload(t) PROVE Inv'
    BY <1>1, SendStep DEF Navigate, Reload, Inv, BrowserTypeOK
<1>2. ASSUME NEW t \in Tabs, Proceed(t) PROVE Inv'
    BY <1>1, <1>2, StartStep, SolveStep, ReceiveStep, PageStep DEF Proceed
<1>3. CASE Reconnect
    BY <1>3 DEF Reconnect, Inv, BrowserTypeOK, OwnWork
<1>4. CASE PassTime
    BY <1>4, AgedStep
<1>5. CASE UNCHANGED vars
    BY <1>5 DEF vars, Inv, BrowserTypeOK, OwnWork
<1> QED
    BY <1>1, <1>2, <1>3, <1>4, <1>5, LeaveStep DEF Next

\* The cookies, the tabs and the answers on their way stay well formed (main.go:441-488,
\* challenge.html:121-151), for any number of tabs.
THEOREM BrowserTypeCorrect == Spec /\ []SaltsLeft => []BrowserTypeOK
<1>1. Inv => BrowserTypeOK
    BY DEF Inv
<1> QED
    BY <1>1, InvInit, InvNext, PTL DEF Spec

-----------------------------------------------------------------------------
(* A page that lost its challenge.  While the challenge of a tab that has  *)
(* not read it yet is in force, the jar has one that lasts as long, or a   *)
(* clearance that does.  A challenge is no longer in force when one answer *)
(* after it is.                                                            *)

\* A clearance, new or renewed, is kept as long as a challenge can be solved: 30
\* minutes, and 60 s with the defaults, for 60 s (crypt.go:20-34).
KeptLongEnough ==
    /\ ChallengeLifetime <= ClearanceLifetime
    /\ config.slidingRenewalTTL > 0 => ChallengeLifetime <= config.renewalTTL

Kept(j, end) ==
    \/ j.challenge # NoCookie /\ end <= j.challenge.until
    \/ j.clearance # NoCookie /\ end <= j.clearance.until /\ end <= j.clearance.value.exp

PageKept ==
    \A t \in Tabs :
        tabs[t].phase = "page" /\ now <= tabs[t].work.token.exp =>
            Kept(jar, tabs[t].work.token.exp)

\* Only a challenge puts a tab on the page, with what it is to work on.
LEMMA PageWork ==
    ASSUME Inv, [Next]_vars, NEW t \in Tabs, tabs'[t].phase = "page"
    PROVE  \/ tabs[t].phase = "page" /\ tabs'[t].work = tabs[t].work
           \/ ReceiveChallenge(t) /\ tabs'[t].work = tabs[t].answer.challenge
<1>1. tabs \in [Tabs -> Tab]
    BY DEF Inv, BrowserTypeOK
<1>2. ASSUME NEW u \in Tabs, Navigate(u) \/ Solve(u) \/ Reload(u)
      PROVE  tabs[t].phase = "page" /\ tabs'[t].work = tabs[t].work
    <2>1. PICK phase, answer :
            /\ phase \in {"loading", "confirming"}
            /\ tabs' = [tabs EXCEPT ![u] = [phase |-> phase, work |-> NoChallenge, answer |-> answer]]
        BY <1>2 DEF Navigate, Solve, Reload, Send
    <2> QED
        BY <1>1, <2>1
<1>3. ASSUME NEW u \in Tabs, ReceiveChallenge(u)
      PROVE  \/ tabs[t].phase = "page" /\ tabs'[t].work = tabs[t].work
             \/ ReceiveChallenge(t) /\ tabs'[t].work = tabs[t].answer.challenge
    BY <1>1, <1>3 DEF ReceiveChallenge
<1>4. ASSUME NEW u \in Tabs, StartSolving(u) \/ ReceivePage(u) \/ GiveUp(u) \/ Lose(u)
      PROVE  tabs[t].phase = "page" /\ tabs'[t].work = tabs[t].work
    BY <1>1, <1>4 DEF StartSolving, ReceivePage, GiveUp, Lose
<1>5. CASE Reconnect \/ PassTime \/ UNCHANGED vars
    BY <1>5 DEF Reconnect, PassTime, vars
<1> QED
    BY <1>2, <1>3, <1>4, <1>5 DEF Next, Proceed

LEMMA KeptNext ==
    ASSUME KeptLongEnough, Inv, SaltsLeft, PageKept, [Next]_vars
    PROVE  PageKept'
<1> SUFFICES ASSUME NEW t \in Tabs, tabs'[t].phase = "page", now' <= tabs'[t].work.token.exp
             PROVE  Kept(jar', tabs'[t].work.token.exp)
    BY DEF PageKept
<1> DEFINE end == tabs'[t].work.token.exp
<1>1. Inv'
    BY InvNext
<1>2. Made(tabs'[t].work, now') /\ end \in Nat /\ now \in Nat
    BY <1>1 DEF Inv, OwnWork, BrowserTypeOK, Made, SignedChallenge, Challenge
<1>3. CASE \E u \in Tabs : ReceiveChallenge(u)
    <2>1. PICK u \in Tabs : ReceiveChallenge(u)
        BY <1>3
    <2>2. Made(tabs[u].answer.challenge, now)
        BY <2>1 DEF Inv, OwnWork, ReceiveChallenge
    <2>3. jar'.challenge # NoCookie /\ jar'.challenge.until = now + ChallengeLifetime
        BY <2>1, <2>2, ChallengeStored DEF ReceiveChallenge
    <2>4. now' = now
        BY <2>1 DEF ReceiveChallenge
    <2> QED
        BY <1>2, <2>3, <2>4 DEF Kept, Made
<1>4. CASE ~ (\E u \in Tabs : ReceiveChallenge(u))
    <2>1. tabs[t].phase = "page" /\ tabs'[t].work = tabs[t].work
        BY <1>4, PageWork
    <2>2. now <= now'
        <3>1. now' = now \/ now' = now + 1
            BY DEF Next, Proceed, Navigate, Solve, Reload, Send, StartSolving, ReceivePage,
                   ReceiveChallenge, GiveUp, Lose, Reconnect, PassTime, vars
        <3> QED
            BY <1>2, <3>1
    <2>3. now <= end
        BY <1>1, <1>2, <2>2 DEF Inv, BrowserTypeOK
    <2>4. Kept(jar, end)
        BY <2>1, <2>3 DEF PageKept
    <2>5. CASE jar'.challenge = jar.challenge /\ jar'.clearance = jar.clearance
        BY <2>4, <2>5 DEF Kept
    <2>6. ASSUME NEW u \in Tabs, Solve(u)
          PROVE  jar'.challenge = jar.challenge /\ jar'.clearance = jar.clearance
        <3>1. jar \in Jar /\ Stored(tabs[u].work, ChallengeLifetime) \in Cookies(SignedChallenge)
            BY <2>6, LifetimeAssumption
               DEF Solve, Inv, OwnWork, Made, BrowserTypeOK, Stored, Cookies
        <3> QED
            BY <2>6, <3>1, JarType DEF Solve, Send
    <2>7. ASSUME NEW u \in Tabs, ReceivePage(u)
          PROVE  Kept(jar', end)
        <3>1. PICK minted \in BOOLEAN :
                /\ minted => tabs[u].answer.grant \in {"issue", "renew"}
                /\ jar' = JarAfterGrant(tabs[u].answer.grant, minted)
            BY <2>7 DEF ReceivePage
        <3>2. /\ tabs[u].answer.grant \in Grants
              /\ tabs[u].answer.grant = "renew" => config.slidingRenewalTTL > 0
              /\ now' = now
            BY <2>7 DEF ReceivePage, Inv, OwnWork, BrowserTypeOK, Tab, Answer
        <3>3. CASE minted
            <4>1. /\ jar'.clearance # NoCookie
                  /\ jar'.clearance.value.exp = now + ClearanceLifetime
                  /\ jar'.clearance.until =
                       now + IF tabs[u].answer.grant = "renew" THEN config.renewalTTL
                             ELSE ClearanceLifetime
                BY <3>1, <3>2, <3>3, GrantStored
            <4>2. end <= now + ChallengeLifetime
                BY <1>2, <3>2 DEF Made
            <4> QED
                BY <1>2, <3>2, <4>1, <4>2, ConfigType, LifetimeAssumption DEF KeptLongEnough, Kept
        <3>4. CASE ~ minted
            BY <2>4, <3>1, <3>2, <3>4, GrantStored
        <3> QED
            BY <3>3, <3>4
    <2>8. CASE PassTime
        <3>1. jar[ "challenge" ] = jar.challenge /\ jar[ "clearance" ] = jar.clearance
            OBVIOUS
        <3>2. /\ jar \in Jar
              /\ jar.challenge # NoCookie => jar.challenge.until \in Nat
              /\ jar.clearance # NoCookie => jar.clearance.until \in Nat
            BY DEF Inv, BrowserTypeOK, Jar, Cookies
        <3>3. now' \in Nat /\ now' <= end
            BY <1>1 DEF Inv, BrowserTypeOK
        <3>4. /\ jar.challenge # NoCookie /\ now' <= jar.challenge.until
                    => jar'.challenge = jar.challenge
              /\ jar.clearance # NoCookie /\ now' <= jar.clearance.until
                    => jar'.clearance = jar.clearance
            BY <2>8, AgedStep
        <3> QED
            BY <1>2, <2>4, <3>2, <3>3, <3>4 DEF Kept
    <2>9. CASE Reconnect \/ UNCHANGED vars
               \/ \E u \in Tabs : Navigate(u) \/ Reload(u) \/ StartSolving(u) \/ GiveUp(u) \/ Lose(u)
        <3>1. jar' = jar
            BY <2>9 DEF Reconnect, vars, Navigate, Reload, Send, StartSolving, GiveUp, Lose
        <3> QED
            BY <2>5, <3>1
    <2> QED
        BY <1>4, <2>5, <2>6, <2>7, <2>8, <2>9 DEF Next, Proceed
<1> QED
    BY <1>3, <1>4

\* Whatever else happens between, a page fails to find its challenge only when the
\* challenge is over, or when another tab got in and loading again goes through
\* (challenge.html:88), for any number of tabs.
THEOREM LostChallengeMeansClearedAlways ==
    ASSUME KeptLongEnough
    PROVE  Spec /\ []SaltsLeft => LostChallengeMeansCleared
<1> DEFINE Step == \A t \in Tabs :
        tabs[t].phase = "page" /\ tabs'[t].phase = "failed" =>
            \/ now > tabs[t].work.token.exp
            \/ HasClearance(config, RequestWith(jar), now)
<1>1. Init => PageKept
    BY DEF Init, PageKept
<1>2. ASSUME Inv, PageKept, [Next]_vars, NEW t \in Tabs,
             tabs[t].phase = "page", tabs'[t].phase = "failed",
             ~ (now > tabs[t].work.token.exp)
      PROVE  HasClearance(config, RequestWith(jar), now)
    <2> DEFINE end == tabs[t].work.token.exp
    <2>1. tabs \in [Tabs -> Tab] /\ tabs[t].answer = NoAnswer /\ end \in Nat /\ now \in Nat
        BY <1>2 DEF Inv, BrowserTypeOK, OwnWork, Made, SignedChallenge, Challenge
    <2>2. StartSolving(t) /\ jar.challenge = NoCookie
        <3>1. tabs' # tabs
            BY <1>2
        <3>2. PICK u \in Tabs : Navigate(u) \/ Proceed(u) \/ GiveUp(u) \/ Lose(u)
            BY <1>2, <3>1 DEF Next, Reconnect, PassTime, vars
        <3>3. u = t
            <4>1. \A v \in Tabs : v # u => tabs'[v] = tabs[v]
                BY <2>1, <3>2 DEF Navigate, Proceed, Solve, Reload, Send, StartSolving,
                                  ReceiveChallenge, ReceivePage, GiveUp, Lose
            <4> QED
                BY <1>2, <4>1
        <3>4. StartSolving(t)
            BY <1>2, <2>1, <3>2, <3>3
               DEF Navigate, Proceed, Solve, Reload, ReceiveChallenge, ReceivePage, GiveUp, Lose
        <3> QED
            BY <1>2, <2>1, <3>4 DEF StartSolving
    <2>3. /\ jar.clearance # NoCookie /\ end <= jar.clearance.value.exp
          /\ jar.clearance.value.key = config.key /\ jar.clearance.value.ip = HomeIP
          /\ jar.clearance.value \in Clearance
        BY <1>2, <2>1, <2>2 DEF PageKept, Kept, Inv, OwnJar, BrowserTypeOK, Jar, Cookies
    <2>4. RequestWith(jar).clearance = jar.clearance.value
        BY <2>3 DEF RequestWith
    <2>5. jar.clearance.value.exp \in Nat /\ now <= jar.clearance.value.exp
        BY <1>2, <2>1, <2>3 DEF Clearance
    <2> QED
        BY <2>3, <2>4, <2>5, HomeIdentity, TokenAssumption DEF HasClearance, ParseClearance
<1>3. Inv /\ PageKept /\ [Next]_vars => [Step]_vars
    BY <1>2
<1>4. Inv /\ SaltsLeft /\ PageKept /\ [Next]_vars => PageKept'
    BY KeptNext
<1> HIDE DEF Step
<1>5. Spec /\ []SaltsLeft => [][Step]_vars
    BY <1>1, <1>3, <1>4, InvInit, InvNext, PTL DEF Spec
<1> QED
    BY <1>5 DEF Step, LostChallengeMeansCleared

-----------------------------------------------------------------------------
(* A tab alone.  Only with another tab can the cookies change between what *)
(* the filter gave and what the page sends.                                *)

WithNonce(t) == [jar EXCEPT !.nonce = Stored(tabs[t].work, ChallengeLifetime)]

LEMMA NonceType ==
    ASSUME Inv, NEW t \in Tabs, tabs[t].phase = "solving"
    PROVE  /\ WithNonce(t).challenge = jar.challenge
           /\ WithNonce(t).clearance = jar.clearance
           /\ WithNonce(t).nonce # NoCookie /\ WithNonce(t).nonce.value = tabs[t].work
<1> DEFINE nonce == Stored(tabs[t].work, ChallengeLifetime)
<1>1. jar \in Jar /\ now + ChallengeLifetime \in Nat /\ tabs[t].work \in SignedChallenge
    BY LifetimeAssumption DEF Inv, BrowserTypeOK, OwnWork, Made
<1>2. nonce \in Cookies(SignedChallenge) /\ nonce # NoCookie /\ nonce.value = tabs[t].work
    BY <1>1, BrowserAssumption DEF Stored, Cookies
<1> HIDE DEF nonce
<1> QED
    BY <1>1, <1>2, JarType DEF WithNonce, nonce

\* Who is challenged has sent a request that shows no proof.
LEMMA ChallengedSends ==
    ASSUME Inv, SaltsLeft, [Next]_vars, NEW t \in Tabs, Challenged(t)
    PROVE  \/ tabs[t].phase # "solving" /\ IsChallenged(config, RequestWith(jar), now)
           \/ tabs[t].phase = "solving" /\ IsChallenged(config, RequestWith(WithNonce(t)), now)
<1>1. tabs \in [Tabs -> Tab]
    BY DEF Inv, BrowserTypeOK
<1>2. PICK u \in Tabs : Navigate(u) \/ Proceed(u) \/ GiveUp(u) \/ Lose(u)
    BY DEF Challenged, Next, Reconnect, PassTime, vars
<1>3. u = t
    <2>1. \A v \in Tabs : v # u => tabs'[v] = tabs[v]
        BY <1>1, <1>2 DEF Navigate, Proceed, Solve, Reload, Send, StartSolving,
                          ReceiveChallenge, ReceivePage, GiveUp, Lose
    <2> QED
        BY <2>1 DEF Challenged
<1>4. Navigate(t) \/ Reload(t) \/ Solve(t)
    BY <1>1, <1>2, <1>3
       DEF Challenged, Proceed, StartSolving, ReceiveChallenge, ReceivePage, GiveUp, Lose
<1>5. ASSUME NEW j, NEW phase, Send(t, j, phase)
      PROVE  IsChallenged(config, RequestWith(j), now)
    <2>1. PICK answer \in AnswersTo(RequestWith(j)) :
            tabs' = [tabs EXCEPT ![t] =
                        [phase |-> phase, work |-> NoChallenge, answer |-> answer]]
        BY <1>5 DEF Send
    <2>2. tabs'[t].answer = answer
        BY <1>1, <2>1
    <2> QED
        BY <2>2, AnswerMade DEF Challenged, Inv
<1> QED
    BY <1>4, <1>5 DEF Navigate, Reload, Solve, WithNonce

\* The jar holds what the page is to solve, or is solving, until it is over.
WorkKept ==
    \A t \in Tabs :
        tabs[t].phase \in {"page", "solving"} /\ now <= tabs[t].work.token.exp =>
            jar.challenge # NoCookie /\ jar.challenge.value = tabs[t].work

LEMMA WorkKeptNext ==
    ASSUME NEW t, Tabs = {t}, Inv, SaltsLeft, WorkKept, [Next]_vars
    PROVE  WorkKept'
<1> SUFFICES ASSUME tabs'[t].phase \in {"page", "solving"}, now' <= tabs'[t].work.token.exp
             PROVE  jar'.challenge # NoCookie /\ jar'.challenge.value = tabs'[t].work
    BY DEF WorkKept
<1>1. tabs \in [Tabs -> Tab] /\ t \in Tabs /\ now \in Nat
    BY DEF Inv, BrowserTypeOK
<1>2. CASE ReceiveChallenge(t)
    <2>1. Made(tabs[t].answer.challenge, now)
        BY <1>1, <1>2 DEF Inv, OwnWork, ReceiveChallenge
    <2>2. jar'.challenge # NoCookie /\ jar'.challenge.value = tabs[t].answer.challenge
        BY <1>2, <2>1, ChallengeStored DEF ReceiveChallenge
    <2>3. tabs'[t].work = tabs[t].answer.challenge
        BY <1>1, <1>2 DEF ReceiveChallenge
    <2> QED
        BY <2>2, <2>3
<1>3. CASE StartSolving(t)
    BY <1>1, <1>3 DEF StartSolving
<1>4. CASE PassTime
    <2>1. tabs' = tabs /\ now' = now + 1
        BY <1>4 DEF PassTime
    <2>2. tabs[t].work.token.exp \in Nat
        BY <1>1, <2>1 DEF Inv, OwnWork, Made, SignedChallenge, Challenge
    <2>3. /\ jar.challenge # NoCookie /\ jar.challenge.value = tabs[t].work
          /\ tabs[t].work.token.exp <= jar.challenge.until
        BY <1>1, <2>1, <2>2 DEF WorkKept, Inv, OwnJar
    <2>4. jar.challenge.until \in Nat
        BY <2>3 DEF Inv, BrowserTypeOK, Jar, Cookies
    <2>5. now' <= jar.challenge.until
        BY <1>1, <2>1, <2>2, <2>3, <2>4
    <2>6. jar'.challenge = jar.challenge
        BY <1>4, <2>3, <2>5, AgedStep
    <2> QED
        BY <2>1, <2>3, <2>6
<1>5. CASE Reconnect \/ UNCHANGED vars
    BY <1>1, <1>5 DEF Reconnect, vars, WorkKept
<1>6. CASE Navigate(t) \/ Solve(t) \/ Reload(t)
    <2>1. PICK phase, answer :
            /\ phase \in {"loading", "confirming"}
            /\ tabs' = [tabs EXCEPT ![t] = [phase |-> phase, work |-> NoChallenge, answer |-> answer]]
        BY <1>6 DEF Navigate, Solve, Reload, Send
    <2> QED
        BY <1>1, <2>1
<1>7. CASE ReceivePage(t) \/ GiveUp(t) \/ Lose(t)
    BY <1>1, <1>7 DEF ReceivePage, GiveUp, Lose
<1> QED
    BY <1>2, <1>3, <1>4, <1>5, <1>6, <1>7 DEF Next, Proceed

\* "After solve + reload: passes through to backend" (README.md:182): a tab that has
\* the browser for itself and solves its challenge in time, on the connection it was
\* issued to, is not challenged when it confirms.
THEOREM SolvedGetsInAlone ==
    ASSUME NEW only, Tabs = {only}
    PROVE  Spec /\ []SaltsLeft => SolvedGetsIn
<1> DEFINE Step == \A t \in Tabs :
        tabs[t].phase = "solving" /\ Challenged(t) =>
            \/ now > tabs[t].work.token.exp
            \/ conn # tabs[t].work.token.conn
<1>1. Init => WorkKept
    BY DEF Init, WorkKept
<1>2. ASSUME Inv, SaltsLeft, WorkKept, [Next]_vars, NEW u \in Tabs,
             tabs[u].phase = "solving", Challenged(u),
             ~ (now > tabs[u].work.token.exp), conn = tabs[u].work.token.conn
      PROVE  FALSE
    <2> DEFINE work == tabs[u].work
               r == RequestWith(WithNonce(u))
    <2>1. /\ work \in SignedChallenge /\ work.token \in Challenge
          /\ work.token.key = config.key /\ work.token.ip = HomeIP
          /\ work.token.exp \in Nat /\ now \in Nat
        BY <1>2 DEF Inv, BrowserTypeOK, OwnWork, Made, SignedChallenge, Challenge
    <2>2. jar.challenge # NoCookie /\ jar.challenge.value = work
        BY <1>2, <2>1 DEF WorkKept
    <2>3. r.solution = [challenge |-> work.token, solved |-> TRUE]
        <3>1. /\ WithNonce(u).challenge # NoCookie /\ WithNonce(u).nonce # NoCookie
              /\ WithNonce(u).challenge.value = work /\ WithNonce(u).nonce.value = work
            BY <1>2, <2>2, NonceType
        <3> QED
            BY <3>1 DEF RequestWith
    <2>4. r.solution # NoSolution
        <3>1. [challenge |-> work.token, solved |-> TRUE] \in Solution
            BY <2>1 DEF Solution
        <3> QED
            BY <2>3, <3>1, DecisionAssumption
    <2>5. VerifySolution(config.key, r.solution,
                         ResolveClientContext(config, r.origin), now)
        BY <1>2, <2>1, <2>3, HomeIdentity DEF VerifySolution, MatchChallengeContext
    <2>6. IsChallenged(config, r, now)
        BY <1>2, ChallengedSends
    <2> QED
        BY <2>4, <2>5, <2>6 DEF IsChallenged, HasNoProof, HasSolution
<1>3. Inv /\ SaltsLeft /\ WorkKept /\ [Next]_vars => [Step]_vars
    BY <1>2
<1>4. Inv /\ SaltsLeft /\ WorkKept /\ [Next]_vars => WorkKept'
    BY WorkKeptNext
<1> HIDE DEF Step
<1>5. Spec /\ []SaltsLeft => [][Step]_vars
    BY <1>1, <1>3, <1>4, InvInit, InvNext, PTL DEF Spec
<1> QED
    BY <1>5, PTL DEF Step, SolvedGetsIn

\* A clearance lasts, in the jar, as long as the browser was given it for, and no
\* challenge is on its way.
ClearanceKept ==
    \A end \in cleared : now <= end =>
        /\ jar.clearance # NoCookie
        /\ end <= jar.clearance.until /\ end <= jar.clearance.value.exp
        /\ \A t \in Tabs : tabs[t].answer # NoAnswer => tabs[t].answer.grant # "challenge"

LEMMA ClearanceShown ==
    ASSUME Inv, NEW end \in Nat, now <= end, NEW j,
           j.clearance = jar.clearance, jar.clearance # NoCookie,
           end <= jar.clearance.value.exp
    PROVE  ~ IsChallenged(config, RequestWith(j), now)
<1>1. /\ jar.clearance.value \in Clearance
      /\ jar.clearance.value.key = config.key /\ jar.clearance.value.ip = HomeIP
      /\ now \in Nat
    BY DEF Inv, BrowserTypeOK, OwnJar, Jar, Cookies
<1>2. now <= jar.clearance.value.exp
    BY <1>1 DEF Clearance
<1>3. RequestWith(j).clearance = jar.clearance.value
    BY DEF RequestWith
<1> QED
    BY <1>1, <1>2, <1>3, HomeIdentity, TokenAssumption
       DEF IsChallenged, HasNoProof, HasClearance, ParseClearance

LEMMA NotChallenged ==
    ASSUME Inv, SaltsLeft, ClearanceKept, [Next]_vars, NEW t \in Tabs, Challenged(t),
           NEW end \in cleared
    PROVE  now > end
<1>1. end \in Nat /\ now \in Nat
    BY DEF Inv, BrowserTypeOK
<1>2. ASSUME now <= end PROVE FALSE
    <2>1. jar.clearance # NoCookie /\ end <= jar.clearance.value.exp
        BY <1>2 DEF ClearanceKept
    <2>2. tabs[t].phase = "solving" => WithNonce(t).clearance = jar.clearance
        BY NonceType
    <2> QED
        BY <1>1, <1>2, <2>1, <2>2, ChallengedSends, ClearanceShown
<1> QED
    BY <1>1, <1>2

LEMMA ClearanceKeptNext ==
    ASSUME NEW t, Tabs = {t}, config.slidingRenewalTTL = 0,
           Inv, SaltsLeft, ClearanceKept, [Next]_vars
    PROVE  ClearanceKept'
<1> SUFFICES ASSUME NEW end \in cleared', now' <= end
             PROVE  /\ jar'.clearance # NoCookie
                    /\ end <= jar'.clearance.until /\ end <= jar'.clearance.value.exp
                    /\ tabs'[t].answer # NoAnswer => tabs'[t].answer.grant # "challenge"
    BY DEF ClearanceKept
<1>1. tabs \in [Tabs -> Tab] /\ t \in Tabs /\ now \in Nat
    BY DEF Inv, BrowserTypeOK
<1>2. Inv'
    BY InvNext
<1>3. end \in Nat /\ now' \in Nat
    BY <1>2 DEF Inv, BrowserTypeOK
<1>4. CASE cleared' = cleared
    <2>1. now' = now \/ PassTime
        BY DEF Next, Proceed, Navigate, Solve, Reload, Send, StartSolving, ReceivePage,
               ReceiveChallenge, GiveUp, Lose, Reconnect, vars
    <2>2. now <= end
        BY <1>1, <1>3, <2>1 DEF PassTime
    <2>3. /\ jar.clearance # NoCookie
          /\ end <= jar.clearance.until /\ end <= jar.clearance.value.exp
          /\ tabs[t].answer # NoAnswer => tabs[t].answer.grant # "challenge"
        BY <1>1, <1>4, <2>2 DEF ClearanceKept
    <2>4. tabs'[t].answer # NoAnswer => tabs'[t].answer.grant # "challenge"
        <3>1. ~ Challenged(t)
            BY <1>1, <1>3, <1>4, <2>2, NotChallenged
        <3> QED
            BY <2>3, <3>1 DEF Challenged
    <2>5. CASE jar'.clearance = jar.clearance
        BY <2>3, <2>4, <2>5
    <2>6. CASE Solve(t)
        BY <1>1, <2>5, <2>6, NonceType DEF Solve, Send, WithNonce
    <2>7. CASE ReceiveChallenge(t)
        BY <2>3, <2>7 DEF ReceiveChallenge
    <2>8. CASE ReceivePage(t)
        <3>1. PICK minted \in BOOLEAN :
                /\ minted => tabs[t].answer.grant \in {"issue", "renew"}
                /\ jar' = JarAfterGrant(tabs[t].answer.grant, minted)
                /\ cleared' = IF minted THEN {now + ClearanceLifetime} ELSE cleared
            BY <2>8 DEF ReceivePage
        <3>2. tabs[t].answer.grant \in Grants /\ tabs[t].answer.grant # "renew"
            BY <1>1, <2>8 DEF ReceivePage, Inv, OwnWork, BrowserTypeOK, Tab, Answer
        <3>3. CASE ~ minted
            BY <2>5, <3>1, <3>2, <3>3, GrantStored
        <3>4. CASE minted
            <4>1. /\ jar'.clearance # NoCookie
                  /\ jar'.clearance.value.exp = now + ClearanceLifetime
                  /\ jar'.clearance.until = now + ClearanceLifetime
                BY <3>1, <3>2, <3>4, GrantStored
            <4>2. end = now + ClearanceLifetime
                BY <3>1, <3>4
            <4> QED
                BY <1>3, <2>4, <4>1, <4>2
        <3> QED
            BY <3>3, <3>4
    <2>9. CASE PassTime
        <3>1. jar.clearance.until \in Nat
            BY <2>3 DEF Inv, BrowserTypeOK, Jar, Cookies
        <3>2. now' <= jar.clearance.until
            BY <1>3, <2>3, <3>1
        <3>3. jar'.clearance = jar.clearance
            BY <2>3, <2>9, <3>2, AgedStep
        <3> QED
            BY <2>5, <3>3
    <2>10. CASE Reconnect \/ UNCHANGED vars
                \/ Navigate(t) \/ Reload(t) \/ StartSolving(t) \/ GiveUp(t) \/ Lose(t)
        BY <2>5, <2>10 DEF Reconnect, vars, Navigate, Reload, Send, StartSolving, GiveUp, Lose
    <2> QED
        BY <2>6, <2>7, <2>8, <2>9, <2>10 DEF Next, Proceed
<1>5. CASE cleared' # cleared
    <2>1. ReceivePage(t)
        BY <1>1, <1>5 DEF Next, Proceed, Navigate, Solve, Reload, Send, StartSolving,
               ReceiveChallenge, GiveUp, Lose, Reconnect, PassTime, vars
    <2>2. PICK minted \in BOOLEAN :
            /\ minted => tabs[t].answer.grant \in {"issue", "renew"}
            /\ jar' = JarAfterGrant(tabs[t].answer.grant, minted)
            /\ cleared' = IF minted THEN {now + ClearanceLifetime} ELSE cleared
        BY <2>1 DEF ReceivePage
    <2>3. minted /\ end = now + ClearanceLifetime
        BY <1>5, <2>2
    <2>4. tabs[t].answer.grant \in Grants /\ tabs[t].answer.grant # "renew"
        BY <1>1, <2>1 DEF ReceivePage, Inv, OwnWork, BrowserTypeOK, Tab, Answer
    <2>5. /\ jar'.clearance # NoCookie
          /\ jar'.clearance.value.exp = now + ClearanceLifetime
          /\ jar'.clearance.until = now + ClearanceLifetime
        BY <2>2, <2>3, <2>4, GrantStored
    <2>6. tabs'[t].answer = NoAnswer
        BY <1>1, <2>1 DEF ReceivePage
    <2> QED
        BY <1>3, <2>3, <2>5, <2>6
<1> QED
    BY <1>4, <1>5

\* "Subsequent: cookie validated, direct pass" (README.md): a tab that has the browser
\* for itself is not challenged while the clearance it was given lasts, without sliding
\* renewal, which would give the cookie another Max-Age than the token.
THEOREM ClearedGoesThroughAlone ==
    ASSUME NEW only, Tabs = {only}, config.slidingRenewalTTL = 0
    PROVE  Spec /\ []SaltsLeft => ClearedGoesThrough
<1> DEFINE Step == \A t \in Tabs : Challenged(t) => \A exp \in cleared : now > exp
<1>1. Init => ClearanceKept
    BY DEF Init, ClearanceKept
<1>2. Inv /\ SaltsLeft /\ ClearanceKept /\ [Next]_vars => [Step]_vars
    BY NotChallenged
<1>3. Inv /\ SaltsLeft /\ ClearanceKept /\ [Next]_vars => ClearanceKept'
    BY ClearanceKeptNext
<1> HIDE DEF Step
<1>4. Spec /\ []SaltsLeft => [][Step]_vars
    BY <1>1, <1>2, <1>3, InvInit, InvNext, PTL DEF Spec
<1> QED
    BY <1>4 DEF Step, ClearedGoesThrough

-----------------------------------------------------------------------------
(* Activity.                                                               *)

\* The gates leave the site alone, or let the browser's address pass.
NeedsNoProof ==
    \/ ~ (config.protectAll \/ Site \in config.protects)
    \/ PassesIPIntel(config, HomeIP)

\* What shows that the browser was let through at that time.
ShowsFor(at) ==
    \/ NeedsNoProof
    \/ jar.clearance # NoCookie /\ at <= jar.clearance.value.exp

TooLate(at) == now - at > config.slidingRenewalTTL

\* A clearance that was good when the last request went through is still in the jar,
\* or is about to be, unless that request is too long ago; and only then can a
\* challenge, which takes the clearance away, be on its way.
ActivityKept ==
    /\ \A at \in active : at <= now /\ (TooLate(at) \/ ShowsFor(at))
    /\ \A t \in Tabs : tabs[t].answer # NoAnswer =>
         /\ tabs[t].answer.at <= now
         /\ tabs[t].answer.grant = "none" => ShowsFor(tabs[t].answer.at)
         /\ tabs[t].answer.grant = "challenge" => \A at \in active : TooLate(at)

\* Within the window, the clearance in the jar is good or renewable.
LEMMA ActiveShown ==
    ASSUME Inv, NEW at \in Nat, at <= now, ~ TooLate(at), ShowsFor(at),
           NEW j, j.clearance = jar.clearance
    PROVE  ~ IsChallenged(config, RequestWith(j), now)
<1> DEFINE r == RequestWith(j)
<1>1. r.target = Site /\ ClientIP(config, r) = HomeIP
    BY HomeIdentity DEF RequestWith
<1>2. CASE NeedsNoProof
    BY <1>1, <1>2 DEF NeedsNoProof, IsChallenged, Protected
<1>3. CASE ~ NeedsNoProof
    <2>1. jar.clearance # NoCookie /\ at <= jar.clearance.value.exp
        BY <1>3 DEF ShowsFor
    <2>2. /\ jar.clearance.value \in Clearance
          /\ jar.clearance.value.key = config.key /\ jar.clearance.value.ip = HomeIP
          /\ now \in Nat
        BY <2>1 DEF Inv, BrowserTypeOK, OwnJar, Jar, Cookies
    <2>3. r.clearance = jar.clearance.value
        BY <2>1 DEF RequestWith
    <2>4. ParseClearance(config.key, r.clearance, ClientIP(config, r))
        BY <1>1, <2>2, <2>3, TokenAssumption DEF ParseClearance
    <2>5. r.clearance.exp \in Nat /\ at <= r.clearance.exp
        BY <2>1, <2>2, <2>3 DEF Clearance
    <2>6. CASE now <= r.clearance.exp
        BY <2>4, <2>6 DEF IsChallenged, HasNoProof, HasClearance
    <2>7. CASE now > r.clearance.exp
        <3>1. ShouldRenewClearance(r.clearance.exp, now, config.slidingRenewalTTL)
            BY <2>2, <2>5, <2>7, ConfigType DEF TooLate, ShouldRenewClearance
        <3> QED
            BY <2>4, <3>1 DEF IsChallenged, HasNoProof, HasRenewable
    <2> QED
        BY <2>2, <2>5, <2>6, <2>7
<1> QED
    BY <1>2, <1>3

LEMMA LateChallenged ==
    ASSUME Inv, SaltsLeft, ActivityKept, [Next]_vars, NEW t \in Tabs, Challenged(t),
           NEW at \in active
    PROVE  TooLate(at)
<1>1. at \in Nat
    BY DEF Inv, BrowserTypeOK
<1>2. ASSUME ~ TooLate(at) PROVE FALSE
    <2>1. at <= now /\ ShowsFor(at)
        BY <1>2 DEF ActivityKept
    <2>2. tabs[t].phase = "solving" => WithNonce(t).clearance = jar.clearance
        BY NonceType
    <2> QED
        BY <1>1, <1>2, <2>1, <2>2, ChallengedSends, ActiveShown
<1> QED
    BY <1>2

\* What goes through without a grant shows a clearance that is good, or needs none.
LEMMA NoneShows ==
    ASSUME Inv, NEW j, j.clearance = jar.clearance,
           NEW answer \in AnswersTo(RequestWith(j))
    PROVE  answer.at = now /\ (answer.grant = "none" => ShowsFor(now))
<1> DEFINE r == RequestWith(j)
<1>1. PICK g \in Grants :
        answer = Answering(g) /\ (g = "none" => GoesThrough(config, r, now))
    BY DEF AnswersTo
<1>2. answer.at = now /\ answer.grant = g
    BY <1>1 DEF Answering
<1>3. r.target = Site /\ ClientIP(config, r) = HomeIP
    BY HomeIdentity DEF RequestWith
<1>4. ASSUME g = "none", ~ NeedsNoProof PROVE ShowsFor(now)
    <2>1. HasClearance(config, r, now)
        BY <1>1, <1>3, <1>4 DEF GoesThrough, NeedsNoProof, Protected
    <2>2. r.clearance # NoToken /\ now <= r.clearance.exp
        BY <2>1 DEF HasClearance, ParseClearance
    <2> QED
        BY <2>2 DEF RequestWith, ShowsFor
<1> QED
    BY <1>2, <1>4 DEF ShowsFor

\* Only a challenge takes the clearance away, since the client keeps its cookies.
LEMMA ActivityKeptNext ==
    ASSUME NEW t, Tabs = {t}, ~ HonoursMaxAge,
           Inv, SaltsLeft, ActivityKept, [Next]_vars
    PROVE  ActivityKept'
<1>1. /\ tabs \in [Tabs -> Tab] /\ t \in Tabs /\ now \in Nat /\ active \subseteq Nat
      /\ config.slidingRenewalTTL \in Nat
    BY ConfigType DEF Inv, BrowserTypeOK
<1>2. CASE Navigate(t) \/ Solve(t) \/ Reload(t)
    <2>1. PICK j, phase :
            /\ j.clearance = jar.clearance
            /\ phase \in {"loading", "confirming"}
            /\ Send(t, j, phase)
        BY <1>2, NonceType DEF Navigate, Solve, Reload, WithNonce
    <2>2. PICK answer \in AnswersTo(RequestWith(j)) :
            tabs' = [tabs EXCEPT ![t] =
                        [phase |-> phase, work |-> NoChallenge, answer |-> answer]]
        BY <2>1 DEF Send
    <2>3. tabs'[t].answer = answer
        BY <1>1, <2>2
    <2>4. answer.at = now /\ (answer.grant = "none" => ShowsFor(now))
        BY <2>1, NoneShows
    <2>5. jar'.clearance = jar.clearance /\ now' = now /\ active' = active
        BY <2>1 DEF Send
    <2>6. \A at : (ShowsFor(at) => ShowsFor(at)') /\ (TooLate(at) => TooLate(at)')
        BY <2>5 DEF ShowsFor, TooLate
    <2>7. answer.grant = "challenge" => Challenged(t)
        <3>1. tabs[t].answer = NoAnswer
            BY <1>1, <1>2 DEF Navigate, Solve, Reload, Inv, OwnWork
        <3>2. answer # NoAnswer
            BY AnswerMade DEF Inv
        <3> QED
            BY <2>3, <3>1, <3>2 DEF Challenged
    <2>8. answer.grant = "challenge" => \A at \in active : TooLate(at)
        BY <1>1, <2>7, LateChallenged
    <2>9. \A at \in active' : at <= now' /\ (TooLate(at)' \/ ShowsFor(at)')
        BY <2>5, <2>6 DEF ActivityKept
    <2>10. /\ tabs'[t].answer.at = now /\ now' = now
           /\ tabs'[t].answer.grant = "none" => ShowsFor(now)'
           /\ tabs'[t].answer.grant = "challenge" => \A at \in active' : TooLate(at)'
        BY <2>3, <2>4, <2>5, <2>6, <2>8
    <2> QED
        BY <1>1, <2>9, <2>10 DEF ActivityKept
<1>3. CASE StartSolving(t) \/ GiveUp(t) \/ Lose(t)
    <2>1. tabs'[t].answer = NoAnswer /\ UNCHANGED <<jar, now, active>>
        BY <1>1, <1>3 DEF StartSolving, GiveUp, Lose
    <2>2. \A at : (ShowsFor(at) => ShowsFor(at)') /\ (TooLate(at) => TooLate(at)')
        BY <2>1 DEF ShowsFor, TooLate
    <2> QED
        BY <2>1, <2>2 DEF ActivityKept
<1>4. CASE ReceiveChallenge(t)
    <2>1. tabs'[t].answer = NoAnswer /\ UNCHANGED <<now, active>>
        BY <1>1, <1>4 DEF ReceiveChallenge
    <2>2. \A at \in active : TooLate(at)
        BY <1>1, <1>4 DEF ReceiveChallenge, ActivityKept
    <2>3. \A at \in active' : at <= now' /\ TooLate(at)'
        BY <2>1, <2>2 DEF ActivityKept, TooLate
    <2> QED
        BY <2>1, <2>3 DEF ActivityKept
<1>5. CASE ReceivePage(t)
    <2> DEFINE answer == tabs[t].answer
    <2>1. PICK minted \in BOOLEAN :
            /\ minted => answer.grant \in {"issue", "renew"}
            /\ jar' = JarAfterGrant(answer.grant, minted)
            /\ active' = IF minted \/ answer.grant = "none" THEN {answer.at} ELSE active
        BY <1>5 DEF ReceivePage
    <2>2. answer.grant \in Grants /\ answer.at \in Nat /\ answer.at <= now
          /\ (answer.grant = "none" => ShowsFor(answer.at))
        BY <1>1, <1>5 DEF ReceivePage, Inv, BrowserTypeOK, Tab, Answer, ActivityKept
    <2>3. tabs'[t].answer = NoAnswer /\ now' = now
        BY <1>1, <1>5 DEF ReceivePage
    <2>4. CASE minted
        <3>1. jar'.clearance # NoCookie /\ jar'.clearance.value.exp = now + ClearanceLifetime
            BY <2>1, <2>2, <2>4, GrantStored
        <3>2. \A at \in Nat : at <= now => ShowsFor(at)'
            BY <1>1, <3>1, LifetimeAssumption DEF ShowsFor
        <3> QED
            BY <2>1, <2>2, <2>3, <2>4, <3>2 DEF ActivityKept
    <2>5. CASE ~ minted
        <3>1. jar' = jar
            BY <2>1, <2>2, <2>5, GrantStored
        <3>2. \A at : (ShowsFor(at) => ShowsFor(at)') /\ (TooLate(at) => TooLate(at)')
            BY <2>3, <3>1 DEF ShowsFor, TooLate
        <3> QED
            BY <2>1, <2>2, <2>3, <2>5, <3>2 DEF ActivityKept
    <2> QED
        BY <2>4, <2>5
<1>6. CASE PassTime
    <2>1. jar'.clearance = jar.clearance
        BY <1>6 DEF PassTime, Inv, BrowserTypeOK, Jar
    <2>2. now' = now + 1 /\ UNCHANGED <<tabs, active>>
        BY <1>6 DEF PassTime
    <2>3. \A at \in Nat : ShowsFor(at) => ShowsFor(at)'
        BY <2>1 DEF ShowsFor
    <2>4. \A at \in Nat : TooLate(at) => TooLate(at)'
        BY <1>1, <2>2 DEF TooLate
    <2>5. tabs[t].answer # NoAnswer => tabs[t].answer.at \in Nat
        BY <1>1 DEF Tab, Answer
    <2> QED
        BY <1>1, <2>2, <2>3, <2>4, <2>5 DEF ActivityKept
<1>7. CASE Reconnect \/ UNCHANGED vars
    <2>1. UNCHANGED <<now, jar, tabs, active>>
        BY <1>7 DEF Reconnect, vars
    <2>2. \A at : (ShowsFor(at) => ShowsFor(at)') /\ (TooLate(at) => TooLate(at)')
        BY <2>1 DEF ShowsFor, TooLate
    <2> QED
        BY <2>1, <2>2 DEF ActivityKept
<1> QED
    BY <1>2, <1>3, <1>4, <1>5, <1>6, <1>7 DEF Next, Proceed

\* "continuously active clients are re-issued clearance after expiry instead of being
\* re-challenged" (README.md): true of a client with one tab that keeps its cookies,
\* such as a poller that ignores Max-Age, for any lifetimes and windows.
THEOREM ActivityKeepsAccessAlone ==
    ASSUME NEW only, Tabs = {only}, ~ HonoursMaxAge
    PROVE  Spec /\ []SaltsLeft => ActivityKeepsAccess
<1> DEFINE Step == \A t \in Tabs : Challenged(t) =>
                      \A at \in active : now - at > config.slidingRenewalTTL
<1>1. Init => ActivityKept
    BY DEF Init, ActivityKept
<1>2. Inv /\ SaltsLeft /\ ActivityKept /\ [Next]_vars => [Step]_vars
    BY LateChallenged DEF TooLate
<1>3. Inv /\ SaltsLeft /\ ActivityKept /\ [Next]_vars => ActivityKept'
    BY ActivityKeptNext
<1> HIDE DEF Step
<1>4. Spec /\ []SaltsLeft => [][Step]_vars
    BY <1>1, <1>2, <1>3, InvInit, InvNext, PTL DEF Spec
<1> QED
    BY <1>4 DEF Step, ActivityKeepsAccess
================================================================================
