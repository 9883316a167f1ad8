-------------------------------- MODULE Browser --------------------------------
(***************************************************************************)
(* A browser in front of the filter: the cookies the filter's answers set  *)
(* and clear, and the challenge page (challenge.html) in tabs that share   *)
(* one cookie jar.  The filter keeps nothing about a client, so its answer *)
(* to a request depends on the request, the configuration and the time     *)
(* only (module Decisions); one configuration is in force.                 *)
(*                                                                         *)
(* A request reaches the filter when it is sent; its answer is received in *)
(* a later step, and the answers to different tabs in any order.           *)
(***************************************************************************)
EXTENDS Decisions, FiniteSets

CONSTANTS
    Tabs,           \* tabs of the browser, or requests of a client at a time
    Salts,          \* what tells challenges apart that are equal otherwise
    HomeIP,         \* the address of the browser
    Site,           \* what the tabs ask for
    Deployment,     \* the configuration in force, as raw JSON values
    HonoursMaxAge,  \* FALSE: a client that keeps a cookie until it is replaced
    MaxTime,        \* bound on now
    NoCookie,       \* an absent cookie
    NoChallenge,    \* a tab that works on no challenge
    NoAnswer        \* a tab that waits for none

config == Compile(Deployment)

\* The challenge and challenge-sig cookies, always set and cleared together.
SignedChallenge == [token: Challenge, salt: Salts]

\* A cookie is kept through the last second of its Max-Age.
Cookies(values) == [value: values, until: Nat] \cup {NoCookie}

Jar == [challenge: Cookies(SignedChallenge),
        nonce: Cookies(SignedChallenge),  \* the challenge the nonce solves
        clearance: Cookies(Clearance)]

EmptyJar == [challenge |-> NoCookie, nonce |-> NoCookie, clearance |-> NoCookie]

\* What the filter does with a request: answer it with a challenge, or let it
\* through, without anything to add to the upstream's answer or with a clearance
\* to issue or to renew; "open" is without a proof.
Grants == {"challenge", "none", "open", "issue", "renew"}

\* An answer on its way, and when its request was sent.
Answer == [grant: Grants, at: Nat, challenge: SignedChallenge \cup {NoChallenge}]

Phases ==
    {"idle",        \* nothing asked for, or the navigation was lost
     "loading",     \* navigating
     "page",        \* the challenge page is there, its script has not run
     "solving",     \* searching a nonce for `work`
     "confirming",  \* nonce cookie set, fetching
     "confirmed",   \* the fetch is over, about to reload
     "served",      \* showing what the upstream sent
     "failed"}      \* showing an error of the page's script

Tab == [phase: Phases, work: SignedChallenge \cup {NoChallenge},
        answer: Answer \cup {NoAnswer}]

ASSUME BrowserAssumption ==
    /\ HomeIP \in IPs /\ Site \in Targets
    /\ Deployment \in RawConfig /\ StartsWith(Deployment)
    /\ HonoursMaxAge \in BOOLEAN
    /\ MaxTime \in Nat
    /\ NoCookie \notin [value: SignedChallenge \cup Clearance, until: Nat]
    /\ NoChallenge \notin SignedChallenge
    /\ NoAnswer \notin Answer

VARIABLES
    now,      \* the clock, in seconds
    conn,     \* the browser's connection to Envoy
    jar,      \* its cookies for the host
    tabs,     \* its tabs
    cleared,  \* history: the expiry of the last clearance received, if any
    active    \* history: when the last request was sent that went through on a
              \* proof, and brought the cookie it was due, if any

vars == <<now, conn, jar, tabs, cleared, active>>

BrowserTypeOK ==
    /\ now \in Nat
    /\ conn \in Conns
    /\ jar \in Jar
    /\ tabs \in [Tabs -> Tab]
    /\ cleared \in SUBSET Nat /\ Cardinality(cleared) <= 1
    /\ active \in SUBSET Nat /\ Cardinality(active) <= 1

-----------------------------------------------------------------------------
(* The cookies of the answers.                                             *)

Stored(value, maxAge) == [value |-> value, until |-> now + maxAge]

\* A Max-Age shorter than the lifetime of the challenge.
SeedShortChallengeCookie(challenge) == Stored(challenge, ChallengeLifetime - 1)

ChallengeCookie(challenge) == Stored(challenge, ChallengeLifetime)

\* The Max-Age of the solve cookies.
SeedShortClearanceCookie(grant) ==
    Stored(GenerateClearance(config.key, HomeIP, now), ChallengeLifetime)

ClearanceCookie(grant) ==
    Stored(GenerateClearance(config.key, HomeIP, now),
           IF grant = "renew" THEN config.renewalTTL ELSE ClearanceLifetime)

\* A fresh challenge clears any nonce and clearance.
JarAfterChallenge(challenge) ==
    [EmptyJar EXCEPT !.challenge = ChallengeCookie(challenge)]

\* The solve cookies cleared although there is no clearance to replace them.
SeedClearsBeforeMinting(grant, minted) ==
    LET kept == IF grant = "issue" THEN EmptyJar ELSE jar
    IN  IF minted THEN [kept EXCEPT !.clearance = ClearanceCookie(grant)] ELSE kept

\* A clearance issued replaces the solve cookies, one renewed only itself;
\* without a salt nothing is set.
JarAfterGrant(grant, minted) ==
    LET kept == IF grant = "issue" THEN EmptyJar ELSE jar
    IN  IF minted THEN [kept EXCEPT !.clearance = ClearanceCookie(grant)] ELSE jar

-----------------------------------------------------------------------------
(* Requests.                                                               *)

HomeOrigin == [peer |-> HomeIP, xff |-> <<>>, xri |-> NoIP, conn |-> conn]

\* What the filter reads from the cookies j.
RequestWith(j) ==
    [origin    |-> HomeOrigin,
     target    |-> Site,
     clearance |-> IF j.clearance = NoCookie THEN NoToken ELSE j.clearance.value,
     solution  |-> IF j.challenge = NoCookie \/ j.nonce = NoCookie THEN NoSolution
                   ELSE [challenge |-> j.challenge.value.token,
                         solved    |-> j.nonce.value = j.challenge.value]]

SaltsInUse ==
    {jar[name].value.salt : name \in {n \in {"challenge", "nonce"} : jar[n] # NoCookie}}
    \cup {tabs[t].work.salt : t \in {u \in Tabs : tabs[u].work # NoChallenge}}
    \cup {tabs[t].answer.challenge.salt :
            t \in {u \in Tabs : tabs[u].answer # NoAnswer /\ tabs[u].answer.grant = "challenge"}}

FreshChallenge ==
    [token |-> GenerateChallenge(config.key, config.base, ResolveClientContext(config, HomeOrigin), now),
     salt  |-> CHOOSE salt \in Salts : salt \notin SaltsInUse]

Answering(grant) ==
    [grant |-> grant, at |-> now,
     challenge |-> IF grant = "challenge" THEN FreshChallenge ELSE NoChallenge]

\* The filter's answers to r: more than one when the random source may fail and
\* the request goes through "open", without a proof.
AnswersTo(r) ==
    {Answering(grant) : grant \in
        {g \in Grants :
            \/ g = "none" /\ GoesThrough(config, r, now)
            \/ g = "renew" /\ Protected(config, r) /\ HasRenewable(config, r, now)
            \/ g = "issue" /\ Protected(config, r) /\ HasSolution(config, r, now)
            \/ g \in {"challenge", "open"} /\ IsChallenged(config, r, now)}}

\* Tab t sends a request with the cookies j.
Send(t, j, phase) ==
    /\ jar' = j
    /\ \E answer \in AnswersTo(RequestWith(j)) :
         tabs' = [tabs EXCEPT ![t] =
                    [phase |-> phase, work |-> NoChallenge, answer |-> answer]]
    /\ UNCHANGED <<now, conn, cleared, active>>

-----------------------------------------------------------------------------
(* The steps of a tab.                                                     *)

\* The user opens the site, follows a link, polls, or loads the page again.
Navigate(t) ==
    /\ tabs[t].phase \in {"idle", "served", "failed"}
    /\ Send(t, jar, "loading")

\* The script reads its challenge from the jar, where another tab's may be by
\* now, or none: "challenge cookies not found".
StartSolving(t) ==
    /\ tabs[t].phase = "page"
    /\ tabs' = [tabs EXCEPT ![t] =
         IF jar.challenge = NoCookie
         THEN [phase |-> "failed", work |-> NoChallenge, answer |-> NoAnswer]
         ELSE [phase |-> "solving", work |-> jar.challenge.value, answer |-> NoAnswer]]
    /\ UNCHANGED <<now, conn, jar, cleared, active>>

\* The nonce never reaches the jar.
SeedNonceNotStored(t) ==
    /\ tabs[t].phase = "solving"
    /\ Send(t, jar, "confirming")

\* A nonce is found: cookie and fetch.
Solve(t) ==
    /\ tabs[t].phase = "solving"
    /\ Send(t, [jar EXCEPT !.nonce = Stored(tabs[t].work, ChallengeLifetime)], "confirming")

\* 80 million nonces tried: "could not solve".
GiveUp(t) ==
    /\ tabs[t].phase = "solving"
    /\ tabs' = [tabs EXCEPT ![t] =
         [phase |-> "failed", work |-> NoChallenge, answer |-> NoAnswer]]
    /\ UNCHANGED <<now, conn, jar, cleared, active>>

\* After the fetch, whatever it brought.
Reload(t) ==
    /\ tabs[t].phase = "confirmed"
    /\ Send(t, jar, "loading")

ReceiveChallenge(t) ==
    LET answer == tabs[t].answer IN
    /\ answer # NoAnswer /\ answer.grant = "challenge"
    /\ jar' = JarAfterChallenge(answer.challenge)
    /\ tabs' = [tabs EXCEPT ![t] =
         IF @.phase = "loading"
         THEN [phase |-> "page", work |-> answer.challenge, answer |-> NoAnswer]
         ELSE [phase |-> "confirmed", work |-> NoChallenge, answer |-> NoAnswer]]
    /\ UNCHANGED <<now, conn, cleared, active>>

\* The upstream's answer, to which the filter adds a clearance, if one is due
\* and a salt can be read.
ReceivePage(t) ==
    LET answer == tabs[t].answer IN
    /\ answer # NoAnswer /\ answer.grant # "challenge"
    /\ \E minted \in BOOLEAN :
         /\ minted => answer.grant \in {"issue", "renew"}
         /\ jar' = JarAfterGrant(answer.grant, minted)
         /\ cleared' = IF minted THEN {now + ClearanceLifetime} ELSE cleared
         /\ active' = IF minted \/ answer.grant = "none" THEN {answer.at} ELSE active
    /\ tabs' = [tabs EXCEPT ![t] =
         [phase  |-> IF @.phase = "loading" THEN "served" ELSE "confirmed",
          work   |-> NoChallenge, answer |-> NoAnswer]]
    /\ UNCHANGED <<now, conn>>

\* No answer arrives.  The page catches it when it is the fetch that fails.
Lose(t) ==
    /\ tabs[t].answer # NoAnswer
    /\ tabs' = [tabs EXCEPT ![t] =
         [phase  |-> IF @.phase = "loading" THEN "idle" ELSE "confirmed",
          work   |-> NoChallenge, answer |-> NoAnswer]]
    /\ UNCHANGED <<now, conn, jar, cleared, active>>

\* The browser's next requests use another connection.
Reconnect ==
    /\ conn' \in Conns \ {conn}
    /\ UNCHANGED <<now, jar, tabs, cleared, active>>

PassTime ==
    /\ now < MaxTime
    /\ now' = now + 1
    /\ jar' = [name \in DOMAIN jar |->
         IF HonoursMaxAge /\ jar[name] # NoCookie /\ jar[name].until < now' THEN NoCookie
         ELSE jar[name]]
    /\ UNCHANGED <<conn, tabs, cleared, active>>

-----------------------------------------------------------------------------
Init ==
    /\ now = 0
    /\ conn \in Conns
    /\ jar = EmptyJar
    /\ tabs = [t \in Tabs |->
                 [phase |-> "idle", work |-> NoChallenge, answer |-> NoAnswer]]
    /\ cleared = {} /\ active = {}

\* What the page and the network do by themselves.
Proceed(t) ==
    StartSolving(t) \/ Solve(t) \/ Reload(t) \/ ReceiveChallenge(t) \/ ReceivePage(t)

Next ==
    \/ \E t \in Tabs : Navigate(t) \/ Proceed(t) \/ GiveUp(t) \/ Lose(t)
    \/ Reconnect
    \/ PassTime

Spec == Init /\ [][Next]_vars

\* The page's script runs on and answers arrive; the user, the connection, the
\* losses and the clock owe nothing.
FairSpec == Spec /\ \A t \in Tabs : WF_vars(Proceed(t))
-----------------------------------------------------------------------------
(* Properties.                                                             *)

\* This step sends a request of t and the filter answers with a challenge.
Challenged(t) ==
    /\ tabs'[t].answer # NoAnswer /\ tabs'[t].answer # tabs[t].answer
    /\ tabs'[t].answer.grant = "challenge"

\* "After solve + reload: passes through to backend" (README.md): the page that
\* has solved its challenge, in time and on the connection it was issued to, is
\* not challenged again when it confirms (challenge.html:139-145 and the Max-Age
\* of the cookies).
SolvedGetsIn ==
    [][\A t \in Tabs :
        tabs[t].phase = "solving" /\ Challenged(t) =>
            \/ now > tabs[t].work.token.exp
            \/ conn # tabs[t].work.token.conn]_vars

\* "Subsequent: cookie validated, direct pass" (README.md): while the clearance a
\* browser was given lasts, it is not challenged.
ClearedGoesThrough ==
    [][\A t \in Tabs : Challenged(t) => \A exp \in cleared : now > exp]_vars

\* "continuously active clients are re-issued clearance after expiry instead of
\* being re-challenged" (README.md): who comes back within the renewal window of
\* its last request is not challenged.
ActivityKeepsAccess ==
    [][\A t \in Tabs : Challenged(t) =>
        \A at \in active : now - at > config.slidingRenewalTTL]_vars

\* A page that does not find its challenge in the jar, although the challenge
\* is not over, has lost it to a tab that got in: loading it again goes through.
LostChallengeMeansCleared ==
    [][\A t \in Tabs :
        tabs[t].phase = "page" /\ tabs'[t].phase = "failed" =>
            \/ now > tabs[t].work.token.exp
            \/ HasClearance(config, RequestWith(jar), now)]_vars

\* Once the browser's connection stays, no tab goes from challenge to challenge
\* for ever: it shows the site, or the user has it back.
Settles ==
    <>[][conn' = conn]_vars =>
        \A t \in Tabs : []<>(tabs[t].phase \in {"idle", "served", "failed"})
================================================================================
