------------------------------ MODULE Credentials ------------------------------
(***************************************************************************)
(* The two signed credentials of crypt.go.  A token is the record of what  *)
(* its signature covers, together with the key it is signed with, so that  *)
(* "the HMAC under key k matches" is token.key = k.  The random salts only *)
(* make tokens distinct and are left out: two tokens with equal fields are *)
(* accepted in the same states.                                            *)
(***************************************************************************)
EXTENDS ClientIdentity

CONSTANTS
    ChallengeLifetime,  \* 60 s in the code
    ClearanceLifetime,  \* 30 min in the code
    NoToken             \* no challenge-clearance cookie, or an empty one

ASSUME LifetimeAssumption ==
    ChallengeLifetime \in Nat \ {0} /\ ClearanceLifetime \in Nat \ {0}

DefaultDifficulty == 18

Challenge == [key: Keys, ip: MaybeIP, conn: MaybeConn, exp: Nat, diff: Nat]

Clearance == [key: Keys, ip: MaybeIP, exp: Nat]

\* A nonce for a challenge; solved says whether the hash of the two has the
\* leading zero bits the challenge asks for.
Solution == [challenge: Challenge, solved: BOOLEAN]

ASSUME TokenAssumption == NoToken \notin Clearance

-----------------------------------------------------------------------------
GenerateChallenge(key, difficulty, client, now) ==
    [key |-> key, ip |-> client.ip, conn |-> client.conn,
     exp |-> now + ChallengeLifetime,
     diff |-> IF difficulty < 1 THEN DefaultDifficulty ELSE difficulty]

\* Strict on the address when the request has one, on the connection only when
\* both the challenge and the request have one.
MatchChallengeContext(challenge, client) ==
    /\ client.ip # NoIP => challenge.ip = client.ip
    /\ challenge.conn # NoConn /\ client.conn # NoConn => challenge.conn = client.conn

\* The expiry of the challenge not checked.
SeedVerifyNoExpiry(key, solution, client, now) ==
    /\ solution.challenge.key = key
    /\ solution.solved
    /\ MatchChallengeContext(solution.challenge, client)

VerifySolution(key, solution, client, now) ==
    /\ now <= solution.challenge.exp
    /\ solution.challenge.key = key
    /\ solution.solved
    /\ MatchChallengeContext(solution.challenge, client)

-----------------------------------------------------------------------------
\* The lifetime subtracted.
SeedClearanceInThePast(key, ip, now) ==
    [key |-> key, ip |-> ip, exp |-> now - ClearanceLifetime]

GenerateClearance(key, ip, now) ==
    [key |-> key, ip |-> ip, exp |-> now + ClearanceLifetime]

\* The signature not compared.
SeedParseUnsigned(key, token, ip) ==
    token # NoToken /\ (ip # NoIP => token.ip = ip)

\* The binding skipped for a token without an address, too.
SeedParseUnbound(key, token, ip) ==
    /\ token # NoToken
    /\ token.key = key
    /\ ip # NoIP /\ token.ip # NoIP => token.ip = ip

\* Signature and address binding; expiry is the caller's business.
ParseClearance(key, token, ip) ==
    /\ token # NoToken
    /\ token.key = key
    /\ ip # NoIP => token.ip = ip

\* The window counted one second too long.
SeedWindowOneLonger(exp, now, window) ==
    window > 0 /\ now > exp /\ now - exp < window + 2

\* The window counted one second too short.
SeedWindowOneShorter(exp, now, window) ==
    window > 0 /\ now > exp /\ now - exp < window

\* Expired, at most `window` seconds ago; a window of 0 disables renewal.
ShouldRenewClearance(exp, now, window) ==
    window > 0 /\ now > exp /\ now - exp <= window
=============================================================================
