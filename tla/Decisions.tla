------------------------------- MODULE Decisions -------------------------------
(***************************************************************************)
(* What OnHttpRequestHeaders (main.go) makes of a request r under the      *)
(* configuration c at time now, in the order of its checks.  r.origin and  *)
(* r.target say where the request comes from and what it is for,           *)
(* r.clearance and r.solution which proof it carries.                      *)
(***************************************************************************)
EXTENDS Credentials, IPIntel

CONSTANT
    NoSolution  \* neither solve cookies nor a challenge-token header

ASSUME DecisionAssumption == NoSolution \notin Solution

ClientIP(c, r) == ResolveClientIP(c, r.origin)

\* The selective protection gate.
Protected(c, r) == c.protectAll \/ r.target \in c.protects

\* The clearance cookie: within its lifetime, or within the renewal window.
HasClearance(c, r, now) ==
    /\ ParseClearance(c.key, r.clearance, ClientIP(c, r))
    /\ now <= r.clearance.exp

HasRenewable(c, r, now) ==
    /\ ParseClearance(c.key, r.clearance, ClientIP(c, r))
    /\ ShouldRenewClearance(r.clearance.exp, now, c.slidingRenewalTTL)

\* The slow path: a solution, by the full client identity.
HasSolution(c, r, now) ==
    /\ ~ HasClearance(c, r, now) /\ ~ HasRenewable(c, r, now)
    /\ r.solution # NoSolution
    /\ VerifySolution(c.key, r.solution, ResolveClientContext(c, r.origin), now)

HasNoProof(c, r, now) ==
    ~ HasClearance(c, r, now) /\ ~ HasRenewable(c, r, now) /\ ~ HasSolution(c, r, now)

\* What goes upstream without leaving a trace in the filter.
GoesThrough(c, r, now) ==
    \/ ~ Protected(c, r)
    \/ HasClearance(c, r, now)
    \/ HasNoProof(c, r, now) /\ PassesIPIntel(c, ClientIP(c, r))

IsChallenged(c, r, now) ==
    Protected(c, r) /\ HasNoProof(c, r, now) /\ ~ PassesIPIntel(c, ClientIP(c, r))
==============================================================================
