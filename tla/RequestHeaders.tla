----------------------------- MODULE RequestHeaders -----------------------------
(***************************************************************************)
(* What OnHttpRequestHeaders (main.go) makes of the headers of a request   *)
(* before it decides: whether the request is protected at all, and which   *)
(* cookies of the filter it carries.                                       *)
(***************************************************************************)
EXTENDS ProtectedRules, CookieHeader

CONSTANTS
    Configs,  \* values of `protected`
    Requests  \* the requests: their :authority, :path and Cookie

\* The host names the authority of every request: :11, [a]b and a:b are none.
ASSUME HeadersAssumption ==
    /\ Configs \subseteq ProtectedLists
    /\ Requests \subseteq [authority : Text, path : Text, cookie : Headers]
    /\ \A r \in Requests : HasHost(r.authority)

VARIABLES
    deployed,   \* history: the `protected` value the plugin was started with
    rules,      \* protectedRules
    protectAll,
    request,    \* the request of the stream, or none
    gated,      \* whether it entered the challenge flow
    cookies     \* what the flow found in its cookies

vars == <<deployed, rules, protectAll, request, gated, cookies>>

NoRequest == [authority |-> <<>>, path |-> <<>>, cookie |-> <<>>]

\* A gate is one callback, so a plugin that starts between streams is as good as
\* one that starts at any time.
OnPluginStart(list) ==
    /\ request = NoRequest
    /\ deployed' = list
    /\ rules' = CompiledList(list)
    /\ protectAll' = (rules' = {})
    /\ UNCHANGED <<request, gated, cookies>>

\* An unprotected request is let through with its cookies unread.
OnHttpRequestHeaders(r) ==
    /\ request = NoRequest
    /\ request' = r
    /\ gated' = (protectAll \/ MatchProtectedRules(rules, r.authority, r.path))
    /\ cookies' = IF gated' THEN ParseChallengeCookies(r.cookie) ELSE NoCookies
    /\ UNCHANGED <<deployed, rules, protectAll>>

EndStream ==
    /\ request # NoRequest
    /\ request' = NoRequest /\ gated' = FALSE /\ cookies' = NoCookies
    /\ UNCHANGED <<deployed, rules, protectAll>>

Init ==
    /\ \E list \in Configs :
         deployed = list /\ rules = CompiledList(list) /\ protectAll = (rules = {})
    /\ request = NoRequest /\ gated = FALSE /\ cookies = NoCookies

Next ==
    \/ \E list \in Configs : OnPluginStart(list)
    \/ \E r \in Requests : OnHttpRequestHeaders(r)
    \/ EndStream

Spec == Init /\ [][Next]_vars

-----------------------------------------------------------------------------
(* Properties.                                                             *)

\* "A request is challenged when ANY rule matches; within a rule, hosts AND paths
\* must both match", "a single leading wildcard matches exactly one extra leftmost
\* label", ports, case and queries do not count, and dropped rules leave the
\* others in force (README.md:56-59): what enters the challenge flow is exactly
\* what the deployed list means.
GatedAsMeant ==
    request # NoRequest => gated = Meant(deployed, request.authority, request.path)

\* Every cookie counts for what it is, wherever it stands in the header, however it
\* is spaced and whatever the values hold; the later of two of a name counts
\* (parseChallengeCookies takes the header in one pass and never splits it).
CookiesRead ==
    gated /\ AllNamed(request.cookie) =>
        \A name \in CookieNames : cookies[name] = MeansCookie(request.cookie, name)

\* "single-pass equals individual getCookie" (cookie_test.go:34): on a header as
\* browsers write it the scan finds what getCookie finds.
SinglePassEqualsGetCookie ==
    gated /\ Canonical(request.cookie) =>
        \A name \in CookieNames : cookies[name] = GetCookie(request.cookie, name)

\* The page solves the challenge that the filter will check: both read the same
\* from the cookies of a browser (challenge.html:83, main.go:654).
PageReadsTheSame ==
    gated /\ Canonical(request.cookie) /\ AllNamed(request.cookie) =>
        \A name \in CookieNames : cookies[name] = PageReads(request.cookie, name)
================================================================================
