# pow-proxy-wasm in TLA+

A verification project for pow-proxy-wasm, a proxy-wasm filter for Envoy that
asks clients for a proof of work before it lets a request through. The modules
are translated from the Go source; line numbers below are those of `src/`.

## The system

| Part | Source | State it keeps | Operations |
|------|--------|----------------|------------|
| plugin configuration | `main.go`, `protected.go`, `ipintel.go` | the `pluginContext` of each worker VM | `OnPluginStart` |
| client identity | `main.go:508-604` | none | resolve the client's address and connection |
| challenge and clearance tokens | `crypt.go` | none: a token carries its own expiry, binding and MAC | generate, verify, parse, renew |
| dynamic difficulty | `main.go:740-839` | `currentDiff` and `challengeCounter` of each worker; one value in the host's shared data | choose a difficulty, count a challenge, `OnTick` |
| request and response filter | `main.go:284-502` | the `httpHeaders` context of each stream | `OnHttpRequestHeaders`, `OnHttpResponseHeaders` |
| selective protection | `protected.go` | compiled rules | match host and path |
| cookies of a request | `main.go:645-732` | none | scan the Cookie header, read one cookie |
| ipintel gate | `ipintel.go` | none | decision for a verdict |
| ipintel database | `ipintelbin/` | read-only data | look an address up: choose blocks, collect evidence, weigh it |
| challenge page | `challenge.html` | cookies of the browser | solve, set cookies, fetch, reload |
| command line solver | `test/tools/powcli` | none | one request, a search, one request |
| Envoy and the proxy-wasm host | external | shared data, streams, clock | callbacks, ticks, start, end |

How they interact. Envoy runs several worker threads with one VM each, and a VM
runs one callback at a time. A request enters `OnHttpRequestHeaders` of one VM;
the answer of the upstream later enters `OnHttpResponseHeaders` of the same
stream. Nothing is stored about clients: what a client has earned is in the
signed tokens it presents. The workers see one another only through
`challenge:current_difficulty` in the shared data, which each writes on its tick
and reads while it has no difficulty of its own. The plugin can be started again
under running streams (a configuration update), and these keep the old
`pluginContext`.

What is hard about it, and what makes each part correct:

- *Tokens across time, identities and secrets.* A renewal mints a new token from
  an expired one; the address of a request may be unknown, and the binding check
  is then skipped; the secret may rotate between a request and its response;
  solutions can be repeated. Correct: access of an address always goes back to a
  solution from that address (`EarnedAccess`), and a lapse is final
  (`LapseIsFinal`).
- *Difficulty across workers.* Every worker overwrites one shared value, the last
  one wins, and a new plugin inherits what was published under another
  configuration. Correct: every challenge is within the bounds of the
  configuration in force (`OfferedInBounds`, `IssuedInBounds`), pressure adds at
  most 6 bits (`BumpAtMostSix`), is the worker's own (`OwnPressureOnly`) and
  passes (`PressurePasses`).
- *Failures.* The random source can fail in either callback, streams are reset,
  hosts restart: none of it may create access.
- *The gates.* Which requests need a proof at all. Hosts and paths are taken apart by
  position, and one bad entry drops a rule. Correct: gated is what the documentation
  calls a match (`GatedAsMeant`). The database is read block by block, trusting the
  headers of blocks, and the evidence goes through a map and an unstable sort.
  Correct: nothing is missed (`LookupComplete`), an address has one verdict
  (`OneVerdict`), and the gate follows the strongest evidence (`GateMeansBest`).
- *The cookies.* Three readers, written separately, look into the same header.
  Correct: they see what it means, and the same (`CookiesRead`,
  `SinglePassEqualsGetCookie`, `PageReadsTheSame`).
- *The client.* Two cookies with different lifetimes, several tabs, and a page
  that fetches and reloads. Correct: a client that solves its challenge gets in,
  and an active one stays in.

`PROJECT.json` lists the components, the hazards with their lines, the map from
definitions to lines, and the runs.

## Modules

| Module | What it models |
|--------|----------------|
| `PluginConfig` | the JSON as read and what `OnPluginStart` compiles it to |
| `ClientIdentity` | `resolveClientIP`, `resolveClientContext` |
| `Credentials` | challenge, solution, clearance and their checks |
| `IPIntelGate` | the decision of the gate for a verdict |
| `IPIntel` | the gate in the filter: the verdict of an address is a parameter |
| `Decisions` | what `OnHttpRequestHeaders` makes of a request: which branch it takes |
| `Difficulty` | difficulty state and steps; a specification of its own, and part of `PowFilter` |
| `PowFilter` | streams, clock and credentials over all of the above |
| `AccessLease` | what the filter promises about access, abstractly; `PowFilter` implements it |
| `Browser` | cookie jar, tabs and challenge page in front of the filter's decisions |
| `IPIntelDB` | `Lookup`: blocks, matching records, ASN, evidence, verdict |
| `Strings` | searching and trimming sequences, as `strings` does |
| `ProtectedRules` | compiling and matching the `protected` list, character by character |
| `CookieHeader` | the readers of the Cookie header, and what a header means |
| `RequestHeaders` | the state machine over the two: the gate, and the cookies found behind it |
| `MCDifficulty`, `MCPowFilter`, `MCBrowser`, `MCRequestHeaders`, `MCIPIntelDB` | deployments, clients, lists, headers and databases for TLC |
| `DifficultyProofs`, `PowFilterProofs`, `LeaseProofs`, `IPIntelDBProofs`, `BrowserProofs`, `HeaderProofs`, `CookieProofs` | theorems |

`PluginConfig <- ClientIdentity <- Credentials, IPIntel <- Decisions` and
`PluginConfig <- Difficulty`; `PowFilter` extends all of them and `Browser` extends
`Decisions`. `IPIntelGate` is shared by `IPIntel` and `IPIntelDB`: the database says
where the filter's parameter `IPVerdict` comes from. `RequestHeaders` says where its
other two parameters come from: `Targets` is the outcome of the match, and the tokens
of a request are what the scan found in its cookies. `PowFilter` implements both
`AccessLease` (`ImplementsLease`, by a refinement mapping) and `Difficulty`
(`DifficultyImplemented`: every step of the filter is a step of it or leaves it
alone), so what holds of these holds in the filter.

Definitions whose name begins with `Seed` are seeded bugs: forms of a definition
beside them that a slip in the code would give, used to see that the properties
notice. No specification uses them.

### Correspondence

- **A callback is one step.** A VM is single-threaded and the plugin makes no
  asynchronous call. Between the two callbacks of a stream any other step may
  come. Requests are not queued in the model: a request is any member of
  `Requests` at any time, which covers every client, honest or confused.
- **`plugin`** is the `pluginContext` of every worker. After an update the old
  context only serves the streams it began; a stream carries its own (`cfg`), as
  the `httpHeaders` context carries its pointer. An old context whose
  ticks have not stopped yet is left out: its last ticks publish a value like
  another worker's do.
- **A token** is the record of what its MAC covers and the key of the MAC;
  `token.key = key` is the MAC comparison. Salts only make tokens different, and
  two tokens with equal fields are accepted in the same states. `challenges` and
  `clearances` grow only: whatever was issued may be presented, any number of
  times, from anywhere.
- **Requests** carry one solution. The code tries the cookies and then the
  `challenge-token` header and does the same with the first that verifies.
- **`MintClearance` and `LoseGrant`** are `OnHttpResponseHeaders`: the salt was
  read or it was not. `LoseGrant` is also the stream reset before its response.
- **`FailOpen`** is the request that goes upstream when no salt can be read; the
  shared value adopted on the way stays cached (`CacheShared`).
- **The difficulty** 0 is "none", as in the code: no header, `currentDiff` unset.
  The header's parse failures fall under 0.
- **`RestartHost`** ends the Envoy process. `StartPlugin` on a running worker is
  a configuration update or a VM started again.
- **`earned`** is a history variable; no guard reads it.
- **In `Browser`** the filter is the operators of `Decisions` and nothing else,
  since it keeps nothing about a client: one configuration, one worker, so
  difficulty is fixed. A request reaches the filter when it is sent; its answer
  is received in a later step, in any order between the tabs. A clearance is
  minted when the upstream answers, which is also when the browser receives it;
  the way back takes no time of its own.
- **Cookies.** `challenge` and `challenge-sig` are one cookie, since every answer
  sets and clears both. A cookie is kept through the last second of its Max-Age.
  `HonoursMaxAge = FALSE` is a client that keeps cookies until they are replaced.
- **The page** is the script of `challenge.html`: read the challenge from the jar,
  search, set the nonce, fetch, reload whatever the fetch brought. "open" is the
  answer without a challenge when the random source fails. A user navigates a tab
  only when it is idle, served or shows an error; nobody closes the challenge page.
- **Salts** in `Browser` tell challenges apart that are equal otherwise, because a
  nonce solves one of them only. A salt is used again when no cookie, tab or
  answer holds it, which the filter cannot see.
- **In `ProtectedRules`** a string is the sequence of its characters, since the
  matching goes wrong at a dot, a colon or a bracket. `Chars`, `Lower` and `Digits` are
  the alphabet; for TLC it is two letters in either case, one digit and the separators.
  `HasHost` tells the authorities that name a host from `:11`, `[a]b`, `a:b` and the
  empty one, about which the documentation says nothing: no request has these here.
- **In `CookieHeader`** a header is a sequence of `=`, `;`, space and words, since the
  readers look for these three and compare words. `PairAt` is one round of the loop of
  `parseChallengeCookies`, `Scan` the loop from any position, `Pairs` what it finds from
  the first, `GetCookie` the function of that name, `PageReads` the `gc`
  of the page; `MeansCookie` is the reference: the header in parts between the `;`.
- **In `IPIntelDB`** a step is one round of the loop of `Lookup`. A block is its entry
  in the index and what its bytes decode to, with every check that can refuse it
  (`Readable`). Maps and the unstable sort are nondeterministic choices (`Verdicts`).
  `Truthful` assumes the headers the builder of the database writes: without it a
  lookup can miss anything.

### The lease

`AccessLease` knows parties, which hold leases, and a clock. A lease is begun by
solving a challenge in time, continued by coming back within a window, and never
taken back, since the credentials are in the clients' hands. The mapping of
`PowFilter` onto it:

| `AccessLease` | `PowFilter` |
|---------------|-------------|
| a party | a secret and a known address |
| `solvable[p]` | the seconds up to the end of some challenge issued to `p` |
| `lease[p]` | the seconds up to the end of some clearance of `p` |
| `granted` | the parties of the streams that wait for their response |
| `Windows[p]` | the renewal windows of the deployments with that secret |

A request whose address is unknown belongs to no party: `ImplementsLease` says that
such requests, which the binding check lets through, never extend the lease of a known
address. Streams may hold the same grant twice, so `Grant` may leave the party
granted.

## Runs

| Run | What it shows |
|-----|---------------|
| `MCDifficultyRollout` | two workers, two configurations with disjoint bounds in rollout, an elevation, a missing secret and headers outside every bound: every offered difficulty is in the bounds of the worker's own configuration, bumps do not add up across workers and starts, only its own ticks move a worker, and pressure passes |
| `MCPowFilterSliding` | renewals and lapses of a client among requests whose address is unknown, with an address that never asks, over more than two lifetimes: access is earned, a lapse is final, and the filter implements `AccessLease` |
| `MCPowFilterSelective` | rotation between two secrets under running streams, selective protection, both ipintel modes, two clients, one of them behind a proxy, headers: difficulty of issued challenges, and access under each secret |
| `MCBrowserOneTab` | one tab, two connections, losses: who solves gets in and stays in for the lifetime, and no tab is challenged for ever |
| `MCBrowserPoller` | a client that ignores Max-Age, sliding renewal: coming back within the window is enough |
| `MCBrowserTabs` | two tabs: a challenge page that lost its cookies to the other tab only has to be loaded again |
| `MCRequestHeaders` | lists, authorities and paths; cookie headers, well formed and not: gated is what the documentation calls a match, and all readers of a header agree |
| `MCIPIntelDB` | databases of two blocks with overlapping ranges, ties, roundings and every damage: lookups are complete or fail, verdicts are unique, the gate follows the strongest evidence |
| `MCDifficultyMinimumAlone` | expects a violation: with a minimum of 28 and no maximum, a tick under little or no pressure leads to challenges of 26 bits |
| `MCRequestHeadersNameless` | expects a violation: a cookie without a name hides the one behind it from the scan |
| `MCBrowserDashboard` | expects a violation: a browser has dropped the cookie when the renewal window opens |
| `MCBrowserTabsSolve` | expects a violation: the challenge of one tab replaces that of another, whose solution is refused |

The four runs that expect a violation each refute a sentence of the
documentation, of a comment or of a test; `PROJECT.json` "findings" quotes them. One
more disagreement has no run: `README.md:204` gives a renewed clearance the lifetime
`renewal_ttl`, but only its cookie has it, the token lives for `ClearanceLifetime` like
any other (`crypt.go:158`); a client that keeps cookies has access for 30 minutes.

Of `MCDifficultyMinimumAlone`: a worker that has just started offers 28, its minimum,
since `clampDifficulty` looks at the lower bound first. A tick with a bump of 0 or 1 stores
28 for the same reason, and the next challenge clamps that once more and gets 26. With a
bump of 2 bits or more the tick stores 26, of which the challenge makes 28 again: the
difficulty is below the minimum whenever there is little or no pressure.

Where the passing runs stop short, the reason is in the code. `BumpAtMostSix` bounds
a difficulty by the base of *some* deployment plus 6, because a new plugin takes over
the difficulty published under an older, higher base until its first tick
(`main.go:777`). `SolvedGetsIn` and `ClearedGoesThrough` are about one tab only,
because a challenge answered to another tab replaces the challenge cookies and clears
the clearance (`main.go:447`); `ClearedGoesThrough` is about deployments without
sliding renewal, because a renewal gives the cookie a Max-Age shorter than the token.
`SinglePassEqualsGetCookie` and `PageReadsTheSame` are about headers as browsers write
them: on others the readers differ by design (the last or the first of two cookies
of a name, the page neither). The floor of an elevation is the effective difficulty
and not the base: a header below the base lowers it too (`main.go:427`), within the
bounds that `OfferedInBounds` states.

### Bounds

- `MaxCounter` is 5 and `ScaledThresholds` are those of the code (`SourceThresholds`)
  without the counts between them: the code only compares the counter with them, so
  each of the six levels is reached with few challenges.
- Lifetimes are 1 or 2 ticks of the clock (60 s and 30 min in the code). The code
  compares `now` with `exp` and with `exp + window`, so what matters is that a
  run is longer than challenge, lifetime and window together: `MaxTime` is 3
  where lapses matter, and 0 in `MCPowFilterSelective`, which is about
  interleavings, secrets and difficulty: a credential of that run is as good at the end
  as it was when it was issued.
- `MaxChallenges` and `MaxClearances` (1 or 2) bound the different credentials in
  existence. A violation of `EarnedAccess` or `LapseIsFinal` needs a credential
  of one client or time and its use by or at another: two of each suffice for
  that, and equal ones count once.
- Two clients, two secrets, two workers: the properties relate two of a kind. Two
  secrets and two clients that both ask are in `MCPowFilterSelective`, where time stands
  still; in `MCPowFilterSliding` time passes, and the client shares the filter with
  requests of unknown origin, while the other address earns nothing and must have
  nothing. The two workers are in `MCDifficultyRollout`, because they share nothing but
  the difficulty. All of it together exceeds what TLC can do in minutes; the theorems
  cover every combination.
- In `MCBrowser`, `MaxTime` is 7 where renewals follow one another (two lifetimes of
  2, a window of 1, and a request after them), 4 for one tab (a solve, a lifetime, a
  second challenge) and 3 for two tabs; the violation by two tabs needs no more than
  1. Four or five `Salts` are one more than can be in use at once; TLC
  would stop at a `CHOOSE` without a value if they ran out.
- In `MCRequestHeaders`, authorities are all strings of up to five letters and dots,
  each bare, with a port and with an empty port, and two addresses with colons, in
  brackets and out: five characters hold a label, a dot and the suffix `a.b`, with
  all ways of missing it by one. The cookie headers are all sequences of up to four
  of two words, `=`, `;` and space, which holds every way in which two separators can
  meet, and up to three texts joined with and without the space: three is one in
  front of and one behind the cookie looked for.
- In `MCIPIntelDB`, eight kinds of record, each there for an edge (strengths a twentieth
  of a point apart, two categories of equal weight, one that does not count, a
  confidence over 100, ASNs of each rank and two of one rank, IPv6), in every pair of blocks of which one
  holds one record and the other one or two; damage of every kind in the second
  block; three addresses at the edges of the ranges. The properties relate two records, in one block or in two.
- Deadlock is checked in every run. With `PassTime` exhausted, ticks and requests go
  on.

The proofs have none of these bounds, for the properties they cover.

### Fairness

`PressurePasses` assumes weak fairness of `OnTick` of every worker, and nothing
else. The plugin asks the host for a tick every 5 seconds (`main.go:242`), and
the host calls it from its event loop whatever the requests do. If
`SetTickPeriodMilliSeconds` fails the plugin only logs it and no tick ever
comes; the property does not speak of that host. No fairness is assumed of
requests, of starts or of failures.

`Settles` assumes weak fairness of `Proceed` of every tab: the page's script runs
on, and answers that are not lost arrive. No fairness is assumed of the user, the
connection, losses or the clock, and a loss does not disable the script: after
one, the fetch's error handler goes on to the reload, as in the code. The
property speaks of browsers whose connection stays the same from some time on;
on one that changes with every fetch the page reloads for ever. The clock of the
model stops at `MaxTime`, so from some time on a search takes less than a
challenge lasts; a client that always needs longer is not covered by
`Settles`.

## Theorems

Checked by TLAPS for all values of the constants:

| Theorem | Statement |
|---------|-----------|
| `DifficultyTypeCorrect` | the difficulty state is well formed |
| `OwnPressureOnlyAlways` | once a worker has a difficulty, only its own ticks move it |
| `OfferedInBoundsAlways` | every difficulty a worker would offer is within its configuration's bounds, if these are ranges |
| `BumpAtMostSixAlways` | at most 6 bits above the base of some deployment, if the bounds are ranges |
| `TypeCorrect` | the filter's state is well formed |
| `EarnedAccessAlways` | `EarnedAccess` |
| `LapseIsFinalAlways` | `LapseIsFinal` |
| `IssuedInBoundsAlways` | every challenge issued is within the bounds of a deployed configuration with its secret, if the bounds are ranges |
| `LeaseImplemented` | the filter implements `AccessLease` |
| `DifficultyImplemented` | the filter implements `Difficulty` |
| `FilterPressure` | the difficulty theorems hold in the filter |
| `IPIntelDBTypeCorrect` | the state of a lookup is well formed |
| `LookupCompleteAlways` | `LookupComplete`: every record, and the first ASN of the best |
| `OneVerdictAlways` | `OneVerdict` |
| `GateMeansBestAlways` | `GateMeansBest` |
| `BrowserTypeCorrect` | jar, tabs and answers are well formed |
| `LostChallengeMeansClearedAlways` | for any number of tabs, a page that lost its challenge in time goes through when loaded again, if the cookies are kept long enough |
| `SolvedGetsInAlone` | `SolvedGetsIn`, for a single tab |
| `ClearedGoesThroughAlone` | `ClearedGoesThrough`, for a single tab without sliding renewal |
| `ActivityKeepsAccessAlone` | `ActivityKeepsAccess`, for a single tab of a client that keeps its cookies |
| `GatedAsMeantAlways` | `GatedAsMeant`, for every list and every request whose authority names a host |
| `CookiesReadAlways` | `CookiesRead`, for every header whose parts have names: the scan finds the last cookie of a name |
| `SinglePassEqualsGetCookieAlways` | `SinglePassEqualsGetCookie`: the scan reads what `getCookie` reads, if the parts of all headers that browsers write have names |
| `PageReadsTheSameAlways` | `PageReadsTheSame`, for every header as browsers write them whose parts have names: the scan reads what the page reads |

The argument. `EarnedAccess` speaks of the secrets of running workers and is not
inductive: a worker may start with any secret, so a credential under a secret
nobody runs must already be harmless. `Earned` says so of every credential and
every pending stream, and `Inv == TypeOK /\ Deployed /\ Earned` is inductive,
`Deployed` being that every running plugin is the compilation of a deployed
configuration. Four lemmas carry the weight: a renewal hands on the address of the
token it renews or none (`RenewKeeps`), an accepted solution is for the address
of the request (`AcceptKeeps`), a mint copies the stream (`MintKeeps`), and
neither a start nor a tick touches credentials. `LapseIsFinal` needs that
`Alive` cannot become true by the passing of time (`AliveMonotone`), that a
renewal finds its address alive (`RenewFindsAlive`), and that an acceptance
shows a challenge in force.

`BumpAtMostSix` is not inductive either, since a worker takes over the published
value: `Bumped` bounds the published value and every difficulty in force by the bases
of all deployments. That bumps do not add up rests on the tick starting from the base
of the configuration and never from the difficulty in force.

*The lease.* Every step of the filter is a step of `AccessLease` or a stutter. Each
credential extends the set of its own party only (`IssueStep`, `MintStep`); that a
renewal or an acceptance is allowed by the lease is what the checks of the tokens
amount to (`RenewStep`, `AcceptStep`), and needs `Inv` for the secrets to be
those of deployed configurations.

*The lookup.* After `next - 1` blocks the evidence is that of all records in them that
match, and the ASN the first of those told best there (`Tells`). Blocks passed over hold nothing on the
address because their headers are truthful. The verdict is unique because of two
evidences of different categories that count one precedes the other: the ranks of the
categories that count are all different. The one that comes first is within a point
of the heaviest because rounding moves each by half a point at most.

*The browser.* `Made` says of a challenge that the filter made it for this browser, no
further ahead than one lifetime. `Inv` says so of the challenge in the jar, of the one
a tab works on and of the one on its way, and that the jar keeps a challenge until it
is over. A tab alone finds its own challenge and nonce in the jar until it confirms
(`WorkKept`), and a clearance it was given stays there (`ClearanceKept`): with another
tab both are false, which `MCBrowserTabsSolve` shows. For `LostChallengeMeansCleared`
it is enough that each page still has its challenge or a clearance instead
(`PageKept`), which needs that a clearance is kept for as long as a challenge lasts
(`KeptLongEnough`): a challenge lasts 60 s, a clearance 30 minutes, and a renewed one is
kept for `renewal_ttl`, which is 60 s for the window of 10 s the documentation shows;
the theorem says nothing of a shorter one.

`ActivityKeepsAccess` compares a request with the last one that went through. What the
clearance good at that time is, the jar still holds as long as no challenge is on its
way to the tab (`ActivityKept`): within the window it is either good or renewed. It is
false for a client that honours Max-Age (`MCBrowserDashboard`).

*The protected list.* The invariant (`GatedByRules`) is simple, the strings are not. That
the compiled list gates what it means is shown in the order in which the code takes the
strings apart. Whatever way an authority is read as host and port, the host is what
`normalizeAuthority` leaves of it (`AuthorityHost`: a name with and without a port, an
address in brackets, a bare one). What stands before the first `?` is the path
(`PathBare`). A compiled wildcard matches exactly one label more than its name
(`WildMatches`), hence what its text means (`HostMeant`); an entry is dropped exactly if
it is invalid (`HostDropped`), and with it the rule (`RuleDropped`). Of the alphabet it is
assumed that no letter is a dot or a star and no digit a colon.

*The cookies.* The invariant (`CookiesParsed`) says that what the flow found is what
`ParseChallengeCookies` makes of the request's header; the rest is about headers. `Scan`
is a recursive function on positions, and that there is one (`ScanDefined`) is shown
by descent from the end of the header, since every round ends behind its beginning. What
it finds is shown by the same descent, from any position at which a part begins
(`ScanReads`): one round takes one part that has a name, whatever empty parts it passes
over, and leaves the later parts to the next (`RoundPart`, `OtherParts`,
`RoundKeepsReading`), so the last pair of a name is the last part of that name
(`ParseMeans`). Where the header is as a browser writes it, a name has one part, which
begins at the start or behind `"; "` (`CanonicalName`); `getCookie` and the page find that
part, and nothing else (`GetMeans`, `PageMeans`). `SinglePassEqualsGetCookieAlways` has a
hypothesis that the property has not: `MCRequestHeadersNameless` shows that it is false
on a header in which a cookie without a name stands in front.

The browser theorems assume `SaltsLeft`, that there is always another salt: the filter
reads 32 random bytes.

The assumption `RangesDeployed` (minimum at most maximum in every deployed
configuration) is needed: `MCDifficultyMinimumAlone` shows a difficulty below
the minimum without it. The named `ASSUME`s of the modules type the constants and keep
the "none" values apart from the others; `WordsAssumption` says that no word is a separator,
and `HeadersAssumption` also that every request names a host. TLC evaluates them in every run of the module.

Only model-checked: `PressurePasses` and `Settles`, liveness properties under fairness,
which are beyond the prover. Every invariant and every action property that the passing
runs check has a theorem; those of `SolvedGetsIn`, `ClearedGoesThrough` and
`ActivityKeepsAccess` are about a single tab, as the runs are.

## Not modelled

- The MAC, the hash and the salts: a signature cannot be made without the key,
  and a nonce either solves its challenge or does not.
- Spellings: `normalizeIP` and the encodings of tokens. What is not an address is
  `NoIP`; a token that does not decode is none. The wording of `Set-Cookie`.
- One kind of token taken for the other. Both are signed under one key and nothing in
  the signed text says which it is (`crypt.go:134`, `crypt.go:161`); only the layout
  tells them apart. The model keeps challenges and clearances in sets of their own. For
  known addresses this loses nothing, since a challenge read as a clearance names
  no address; of requests whose address is unknown the properties say nothing.
- The response bodies and headers, logging, metrics, the command line solver (one
  request, a search, one request), build and load test tooling.
- Of the database: opening it (the outcome is `DBOpens`), the bit-level decoding of
  blocks, and of a `Result` all but the verdict, which is all the plugin reads. That
  the headers of blocks are truthful is assumed of the program that builds it, which is
  not in the repository. Which of several ASNs of the same rank is told depends on the
  order of the records, of which nothing is assumed.
- In `Browser`, a jar holds a cookie once. A header with two `challenge` cookies (one set
  for a parent domain) makes the page fail while the filter reads the last one.
- Clocks that differ between replicas, and between browser and filter: there is
  one clock.
- Tabs that are closed, and cookies other sites or scripts set.

## Plan

Done: the difficulty, the filter and what they rest on; the browser; the protected
list and the cookies of a request; the database; the lease the filter implements;
and theorems about all of these. Left:

1. Replicas whose clocks differ: what a skew does to a token issued by one and
   presented to another.
2. The decoding of blocks against what the builder writes, once that is at hand.
3. Browsers and filters in one module, with several clients and a rotating secret: the
   two have only the operators of `Decisions` in common now.
