----------------------------- MODULE MCPowFilter -----------------------------
(***************************************************************************)
(* Instances of PowFilter for TLC.                                         *)
(***************************************************************************)
EXTENDS PowFilter

CONSTANTS k1, k2, a, b, c1, c2, site, open

\* The JSON of a deployment with this secret, window and renewal_ttl.  One
\* difficulty, except where the run is about it.
Deploy(secret, window, ttl) ==
    [secret |-> secret, base |-> 18, min |-> 18, max |-> 18,
     slidingRenewalTTL |-> window, renewalTTL |-> ttl, clientIPSource |-> "auto",
     mode |-> "", cats |-> {}, target |-> 0, protected |-> {}]

\* One deployment with sliding renewal.
Sliding == {Deploy(k1, 1, 1)}

\* A strict configuration with selective protection, sliding renewal and the
\* ipintel gate in mode=challenge, and a lenient one with another secret and
\* mode=difficulty.
Selective ==
    {[Deploy(k1, 1, 0) EXCEPT !.base = 25, !.min = 24, !.max = 26,
                              !.mode = "", !.cats = {"vpn"},
                              !.protected = {{site}, BadRule}],
     [Deploy(k2, 0, 0) EXCEPT !.base = 10, !.min = 8, !.max = 14,
                              !.mode = "difficulty", !.cats = {"vpn"}, !.target = 20,
                              !.clientIPSource = "source_address"]}

Direct(ip, conn) == [peer |-> ip, xff |-> <<>>, xri |-> NoIP, conn |-> conn]
Proxied(xff, xri) == [peer |-> NoIP, xff |-> xff, xri |-> xri, conn |-> NoConn]

\* A client, and an origin that has no address: what comes of their requests is
\* also asked for the address b, which sends none.
Unknown == Proxied(<<>>, NoIP)
SomeUnknown == {Direct(a, c1), Unknown}

\* A client directly, and one behind a proxy that is known by header only, and
\* not at all to a configuration that does not look at headers.
BehindProxy == {Direct(a, c1), Proxied(<<NoIP, b>>, a)}

Verdicts == [ip \in IPs |-> IF ip = a THEN "vpn" ELSE "hosting"]
NoVerdicts == [ip \in IPs |-> NoVerdict]

ScaledThresholds == <<1, 2, 3, 4, 5>>
NoHeader == {0}
HeaderValues == {0, 30}
=============================================================================
