-------------------------------- MODULE IPIntel --------------------------------
(***************************************************************************)
(* The ipintel gate in the filter (ipintel.go): the verdict of the embedded *)
(* database on an address never changes while the plugin runs, and is here *)
(* a constant; module IPIntelDB is about where it comes from.              *)
(***************************************************************************)
EXTENDS ClientIdentity, IPIntelGate

CONSTANT
    IPVerdict  \* the best category of every address ("unknown" for one the
               \* database has nothing on), or NoVerdict

ASSUME IPIntelAssumption ==
    /\ NoVerdict \notin Categories
    /\ IPVerdict \in [IPs -> Categories \cup {NoVerdict}]

\* The empty address is not an address, so looking it up fails.
IPIntelMatch(ip) == IF ip = NoIP THEN NoVerdict ELSE IPVerdict[ip]

PassesIPIntel(c, ip) == PassesVerdict(c, IPIntelMatch(ip))

Elevation(c, ip) == VerdictElevation(c, IPIntelMatch(ip))
=============================================================================
