---------------------------- MODULE ClientIdentity ----------------------------
(***************************************************************************)
(* Who a request comes from (main.go, "Client identity").  The host hands  *)
(* the filter an origin: the peer address of the connection, the           *)
(* X-Forwarded-For list, the X-Real-IP header and the connection id.  An   *)
(* address is here what normalizeIP made of it: the same IP for every      *)
(* spelling of one, NoIP for whatever is absent or is not an address.      *)
(***************************************************************************)
EXTENDS PluginConfig, Sequences

CONSTANTS
    IPs,      \* client addresses, normalised
    NoIP,     \* the empty string normalizeIP returns for what it rejects
    Conns,    \* Envoy's downstream connection ids
    NoConn,   \* the property is unavailable
    Origins   \* the origins requests come from

MaybeIP == IPs \cup {NoIP}
MaybeConn == Conns \cup {NoConn}

Origin == [peer: MaybeIP, xff: Seq(MaybeIP), xri: MaybeIP, conn: MaybeConn]

ASSUME IdentityAssumption ==
    /\ NoIP \notin IPs
    /\ NoConn \notin Conns
    /\ Origins \subseteq Origin

-----------------------------------------------------------------------------
\* The left-most usable address of the list, NoIP when there is none.
FirstForwardedIP(xff) ==
    LET usable == {i \in DOMAIN xff : xff[i] # NoIP}
        first  == {i \in usable : \A j \in usable : i <= j}
    IN  IF first = {} THEN NoIP ELSE xff[CHOOSE i \in first : TRUE]

\* The peer, unless it is unknown and the configuration lets the headers speak.
ResolveClientIP(c, origin) ==
    LET forwarded == FirstForwardedIP(origin.xff)
    IN  IF origin.peer # NoIP \/ c.clientIPSource = "source_address" THEN origin.peer
        ELSE IF forwarded # NoIP THEN forwarded ELSE origin.xri

\* The identity a challenge is bound to; a clearance is bound to its ip alone.
ClientContext == [ip: MaybeIP, conn: MaybeConn]

ResolveClientContext(c, origin) ==
    [ip |-> ResolveClientIP(c, origin), conn |-> origin.conn]
=============================================================================
