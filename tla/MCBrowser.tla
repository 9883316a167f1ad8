------------------------------- MODULE MCBrowser -------------------------------
(***************************************************************************)
(* Instances of Browser for TLC.                                           *)
(***************************************************************************)
EXTENDS Browser

CONSTANTS k1, ip1

\* The JSON of a deployment that sets the secret and the renewal only.
Deploy(window, ttl) ==
    [secret |-> k1, base |-> 0, min |-> 0, max |-> 0,
     slidingRenewalTTL |-> window, renewalTTL |-> ttl, clientIPSource |-> "auto",
     mode |-> "", cats |-> {}, target |-> 0, protected |-> {}]

\* Without sliding renewal; with a window of one, and a renewal_ttl as long as a
\* clearance lasts here.
NoRenewal == Deploy(0, 0)
Renewing == Deploy(1, 2)

NoVerdicts == [ip \in IPs |-> NoVerdict]
NoOrigins == {}
================================================================================
