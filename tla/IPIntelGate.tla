------------------------------ MODULE IPIntelGate ------------------------------
(***************************************************************************)
(* The decision of the ipintel gate (ipintel.go, decideIPIntel): what the   *)
(* verdict on an address does to a request that carries no valid proof.    *)
(***************************************************************************)
EXTENDS Integers

CONSTANT
    NoVerdict  \* the empty string ipintelMatch returns when the lookup fails

\* mode=challenge lets every address with a verdict of no listed category pass.
PassesVerdict(c, verdict) ==
    /\ c.mode = "challenge"
    /\ verdict # NoVerdict
    /\ verdict \notin c.cats

\* mode=difficulty elevates the listed categories when a target is configured
\* (0 is no target, and no elevation).
VerdictElevation(c, verdict) ==
    IF c.mode = "difficulty" /\ verdict \in c.cats THEN c.target ELSE 0
================================================================================
