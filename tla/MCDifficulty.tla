---------------------------- MODULE MCDifficulty ----------------------------
(***************************************************************************)
(* Instances of Difficulty for TLC.                                        *)
(***************************************************************************)
EXTENDS Difficulty, FiniteSets

CONSTANTS k1

\* The JSON of a deployment that sets only the secret and these numbers.
Deploy(base, min, max, mode, target) ==
    [secret |-> k1, base |-> base, min |-> min, max |-> max,
     slidingRenewalTTL |-> 0, renewalTTL |-> 0, clientIPSource |-> "auto",
     mode |-> mode, cats |-> IF mode = "" THEN {} ELSE Categories,
     target |-> target, protected |-> {}]

\* A rollout between a strict and a lenient configuration whose ranges do not
\* meet, the strict one with room for every bump, the lenient one with elevation
\* for matching addresses; and one whose secret is missing.
Rollout ==
    {Deploy(16, 14, 26, "", 0), Deploy(10, 8, 12, "difficulty", 20),
     [Deploy(16, 14, 26, "", 0) EXCEPT !.secret = NoKey]}

\* A minimum above 26 and no maximum: base and maximum become 26.
MinimumAlone == {Deploy(0, 28, 0, "", 0)}

\* The thresholds of the code without the counts between them, so that few
\* challenges reach every level.
ScaledThresholds ==
    [i \in 1..5 |-> Cardinality({j \in 1..5 : SourceThresholds[j] <= SourceThresholds[i]})]

\* No header, a header under every minimum, one over every maximum.
HeaderValues == {0, 1, 30}
NoHeader == {0}
=============================================================================
