------------------------------ MODULE AccessLease ------------------------------
(***************************************************************************)
(* What the filter promises about access, without tokens, signatures,      *)
(* streams or workers.  A party is a client address under one secret.  It  *)
(* gets in while it holds a lease, and a lease has two origins only: a     *)
(* challenge solved in time, and a lease that is not over for longer than  *)
(* a renewal window.                                                       *)
(*                                                                         *)
(* Nothing is taken back: the credentials are in the parties' hands.  So   *)
(* what a party holds is a set of seconds from 0 on, which only grows.     *)
(***************************************************************************)
EXTENDS Integers

CONSTANTS
    Parties,
    ChallengeLifetime,  \* for how long a challenge can be solved
    ClearanceLifetime,  \* for how long a lease is granted
    Windows             \* the renewal windows that are used for each party

VARIABLES
    now,       \* the clock, in seconds
    solvable,  \* when the challenges issued to each party can be solved
    lease,     \* when each party has access
    granted    \* the parties about to be given a lease

leaseVars == <<now, solvable, lease, granted>>

Challenge(p) ==
    /\ solvable' = [solvable EXCEPT ![p] = @ \cup 0..(now + ChallengeLifetime)]
    /\ UNCHANGED <<now, lease, granted>>

Solve(p) ==
    /\ now \in solvable[p]
    /\ granted' = granted \cup {p}
    /\ UNCHANGED <<now, solvable, lease>>

Renew(p) ==
    /\ \E window \in Windows[p], t \in lease[p] : now <= t + window
    /\ granted' = granted \cup {p}
    /\ UNCHANGED <<now, solvable, lease>>

\* The party may be due another lease.
Grant(p) ==
    /\ p \in granted
    /\ lease' = [lease EXCEPT ![p] = @ \cup 0..(now + ClearanceLifetime)]
    /\ granted' \in {granted, granted \ {p}}
    /\ UNCHANGED <<now, solvable>>

Forget ==
    /\ granted' \in SUBSET granted
    /\ UNCHANGED <<now, solvable, lease>>

PassTime ==
    /\ now' = now + 1
    /\ UNCHANGED <<solvable, lease, granted>>

Init ==
    /\ now = 0
    /\ solvable = [p \in Parties |-> {}]
    /\ lease = [p \in Parties |-> {}]
    /\ granted = {}

Next ==
    \/ Forget
    \/ PassTime
    \/ \E p \in Parties : Challenge(p) \/ Solve(p) \/ Renew(p) \/ Grant(p)

Spec == Init /\ [][Next]_leaseVars
================================================================================
