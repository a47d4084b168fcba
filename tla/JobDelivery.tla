---------------------------- MODULE JobDelivery ----------------------------
(***************************************************************************)
(* What a job queue promises its callers (jobqueue/jobqueue.go): a job     *)
(* that was committed waits until it is settled, and it is settled only    *)
(* because a worker worked it, because its attempts are spent, or because  *)
(* an operator withdrew it.                                                *)
(***************************************************************************)
CONSTANT Jobs

VARIABLES
    phase,    \* of each job
    worked,   \* jobs some worker returned from without an error
    spent,    \* jobs without an attempt left
    revoked   \* jobs an operator has asked to be cancelled
deliveryVars == <<phase, worked, spent, revoked>>

Init ==
    /\ phase = [j \in Jobs |-> "absent"]
    /\ worked = {} /\ spent = {} /\ revoked = {}

Submit(j) ==
    /\ phase[j] = "absent" /\ phase' = [phase EXCEPT ![j] = "waiting"]
    /\ UNCHANGED <<worked, spent, revoked>>

Work(j) ==
    /\ phase[j] = "waiting" /\ worked' = worked \cup {j}
    /\ UNCHANGED <<phase, spent, revoked>>

Spend(j) ==
    /\ phase[j] = "waiting" /\ spent' = spent \cup {j}
    /\ UNCHANGED <<phase, worked, revoked>>

Revoke(j) ==
    /\ phase[j] = "waiting" /\ revoked' = revoked \cup {j}
    /\ phase' \in {phase, [phase EXCEPT ![j] = "settled"]}
    /\ UNCHANGED <<worked, spent>>

Settle(j) ==
    /\ phase[j] = "waiting" /\ phase' = [phase EXCEPT ![j] = "settled"]
    /\ spent' \in {spent, spent \cup {j}}
    /\ j \in worked \cup spent' \cup revoked
    /\ UNCHANGED <<worked, revoked>>

\* An operator asks for another attempt.
Reopen(j) ==
    /\ phase[j] \in {"waiting", "settled"} /\ phase' = [phase EXCEPT ![j] = "waiting"]
    /\ spent' = spent \ {j} /\ worked' = worked \ {j} /\ revoked' = revoked \ {j}

Next == \E j \in Jobs : \/ Submit(j) \/ Work(j) \/ Spend(j) \/ Revoke(j)
                        \/ Settle(j) \/ Reopen(j)

Spec == Init /\ [][Next]_deliveryVars
============================================================================
