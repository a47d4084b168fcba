------------------------------ MODULE MCAdmin ------------------------------
(***************************************************************************)
(* The admin API's commands, its lists and its other reads, side by side:  *)
(* a behavior is one of one of the three.                                  *)
(***************************************************************************)
EXTENDS AdminCommand, AdminQuery, AdminRead

VARIABLE part
mcVars == <<part, adminVars, queryVars, readVars>>

\* Of the reads, either the environment varies or what is in the database.
DefaultEnv == [tokens |-> Unset, token |-> "t2", role |-> "viewer", dev |-> TRUE]

MCInit ==
    /\ part \in {"commands", "lists", "reads"}
    /\ ReadInit
    /\ env = DefaultEnv \/ (rows = {} /\ wait = NoWait)
    /\ part # "reads" => env = DefaultEnv /\ rows = {} /\ wait = NoWait /\ river
    /\ AdminInit
    /\ part # "commands" => class = "resource" /\ flags = {} /\ cap = 1
    /\ QueryInit
    /\ part # "lists" => /\ column = Column("string", TRUE) /\ ~desc
                         /\ table = <<>> /\ filter = SortValues(Vals)

MCNext ==
    \/ part = "commands" /\ AdminNext /\ UNCHANGED <<part, queryVars, readVars>>
    \/ part = "lists" /\ QueryNext /\ UNCHANGED <<part, adminVars, readVars>>
    \/ part = "reads" /\ ReadNext /\ UNCHANGED <<part, adminVars, queryVars>>

MCSpec == MCInit /\ [][MCNext]_mcVars
============================================================================
