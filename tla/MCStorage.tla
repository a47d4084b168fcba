------------------------------ MODULE MCStorage ------------------------------
(***************************************************************************)
(* What rests on the database's transactions: those of one session, and    *)
(* the job queue.  A behavior is one of one of the two.                    *)
(***************************************************************************)
EXTENDS SessionTx, JobQueue

VARIABLE part
mcVars == <<part, sessionVars, queueVars>>

MCInit ==
    /\ part \in {"session", "jobs"}
    /\ SessionInit
    /\ QueueInit /\ (part # "jobs" => backend = "inproc")

MCNext ==
    \/ part = "session" /\ SessionNext /\ UNCHANGED <<part, queueVars>>
    \/ part = "jobs" /\ QueueNext /\ UNCHANGED <<part, sessionVars>>

\* The fairness of JobQueue, in behaviors about jobs.
MCFairness ==
    /\ \A p \in Procs : WF_mcVars(part = "jobs" /\ Process(p) /\ UNCHANGED <<part, sessionVars>>)
    /\ \A j \in Jobs : WF_mcVars(part = "jobs" /\ Maintain(j) /\ UNCHANGED <<part, sessionVars>>)
MCSpec == MCInit /\ [][MCNext]_mcVars /\ SessionFairness /\ MCFairness

(* Nothing waits for ever: transactions come to their end although they    *)
(* wait for one another (Store.Tx), and jobs although processes stop and   *)
(* crash (RescueAfter).                                                    *)
WorkEnds == EveryTxEnds /\ EveryJobSettles
=============================================================================
