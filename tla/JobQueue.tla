------------------------------ MODULE JobQueue ------------------------------
(***************************************************************************)
(* The durable job queue and its two backends: inproc                      *)
(* (jobqueue/inproc/inproc.go), whose worker holds a job's row lock while  *)
(* it works, and River (jobqueue/river/river.go), which marks the job and  *)
(* rescues it when its worker has been gone for too long.  Producers       *)
(* enqueue in their own transactions (postgres/enqueue.go); worker         *)
(* processes come, stop and crash (cmd/coreworker/main.go).  What River    *)
(* does by itself is external, and modelled from its configuration here.   *)
(***************************************************************************)
EXTENDS Integers, FiniteSets

CONSTANTS
    Jobs,         \* jobs, by id: a smaller id was inserted earlier
    Procs,        \* worker processes, each with one worker
    MaxAttempts,  \* Options.MaxAttempts
    MaxFaults     \* bound: crashes, stops, lost connections, operator requests

ASSUME JobAssumption == Jobs \subseteq Nat /\ MaxAttempts \in Nat \ {0} /\ MaxFaults \in Nat

VARIABLES
    backend,   \* which queue is deployed
    job,       \* rows: state, attempts made, attempts allowed, whether due
    proc,      \* worker processes
    worked,    \* jobs some handler has returned from without an error
    jobFaults
queueVars == <<backend, job, proc, worked, jobFaults>>

NoJob == [st |-> "none", att |-> 0, max |-> MaxAttempts, due |-> FALSE, cancel |-> FALSE]
Down == [pc |-> "down", job |-> 0, ok |-> FALSE, stopping |-> FALSE]
Settled(j) == job[j].st = "done"
InHand(p, j) == proc[p].job = j /\ proc[p].pc \in {"claimed", "worked"}
Fault == jobFaults < MaxFaults /\ jobFaults' = jobFaults + 1

----------------------------------------------------------------------------
(* Producers: the row is inserted in the transaction of what it is about.  *)

EnqueueTx(j) ==
    /\ job[j].st = "none"
    /\ \E due \in BOOLEAN : job' = [job EXCEPT ![j] = [NoJob EXCEPT !.st = "open", !.due = due]]
    /\ UNCHANGED <<backend, proc, worked, jobFaults>>
CommitEnqueue(j) ==
    /\ job[j].st = "open" /\ job' = [job EXCEPT ![j].st = "ready"]
    /\ UNCHANGED <<backend, proc, worked, jobFaults>>
RollbackEnqueue(j) ==
    /\ job[j].st = "open" /\ job' = [job EXCEPT ![j] = [NoJob EXCEPT !.st = "gone"]]
    /\ UNCHANGED <<backend, proc, worked, jobFaults>>

\* run_at, or the retry delay, has passed.
Clock(j) ==
    /\ job[j].st = "ready" /\ ~job[j].due /\ job' = [job EXCEPT ![j].due = TRUE]
    /\ UNCHANGED <<backend, proc, worked, jobFaults>>

----------------------------------------------------------------------------
(* Workers.                                                                *)

Start(p) ==
    /\ proc[p].pc = "down" /\ proc' = [proc EXCEPT ![p].pc = "idle"]
    /\ UNCHANGED <<backend, job, worked, jobFaults>>

\* FOR UPDATE SKIP LOCKED
SkipLocked(j) == \A p \in Procs : ~InHand(p, j)
\* River's mark is in the row itself.
Ready(j) == job[j].st = "ready" /\ job[j].due /\ (backend = "inproc" => SkipLocked(j))

\* workOne: the oldest job that is ready.  River fetches likewise, and the
\* fetch is an attempt.
Claim(p) ==
    /\ proc[p].pc = "idle" /\ ~proc[p].stopping
    /\ \E j \in Jobs :
         /\ Ready(j) /\ \A i \in Jobs : Ready(i) => j <= i
         /\ proc' = [proc EXCEPT ![p].pc = "claimed", ![p].job = j]
         /\ job' = IF backend = "inproc" THEN job
                   ELSE [job EXCEPT ![j].st = "running", ![j].att = @ + 1]
    /\ UNCHANGED <<backend, worked, jobFaults>>

\* The handler returns; no handler for the kind, and a panic, are errors.
Handle(p) ==
    /\ proc[p].pc = "claimed"
    /\ \E ok \in BOOLEAN :
         /\ proc' = [proc EXCEPT ![p].pc = "worked", ![p].ok = ok]
         /\ worked' = IF ok THEN worked \cup {proc[p].job} ELSE worked
    /\ UNCHANGED <<backend, job, jobFaults>>

Drop(p) == [proc EXCEPT ![p] = [Down EXCEPT !.pc = "idle", !.stopping = proc[p].stopping]]

\* An error on the last attempt is final.
Outcome(j, ok, att) ==
    IF ok \/ job[j].cancel \/ att >= job[j].max
    THEN [job[j] EXCEPT !.st = "done", !.att = att]
    ELSE [job[j] EXCEPT !.st = "ready", !.att = att, !.due = FALSE]

FinishAnyway(p) ==  \* mutant
    LET j == proc[p].job
    IN  /\ proc[p].pc = "worked" /\ backend = "inproc"
        /\ job' = [job EXCEPT ![j] = Outcome(j, proc[p].ok \/ proc[p].stopping, job[j].att + 1)]
        /\ proc' = Drop(p)
        /\ UNCHANGED <<backend, worked, jobFaults>>
\* inproc writes the outcome in the transaction of the claim, with a context
\* that Stop cancels: then everything is rolled back.
Finish(p) ==
    LET j == proc[p].job
    IN  /\ proc[p].pc = "worked" /\ backend = "inproc"
        /\ job' = IF proc[p].stopping THEN job
                  ELSE [job EXCEPT ![j] = Outcome(j, proc[p].ok, job[j].att + 1)]
        /\ proc' = Drop(p)
        /\ UNCHANGED <<backend, worked, jobFaults>>

\* The connection of the claim is lost: its transaction with it.
FinishFails(p) ==
    /\ proc[p].pc \in {"claimed", "worked"} /\ backend = "inproc" /\ Fault
    /\ proc' = Drop(p)
    /\ UNCHANGED <<backend, job, worked>>

\* River records the outcome after the worker has returned.
RiverFinish(p) ==
    LET j == proc[p].job
    IN  /\ proc[p].pc = "worked" /\ backend = "river"
        /\ job' = [job EXCEPT ![j] = Outcome(j, proc[p].ok, job[j].att)]
        /\ proc' = Drop(p)
        /\ UNCHANGED <<backend, worked, jobFaults>>

\* A signal: no more claims, and the process ends when its worker is idle.
Stop(p) ==
    /\ proc[p].pc # "down" /\ ~proc[p].stopping /\ Fault
    /\ proc' = [proc EXCEPT ![p].stopping = TRUE]
    /\ UNCHANGED <<backend, job, worked>>
Exit(p) ==
    /\ proc[p].pc = "idle" /\ proc[p].stopping
    /\ proc' = [proc EXCEPT ![p] = Down]
    /\ UNCHANGED <<backend, job, worked, jobFaults>>

\* The process is killed, or its 30 s to stop are over.
Crash(p) ==
    /\ proc[p].pc # "down" /\ Fault
    /\ proc' = [proc EXCEPT ![p] = Down]
    /\ UNCHANGED <<backend, job, worked>>

----------------------------------------------------------------------------
(* River's rescuer, and what an operator may ask for (river/admin.go).     *)

AbandonedEarly(j) == job[j].st = "running"  \* mutant
\* JobTimeout has ended the handler long before RescueAfter.
Abandoned(j) == job[j].st = "running" /\ \A p \in Procs : ~InHand(p, j)
RescueNotLast(j) ==  \* mutant
    /\ backend = "river" /\ Abandoned(j) /\ job[j].att < job[j].max
    /\ job' = [job EXCEPT ![j] = Outcome(j, FALSE, job[j].att)]
    /\ UNCHANGED <<backend, proc, worked, jobFaults>>
Rescue(j) ==
    /\ backend = "river" /\ Abandoned(j)
    /\ job' = [job EXCEPT ![j] = Outcome(j, FALSE, job[j].att)]
    /\ UNCHANGED <<backend, proc, worked, jobFaults>>

\* A job being worked is only asked to end.
JobCancel(j) ==
    /\ backend = "river" /\ job[j].st \in {"ready", "running"} /\ Fault
    /\ job' = IF job[j].st = "ready" THEN [job EXCEPT ![j].st = "done", ![j].cancel = TRUE]
              ELSE [job EXCEPT ![j].cancel = TRUE]
    /\ UNCHANGED <<backend, proc, worked>>

\* At once, with one more attempt if none was left; not while it is worked.
JobRetry(j) ==
    /\ backend = "river" /\ job[j].st \in {"ready", "done"} /\ Fault
    /\ job' = [job EXCEPT ![j].st = "ready", ![j].due = TRUE, ![j].cancel = FALSE,
                          ![j].max = IF job[j].att >= @ THEN job[j].att + 1 ELSE @]
    /\ worked' = worked \ {j}
    /\ UNCHANGED <<backend, proc>>

----------------------------------------------------------------------------
QueueInit ==
    /\ backend \in {"inproc", "river"}
    /\ job = [j \in Jobs |-> NoJob]
    /\ proc = [p \in Procs |-> Down]
    /\ worked = {}
    /\ jobFaults = 0

Produce(j) == EnqueueTx(j) \/ CommitEnqueue(j) \/ RollbackEnqueue(j)
Process(p) == \/ Start(p) \/ Claim(p) \/ Handle(p) \/ Finish(p) \/ RiverFinish(p) \/ Exit(p)
Maintain(j) == Clock(j) \/ Rescue(j)

QueueNext ==
    \/ \E j \in Jobs : Produce(j) \/ Maintain(j) \/ JobCancel(j) \/ JobRetry(j)
    \/ \E p \in Procs : Process(p) \/ FinishFails(p) \/ Stop(p) \/ Crash(p)

\* Processes keep running and are started again, the clock and the rescuer
\* keep going.
QueueFairness == /\ \A p \in Procs : WF_queueVars(Process(p))
                 /\ \A j \in Jobs : WF_queueVars(Maintain(j))
QueueSpec == QueueInit /\ [][QueueNext]_queueVars /\ QueueFairness

----------------------------------------------------------------------------
(* Properties.                                                             *)

(* Types of the rows and of the processes.                                 *)
QueueTypeOK ==
    /\ \A j \in Jobs : /\ job[j].st \in {"none", "open", "gone", "ready", "running", "done"}
                       /\ job[j].att \in 0 .. job[j].max
    /\ \A p \in Procs : proc[p].pc \in {"down", "idle", "claimed", "worked"}
    /\ worked \subseteq Jobs /\ jobFaults \in 0 .. MaxFaults

(* Atomic enqueue (Enqueuer.EnqueueTx): what is being worked was           *)
(* committed, whatever becomes of the producer's transaction later.        *)
WorkedIsCommitted ==
    \A p \in Procs, j \in Jobs : InHand(p, j) => job[j].st \notin {"none", "open", "gone"}

(* Claims (SKIP LOCKED, RescueAfter > JobTimeout): crashes, lost           *)
(* connections and rescues never give one job to two workers at a time.    *)
OneWorkerPerJob ==
    \A p, q \in Procs, j \in Jobs : InHand(p, j) /\ InHand(q, j) => p = q

(* A job in hand is a committed one, in one pair of hands.                 *)
JobInOneHand == QueueTypeOK /\ WorkedIsCommitted /\ OneWorkerPerJob

Delivery == INSTANCE JobDelivery WITH
    phase <- [j \in Jobs |-> CASE job[j].st \in {"none", "open", "gone"} -> "absent"
                               [] job[j].st \in {"ready", "running"} -> "waiting"
                               [] OTHER -> "settled"],
    spent <- {j \in Jobs : job[j].att >= job[j].max},
    revoked <- {j \in Jobs : job[j].cancel}

(* At least once (Worker): either backend implements JobDelivery.          *)
ImplementsDelivery == Delivery!Spec

(* Redelivery (Config.RetryDelay, RescueAfter): a committed job is settled *)
(* in the end, however processes stop and crash.                           *)
EveryJobSettles == \A j \in Jobs : job[j].st = "ready" ~> Settled(j)
=============================================================================
