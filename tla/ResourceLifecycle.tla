-------------------------- MODULE ResourceLifecycle --------------------------
(***************************************************************************)
(* The durable life of one session resource: its row, the four kinds of    *)
(* lifecycle job the workers run on it, the runtime its provider holds,    *)
(* and the tool clients a worker process caches for it                     *)
(* (resourcework/resourcework.go, postgres/resource.go, mcp/cache.go,      *)
(* mcp/client.go, loop/resourcetools.go, http/resource_handler.go).        *)
(*                                                                         *)
(* Two resources share nothing the code relates, so the model has one.     *)
(* Each statement a job sends to the database, each call it makes to the   *)
(* provider and each use of the cache is a step of its own: a job reads    *)
(* its row without a lock and most of its writes do not look at the state  *)
(* again.  The provider names its runtime after the resource, as the       *)
(* Docker, Kubernetes and Nomad adapters do, so it holds at most one.      *)
(***************************************************************************)
EXTENDS Naturals, FiniteSets

CONSTANTS Workers,      \* worker processes; each runs one job at a time
          ToolHosts,    \* the worker processes that also run tool calls
          MaxEvents     \* bound on requests to restart or terminate, faults (crashes, failed
                        \* calls, lost hosts) and tool calls, together

ASSUME ConstantsOK ==
    /\ ToolHosts \subseteq Workers
    /\ MaxEvents \in Nat

VARIABLES row,      \* the resource's row; state "absent" before Request
          jobs,     \* kinds of job waiting to be claimed
          worker,   \* per process, the job in hand and how far it is
          runtime,  \* what the provider holds under the resource's name
          cache,    \* per tool host, the client the cache holds
          tool,     \* per tool host, the tool call in hand
          revoked,  \* clients that were revoked
          calls,    \* tool calls begun; a client has the number of the call that made it
          requests, \* restarts and terminations requested
          faults    \* faults so far

vars == <<row, jobs, worker, runtime, cache, tool, revoked, calls, requests, faults>>
cacheVars == <<cache, revoked>>

States == {"requested", "provisioning", "ready", "suspended",
           "terminating", "terminated", "failed"}
Terminal == {"terminated", "failed"}

Kinds == {"provision", "restart", "terminate", "reconcile"}

\* Time since updated_at: below the provision timeout, above it, or above ten.
Ages == {"fresh", "stalled", "expired"}

Rows == [state : States \cup {"absent"}, handle : BOOLEAN, epoch : Nat, age : Ages]

\* What the provider holds: nothing, or a runtime that accepts one token and
\* whose host can be reached or not.
NoRuntime == [there |-> FALSE, token |-> 0, up |-> FALSE]
Runtimes == [there : BOOLEAN, token : Nat, up : BOOLEAN]

NoEntry == [epoch |-> 0, id |-> 0]
Entries == [epoch : Nat, id : Nat]

Steps == {"idle", "mark", "acquire", "persist", "rotate", "forget",
          "restart", "release", "stop", "probe", "recover", "suspend", "park",
          "rearm", "await", "undo", "commit", "fail", "failing"}

\* seen is what the job first read of its row; token the epoch of the bearer
\* token it hands to the provider.
Idle == [kind |-> "none", pc |-> "idle", token |-> 0,
         seen |-> [state |-> "absent", handle |-> FALSE, age |-> "fresh"]]
Seen == [state : States \cup {"absent"}, handle : BOOLEAN, age : Ages]
Jobs == [kind : Kinds \cup {"none"}, pc : Steps, token : Nat, seen : Seen]

Rest == [pc |-> "idle", epoch |-> 0, id |-> 0]
ToolCalls == [pc : {"idle", "read", "held"}, epoch : Nat, id : Nat]

Init ==
    /\ row = [state |-> "absent", handle |-> FALSE, epoch |-> 1, age |-> "fresh"]
    /\ jobs = {}
    /\ worker = [w \in Workers |-> Idle]
    /\ runtime = NoRuntime
    /\ cache = [p \in ToolHosts |-> NoEntry]
    /\ tool = [p \in ToolHosts |-> Rest]
    /\ revoked = {}
    /\ calls = 0
    /\ requests = 0
    /\ faults = 0

-----------------------------------------------------------------------------
(***************************************************************************)
(* The store's updates.  Every one of them refreshes updated_at.           *)
(***************************************************************************)

SetState(s) == row' = [row EXCEPT !.state = s, !.age = "fresh"]
SetReady(handle) == row' = [row EXCEPT !.state = "ready", !.handle = handle, !.age = "fresh"]

\* EnqueueInTx; identical jobs that wait together count once.
Enqueue(ks) == jobs' = jobs \cup ks

\* Mutant: the entry is dropped, its client goes on.
InvalidateDropsOnly(w) ==
    IF w \in ToolHosts /\ cache[w] # NoEntry
    THEN cache' = [cache EXCEPT ![w] = NoEntry] /\ UNCHANGED revoked
    ELSE UNCHANGED cacheVars

\* Service.InvalidateToolClients in the process that runs the job: the entry
\* is dropped and its client revoked.
Invalidate(w) ==
    IF w \in ToolHosts /\ cache[w] # NoEntry
    THEN /\ cache' = [cache EXCEPT ![w] = NoEntry]
         /\ revoked' = revoked \cup {cache[w].id}
    ELSE UNCHANGED cacheVars

At(w, k, pc) == worker[w].kind = k /\ worker[w].pc = pc
Goto(w, pc) == worker' = [worker EXCEPT ![w].pc = pc]
Done(w) == worker' = [worker EXCEPT ![w] = Idle]
Room == requests + faults + calls < MaxEvents
Fault == Room /\ faults' = faults + 1
NoFault == UNCHANGED faults
Outside == UNCHANGED <<tool, calls, requests>>
NoCache == UNCHANGED cacheVars

\* Mutant: the job is acknowledged before it is done.
RetryLost(w) == Done(w) /\ UNCHANGED jobs

\* A worker returns an error: the queue delivers the job again.
Retry(w) == Done(w) /\ Enqueue({worker[w].kind})

-----------------------------------------------------------------------------
(***************************************************************************)
(* Requests                                                                *)
(***************************************************************************)

\* Service.Request: the row, the provision job and the watchdog commit together.
Request ==
    /\ row.state = "absent"
    /\ SetState("requested")
    /\ Enqueue({"provision", "reconcile"})
    /\ NoFault /\ NoCache /\ Outside
    /\ UNCHANGED <<worker, runtime>>

\* Service.RequestTerminate, under the row's lock.
RequestTerminate ==
    /\ Room
    /\ row.state \notin {"absent", "terminated"}
    /\ SetState("terminating")
    /\ Enqueue({"terminate"})
    /\ requests' = requests + 1
    /\ NoFault /\ NoCache
    /\ UNCHANGED <<worker, runtime, tool, calls>>

\* Mutant: the state is set and the job forgotten.
RequestRestartNoJob ==
    /\ Room
    /\ row.state \notin Terminal \cup {"absent", "terminating"}
    /\ SetState("provisioning")
    /\ requests' = requests + 1
    /\ NoFault /\ NoCache
    /\ UNCHANGED <<jobs, worker, runtime, tool, calls>>

\* Service.RequestRestart, under the row's lock.
RequestRestart ==
    /\ Room
    /\ row.state \notin Terminal \cup {"absent", "terminating"}
    /\ SetState("provisioning")
    /\ Enqueue({"restart"})
    /\ requests' = requests + 1
    /\ NoFault /\ NoCache
    /\ UNCHANGED <<worker, runtime, tool, calls>>

-----------------------------------------------------------------------------
(***************************************************************************)
(* Claiming a job and reading its row, without a lock.                     *)
(***************************************************************************)

\* The first step after the read, or "idle" for an early return.
FirstStep(k, s) ==
    CASE k = "provision" -> IF s \in Terminal \cup {"ready"} THEN "idle" ELSE "mark"
      [] k = "restart"   -> IF s \in Terminal THEN "idle" ELSE "rotate"
      [] k = "terminate" -> IF s = "terminated" THEN "idle" ELSE "release"
      [] k = "reconcile" -> IF s \in {"requested", "provisioning"} THEN "recover"
                            ELSE IF s \in {"ready", "suspended"} THEN "probe" ELSE "idle"

\* A reconcile goes by the state it read and the row's age, the others by
\* whether there was a handle.
Remembered(k) ==
    IF k = "reconcile"
    THEN [Idle.seen EXCEPT !.state = row.state, !.age = row.age]
    ELSE [Idle.seen EXCEPT !.handle = row.handle]

\* A worker claims a job and reads the row, which nobody else sees it do.
Claim(w, k) ==
    /\ worker[w].pc = "idle"
    /\ k \in jobs
    /\ jobs' = jobs \ {k}
    /\ LET first == FirstStep(k, row.state) IN
       IF first = "idle"
       THEN UNCHANGED worker
       ELSE worker' = [worker EXCEPT ![w] =
               [kind |-> k, pc |-> first,
                token |-> IF k = "provision" THEN row.epoch ELSE 0,
                seen |-> Remembered(k)]]
    /\ NoFault /\ NoCache /\ Outside
    /\ UNCHANGED <<row, runtime>>

\* A restart after it rotated the token, a termination before it calls the
\* provider, a suspension and a failure all drop the clients of this process
\* first; what follows is a step of its own.
ForgetClients(w) ==
    /\ worker[w].pc \in {"forget", "release", "suspend", "fail"}
    /\ Invalidate(w)
    /\ Goto(w, CASE worker[w].pc = "forget"  -> "restart"
                 [] worker[w].pc = "release" -> "stop"
                 [] worker[w].pc = "suspend" -> "park"
                 [] worker[w].pc = "fail"    -> "failing")
    /\ NoFault /\ Outside
    /\ UNCHANGED <<row, jobs, runtime>>

-----------------------------------------------------------------------------
(***************************************************************************)
(* Provision                                                               *)
(***************************************************************************)

\* SetProvisioning, whatever the state has become since the read.
Mark(w) ==
    /\ At(w, "provision", "mark")
    /\ SetState("provisioning")
    /\ Goto(w, "acquire")
    /\ NoFault /\ NoCache /\ Outside
    /\ UNCHANGED <<jobs, runtime>>

\* Service.acquire: the handle that was read, an adopted runtime, or a new one.
Acquire(w) ==
    /\ At(w, "provision", "acquire")
    /\ \/ /\ worker[w].seen.handle \/ runtime.there
          /\ Goto(w, "persist")
          /\ NoFault
          /\ UNCHANGED runtime
       \/ /\ ~worker[w].seen.handle /\ ~runtime.there
          /\ runtime' = [there |-> TRUE, token |-> worker[w].token, up |-> TRUE]
          /\ Goto(w, "persist")
          /\ NoFault
       \/ \* The provider is unknown, or refuses, having created its runtime or not.
          /\ Fault
          /\ \/ UNCHANGED runtime
             \/ /\ ~worker[w].seen.handle /\ ~runtime.there
                /\ runtime' = [there |-> TRUE, token |-> worker[w].token, up |-> TRUE]
          /\ Goto(w, "fail")
    /\ NoCache /\ Outside
    /\ UNCHANGED <<row, jobs>>

\* SetHandle, before the wait for health.
Persist(w) ==
    /\ At(w, "provision", "persist")
    /\ row' = [row EXCEPT !.handle = TRUE, !.age = "fresh"]
    /\ Goto(w, "await")
    /\ NoFault /\ NoCache /\ Outside
    /\ UNCHANGED <<jobs, runtime>>

-----------------------------------------------------------------------------
(***************************************************************************)
(* Restart                                                                 *)
(***************************************************************************)

\* RotateToken: a new token and the next epoch, unless the provider is unknown.
Rotate(w) ==
    /\ At(w, "restart", "rotate")
    /\ \/ /\ row' = [row EXCEPT !.epoch = @ + 1, !.age = "fresh"]
          /\ worker' = [worker EXCEPT ![w].pc = "forget", ![w].token = row.epoch + 1]
          /\ NoFault
       \/ /\ Fault
          /\ Goto(w, "fail")
          /\ UNCHANGED row
    /\ NoCache /\ Outside
    /\ UNCHANGED <<jobs, runtime>>

\* provider.Restart: the old runtime is removed and one with the new token is
\* made; without a handle, or when a call fails, the runtime may be gone.
RestartRuntime(w) ==
    /\ At(w, "restart", "restart")
    /\ \/ /\ worker[w].seen.handle
          /\ runtime' = [there |-> TRUE, token |-> worker[w].token, up |-> TRUE]
          /\ Goto(w, "await")
          /\ NoFault
       \/ /\ ~worker[w].seen.handle
          /\ UNCHANGED runtime
          /\ Goto(w, "fail")
          /\ NoFault
       \/ /\ worker[w].seen.handle
          /\ runtime' \in {runtime, NoRuntime}
          /\ Goto(w, "fail")
          /\ Fault
    /\ NoCache /\ Outside
    /\ UNCHANGED <<row, jobs>>

-----------------------------------------------------------------------------
(***************************************************************************)
(* Provision and restart: the wait for health and what follows it.         *)
(***************************************************************************)

\* awaitHealthy: ready once the provider and the health endpoint say so; a
\* runtime that is gone or cut off until the deadline is given up.
Await(w) ==
    /\ worker[w].pc = "await"
    /\ \/ /\ runtime.there /\ runtime.up
          /\ Goto(w, "commit")
       \/ /\ ~(runtime.there /\ runtime.up)
          /\ Goto(w, "undo")
    /\ NoFault /\ NoCache /\ Outside
    /\ UNCHANGED <<row, jobs, runtime>>

\* The runtime is terminated; an error of that call is ignored.
Undo(w) ==
    /\ worker[w].pc = "undo"
    /\ \/ runtime' = NoRuntime /\ NoFault
       \/ UNCHANGED runtime /\ Fault
    /\ Goto(w, "fail")
    /\ NoCache /\ Outside
    /\ UNCHANGED <<row, jobs>>

\* The closing transaction looks at the locked row: a provision goes on only
\* from provisioning, a restart from any state that is not terminal.
MayCommit(k, s) ==
    \/ k = "provision" /\ s = "provisioning"
    \/ k = "restart" /\ s \notin Terminal

\* Mutant: nothing watches the resource once it is ready.
CommitReadyUnwatched(w) ==
    /\ worker[w].kind \in {"provision", "restart"} /\ worker[w].pc = "commit"
    /\ IF MayCommit(worker[w].kind, row.state) THEN SetReady(TRUE) ELSE UNCHANGED row
    /\ Done(w)
    /\ NoFault /\ NoCache /\ Outside
    /\ UNCHANGED <<jobs, runtime>>

CommitReady(w) ==
    /\ worker[w].kind \in {"provision", "restart"} /\ worker[w].pc = "commit"
    /\ IF MayCommit(worker[w].kind, row.state)
       THEN SetReady(TRUE) /\ Enqueue({"reconcile"})
       ELSE UNCHANGED <<row, jobs>>
    /\ Done(w)
    /\ NoFault /\ NoCache /\ Outside
    /\ UNCHANGED runtime

\* Service.fail, its clients dropped: failed is written whatever the state.
Fail(w) ==
    /\ worker[w].pc = "failing"
    /\ SetState("failed")
    /\ Done(w)
    /\ NoFault /\ NoCache /\ Outside
    /\ UNCHANGED <<jobs, runtime>>

-----------------------------------------------------------------------------
(***************************************************************************)
(* Terminate                                                               *)
(***************************************************************************)

\* With a handle the provider is told.  An error of the provider retries the job.
Release(w) ==
    /\ At(w, "terminate", "stop")
    /\ \/ /\ runtime' = IF worker[w].seen.handle THEN NoRuntime ELSE runtime
          /\ Goto(w, "commit")
          /\ NoFault
          /\ UNCHANGED jobs
       \/ /\ worker[w].seen.handle
          /\ Retry(w)
          /\ Fault
          /\ UNCHANGED runtime
    /\ NoCache /\ Outside
    /\ UNCHANGED row

CommitTerminated(w) ==
    /\ At(w, "terminate", "commit")
    /\ SetState("terminated")
    /\ Done(w)
    /\ NoFault /\ NoCache /\ Outside
    /\ UNCHANGED <<jobs, runtime>>

-----------------------------------------------------------------------------
(***************************************************************************)
(* Reconcile                                                               *)
(***************************************************************************)

\* recoverProvisioning: wait on, give up, or drive the provision again.
Recover(w) ==
    /\ At(w, "reconcile", "recover")
    /\ \/ /\ worker[w].seen.age = "fresh"
          /\ Enqueue({"reconcile"})
          /\ Done(w)
       \/ /\ worker[w].seen.age = "expired"
          /\ UNCHANGED jobs
          /\ Goto(w, "fail")
       \/ /\ worker[w].seen.age = "stalled"
          /\ IF row.state \in {"requested", "provisioning"}
             THEN Enqueue({"provision", "reconcile"})
             ELSE UNCHANGED jobs
          /\ Done(w)
    /\ NoFault /\ NoCache /\ Outside
    /\ UNCHANGED <<row, runtime>>

\* Status and, for a tool endpoint, its health.  A lost host is a suspension,
\* a missing runtime a failure; a suspended resource is watched on until it is
\* one or the other.
Probe(w) ==
    /\ At(w, "reconcile", "probe")
    /\ LET was == worker[w].seen.state IN
       \/ /\ runtime.there /\ runtime.up
          /\ Goto(w, "commit")
          /\ UNCHANGED jobs
       \/ /\ runtime.there /\ ~runtime.up
          /\ IF was = "ready"
             THEN Goto(w, "suspend") /\ UNCHANGED jobs
             ELSE Done(w) /\ Enqueue({"reconcile"})
       \/ /\ ~runtime.there
          /\ Goto(w, "fail")
          /\ UNCHANGED jobs
    /\ NoFault /\ NoCache /\ Outside
    /\ UNCHANGED <<row, runtime>>

\* A probe that fails says nothing of a suspended resource, and fails a ready one.
ProbeError(w) ==
    /\ At(w, "reconcile", "probe")
    /\ Fault
    /\ IF worker[w].seen.state = "ready"
       THEN Goto(w, "fail") /\ UNCHANGED jobs
       ELSE Done(w) /\ Enqueue({"reconcile"})
    /\ NoCache /\ Outside
    /\ UNCHANGED <<row, runtime>>

\* The healthy end: a ready resource is watched on, a suspended one resumes;
\* neither when the locked row says something else by now.
CommitHealthy(w) ==
    /\ At(w, "reconcile", "commit")
    /\ IF row.state = worker[w].seen.state
       THEN /\ IF row.state = "suspended" THEN SetReady(row.handle) ELSE UNCHANGED row
            /\ Enqueue({"reconcile"})
       ELSE UNCHANGED <<row, jobs>>
    /\ Done(w)
    /\ NoFault /\ NoCache /\ Outside
    /\ UNCHANGED runtime

\* Service.suspend: only a ready row is parked.
Suspend(w) ==
    /\ At(w, "reconcile", "park")
    /\ IF row.state = "ready" THEN SetState("suspended") ELSE UNCHANGED row
    /\ Goto(w, "rearm")
    /\ NoFault /\ NoCache /\ Outside
    /\ UNCHANGED <<jobs, runtime>>

\* rearmReconcile, in a transaction of its own.
Rearm(w) ==
    /\ At(w, "reconcile", "rearm")
    /\ Enqueue({"reconcile"})
    /\ Done(w)
    /\ NoFault /\ NoCache /\ Outside
    /\ UNCHANGED <<row, runtime>>

-----------------------------------------------------------------------------
(***************************************************************************)
(* Tool calls                                                              *)
(***************************************************************************)

\* A ready row is read, and with it the token's epoch.
ToolRead(p) ==
    /\ tool[p].pc = "idle"
    /\ row.state = "ready"
    /\ Room
    /\ calls' = calls + 1
    /\ tool' = [tool EXCEPT ![p] = [pc |-> "read", epoch |-> row.epoch, id |-> calls + 1]]
    /\ NoFault /\ NoCache
    /\ UNCHANGED <<row, jobs, worker, runtime, requests>>

\* The tools of a step are those of the resources ready now; a human's preview
\* runs one tool of a ready resource.
Tools(p) == ToolRead(p)
Exec(p) == ToolRead(p)

\* Cache.Client with the epoch that was read: reuse, refuse an older epoch
\* than the entry's, or replace the entry and revoke its client.
ToolClient(p) ==
    /\ tool[p].pc = "read"
    /\ LET e == tool[p].epoch
           old == cache[p]
       IN \/ /\ old # NoEntry /\ old.epoch = e /\ old.id \notin revoked
             /\ tool' = [tool EXCEPT ![p].pc = "held", ![p].id = old.id]
             /\ NoCache
          \/ /\ old # NoEntry /\ old.epoch > e
             /\ tool' = [tool EXCEPT ![p] = Rest]
             /\ NoCache
          \/ /\ \/ old = NoEntry
                \/ old.epoch < e
                \/ old.epoch = e /\ old.id \in revoked
             /\ revoked' = IF old = NoEntry THEN revoked ELSE revoked \cup {old.id}
             /\ cache' = [cache EXCEPT ![p] = [epoch |-> e, id |-> tool[p].id]]
             /\ tool' = [tool EXCEPT ![p].pc = "held"]
    /\ NoFault
    /\ UNCHANGED <<row, jobs, worker, runtime, calls, requests>>

\* mcpTool.Run: the row must be ready; a revoked client fails before it
\* reaches the network.  The client is kept for the next call of the step.
Sends(p) == tool[p].pc = "held" /\ row.state = "ready" /\ tool[p].id \notin revoked

ToolCall(p) ==
    /\ tool[p].pc = "held"
    /\ tool' = IF Sends(p) THEN tool ELSE [tool EXCEPT ![p] = Rest]
    /\ NoFault /\ NoCache
    /\ UNCHANGED <<row, jobs, worker, runtime, calls, requests>>

\* The step ends, or the client cannot be initialised.
ToolEnd(p) ==
    /\ tool[p].pc # "idle"
    /\ tool' = [tool EXCEPT ![p] = Rest]
    /\ NoFault /\ NoCache
    /\ UNCHANGED <<row, jobs, worker, runtime, calls, requests>>

-----------------------------------------------------------------------------
(***************************************************************************)
(* The environment                                                         *)
(***************************************************************************)

\* A worker process dies: its job is delivered again, its cache is gone.
Crash(w) ==
    /\ worker[w].pc # "idle"
    /\ Fault
    /\ Retry(w)
    /\ IF w \in ToolHosts
       THEN /\ cache' = [cache EXCEPT ![w] = NoEntry]
            /\ tool' = [tool EXCEPT ![w] = Rest]
            /\ revoked' = revoked \cup ({cache[w].id, tool[w].id} \ {0})
       ELSE NoCache /\ UNCHANGED tool
    /\ UNCHANGED <<row, runtime, calls, requests>>

\* A statement fails or the job's context ends: the error goes back to the queue.
Cancelled(w) ==
    /\ worker[w].pc # "idle"
    /\ Fault
    /\ Retry(w)
    /\ NoCache /\ Outside
    /\ UNCHANGED <<row, runtime>>

\* A host is lost or comes back; a runtime is removed behind the platform's back.
HostLost == /\ runtime.there /\ runtime.up
            /\ Fault
            /\ runtime' = [runtime EXCEPT !.up = FALSE]
            /\ NoCache /\ Outside
            /\ UNCHANGED <<row, jobs, worker>>

HostBack == /\ runtime.there /\ ~runtime.up
            /\ runtime' = [runtime EXCEPT !.up = TRUE]
            /\ NoFault /\ NoCache /\ Outside
            /\ UNCHANGED <<row, jobs, worker>>

RuntimeLost == /\ runtime.there
               /\ Fault
               /\ runtime' = NoRuntime
               /\ NoCache /\ Outside
               /\ UNCHANGED <<row, jobs, worker>>

\* Time passes over a row nobody writes.
Age == /\ row.state \in {"requested", "provisioning"}
       /\ row.age # "expired"
       /\ row' = [row EXCEPT !.age = IF @ = "fresh" THEN "stalled" ELSE "expired"]
       /\ NoFault /\ NoCache /\ Outside
       /\ UNCHANGED <<jobs, worker, runtime>>

-----------------------------------------------------------------------------
(***************************************************************************)
(* The ways in: the API's handlers and the tools of a run.                 *)
(***************************************************************************)

\* resourceHandler.resolve: the row exists in the caller's tenant.
Resolved == row.state # "absent"

ProvisionResource == Request
TerminateResource == Resolved /\ RequestTerminate
RestartResource == Resolved /\ RequestRestart
ExecPreview(p) == Resolved /\ Exec(p)

API == ProvisionResource \/ TerminateResource \/ RestartResource

-----------------------------------------------------------------------------
Provision(w) == Mark(w) \/ Acquire(w) \/ Persist(w)
Restart(w) == Rotate(w) \/ RestartRuntime(w)
Terminate(w) == Release(w) \/ CommitTerminated(w)
Reconcile(w) ==
    \/ Recover(w) \/ Probe(w) \/ ProbeError(w) \/ CommitHealthy(w)
    \/ Suspend(w) \/ Rearm(w)

JobStep(w) ==
    \/ \E k \in Kinds : Claim(w, k)
    \/ ForgetClients(w)
    \/ Provision(w) \/ Restart(w) \/ Terminate(w) \/ Reconcile(w)
    \/ Await(w) \/ Undo(w) \/ CommitReady(w) \/ Fail(w)

ToolStep(p) == Tools(p) \/ ExecPreview(p) \/ ToolClient(p) \/ ToolCall(p) \/ ToolEnd(p)

Next ==
    \/ API
    \/ \E w \in Workers : JobStep(w) \/ Crash(w) \/ Cancelled(w)
    \/ \E p \in ToolHosts : ToolStep(p)
    \/ HostLost \/ HostBack \/ RuntimeLost \/ Age

Spec == Init /\ [][Next]_vars

\* A worker goes on with its job, time passes, and the reconcile jobs, which are
\* scheduled in the future, do not keep the others from being claimed.
Fairness ==
    /\ \A w \in Workers : WF_vars(JobStep(w))
    /\ \A k \in {"provision", "restart"} : SF_vars(\E w \in Workers : Claim(w, k))
    /\ WF_vars(Age)

FairSpec == Spec /\ Fairness

-----------------------------------------------------------------------------
(***************************************************************************)
(* Properties                                                              *)
(***************************************************************************)

\* Every variable has its type.
TypeOK ==
    /\ row \in Rows
    /\ jobs \subseteq Kinds
    /\ worker \in [Workers -> Jobs]
    /\ runtime \in Runtimes
    /\ cache \in [ToolHosts -> Entries]
    /\ tool \in [ToolHosts -> ToolCalls]
    /\ revoked \subseteq Nat
    /\ calls \in Nat /\ requests \in Nat /\ faults \in Nat

\* The kinds of job that will still look at the resource.
Busy == {worker[w].kind : w \in {v \in Workers : worker[v].pc # "idle"}}

\* A resource that is not over always has a job that will look at it again: no
\* early return, lost race, crash or retry of any of the four workers leaves
\* it requested, provisioning, ready or suspended with nobody to move it, and
\* one that is terminating has a job that terminates it (the watchdog of
\* Request, the self-rescheduling of Reconcile).
Watched ==
    /\ row.state \notin Terminal \cup {"absent"} => jobs \cup Busy # {}
    /\ row.state = "terminating" => "terminate" \in jobs \cup Busy

\* No runtime accepts a token newer than the row's: the token is rotated in the
\* database before the provider gets it, and a delivery that dies in between
\* leaves the row ahead, never the runtime.
TokenNotAhead == runtime.there => runtime.token <= row.epoch

\* In one process at most one client for the resource is not revoked, and it
\* is the one in the cache: a call that still holds an earlier one is refused
\* before it reaches the network.
OneLiveClient ==
    \A p \in ToolHosts :
        tool[p].pc = "held" /\ tool[p].id \notin revoked => cache[p].id = tool[p].id

\* A runtime the provider holds for a live resource is on file, or a provision
\* job that adopts it is still to come: a process that dies between the
\* provider's answer and SetHandle loses nothing that is not found again.  (A
\* terminate job that overtakes the provision does lose it: it reads no handle
\* and tells the provider nothing.)
RuntimeOnFile ==
    runtime.there /\ ~row.handle /\ row.state \notin Terminal \cup {"terminating"}
        => "provision" \in jobs \cup Busy

\* The row and the runtime stay in step as far as the jobs can ensure it, in
\* every order of their statements, provider calls, crashes and retries.
RuntimeInStep == TypeOK /\ TokenNotAhead /\ RuntimeOnFile

\* Provisioning ends, ready or not: no interleaving of the four jobs keeps a
\* resource in requested or provisioning forever.
ProvisioningEnds ==
    (row.state \in {"requested", "provisioning"})
        ~> (row.state \notin {"requested", "provisioning"})
=============================================================================
