------------------------------ MODULE Providers ------------------------------
(***************************************************************************)
(* The provider adapters (provider/localdocker, k8s, nomad, static,        *)
(* nullresource, tunnel) as the lifecycle jobs of one resource drive them. *)
(*                                                                         *)
(* An adapter's operation is a program: the calls it makes to its control  *)
(* plane, in their order, each a step of its own.  Between two steps the   *)
(* worker may die, and the queue then runs the job again from its start.   *)
(* ResourceLifecycle takes an adapter's operation for one step and         *)
(* interleaves jobs; here one worker runs one job at a time and the        *)
(* question is what the control plane is left holding.                     *)
(***************************************************************************)
EXTENDS Naturals, Sequences, FiniteSets

CONSTANTS Kinds,      \* the kinds of provider the deployment enables
          MaxUnits,   \* bound on containers, pods, allocations and processes
          MaxTokens,  \* bound on bearer tokens, so on restarts
          MaxFaults,  \* bound on worker deaths, failed calls, lost agents and dead units
          MaxTries    \* localdocker's budget for taken ports

ASSUME ProvidersConstants ==
    /\ Kinds \subseteq {"docker", "k8s", "nomad", "static", "null", "tunnel"}
    /\ MaxUnits \in Nat \ {0} /\ MaxTokens \in Nat \ {0} /\ MaxFaults \in Nat /\ MaxTries \in Nat

VARIABLES kind,     \* of the resource's provider instance
          serves,   \* whether the probe of it claims serves_tool_endpoint
          row,      \* state, handle and token of the resource
          queue,    \* lifecycle jobs, each until it is done
          prog,     \* the program the worker runs, and one a tunnel agent was left with
          units,    \* what runs: containers, pods, allocations, processes
          kept,     \* the other objects of the control plane
          secret,   \* the token in the Kubernetes secret
          data,     \* the workspace: none, empty, or with work in it
          agent,    \* the tunnel's agent
          faults

pvars == <<kind, serves, row, queue, prog, units, kept, secret, data, agent, faults>>
worldVars == <<units, kept, secret, data>>

\* A handle is the id of a unit, or the name every object of the resource shares.
NoHandle == 0
Named == MaxUnits + 1
Handles == 0 .. Named
Tokens == 0 .. MaxTokens

Phases == {"created", "pending", "running", "stopped", "deleting"}
Units == [id : 1 .. MaxUnits, token : Tokens, phase : Phases]
Objects == {"volume", "secret", "service", "job", "dir"}
RowStates == {"provisioning", "ready", "suspended", "failed", "terminating", "terminated"}
Over == {"failed", "terminated"}

-----------------------------------------------------------------------------
(***************************************************************************)
(* The adapters' operations                                                *)
(***************************************************************************)

DockerProvision == <<"volume", "create", "start", "inspect">>
DockerTerminate == <<"remove", "removeVolume">>

\* Mutant: restarting terminates first.
DockerRestartAnew == DockerTerminate \o DockerProvision

DockerRestart == <<"remove">> \o DockerProvision

K8sProvision == <<"secret", "pod", "service", "name">>

\* Mutant: the replacement does not wait for the old pod to go.
K8sRestartAtOnce == <<"deletePod">> \o K8sProvision

K8sRestart == <<"deletePod", "awaitPodAbsent">> \o K8sProvision

\* Mutant: the secret is forgotten.
K8sTerminateNoSecret == <<"deletePod", "deleteService">>

K8sTerminate == <<"deletePod", "deleteService", "deleteSecret">>

NomadProvision == <<"register", "name">>
NomadTerminate == <<"purge">>
NomadRestart == NomadTerminate \o <<"awaitJobAbsent">> \o NomadProvision

StaticProvision == <<"dir", "spawn", "awaitReady">>
StaticRestart == <<"stop">> \o StaticProvision
StaticTerminate == <<"stop", "removeDir">>

NullProvision == <<"put", "name">>
NullTerminate == <<"drop">>

\* The tunnel adapter sends one signed request; the agent runs localdocker.
TunnelProvision == <<"call">> \o DockerProvision
TunnelRestart == <<"call">> \o DockerRestart
TunnelTerminate == <<"call">> \o DockerTerminate

Provision ==
    CASE kind = "docker" -> DockerProvision
      [] kind = "k8s"    -> K8sProvision
      [] kind = "nomad"  -> NomadProvision
      [] kind = "static" -> StaticProvision
      [] kind = "null"   -> NullProvision
      [] kind = "tunnel" -> TunnelProvision

\* Without a handle Docker and Kubernetes refuse to restart; the others go on.
Restart(handle) ==
    IF handle = NoHandle /\ kind \in {"docker", "k8s", "tunnel"} THEN <<"refuse">>
    ELSE CASE kind = "docker" -> DockerRestart
           [] kind = "k8s"    -> K8sRestart
           [] kind = "nomad"  -> NomadRestart
           [] kind = "static" -> StaticRestart
           [] kind = "null"   -> NullProvision
           [] kind = "tunnel" -> TunnelRestart

Terminate ==
    CASE kind = "docker" -> DockerTerminate
      [] kind = "k8s"    -> K8sTerminate
      [] kind = "nomad"  -> NomadTerminate
      [] kind = "static" -> StaticTerminate
      [] kind = "null"   -> NullTerminate
      [] kind = "tunnel" -> TunnelTerminate

\* The adapters with an Adopt.
Adopters == {"docker", "k8s", "nomad", "null"}

\* What each adapter's Probe claims; localdocker has none.
K8sClaims == {"adopts_orphans", "enumerates_resources"}
NomadClaims == {"adopts_orphans", "enumerates_resources"}
StaticClaims == {"enumerates_resources", "restart_preserves_state"}
NullClaims == {"adopts_orphans", "enumerates_resources"}
TunnelClaims == {"enumerates_resources", "restart_preserves_state", "tolerates_disconnect"}

Claims ==
    CASE kind = "docker" -> {}
      [] kind = "k8s"    -> K8sClaims
      [] kind = "nomad"  -> NomadClaims
      [] kind = "static" -> StaticClaims
      [] kind = "null"   -> NullClaims
      [] kind = "tunnel" -> TunnelClaims

\* Registry.DryRun: whether the probe finds that tool endpoints are served;
\* a cluster may refuse services.
DryRun(k) ==
    CASE k \in {"docker", "null"} -> {FALSE}
      [] k = "k8s" -> BOOLEAN
      [] OTHER -> {TRUE}

-----------------------------------------------------------------------------
(***************************************************************************)
(* What the adapters report                                                *)
(***************************************************************************)

UnitOf(h) == {u \in units : u.id = h}
In(us, phases) == \E u \in us : u.phase \in phases

\* A pod or an allocation that is being deleted still runs, and is reported so.
DockerStatus(h) == IF In(UnitOf(h), {"running"}) THEN "ready" ELSE "failed"

K8sStatus ==
    CASE In(units, {"running", "deleting"}) -> "ready"
      [] In(units, {"pending"}) -> "provisioning"
      [] OTHER -> "failed"

NomadStatus ==
    CASE "job" \notin kept -> "failed"
      [] In(units, {"running", "deleting"}) -> "ready"
      [] units = {} \/ In(units, {"pending"}) -> "provisioning"
      [] OTHER -> "failed"

StaticStatus(h) == IF UnitOf(h) # {} THEN "ready" ELSE "failed"
NullStatus(h) == IF units # {} \/ h # NoHandle THEN "ready" ELSE "failed"

TunnelStatus(h) ==
    CASE ~agent.up -> "suspended"
      [] agent.up /\ agent.revoked -> "terminated"
      [] OTHER -> DockerStatus(h)

Status(h) ==
    CASE kind = "docker" -> DockerStatus(h)
      [] kind = "k8s"    -> K8sStatus
      [] kind = "nomad"  -> NomadStatus
      [] kind = "static" -> StaticStatus(h)
      [] kind = "null"   -> NullStatus(h)
      [] kind = "tunnel" -> TunnelStatus(h)

\* The units an endpoint read now may lead to: the one the handle names, or
\* those behind a service and a job.
UnitEndpoint(h) == UnitOf(h)
K8sEndpoint ==
    IF "service" \in kept THEN {u \in units : u.phase \in {"running", "deleting"}} ELSE {}
NomadEndpoint == {u \in units : u.phase \in {"running", "deleting"}}

Endpoint(h) ==
    CASE kind \in {"docker", "static", "tunnel"} -> UnitEndpoint(h)
      [] kind = "k8s" -> K8sEndpoint
      [] kind = "nomad" -> NomadEndpoint
      [] kind = "null" -> {}

\* awaitHealthy: ready, with an endpoint; where tools are served, one that answers.
Healthy(h) ==
    /\ Status(h) = "ready"
    /\ kind # "null" => Endpoint(h) # {}

-----------------------------------------------------------------------------
(***************************************************************************)
(* Running a program                                                       *)
(***************************************************************************)

Nothing == [op |-> "none", todo |-> <<>>, handle |-> NoHandle, token |-> 0, unit |-> 0, tries |-> 0]
Ops == {"none", "provision", "restart", "terminate", "undo"}
PlatformSteps == {"setHandle", "await", "commit", "fail", "terminated"}
AdapterSteps ==
    {"adopt", "refuse", "call", "volume", "create", "start", "adoptStart", "inspect", "remove",
     "removeVolume", "secret", "pod", "service", "name", "deletePod", "awaitPodAbsent", "deleteService",
     "deleteSecret", "register", "purge", "awaitJobAbsent", "dir", "spawn", "awaitReady", "stop",
     "removeDir", "put", "drop"}
Programs == [op : Ops, todo : Seq(PlatformSteps \cup AdapterSteps), handle : Handles,
             token : Tokens, unit : 0 .. MaxUnits, tries : 0 .. MaxTries]

Slots == {"job", "stray"}
At(p, step) == prog[p].todo # <<>> /\ Head(prog[p].todo) = step
Advance(p) == prog' = [prog EXCEPT ![p].todo = Tail(@)]
Quiet == UNCHANGED <<kind, serves, row, queue, agent, faults>>

\* An adapter returns an error: a termination is left to the queue, an undo and
\* the other jobs end in failure.  Nobody hears of a stray program's end.
Failed(p) ==
    prog' = [prog EXCEPT ![p] =
        IF p = "stray" \/ prog[p].op = "terminate" THEN Nothing
        ELSE [@ EXCEPT !.todo = <<"fail">>]]

Refuse ==
    /\ At("job", "refuse")
    /\ Failed("job")
    /\ Quiet /\ UNCHANGED worldVars

\* A call to the control plane returns an error, having done nothing; Docker's
\* Restart does not look at the error of the removal.
CallFails(p) ==
    /\ faults < MaxFaults /\ faults' = faults + 1
    /\ prog[p].todo # <<>> /\ Head(prog[p].todo) \in AdapterSteps \ {"refuse", "name", "stop"}
    /\ IF Head(prog[p].todo) = "remove" /\ prog[p].op = "restart" THEN Advance(p) ELSE Failed(p)
    /\ UNCHANGED <<kind, serves, row, queue, agent>> /\ UNCHANGED worldVars

\* A unit gets an id that nothing refers to.
FreeIds ==
    1 .. MaxUnits \ ({u.id : u \in units} \cup {row.handle} \cup
                     UNION {{prog[p].handle, prog[p].unit} : p \in Slots})
FreshId == CHOOSE i \in FreeIds : TRUE
NewUnit(p, phase) == [id |-> FreshId, token |-> prog[p].token, phase |-> phase]
SetPhase(u, phase) == units' = (units \ {u}) \cup {[u EXCEPT !.phase = phase]}
\* The units once they are told to go: what runs takes its time.
Deleting == {[u EXCEPT !.phase = "deleting"] : u \in {v \in units : v.phase \in {"running", "deleting"}}}
Without(obj) == kept' = kept \ {obj}
With(obj) == kept' = kept \cup {obj}
Workspace == data' = IF data = "none" THEN "empty" ELSE data

-----------------------------------------------------------------------------
(***************************************************************************)
(* localdocker                                                             *)
(***************************************************************************)

\* Adopt: the labelled container, started if it was not; else Provision.
DockerAdopt ==
    /\ kind = "docker" /\ At("job", "adopt")
    /\ \/ units = {} /\ prog' = [prog EXCEPT !["job"].todo = Provision \o Tail(@)]
       \/ \E u \in units :
            prog' = [prog EXCEPT !["job"].unit = u.id,
                                 !["job"].todo = (IF u.phase = "running" THEN <<"inspect">>
                                                  ELSE <<"adoptStart", "inspect">>) \o Tail(@)]
    /\ Quiet /\ UNCHANGED worldVars

VolumeCreate(p) ==
    /\ At(p, "volume")
    /\ With("volume") /\ Workspace
    /\ Advance(p)
    /\ Quiet /\ UNCHANGED <<units, secret>>

\* The container is named after the resource: a second one conflicts.
ContainerCreate(p) ==
    /\ At(p, "create") /\ FreeIds # {}
    /\ IF units # {}
       THEN Failed(p) /\ UNCHANGED units
       ELSE /\ units' = units \cup {NewUnit(p, "created")}
            /\ prog' = [prog EXCEPT ![p].unit = FreshId, ![p].todo = Tail(@)]
    /\ Quiet /\ UNCHANGED <<kept, secret, data>>

\* ContainerStart; a container that is gone cannot be started.
ContainerStart(p) ==
    /\ At(p, "start") \/ At(p, "adoptStart")
    /\ \/ \E u \in UnitOf(prog[p].unit) : SetPhase(u, "running") /\ Advance(p)
       \/ UnitOf(prog[p].unit) = {} /\ Failed(p) /\ UNCHANGED units
    /\ Quiet /\ UNCHANGED <<kept, secret, data>>

\* The published port is taken: the container is removed and provisionRetry
\* starts over, as often as its budget allows; Adopt has no such retry.
PortTaken(p) ==
    /\ At(p, "start")
    /\ faults < MaxFaults /\ faults' = faults + 1
    /\ units' = units \ UnitOf(prog[p].unit)
    /\ IF prog[p].tries < MaxTries
       THEN prog' = [prog EXCEPT ![p].tries = @ + 1, ![p].todo = <<"volume", "create">> \o @]
       ELSE Failed(p)
    /\ UNCHANGED <<kind, serves, row, queue, agent, kept, secret, data>>

\* inspect: the handle is the container's id.
ContainerInspect(p) ==
    /\ At(p, "inspect")
    /\ IF In(UnitOf(prog[p].unit), {"running"})
       THEN prog' = [prog EXCEPT ![p].handle = prog[p].unit, ![p].todo = Tail(@)]
       ELSE Failed(p)
    /\ Quiet /\ UNCHANGED worldVars

\* ContainerRemove by the id in the handle; one that is not there is fine.
ContainerRemove(p) ==
    /\ At(p, "remove")
    /\ units' = units \ UnitOf(prog[p].handle)
    /\ Advance(p)
    /\ Quiet /\ UNCHANGED <<kept, secret, data>>

\* VolumeRemove, which a container that mounts the volume prevents.
VolumeRemove(p) ==
    /\ At(p, "removeVolume")
    /\ IF units # {}
       THEN Failed(p) /\ UNCHANGED <<kept, data>>
       ELSE Without("volume") /\ data' = "none" /\ Advance(p)
    /\ Quiet /\ UNCHANGED <<units, secret>>

Docker(p) ==
    \/ VolumeCreate(p) \/ ContainerCreate(p) \/ ContainerStart(p) \/ ContainerInspect(p)
    \/ ContainerRemove(p) \/ VolumeRemove(p)

-----------------------------------------------------------------------------
(***************************************************************************)
(* k8s                                                                     *)
(***************************************************************************)

\* Adopt looks for pods only, deleted ones included.
K8sAdopt ==
    /\ kind = "k8s" /\ At("job", "adopt")
    /\ prog' = [prog EXCEPT !["job"].todo =
         (IF units = {} THEN Provision ELSE <<"name">>) \o Tail(@)]
    /\ Quiet /\ UNCHANGED worldVars

\* applySecret: created, or updated with the token that may have rotated.
ApplySecret ==
    /\ At("job", "secret")
    /\ With("secret") /\ secret' = prog.job.token
    /\ Advance("job")
    /\ Quiet /\ UNCHANGED <<units, data>>

\* applyPod: a pod of that name is taken for this resource's own.
ApplyPod ==
    /\ At("job", "pod") /\ FreeIds # {}
    /\ IF units = {}
       THEN units' = {NewUnit("job", "pending")} /\ data' = "empty"
       ELSE UNCHANGED <<units, data>>
    /\ Advance("job")
    /\ Quiet /\ UNCHANGED <<kept, secret>>

\* applyService; a cluster that refuses services refuses this one.
ApplyService ==
    /\ At("job", "service")
    /\ IF serves \/ "service" \in kept
       THEN With("service") /\ Advance("job")
       ELSE Failed("job") /\ UNCHANGED kept
    /\ Quiet /\ UNCHANGED <<units, secret, data>>

\* Foreground deletion: the pod is marked and goes later.
DeletePod ==
    /\ At("job", "deletePod")
    /\ units' = Deleting
    /\ data' = IF Deleting # {} THEN data ELSE "none"
    /\ Advance("job")
    /\ Quiet /\ UNCHANGED <<kept, secret>>

\* awaitPodAbsent, until it gives up.
AwaitPodAbsent ==
    /\ At("job", "awaitPodAbsent")
    /\ IF units = {} THEN Advance("job") ELSE Failed("job")
    /\ Quiet /\ UNCHANGED worldVars

DeleteObject(step, obj) ==
    /\ At("job", step)
    /\ Without(obj)
    /\ Advance("job")
    /\ Quiet /\ UNCHANGED <<units, secret, data>>

K8s ==
    \/ K8sAdopt \/ ApplySecret \/ ApplyPod \/ ApplyService \/ DeletePod \/ AwaitPodAbsent
    \/ DeleteObject("deleteService", "service") \/ DeleteObject("deleteSecret", "secret")

-----------------------------------------------------------------------------
(***************************************************************************)
(* nomad                                                                   *)
(***************************************************************************)

NomadAdopt ==
    /\ kind = "nomad" /\ At("job", "adopt")
    /\ prog' = [prog EXCEPT !["job"].todo =
         (IF "job" \in kept THEN <<"name">> ELSE Provision) \o Tail(@)]
    /\ Quiet /\ UNCHANGED worldVars

\* Jobs.Register is an upsert: the same specification changes nothing, another
\* token means another allocation.
Register ==
    /\ At("job", "register")
    /\ With("job")
    /\ IF "job" \in kept /\ \E u \in units : u.token = prog.job.token
       THEN UNCHANGED <<units, data>>
       ELSE /\ FreeIds # {}
            /\ units' = Deleting \cup {NewUnit("job", "pending")}
            /\ data' = "empty"
    /\ Advance("job")
    /\ Quiet /\ UNCHANGED secret

\* Jobs.Deregister with purge: the job goes at once, its allocation later.
Purge ==
    /\ At("job", "purge")
    /\ IF prog.job.handle = NoHandle
       THEN UNCHANGED <<units, kept, data>>
       ELSE /\ Without("job")
            /\ units' = Deleting
            /\ data' = IF Deleting # {} THEN data ELSE "none"
    /\ Advance("job")
    /\ Quiet /\ UNCHANGED secret

AwaitJobAbsent ==
    /\ At("job", "awaitJobAbsent")
    /\ IF "job" \in kept THEN Failed("job") ELSE Advance("job")
    /\ Quiet /\ UNCHANGED worldVars

Nomad == NomadAdopt \/ Register \/ Purge \/ AwaitJobAbsent

-----------------------------------------------------------------------------
(***************************************************************************)
(* static and nullresource                                                 *)
(***************************************************************************)

\* The workspace directory; there is no Adopt to look for an earlier process.
MakeDir ==
    /\ At("job", "dir")
    /\ With("dir") /\ Workspace
    /\ Advance("job")
    /\ Quiet /\ UNCHANGED <<units, secret>>

Spawn ==
    /\ At("job", "spawn") /\ FreeIds # {}
    /\ units' = units \cup {NewUnit("job", "running")}
    /\ prog' = [prog EXCEPT !["job"].unit = FreshId, !["job"].todo = Tail(@)]
    /\ Quiet /\ UNCHANGED <<kept, secret, data>>

\* awaitReady: the handle, or the process is stopped and an error returned.
AwaitReady ==
    /\ At("job", "awaitReady")
    /\ IF UnitOf(prog.job.unit) # {}
       THEN prog' = [prog EXCEPT !["job"].handle = prog.job.unit, !["job"].todo = Tail(@)]
       ELSE Failed("job")
    /\ Quiet /\ UNCHANGED worldVars

\* stop: the process in the handle, if it is there.
StopProcess ==
    /\ At("job", "stop")
    /\ units' = units \ UnitOf(prog.job.handle)
    /\ Advance("job")
    /\ Quiet /\ UNCHANGED <<kept, secret, data>>

RemoveDir ==
    /\ At("job", "removeDir")
    /\ Without("dir") /\ data' = "none"
    /\ Advance("job")
    /\ Quiet /\ UNCHANGED <<units, secret>>

NullAdopt ==
    /\ kind = "null" /\ At("job", "adopt")
    /\ prog' = [prog EXCEPT !["job"].todo =
         (IF units = {} THEN Provision ELSE <<"name">>) \o Tail(@)]
    /\ Quiet /\ UNCHANGED worldVars

\* Provision and Restart put the resource's entry into the process's map.
Put ==
    /\ At("job", "put")
    /\ units' = {[id |-> 1, token |-> prog.job.token, phase |-> "running"]}
    /\ Advance("job")
    /\ Quiet /\ UNCHANGED <<kept, secret, data>>

Drop ==
    /\ At("job", "drop")
    /\ units' = {}
    /\ Advance("job")
    /\ Quiet /\ UNCHANGED <<kept, secret, data>>

\* The handle of the adapters that name what they make.
TakeName ==
    /\ At("job", "name")
    /\ prog' = [prog EXCEPT !["job"].handle = Named, !["job"].todo = Tail(@)]
    /\ Quiet /\ UNCHANGED worldVars

Static == MakeDir \/ Spawn \/ AwaitReady \/ StopProcess \/ RemoveDir
Null == NullAdopt \/ Put \/ Drop

-----------------------------------------------------------------------------
(***************************************************************************)
(* tunnel                                                                  *)
(***************************************************************************)

Remote(step) == step \in AdapterSteps \ {"call"}
\* How many steps of a program are the agent's; they come before the platform's.
RemoteSteps(todo) == Cardinality({i \in DOMAIN todo : Remote(todo[i])})

\* Provider.call and Agent.guard: unreachable and revoked are errors, but a
\* termination takes a revoked agent to have released everything and goes on to
\* the platform's last step.
Call ==
    /\ At("job", "call")
    /\ \/ agent.up /\ ~agent.revoked /\ Advance("job")
       \/ /\ agent.up /\ agent.revoked /\ prog.job.op \in {"terminate", "undo"}
          /\ prog' = [prog EXCEPT !["job"].todo = <<@[Len(@)]>>]
       \/ /\ ~agent.up \/ (agent.revoked /\ prog.job.op \notin {"terminate", "undo"})
          /\ Failed("job")
    /\ Quiet /\ UNCHANGED worldVars

\* What goes on at the agent when the platform no longer waits for it.
LeftBehind ==
    IF kind = "tunnel" /\ prog.job.todo # <<>> /\ Remote(Head(prog.job.todo))
    THEN [prog.job EXCEPT !.todo = SubSeq(@, 1, RemoteSteps(@))]
    ELSE prog.stray

\* The answer is late or the connection breaks: the platform has an error, the
\* agent may be anywhere in the request.
CallLost ==
    /\ kind = "tunnel" /\ prog.job.todo # <<>> /\ Remote(Head(prog.job.todo))
    /\ faults < MaxFaults /\ faults' = faults + 1
    /\ prog' = [prog EXCEPT !["stray"] = LeftBehind,
                            !["job"] = IF prog.job.op = "terminate" THEN Nothing
                                       ELSE [@ EXCEPT !.todo = <<"fail">>]]
    /\ UNCHANGED <<kind, serves, row, queue, agent>> /\ UNCHANGED worldVars

\* The request's context ends at the agent, or the program has ended.
StrayEnds ==
    /\ prog.stray # Nothing
    /\ prog' = [prog EXCEPT !["stray"] = Nothing]
    /\ Quiet /\ UNCHANGED worldVars

AgentDown ==
    /\ kind = "tunnel" /\ agent.up
    /\ faults < MaxFaults /\ faults' = faults + 1
    /\ agent' = [agent EXCEPT !.up = FALSE]
    /\ UNCHANGED <<kind, serves, row, queue, prog>> /\ UNCHANGED worldVars

AgentUp ==
    /\ kind = "tunnel" /\ ~agent.up
    /\ agent' = [agent EXCEPT !.up = TRUE]
    /\ UNCHANGED <<kind, serves, row, queue, prog, faults>> /\ UNCHANGED worldVars

\* RevokeLease and Agent.revoke: only what the request's handle names is
\* released, and an error of that is ignored.
RevokeLease(withHandle) ==
    /\ kind = "tunnel" /\ agent.up /\ ~agent.revoked
    /\ faults < MaxFaults /\ faults' = faults + 1
    /\ agent' = [agent EXCEPT !.revoked = TRUE]
    /\ prog' = [prog EXCEPT !["stray"] =
         IF withHandle /\ row.handle # NoHandle
         THEN [Nothing EXCEPT !.todo = DockerTerminate, !.handle = row.handle]
         ELSE @]
    /\ UNCHANGED <<kind, serves, row, queue>> /\ UNCHANGED worldVars

Tunnel ==
    \/ Call \/ CallLost \/ StrayEnds \/ AgentDown \/ AgentUp
    \/ \E withHandle \in BOOLEAN : RevokeLease(withHandle)

-----------------------------------------------------------------------------
(***************************************************************************)
(* The control planes' own steps                                           *)
(***************************************************************************)

\* A pod reads the secret when its container starts; an allocation was given
\* its token.
UnitStarts(u) ==
    /\ u.phase = "pending"
    /\ kind = "k8s" => "secret" \in kept
    /\ units' = (units \ {u}) \cup
         {[u EXCEPT !.phase = "running", !.token = IF kind = "k8s" THEN secret ELSE @]}
    /\ Quiet /\ UNCHANGED <<prog, kept, secret, data>>

UnitGone(u) ==
    /\ u.phase = "deleting"
    /\ units' = units \ {u}
    /\ data' = IF kind \in {"k8s", "nomad"} /\ units = {u} THEN "none" ELSE data
    /\ Quiet /\ UNCHANGED <<prog, kept, secret>>

\* A container, pod or allocation dies and is still listed; a process is gone.
UnitDies(u) ==
    /\ u.phase = "running" /\ kind # "null"
    /\ faults < MaxFaults /\ faults' = faults + 1
    /\ IF kind = "static" THEN units' = units \ {u} ELSE SetPhase(u, "stopped")
    /\ UNCHANGED <<kind, serves, row, queue, agent, prog, kept, secret, data>>

\* The tools write into the workspace.
Work ==
    /\ row.state = "ready" /\ data = "empty" /\ In(units, {"running"})
    /\ data' = "work"
    /\ Quiet /\ UNCHANGED <<prog, units, kept, secret>>

ControlPlane == (\E u \in units : UnitStarts(u) \/ UnitGone(u) \/ UnitDies(u)) \/ Work

-----------------------------------------------------------------------------
(***************************************************************************)
(* The lifecycle jobs around the adapters                                  *)
(***************************************************************************)

Begin(op) == op \in queue /\ prog.job = Nothing
Ack(op) == queue' = queue \ {op}
Run(op, todo, token) ==
    prog' = [prog EXCEPT !["job"] =
        [Nothing EXCEPT !.op = op, !.todo = todo, !.handle = row.handle, !.token = token]]
NoWorld == UNCHANGED worldVars /\ UNCHANGED <<kind, serves, agent, faults>>

RequestRestart ==
    /\ row.state \notin Over \cup {"terminating"} /\ row.token < MaxTokens
    /\ "restart" \notin queue
    /\ row' = [row EXCEPT !.state = "provisioning"]
    /\ queue' = queue \cup {"restart"}
    /\ NoWorld /\ UNCHANGED prog

RequestTerminate ==
    /\ row.state \notin {"terminating", "terminated"}
    /\ row' = [row EXCEPT !.state = "terminating"]
    /\ queue' = queue \cup {"terminate"}
    /\ NoWorld /\ UNCHANGED prog

\* Provision and acquire: the handle on file, an adopted one, or a new one.
BeginProvision ==
    /\ Begin("provision")
    /\ IF row.state \in Over \cup {"ready"}
       THEN Ack("provision") /\ UNCHANGED <<row, prog>>
       ELSE /\ row' = [row EXCEPT !.state = "provisioning"]
            /\ Run("provision",
                   (CASE row.handle # NoHandle -> <<>>
                      [] row.handle = NoHandle /\ kind \in Adopters -> <<"adopt">>
                      [] OTHER -> Provision) \o <<"setHandle", "await", "commit">>,
                   row.token)
            /\ UNCHANGED queue
    /\ NoWorld

\* Restart: the token is rotated and saved first.
BeginRestart ==
    /\ Begin("restart") /\ (row.state \notin Over => row.token < MaxTokens)
    /\ IF row.state \in Over
       THEN Ack("restart") /\ UNCHANGED <<row, prog>>
       ELSE /\ row' = [row EXCEPT !.token = @ + 1]
            /\ Run("restart", Restart(row.handle) \o <<"await", "commit">>, row.token + 1)
            /\ UNCHANGED queue
    /\ NoWorld

\* Mutant: the job is acknowledged when it is claimed.
BeginTerminateAcked ==
    /\ Begin("terminate")
    /\ Ack("terminate")
    /\ IF row.state = "terminated"
       THEN UNCHANGED prog
       ELSE Run("terminate", (IF row.handle = NoHandle THEN <<>> ELSE Terminate) \o <<"terminated">>,
                row.token)
    /\ NoWorld /\ UNCHANGED row

\* Terminate: without a handle there is nothing to release.
BeginTerminate ==
    /\ Begin("terminate")
    /\ IF row.state = "terminated"
       THEN Ack("terminate") /\ UNCHANGED prog
       ELSE /\ Run("terminate", (IF row.handle = NoHandle THEN <<>> ELSE Terminate) \o <<"terminated">>,
                   row.token)
            /\ UNCHANGED queue
    /\ NoWorld /\ UNCHANGED row

SetHandle ==
    /\ At("job", "setHandle")
    /\ row' = [row EXCEPT !.handle = prog.job.handle]
    /\ Advance("job")
    /\ NoWorld /\ UNCHANGED queue

\* awaitHealthy; when it gives up the runtime is terminated and the job fails.
Await ==
    /\ At("job", "await")
    /\ \/ Healthy(prog.job.handle) /\ Advance("job")
       \/ /\ ~Healthy(prog.job.handle)
          /\ prog' = [prog EXCEPT !["job"].op = "undo",
                                  !["job"].todo = Terminate \o <<"fail">>]
    /\ NoWorld /\ UNCHANGED <<row, queue>>

\* The closing transactions of Provision and Restart.
Commit ==
    /\ At("job", "commit")
    /\ IF \/ prog.job.op = "provision" /\ row.state = "provisioning"
          \/ prog.job.op = "restart" /\ row.state \notin Over
       THEN row' = [row EXCEPT !.state = "ready", !.handle = prog.job.handle]
       ELSE UNCHANGED row
    /\ Ack(prog.job.op)
    /\ prog' = [prog EXCEPT !["job"] = Nothing]
    /\ NoWorld

\* fail, of a provision or a restart: which of them an undo belongs to no
\* longer matters, a failed resource makes the other one return at once.
Fail ==
    /\ At("job", "fail")
    /\ row' = [row EXCEPT !.state = "failed"]
    /\ queue' = queue \ {"provision", "restart"}
    /\ prog' = [prog EXCEPT !["job"] = Nothing]
    /\ NoWorld

Terminated ==
    /\ At("job", "terminated")
    /\ row' = [row EXCEPT !.state = "terminated"]
    /\ Ack("terminate")
    /\ prog' = [prog EXCEPT !["job"] = Nothing]
    /\ NoWorld

\* Reconcile, of a ready and of a suspended resource.
Reconcile ==
    /\ row.state \in {"ready", "suspended"} /\ prog.job = Nothing
    /\ LET s == Status(row.handle) IN
       row' = [row EXCEPT !.state =
           CASE row.state = "ready" /\ s = "suspended" -> "suspended"
             [] row.state = "ready" /\ s # "suspended" ->
                  IF s = "ready" /\ (serves => Endpoint(row.handle) # {}) THEN "ready" ELSE "failed"
             [] row.state = "suspended" /\ s = "ready" -> "ready"
             [] row.state = "suspended" /\ s \in Over -> "failed"
             [] OTHER -> "suspended"]
    /\ row' # row
    /\ NoWorld /\ UNCHANGED <<prog, queue>>

\* The worker process dies.  The null provider's map dies with it; an agent may
\* go on with the request it has.
Crash ==
    /\ prog.job # Nothing
    /\ faults < MaxFaults /\ faults' = faults + 1
    /\ prog' = [job |-> Nothing, stray |-> LeftBehind]
    /\ units' = IF kind = "null" THEN {} ELSE units
    /\ UNCHANGED <<kind, serves, row, queue, agent, kept, secret, data>>

-----------------------------------------------------------------------------
ProvidersInit ==
    /\ kind \in Kinds
    /\ serves \in DryRun(kind)
    /\ row = [state |-> "provisioning", handle |-> NoHandle, token |-> 1]
    /\ queue = {"provision"}
    /\ prog = [p \in Slots |-> Nothing]
    /\ units = {} /\ kept = {} /\ secret = 0 /\ data = "none"
    /\ agent = [up |-> TRUE, revoked |-> FALSE]
    /\ faults = 0

Adapters ==
    \/ \E p \in Slots : Docker(p) \/ PortTaken(p) \/ CallFails(p)
    \/ DockerAdopt \/ K8s \/ Nomad \/ Static \/ Null \/ TakeName \/ Refuse

Service ==
    \/ BeginProvision \/ BeginRestart \/ BeginTerminate
    \/ SetHandle \/ Await \/ Commit \/ Fail \/ Terminated

ProvidersNext ==
    \/ Adapters \/ Service \/ Tunnel \/ ControlPlane
    \/ RequestRestart \/ RequestTerminate \/ Reconcile \/ Crash

\* The queue delivers again what was not acknowledged, so the worker goes on;
\* a control plane that accepted a change carries it out.
ProvidersFairness ==
    /\ WF_pvars(Service \/ Adapters \/ Call)
    /\ WF_pvars(\E u \in units : UnitStarts(u) \/ UnitGone(u))

ProvidersSpec == ProvidersInit /\ [][ProvidersNext]_pvars /\ ProvidersFairness

-----------------------------------------------------------------------------
(***************************************************************************)
(* Properties                                                              *)
(***************************************************************************)

\* Every variable has its type.
ProvidersTypeOK ==
    /\ kind \in Kinds /\ serves \in BOOLEAN
    /\ row \in [state : RowStates, handle : Handles, token : Tokens]
    /\ queue \subseteq {"provision", "restart", "terminate"}
    /\ prog \in [Slots -> Programs]
    /\ units \subseteq Units /\ kept \subseteq Objects /\ secret \in Tokens
    /\ data \in {"none", "empty", "work"}
    /\ agent \in [up : BOOLEAN, revoked : BOOLEAN]
    /\ faults \in 0 .. MaxFaults

\* However often a job dies half way and is run again, one resource never has
\* two runtimes.  The static adapter, which cannot adopt, is the exception.
OneUnit ==
    kind # "static" => Cardinality({u \in units : u.phase # "deleting"}) <= 1

\* A resource that is ready and has no restart ahead accepts the token on file
\* and no older one: a restart has replaced the unit its handle leads to.  (A
\* Nomad allocation that still stops may answer for the one that replaces it.)
FreshCredential ==
    row.state = "ready" /\ "restart" \notin queue /\ kind # "nomad"
        => \A u \in Endpoint(row.handle) : u.token = row.token

\* A termination that had a handle and succeeded has left nothing behind,
\* whatever the jobs before it left half done.
NothingLeft ==
    row.state = "terminated" /\ row.handle # NoHandle /\ kind \in {"docker", "k8s", "nomad", "null"}
        => kept = {} /\ \A u \in units : u.phase = "deleting"

\* The control plane holds what the resource is entitled to and no more: one
\* unit while it lives, nothing after it.
UnitsFit == ProvidersTypeOK /\ OneUnit /\ NothingLeft

\* A restart never touches the work in the workspace, where the adapter says
\* that it preserves it, and it keeps preserving it when it is cut short.
WorkSurvivesRestart ==
    [][(/\ prog.job.op = "restart" /\ prog'.stray = prog.stray
        /\ kind = "docker" \/ "restart_preserves_state" \in Claims
        /\ data = "work") => data' = "work"]_pvars

\* An agent that is offline is not taken for a broken environment by those who
\* watch it: a ready resource is suspended, and a suspended one waits.
DisconnectSuspends ==
    [][prog.job = Nothing /\ kind = "tunnel" /\ ~agent.up /\ row.state \in {"ready", "suspended"}
        => row'.state # "failed"]_pvars

\* The work in a resource outlasts restarts and absences of its agent.
WorkOutlasts == WorkSurvivesRestart /\ DisconnectSuspends

\* A termination that was requested ends, whatever the jobs before it left; with
\* Docker it may not, for a volume that is still mounted cannot be removed.
TerminationEnds ==
    kind \in {"k8s", "nomad", "static", "null"} /\ row.state = "terminating"
        ~> row.state = "terminated"
=============================================================================
