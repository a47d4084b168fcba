---------------------------- MODULE AdminCommand ----------------------------
(***************************************************************************)
(* The operator command engine (admin/command/engine.go).  Requests run    *)
(* concurrently; each goes through Engine.Run: authorization, the          *)
(* idempotency lookup, the rate and concurrency limits, a dry run that is   *)
(* compared with the confirmed preview, the command itself, and the audit  *)
(* row that binds the idempotency key.  Every command is given by what it  *)
(* reads and by what it does to the object it is aimed at; other parts of  *)
(* the program change that object between the steps.                       *)
(***************************************************************************)
EXTENDS Integers, FiniteSets

CONSTANTS
    Requests,       \* requests to execute a command
    Keys,           \* idempotency keys the operators use
    NoKey,
    RateLimit,      \* Deps.RateLimit, in commands per second
    MaxConcurrent,  \* largest Deps.MaxConcurrent a deployment sets
    MaxMoves,       \* bound on what others do to the object
    MaxFaults       \* bound on crashes and failed audit writes

ASSUME LimitsAssumption ==
    /\ RateLimit \in Nat \ {0} /\ MaxConcurrent \in Nat \ {0}
    /\ MaxMoves \in Nat /\ MaxFaults \in Nat /\ NoKey \notin Keys

VARIABLES
    class,      \* the kind of object the commands are aimed at
    flags,      \* the destructive gates that are open
    cap,        \* Deps.MaxConcurrent
    obj,        \* the object
    req,        \* the requests
    audit,      \* the rows of admin_audit_events that bind a key; no step reads others
    tokens, inflight,       \* the engine's bucket and its running commands
    changed,    \* history: the requests whose command was carried out
    raced,      \* history: for a request, those under way at its lookup
    moves, faults
adminVars == <<class, flags, cap, obj, req, audit, tokens, inflight, changed, raced,
               moves, faults>>
world == <<class, flags, cap, moves, faults>>

----------------------------------------------------------------------------
(* Roles and commands.                                                     *)

Roles == {"viewer", "operator", "security", "admin"}
CommandsOf ==
    [job |-> {"RetryQueueJob", "CancelQueueJob"},
     run |-> {"CancelRun", "AnswerAwait", "ExpireAwait"},
     resource |-> {"ResourceReconcile", "ResourceRestart", "ResourceSuspend",
                   "ResourceTerminate", "ResourceAdoptionProbe"},
     provider |-> {"ReprobeProvider"},
     apikey |-> {"RevokeAPIKey", "RevealSecret"},
     credential |-> {"DisableCredential", "RevealSecret"},
     prompt |-> {"PausePeriodicPrompt", "ResumePeriodicPrompt"},
     session |-> {"DisconnectSubscriber", "ExportIncidentEvidence"}]
Classes == DOMAIN CommandsOf
Commands == UNION {CommandsOf[c] : c \in Classes}

OperatorCommands == Commands \ {"RevealSecret"}
Can(role, c) == role \in {"admin", "security"} \/ (role = "operator" /\ c \in OperatorCommands)

(* An object: its state, a generation (a job's attempt, a resource's      *)
(* epoch, the time a credential was created or a provider last seen       *)
(* healthy), a mark (a run whose cancellation is requested), and the      *)
(* kinds of jobs that are queued for it.                                  *)
StatesOf ==
    [job |-> {"available", "running", "retryable", "cancelled", "discarded", "completed"},
     run |-> {"running", "awaiting", "completed", "failed", "cancelled"},
     resource |-> {"provisioning", "ready", "suspended", "failed", "terminating", "terminated"},
     provider |-> {"ready", "unhealthy"},
     apikey |-> {"active", "revoked"},
     credential |-> {"stored", "absent"},
     prompt |-> {"enabled", "paused"},
     session |-> {"open"}]
StepJob == "loop.step"
Restart == "resource.restart"
Terminate == "resource.terminate"
Reconcile == "resource.reconcile"
Jobs == {StepJob, Restart, Terminate, Reconcile}

FirstObject ==
    [job |-> [st |-> "retryable", gen |-> 1, mark |-> FALSE, jobs |-> {}],
     run |-> [st |-> "awaiting", gen |-> 1, mark |-> FALSE, jobs |-> {}],
     resource |-> [st |-> "ready", gen |-> 1, mark |-> FALSE, jobs |-> {}],
     provider |-> [st |-> "unhealthy", gen |-> 1, mark |-> FALSE, jobs |-> {}],
     apikey |-> [st |-> "active", gen |-> 1, mark |-> FALSE, jobs |-> {}],
     credential |-> [st |-> "stored", gen |-> 1, mark |-> FALSE, jobs |-> {}],
     prompt |-> [st |-> "enabled", gen |-> 1, mark |-> FALSE, jobs |-> {}],
     session |-> [st |-> "open", gen |-> 1, mark |-> FALSE, jobs |-> {}]]

Set(o, s) == [o EXCEPT !.st = s]
Queue(o, k) == [o EXCEPT !.jobs = @ \cup {k}]

(* What a command makes of an object: the before summary that its preview *)
(* hash covers; "go", "already" (already_applied) or "error"; and the     *)
(* objects its write may leave, none when the write is refused.  `acts`   *)
(* says whether the write changes anything.                               *)
Does(before, verdict, acts, next) ==
    [before |-> before, verdict |-> verdict, acts |-> acts, next |-> next]
Error == Does(<<"", 0, FALSE>>, "error", FALSE, {})

----------------------------------------------------------------------------
(* The commands.                                                           *)

Finished(o) == o.st \in {"cancelled", "discarded", "completed"}

\* River leaves a running job alone, and makes any other available.
JobRetry(o) == IF o.st = "running" THEN {o} ELSE {Set(o, "available")}
\* River marks a running job, whose worker sees it later, and leaves a
\* finished one alone.
JobCancel(o) ==
    IF Finished(o) THEN {o}
    ELSE IF o.st = "running" THEN {[o EXCEPT !.mark = TRUE]} ELSE {Set(o, "cancelled")}

RetryQueueJob(o) == Does(<<o.st, o.gen, FALSE>>, "go", JobRetry(o) # {o}, JobRetry(o))

CancelQueueJob(o) == Does(<<o.st, o.gen, FALSE>>, "go", JobCancel(o) # {o}, JobCancel(o))

RunTerminal(s) == s \in {"completed", "failed", "cancelled"}

\* The locked transaction looks at the run again before it writes.
CancelRun(o) ==
    Does(<<o.st, 0, o.mark>>,
         IF RunTerminal(o.st) THEN "already" ELSE "go",
         ~RunTerminal(o.st),
         {CASE RunTerminal(o.st) -> o
            [] o.st = "awaiting" -> [o EXCEPT !.st = "cancelled", !.mark = TRUE]
            [] OTHER -> [o EXCEPT !.mark = TRUE]})

Answerable(s) == s \in {"awaiting", "completed"}

AnswerAwait(o) ==
    Does(<<o.st, 0, FALSE>>,
         IF Answerable(o.st) THEN "go" ELSE "error",
         Answerable(o.st),
         {Queue(Set(x, "running"), StepJob) : x \in {y \in {o} : Answerable(y.st)}})

\* Mutant: The locked transaction trusts the unlocked read.
ExpireAwaitUnchecked(o) ==
    Does(<<o.st, 0, FALSE>>, IF o.st = "awaiting" THEN "go" ELSE "error", TRUE,
         {[o EXCEPT !.st = "cancelled", !.mark = TRUE]})

ExpireAwait(o) ==
    Does(<<o.st, 0, FALSE>>,
         IF o.st = "awaiting" THEN "go" ELSE "error",
         o.st = "awaiting",
         {[x EXCEPT !.st = "cancelled", !.mark = TRUE] : x \in {y \in {o} : y.st = "awaiting"}})

ResourceReconcile(o) == Does(<<o.st, o.gen, FALSE>>, "go", TRUE, {Queue(o, Reconcile)})

CannotRestart(s) == s \in {"terminated", "failed", "terminating"}

ResourceRestart(o) ==
    Does(<<o.st, o.gen, FALSE>>,
         IF CannotRestart(o.st) THEN "error" ELSE "go",
         ~CannotRestart(o.st),
         {Queue(Set(x, "provisioning"), Restart) : x \in {y \in {o} : ~CannotRestart(y.st)}})

\* SetSuspended moves only a ready or suspended resource, and says nothing
\* of one it leaves alone.
ResourceSuspend(o) ==
    IF "suspend" \notin flags THEN Error
    ELSE Does(<<o.st, o.gen, FALSE>>, "go", o.st \in {"ready", "suspended"},
              {IF o.st \in {"ready", "suspended"} THEN Set(o, "suspended") ELSE o})

ResourceTerminate(o) ==
    IF "terminate" \notin flags THEN Error
    ELSE Does(<<o.st, o.gen, FALSE>>,
              IF o.st = "terminated" THEN "already" ELSE "go",
              o.st # "terminated",
              {IF o.st = "terminated" THEN o ELSE Queue(Set(o, "terminating"), Terminate)})

ResourceAdoptionProbe(o) == Does(<<o.st, o.gen, FALSE>>, "go", TRUE, {Queue(o, Reconcile)})

\* Every health mark is a new last_healthy_at.
ReprobeProvider(o) ==
    Does(<<o.st, o.gen, FALSE>>, "go", TRUE, {[o EXCEPT !.st = "ready", !.gen = @ + 1]})

RevokeAPIKey(o) ==
    Does(<<o.st, 0, FALSE>>, IF o.st = "revoked" THEN "already" ELSE "go", TRUE, {Set(o, "revoked")})

\* Deleting what is already gone is an error of the store.
DisableCredential(o) ==
    IF o.st = "absent" THEN Error ELSE Does(<<"", o.gen, FALSE>>, "go", TRUE, {Set(o, "absent")})

SetPeriodicEnabled(o, s) ==
    Does(<<o.st, 0, FALSE>>, IF o.st = s THEN "already" ELSE "go", TRUE, {Set(o, s)})
PausePeriodicPrompt(o) == SetPeriodicEnabled(o, "paused")
ResumePeriodicPrompt(o) == SetPeriodicEnabled(o, "enabled")

\* The event bus has no handle to disconnect: with the flag or without it.
DisconnectSubscriber(o) == Error

ExportIncidentEvidence(o) == Does(<<"", 0, FALSE>>, "go", FALSE, {o})

RevealSecret(o, reauth) ==
    IF "reveal" \notin flags \/ ~reauth \/ o.st = "absent" THEN Error
    ELSE Does(<<o.st, 0, FALSE>>, "go", FALSE, {o})

Exec(c, o, reauth) ==
    CASE c = "RetryQueueJob" -> RetryQueueJob(o)
      [] c = "CancelQueueJob" -> CancelQueueJob(o)
      [] c = "CancelRun" -> CancelRun(o)
      [] c = "AnswerAwait" -> AnswerAwait(o)
      [] c = "ExpireAwait" -> ExpireAwait(o)
      [] c = "ResourceReconcile" -> ResourceReconcile(o)
      [] c = "ResourceRestart" -> ResourceRestart(o)
      [] c = "ResourceSuspend" -> ResourceSuspend(o)
      [] c = "ResourceTerminate" -> ResourceTerminate(o)
      [] c = "ResourceAdoptionProbe" -> ResourceAdoptionProbe(o)
      [] c = "ReprobeProvider" -> ReprobeProvider(o)
      [] c = "RevokeAPIKey" -> RevokeAPIKey(o)
      [] c = "DisableCredential" -> DisableCredential(o)
      [] c = "PausePeriodicPrompt" -> PausePeriodicPrompt(o)
      [] c = "ResumePeriodicPrompt" -> ResumePeriodicPrompt(o)
      [] c = "DisconnectSubscriber" -> DisconnectSubscriber(o)
      [] c = "ExportIncidentEvidence" -> ExportIncidentEvidence(o)
      [] c = "RevealSecret" -> RevealSecret(o, reauth)

PreviewHash(c, reauth) == <<c, Exec(c, obj, reauth).before, Exec(c, obj, reauth).verdict>>

----------------------------------------------------------------------------
(* Engine.Run.                                                             *)

NoHash == <<>>
Idle == [pc |-> "idle", cmd |-> "", key |-> NoKey, hash |-> NoHash, reauth |-> FALSE, out |-> ""]
Executing == {"probe", "look", "change", "audit"}
Holds(r) == req[r].pc \in Executing

Answered(r, out) == [Idle EXCEPT !.pc = "done", !.cmd = req[r].cmd, !.key = req[r].key, !.out = out]
End(r, out) == req' = [req EXCEPT ![r] = Answered(r, out)]
Goto(r, pc) == req' = [req EXCEPT ![r].pc = pc]

Success == {"ok", "already_applied"}
Row(r) == [req |-> r, cmd |-> req[r].cmd, result |-> req[r].out, key |-> req[r].key]
Bound(k) == \E row \in audit : row.key = k /\ row.result \in Success

Acquired == tokens >= 1 /\ inflight < cap
\* Mutant: A failing dry run returns before the deferred release is registered.
ReleaseLate(r) == inflight' = IF req[r].pc = "probe" THEN inflight ELSE inflight - 1

Release(r) == inflight' = IF inflight = 0 THEN 0 ELSE inflight - 1

AdminInit ==
    /\ class \in Classes /\ flags \in {{}, {"suspend", "terminate", "reveal"}}
    /\ flags = {} => class \in {"resource", "apikey", "credential"}
    /\ cap \in 1 .. MaxConcurrent
    /\ obj = FirstObject[class]
    /\ req = [r \in Requests |-> Idle]
    /\ audit = {}
    /\ tokens = RateLimit /\ inflight = 0
    /\ changed = {} /\ raced = [r \in Requests |-> {}]
    /\ moves = 0 /\ faults = 0

(* A request to execute arrives with its operator, and is authorized and  *)
(* validated before it touches anything.  It carries the hash of a dry    *)
(* run the operator made: of the object as it was when the request was    *)
(* sent, which may be long before it is read, or of something else.  A     *)
(* dry run itself writes an audit row and nothing more.                   *)
Submit(r, role, c, key, hash, reauth, reason) ==
    /\ req' = [req EXCEPT ![r] =
                 CASE ~Can(role, c) -> [Idle EXCEPT !.pc = "done", !.out = "denied"]
                   [] Can(role, c) /\ (~reason \/ key = NoKey) ->
                          [Idle EXCEPT !.pc = "done", !.out = "invalid"]
                   [] OTHER -> [pc |-> "lookup", cmd |-> c, key |-> key, hash |-> hash,
                                reauth |-> reauth, out |-> ""]]
    /\ UNCHANGED <<world, obj, audit, tokens, inflight, changed, raced>>

\* The handlers pass on the operator and the options.  With the kill switch
\* off the one that reveals secrets never gets as far as the engine.
HandleCommand(r, role, c, key, hash, reauth, reason) ==
    c # "RevealSecret" /\ Submit(r, role, c, key, hash, reauth, reason)
HandleReveal(r, role, c, key, hash, reauth, reason) ==
    /\ c = "RevealSecret"
    /\ \/ "reveal" \in flags /\ Submit(r, role, c, key, hash, reauth, reason)
       \/ /\ "reveal" \notin flags
          /\ req' = [req EXCEPT ![r] = [Idle EXCEPT !.pc = "done", !.out = "unimplemented"]]
          /\ UNCHANGED <<world, obj, audit, tokens, inflight, changed, raced>>

\* An operator of some role sends a command of this object.
Arrive(r) ==
    /\ req[r].pc = "idle"
    /\ \E role \in Roles, c \in CommandsOf[class], reauth, reason \in BOOLEAN,
          key \in Keys \cup {NoKey} :
          /\ reauth => c = "RevealSecret"
          /\ \E hash \in {PreviewHash(c, reauth), NoHash} :
                \/ HandleCommand(r, role, c, key, hash, reauth, reason)
                \/ HandleReveal(r, role, c, key, hash, reauth, reason)

\* Mutant: The key is written only when the row is the first of its kind ("ok").
LookupByRequest(r) ==
    /\ req[r].pc = "lookup"
    /\ Goto(r, "acquire")
    /\ raced' = [raced EXCEPT ![r] = {s \in Requests \ {r} : req[s].pc \notin {"idle", "done"}}]
    /\ UNCHANGED <<world, obj, audit, tokens, inflight, changed>>

LookupIdempotent(r) ==
    /\ req[r].pc = "lookup"
    /\ IF Bound(req[r].key) THEN End(r, "replay") ELSE Goto(r, "acquire")
    /\ raced' = [raced EXCEPT ![r] = {s \in Requests \ {r} : req[s].pc \notin {"idle", "done"}}]
    /\ UNCHANGED <<world, obj, audit, tokens, inflight, changed>>

Acquire(r) ==
    /\ req[r].pc = "acquire"
    /\ IF Acquired
       THEN /\ tokens' = tokens - 1 /\ inflight' = inflight + 1
            /\ Goto(r, "probe")
       ELSE /\ End(r, IF tokens < 1 THEN "limited" ELSE "busy")
            /\ UNCHANGED <<tokens, inflight>>
    /\ UNCHANGED <<world, obj, audit, changed, raced>>

(* exec(true), and the comparison with the preview the operator confirmed. *)
Probe(r) ==
    /\ req[r].pc = "probe"
    /\ LET e == Exec(req[r].cmd, obj, req[r].reauth)
           h == PreviewHash(req[r].cmd, req[r].reauth)
       IN  CASE e.verdict = "error" -> End(r, "failed") /\ Release(r)
             [] e.verdict # "error" /\ req[r].hash # h ->
                    End(r, "stale") /\ Release(r)
             [] OTHER -> Goto(r, "look") /\ UNCHANGED inflight
    /\ UNCHANGED <<world, obj, audit, tokens, changed, raced>>

(* exec(false) reads the object again, without a lock ...                  *)
Look(r) ==
    /\ req[r].pc = "look"
    /\ LET e == Exec(req[r].cmd, obj, req[r].reauth)
       IN  CASE e.verdict = "error" -> End(r, "failed") /\ Release(r)
             [] e.verdict = "already" ->
                    req' = [req EXCEPT ![r].pc = "audit", ![r].out = "already_applied"]
                    /\ UNCHANGED inflight
             [] OTHER -> Goto(r, "change") /\ UNCHANGED inflight
    /\ UNCHANGED <<world, obj, audit, tokens, changed, raced>>

(* ... and writes it in a transaction of its own.                          *)
Change(r) ==
    /\ req[r].pc = "change"
    /\ LET e == Exec(req[r].cmd, obj, req[r].reauth)
       IN  \/ /\ e.next = {}
              /\ End(r, "failed") /\ Release(r)
              /\ UNCHANGED <<obj, changed>>
           \/ /\ obj' \in e.next
              /\ changed' = IF e.acts THEN changed \cup {r} ELSE changed
              /\ req' = [req EXCEPT ![r].pc = "audit", ![r].out = "ok"]
              /\ UNCHANGED inflight
    /\ UNCHANGED <<world, audit, tokens, raced>>

(* The row that binds the key.  A row that loses the race for the unique  *)
(* index is dropped, and the caller is given the winner's.                *)
WriteAudit(r) ==
    /\ req[r].pc = "audit"
    /\ audit' = IF \E row \in audit : row.key = req[r].key THEN audit
                ELSE audit \cup {Row(r)}
    /\ End(r, req[r].out) /\ Release(r)
    /\ UNCHANGED <<world, obj, tokens, changed, raced>>

AuditFails(r) ==
    /\ req[r].pc = "audit" /\ faults < MaxFaults
    /\ faults' = faults + 1
    /\ End(r, "unaudited") /\ Release(r)
    /\ UNCHANGED <<class, flags, cap, moves, obj, audit, tokens, changed, raced>>

\* The bucket fills with the time that passes.
Refill ==
    /\ tokens < RateLimit
    /\ tokens' = tokens + 1
    /\ UNCHANGED <<world, obj, req, audit, inflight, changed, raced>>

(* The admin process dies: its requests get no answer, its bucket and its  *)
(* slots start anew.                                                       *)
CrashAdmin ==
    /\ faults < MaxFaults /\ faults' = faults + 1
    /\ \E r \in Requests : req[r].pc \notin {"idle", "done"}
    /\ req' = [r \in Requests |->
                 IF req[r].pc \in {"idle", "done"} THEN req[r]
                 ELSE Answered(r, "lost")]
    /\ tokens' = RateLimit /\ inflight' = 0
    /\ UNCHANGED <<class, flags, cap, moves, obj, audit, changed, raced>>

----------------------------------------------------------------------------
(* What the rest of the program does to the object meanwhile.              *)

RunMoves ==
    \/ /\ obj.st = "running" /\ StepJob \in obj.jobs
       /\ \E s \in IF obj.mark THEN {"cancelled"} ELSE {"awaiting", "completed", "failed"} :
             obj' = [obj EXCEPT !.st = s, !.jobs = @ \ {StepJob}]
    \/ /\ Answerable(obj.st)
       /\ obj' = Queue(Set(obj, "running"), StepJob)

ResourceMoves ==
    \/ /\ obj.st = "provisioning" /\ Restart \in obj.jobs
       /\ \E s \in {"ready", "failed"} :
             obj' = [obj EXCEPT !.st = s, !.gen = @ + 1, !.jobs = @ \ {Restart}]
    \/ /\ obj.st = "terminating" /\ Terminate \in obj.jobs
       /\ obj' = [obj EXCEPT !.st = "terminated", !.jobs = @ \ {Terminate}]
    \/ /\ obj.st \in {"ready", "suspended"}
       /\ \E s \in {"ready", "suspended", "failed"} :
             obj' = [obj EXCEPT !.st = s, !.jobs = @ \ {Reconcile}]

JobMoves ==
    \/ obj.st \in {"available", "retryable"} /\ obj' = [obj EXCEPT !.st = "running", !.gen = @ + 1]
    \/ /\ obj.st = "running"
       /\ \E s \in IF obj.mark THEN {"cancelled"} ELSE {"completed", "retryable", "discarded"} :
             obj' = Set(obj, s)

TenantMoves ==
    \/ class = "apikey" /\ obj.st = "active" /\ obj' = Set(obj, "revoked")
    \/ class = "credential" /\ obj.st = "absent" /\ obj' = [obj EXCEPT !.st = "stored", !.gen = @ + 1]
    \/ class = "credential" /\ obj.st = "stored" /\ obj' = Set(obj, "absent")
    \/ class = "prompt" /\ obj' = Set(obj, IF obj.st = "paused" THEN "enabled" ELSE "paused")
    \/ class = "provider" /\ obj' = [obj EXCEPT !.st = "ready", !.gen = @ + 1]

Move ==
    /\ moves < MaxMoves /\ moves' = moves + 1
    /\ \/ class = "run" /\ RunMoves
       \/ class = "resource" /\ ResourceMoves
       \/ class = "job" /\ JobMoves
       \/ TenantMoves
    /\ UNCHANGED <<class, flags, cap, faults, req, audit, tokens, inflight, changed, raced>>

AdminNext ==
    \/ \E r \in Requests : Arrive(r) \/ LookupIdempotent(r) \/ Acquire(r) \/ Probe(r)
                             \/ Look(r) \/ Change(r) \/ WriteAudit(r) \/ AuditFails(r)
    \/ Refill \/ CrashAdmin \/ Move

AdminSpec == AdminInit /\ [][AdminNext]_adminVars

----------------------------------------------------------------------------
(* Properties.                                                             *)

(* Types of the command engine's state, its requests and its audit rows.   *)
AdminTypeOK ==
    /\ class \in Classes
    /\ obj.st \in StatesOf[class] /\ obj.gen \in Nat \ {0} /\ obj.jobs \subseteq Jobs
    /\ \A r \in Requests : req[r].cmd \in Commands \cup {""} /\ req[r].key \in Keys \cup {NoKey}
    /\ tokens \in 0 .. RateLimit /\ inflight \in 0 .. cap
    /\ audit \subseteq [req : Requests, cmd : Commands, key : Keys, result : Success]

(* Slots (Engine.acquire, release): the engine counts exactly the commands *)
(* that are being executed, on every way out of Run, so that refused or    *)
(* failed commands never use the engine up.                                *)
SlotsBalanced == inflight = Cardinality({r \in Requests : Holds(r)})

(* Fail closed (Engine.Run, safety contract): a request that was denied,   *)
(* refused, found stale, failed, or answered from an earlier outcome has   *)
(* carried nothing out.                                                    *)
RefusedDidNothing ==
    \A r \in changed : req[r].pc = "done" => req[r].out \in Success \cup {"unaudited", "lost"}

(* Audit (Engine.writeAudit): whoever is told that a command succeeded, at *)
(* first or on a replay, finds a successful row under the key it sent,     *)
(* although rows are dropped when keys race and writes may fail.           *)
SuccessIsOnRecord ==
    \A r \in Requests :
        req[r].pc = "done" /\ req[r].out \in Success \cup {"replay"} => Bound(req[r].key)

(* The answer of a command is true and its slot is given back, on every    *)
(* way through Engine.Run.                                                 *)
RecordHolds == SlotsBalanced /\ RefusedDidNothing /\ SuccessIsOnRecord

(* Retries (lookupIdempotent): two requests with one key are both carried  *)
(* out only if one was under way when the other looked the key up, or if   *)
(* the outcome of one never reached the audit table.                       *)
RetryAppliesOnce ==
    \A r, s \in changed :
        r # s /\ req[r].key = req[s].key =>
            r \in raced[s] \/ s \in raced[r]
            \/ {req[r].out, req[s].out} \cap {"unaudited", "lost"} # {}

(* Work behind a state (AnswerAwait, ResourceRestart, ResourceTerminate):  *)
(* an object a command puts to work has a job that will work on it, in     *)
(* every interleaving with the workers and with other commands.            *)
WorkIsQueued ==
    /\ class = "run" /\ obj.st = "running" => StepJob \in obj.jobs
    /\ class = "resource" /\ obj.st = "provisioning" => Restart \in obj.jobs
    /\ class = "resource" /\ obj.st = "terminating" => Terminate \in obj.jobs

(* Finished runs (CancelRun, ExpireAwait, AnswerAwait): however late its   *)
(* unlocked read, a command never moves a failed or a cancelled run, and   *)
(* never cancels a completed one.                                          *)
FinishedRunStays ==
    [][class = "run" =>
         /\ obj.st \in {"failed", "cancelled"} => obj' = obj
         /\ obj.st = "completed" => obj'.st # "cancelled"]_adminVars

(* Whatever the interleaving with workers, tenants and other commands, the *)
(* object a command is aimed at stays in a state with work behind it, and  *)
(* what is finished stays finished.                                        *)
ObjectsHold == [](AdminTypeOK /\ WorkIsQueued) /\ FinishedRunStays
=============================================================================
