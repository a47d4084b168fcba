---------------------------- MODULE Admin_proofs ----------------------------
(***************************************************************************)
(* Proofs about operator commands and about paged lists.                   *)
(***************************************************************************)
EXTENDS AdminCommand, AdminQuery, FiniteSetTheorems, TLAPS

-----------------------------------------------------------------------------
(***************************************************************************)
(* AdminCommand, for any requests, keys and limits.                        *)
(***************************************************************************)

----------------------------------------------------------------------------
(* The objects, and what a command makes of one.                           *)

Objects(c) == [st : StatesOf[c], gen : Nat \ {0}, mark : BOOLEAN, jobs : SUBSET Jobs]

Verdicts == {"go", "already", "error"}
Befores == ({""} \cup UNION {StatesOf[c] : c \in Classes}) \X Nat \X BOOLEAN

\* The work behind a state, of any object.
HasWork(c, o) ==
    /\ c = "run" /\ o.st = "running" => StepJob \in o.jobs
    /\ c = "resource" /\ o.st = "provisioning" => Restart \in o.jobs
    /\ c = "resource" /\ o.st = "terminating" => Terminate \in o.jobs

\* A step from o to p leaves a finished run finished.
StaysFinished(c, o, p) ==
    c = "run" =>
        /\ o.st \in {"failed", "cancelled"} => p = o
        /\ o.st = "completed" => p.st # "cancelled"

GoodChange(c, o, p) == p \in Objects(c) /\ HasWork(c, p) /\ StaysFinished(c, o, p)

\* What holds of every command: a summary, a verdict, and objects it may leave.
GoodEffect(c, o, e) ==
    /\ e.before \in Befores /\ e.verdict \in Verdicts
    /\ \A p \in e.next : GoodChange(c, o, p)

\* What the classes are, spelled out.
LEMMA ClassTable ==
  /\ Classes = {"job", "run", "resource", "provider", "apikey", "credential", "prompt", "session"}
  /\ StatesOf["job"] = {"available", "running", "retryable", "cancelled", "discarded", "completed"}
  /\ StatesOf["run"] = {"running", "awaiting", "completed", "failed", "cancelled"}
  /\ StatesOf["resource"] =
       {"provisioning", "ready", "suspended", "failed", "terminating", "terminated"}
  /\ StatesOf["provider"] = {"ready", "unhealthy"}
  /\ StatesOf["apikey"] = {"active", "revoked"}
  /\ StatesOf["credential"] = {"stored", "absent"}
  /\ StatesOf["prompt"] = {"enabled", "paused"}
  /\ StatesOf["session"] = {"open"}
BY DEF Classes, CommandsOf, StatesOf

LEMMA CommandTable ==
  /\ CommandsOf["job"] = {"RetryQueueJob", "CancelQueueJob"}
  /\ CommandsOf["run"] = {"CancelRun", "AnswerAwait", "ExpireAwait"}
  /\ CommandsOf["resource"] = {"ResourceReconcile", "ResourceRestart", "ResourceSuspend",
                               "ResourceTerminate", "ResourceAdoptionProbe"}
  /\ CommandsOf["provider"] = {"ReprobeProvider"}
  /\ CommandsOf["apikey"] = {"RevokeAPIKey", "RevealSecret"}
  /\ CommandsOf["credential"] = {"DisableCredential", "RevealSecret"}
  /\ CommandsOf["prompt"] = {"PausePeriodicPrompt", "ResumePeriodicPrompt"}
  /\ CommandsOf["session"] = {"DisconnectSubscriber", "ExportIncidentEvidence"}
BY DEF CommandsOf

\* The edits of an object that commands are made of.
LEMMA SetObject ==
  ASSUME NEW c \in Classes, NEW o \in Objects(c), NEW s \in StatesOf[c]
  PROVE  Set(o, s) \in Objects(c) /\ Set(o, s).st = s /\ Set(o, s).jobs = o.jobs
BY DEF Objects, Set

LEMMA QueueObject ==
  ASSUME NEW c \in Classes, NEW o \in Objects(c), NEW k \in Jobs
  PROVE  /\ Queue(o, k) \in Objects(c) /\ Queue(o, k).st = o.st
         /\ k \in Queue(o, k).jobs /\ o.jobs \subseteq Queue(o, k).jobs
BY DEF Objects, Queue

LEMMA MarkObject ==
  ASSUME NEW c \in Classes, NEW o \in Objects(c)
  PROVE  /\ [o EXCEPT !.mark = TRUE] \in Objects(c) /\ [o EXCEPT !.mark = TRUE].st = o.st
         /\ [o EXCEPT !.mark = TRUE].jobs = o.jobs
BY DEF Objects

LEMMA NextGenObject ==
  ASSUME NEW c \in Classes, NEW o \in Objects(c), NEW s \in StatesOf[c]
  PROVE  /\ [o EXCEPT !.st = s, !.gen = @ + 1] \in Objects(c)
         /\ [o EXCEPT !.st = s, !.gen = @ + 1].st = s
<1>1. \A g \in Nat \ {0} : /\ [o EXCEPT !.st = s, !.gen = g] \in Objects(c)
                          /\ [o EXCEPT !.st = s, !.gen = g].st = s
  BY DEF Objects
<1>2. o.gen + 1 \in Nat \ {0}
  BY DEF Objects
<1> QED
  BY <1>1, <1>2, Zenon

\* The dispatch.
LEMMA ExecTable ==
  ASSUME NEW o, NEW reauth
  PROVE  /\ Exec("RetryQueueJob", o, reauth) = RetryQueueJob(o)
         /\ Exec("CancelQueueJob", o, reauth) = CancelQueueJob(o)
         /\ Exec("CancelRun", o, reauth) = CancelRun(o)
         /\ Exec("AnswerAwait", o, reauth) = AnswerAwait(o)
         /\ Exec("ExpireAwait", o, reauth) = ExpireAwait(o)
         /\ Exec("ResourceReconcile", o, reauth) = ResourceReconcile(o)
         /\ Exec("ResourceRestart", o, reauth) = ResourceRestart(o)
         /\ Exec("ResourceSuspend", o, reauth) = ResourceSuspend(o)
         /\ Exec("ResourceTerminate", o, reauth) = ResourceTerminate(o)
         /\ Exec("ResourceAdoptionProbe", o, reauth) = ResourceAdoptionProbe(o)
         /\ Exec("ReprobeProvider", o, reauth) = ReprobeProvider(o)
         /\ Exec("RevokeAPIKey", o, reauth) = RevokeAPIKey(o)
         /\ Exec("DisableCredential", o, reauth) = DisableCredential(o)
         /\ Exec("PausePeriodicPrompt", o, reauth) = PausePeriodicPrompt(o)
         /\ Exec("ResumePeriodicPrompt", o, reauth) = ResumePeriodicPrompt(o)
         /\ Exec("DisconnectSubscriber", o, reauth) = DisconnectSubscriber(o)
         /\ Exec("ExportIncidentEvidence", o, reauth) = ExportIncidentEvidence(o)
         /\ Exec("RevealSecret", o, reauth) = RevealSecret(o, reauth)
BY DEF Exec

\* A summary of the object.
LEMMA Summaries ==
  ASSUME NEW c \in Classes, NEW o \in Objects(c)
  PROVE  /\ <<o.st, o.gen, FALSE>> \in Befores /\ <<o.st, 0, FALSE>> \in Befores
         /\ <<o.st, 0, o.mark>> \in Befores /\ <<"", 0, FALSE>> \in Befores
         /\ <<"", o.gen, FALSE>> \in Befores
BY DEF Befores, Objects

\* Runs: the locked transactions look again.
LEMMA RunCommands ==
  ASSUME NEW o \in Objects("run"), HasWork("run", o)
  PROVE  /\ GoodEffect("run", o, CancelRun(o))
         /\ GoodEffect("run", o, AnswerAwait(o))
         /\ GoodEffect("run", o, ExpireAwait(o))
<1>1. /\ "run" \in Classes /\ {"running", "cancelled"} \subseteq StatesOf["run"]
      /\ o.st \in {"running", "awaiting", "completed", "failed", "cancelled"}
      /\ StepJob \in Jobs
  BY ClassTable DEF Objects, Jobs
<1>2. /\ [o EXCEPT !.st = "cancelled", !.mark = TRUE] \in Objects("run")
       /\ [o EXCEPT !.st = "cancelled", !.mark = TRUE].st = "cancelled"
  BY ClassTable DEF Objects
<1>3. GoodEffect("run", o, CancelRun(o))
  <2>1. ASSUME NEW p \in CancelRun(o).next
        PROVE  GoodChange("run", o, p)
    <3>1. p = CASE RunTerminal(o.st) -> o
                [] o.st = "awaiting" -> [o EXCEPT !.st = "cancelled", !.mark = TRUE]
                [] OTHER -> [o EXCEPT !.mark = TRUE]
      BY DEF CancelRun, Does
    <3>2. CASE RunTerminal(o.st)
      <4>1. p = o
        BY <3>1, <3>2 DEF RunTerminal
      <4> QED
        BY <4>1 DEF GoodChange, StaysFinished
    <3>3. CASE o.st = "awaiting"
      <4>1. p = [o EXCEPT !.st = "cancelled", !.mark = TRUE]
        BY <3>1, <3>3 DEF RunTerminal
      <4>2. p \in Objects("run") /\ p.st = "cancelled"
        BY <1>2, <4>1
      <4> QED
        BY <3>3, <4>2 DEF GoodChange, HasWork, StaysFinished
    <3>4. CASE o.st = "running"
      <4>1. p = [o EXCEPT !.mark = TRUE]
        BY <3>1, <3>4 DEF RunTerminal
      <4>2. p \in Objects("run") /\ p.st = "running" /\ p.jobs = o.jobs
        BY <1>1, <3>4, <4>1, MarkObject
      <4> QED
        BY <3>4, <4>2 DEF GoodChange, HasWork, StaysFinished
    <3> QED
      BY <1>1, <3>2, <3>3, <3>4 DEF RunTerminal
  <2>2. CancelRun(o).before = <<o.st, 0, o.mark>> /\ CancelRun(o).verdict \in Verdicts
    BY DEF CancelRun, Does, Verdicts
  <2> QED
    BY <1>1, <2>1, <2>2, Summaries DEF GoodEffect
<1>4. GoodEffect("run", o, AnswerAwait(o))
  <2>1. ASSUME NEW p \in AnswerAwait(o).next
        PROVE  GoodChange("run", o, p)
    <3>1. Answerable(o.st) /\ p = Queue(Set(o, "running"), StepJob)
      BY DEF AnswerAwait, Does
    <3>2. Set(o, "running") \in Objects("run") /\ Set(o, "running").st = "running"
      BY <1>1, SetObject
    <3>3. p \in Objects("run") /\ p.st = "running" /\ StepJob \in p.jobs
      BY <1>1, <3>1, <3>2, QueueObject
    <3> QED
      BY <3>1, <3>3 DEF Answerable, GoodChange, HasWork, StaysFinished
  <2>2. AnswerAwait(o).before = <<o.st, 0, FALSE>> /\ AnswerAwait(o).verdict \in Verdicts
    BY DEF AnswerAwait, Does, Verdicts
  <2> QED
    BY <1>1, <2>1, <2>2, Summaries DEF GoodEffect
<1>5. GoodEffect("run", o, ExpireAwait(o))
  <2>1. ASSUME NEW p \in ExpireAwait(o).next
        PROVE  GoodChange("run", o, p)
    <3>1. o.st = "awaiting" /\ p = [o EXCEPT !.st = "cancelled", !.mark = TRUE]
      BY DEF ExpireAwait, Does
    <3>2. p \in Objects("run") /\ p.st = "cancelled"
      BY <1>2, <3>1
    <3> QED
      BY <3>1, <3>2 DEF GoodChange, HasWork, StaysFinished
  <2>2. ExpireAwait(o).before = <<o.st, 0, FALSE>> /\ ExpireAwait(o).verdict \in Verdicts
    BY DEF ExpireAwait, Does, Verdicts
  <2> QED
    BY <1>1, <2>1, <2>2, Summaries DEF GoodEffect
<1> QED
  BY <1>3, <1>4, <1>5

\* A command that cannot run.
LEMMA ErrorIsGood ==
  ASSUME NEW c, NEW o
  PROVE  GoodEffect(c, o, Error)
<1>1. Error.before = <<"", 0, FALSE>> /\ Error.verdict = "error" /\ Error.next = {}
  BY DEF Error, Does
<1>2. <<"", 0, FALSE>> \in Befores
  BY DEF Befores
<1> QED
  BY <1>1, <1>2 DEF GoodEffect, Verdicts

\* Resources: each state that needs a job gets it in the same transaction.
LEMMA ResourceCommands ==
  ASSUME NEW o \in Objects("resource"), HasWork("resource", o)
  PROVE  /\ GoodEffect("resource", o, ResourceReconcile(o))
         /\ GoodEffect("resource", o, ResourceAdoptionProbe(o))
         /\ GoodEffect("resource", o, ResourceRestart(o))
         /\ GoodEffect("resource", o, ResourceSuspend(o))
         /\ GoodEffect("resource", o, ResourceTerminate(o))
<1>0. /\ "resource" \in Classes
      /\ {"provisioning", "suspended", "terminating"} \subseteq StatesOf["resource"]
      /\ Restart \in Jobs /\ Terminate \in Jobs /\ Reconcile \in Jobs
      /\ <<o.st, o.gen, FALSE>> \in Befores
  BY ClassTable, Summaries DEF Jobs
<1>1. GoodChange("resource", o, o)
  BY DEF GoodChange, StaysFinished
<1>2. GoodChange("resource", o, Queue(o, Reconcile))
  BY <1>0, QueueObject DEF GoodChange, HasWork, StaysFinished
<1>3. ASSUME NEW s \in {"provisioning", "suspended", "terminating"}
      PROVE  Set(o, s) \in Objects("resource") /\ Set(o, s).st = s
  BY <1>0, SetObject
<1>4. GoodChange("resource", o, Set(o, "suspended"))
  BY <1>3 DEF GoodChange, HasWork, StaysFinished
<1>5. GoodChange("resource", o, Queue(Set(o, "provisioning"), Restart))
  <2>1. Set(o, "provisioning") \in Objects("resource") /\ Set(o, "provisioning").st = "provisioning"
    BY <1>3
  <2> QED
    BY <1>0, <2>1, QueueObject DEF GoodChange, HasWork, StaysFinished
<1>6. GoodChange("resource", o, Queue(Set(o, "terminating"), Terminate))
  <2>1. Set(o, "terminating") \in Objects("resource") /\ Set(o, "terminating").st = "terminating"
    BY <1>3
  <2> QED
    BY <1>0, <2>1, QueueObject DEF GoodChange, HasWork, StaysFinished
<1>7. GoodEffect("resource", o, ResourceReconcile(o)) /\ GoodEffect("resource", o, ResourceAdoptionProbe(o))
  BY <1>0, <1>2 DEF GoodEffect, ResourceReconcile, ResourceAdoptionProbe, Does, Verdicts
<1>8. GoodEffect("resource", o, ResourceRestart(o))
  BY <1>0, <1>5 DEF GoodEffect, ResourceRestart, Does, Verdicts
<1>9. GoodEffect("resource", o, ResourceSuspend(o))
  <2>1. CASE "suspend" \in flags
    BY <1>0, <1>1, <1>4, <2>1 DEF GoodEffect, ResourceSuspend, Does, Verdicts
  <2> QED
    BY <2>1, ErrorIsGood DEF ResourceSuspend
<1>10. GoodEffect("resource", o, ResourceTerminate(o))
  <2>1. CASE "terminate" \in flags
    BY <1>0, <1>1, <1>6, <2>1 DEF GoodEffect, ResourceTerminate, Does, Verdicts
  <2> QED
    BY <2>1, ErrorIsGood DEF ResourceTerminate
<1> QED
  BY <1>7, <1>8, <1>9, <1>10

\* The other commands only have to leave an object of their class.
LEMMA OtherChanges ==
  ASSUME NEW c \in Classes \ {"run", "resource"}, NEW o, NEW p \in Objects(c)
  PROVE  GoodChange(c, o, p)
BY DEF GoodChange, HasWork, StaysFinished

LEMMA JobCommands ==
  ASSUME NEW o \in Objects("job")
  PROVE  GoodEffect("job", o, RetryQueueJob(o)) /\ GoodEffect("job", o, CancelQueueJob(o))
<1>0. /\ "job" \in Classes \ {"run", "resource"} /\ "job" \in Classes
      /\ {"available", "cancelled"} \subseteq StatesOf["job"]
      /\ <<o.st, o.gen, FALSE>> \in Befores
  BY ClassTable, Summaries
<1>1. /\ Set(o, "available") \in Objects("job") /\ Set(o, "cancelled") \in Objects("job")
      /\ [o EXCEPT !.mark = TRUE] \in Objects("job")
  BY <1>0, SetObject, MarkObject
<1>2. (\A p \in JobRetry(o) : p \in Objects("job")) /\ (\A p \in JobCancel(o) : p \in Objects("job"))
  BY <1>1 DEF JobRetry, JobCancel
<1>3. (\A p \in JobRetry(o) : GoodChange("job", o, p)) /\ (\A p \in JobCancel(o) : GoodChange("job", o, p))
  BY <1>0, <1>2, OtherChanges
<1> QED
  BY <1>0, <1>3 DEF GoodEffect, RetryQueueJob, CancelQueueJob, Does, Verdicts

LEMMA SecretCommands ==
  ASSUME NEW c \in {"apikey", "credential"}, NEW o \in Objects(c), NEW reauth
  PROVE  /\ GoodEffect(c, o, RevealSecret(o, reauth))
         /\ c = "apikey" => GoodEffect(c, o, RevokeAPIKey(o))
         /\ c = "credential" => GoodEffect(c, o, DisableCredential(o))
<1>0. /\ c \in Classes \ {"run", "resource"} /\ c \in Classes
      /\ <<o.st, 0, FALSE>> \in Befores /\ <<"", o.gen, FALSE>> \in Befores
  BY ClassTable, Summaries
<1>1. GoodChange(c, o, o)
  BY <1>0, OtherChanges
<1>2. GoodEffect(c, o, RevealSecret(o, reauth))
  BY <1>0, <1>1, ErrorIsGood DEF GoodEffect, RevealSecret, Does, Verdicts
<1>3. CASE c = "apikey"
  <2>1. Set(o, "revoked") \in Objects(c)
    BY <1>0, <1>3, ClassTable, SetObject
  <2>2. GoodChange(c, o, Set(o, "revoked"))
    BY <1>0, <2>1, OtherChanges
  <2> QED
    BY <1>0, <1>2, <1>3, <2>2 DEF GoodEffect, RevokeAPIKey, Does, Verdicts
<1>4. CASE c = "credential"
  <2>1. Set(o, "absent") \in Objects(c)
    BY <1>0, <1>4, ClassTable, SetObject
  <2>2. GoodChange(c, o, Set(o, "absent"))
    BY <1>0, <2>1, OtherChanges
  <2> QED
    BY <1>0, <1>2, <1>4, <2>2, ErrorIsGood DEF GoodEffect, DisableCredential, Does, Verdicts
<1> QED
  BY <1>3, <1>4

LEMMA RemainingCommands ==
  ASSUME NEW c \in {"provider", "prompt", "session"}, NEW o \in Objects(c)
  PROVE  /\ c = "provider" => GoodEffect(c, o, ReprobeProvider(o))
         /\ c = "prompt" => GoodEffect(c, o, PausePeriodicPrompt(o)) /\ GoodEffect(c, o, ResumePeriodicPrompt(o))
         /\ c = "session" => GoodEffect(c, o, DisconnectSubscriber(o)) /\ GoodEffect(c, o, ExportIncidentEvidence(o))
<1>0. /\ c \in Classes \ {"run", "resource"} /\ c \in Classes
      /\ <<o.st, 0, FALSE>> \in Befores /\ <<o.st, o.gen, FALSE>> \in Befores
      /\ <<"", 0, FALSE>> \in Befores
  BY ClassTable, Summaries
<1>1. CASE c = "provider"
  <2>1. [o EXCEPT !.st = "ready", !.gen = @ + 1] \in Objects(c)
    BY <1>0, <1>1, ClassTable, NextGenObject
  <2>2. GoodChange(c, o, [o EXCEPT !.st = "ready", !.gen = @ + 1])
    BY <1>0, <2>1, OtherChanges
  <2> QED
    BY <1>0, <1>1, <2>2 DEF GoodEffect, ReprobeProvider, Does, Verdicts
<1>2. CASE c = "prompt"
  <2>1. Set(o, "paused") \in Objects(c) /\ Set(o, "enabled") \in Objects(c)
    BY <1>0, <1>2, ClassTable, SetObject
  <2>2. GoodChange(c, o, Set(o, "paused")) /\ GoodChange(c, o, Set(o, "enabled"))
    BY <1>0, <2>1, OtherChanges
  <2> QED
    BY <1>0, <1>2, <2>2
       DEF GoodEffect, PausePeriodicPrompt, ResumePeriodicPrompt, SetPeriodicEnabled, Does, Verdicts
<1>3. CASE c = "session"
  <2>1. GoodChange(c, o, o)
    BY <1>0, OtherChanges
  <2>2. GoodEffect(c, o, ExportIncidentEvidence(o))
    BY <1>0, <2>1 DEF GoodEffect, ExportIncidentEvidence, Does, Verdicts
  <2> QED
    BY <1>3, <2>2, ErrorIsGood DEF DisconnectSubscriber
<1> QED
  BY <1>1, <1>2, <1>3

LEMMA CommandsAreGood ==
  ASSUME NEW c \in Classes, NEW o \in Objects(c), HasWork(c, o), NEW cmd \in CommandsOf[c],
         NEW reauth
  PROVE  GoodEffect(c, o, Exec(cmd, o, reauth))
<1>1. CASE c = "run"
  <2>1. cmd \in {"CancelRun", "AnswerAwait", "ExpireAwait"}
    BY <1>1, CommandTable
  <2> QED
    BY <1>1, <2>1, RunCommands, ExecTable
<1>2. CASE c = "resource"
  <2>1. cmd \in {"ResourceReconcile", "ResourceRestart", "ResourceSuspend", "ResourceTerminate",
                "ResourceAdoptionProbe"}
    BY <1>2, CommandTable
  <2> QED
    BY <1>2, <2>1, ResourceCommands, ExecTable
<1>3. CASE c = "job"
  <2>1. cmd \in {"RetryQueueJob", "CancelQueueJob"}
    BY <1>3, CommandTable
  <2> QED
    BY <1>3, <2>1, JobCommands, ExecTable
<1>4. CASE c = "apikey"
  <2>1. cmd \in {"RevokeAPIKey", "RevealSecret"}
    BY <1>4, CommandTable
  <2> QED
    BY <1>4, <2>1, SecretCommands, ExecTable
<1>5. CASE c = "credential"
  <2>1. cmd \in {"DisableCredential", "RevealSecret"}
    BY <1>5, CommandTable
  <2> QED
    BY <1>5, <2>1, SecretCommands, ExecTable
<1>6. CASE c = "provider"
  <2>1. cmd = "ReprobeProvider"
    BY <1>6, CommandTable
  <2> QED
    BY <1>6, <2>1, RemainingCommands, ExecTable
<1>7. CASE c = "prompt"
  <2>1. cmd \in {"PausePeriodicPrompt", "ResumePeriodicPrompt"}
    BY <1>7, CommandTable
  <2> QED
    BY <1>7, <2>1, RemainingCommands, ExecTable
<1>8. CASE c = "session"
  <2>1. cmd \in {"DisconnectSubscriber", "ExportIncidentEvidence"}
    BY <1>8, CommandTable
  <2> QED
    BY <1>8, <2>1, RemainingCommands, ExecTable
<1> QED
  BY <1>1, <1>2, <1>3, <1>4, <1>5, <1>6, <1>7, <1>8, ClassTable

----------------------------------------------------------------------------
(* The engine: its inductive invariant.                                    *)

Pcs == {"idle", "lookup", "acquire", "probe", "look", "change", "audit", "done"}
Outs == {"", "denied", "invalid", "unimplemented", "replay", "limited", "busy", "failed", "stale",
         "ok", "already_applied", "unaudited", "lost"}
Hashes == {NoHash} \cup (Commands \X Befores \X Verdicts)
Records == [pc : Pcs, cmd : Commands \cup {""}, key : Keys \cup {NoKey}, hash : Hashes,
            reauth : BOOLEAN, out : Outs]
Rows == [req : Requests, cmd : Commands, result : Success, key : Keys]

EngineTypes ==
    /\ class \in Classes /\ obj \in Objects(class) /\ HasWork(class, obj)
    /\ cap \in Nat \ {0}
    /\ req \in [Requests -> Records]
    /\ audit \subseteq Rows
    /\ tokens \in 0 .. RateLimit
    /\ changed \subseteq Requests /\ raced \in [Requests -> SUBSET Requests]

\* A request under way has a key and a command of the object's class, and one
\* that is about to be recorded has succeeded.
UnderwayOK(x) ==
    /\ x.pc \notin {"idle", "done"} => x.key \in Keys /\ x.cmd \in CommandsOf[class]
    /\ x.pc = "audit" => x.out \in Success
Underway == \A r \in Requests : UnderwayOK(req[r])

\* What was carried out is about to be recorded, or was answered as such.
CarriedOut(x) ==
    \/ x.pc = "audit"
    \/ x.pc = "done" /\ x.out \in Success \cup {"unaudited", "lost"}
OnTheBooks == \A r \in changed : CarriedOut(req[r])

Holders == {r \in Requests : Holds(r)}
SlotsInv == IsFiniteSet(Holders) /\ inflight = Cardinality(Holders) /\ inflight <= cap

\* Past the lookup, and not turned away since.
PastPcs == {"acquire", "probe", "look", "change", "audit"}
Past(r) == req[r].pc \in PastPcs \/ r \in changed
GaveUp(r) == req[r].pc = "done" /\ req[r].out \in {"unaudited", "lost"}

\* Two requests with one key, both past the lookup: they raced, or the outcome
\* of one is not on record.
Excused(r, s) == r \in raced[s] \/ s \in raced[r] \/ GaveUp(r) \/ GaveUp(s)
PairsInv ==
    \A r, s \in Requests :
        r # s /\ Past(r) /\ Past(s) /\ req[r].key = req[s].key => Excused(r, s)

EngineInv ==
    EngineTypes /\ Underway /\ OnTheBooks /\ SlotsInv /\ SuccessIsOnRecord /\ PairsInv

----------------------------------------------------------------------------
(* One lemma for the steps of one request, which becomes u.  What a step   *)
(* has to show is packaged per part of the invariant.                      *)

\* Everything but the requests.
WorldGoesOn ==
    /\ class' = class /\ cap' = cap
    /\ obj' \in Objects(class) /\ HasWork(class, obj')
    /\ audit \subseteq audit' /\ audit' \subseteq Rows
    /\ tokens' \in 0 .. RateLimit

\* A slot is taken below the limit, or given back, or neither.
SlotMoves(r, u) ==
    \/ (req[r].pc \in Executing <=> u.pc \in Executing) /\ inflight' = inflight
    \/ /\ req[r].pc \notin Executing /\ u.pc \in Executing
       /\ inflight < cap /\ inflight' = inflight + 1
    \/ req[r].pc \in Executing /\ u.pc \notin Executing /\ Release(r)

\* What is carried out, and what is answered.
BooksKept(r, u) ==
    /\ changed \subseteq changed' /\ changed' \subseteq changed \cup {r}
    /\ r \in changed' => CarriedOut(u)
    /\ u.pc = "done" /\ u.out \in Success \cup {"replay"} =>
         \E row \in audit' : row.key = u.key /\ row.result \in Success

\* The request was past the lookup already, or now is not, or is just passing it.
LookupMoves(r, u) ==
    /\ raced' \in [Requests -> SUBSET Requests]
    /\ \A s \in Requests : s # r => raced'[s] = raced[s]
    /\ \/ u.pc \notin PastPcs /\ r \notin changed'
       \/ Past(r) /\ req[r].pc # "done" /\ u.key = req[r].key /\ raced' = raced
       \/ \A s \in Requests : s # r /\ Past(s) /\ req[s].key = u.key =>
                s \in raced'[r] \/ GaveUp(s)

\* Who holds a slot after such a step.
LEMMA HolderSets ==
  ASSUME NEW r \in Requests, NEW u, req'[r] = u,
         \A s \in Requests : s # r => req'[s] = req[s]
  PROVE  /\ (req[r].pc \in Executing <=> u.pc \in Executing) => Holders' = Holders
         /\ req[r].pc \notin Executing /\ u.pc \in Executing =>
               r \notin Holders /\ Holders' = Holders \cup {r}
         /\ req[r].pc \in Executing /\ u.pc \notin Executing =>
               r \in Holders /\ Holders' = Holders \ {r}
BY DEF Holders, Holds

LEMMA RequestStep ==
  ASSUME EngineInv, NEW r \in Requests, NEW u \in Records, req' = [req EXCEPT ![r] = u],
         WorldGoesOn, UnderwayOK(u), SlotMoves(r, u), BooksKept(r, u), LookupMoves(r, u)
  PROVE  EngineInv'
<1> USE DEF EngineInv
<1>1. /\ req' \in [Requests -> Records] /\ req'[r] = u
      /\ \A s \in Requests : s # r => req'[s] = req[s]
  BY DEF EngineTypes
<1>2. EngineTypes'
  BY <1>1 DEF EngineTypes, WorldGoesOn, BooksKept, LookupMoves
<1>3. Underway'
  BY <1>1 DEF Underway, UnderwayOK, WorldGoesOn
<1>4. OnTheBooks'
  BY <1>1 DEF OnTheBooks, BooksKept, CarriedOut, EngineTypes
<1>5. SlotsInv'
  <2>1. /\ IsFiniteSet(Holders) /\ inflight = Cardinality(Holders) /\ Cardinality(Holders) \in Nat
        /\ inflight <= cap /\ cap' = cap /\ cap \in Nat
    BY FS_CardinalityType DEF SlotsInv, WorldGoesOn, EngineTypes
  <2>2. CASE (req[r].pc \in Executing <=> u.pc \in Executing) /\ inflight' = inflight
    <3>1. Holders' = Holders
      BY <1>1, <2>2, HolderSets
    <3> QED
      BY <2>1, <2>2, <3>1 DEF SlotsInv
  <2>3. CASE /\ req[r].pc \notin Executing /\ u.pc \in Executing
             /\ inflight < cap /\ inflight' = inflight + 1
    <3>1. Holders' = Holders \cup {r} /\ r \notin Holders
      BY <1>1, <2>3, HolderSets
    <3>2. IsFiniteSet(Holders \cup {r}) /\ Cardinality(Holders \cup {r}) = Cardinality(Holders) + 1
      BY <2>1, <3>1, FS_AddElement
    <3> QED
      BY <2>1, <2>3, <3>1, <3>2 DEF SlotsInv
  <2>4. CASE req[r].pc \in Executing /\ u.pc \notin Executing /\ Release(r)
    <3>1. Holders' = Holders \ {r} /\ r \in Holders
      BY <1>1, <2>4, HolderSets
    <3>2. IsFiniteSet(Holders \ {r}) /\ Cardinality(Holders \ {r}) = Cardinality(Holders) - 1
      BY <2>1, <3>1, FS_RemoveElement
    <3>3. Cardinality(Holders) # 0
      BY <2>1, <3>1, FS_EmptySet
    <3>4. inflight' = inflight - 1
      BY <2>1, <2>4, <3>3 DEF Release
    <3> QED
      BY <2>1, <3>1, <3>2, <3>4 DEF SlotsInv
  <2> QED
    BY <2>2, <2>3, <2>4 DEF SlotMoves
<1>6. SuccessIsOnRecord'
  BY <1>1 DEF SuccessIsOnRecord, Bound, WorldGoesOn, BooksKept
<1>7. PairsInv'
  <2>1. ASSUME NEW s \in Requests, s # r
        PROVE  (Past(s)' => Past(s)) /\ (GaveUp(s) => GaveUp(s)') /\ req'[s].key = req[s].key
    BY <1>1, <2>1 DEF Past, GaveUp, BooksKept
  \* The pair of r and any other.
  <2>2. ASSUME NEW s \in Requests, s # r, Past(r)', Past(s)', req'[s].key = u.key
        PROVE  r \in raced'[s] \/ s \in raced'[r] \/ GaveUp(s)'
    <3>1. Past(s) /\ req[s].key = u.key /\ raced'[s] = raced[s]
      BY <2>1, <2>2 DEF LookupMoves
    <3>2. CASE u.pc \notin PastPcs /\ r \notin changed'
      BY <1>1, <2>2, <3>2 DEF Past
    <3>3. CASE Past(r) /\ req[r].pc # "done" /\ u.key = req[r].key /\ raced' = raced
      <4>1. Excused(r, s)
        BY <2>2, <3>1, <3>3 DEF PairsInv
      <4> QED
        BY <2>1, <2>2, <3>3, <4>1 DEF Excused, GaveUp
    <3>4. CASE \A v \in Requests : v # r /\ Past(v) /\ req[v].key = u.key =>
                     v \in raced'[r] \/ GaveUp(v)
      BY <2>1, <2>2, <3>1, <3>4
    <3> QED
      BY <3>2, <3>3, <3>4 DEF LookupMoves
  <2> SUFFICES ASSUME NEW v \in Requests, NEW s \in Requests, v # s, Past(v)', Past(s)',
                      req'[v].key = req'[s].key
               PROVE  Excused(v, s)'
    BY DEF PairsInv
  <2>3. CASE v = r
    BY <1>1, <2>2, <2>3 DEF Excused
  <2>4. CASE s = r
    BY <1>1, <2>2, <2>4 DEF Excused
  <2>5. CASE v # r /\ s # r
    <3>1. Excused(v, s)
      BY <2>1, <2>5 DEF PairsInv
    <3> QED
      BY <2>1, <2>5, <3>1 DEF Excused, LookupMoves
  <2> QED
    BY <2>3, <2>4, <2>5
<1> QED
  BY <1>2, <1>3, <1>4, <1>5, <1>6, <1>7

----------------------------------------------------------------------------
(* The steps of a request.                                                 *)

LEMMA WorldStays ==
  ASSUME EngineInv, UNCHANGED <<class, cap, obj, audit>>,
         UNCHANGED tokens \/ tokens' \in 0 .. RateLimit
  PROVE  WorldGoesOn
BY DEF EngineInv, EngineTypes, WorldGoesOn

\* What is known of a request that is under way.
LEMMA OnItsWay ==
  ASSUME EngineInv, NEW r \in Requests, req[r].pc \notin {"idle", "done"}
  PROVE  /\ req[r] \in Records /\ req[r].pc \in Pcs
         /\ req[r].key \in Keys /\ req[r].cmd \in CommandsOf[class] /\ req[r].cmd \in Commands
         /\ req[r].pc = "audit" => req[r].out \in Success
         /\ req[r].pc # "audit" => r \notin changed
         /\ raced \in [Requests -> SUBSET Requests]
<1>1. /\ req[r] \in Records /\ class \in Classes /\ raced \in [Requests -> SUBSET Requests]
  BY DEF EngineInv, EngineTypes
<1>2. UnderwayOK(req[r])
  BY DEF EngineInv, Underway
<1>3. req[r].cmd \in CommandsOf[class] => req[r].cmd \in Commands
  BY <1>1 DEF Commands
<1>4. req[r].pc # "audit" => r \notin changed
  BY DEF EngineInv, OnTheBooks, CarriedOut
<1> QED
  BY <1>1, <1>2, <1>3, <1>4 DEF UnderwayOK, Records

LEMMA AnsweredType ==
  ASSUME NEW r \in Requests, req[r] \in Records, NEW out \in Outs
  PROVE  /\ Answered(r, out) \in Records /\ Answered(r, out).pc = "done"
         /\ Answered(r, out).key = req[r].key /\ Answered(r, out).out = out
BY DEF Answered, Idle, Records, Pcs, Hashes

\* A request ends, having carried nothing out, with an answer that says so or,
\* on a replay, with a row to show for it.
LEMMA TurnedAway ==
  ASSUME EngineInv, NEW r \in Requests, req[r].pc \notin {"idle", "done", "audit"},
         NEW out \in Outs \ Success, out = "replay" => Bound(req[r].key),
         End(r, out), WorldGoesOn, audit' = audit, UNCHANGED changed,
         raced' \in [Requests -> SUBSET Requests],
         \A s \in Requests : s # r => raced'[s] = raced[s],
         IF req[r].pc \in Executing THEN Release(r) ELSE UNCHANGED inflight
  PROVE  EngineInv'
<1> DEFINE u == Answered(r, out)
<1>1. req' = [req EXCEPT ![r] = u]
  BY DEF End
<1>2. u \in Records /\ u.pc = "done" /\ u.key = req[r].key /\ u.out = out /\ r \notin changed
  BY OnItsWay, AnsweredType
<1> HIDE DEF u
<1>3. UnderwayOK(u)
  BY <1>2 DEF UnderwayOK
<1>4. SlotMoves(r, u)
  BY <1>2 DEF SlotMoves, Executing
<1>5. BooksKept(r, u)
  BY <1>2 DEF BooksKept, Bound
<1>6. LookupMoves(r, u)
  BY <1>2 DEF LookupMoves, PastPcs
<1> QED
  BY <1>1, <1>2, <1>3, <1>4, <1>5, <1>6, RequestStep

\* A request goes on to its next step.
LEMMA GoesOn ==
  ASSUME EngineInv, NEW r \in Requests, req[r].pc \in PastPcs \ {"audit"},
         NEW pc \in {"probe", "look", "change"}, Goto(r, pc), WorldGoesOn, UNCHANGED <<changed, raced>>,
         IF req[r].pc \in Executing THEN UNCHANGED inflight
         ELSE inflight < cap /\ inflight' = inflight + 1
  PROVE  EngineInv'
<1> DEFINE u == [req[r] EXCEPT !.pc = pc]
<1>0. req[r].pc \notin {"idle", "done"} /\ req[r].pc # "audit"
  BY DEF PastPcs
<1>1. req' = [req EXCEPT ![r] = u]
  BY DEF Goto
<1>2. /\ u \in Records /\ u.pc = pc /\ u.key = req[r].key /\ u.cmd = req[r].cmd
      /\ r \notin changed
  BY <1>0, OnItsWay DEF Records, Pcs
<1> HIDE DEF u
<1>3. UnderwayOK(u)
  BY <1>0, <1>2, OnItsWay DEF UnderwayOK
<1>4. SlotMoves(r, u)
  BY <1>2 DEF SlotMoves, Executing
<1>5. BooksKept(r, u)
  BY <1>2 DEF BooksKept
<1>6. LookupMoves(r, u)
  BY <1>0, <1>2, OnItsWay DEF LookupMoves, Past
<1> QED
  BY <1>1, <1>2, <1>3, <1>4, <1>5, <1>6, RequestStep

\* A command is done, or was already: what is left is the record.
LEMMA ToBeRecorded ==
  ASSUME EngineInv, NEW r \in Requests, req[r].pc \in {"look", "change"}, NEW out \in Success,
         req' = [req EXCEPT ![r].pc = "audit", ![r].out = out], WorldGoesOn,
         changed \subseteq changed', changed' \subseteq changed \cup {r}, UNCHANGED <<raced, inflight>>
  PROVE  EngineInv'
<1> DEFINE u == [req[r] EXCEPT !.pc = "audit", !.out = out]
<1>1. req' = [req EXCEPT ![r] = u]
  BY OnItsWay DEF EngineInv, EngineTypes
<1>2. /\ u \in Records /\ u.pc = "audit" /\ u.key = req[r].key /\ u.cmd = req[r].cmd
      /\ u.out = out
  BY OnItsWay DEF Records, Pcs, Outs, Success
<1> HIDE DEF u
<1>3. UnderwayOK(u)
  BY <1>2, OnItsWay DEF UnderwayOK
<1>4. SlotMoves(r, u)
  BY <1>2 DEF SlotMoves, Executing
<1>5. BooksKept(r, u)
  BY <1>2 DEF BooksKept, CarriedOut
<1>6. LookupMoves(r, u)
  BY <1>2, OnItsWay DEF LookupMoves, Past, PastPcs
<1> QED
  BY <1>1, <1>2, <1>3, <1>4, <1>5, <1>6, RequestStep

LEMMA LookupStep ==
  ASSUME EngineInv, NEW r \in Requests, LookupIdempotent(r)
  PROVE  EngineInv'
<1> DEFINE R == {s \in Requests \ {r} : req[s].pc \notin {"idle", "done"}}
<1>0. req[r].pc = "lookup" /\ raced' = [raced EXCEPT ![r] = R]
      /\ UNCHANGED <<class, cap, obj, audit, tokens, inflight, changed>>
  BY DEF LookupIdempotent, world
<1>1. WorldGoesOn
  BY <1>0, WorldStays
<1>2. /\ raced' \in [Requests -> SUBSET Requests] /\ raced'[r] = R
      /\ \A s \in Requests : s # r => raced'[s] = raced[s]
  BY <1>0, OnItsWay
<1>3. CASE Bound(req[r].key)
  <2>1. End(r, "replay")
    BY <1>3 DEF LookupIdempotent
  <2>2. "replay" \in Outs \ Success
    BY DEF Outs, Success
  <2> QED
    BY <1>0, <1>1, <1>2, <1>3, <2>1, <2>2, TurnedAway DEF Executing
<1>4. CASE ~Bound(req[r].key)
  <2> DEFINE u == [req[r] EXCEPT !.pc = "acquire"]
  <2>1. req' = [req EXCEPT ![r] = u]
    BY <1>4 DEF LookupIdempotent, Goto
  <2>2. /\ u \in Records /\ u.pc = "acquire" /\ u.key = req[r].key /\ u.cmd = req[r].cmd
        /\ r \notin changed
    BY <1>0, OnItsWay DEF Records, Pcs
  <2> HIDE DEF u
  <2>3. UnderwayOK(u)
    BY <1>0, <2>2, OnItsWay DEF UnderwayOK
  <2>4. SlotMoves(r, u)
    BY <1>0, <2>2 DEF SlotMoves, Executing
  <2>5. BooksKept(r, u)
    BY <1>0, <2>2 DEF BooksKept
  <2>6. ASSUME NEW s \in Requests, s # r, Past(s), req[s].key = u.key
        PROVE  s \in R \/ GaveUp(s)
    <3>1. CASE req[s].pc \in PastPcs
      BY <2>6, <3>1 DEF PastPcs
    <3>2. CASE s \in changed /\ req[s].pc = "done"
      <4>1. req[s].out \in Success \cup {"unaudited", "lost"}
        BY <3>2 DEF EngineInv, OnTheBooks, CarriedOut
      <4>2. req[s].out \notin Success
        BY <1>4, <2>2, <2>6, <3>2 DEF EngineInv, SuccessIsOnRecord
      <4> QED
        BY <3>2, <4>1, <4>2 DEF GaveUp
    <3> QED
      BY <2>6, <3>1, <3>2 DEF Past, EngineInv, OnTheBooks, CarriedOut, PastPcs
  <2>7. LookupMoves(r, u)
    BY <1>2, <2>6 DEF LookupMoves
  <2> QED
    BY <1>1, <2>1, <2>2, <2>3, <2>4, <2>5, <2>7, RequestStep
<1> QED
  BY <1>3, <1>4

LEMMA HashType ==
  ASSUME EngineInv, NEW c \in CommandsOf[class], NEW reauth \in BOOLEAN
  PROVE  PreviewHash(c, reauth) \in Hashes
<1>1. class \in Classes /\ obj \in Objects(class) /\ HasWork(class, obj)
  BY DEF EngineInv, EngineTypes
<1>2. GoodEffect(class, obj, Exec(c, obj, reauth))
  BY <1>1, CommandsAreGood
<1>3. c \in Commands
  BY <1>1 DEF Commands
<1> QED
  BY <1>2, <1>3 DEF PreviewHash, Hashes, GoodEffect

LEMMA ArriveStep ==
  ASSUME EngineInv, NEW r \in Requests, Arrive(r)
  PROVE  EngineInv'
<1>1. PICK role \in Roles, c \in CommandsOf[class], reauth \in BOOLEAN, reason \in BOOLEAN,
           key \in Keys \cup {NoKey} :
           \E hash \in {PreviewHash(c, reauth), NoHash} :
              \/ HandleCommand(r, role, c, key, hash, reauth, reason)
              \/ HandleReveal(r, role, c, key, hash, reauth, reason)
  BY DEF Arrive
<1>2. PICK hash \in {PreviewHash(c, reauth), NoHash} :
           \/ HandleCommand(r, role, c, key, hash, reauth, reason)
           \/ HandleReveal(r, role, c, key, hash, reauth, reason)
  BY <1>1
<1>3. /\ req[r].pc = "idle" /\ hash \in Hashes /\ c \in Commands
      /\ UNCHANGED <<class, cap, obj, audit, tokens, inflight, changed, raced>>
      /\ raced \in [Requests -> SUBSET Requests]
  <2>1. hash \in Hashes
    BY HashType DEF Hashes
  <2>2. c \in Commands
    BY DEF Commands, EngineInv, EngineTypes
  <2>3. UNCHANGED <<class, cap, obj, audit, tokens, inflight, changed, raced>>
    BY <1>2 DEF HandleCommand, HandleReveal, Submit, world
  <2>4. req[r].pc = "idle" /\ raced \in [Requests -> SUBSET Requests]
    BY DEF Arrive, EngineInv, EngineTypes
  <2> QED
    BY <2>1, <2>2, <2>3, <2>4
<1> DEFINE asked == [pc |-> "lookup", cmd |-> c, key |-> key, hash |-> hash,
                     reauth |-> reauth, out |-> ""]
           refused(out) == [Idle EXCEPT !.pc = "done", !.out = out]
<1>4. \E u : /\ req' = [req EXCEPT ![r] = u]
             /\ \/ u = asked /\ key # NoKey
                \/ \E out \in {"denied", "invalid", "unimplemented"} : u = refused(out)
  BY <1>2 DEF HandleCommand, HandleReveal, Submit
<1>5. PICK u : /\ req' = [req EXCEPT ![r] = u]
               /\ \/ u = asked /\ key # NoKey
                  \/ \E out \in {"denied", "invalid", "unimplemented"} : u = refused(out)
  BY <1>4
<1>6. /\ u \in Records
      /\ \/ u.pc = "lookup" /\ u.key \in Keys /\ u.cmd \in CommandsOf[class]
         \/ u.pc = "done" /\ u.out \in {"denied", "invalid", "unimplemented"}
  <2>1. CASE u = asked /\ key # NoKey
    BY <1>3, <2>1 DEF Records, Pcs, Outs
  <2>2. ASSUME NEW out \in {"denied", "invalid", "unimplemented"}, u = refused(out)
        PROVE  u \in Records /\ u.pc = "done" /\ u.out = out
    BY <2>2 DEF Idle, Records, Pcs, Outs, Hashes
  <2> QED
    BY <1>5, <2>1, <2>2
<1> HIDE DEF asked, refused
<1>7. r \notin changed
  BY <1>3 DEF EngineInv, OnTheBooks, CarriedOut
<1>8. WorldGoesOn
  BY <1>3, WorldStays
<1>9. UnderwayOK(u)
  BY <1>6 DEF UnderwayOK
<1>10. SlotMoves(r, u)
  BY <1>3, <1>6 DEF SlotMoves, Executing
<1>11. BooksKept(r, u)
  BY <1>3, <1>6, <1>7 DEF BooksKept, Success
<1>12. LookupMoves(r, u)
  BY <1>3, <1>6, <1>7 DEF LookupMoves, PastPcs
<1> QED
  BY <1>5, <1>6, <1>8, <1>9, <1>10, <1>11, <1>12, RequestStep

LEMMA AcquireStep ==
  ASSUME EngineInv, NEW r \in Requests, Acquire(r)
  PROVE  EngineInv'
<1>0. /\ req[r].pc = "acquire" /\ UNCHANGED <<class, cap, obj, audit, changed, raced>>
      /\ raced' \in [Requests -> SUBSET Requests]
  BY DEF Acquire, world, EngineInv, EngineTypes
<1>1. CASE Acquired
  <2>1. /\ tokens' = tokens - 1 /\ inflight' = inflight + 1 /\ Goto(r, "probe")
        /\ tokens >= 1 /\ inflight < cap
    BY <1>1 DEF Acquire, Acquired
  <2>2. tokens' \in 0 .. RateLimit
    BY <2>1, LimitsAssumption DEF EngineInv, EngineTypes
  <2>3. WorldGoesOn
    BY <1>0, <2>2, WorldStays
  <2> QED
    BY <1>0, <2>1, <2>3, GoesOn DEF PastPcs, Executing
<1>2. CASE ~Acquired
  <2>1. /\ UNCHANGED <<tokens, inflight>>
        /\ End(r, IF tokens < 1 THEN "limited" ELSE "busy")
    BY <1>2 DEF Acquire
  <2>2. PICK out \in {"limited", "busy"} : End(r, out)
    BY <2>1
  <2>3. out \in Outs \ Success /\ out # "replay"
    BY DEF Outs, Success
  <2>4. WorldGoesOn
    BY <1>0, <2>1, WorldStays
  <2> QED
    BY <1>0, <2>1, <2>2, <2>3, <2>4, TurnedAway DEF Executing
<1> QED
  BY <1>1, <1>2

\* The ways out of an execution that did nothing.
LEMMA Fails ==
  ASSUME EngineInv, NEW r \in Requests, req[r].pc \in {"probe", "look", "change"},
         NEW out \in {"failed", "stale"}, End(r, out), Release(r),
         UNCHANGED <<class, cap, obj, audit, tokens, changed, raced>>
  PROVE  EngineInv'
<1>1. WorldGoesOn
  BY WorldStays
<1>2. out \in Outs \ Success /\ out # "replay" /\ req[r].pc \in Executing
  BY DEF Outs, Success, Executing
<1>3. raced' \in [Requests -> SUBSET Requests]
  BY DEF EngineInv, EngineTypes
<1> QED
  BY <1>1, <1>2, <1>3, TurnedAway

LEMMA ProbeStep ==
  ASSUME EngineInv, NEW r \in Requests, Probe(r)
  PROVE  EngineInv'
<1>1. /\ req[r].pc = "probe" /\ UNCHANGED <<class, cap, obj, audit, tokens, changed, raced>>
      /\ \/ End(r, "failed") /\ Release(r)
         \/ End(r, "stale") /\ Release(r)
         \/ Goto(r, "look") /\ UNCHANGED inflight
  BY DEF Probe, world
<1>2. CASE Goto(r, "look") /\ UNCHANGED inflight
  <2>1. WorldGoesOn
    BY <1>1, WorldStays
  <2> QED
    BY <1>1, <1>2, <2>1, GoesOn DEF PastPcs, Executing
<1> QED
  BY <1>1, <1>2, Fails

LEMMA LookStep ==
  ASSUME EngineInv, NEW r \in Requests, Look(r)
  PROVE  EngineInv'
<1>1. /\ req[r].pc = "look" /\ UNCHANGED <<class, cap, obj, audit, tokens, changed, raced>>
      /\ \/ End(r, "failed") /\ Release(r)
         \/ req' = [req EXCEPT ![r].pc = "audit", ![r].out = "already_applied"] /\ UNCHANGED inflight
         \/ Goto(r, "change") /\ UNCHANGED inflight
  BY DEF Look, world
<1>2. WorldGoesOn
  BY <1>1, WorldStays
<1>3. CASE Goto(r, "change") /\ UNCHANGED inflight
  BY <1>1, <1>2, <1>3, GoesOn DEF PastPcs, Executing
<1>4. CASE req' = [req EXCEPT ![r].pc = "audit", ![r].out = "already_applied"] /\ UNCHANGED inflight
  BY <1>1, <1>2, <1>4, ToBeRecorded DEF Success
<1> QED
  BY <1>1, <1>3, <1>4, Fails

\* What a command's write leaves of the object.
LEMMA ChangedObject ==
  ASSUME EngineInv, NEW r \in Requests, Change(r)
  PROVE  GoodChange(class, obj, obj')
<1>1. /\ class \in Classes /\ obj \in Objects(class) /\ HasWork(class, obj)
      /\ req[r].pc = "change" /\ req[r].cmd \in CommandsOf[class]
  BY OnItsWay DEF EngineInv, EngineTypes, Change
<1>2. GoodEffect(class, obj, Exec(req[r].cmd, obj, req[r].reauth))
  BY <1>1, CommandsAreGood
<1>3. CASE obj' = obj
  BY <1>1, <1>3 DEF GoodChange, StaysFinished
<1>4. CASE obj' \in Exec(req[r].cmd, obj, req[r].reauth).next
  BY <1>2, <1>4 DEF GoodEffect
<1> QED
  BY <1>3, <1>4 DEF Change

LEMMA ChangeStep ==
  ASSUME EngineInv, NEW r \in Requests, Change(r)
  PROVE  EngineInv'
<1>1. /\ req[r].pc = "change" /\ UNCHANGED <<class, cap, audit, tokens, raced>>
      /\ \/ End(r, "failed") /\ Release(r) /\ UNCHANGED <<obj, changed>>
         \/ /\ changed \subseteq changed' /\ changed' \subseteq changed \cup {r}
            /\ req' = [req EXCEPT ![r].pc = "audit", ![r].out = "ok"] /\ UNCHANGED inflight
  BY DEF Change, world
<1>2. CASE /\ changed \subseteq changed' /\ changed' \subseteq changed \cup {r}
           /\ req' = [req EXCEPT ![r].pc = "audit", ![r].out = "ok"] /\ UNCHANGED inflight
  <2>1. WorldGoesOn
    BY <1>1, ChangedObject DEF WorldGoesOn, GoodChange, EngineInv, EngineTypes
  <2> QED
    BY <1>1, <1>2, <2>1, ToBeRecorded DEF Success
<1> QED
  BY <1>1, <1>2, Fails

\* A request that succeeded ends: with a row under its key, or saying that the
\* row could not be written.
LEMMA RecordStep ==
  ASSUME EngineInv, NEW r \in Requests, WriteAudit(r) \/ AuditFails(r)
  PROVE  EngineInv'
<1>0. /\ req[r].pc = "audit" /\ UNCHANGED <<class, cap, obj, tokens, changed, raced>> /\ Release(r)
      /\ req[r] \in Records /\ req[r].out \in Success /\ req[r].key \in Keys
      /\ req[r].cmd \in Commands
  BY OnItsWay DEF WriteAudit, AuditFails, world
<1>1. ASSUME NEW out \in Success \cup {"unaudited"}, End(r, out), audit \subseteq audit', audit' \subseteq Rows,
             out \in Success =>
                \E row \in audit' : row.key = req[r].key /\ row.result \in Success
      PROVE  EngineInv'
  <2> DEFINE u == Answered(r, out)
  <2>1. req' = [req EXCEPT ![r] = u]
    BY <1>1 DEF End
  <2>2. u \in Records /\ u.pc = "done" /\ u.key = req[r].key /\ u.out = out
    <3>1. out \in Outs
      BY <1>1 DEF Outs, Success
    <3> QED
      BY <1>0, <3>1, AnsweredType
  <2> HIDE DEF u
  <2>3. WorldGoesOn
    BY <1>0, <1>1 DEF WorldGoesOn, EngineInv, EngineTypes
  <2>4. UnderwayOK(u)
    BY <2>2 DEF UnderwayOK
  <2>5. SlotMoves(r, u)
    BY <1>0, <2>2 DEF SlotMoves, Executing
  <2>6. BooksKept(r, u)
    BY <1>0, <1>1, <2>2 DEF BooksKept, CarriedOut
  <2>7. LookupMoves(r, u)
    BY <1>0, <2>2, OnItsWay DEF LookupMoves, Past, PastPcs
  <2> QED
    BY <2>1, <2>2, <2>3, <2>4, <2>5, <2>6, <2>7, RequestStep
<1>2. CASE AuditFails(r)
  <2>1. End(r, "unaudited") /\ audit' = audit /\ "unaudited" \notin Success
    BY <1>2 DEF AuditFails, Success
  <2>2. audit' \subseteq Rows
    BY <2>1 DEF EngineInv, EngineTypes
  <2> QED
    BY <1>1, <2>1, <2>2
<1>3. CASE WriteAudit(r)
  <2>1. End(r, req[r].out) /\ audit \subseteq Rows
    BY <1>3 DEF WriteAudit, EngineInv, EngineTypes
  <2>2. CASE \E row \in audit : row.key = req[r].key
    <3>1. audit' = audit
      BY <1>3, <2>2 DEF WriteAudit
    <3>2. \E row \in audit' : row.key = req[r].key /\ row.result \in Success
      BY <2>1, <2>2, <3>1 DEF Rows
    <3> QED
      BY <1>0, <1>1, <2>1, <3>1, <3>2
  <2>3. CASE ~\E row \in audit : row.key = req[r].key
    <3>1. audit' = audit \cup {Row(r)}
      BY <1>3, <2>3 DEF WriteAudit
    <3>2. Row(r) \in Rows /\ Row(r).key = req[r].key /\ Row(r).result \in Success
      BY <1>0 DEF Row, Rows
    <3> QED
      BY <1>0, <1>1, <2>1, <3>1, <3>2
  <2> QED
    BY <2>2, <2>3
<1> QED
  BY <1>2, <1>3

----------------------------------------------------------------------------
(* What others do, and the engine's own crash.                             *)

LEMMA MovedObject ==
  ASSUME EngineInv, Move
  PROVE  GoodChange(class, obj, obj')
<1>0. class \in Classes /\ obj \in Objects(class) /\ HasWork(class, obj)
  BY DEF EngineInv, EngineTypes
\* A new state, with one job less or a new generation.
<1>1. ASSUME NEW s \in StatesOf[class], NEW k
      PROVE  /\ [obj EXCEPT !.st = s, !.jobs = @ \ {k}] \in Objects(class)
             /\ [obj EXCEPT !.st = s, !.jobs = @ \ {k}].st = s
  BY <1>0 DEF Objects
<1>2. ASSUME NEW s \in StatesOf[class], NEW k
      PROVE  /\ [obj EXCEPT !.st = s, !.gen = @ + 1, !.jobs = @ \ {k}] \in Objects(class)
             /\ [obj EXCEPT !.st = s, !.gen = @ + 1, !.jobs = @ \ {k}].st = s
  <2>1. \A g \in Nat \ {0} : /\ [obj EXCEPT !.st = s, !.gen = g, !.jobs = @ \ {k}] \in Objects(class)
                            /\ [obj EXCEPT !.st = s, !.gen = g, !.jobs = @ \ {k}].st = s
    BY <1>0 DEF Objects
  <2>2. obj.gen + 1 \in Nat \ {0}
    BY <1>0 DEF Objects
  <2> QED
    BY <2>1, <2>2, Zenon
<1>3. ASSUME NEW s \in StatesOf[class]
      PROVE  Set(obj, s) \in Objects(class) /\ [obj EXCEPT !.st = s, !.gen = @ + 1] \in Objects(class)
  BY <1>0, SetObject, NextGenObject, Zenon
<1>4. CASE class = "run" /\ RunMoves
  <2>0. StatesOf[class] = {"running", "awaiting", "completed", "failed", "cancelled"} /\ StepJob \in Jobs
    BY <1>4, ClassTable DEF Jobs
  <2>1. CASE /\ obj.st = "running"
             /\ \E s \in IF obj.mark THEN {"cancelled"} ELSE {"awaiting", "completed", "failed"} :
                   obj' = [obj EXCEPT !.st = s, !.jobs = @ \ {StepJob}]
    <3>1. PICK s \in {"cancelled", "awaiting", "completed", "failed"} :
               obj' = [obj EXCEPT !.st = s, !.jobs = @ \ {StepJob}]
      BY <2>1
    <3>2. obj' \in Objects(class) /\ obj'.st = s
      BY <1>1, <2>0, <3>1
    <3> QED
      BY <1>4, <2>1, <3>2 DEF GoodChange, HasWork, StaysFinished
  <2>2. CASE Answerable(obj.st) /\ obj' = Queue(Set(obj, "running"), StepJob)
    <3>1. Set(obj, "running") \in Objects(class) /\ Set(obj, "running").st = "running"
      BY <1>0, <2>0, SetObject
    <3>2. obj' \in Objects(class) /\ obj'.st = "running" /\ StepJob \in obj'.jobs
      BY <1>0, <2>0, <2>2, <3>1, QueueObject
    <3> QED
      BY <1>4, <2>2, <3>2 DEF GoodChange, HasWork, StaysFinished, Answerable
  <2> QED
    BY <1>4, <2>1, <2>2 DEF RunMoves
<1>5. CASE class = "resource" /\ ResourceMoves
  <2>0. StatesOf[class] = {"provisioning", "ready", "suspended", "failed", "terminating", "terminated"}
    BY <1>5, ClassTable
  <2>1. obj' \in Objects(class) /\ obj'.st \in {"ready", "suspended", "failed", "terminated"}
    <3>1. CASE \E s \in {"ready", "failed"} :
                 obj' = [obj EXCEPT !.st = s, !.gen = @ + 1, !.jobs = @ \ {Restart}]
      <4>1. PICK s \in {"ready", "failed"} :
                 obj' = [obj EXCEPT !.st = s, !.gen = @ + 1, !.jobs = @ \ {Restart}]
        BY <3>1
      <4>2. s \in StatesOf[class]
        BY <2>0
      <4>3. obj' \in Objects(class) /\ obj'.st = s
        BY <1>2, <4>1, <4>2, Zenon
      <4> QED
        BY <4>3
    <3>2. CASE obj' = [obj EXCEPT !.st = "terminated", !.jobs = @ \ {Terminate}]
      <4>1. "terminated" \in StatesOf[class]
        BY <2>0
      <4>2. obj' \in Objects(class) /\ obj'.st = "terminated"
        BY <1>1, <3>2, <4>1, Zenon
      <4> QED
        BY <4>2
    <3>3. CASE \E s \in {"ready", "suspended", "failed"} :
                 obj' = [obj EXCEPT !.st = s, !.jobs = @ \ {Reconcile}]
      <4>1. PICK s \in {"ready", "suspended", "failed"} :
                 obj' = [obj EXCEPT !.st = s, !.jobs = @ \ {Reconcile}]
        BY <3>3
      <4>2. s \in StatesOf[class]
        BY <2>0
      <4>3. obj' \in Objects(class) /\ obj'.st = s
        BY <1>1, <4>1, <4>2, Zenon
      <4> QED
        BY <4>3
    <3> QED
      BY <1>5, <3>1, <3>2, <3>3 DEF ResourceMoves
  <2> QED
    BY <1>5, <2>1 DEF GoodChange, HasWork, StaysFinished
<1>6. CASE class = "job" /\ JobMoves
  <2>0. /\ class \in Classes \ {"run", "resource"}
        /\ StatesOf[class] = {"available", "running", "retryable", "cancelled", "discarded", "completed"}
    BY <1>0, <1>6, ClassTable
  <2>1. \E s \in StatesOf[class] :
           obj' = Set(obj, s) \/ obj' = [obj EXCEPT !.st = s, !.gen = @ + 1]
    BY <1>6, <2>0 DEF JobMoves
  <2>2. obj' \in Objects(class)
    BY <1>3, <2>1, Zenon
  <2> QED
    BY <2>0, <2>2, OtherChanges
<1>7. CASE TenantMoves
  <2>1. class \in Classes \ {"run", "resource"}
    BY <1>0, <1>7 DEF TenantMoves
  <2>2. \E s \in StatesOf[class] :
           obj' = Set(obj, s) \/ obj' = [obj EXCEPT !.st = s, !.gen = @ + 1]
    <3>1. CASE class = "apikey" /\ obj' = Set(obj, "revoked")
      BY <3>1, ClassTable
    <3>2. CASE /\ class = "credential"
               /\ obj' = Set(obj, "absent") \/ obj' = [obj EXCEPT !.st = "stored", !.gen = @ + 1]
      BY <3>2, ClassTable
    <3>3. CASE class = "prompt" /\ obj' = Set(obj, IF obj.st = "paused" THEN "enabled" ELSE "paused")
      BY <3>3, ClassTable
    <3>4. CASE class = "provider" /\ obj' = [obj EXCEPT !.st = "ready", !.gen = @ + 1]
      BY <3>4, ClassTable
    <3> QED
      BY <1>7, <3>1, <3>2, <3>3, <3>4 DEF TenantMoves
  <2>3. obj' \in Objects(class)
    BY <1>3, <2>2, Zenon
  <2> QED
    BY <2>1, <2>3, OtherChanges
<1> QED
  BY <1>4, <1>5, <1>6, <1>7 DEF Move

\* No request moves.
LEMMA RequestsStay ==
  ASSUME EngineInv, WorldGoesOn, UNCHANGED <<req, audit, inflight, changed, raced>>
  PROVE  EngineInv'
<1> USE DEF EngineInv
<1>1. EngineTypes'
  BY DEF EngineTypes, WorldGoesOn
<1>2. Underway' /\ OnTheBooks'
  BY DEF Underway, UnderwayOK, OnTheBooks, CarriedOut, WorldGoesOn
<1>3. SlotsInv'
  <2>1. Holders' = Holders
    BY DEF Holders, Holds
  <2> QED
    BY <2>1 DEF SlotsInv, WorldGoesOn
<1>4. SuccessIsOnRecord' /\ PairsInv'
  BY DEF SuccessIsOnRecord, Bound, PairsInv, Past, Excused, GaveUp
<1> QED
  BY <1>1, <1>2, <1>3, <1>4

LEMMA CrashStep ==
  ASSUME EngineInv, CrashAdmin
  PROVE  EngineInv'
<1> USE DEF EngineInv
<1>0. UNCHANGED <<class, cap, obj, audit, changed, raced>> /\ tokens' = RateLimit /\ inflight' = 0
  BY DEF CrashAdmin
<1>1. ASSUME NEW r \in Requests
      PROVE  /\ req'[r] \in Records /\ req'[r].pc \in {"idle", "done"} /\ req'[r].key = req[r].key
             /\ req[r].pc \in {"idle", "done"} => req'[r] = req[r]
             /\ req[r].pc \notin {"idle", "done"} => req'[r].pc = "done" /\ req'[r].out = "lost"
  <2>1. /\ req[r] \in Records
        /\ req'[r] = IF req[r].pc \in {"idle", "done"} THEN req[r] ELSE Answered(r, "lost")
    BY DEF EngineTypes, CrashAdmin
  <2>2. /\ Answered(r, "lost") \in Records /\ Answered(r, "lost").pc = "done"
        /\ Answered(r, "lost").key = req[r].key /\ Answered(r, "lost").out = "lost"
    BY <2>1, AnsweredType DEF Outs
  <2> QED
    BY <2>1, <2>2
<1>2. EngineTypes'
  <2>1. req' \in [Requests -> Records]
    BY <1>1 DEF CrashAdmin
  <2> QED
    BY <1>0, <2>1, LimitsAssumption DEF EngineTypes
<1>3. Underway'
  BY <1>0, <1>1 DEF Underway, UnderwayOK
<1>4. OnTheBooks'
  BY <1>0, <1>1 DEF OnTheBooks, CarriedOut, EngineTypes
<1>5. SlotsInv'
  <2>1. Holders' = {}
    BY <1>1 DEF Holders, Holds, Executing
  <2> QED
    BY <1>0, <2>1, FS_EmptySet DEF SlotsInv, EngineTypes
<1>6. SuccessIsOnRecord'
  BY <1>0, <1>1 DEF SuccessIsOnRecord, Bound, Success
<1>7. PairsInv'
  <2>1. ASSUME NEW r \in Requests
        PROVE  (Past(r)' => Past(r)) /\ (GaveUp(r) => GaveUp(r)')
    BY <1>0, <1>1 DEF Past, PastPcs, GaveUp
  <2> QED
    BY <1>0, <1>1, <2>1 DEF PairsInv, Excused
<1> QED
  BY <1>2, <1>3, <1>4, <1>5, <1>6, <1>7

\* The objects a deployment starts with.
LEMMA FirstObjects ==
  ASSUME NEW c \in Classes
  PROVE  FirstObject[c] \in Objects(c) /\ HasWork(c, FirstObject[c])
<1> DEFINE first(s) == [st |-> s, gen |-> 1, mark |-> FALSE, jobs |-> {}]
<1>1. \E s \in StatesOf[c] :
         s \notin {"running", "provisioning", "terminating"} /\ FirstObject[c] = first(s)
  <2>1. /\ FirstObject["job"] = first("retryable") /\ FirstObject["run"] = first("awaiting")
        /\ FirstObject["resource"] = first("ready") /\ FirstObject["provider"] = first("unhealthy")
        /\ FirstObject["apikey"] = first("active") /\ FirstObject["credential"] = first("stored")
        /\ FirstObject["prompt"] = first("enabled") /\ FirstObject["session"] = first("open")
    BY DEF FirstObject
  <2> HIDE DEF first
  <2> QED
    BY <2>1, ClassTable
<1>2. ASSUME NEW s \in StatesOf[c]
      PROVE  first(s) \in Objects(c) /\ first(s).st = s
  BY DEF Objects
<1> HIDE DEF first
<1> QED
  BY <1>1, <1>2 DEF HasWork

LEMMA EngineInvHolds == AdminSpec => []EngineInv
<1>1. AdminInit => EngineInv
  <2> SUFFICES ASSUME AdminInit PROVE EngineInv
    OBVIOUS
  <2>1. Idle \in Records /\ Idle.pc = "idle"
    BY DEF Idle, Records, Pcs, Outs, Hashes
  <2>2. EngineTypes
    BY <2>1, FirstObjects, LimitsAssumption DEF AdminInit, EngineTypes
  <2>3. Holders = {}
    BY <2>1 DEF AdminInit, Holders, Holds, Executing
  <2>4. SlotsInv
    BY <2>2, <2>3, FS_EmptySet DEF AdminInit, SlotsInv, EngineTypes
  <2>5. Underway /\ OnTheBooks /\ SuccessIsOnRecord /\ PairsInv
    BY <2>1 DEF AdminInit, Underway, UnderwayOK, OnTheBooks, SuccessIsOnRecord, PairsInv, Past, PastPcs
  <2> QED
    BY <2>2, <2>4, <2>5 DEF EngineInv
<1>2. EngineInv /\ [AdminNext]_adminVars => EngineInv'
  <2> SUFFICES ASSUME EngineInv, [AdminNext]_adminVars PROVE EngineInv'
    OBVIOUS
  <2>1. ASSUME NEW r \in Requests,
               \/ Arrive(r) \/ LookupIdempotent(r) \/ Acquire(r) \/ Probe(r)
               \/ Look(r) \/ Change(r) \/ WriteAudit(r) \/ AuditFails(r)
        PROVE  EngineInv'
    BY <2>1, ArriveStep, LookupStep, AcquireStep, ProbeStep, LookStep, ChangeStep, RecordStep
  <2>2. CASE Refill
    <3>1. tokens' \in 0 .. RateLimit
      BY <2>2, LimitsAssumption DEF Refill, EngineInv, EngineTypes
    <3>2. UNCHANGED <<class, cap, obj, req, audit, inflight, changed, raced>>
      BY <2>2 DEF Refill, world
    <3>3. WorldGoesOn
      BY <3>1, <3>2, WorldStays
    <3> QED
      BY <3>2, <3>3, RequestsStay
  <2>3. CASE Move
    <3>1. UNCHANGED <<class, cap, req, audit, tokens, inflight, changed, raced>>
      BY <2>3 DEF Move
    <3>2. WorldGoesOn
      BY <2>3, <3>1, MovedObject DEF WorldGoesOn, GoodChange, EngineInv, EngineTypes
    <3> QED
      BY <3>1, <3>2, RequestsStay
  <2>4. CASE UNCHANGED adminVars
    <3>1. UNCHANGED <<class, cap, obj, req, audit, tokens, inflight, changed, raced>>
      BY <2>4 DEF adminVars
    <3>2. WorldGoesOn
      BY <3>1, WorldStays
    <3> QED
      BY <3>1, <3>2, RequestsStay
  <2> QED
    BY <2>1, <2>2, <2>3, <2>4, CrashStep DEF AdminNext
<1> QED
  BY <1>1, <1>2, PTL DEF AdminSpec

----------------------------------------------------------------------------
(* The theorems.                                                           *)

\* On every way through Engine.Run the slot is given back, a refused request
\* has carried nothing out, and a reported success is on record: for any
\* requests, keys and limits.
THEOREM RecordHoldsAlways == AdminSpec => []RecordHolds
<1>1. EngineInv => RecordHolds
  <2> SUFFICES ASSUME EngineInv PROVE RecordHolds
    OBVIOUS
  <2>1. SlotsBalanced
    BY DEF EngineInv, SlotsInv, SlotsBalanced, Holders
  <2>2. RefusedDidNothing
    BY DEF EngineInv, OnTheBooks, CarriedOut, RefusedDidNothing
  <2> QED
    BY <2>1, <2>2 DEF EngineInv, RecordHolds
<1> QED
  BY <1>1, EngineInvHolds, PTL

\* Two requests with one key are both carried out only if they raced past the
\* idempotency lookup or an outcome was never recorded.
THEOREM RetryAppliesOnceHolds == AdminSpec => []RetryAppliesOnce
<1>1. EngineInv => RetryAppliesOnce
  <2> SUFFICES ASSUME EngineInv, NEW r \in changed, NEW s \in changed, r # s,
                      req[r].key = req[s].key
               PROVE  \/ r \in raced[s] \/ s \in raced[r]
                      \/ {req[r].out, req[s].out} \cap {"unaudited", "lost"} # {}
    BY DEF RetryAppliesOnce
  <2>1. Excused(r, s)
    BY DEF EngineInv, EngineTypes, PairsInv, Past
  <2> QED
    BY <2>1 DEF Excused, GaveUp
<1> QED
  BY <1>1, EngineInvHolds, PTL

\* What a step does to the object.
LEMMA ObjectStep ==
  ASSUME EngineInv, [AdminNext]_adminVars
  PROVE  GoodChange(class, obj, obj')
<1>1. CASE obj' = obj
  BY <1>1 DEF GoodChange, StaysFinished, EngineInv, EngineTypes
<1>2. \/ obj' = obj \/ Move \/ \E r \in Requests : Change(r)
  <2>1. ASSUME NEW r \in Requests, Arrive(r)
        PROVE  obj' = obj
    <3>1. ASSUME NEW role, NEW c, NEW key, NEW hash, NEW reauth, NEW reason,
                 \/ HandleCommand(r, role, c, key, hash, reauth, reason)
                 \/ HandleReveal(r, role, c, key, hash, reauth, reason)
          PROVE  obj' = obj
      BY <3>1 DEF HandleCommand, HandleReveal, Submit
    <3> QED
      BY <2>1, <3>1, Zenon DEF Arrive
  <2>2. ASSUME NEW r \in Requests,
               \/ LookupIdempotent(r) \/ Acquire(r) \/ Probe(r) \/ Look(r) \/ WriteAudit(r)
               \/ AuditFails(r)
        PROVE  obj' = obj
    <3>1. CASE LookupIdempotent(r) \/ Acquire(r)
      BY <3>1 DEF LookupIdempotent, Acquire
    <3>2. CASE Probe(r)
      BY <3>2 DEF Probe
    <3>3. CASE Look(r)
      BY <3>3 DEF Look
    <3>4. CASE WriteAudit(r) \/ AuditFails(r)
      BY <3>4 DEF WriteAudit, AuditFails
    <3> QED
      BY <2>2, <3>1, <3>2, <3>3, <3>4
  <2>3. ASSUME Refill \/ CrashAdmin \/ UNCHANGED adminVars
        PROVE  obj' = obj
    BY <2>3 DEF Refill, CrashAdmin, adminVars
  <2> QED
    BY <2>1, <2>2, <2>3 DEF AdminNext
<1> QED
  BY <1>1, <1>2, ChangedObject, MovedObject

\* Whatever other parts of the program and other commands do meanwhile, a state
\* that needs a job has it and a finished run stays finished.
THEOREM ObjectsHoldAlways == AdminSpec => ObjectsHold
<1>1. EngineInv => AdminTypeOK /\ WorkIsQueued
  <2> SUFFICES ASSUME EngineInv PROVE AdminTypeOK /\ WorkIsQueued
    OBVIOUS
  <2>1. class \in Classes /\ obj \in Objects(class) /\ HasWork(class, obj) /\ cap \in Nat
        /\ req \in [Requests -> Records] /\ audit \subseteq Rows /\ tokens \in 0 .. RateLimit
    BY DEF EngineInv, EngineTypes
  <2>2. inflight \in 0 .. cap
    BY <2>1, FS_CardinalityType DEF EngineInv, SlotsInv
  <2>3. \A r \in Requests : req[r].cmd \in Commands \cup {""} /\ req[r].key \in Keys \cup {NoKey}
    BY <2>1 DEF Records
  <2>4. obj.st \in StatesOf[class] /\ obj.gen \in Nat \ {0} /\ obj.jobs \subseteq Jobs
    BY <2>1 DEF Objects
  <2>5. audit \subseteq [req : Requests, cmd : Commands, key : Keys, result : Success]
    BY <2>1 DEF Rows
  <2>6. AdminTypeOK
    BY <2>1, <2>2, <2>3, <2>4, <2>5 DEF AdminTypeOK
  <2> QED
    BY <2>1, <2>6 DEF WorkIsQueued, HasWork
<1>2. EngineInv /\ [AdminNext]_adminVars =>
        [class = "run" =>
           /\ obj.st \in {"failed", "cancelled"} => obj' = obj
           /\ obj.st = "completed" => obj'.st # "cancelled"]_adminVars
  BY ObjectStep DEF GoodChange, StaysFinished
<1> QED
  BY <1>1, <1>2, EngineInvHolds, PTL DEF AdminSpec, ObjectsHold, FinishedRunStays

-----------------------------------------------------------------------------
(***************************************************************************)
(* AdminQuery, for any table, page size and number of changes between two  *)
(* pages.                                                                  *)
(***************************************************************************)

-----------------------------------------------------------------------------
(***************************************************************************)
(* The invariant.  A cursor splits the rows nobody touched: those listed   *)
(* are at or before it, and those not beyond it are listed.                *)
(***************************************************************************)

AnyValue == Vals \cup {Null, Empty}
Lives == BOOLEAN
Cursors == [v : AnyValue, id : Ids \cup {Null}, fp : SUBSET AnyValue, live : Lives]
Views == [rows : Seq(Ids), status : {"paging", "end", "error"}, cursor : Cursors]

ListTypes ==
    /\ DOMAIN table \subseteq Ids /\ \A i \in DOMAIN table : table[i] \in SortValues(Vals)
    /\ filter \subseteq SortValues(Vals) /\ view \in Views
    /\ touched \subseteq Ids /\ edits \in 0 .. MaxEdits

HasCursor == view.cursor # NoCursor
CursorFits ==
    /\ HasCursor => view.cursor.v \in Vals \cup {Empty} /\ view.cursor.id \in Ids
    /\ HasCursor /\ view.cursor.v = Empty => column.nullable
    /\ ~HasCursor /\ view.status = "paging" => DOMAIN view.rows = {}

\* Row i is at the cursor or before it.
Reached(i, c) ==
    /\ table[i] # Null
    /\ \/ IF desc THEN table[i] > c.v ELSE table[i] < c.v
       \/ table[i] = c.v /\ i <= c.id

UntouchedThere ==
    \A n \in DOMAIN view.rows : view.rows[n] \notin touched => view.rows[n] \in DOMAIN table
Behind ==
    ~Restarts /\ HasCursor /\ view.cursor.v # Empty =>
        \A n \in DOMAIN view.rows : view.rows[n] \notin touched => Reached(view.rows[n], view.cursor)
Covered ==
    HasCursor /\ view.status = "paging" =>
        \A i \in DOMAIN table \ touched :
            table[i] \in view.cursor.fp \ {Null} /\ ~KeysetPredicate(i, view.cursor)
                => \E n \in DOMAIN view.rows : view.rows[n] = i

QueryInv ==
    /\ ListTypes /\ CursorFits /\ UntouchedThere /\ Behind /\ Covered
    /\ ListedInOrder /\ NothingSkipped /\ OneQuery

-----------------------------------------------------------------------------
(***************************************************************************)
(* What others do between two pages.                                       *)
(***************************************************************************)

\* Row i is inserted, updated or deleted.
LEMMA EditKeeps ==
  ASSUME QueryInv, NEW i \in Ids, Edit, touched' = touched \cup {i},
         DOMAIN table' \subseteq DOMAIN table \cup {i}, DOMAIN table \subseteq DOMAIN table' \cup {i},
         \A j \in DOMAIN table' : table'[j] \in SortValues(Vals),
         \A j \in DOMAIN table \cap DOMAIN table' : j # i => table'[j] = table[j],
         filter' = filter, view' = view
  PROVE  QueryInv'
<1>1. column' = column /\ desc' = desc /\ edits' = edits + 1 /\ edits < MaxEdits
      /\ view.status = "paging"
  BY DEF Edit
<1>2. \A j : j \notin touched' => j \notin touched /\ (j \in DOMAIN table' <=> j \in DOMAIN table)
  OBVIOUS
<1>3. \A j \in DOMAIN table' : j \notin touched' => j \in DOMAIN table /\ table'[j] = table[j]
  BY <1>2
<1>4. ListTypes'
  BY <1>1, QueryAssumption DEF QueryInv, ListTypes, SortValues
<1>5. CursorFits' /\ UntouchedThere'
  BY <1>1, <1>2 DEF QueryInv, CursorFits, HasCursor, UntouchedThere
<1>6. Behind'
  BY <1>1, <1>2, <1>3 DEF QueryInv, UntouchedThere, Behind, HasCursor, Reached, Restarts
<1>7. Covered'
  BY <1>1, <1>2, <1>3 DEF QueryInv, Covered, HasCursor, KeysetPredicate
<1>8. ListedInOrder'
  BY <1>1, <1>2, <1>3 DEF QueryInv, UntouchedThere, ListedInOrder, Before, Restarts
<1>9. NothingSkipped'
  BY <1>1 DEF NothingSkipped
<1>10. OneQuery'
  BY <1>1, <1>2, <1>3 DEF QueryInv, UntouchedThere, OneQuery
<1> QED
  BY <1>4, <1>5, <1>6, <1>7, <1>8, <1>9, <1>10 DEF QueryInv

LEMMA RowsChangeOK ==
  ASSUME QueryInv, NEW i \in Ids, NEW v \in SortValues(Vals), Insert(i, v) \/ Update(i, v) \/ Delete(i)
  PROVE  QueryInv'
<1>1. CASE Insert(i, v)
  <2>1. Edit /\ touched' = touched \cup {i} /\ filter' = filter /\ view' = view
    BY <1>1 DEF Insert
  <2>2. /\ DOMAIN table' = DOMAIN table \cup {i} /\ table'[i] = v
        /\ \A j \in DOMAIN table : j # i => table'[j] = table[j]
    BY <1>1 DEF Insert
  <2>3. \A j \in DOMAIN table' : table'[j] \in SortValues(Vals)
    BY <2>2 DEF QueryInv, ListTypes
  <2> QED
    BY <2>1, <2>2, <2>3, EditKeeps
<1>2. CASE Update(i, v)
  <2>1. Edit /\ touched' = touched \cup {i} /\ filter' = filter /\ view' = view
    BY <1>2 DEF Update
  <2>2. /\ DOMAIN table' = DOMAIN table /\ i \in DOMAIN table /\ table'[i] = v
        /\ \A j \in DOMAIN table : j # i => table'[j] = table[j]
    BY <1>2 DEF Update
  <2>3. \A j \in DOMAIN table' : table'[j] \in SortValues(Vals)
    BY <2>2 DEF QueryInv, ListTypes
  <2> QED
    BY <2>1, <2>2, <2>3, EditKeeps
<1>3. CASE Delete(i)
  <2>1. Edit /\ touched' = touched \cup {i} /\ filter' = filter /\ view' = view
    BY <1>3 DEF Delete
  <2>2. /\ DOMAIN table' = DOMAIN table \ {i}
        /\ \A j \in DOMAIN table' : table'[j] = table[j]
    BY <1>3 DEF Delete
  <2>3. \A j \in DOMAIN table' : table'[j] \in SortValues(Vals)
    BY <2>2 DEF QueryInv, ListTypes
  <2> QED
    BY <2>1, <2>2, <2>3, EditKeeps
<1> QED
  BY <1>1, <1>2, <1>3

\* The table stays, and so does what the cursor points at.
LEMMA CursorStays ==
  ASSUME QueryInv, column' = column, desc' = desc, table' = table, touched' = touched,
         edits' \in 0 .. MaxEdits, filter' \subseteq SortValues(Vals), view' \in Views,
         view'.rows = view.rows, HasCursor, HasCursor',
         view'.cursor.v = view.cursor.v, view'.cursor.id = view.cursor.id,
         view'.cursor.fp = view.cursor.fp,
         view'.status = "error" \/ (view'.status = "paging" /\ view.status = "paging")
  PROVE  QueryInv'
<1>1. ListTypes'
  BY DEF QueryInv, ListTypes, SortValues
<1>2. CursorFits' /\ UntouchedThere'
  BY DEF QueryInv, CursorFits, UntouchedThere
<1>3. Behind'
  BY DEF QueryInv, Behind, Reached, Restarts
<1>4. Covered'
  BY DEF QueryInv, Covered, KeysetPredicate
<1>5. ListedInOrder' /\ NothingSkipped'
  BY DEF QueryInv, ListedInOrder, NothingSkipped, Before, Restarts
<1>6. OneQuery'
  BY DEF QueryInv, OneQuery, HasCursor
<1> QED
  BY <1>1, <1>2, <1>3, <1>4, <1>5, <1>6 DEF QueryInv

LEMMA RefilterOK ==
  ASSUME QueryInv, NEW f \in {SortValues(Vals)} \cup {{v} : v \in Vals}, Refilter(f)
  PROVE  QueryInv'
<1>1. f \subseteq SortValues(Vals)
  BY DEF SortValues
<1>2. /\ column' = column /\ desc' = desc /\ table' = table /\ touched' = touched /\ view' = view
      /\ edits' = edits + 1 /\ edits < MaxEdits /\ filter' = f /\ HasCursor /\ view.status = "paging"
  BY DEF Refilter, Edit, HasCursor
<1>3. edits' \in 0 .. MaxEdits /\ view \in Views
  BY <1>2, QueryAssumption DEF QueryInv, ListTypes
<1>4. HasCursor'
  BY <1>2 DEF HasCursor
<1> QED
  BY <1>1, <1>2, <1>3, <1>4, CursorStays

LEMMA DeadCursor ==
  ASSUME NEW w \in Views, NEW no \in Lives, NEW u, u = [w EXCEPT !.cursor.live = no]
  PROVE  /\ u \in Views /\ u.rows = w.rows /\ u.status = w.status
         /\ u.cursor.v = w.cursor.v /\ u.cursor.id = w.cursor.id /\ u.cursor.fp = w.cursor.fp
<1>1. PICK c : c = [w.cursor EXCEPT !.live = no]
  OBVIOUS
<1>2. w.cursor \in Cursors
  BY DEF Views
<1>3. c \in Cursors /\ c.v = w.cursor.v /\ c.id = w.cursor.id /\ c.fp = w.cursor.fp
  BY <1>1, <1>2 DEF Cursors
<1>4. u = [w EXCEPT !.cursor = c]
  BY <1>1, Zenon
<1> QED
  BY <1>3, <1>4 DEF Views

LEMMA ExpireOK ==
  ASSUME QueryInv, Expire
  PROVE  QueryInv'
<1>1. /\ column' = column /\ desc' = desc /\ table' = table /\ touched' = touched /\ filter' = filter
      /\ edits' = edits + 1 /\ edits < MaxEdits /\ HasCursor /\ view.status = "paging"
  BY DEF Expire, Edit, HasCursor
<1>2. edits' \in 0 .. MaxEdits /\ view \in Views /\ filter \subseteq SortValues(Vals)
  BY <1>1, QueryAssumption DEF QueryInv, ListTypes
<1>3. PICK no : no = FALSE
  BY Zenon
<1>4. no \in Lives
  BY <1>3, Zenon DEF Lives
<1>5. PICK u : u = view'
  OBVIOUS
<1>6. u = [view EXCEPT !.cursor.live = no]
  BY <1>3, <1>5, Zenon DEF Expire
<1>7. /\ u \in Views /\ u.rows = view.rows /\ u.status = view.status
      /\ u.cursor.v = view.cursor.v /\ u.cursor.id = view.cursor.id /\ u.cursor.fp = view.cursor.fp
  BY <1>2, <1>4, <1>6, DeadCursor
<1>8. u.cursor # NoCursor
  BY <1>1, <1>7, QueryAssumption DEF QueryInv, CursorFits, NoCursor, Null
<1> QED
  BY <1>1, <1>2, <1>5, <1>7, <1>8, CursorStays DEF HasCursor


-----------------------------------------------------------------------------
(***************************************************************************)
(* A page.                                                                 *)
(***************************************************************************)

\* The cursor is taken, if there is one.
CursorTaken ==
    ~HasCursor \/ (Verify(view.cursor) /\ Fingerprint(view.cursor) /\ Coerces(view.cursor.v))

LEMMA QueryNumbers ==
  /\ \A i \in Ids : i \in Nat
  /\ \A v \in Vals : v \in Nat /\ v > 0
  /\ Null = 0 - 1 /\ Empty = 0
<1>1. \A i \in Ids : i \in Nat
  BY QueryAssumption
<1>2. \A v \in Vals : v \in Nat /\ v # 0
  BY QueryAssumption
<1>3. Null = 0 - 1 /\ Empty = 0
  BY DEF Null, Empty
<1> QED
  BY <1>1, <1>2, <1>3

LEMMA TableValues ==
  ASSUME QueryInv, NEW i \in DOMAIN table
  PROVE  i \in Nat /\ i \in Ids /\ table[i] \in Vals \cup {Null} /\ table[i] \in Int /\ table[i] # Empty
<1>1. i \in Ids /\ table[i] \in SortValues(Vals)
  BY DEF QueryInv, ListTypes
<1>2. table[i] \in Vals \/ table[i] = Null
  BY <1>1 DEF SortValues
<1> QED
  BY <1>1, <1>2, QueryNumbers

\* Before the first page nothing is listed.
LEMMA ListedWithCursor ==
  ASSUME QueryInv, view.status = "paging", NEW n \in DOMAIN view.rows
  PROVE  HasCursor
BY Zenon DEF QueryInv, CursorFits

\* What comes on a page follows what was listed before.
LEMMA NewFollowsOld ==
  ASSUME QueryInv, ~Restarts, CursorTaken, view.status = "paging", NEW i \in Matches,
         NEW n \in DOMAIN view.rows, view.rows[n] \notin touched
  PROVE  Before(view.rows[n], i)
<1>1. HasCursor
  BY ListedWithCursor
<1>2. i \in DOMAIN table /\ KeysetPredicate(i, view.cursor) /\ view.rows[n] \in DOMAIN table
  BY <1>1 DEF Matches, HasCursor, QueryInv, UntouchedThere
<1>3. /\ i \in Nat /\ table[i] \in Vals \cup {Null} /\ table[i] \in Int /\ table[i] # Empty
      /\ view.rows[n] \in Nat /\ table[view.rows[n]] \in Int
  BY <1>2, TableValues
<1>4. view.cursor.v \in Vals \cup {Empty} /\ view.cursor.id \in Nat /\ view.cursor.v \in Int
  <2>1. view.cursor.v \in Vals \cup {Empty} /\ view.cursor.id \in Ids
    BY <1>1, Zenon DEF QueryInv, CursorFits
  <2> QED
    BY <2>1, QueryNumbers
<1>5. view.cursor.v # Empty
  <2> SUFFICES ASSUME view.cursor.v = Empty PROVE FALSE
    OBVIOUS
  <2>1. column.nullable /\ column.type = "string"
    BY <1>1 DEF QueryInv, CursorFits, CursorTaken, Coerces
  <2>2. desc
    BY <2>1 DEF Restarts
  <2>3. table[i] # Null /\ table[i] < 0
    BY <1>2, <1>3, <2>2 DEF KeysetPredicate, Empty
  <2> QED
    BY <1>3, <2>3, QueryAssumption
<1>6. Reached(view.rows[n], view.cursor)
  BY <1>1, <1>5 DEF QueryInv, Behind
<1>7. table[i] # Null /\ table[view.rows[n]] # Null
  BY <1>2, <1>4, <1>5, <1>6, QueryAssumption DEF KeysetPredicate, Reached, Null, Empty
<1>8. CASE desc
  BY <1>2, <1>3, <1>4, <1>6, <1>7, <1>8 DEF KeysetPredicate, Reached, Before
<1>9. CASE ~desc
  BY <1>2, <1>3, <1>4, <1>6, <1>7, <1>9 DEF KeysetPredicate, Reached, Before
<1> QED
  BY <1>8, <1>9

LEMMA PageRows ==
  ASSUME NEW s \in Selected(Limit + 1)
  PROVE  /\ s \in Seq(Matches) /\ Len(s) \in Nat /\ DOMAIN s = 1 .. Len(s) /\ Len(s) <= Limit + 1
         /\ \A a \in 1 .. Len(s) : s[a] \in Matches
         /\ \A a, b \in 1 .. Len(s) : a < b => Before(s[a], s[b])
         /\ \A i \in Matches :
              \/ \E a \in 1 .. Len(s) : s[a] = i
              \/ Len(s) = Limit + 1 /\ \A a \in 1 .. Len(s) : Before(s[a], i)
<1>1. PICK m \in 0 .. Limit + 1 : s \in [1 .. m -> Matches]
  BY DEF Selected
<1>2. m \in Nat /\ m <= Limit + 1
  BY <1>1, QueryAssumption
<1>3. s \in Seq(Matches) /\ DOMAIN s = 1 .. m
  BY <1>1, <1>2
<1>4. Len(s) = m
  BY <1>1, <1>2, <1>3
<1>5. /\ \A a, b \in DOMAIN s : a < b => Before(s[a], s[b])
      /\ \A i \in Matches :
           \/ \E a \in DOMAIN s : s[a] = i
           \/ Len(s) = Limit + 1 /\ \A a \in DOMAIN s : Before(s[a], i)
  BY Zenon DEF Selected
<1> QED
  BY <1>1, <1>2, <1>3, <1>4, <1>5

\* What a page adds: rows that match, in order, the first ones of them.
LEMMA PageAdds ==
  ASSUME QueryInv, NEW s \in Seq(Ids), DOMAIN s = 1 .. Len(s),
         \A a \in 1 .. Len(s) : s[a] \in Matches,
         \A a, b \in 1 .. Len(s) : a < b => Before(s[a], s[b]),
         CursorTaken, view.status = "paging", NEW w \in Seq(Ids), w = view.rows \o s
  PROVE  /\ \A n \in DOMAIN w : w[n] \notin touched => w[n] \in DOMAIN table /\ table[w[n]] \in filter
         /\ ~Restarts => \A m, n \in DOMAIN w :
              m < n /\ {w[m], w[n]} \cap touched = {} => Before(w[m], w[n])
         /\ \A n \in DOMAIN view.rows : n \in DOMAIN w /\ w[n] = view.rows[n]
         /\ \A a \in 1 .. Len(s) : \E n \in DOMAIN w : w[n] = s[a]
         /\ \A n \in DOMAIN w : \/ n \in DOMAIN view.rows /\ w[n] = view.rows[n]
                                \/ \E a \in 1 .. Len(s) : w[n] = s[a]
<1>1. view.rows \in Seq(Ids)
  BY DEF QueryInv, ListTypes, Views
<1>2. PICK r : r = view.rows
  OBVIOUS
<1>3. /\ r \in Seq(Ids) /\ Len(r) \in Nat /\ Len(s) \in Nat /\ DOMAIN r = 1 .. Len(r)
      /\ DOMAIN w = 1 .. Len(r) + Len(s) /\ w = r \o s
  BY <1>1, <1>2
<1>4. /\ \A n \in 1 .. Len(r) : w[n] = r[n]
      /\ \A n \in DOMAIN w : n \in 1 .. Len(r) \/ (n - Len(r) \in 1 .. Len(s) /\ w[n] = s[n - Len(r)])
      /\ \A a \in 1 .. Len(s) : a + Len(r) \in DOMAIN w /\ w[a + Len(r)] = s[a]
  BY <1>3
<1>5. \A n \in DOMAIN w : w[n] \notin touched => w[n] \in DOMAIN table /\ table[w[n]] \in filter
  <2> SUFFICES ASSUME NEW n \in DOMAIN w, w[n] \notin touched
               PROVE  w[n] \in DOMAIN table /\ table[w[n]] \in filter
    OBVIOUS
  <2>1. CASE n \in 1 .. Len(r)
    <3>1. w[n] = view.rows[n] /\ n \in DOMAIN view.rows
      BY <1>2, <1>3, <1>4, <2>1
    <3>2. HasCursor
      BY <3>1, ListedWithCursor
    <3>3. view.cursor.fp = filter
      BY <3>2 DEF CursorTaken, Fingerprint
    <3> QED
      BY <3>1, <3>2, <3>3 DEF QueryInv, UntouchedThere, OneQuery, HasCursor
  <2>2. CASE n \notin 1 .. Len(r)
    BY <1>4, <2>2 DEF Matches, CompileFilter
  <2> QED
    BY <2>1, <2>2
<1>6. ASSUME ~Restarts, NEW m \in DOMAIN w, NEW n \in DOMAIN w, m < n, w[m] \notin touched, w[n] \notin touched
      PROVE  Before(w[m], w[n])
  <2>1. CASE m \in 1 .. Len(r) /\ n \in 1 .. Len(r)
    <3>1. w[m] = view.rows[m] /\ w[n] = view.rows[n] /\ m \in DOMAIN view.rows /\ n \in DOMAIN view.rows
      BY <1>2, <1>3, <1>4, <2>1
    <3>2. {view.rows[m], view.rows[n]} \cap touched = {}
      BY <1>6, <3>1
    <3>3. Before(view.rows[m], view.rows[n])
      BY <1>6, <3>1, <3>2 DEF QueryInv, ListedInOrder
    <3> QED
      BY <3>1, <3>3
  <2>2. CASE m \in 1 .. Len(r) /\ n \notin 1 .. Len(r)
    <3>1. w[m] = view.rows[m] /\ m \in DOMAIN view.rows /\ w[n] \in Matches
      BY <1>2, <1>3, <1>4, <2>2
    <3>2. PICK i \in Matches : i = w[n]
      BY <3>1
    <3>3. view.rows[m] \notin touched
      BY <1>6, <3>1
    <3>4. Before(view.rows[m], i)
      BY <1>6, <3>1, <3>3, NewFollowsOld
    <3> QED
      BY <3>1, <3>2, <3>4
  <2>3. CASE m \notin 1 .. Len(r)
    <3>1. n \notin 1 .. Len(r)
      BY <1>3, <1>6, <2>3
    <3>2. /\ m - Len(r) \in 1 .. Len(s) /\ w[m] = s[m - Len(r)]
          /\ n - Len(r) \in 1 .. Len(s) /\ w[n] = s[n - Len(r)]
      BY <1>4, <2>3, <3>1
    <3>3. m - Len(r) < n - Len(r)
      BY <1>3, <1>6
    <3> QED
      BY <3>2, <3>3
  <2> QED
    BY <2>1, <2>2, <2>3
<1>7. \A n \in DOMAIN view.rows : n \in DOMAIN w /\ w[n] = view.rows[n]
  BY <1>2, <1>3, <1>4
<1>8. \A n \in DOMAIN w : \/ n \in DOMAIN view.rows /\ w[n] = view.rows[n]
                          \/ \E a \in 1 .. Len(s) : w[n] = s[a]
  BY <1>2, <1>3, <1>4
<1> QED
  BY <1>4, <1>5, <1>6, <1>7, <1>8

\* A row at or before the last one of a page is reached by its cursor, and one
\* after it is beyond.
LEMMA AtTheLast ==
  ASSUME QueryInv, NEW last \in DOMAIN table, NEW i \in DOMAIN table, NEW c,
         c.v = FormatSortValue(table[last]), c.id = last
  PROVE  /\ (i = last \/ Before(i, last)) /\ c.v # Empty => Reached(i, c)
         /\ Before(last, i) /\ table[i] # Null => KeysetPredicate(i, c)
<1>1. /\ i \in Nat /\ last \in Nat /\ table[i] \in Int /\ table[last] \in Int
      /\ table[i] # Empty /\ table[last] # Empty
  BY TableValues
<1>2. CASE desc
  BY <1>1, <1>2 DEF FormatSortValue, Before, Reached, KeysetPredicate
<1>3. CASE ~desc
  BY <1>1, <1>3 DEF FormatSortValue, Before, Reached, KeysetPredicate
<1> QED
  BY <1>2, <1>3


LEMMA NewView ==
  ASSUME NEW r \in Seq(Ids), NEW st \in {"paging", "end", "error"}, NEW c \in Cursors,
         NEW w, w = [rows |-> r, status |-> st, cursor |-> c]
  PROVE  w \in Views /\ w.rows = r /\ w.status = st /\ w.cursor = c
BY DEF Views

LEMMA NewCursor ==
  ASSUME QueryInv, NEW last \in DOMAIN table, NEW yes \in Lives,
         NEW c, c = [v |-> FormatSortValue(table[last]), id |-> last, fp |-> filter, live |-> yes]
  PROVE  /\ c \in Cursors /\ c.v = FormatSortValue(table[last]) /\ c.id = last /\ c.fp = filter
         /\ c # NoCursor /\ c.v \in Vals \cup {Empty} /\ c.id \in Ids
         /\ c.v = Empty => column.nullable
<1>1. PICK v : v = FormatSortValue(table[last])
  OBVIOUS
<1>2. last \in Ids /\ table[last] \in SortValues(Vals) /\ filter \subseteq SortValues(Vals)
  BY DEF QueryInv, ListTypes
<1>3. SortValues(Vals) \subseteq AnyValue
  BY DEF SortValues, AnyValue
<1>4. v \in Vals \cup {Empty} /\ v \in AnyValue
  BY <1>1, <1>2 DEF SortValues, FormatSortValue, AnyValue
<1>5. c = [v |-> v, id |-> last, fp |-> filter, live |-> yes]
  BY <1>1
<1>6. filter \in SUBSET AnyValue
  BY <1>2, <1>3
<1>7. c \in Cursors /\ c.v = v /\ c.id = last /\ c.fp = filter
  BY <1>2, <1>4, <1>5, <1>6 DEF Cursors
<1>8. c # NoCursor
  <2>1. NoCursor.id = Null
    BY DEF NoCursor
  <2>2. last # Null
    BY <1>2, QueryNumbers
  <2> QED
    BY <1>7, <2>1, <2>2
<1>9. c.v = Empty => column.nullable
  <2>1. v = Empty => table[last] = Null
    BY <1>1, TableValues DEF FormatSortValue
  <2>2. table[last] = Null => column.nullable
    BY <1>2, QueryNumbers DEF SortValues
  <2> QED
    BY <1>7, <2>1, <2>2
<1> QED
  BY <1>1, <1>2, <1>4, <1>7, <1>8, <1>9

\* A row that matches the filter, that nobody touched and that has a value is
\* listed or matches the query.
LEMMA ListedOrMatches ==
  ASSUME QueryInv, CursorTaken, view.status = "paging", NEW i \in DOMAIN table \ touched,
         table[i] \in filter \ {Null}
  PROVE  i \in Matches \/ \E n \in DOMAIN view.rows : view.rows[n] = i
<1>1. CASE ~HasCursor
  BY <1>1 DEF Matches, CompileFilter, HasCursor
<1>2. CASE HasCursor
  <2>1. view.cursor.fp = filter
    BY <1>2 DEF CursorTaken, Fingerprint
  <2>2. CASE KeysetPredicate(i, view.cursor)
    BY <2>2 DEF Matches, CompileFilter
  <2>3. CASE ~KeysetPredicate(i, view.cursor)
    BY <1>2, <2>1, <2>3 DEF QueryInv, Covered
  <2> QED
    BY <2>2, <2>3
<1> QED
  BY <1>1, <1>2

\* The list ends with page s, or goes on after the last row of it.
EndsWith(s) ==
    view'.status = "end" => ~HasCursor' /\ \A i \in Matches : \E a \in 1 .. Len(s) : s[a] = i
GoesOnAfter(s) ==
    view'.status = "paging" =>
        /\ HasCursor' /\ Len(s) > 0
        /\ view'.cursor.v = FormatSortValue(table[s[Len(s)]]) /\ view'.cursor.id = s[Len(s)]
        /\ view'.cursor.fp = filter /\ view'.cursor.v \in Vals \cup {Empty} /\ view'.cursor.id \in Ids
        /\ view'.cursor.v = Empty => column.nullable
        /\ \A i \in Matches : \/ \E a \in 1 .. Len(s) : s[a] = i
                              \/ Before(s[Len(s)], i)

LEMMA LastOrEarlier ==
  ASSUME NEW s \in Seq(Ids), NEW a \in 1 .. Len(s)
  PROVE  a = Len(s) \/ a < Len(s)
OBVIOUS

LEMMA PageStep ==
  ASSUME QueryInv, CursorTaken, view.status = "paging",
         UNCHANGED <<column, desc, table, filter, touched, edits>>,
         NEW s \in Seq(Ids), DOMAIN s = 1 .. Len(s), \A a \in 1 .. Len(s) : s[a] \in Matches,
         \A a, b \in 1 .. Len(s) : a < b => Before(s[a], s[b]),
         view' \in Views, view'.rows = view.rows \o s, view'.status \in {"paging", "end"},
         EndsWith(s), GoesOnAfter(s)
  PROVE  QueryInv'
<1>1. PICK w : w = view'.rows
  OBVIOUS
<1>2. w \in Seq(Ids) /\ w = view.rows \o s
  BY <1>1 DEF Views
<1>3. /\ \A n \in DOMAIN w : w[n] \notin touched => w[n] \in DOMAIN table /\ table[w[n]] \in filter
      /\ ~Restarts => \A m, n \in DOMAIN w :
           m < n /\ {w[m], w[n]} \cap touched = {} => Before(w[m], w[n])
      /\ \A n \in DOMAIN view.rows : n \in DOMAIN w /\ w[n] = view.rows[n]
      /\ \A a \in 1 .. Len(s) : \E n \in DOMAIN w : w[n] = s[a]
      /\ \A n \in DOMAIN w : \/ n \in DOMAIN view.rows /\ w[n] = view.rows[n]
                             \/ \E a \in 1 .. Len(s) : w[n] = s[a]
  BY <1>2, PageAdds
<1>4. /\ column' = column /\ desc' = desc /\ table' = table /\ filter' = filter /\ touched' = touched
      /\ edits' = edits
  OBVIOUS
<1>5. ListTypes'
  BY <1>4 DEF QueryInv, ListTypes, SortValues
<1>6. CursorFits'
  BY <1>4 DEF CursorFits, EndsWith, GoesOnAfter
<1>7. UntouchedThere'
  BY <1>1, <1>3, <1>4 DEF UntouchedThere
<1>8. ListedInOrder'
  <2>1. (Restarts' <=> Restarts) /\ \A i, j : Before(i, j)' <=> Before(i, j)
    BY <1>4 DEF Before, Restarts
  <2> SUFFICES ASSUME ~Restarts', NEW m \in DOMAIN view'.rows, NEW n \in DOMAIN view'.rows, m < n,
                      {view'.rows[m], view'.rows[n]} \cap touched' = {}
               PROVE  Before(view.rows[m], view.rows[n])'
    BY DEF ListedInOrder
  <2>2. Before(w[m], w[n])
    BY <1>1, <1>3, <1>4, <2>1
  <2> QED
    BY <1>1, <1>4, <2>2 DEF Before
<1>9. OneQuery'
  <2> SUFFICES ASSUME NEW n \in DOMAIN view'.rows, view'.rows[n] \notin touched', HasCursor'
               PROVE  table'[view'.rows[n]] \in view'.cursor.fp
    BY DEF OneQuery, HasCursor
  <2>1. view'.cursor.fp = filter
    BY DEF EndsWith, GoesOnAfter
  <2>2. table[w[n]] \in filter
    BY <1>1, <1>3, <1>4
  <2> QED
    BY <1>1, <1>4, <2>1, <2>2
<1>10. ASSUME NEW i \in DOMAIN table \ touched, table[i] \in filter \ {Null}, view'.status = "end"
       PROVE  \E n \in DOMAIN w : w[n] = i
  BY <1>3, <1>10, ListedOrMatches DEF EndsWith
<1>11. NothingSkipped'
  BY <1>1, <1>4, <1>10 DEF NothingSkipped
<1>12. CASE view'.status = "end"
  <2>1. Behind' /\ Covered'
    BY <1>12 DEF Behind, Covered, EndsWith
  <2> QED
    BY <1>5, <1>6, <1>7, <1>8, <1>9, <1>11, <2>1 DEF QueryInv
<1>13. CASE view'.status = "paging"
  <2>1. PICK last : last = s[Len(s)]
    OBVIOUS
  <2>2. Len(s) \in 1 .. Len(s) /\ last \in Matches /\ last \in DOMAIN table
    <3>1. Len(s) \in Nat /\ Len(s) > 0
      BY <1>13 DEF GoesOnAfter
    <3>2. Len(s) \in 1 .. Len(s)
      BY <3>1
    <3> QED
      BY <2>1, <3>2 DEF Matches
  <2>3. PICK c : c = view'.cursor
    OBVIOUS
  <2>4. c.v = FormatSortValue(table[last]) /\ c.id = last /\ c.fp = filter
    BY <1>13, <2>1, <2>3 DEF GoesOnAfter
  <2>5. ASSUME NEW i \in DOMAIN table
        PROVE  /\ (i = last \/ Before(i, last)) /\ c.v # Empty => Reached(i, c)
               /\ Before(last, i) /\ table[i] # Null => KeysetPredicate(i, c)
    BY <2>2, <2>4, AtTheLast
  <2>6. ASSUME ~Restarts, c.v # Empty, NEW n \in DOMAIN w, w[n] \notin touched
        PROVE  Reached(w[n], c)
    <3>1. w[n] \in DOMAIN table
      BY <1>3, <2>6
    <3>2. CASE n \in DOMAIN view.rows /\ w[n] = view.rows[n]
      <4>1. Before(w[n], last)
        BY <2>2, <2>6, <3>2, NewFollowsOld
      <4> QED
        BY <2>5, <2>6, <3>1, <4>1
    <3>3. CASE \E a \in 1 .. Len(s) : w[n] = s[a]
      <4>1. PICK a \in 1 .. Len(s) : w[n] = s[a]
        BY <3>3
      <4>2. a = Len(s) \/ a < Len(s)
        BY LastOrEarlier
      <4>3. w[n] = last \/ Before(w[n], last)
        BY <2>1, <2>2, <4>1, <4>2
      <4> QED
        BY <2>5, <2>6, <3>1, <4>3
    <3> QED
      BY <1>3, <3>2, <3>3
  <2>7. Behind'
    <3>1. (Restarts' <=> Restarts) /\ \A i : Reached(i, c)' <=> Reached(i, c)
      BY <1>4 DEF Restarts, Reached
    <3> SUFFICES ASSUME ~Restarts', view'.cursor.v # Empty, NEW n \in DOMAIN view'.rows,
                        view'.rows[n] \notin touched'
                 PROVE  Reached(view.rows[n], view.cursor)'
      BY DEF Behind
    <3>2. Reached(w[n], c)
      BY <1>1, <1>4, <2>3, <2>6, <3>1
    <3> QED
      BY <1>1, <1>4, <2>3, <3>2 DEF Reached
  <2>8. ASSUME NEW i \in DOMAIN table \ touched, table[i] \in filter \ {Null}, ~KeysetPredicate(i, c)
        PROVE  \E n \in DOMAIN w : w[n] = i
    <3>1. ~Before(last, i)
      BY <2>5, <2>8
    <3>2. i \in Matches => \E a \in 1 .. Len(s) : s[a] = i
      BY <1>13, <2>1, <3>1 DEF GoesOnAfter
    <3> QED
      BY <1>3, <2>8, <3>2, ListedOrMatches
  <2>9. Covered'
    BY <1>1, <1>4, <2>3, <2>4, <2>8 DEF Covered, KeysetPredicate
  <2> QED
    BY <1>5, <1>6, <1>7, <1>8, <1>9, <1>11, <2>7, <2>9 DEF QueryInv
<1> QED
  BY <1>12, <1>13

LEMMA NextPageOK ==
  ASSUME QueryInv, CursorTaken, view.status = "paging", NextPage,
         UNCHANGED <<column, desc, table, filter, touched, edits>>
  PROVE  QueryInv'
<1>1. PICK s \in Selected(Limit + 1) :
        LET more == Len(s) > Limit
            keep == IF more THEN SubSeq(s, 1, Limit) ELSE s
            last == keep[Len(keep)]
        IN  view' = [rows |-> view.rows \o keep,
                     status |-> IF more THEN "paging" ELSE "end",
                     cursor |-> IF more THEN [v |-> FormatSortValue(table[last]), id |-> last,
                                              fp |-> filter, live |-> TRUE]
                                ELSE NoCursor]
  BY Zenon DEF NextPage
<1>2. /\ s \in Seq(Matches) /\ Len(s) \in Nat /\ DOMAIN s = 1 .. Len(s) /\ Len(s) <= Limit + 1
      /\ \A a \in 1 .. Len(s) : s[a] \in Matches
      /\ \A a, b \in 1 .. Len(s) : a < b => Before(s[a], s[b])
      /\ \A i \in Matches :
           \/ \E a \in 1 .. Len(s) : s[a] = i
           \/ Len(s) = Limit + 1 /\ \A a \in 1 .. Len(s) : Before(s[a], i)
  BY PageRows
<1>3. view.rows \in Seq(Ids) /\ Matches \subseteq Ids /\ Matches \subseteq DOMAIN table
  BY DEF QueryInv, ListTypes, Views, Matches
<1>4. s \in Seq(Ids) /\ Limit \in Nat /\ Limit > 0
  <2>1. s \in Seq(Ids)
    BY <1>2, <1>3
  <2>2. Limit \in Nat /\ Limit # 0
    BY QueryAssumption
  <2> QED
    BY <2>1, <2>2
<1>5. CASE ~(Len(s) > Limit)
  <2>1. PICK r : r = view.rows \o s
    OBVIOUS
  <2>2. r \in Seq(Ids)
    BY <1>3, <1>4, <2>1
  <2>3. NoCursor \in Cursors
    <3>1. PICK no : no = FALSE
      BY Zenon
    <3>2. no \in Lives
      BY <3>1, Zenon DEF Lives
    <3>3. NoCursor = [v |-> Null, id |-> Null, fp |-> {}, live |-> no]
      BY <3>1, Zenon DEF NoCursor
    <3> QED
      BY <3>2, <3>3 DEF Cursors, AnyValue
  <2>4. view' = [rows |-> r, status |-> "end", cursor |-> NoCursor]
    BY <1>1, <1>5, <2>1, Zenon
  <2>5. view' \in Views /\ view'.rows = r /\ view'.status = "end" /\ view'.cursor = NoCursor
    <3>1. PICK u : u = view'
      OBVIOUS
    <3>2. u \in Views /\ u.rows = r /\ u.status = "end" /\ u.cursor = NoCursor
      BY <2>2, <2>3, <2>4, <3>1, NewView
    <3> QED
      BY <3>1, <3>2
  <2>6. \A i \in Matches : \E a \in 1 .. Len(s) : s[a] = i
    <3>1. Len(s) # Limit + 1
      <4>1. PICK x : x = Len(s)
        OBVIOUS
      <4>2. x \in Nat /\ ~(x > Limit) /\ Limit \in Nat
        BY <1>2, <1>4, <1>5, <4>1, Zenon
      <4>3. x # Limit + 1
        BY <4>2
      <4> QED
        BY <4>1, <4>3
    <3> QED
      BY <1>2, <3>1, Zenon
  <2>7. ~HasCursor'
    BY <2>5 DEF HasCursor
  <2> QED
    <3>1. EndsWith(s) /\ GoesOnAfter(s)
      BY <2>5, <2>6, <2>7 DEF EndsWith, GoesOnAfter
    <3> QED
      BY <1>2, <1>4, <2>1, <2>5, <3>1, PageStep
<1>6. CASE Len(s) > Limit
  <2>1. PICK k : k = SubSeq(s, 1, Limit)
    OBVIOUS
  <2>2. /\ k \in Seq(Ids) /\ Len(k) = Limit /\ DOMAIN k = 1 .. Len(k)
        /\ \A a \in 1 .. Limit : k[a] = s[a]
    <3>1. PICK x : x = Len(s)
      OBVIOUS
    <3>2. x \in Nat /\ x > Limit /\ Limit \in Nat /\ s \in Seq(Ids)
      BY <1>2, <1>4, <1>6, <3>1
    <3>3. \A a \in 1 .. Limit : a \in 1 .. x
      BY <3>2
    <3>4. \A a \in 1 .. Limit : s[a] \in Ids
      BY <3>1, <3>2, <3>3
    <3>5. k = [a \in 1 .. Limit |-> s[a]]
      BY <2>1, <3>2
    <3> QED
      BY <3>2, <3>4, <3>5
  <2>3. Len(s) = Limit + 1 /\ \A a \in 1 .. Limit : a \in 1 .. Len(s)
    <3>1. PICK x : x = Len(s)
      OBVIOUS
    <3>2. x \in Nat /\ x <= Limit + 1 /\ x > Limit /\ Limit \in Nat
      BY <1>2, <1>4, <1>6, <3>1
    <3>3. x = Limit + 1
      BY <3>2
    <3>4. \A a \in 1 .. Limit : a \in 1 .. x
      BY <3>2, <3>3
    <3> QED
      BY <3>1, <3>3, <3>4
  <2>4. /\ \A a \in 1 .. Len(k) : k[a] \in Matches
        /\ \A a, b \in 1 .. Len(k) : a < b => Before(k[a], k[b])
    BY <1>2, <2>2, <2>3
  <2>5. PICK last : last = k[Len(k)]
    OBVIOUS
  <2>6. last \in DOMAIN table /\ Limit \in 1 .. Limit
    BY <1>3, <1>4, <2>2, <2>4, <2>5
  <2>7. ASSUME NEW i \in Matches
        PROVE  (\E a \in 1 .. Len(k) : k[a] = i) \/ Before(last, i)
    <3>1. last = s[Limit] /\ Limit \in 1 .. Len(s)
      BY <2>2, <2>3, <2>5, <2>6
    <3>2. CASE \A a \in 1 .. Len(s) : Before(s[a], i)
      BY <3>1, <3>2
    <3>3. ASSUME NEW a \in 1 .. Len(s), s[a] = i
          PROVE  (\E b \in 1 .. Len(k) : k[b] = i) \/ Before(last, i)
      <4>1. a \in 1 .. Limit \/ Limit < a
        BY <1>4, <2>3
      <4>2. CASE a \in 1 .. Limit
        BY <2>2, <3>3, <4>2
      <4>3. CASE Limit < a
        BY <1>2, <3>1, <3>3, <4>3
      <4> QED
        BY <4>1, <4>2, <4>3
    <3> QED
      BY <1>2, <3>2, <3>3
  <2>8. PICK yes : yes = TRUE
    BY Zenon
  <2>9. yes \in Lives
    BY <2>8, Zenon DEF Lives
  <2>10. PICK c : c = [v |-> FormatSortValue(table[last]), id |-> last, fp |-> filter, live |-> yes]
    OBVIOUS
  <2>11. /\ c \in Cursors /\ c.v = FormatSortValue(table[last]) /\ c.id = last /\ c.fp = filter
         /\ c # NoCursor /\ c.v \in Vals \cup {Empty} /\ c.id \in Ids
         /\ c.v = Empty => column.nullable
    BY <2>6, <2>9, <2>10, NewCursor
  <2>12. PICK r : r = view.rows \o k
    OBVIOUS
  <2>13. r \in Seq(Ids)
    BY <1>3, <2>2, <2>12
  <2>14. view' = [rows |-> r, status |-> "paging", cursor |-> c]
    BY <1>1, <1>6, <2>1, <2>5, <2>8, <2>10, <2>12, Zenon
  <2>15. view' \in Views /\ view'.rows = r /\ view'.status = "paging" /\ view'.cursor = c
    <3>1. PICK u : u = view'
      OBVIOUS
    <3>2. u \in Views /\ u.rows = r /\ u.status = "paging" /\ u.cursor = c
      BY <2>11, <2>13, <2>14, <3>1, NewView
    <3> QED
      BY <3>1, <3>2
  <2>16. HasCursor' /\ Len(k) > 0
    BY <1>4, <2>2, <2>11, <2>15 DEF HasCursor
  <2>17. /\ view'.cursor.v = FormatSortValue(table[k[Len(k)]]) /\ view'.cursor.id = k[Len(k)]
         /\ view'.cursor.fp = filter /\ view'.cursor.v \in Vals \cup {Empty} /\ view'.cursor.id \in Ids
         /\ view'.cursor.v = Empty => column.nullable
    BY <2>5, <2>11, <2>15
  <2>18. \A i \in Matches : (\E a \in 1 .. Len(k) : k[a] = i) \/ Before(k[Len(k)], i)
    BY <2>5, <2>7
  <2> QED
    <3>1. EndsWith(k) /\ GoesOnAfter(k)
      BY <2>15, <2>16, <2>17, <2>18 DEF EndsWith, GoesOnAfter
    <3> QED
      BY <2>2, <2>4, <2>12, <2>15, <3>1, PageStep
<1> QED
  BY <1>5, <1>6

LEMMA ListOK ==
  ASSUME QueryInv, List
  PROVE  QueryInv'
<1>1. /\ view.status = "paging" /\ UNCHANGED <<column, desc, table, filter, touched, edits>>
  BY DEF List
<1>2. CASE CursorTaken
  BY <1>1, <1>2, NextPageOK DEF List, CursorTaken, HasCursor
<1>3. CASE ~CursorTaken
  <2>1. HasCursor /\ view' = [view EXCEPT !.status = "error"]
    BY <1>3 DEF List, CursorTaken, HasCursor
  <2>2. view \in Views /\ edits \in 0 .. MaxEdits /\ filter \subseteq SortValues(Vals)
    BY DEF QueryInv, ListTypes
  <2>3. PICK u : u = view'
    OBVIOUS
  <2>4. u \in Views /\ u.rows = view.rows /\ u.status = "error" /\ u.cursor = view.cursor
    BY <2>1, <2>2, <2>3 DEF Views
  <2>5. HasCursor' /\ edits' \in 0 .. MaxEdits /\ filter' \subseteq SortValues(Vals)
    BY <1>1, <2>1, <2>2, <2>3, <2>4 DEF HasCursor
  <2> QED
    BY <1>1, <2>1, <2>3, <2>4, <2>5, CursorStays
<1> QED
  BY <1>2, <1>3

-----------------------------------------------------------------------------
(***************************************************************************)
(* The theorem.                                                            *)
(***************************************************************************)

LEMMA QueryStarts ==
  ASSUME QueryInit
  PROVE  QueryInv
<1>1. PICK r : r = <<>>
  OBVIOUS
<1>2. r \in Seq(Ids) /\ DOMAIN r = {}
  BY <1>1
<1>3. NoCursor \in Cursors
  <2>1. PICK no : no = FALSE
    BY Zenon
  <2>2. no \in Lives
    BY <2>1, Zenon DEF Lives
  <2>3. NoCursor = [v |-> Null, id |-> Null, fp |-> {}, live |-> no]
    BY <2>1, Zenon DEF NoCursor
  <2> QED
    BY <2>2, <2>3 DEF Cursors, AnyValue
<1>4. view = [rows |-> r, status |-> "paging", cursor |-> NoCursor]
  BY <1>1, Zenon DEF QueryInit
<1>5. view \in Views /\ view.rows = r /\ view.status = "paging" /\ view.cursor = NoCursor
  <2>1. PICK u : u = view
    OBVIOUS
  <2>2. u \in Views /\ u.rows = r /\ u.status = "paging" /\ u.cursor = NoCursor
    <3>1. r \in Seq(Ids)
      BY <1>2
    <3>2. u = [rows |-> r, status |-> "paging", cursor |-> NoCursor]
      BY <1>4, <2>1
    <3> QED
      BY <1>3, <3>1, <3>2, NewView
  <2> QED
    BY <2>1, <2>2
<1>6. DOMAIN table \subseteq Ids /\ \A i \in DOMAIN table : table[i] \in SortValues(Vals)
  <2>1. PICK present \in SUBSET Ids : table \in [present -> SortValues(Vals)]
    BY DEF QueryInit
  <2> QED
    BY <2>1
<1>7. filter \subseteq SortValues(Vals)
  BY DEF QueryInit, SortValues
<1>8. touched = {} /\ edits = 0
  BY DEF QueryInit
<1>9. ListTypes
  BY <1>5, <1>6, <1>7, <1>8, QueryAssumption DEF ListTypes
<1>10. ~HasCursor
  BY <1>5 DEF HasCursor
<1>11. CursorFits /\ Behind /\ Covered
  BY <1>2, <1>5, <1>10 DEF CursorFits, Behind, Covered
<1>12. UntouchedThere /\ ListedInOrder /\ NothingSkipped /\ OneQuery
  BY <1>2, <1>5 DEF UntouchedThere, ListedInOrder, NothingSkipped, OneQuery
<1> QED
  BY <1>9, <1>11, <1>12 DEF QueryInv

LEMMA QueryStays ==
  ASSUME QueryInv, [QueryNext]_queryVars
  PROVE  QueryInv'
<1>1. CASE List
  BY <1>1, ListOK
<1>2. CASE \E i \in Ids, v \in SortValues(Vals) : Insert(i, v) \/ Update(i, v)
  BY <1>2, RowsChangeOK
<1>3. ASSUME NEW i \in Ids, Delete(i)
      PROVE  QueryInv'
  <2>1. PICK v : v \in SortValues(Vals)
    BY <1>3 DEF Delete, QueryInv, ListTypes
  <2> QED
    BY <1>3, <2>1, RowsChangeOK
<1>4. CASE \E f \in {SortValues(Vals)} \cup {{v} : v \in Vals} : Refilter(f)
  BY <1>4, RefilterOK
<1>5. CASE Expire
  BY <1>5, ExpireOK
<1>6. CASE UNCHANGED queryVars
  BY <1>6 DEF queryVars, QueryInv, ListTypes, SortValues, CursorFits, HasCursor, UntouchedThere, Behind,
     Reached, Restarts, Covered, KeysetPredicate, ListedInOrder, Before, NothingSkipped, OneQuery
<1> QED
  BY <1>1, <1>2, <1>3, <1>4, <1>5, <1>6 DEF QueryNext

LEMMA PagesFromInv ==
  ASSUME QueryInv
  PROVE  PagesWhole
<1>1. view \in Views
  BY DEF QueryInv, ListTypes
<1>2. view.status \in {"paging", "end", "error"} /\ view.rows \in Seq(Ids)
  BY <1>1 DEF Views
<1>3. \A n \in DOMAIN view.rows : view.rows[n] \in Ids
  BY <1>2
<1>4. view.cursor = NoCursor \/ (view.cursor.v \in Vals \cup {Empty} /\ view.cursor.id \in Ids)
  BY DEF QueryInv, CursorFits, HasCursor
<1>5. QueryTypeOK
  BY <1>2, <1>3, <1>4 DEF QueryInv, ListTypes, QueryTypeOK
<1> QED
  BY <1>5 DEF QueryInv, PagesWhole

(* However a table, the filter and the cursor change between two pages     *)
(* (AdminStore.list, keysetPredicate, FormatSortValue): rows nobody        *)
(* touched come in order and once, a list that ends holds all of them that *)
(* have a value to sort by, and all it holds is of one query.              *)
THEOREM PagesWholeHolds == QuerySpec => []PagesWhole
<1>1. QueryInit => QueryInv
  BY QueryStarts
<1>2. QueryInv /\ [QueryNext]_queryVars => QueryInv'
  BY QueryStays
<1>3. QueryInv => PagesWhole
  BY PagesFromInv
<1> QED
  BY <1>1, <1>2, <1>3, PTL DEF QuerySpec
=============================================================================
