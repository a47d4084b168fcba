---------------------- MODULE ResourceLifecycle_proofs ----------------------
(***************************************************************************)
(* Proofs about ResourceLifecycle, for every number of worker processes    *)
(* and tool hosts and every number of requests, faults and tool calls.     *)
(***************************************************************************)
EXTENDS ResourceLifecycle, TLAPS

\* The states in which somebody has to look at the resource again.
Live == {"requested", "provisioning", "ready", "suspended"}

\* How far a job of each kind can be.
Shape(x) ==
    /\ x.kind = "none" => x.pc = "idle"
    /\ x.kind = "provision" => x.pc \in {"mark", "acquire", "persist", "await", "undo",
                                         "commit", "fail", "failing"}
    /\ x.kind = "restart" => x.pc \in {"rotate", "forget", "restart", "await", "undo",
                                       "commit", "fail", "failing"}
    /\ x.kind = "terminate" => x.pc \in {"release", "stop", "commit"}
    /\ x.kind = "reconcile" => x.pc \in {"recover", "probe", "suspend", "park", "rearm",
                                         "commit", "fail", "failing"}

\* A job in the queue that will not pass over a resource in state s.
Counts(k, s) == k # "provision" \/ s # "ready"

\* A job in hand that, if the state stays s, leaves another job behind or ends
\* the resource: the ones whose closing transaction will find what they expect.
Sure(x, s) ==
    /\ x.kind # "none"
    /\ x.kind = "provision" =>
         IF x.pc \in {"acquire", "persist", "await", "commit"} THEN s = "provisioning"
         ELSE s # "ready"
    /\ x.kind = "reconcile" =>
         /\ x.pc = "recover" /\ x.seen.age = "stalled" => s \in {"requested", "provisioning"}
         /\ x.pc \in {"probe", "commit"} => x.seen.state = s

CoreTypes ==
    /\ row \in Rows
    /\ jobs \subseteq Kinds
    /\ worker \in [Workers -> Jobs]
    /\ runtime \in Runtimes

\* Before the request there is nothing.
NothingYet ==
    row.state = "absent" =>
        jobs = {} /\ ~runtime.there /\ \A w \in Workers : worker[w].kind = "none"

\* What a job remembers is not ahead of the row.
JobFits(x) ==
    /\ Shape(x)
    /\ x.token <= row.epoch
    /\ x.seen.handle => row.handle
    /\ x.kind = "provision" /\ x.pc \in {"await", "undo", "commit"} => row.handle
JobsFit == \A w \in Workers : JobFits(worker[w])

HandleKept == row.state \in {"ready", "suspended"} => row.handle

HasJob(k) == k \in jobs \/ \E w \in Workers : worker[w].kind = k

\* Until a handle is on file a provision is under way.
OnFile == ~row.handle /\ row.state \in Live => HasJob("provision")

Guarded == row.state \in Live =>
    \/ \E k \in jobs : Counts(k, row.state)
    \/ \E w \in Workers : Sure(worker[w], row.state)

Ending == row.state = "terminating" => HasJob("terminate")

LifeInv ==
    /\ CoreTypes /\ NothingYet /\ JobsFit /\ HandleKept /\ TokenNotAhead
    /\ OnFile /\ Guarded /\ Ending

-----------------------------------------------------------------------------
(***************************************************************************)
(* One lemma for all steps of a worker.  The step replaces the job in hand *)
(* by u.  What it has to show is local: the new job fits the new row, and  *)
(* each duty is met by the new job or the queue, or was not met by the old *)
(* job, and then whoever met it still does.                                *)
(***************************************************************************)

Kept(k) == k \in jobs => k \in jobs'

\* The row never goes back: no handle is lost and no epoch.
RowGoesOn ==
    /\ row' \in Rows
    /\ row.state # "absent" /\ row'.state # "absent"
    /\ row.epoch <= row'.epoch
    /\ row.handle => row'.handle
    /\ row'.state \in {"ready", "suspended"} => row'.handle

RuntimeFits ==
    /\ runtime' \in Runtimes
    /\ runtime'.there => runtime'.token <= row'.epoch

NewJobFits(u) ==
    /\ Shape(u)
    /\ u.token <= row'.epoch
    /\ u.seen.handle => row'.handle
    /\ u.kind = "provision" /\ u.pc \in {"await", "undo", "commit"} => row'.handle

Duties(w, u) ==
    /\ ~row'.handle /\ row'.state \in Live =>
         \/ "provision" \in jobs' \/ u.kind = "provision"
         \/ row.state \in Live /\ Kept("provision") /\ worker[w].kind # "provision"
    /\ row'.state = "terminating" =>
         \/ "terminate" \in jobs' \/ u.kind = "terminate"
         \/ row.state = "terminating" /\ Kept("terminate") /\ worker[w].kind # "terminate"
    /\ row'.state \in Live =>
         \/ \E k \in jobs' : Counts(k, row'.state)
         \/ Sure(u, row'.state)
         \/ /\ row'.state = row.state /\ ~Sure(worker[w], row.state)
            /\ \A k \in jobs : Counts(k, row.state) => k \in jobs'

LEMMA WorkerStep ==
  ASSUME LifeInv, NEW w \in Workers, NEW u \in Jobs,
         worker' = [worker EXCEPT ![w] = u], jobs' \subseteq Kinds,
         RowGoesOn, RuntimeFits, NewJobFits(u), Duties(w, u)
  PROVE  LifeInv'
<1> USE DEF LifeInv, RowGoesOn, RuntimeFits, NewJobFits, Duties
<1>1. worker'[w] = u /\ \A v \in Workers : v # w => worker'[v] = worker[v]
  BY DEF CoreTypes
<1>2. CoreTypes'
  BY DEF CoreTypes
<1>3. NothingYet'
  BY DEF NothingYet
<1>4. JobsFit'
  <2> SUFFICES ASSUME NEW v \in Workers
               PROVE  JobFits(worker[v])'
    BY DEF JobsFit
  <2>1. CASE v = w
    BY <1>1, <2>1 DEF JobFits
  <2>2. CASE v # w
    <3>1. worker'[v] = worker[v] /\ JobFits(worker[v])
      BY <1>1, <2>2 DEF JobsFit
    <3>2. worker[v].token \in Nat /\ row.epoch \in Nat /\ row'.epoch \in Nat
      BY DEF CoreTypes, Jobs, Rows
    <3>3. worker[v].token <= row'.epoch
      BY <3>1, <3>2 DEF JobFits
    <3> QED
      BY <3>1, <3>3 DEF JobFits, Shape
  <2> QED
    BY <2>1, <2>2
<1>5. HandleKept' /\ TokenNotAhead'
  BY DEF HandleKept, TokenNotAhead
<1>6. OnFile'
  <2> SUFFICES ASSUME ~row'.handle, row'.state \in Live
               PROVE  HasJob("provision")'
    BY DEF OnFile
  <2>1. CASE "provision" \in jobs' \/ u.kind = "provision"
    BY <1>1, <2>1 DEF HasJob
  <2>2. CASE row.state \in Live /\ Kept("provision") /\ worker[w].kind # "provision"
    <3>1. HasJob("provision")
      BY <2>2 DEF OnFile
    <3> QED
      BY <1>1, <2>2, <3>1 DEF HasJob, Kept
  <2> QED
    BY <2>1, <2>2
<1>7. Ending'
  <2> SUFFICES ASSUME row'.state = "terminating"
               PROVE  HasJob("terminate")'
    BY DEF Ending
  <2>1. CASE "terminate" \in jobs' \/ u.kind = "terminate"
    BY <1>1, <2>1 DEF HasJob
  <2>2. CASE row.state = "terminating" /\ Kept("terminate") /\ worker[w].kind # "terminate"
    <3>1. HasJob("terminate")
      BY <2>2 DEF Ending
    <3> QED
      BY <1>1, <2>2, <3>1 DEF HasJob, Kept
  <2> QED
    BY <2>1, <2>2
<1>8. Guarded'
  <2> SUFFICES ASSUME row'.state \in Live
               PROVE  \/ \E k \in jobs' : Counts(k, row'.state)
                      \/ \E v \in Workers : Sure(worker'[v], row'.state)
    BY DEF Guarded
  <2>1. CASE \E k \in jobs' : Counts(k, row'.state)
    BY <2>1
  <2>2. CASE Sure(u, row'.state)
    BY <1>1, <2>2
  <2>3. CASE /\ row'.state = row.state /\ ~Sure(worker[w], row.state)
             /\ \A k \in jobs : Counts(k, row.state) => k \in jobs'
    <3>1. \/ \E k \in jobs : Counts(k, row.state)
          \/ \E v \in Workers : Sure(worker[v], row.state)
      BY <2>3 DEF Guarded
    <3>2. CASE \E k \in jobs : Counts(k, row.state)
      BY <2>3, <3>2
    <3>3. CASE \E v \in Workers : Sure(worker[v], row.state)
      <4>1. PICK v \in Workers : Sure(worker[v], row.state)
        BY <3>3
      <4>2. v # w
        BY <2>3, <4>1
      <4> QED
        BY <1>1, <2>3, <4>1, <4>2
    <3> QED
      BY <3>1, <3>2, <3>3
  <2> QED
    BY <2>1, <2>2, <2>3
<1> QED
  BY <1>2, <1>3, <1>4, <1>5, <1>6, <1>7, <1>8

\* What holds of a worker with a job in hand.
LEMMA InHand ==
  ASSUME LifeInv, NEW w \in Workers, worker[w].pc # "idle"
  PROVE  /\ row \in Rows /\ row.state # "absent" /\ row.state \in States
         /\ row.handle \in BOOLEAN /\ row.epoch \in Nat
         /\ row.state \in {"ready", "suspended"} => row.handle
         /\ runtime \in Runtimes /\ (runtime.there => runtime.token <= row.epoch)
         /\ jobs \subseteq Kinds
         /\ worker \in [Workers -> Jobs] /\ worker[w] \in Jobs
         /\ worker[w].kind \in Kinds
         /\ JobFits(worker[w])
<1>1. /\ row \in Rows /\ row.handle \in BOOLEAN /\ row.epoch \in Nat
      /\ row.state \in States \cup {"absent"}
      /\ runtime \in Runtimes /\ jobs \subseteq Kinds
      /\ worker \in [Workers -> Jobs] /\ worker[w] \in Jobs
  BY DEF LifeInv, CoreTypes, Rows
<1>2. JobFits(worker[w])
  BY DEF LifeInv, JobsFit
<1>3. worker[w].kind # "none"
  BY <1>2 DEF JobFits, Shape
<1>4. worker[w].kind \in Kinds
  BY <1>1, <1>3 DEF Jobs
<1>5. row.state # "absent"
  BY <1>3 DEF LifeInv, NothingYet
<1> QED
  BY <1>1, <1>2, <1>4, <1>5 DEF LifeInv, HandleKept, TokenNotAhead

\* A step on the way: nothing but the runtime changes besides the step.
LEMMA GotoStep ==
  ASSUME LifeInv, NEW w \in Workers, worker[w].pc # "idle", NEW pc \in Steps,
         worker' = [worker EXCEPT ![w].pc = pc], row' = row, jobs' = jobs,
         RuntimeFits,
         Shape([worker[w] EXCEPT !.pc = pc]),
         worker[w].kind = "provision" /\ pc \in {"await", "undo", "commit"} => row.handle,
         Sure(worker[w], row.state) => Sure([worker[w] EXCEPT !.pc = pc], row.state)
  PROVE  LifeInv'
<1> USE InHand
<1> DEFINE u == [worker[w] EXCEPT !.pc = pc]
<1>1. /\ u \in Jobs /\ worker' = [worker EXCEPT ![w] = u]
      /\ u.kind = worker[w].kind /\ u.pc = pc /\ u.token = worker[w].token
      /\ u.seen = worker[w].seen
  BY DEF Jobs
<1>2. Shape(u) /\ (Sure(worker[w], row.state) => Sure(u, row.state))
  OBVIOUS
<1> HIDE DEF u
<1>3. RowGoesOn
  BY DEF RowGoesOn
<1>4. NewJobFits(u)
  BY <1>1, <1>2 DEF NewJobFits, JobFits
<1>5. Duties(w, u)
  BY <1>1, <1>2 DEF Duties, Kept
<1> QED
  BY <1>1, <1>3, <1>4, <1>5, WorkerStep

\* A step that ends the job.
LEMMA DoneStep ==
  ASSUME LifeInv, NEW w \in Workers, worker[w].pc # "idle",
         worker' = [worker EXCEPT ![w] = Idle], jobs' \subseteq Kinds,
         RowGoesOn, RuntimeFits, Duties(w, Idle)
  PROVE  LifeInv'
<1>1. Idle \in Jobs
  BY DEF Idle, Jobs, Seen, Steps, Ages
<1>2. NewJobFits(Idle)
  <2>1. row'.epoch \in Nat
    BY DEF RowGoesOn, Rows
  <2> QED
    BY <2>1 DEF NewJobFits, Idle, Shape
<1> QED
  BY <1>1, <1>2, WorkerStep

\* The provider holds what it held, nothing, or a runtime with the job's token.
LEMMA RuntimeChoices ==
  ASSUME LifeInv, NEW w \in Workers, worker[w].pc # "idle", row' = row,
         \/ runtime' = runtime \/ runtime' = NoRuntime
         \/ runtime' = [there |-> TRUE, token |-> worker[w].token, up |-> TRUE]
  PROVE  RuntimeFits
<1>1. CASE runtime' = runtime
  BY <1>1, InHand DEF RuntimeFits
<1>2. CASE runtime' = NoRuntime
  <2>1. NoRuntime \in Runtimes /\ NoRuntime.there = FALSE
    BY DEF NoRuntime, Runtimes
  <2> QED
    BY <1>2, <2>1 DEF RuntimeFits
<1>3. CASE runtime' = [there |-> TRUE, token |-> worker[w].token, up |-> TRUE]
  <2>1. worker[w].token \in Nat /\ worker[w].token <= row.epoch
    BY InHand DEF JobFits, Jobs
  <2>2. [there |-> TRUE, token |-> worker[w].token, up |-> TRUE] \in Runtimes
    BY <2>1 DEF Runtimes
  <2> QED
    BY <1>3, <2>1, <2>2 DEF RuntimeFits
<1> QED
  BY <1>1, <1>2, <1>3

\* The four places where clients are dropped, and the waits and calls of a
\* provision or restart: the row and the queue stay.
LEMMA OnTheWay ==
  ASSUME LifeInv, NEW w \in Workers,
         ForgetClients(w) \/ Acquire(w) \/ RestartRuntime(w) \/ Await(w) \/ Undo(w)
  PROVE  LifeInv'
<1> USE InHand
<1>1. CASE ForgetClients(w)
  <2> DEFINE pc == CASE worker[w].pc = "forget"  -> "restart"
                     [] worker[w].pc = "release" -> "stop"
                     [] worker[w].pc = "suspend" -> "park"
                     [] worker[w].pc = "fail"    -> "failing"
  <2>1. /\ worker[w].pc \in {"forget", "release", "suspend", "fail"}
        /\ worker' = [worker EXCEPT ![w].pc = pc] /\ row' = row /\ jobs' = jobs
        /\ runtime' = runtime
    BY <1>1 DEF ForgetClients, Goto
  <2>2. /\ pc \in Steps
        /\ worker[w].pc = "forget" => pc = "restart"
        /\ worker[w].pc = "release" => pc = "stop"
        /\ worker[w].pc = "suspend" => pc = "park"
        /\ worker[w].pc = "fail" => pc = "failing"
    BY <2>1 DEF Steps
  <2> HIDE DEF pc
  <2>3. RuntimeFits
    BY <2>1 DEF RuntimeFits
  <2>4. Shape([worker[w] EXCEPT !.pc = pc])
    BY <2>1, <2>2 DEF JobFits, Shape, Jobs
  <2>5. Sure(worker[w], row.state) => Sure([worker[w] EXCEPT !.pc = pc], row.state)
    BY <2>1, <2>2 DEF Sure, Jobs
  <2> QED
    BY <2>1, <2>2, <2>3, <2>4, <2>5, GotoStep
<1>2. CASE Acquire(w)
  <2>1. /\ worker[w].kind = "provision" /\ worker[w].pc = "acquire"
        /\ row' = row /\ jobs' = jobs
        /\ runtime' = runtime \/ runtime' = [there |-> TRUE, token |-> worker[w].token, up |-> TRUE]
        /\ worker' = [worker EXCEPT ![w].pc = "persist"] \/ worker' = [worker EXCEPT ![w].pc = "fail"]
    BY <1>2 DEF Acquire, At, Goto
  <2>2. RuntimeFits
    BY <2>1, RuntimeChoices
  <2>3. \A pc \in {"persist", "fail"} :
          /\ pc \in Steps /\ Shape([worker[w] EXCEPT !.pc = pc])
          /\ Sure(worker[w], row.state) => Sure([worker[w] EXCEPT !.pc = pc], row.state)
    BY <2>1 DEF Shape, Sure, Jobs, Steps
  <2> QED
    BY <2>1, <2>2, <2>3, GotoStep
<1>3. CASE RestartRuntime(w)
  <2>1. /\ worker[w].kind = "restart" /\ worker[w].pc = "restart"
        /\ row' = row /\ jobs' = jobs
        /\ \/ runtime' = runtime \/ runtime' = NoRuntime
           \/ runtime' = [there |-> TRUE, token |-> worker[w].token, up |-> TRUE]
        /\ worker' = [worker EXCEPT ![w].pc = "await"] \/ worker' = [worker EXCEPT ![w].pc = "fail"]
    BY <1>3 DEF RestartRuntime, At, Goto
  <2>2. RuntimeFits
    BY <2>1, RuntimeChoices
  <2>3. \A pc \in {"await", "fail"} :
          /\ pc \in Steps /\ Shape([worker[w] EXCEPT !.pc = pc])
          /\ Sure(worker[w], row.state) => Sure([worker[w] EXCEPT !.pc = pc], row.state)
    BY <2>1 DEF Shape, Sure, Jobs, Steps
  <2> QED
    BY <2>1, <2>2, <2>3, GotoStep
<1>4. CASE Await(w) \/ Undo(w)
  <2>1. /\ worker[w].pc \in {"await", "undo"} /\ worker[w].kind \in {"provision", "restart"}
        /\ worker[w].kind = "provision" => row.handle
    BY <1>4 DEF Await, Undo, JobFits, Shape, Kinds
  <2>2. /\ row' = row /\ jobs' = jobs
        /\ runtime' = runtime \/ runtime' = NoRuntime
        /\ \E pc \in {"commit", "undo", "fail"} :
             /\ worker' = [worker EXCEPT ![w].pc = pc]
             /\ worker[w].pc = "undo" => pc = "fail"
    BY <1>4 DEF Await, Undo, Goto
  <2>3. RuntimeFits
    BY <2>1, <2>2, RuntimeChoices
  <2>4. PICK pc \in {"commit", "undo", "fail"} :
             /\ worker' = [worker EXCEPT ![w].pc = pc]
             /\ worker[w].pc = "undo" => pc = "fail"
    BY <2>2
  <2>5. pc \in Steps /\ Shape([worker[w] EXCEPT !.pc = pc])
    BY <2>1 DEF Shape, Jobs, Steps
  <2>6. Sure(worker[w], row.state) => Sure([worker[w] EXCEPT !.pc = pc], row.state)
    BY <2>1, <2>4 DEF Sure, Jobs
  <2> QED
    BY <2>1, <2>2, <2>3, <2>4, <2>5, <2>6, GotoStep
<1> QED
  BY <1>1, <1>2, <1>3, <1>4

\* The store's updates of the row.
LEMMA RowUpdates ==
  ASSUME row \in Rows
  PROVE  /\ \A s \in States : SetState(s) =>
              /\ row' \in Rows /\ row'.state = s
              /\ row'.handle = row.handle /\ row'.epoch = row.epoch
         /\ \A h \in BOOLEAN : SetReady(h) =>
              /\ row' \in Rows /\ row'.state = "ready"
              /\ row'.handle = h /\ row'.epoch = row.epoch
BY DEF Rows, SetState, SetReady, States, Ages

\* Claiming a job: the early returns pass over nothing that counts.
LEMMA ClaimStep ==
  ASSUME LifeInv, NEW w \in Workers, NEW k \in Kinds, Claim(w, k)
  PROVE  LifeInv'
<1> USE DEF LifeInv
<1>1. /\ worker[w].pc = "idle" /\ k \in jobs /\ jobs' = jobs \ {k}
      /\ row' = row /\ runtime' = runtime
  BY DEF Claim
<1>2. /\ worker[w].kind = "none" /\ row.state # "absent"
      /\ worker \in [Workers -> Jobs] /\ worker[w] \in Jobs
      /\ row \in Rows /\ row.state \in States /\ row.epoch \in Nat /\ row.handle \in BOOLEAN
      /\ row.age \in Ages /\ jobs \subseteq Kinds /\ JobFits(worker[w])
  <2>1. row.state # "absent"
    BY <1>1 DEF NothingYet
  <2>2. worker \in [Workers -> Jobs] /\ worker[w] \in Jobs /\ worker[w].kind \in Kinds \cup {"none"}
          /\ jobs \subseteq Kinds
    BY DEF CoreTypes, Jobs
  <2>3. row \in Rows /\ row.state \in States /\ row.epoch \in Nat /\ row.handle \in BOOLEAN
          /\ row.age \in Ages
    BY <2>1 DEF CoreTypes, Rows
  <2>4. JobFits(worker[w])
    BY DEF JobsFit
  <2>5. worker[w].kind = "none"
    BY <1>1, <2>2, <2>4 DEF JobFits, Shape, Kinds
  <2> QED
    BY <2>1, <2>2, <2>3, <2>4, <2>5
<1>3. RowGoesOn
  BY <1>1, <1>2 DEF RowGoesOn, HandleKept
<1>4. RuntimeFits
  BY <1>1 DEF RuntimeFits, CoreTypes, TokenNotAhead
<1>5. ~Sure(worker[w], row.state)
  BY <1>2 DEF Sure
<1>6. CASE FirstStep(k, row.state) = "idle"
  <2>1. worker' = [worker EXCEPT ![w] = worker[w]]
    BY <1>2, <1>6 DEF Claim
  <2>2. /\ k = "provision" => row.state \in Terminal \cup {"ready"}
        /\ k = "restart" => row.state \in Terminal
        /\ k = "terminate" => row.state = "terminated"
        /\ k = "reconcile" => row.state \notin Live
    BY <1>2, <1>6 DEF FirstStep, Kinds, Live, Terminal
  <2>3. NewJobFits(worker[w])
    BY <1>1, <1>2 DEF NewJobFits, JobFits
  <2>4. /\ ~row.handle /\ row.state \in Live => k # "provision"
        /\ row.state = "terminating" => k # "terminate"
        /\ row.state \in Live => ~Counts(k, row.state)
    BY <1>2, <2>2 DEF Terminal, Live, HandleKept, Counts, Kinds
  <2>5. Duties(w, worker[w])
    BY <1>1, <1>2, <1>5, <2>4 DEF Duties, Kept
  <2> QED
    BY <1>1, <1>2, <1>3, <1>4, <2>1, <2>3, <2>5, WorkerStep
<1>7. CASE FirstStep(k, row.state) # "idle"
  <2> DEFINE u == [kind |-> k, pc |-> FirstStep(k, row.state),
                   token |-> IF k = "provision" THEN row.epoch ELSE 0,
                   seen |-> Remembered(k)]
  <2>1. worker' = [worker EXCEPT ![w] = u]
    BY <1>7 DEF Claim
  <2>2. /\ k = "provision" => FirstStep(k, row.state) = "mark" /\ row.state # "ready"
        /\ k = "restart" => FirstStep(k, row.state) = "rotate"
        /\ k = "terminate" => FirstStep(k, row.state) = "release"
        /\ k = "reconcile" =>
             \/ FirstStep(k, row.state) = "recover" /\ row.state \in {"requested", "provisioning"}
             \/ FirstStep(k, row.state) = "probe" /\ row.state \in {"ready", "suspended"}
    BY <1>2, <1>7 DEF FirstStep, Kinds
  <2>3. /\ Remembered(k) \in Seen
        /\ Remembered(k).handle => row.handle
        /\ k = "reconcile" => Remembered(k).state = row.state
    BY <1>2 DEF Remembered, Idle, Seen, Ages, States
  <2>4. u.kind = k /\ u.pc = FirstStep(k, row.state) /\ u.seen = Remembered(k)
          /\ u.token \in Nat /\ u.token <= row.epoch
    BY <1>2
  <2>5. FirstStep(k, row.state) \in Steps
    BY <2>2 DEF Kinds, Steps
  <2>6. u \in Jobs
    BY <1>2, <2>3, <2>5 DEF Jobs
  <2> HIDE DEF u
  <2>7. NewJobFits(u)
    BY <1>1, <2>2, <2>3, <2>4 DEF NewJobFits, Shape, Kinds
  <2>8. Sure(u, row.state)
    BY <2>2, <2>3, <2>4 DEF Sure, Kinds
  <2>9. Duties(w, u)
    BY <1>1, <1>2, <2>4, <2>8 DEF Duties, Kept
  <2> QED
    BY <1>1, <1>2, <1>3, <1>4, <2>1, <2>6, <2>7, <2>9, WorkerStep
<1> QED
  BY <1>6, <1>7

\* A provision up to the provider's answer, and the rotation of a restart.
LEMMA RowMarks ==
  ASSUME LifeInv, NEW w \in Workers, Mark(w) \/ Persist(w) \/ Rotate(w)
  PROVE  LifeInv'
<1> USE InHand
<1>0. worker[w].pc # "idle" /\ jobs' = jobs /\ runtime' = runtime /\ row \in Rows
  BY DEF Mark, Persist, Rotate, At
<1>1. CASE Mark(w)
  <2> DEFINE u == [worker[w] EXCEPT !.pc = "acquire"]
  <2>1. /\ worker[w].kind = "provision" /\ SetState("provisioning")
        /\ worker' = [worker EXCEPT ![w] = u]
    BY <1>0, <1>1 DEF Mark, At, Goto
  <2>2. /\ row' \in Rows /\ row'.state = "provisioning"
        /\ row'.handle = row.handle /\ row'.epoch = row.epoch
    BY <1>0, <2>1, RowUpdates DEF States
  <2>3. u \in Jobs /\ u.kind = "provision" /\ u.pc = "acquire" /\ u.token = worker[w].token
          /\ u.seen = worker[w].seen
    BY <1>0, <2>1 DEF Jobs, Steps
  <2> HIDE DEF u
  <2>4. RowGoesOn
    BY <1>0, <2>2 DEF RowGoesOn
  <2>5. RuntimeFits
    BY <1>0, <2>2 DEF RuntimeFits
  <2>6. NewJobFits(u)
    BY <1>0, <2>2, <2>3 DEF NewJobFits, JobFits, Shape
  <2>7. Duties(w, u)
    BY <2>2, <2>3 DEF Duties, Sure
  <2> QED
    BY <1>0, <2>1, <2>3, <2>4, <2>5, <2>6, <2>7, WorkerStep
<1>2. CASE Persist(w)
  <2> DEFINE u == [worker[w] EXCEPT !.pc = "await"]
  <2>1. /\ worker[w].kind = "provision" /\ worker[w].pc = "persist"
        /\ row' = [row EXCEPT !.handle = TRUE, !.age = "fresh"]
        /\ worker' = [worker EXCEPT ![w] = u]
    BY <1>0, <1>2 DEF Persist, At, Goto
  <2>2. /\ row' \in Rows /\ row'.state = row.state /\ row'.handle /\ row'.epoch = row.epoch
    BY <1>0, <2>1 DEF Rows, Ages
  <2>3. u \in Jobs /\ u.kind = "provision" /\ u.pc = "await" /\ u.token = worker[w].token
          /\ u.seen = worker[w].seen
    BY <1>0, <2>1 DEF Jobs, Steps
  <2> HIDE DEF u
  <2>4. RowGoesOn
    BY <1>0, <2>2 DEF RowGoesOn
  <2>5. RuntimeFits
    BY <1>0, <2>2 DEF RuntimeFits
  <2>6. NewJobFits(u)
    BY <1>0, <2>2, <2>3 DEF NewJobFits, JobFits, Shape
  <2>7. Duties(w, u)
    BY <1>0, <2>1, <2>2, <2>3 DEF Duties, Sure, Kept
  <2> QED
    BY <1>0, <2>1, <2>3, <2>4, <2>5, <2>6, <2>7, WorkerStep
<1>3. CASE Rotate(w) /\ row' = row /\ Goto(w, "fail")
  <2>1. worker[w].kind = "restart" /\ worker' = [worker EXCEPT ![w].pc = "fail"]
    BY <1>3 DEF Rotate, At, Goto
  <2>2. RuntimeFits
    BY <1>0, <1>3 DEF RuntimeFits
  <2>3. "fail" \in Steps /\ Shape([worker[w] EXCEPT !.pc = "fail"])
          /\ Sure([worker[w] EXCEPT !.pc = "fail"], row.state)
    BY <1>0, <2>1 DEF Shape, Jobs, Steps, Sure
  <2> QED
    BY <1>0, <1>3, <2>1, <2>2, <2>3, GotoStep
<1>4. CASE /\ Rotate(w) /\ row' = [row EXCEPT !.epoch = @ + 1, !.age = "fresh"]
           /\ worker' = [worker EXCEPT ![w].pc = "forget", ![w].token = row.epoch + 1]
  <2> DEFINE u == [worker[w] EXCEPT !.pc = "forget", !.token = row.epoch + 1]
  <2>0. row.epoch \in Nat /\ row.epoch + 1 \in Nat /\ row.epoch <= row.epoch + 1
    BY <1>0
  <2>1. /\ worker[w].kind = "restart" /\ worker[w].pc = "rotate"
        /\ worker' = [worker EXCEPT ![w] = u]
    BY <1>0, <1>4 DEF Rotate, At
  <2>2. /\ row' \in Rows /\ row'.state = row.state /\ row'.handle = row.handle
        /\ row'.epoch = row.epoch + 1
    BY <1>0, <1>4, <2>0 DEF Rows, Ages
  <2>3. u.kind = "restart" /\ u.pc = "forget" /\ u.token = row.epoch + 1
          /\ u.seen = worker[w].seen
    BY <1>0, <2>1 DEF Jobs, Steps
  <2>4. u \in Jobs
    <3>1. \A e \in Nat : [worker[w] EXCEPT !.pc = "forget", !.token = e] \in Jobs
      BY <1>0 DEF Jobs, Steps
    <3> QED
      BY <2>0, <3>1, Zenon
  <2> HIDE DEF u
  <2>5. RowGoesOn
    BY <1>0, <2>0, <2>2 DEF RowGoesOn
  <2>6. RuntimeFits
    <3>1. runtime.token \in Nat
      BY <1>0 DEF Runtimes
    <3> QED
      BY <1>0, <2>0, <2>2, <3>1 DEF RuntimeFits
  <2>7. NewJobFits(u)
    BY <1>0, <2>0, <2>2, <2>3 DEF NewJobFits, JobFits, Shape
  <2>8. Duties(w, u)
    BY <1>0, <2>1, <2>2, <2>3 DEF Duties, Sure, Kept
  <2> QED
    BY <1>0, <2>1, <2>4, <2>5, <2>6, <2>7, <2>8, WorkerStep
<1> QED
  BY <1>1, <1>2, <1>3, <1>4 DEF Rotate

\* The ends of provision, restart and terminate, and every failure.
LEMMA Endings ==
  ASSUME LifeInv, NEW w \in Workers,
         CommitReady(w) \/ Fail(w) \/ Release(w) \/ CommitTerminated(w)
  PROVE  LifeInv'
<1> USE InHand
<1>0. worker[w].pc # "idle" /\ row \in Rows
  BY DEF CommitReady, Fail, Release, CommitTerminated, At
<1>1. CASE CommitReady(w)
  <2>0. /\ worker[w].kind \in {"provision", "restart"} /\ worker[w].pc = "commit"
        /\ worker' = [worker EXCEPT ![w] = Idle] /\ runtime' = runtime
    BY <1>1 DEF CommitReady, Done
  <2>1. CASE MayCommit(worker[w].kind, row.state)
    <3>1. SetReady(TRUE) /\ jobs' = jobs \cup {"reconcile"}
      BY <1>1, <2>1 DEF CommitReady, Enqueue
    <3>2. row' \in Rows /\ row'.state = "ready" /\ row'.handle /\ row'.epoch = row.epoch
      BY <1>0, <3>1, RowUpdates
    <3>3. RowGoesOn /\ RuntimeFits
      BY <1>0, <2>0, <3>2 DEF RowGoesOn, RuntimeFits
    <3>4. Duties(w, Idle)
      BY <3>1, <3>2 DEF Duties, Counts
    <3>5. jobs' \subseteq Kinds
      BY <1>0, <3>1 DEF Kinds
    <3> QED
      BY <1>0, <2>0, <3>3, <3>4, <3>5, DoneStep
  <2>2. CASE ~MayCommit(worker[w].kind, row.state)
    <3>1. row' = row /\ jobs' = jobs
      BY <1>1, <2>2 DEF CommitReady
    <3>2. RowGoesOn /\ RuntimeFits
      BY <1>0, <2>0, <3>1 DEF RowGoesOn, RuntimeFits
    <3>3. /\ worker[w].kind = "provision" => row.handle
          /\ row.state \in Live => ~Sure(worker[w], row.state)
          /\ worker[w].kind # "terminate"
      BY <1>0, <2>0, <2>2 DEF MayCommit, Sure, JobFits, Live, Terminal
    <3>4. Duties(w, Idle)
      BY <3>1, <3>3 DEF Duties, Kept
    <3> QED
      BY <1>0, <2>0, <3>1, <3>2, <3>4, DoneStep
  <2> QED
    BY <2>1, <2>2
<1>2. CASE Fail(w) \/ CommitTerminated(w)
  <2>1. /\ SetState("failed") \/ SetState("terminated")
        /\ worker' = [worker EXCEPT ![w] = Idle] /\ runtime' = runtime /\ jobs' = jobs
    BY <1>2 DEF Fail, CommitTerminated, Done
  <2>2. /\ row' \in Rows /\ row'.state \in Terminal
        /\ row'.handle = row.handle /\ row'.epoch = row.epoch
    BY <1>0, <2>1, RowUpdates DEF States, Terminal
  <2>3. RowGoesOn /\ RuntimeFits
    BY <1>0, <2>1, <2>2 DEF RowGoesOn, RuntimeFits, Terminal
  <2>4. Duties(w, Idle)
    BY <2>2 DEF Duties, Live, Terminal
  <2> QED
    BY <1>0, <2>1, <2>3, <2>4, DoneStep
<1>3. CASE /\ Release(w) /\ Goto(w, "commit") /\ UNCHANGED jobs
           /\ runtime' = IF worker[w].seen.handle THEN NoRuntime ELSE runtime
  <2>1. /\ worker[w].kind = "terminate" /\ row' = row /\ jobs' = jobs
        /\ runtime' = runtime \/ runtime' = NoRuntime
        /\ worker' = [worker EXCEPT ![w].pc = "commit"]
    BY <1>3 DEF Release, At, Goto
  <2>2. RuntimeFits
    BY <1>0, <2>1, RuntimeChoices
  <2>3. "commit" \in Steps /\ Shape([worker[w] EXCEPT !.pc = "commit"])
          /\ Sure([worker[w] EXCEPT !.pc = "commit"], row.state)
    BY <1>0, <2>1 DEF Shape, Jobs, Steps, Sure
  <2> QED
    BY <1>0, <2>1, <2>2, <2>3, GotoStep
<1>4. CASE Release(w) /\ Retry(w) /\ UNCHANGED runtime
  <2>1. /\ worker[w].kind = "terminate" /\ row' = row /\ jobs' = jobs \cup {"terminate"}
        /\ worker' = [worker EXCEPT ![w] = Idle]
    BY <1>4 DEF Release, At, Retry, Done, Enqueue
  <2>2. RowGoesOn /\ RuntimeFits
    BY <1>0, <1>4, <2>1 DEF RowGoesOn, RuntimeFits
  <2>3. Duties(w, Idle)
    BY <2>1 DEF Duties, Kept, Counts
  <2>4. jobs' \subseteq Kinds
    BY <1>0, <2>1 DEF Kinds
  <2> QED
    BY <1>0, <2>1, <2>2, <2>3, <2>4, DoneStep
<1> QED
  BY <1>1, <1>2, <1>3, <1>4 DEF Release

\* The watchdog: a step on the way, or another look is scheduled.
LEMMA Looks ==
  ASSUME LifeInv, NEW w \in Workers, Reconcile(w)
  PROVE  LifeInv'
<1> USE InHand
<1>0. /\ worker[w].pc # "idle" /\ worker[w].kind = "reconcile"
      /\ runtime' = runtime /\ row \in Rows
  BY DEF Reconcile, Recover, Probe, ProbeError, CommitHealthy, Suspend, Rearm, At
<1>1. CASE row' = row /\ jobs' = jobs /\ Goto(w, "fail")
  <2>1. worker' = [worker EXCEPT ![w].pc = "fail"] /\ RuntimeFits
    BY <1>0, <1>1 DEF Goto, RuntimeFits
  <2>2. "fail" \in Steps /\ Shape([worker[w] EXCEPT !.pc = "fail"])
          /\ Sure([worker[w] EXCEPT !.pc = "fail"], row.state)
    BY <1>0 DEF Shape, Jobs, Steps, Sure
  <2> QED
    BY <1>0, <1>1, <2>1, <2>2, GotoStep
<1>2. CASE row' = row /\ Done(w) /\ (Enqueue({"reconcile"}) \/ Enqueue({"provision", "reconcile"}))
  <2>1. /\ worker' = [worker EXCEPT ![w] = Idle]
        /\ jobs \subseteq jobs' /\ "reconcile" \in jobs' /\ jobs' \subseteq Kinds
    BY <1>0, <1>2 DEF Done, Enqueue, Kinds
  <2>2. RowGoesOn /\ RuntimeFits
    BY <1>0, <1>2 DEF RowGoesOn, RuntimeFits
  <2>3. Duties(w, Idle)
    BY <1>0, <1>2, <2>1 DEF Duties, Kept, Counts
  <2> QED
    BY <1>0, <2>1, <2>2, <2>3, DoneStep
<1>3. CASE /\ row' = row /\ jobs' = jobs /\ Done(w)
           /\ row.state \in Live => ~Sure(worker[w], row.state)
  <2>1. worker' = [worker EXCEPT ![w] = Idle]
    BY <1>3 DEF Done
  <2>2. RowGoesOn /\ RuntimeFits
    BY <1>0, <1>3 DEF RowGoesOn, RuntimeFits
  <2>3. Duties(w, Idle)
    BY <1>0, <1>3 DEF Duties, Kept
  <2> QED
    BY <1>0, <1>3, <2>1, <2>2, <2>3, DoneStep
<1>4. CASE Recover(w)
  <2>1. CASE worker[w].seen.age = "stalled" /\ row.state \notin {"requested", "provisioning"}
             /\ UNCHANGED jobs /\ Done(w)
    <3>1. ~Sure(worker[w], row.state)
      BY <1>0, <1>4, <2>1 DEF Sure, Recover, At
    <3> QED
      BY <1>3, <1>4, <2>1, <3>1 DEF Recover
  <2> QED
    BY <1>1, <1>2, <1>4, <2>1 DEF Recover
<1>5. CASE Probe(w)
  <2>1. CASE Goto(w, "commit") /\ UNCHANGED jobs
    <3>1. worker' = [worker EXCEPT ![w].pc = "commit"] /\ RuntimeFits /\ row' = row /\ jobs' = jobs
      BY <1>0, <1>5, <2>1 DEF Goto, RuntimeFits, Probe
    <3>2. "commit" \in Steps /\ Shape([worker[w] EXCEPT !.pc = "commit"])
      BY <1>0 DEF Shape, Jobs, Steps
    <3>3. Sure(worker[w], row.state) => Sure([worker[w] EXCEPT !.pc = "commit"], row.state)
      BY <1>0, <1>5 DEF Jobs, Sure, Probe, At
    <3> QED
      BY <1>0, <3>1, <3>2, <3>3, GotoStep
  <2>2. CASE Goto(w, "suspend") /\ UNCHANGED jobs
    <3>1. worker' = [worker EXCEPT ![w].pc = "suspend"] /\ RuntimeFits /\ row' = row /\ jobs' = jobs
      BY <1>0, <1>5, <2>2 DEF Goto, RuntimeFits, Probe
    <3>2. "suspend" \in Steps /\ Shape([worker[w] EXCEPT !.pc = "suspend"])
            /\ Sure([worker[w] EXCEPT !.pc = "suspend"], row.state)
      BY <1>0 DEF Shape, Jobs, Steps, Sure
    <3> QED
      BY <1>0, <3>1, <3>2, GotoStep
  <2> QED
    BY <1>1, <1>2, <1>5, <2>1, <2>2 DEF Probe
<1>6. CASE ProbeError(w)
  BY <1>1, <1>2, <1>6 DEF ProbeError
<1>7. CASE CommitHealthy(w)
  <2>0. Done(w) /\ worker[w].pc = "commit"
    BY <1>7 DEF CommitHealthy, At
  <2>1. CASE row.state # worker[w].seen.state
    <3>1. ~Sure(worker[w], row.state) /\ row' = row /\ jobs' = jobs
      BY <1>0, <1>7, <2>0, <2>1 DEF Sure, CommitHealthy
    <3> QED
      BY <1>3, <2>0, <3>1
  <2>2. CASE row.state = worker[w].seen.state /\ row.state # "suspended"
    BY <1>2, <1>7, <2>2 DEF CommitHealthy
  <2>3. CASE row.state = worker[w].seen.state /\ row.state = "suspended"
    <3>1. SetReady(row.handle) /\ Enqueue({"reconcile"})
      BY <1>7, <2>3 DEF CommitHealthy
    <3>2. row' \in Rows /\ row'.state = "ready" /\ row'.handle = row.handle
            /\ row'.epoch = row.epoch /\ row.handle
      BY <1>0, <2>3, <3>1, RowUpdates
    <3>3. /\ worker' = [worker EXCEPT ![w] = Idle]
          /\ jobs \subseteq jobs' /\ "reconcile" \in jobs' /\ jobs' \subseteq Kinds
      BY <1>0, <2>0, <3>1 DEF Done, Enqueue, Kinds
    <3>4. RowGoesOn /\ RuntimeFits
      BY <1>0, <3>2 DEF RowGoesOn, RuntimeFits
    <3>5. Duties(w, Idle)
      BY <3>2, <3>3 DEF Duties, Counts
    <3> QED
      BY <1>0, <3>3, <3>4, <3>5, DoneStep
  <2> QED
    BY <2>1, <2>2, <2>3
<1>8. CASE Suspend(w)
  <2> DEFINE u == [worker[w] EXCEPT !.pc = "rearm"]
  <2>1. /\ worker' = [worker EXCEPT ![w] = u] /\ jobs' = jobs
        /\ (row.state = "ready" /\ SetState("suspended")) \/ row' = row
    BY <1>0, <1>8 DEF Suspend, Goto
  <2>2. /\ row' \in Rows /\ row'.handle = row.handle /\ row'.epoch = row.epoch
        /\ row'.state = row.state \/ (row.state = "ready" /\ row'.state = "suspended")
    BY <1>0, <2>1, RowUpdates DEF States
  <2>3. u \in Jobs /\ u.kind = "reconcile" /\ u.pc = "rearm" /\ u.token = worker[w].token
          /\ u.seen = worker[w].seen
    BY <1>0 DEF Jobs, Steps
  <2> HIDE DEF u
  <2>4. RowGoesOn
    BY <1>0, <2>2 DEF RowGoesOn
  <2>5. RuntimeFits
    BY <1>0, <2>2 DEF RuntimeFits
  <2>6. NewJobFits(u)
    BY <1>0, <2>2, <2>3 DEF NewJobFits, JobFits, Shape
  <2>7. Duties(w, u)
    BY <1>0, <2>1, <2>2, <2>3 DEF Duties, Sure, Kept, Live
  <2> QED
    BY <1>0, <2>1, <2>3, <2>4, <2>5, <2>6, <2>7, WorkerStep
<1>9. CASE Rearm(w)
  BY <1>2, <1>9 DEF Rearm
<1> QED
  BY <1>4, <1>5, <1>6, <1>7, <1>8, <1>9 DEF Reconcile

\* A crash or an error: the job is in the queue again.
LEMMA Again ==
  ASSUME LifeInv, NEW w \in Workers, Crash(w) \/ Cancelled(w)
  PROVE  LifeInv'
<1> USE InHand
<1>1. /\ worker[w].pc # "idle" /\ row' = row /\ runtime' = runtime
      /\ worker' = [worker EXCEPT ![w] = Idle] /\ jobs' = jobs \cup {worker[w].kind}
  BY DEF Crash, Cancelled, Retry, Done, Enqueue
<1>2. RowGoesOn /\ RuntimeFits /\ jobs' \subseteq Kinds
  BY <1>1 DEF RowGoesOn, RuntimeFits
<1>3. Duties(w, Idle)
  <2>1. worker[w].kind \in jobs' /\ jobs \subseteq jobs'
    BY <1>1
  <2>2. Counts(worker[w].kind, row.state) \/ ~Sure(worker[w], row.state)
    BY <1>1 DEF Counts, Sure
  <2> QED
    BY <1>1, <2>1, <2>2 DEF Duties, Kept
<1> QED
  BY <1>1, <1>2, <1>3, DoneStep

\* The steps of the API, the provider's hosts and the clock: no job moves.
LEMMA FromOutside ==
  ASSUME LifeInv, worker' = worker, jobs \subseteq jobs', jobs' \subseteq Kinds,
         row' \in Rows, row'.state # "absent", row'.epoch = row.epoch, row'.handle = row.handle,
         RuntimeFits,
         row'.state = row.state \/ row'.state \notin {"ready", "suspended"},
         row'.state \in Live =>
            \/ row'.state = row.state
            \/ /\ \E k \in jobs' : Counts(k, row'.state)
               /\ row.state \in Live \/ "provision" \in jobs',
         row'.state = "terminating" => row.state = "terminating" \/ "terminate" \in jobs'
  PROVE  LifeInv'
<1> USE DEF LifeInv
<1>1. CoreTypes' /\ NothingYet'
  BY DEF CoreTypes, NothingYet, RuntimeFits
<1>2. JobsFit'
  BY DEF JobsFit, JobFits, Shape
<1>3. HandleKept' /\ TokenNotAhead'
  BY DEF HandleKept, TokenNotAhead, RuntimeFits
<1>4. OnFile' /\ Ending'
  BY DEF OnFile, Ending, HasJob
<1>5. Guarded'
  BY DEF Guarded
<1> QED
  BY <1>1, <1>2, <1>3, <1>4, <1>5

\* A step that touches neither the row nor a job nor the runtime.
LEMMA LifeStays ==
  ASSUME LifeInv, UNCHANGED <<row, jobs, worker, runtime>>
  PROVE  LifeInv'
BY DEF LifeInv, CoreTypes, NothingYet, JobsFit, JobFits, Shape, HandleKept, TokenNotAhead,
       OnFile, Guarded, Ending, HasJob

LEMMA Environment ==
  ASSUME LifeInv, API \/ HostLost \/ HostBack \/ RuntimeLost \/ Age
  PROVE  LifeInv'
<1> USE DEF LifeInv
<1>0. row \in Rows /\ jobs \subseteq Kinds /\ runtime \in Runtimes
  BY DEF CoreTypes
<1>1. CASE API
  <2>1. /\ worker' = worker /\ runtime' = runtime
        /\ \/ /\ row.state = "absent" /\ SetState("requested")
              /\ jobs' = jobs \cup {"provision", "reconcile"}
           \/ SetState("terminating") /\ jobs' = jobs \cup {"terminate"}
           \/ /\ row.state \notin Terminal \cup {"absent", "terminating"}
              /\ SetState("provisioning") /\ jobs' = jobs \cup {"restart"}
    BY <1>1 DEF API, ProvisionResource, TerminateResource, RestartResource, Request,
                RequestTerminate, RequestRestart, Enqueue
  <2>2. /\ row' \in Rows /\ row'.epoch = row.epoch /\ row'.handle = row.handle
        /\ row'.state \in {"requested", "terminating", "provisioning"}
        /\ row'.state = "requested" => {"provision", "reconcile"} \subseteq jobs'
        /\ row'.state = "terminating" => "terminate" \in jobs'
        /\ row'.state = "provisioning" => "restart" \in jobs' /\ row.state \in Live
        /\ jobs \subseteq jobs' /\ jobs' \subseteq Kinds
    BY <1>0, <2>1, RowUpdates DEF States, Kinds, Live, Rows, Terminal
  <2>3. RuntimeFits
    BY <1>0, <2>1, <2>2 DEF RuntimeFits, TokenNotAhead
  <2>4. row'.state \in Live => \E k \in jobs' : Counts(k, row'.state)
    BY <2>2 DEF Counts, Live
  <2>5. row'.state # "absent" /\ row'.state \notin {"ready", "suspended"}
    BY <2>2
  <2>6. row'.state \in Live => row.state \in Live \/ "provision" \in jobs'
    BY <2>2 DEF Live
  <2> QED
    BY <2>1, <2>2, <2>3, <2>4, <2>5, <2>6, FromOutside
<1>2. CASE HostLost \/ HostBack \/ RuntimeLost
  <2>1. runtime.there /\ worker' = worker /\ row' = row /\ jobs' = jobs
    BY <1>2 DEF HostLost, HostBack, RuntimeLost
  <2>2. runtime' \in Runtimes /\ (runtime'.there => runtime'.token = runtime.token)
    <3>1. CASE runtime' = NoRuntime
      BY <3>1 DEF NoRuntime, Runtimes
    <3>2. \A b \in BOOLEAN : [runtime EXCEPT !.up = b] \in Runtimes
                           /\ [runtime EXCEPT !.up = b].token = runtime.token
      BY <1>0 DEF Runtimes
    <3>3. CASE runtime' = [runtime EXCEPT !.up = FALSE] \/ runtime' = [runtime EXCEPT !.up = TRUE]
      BY <3>2, <3>3
    <3> QED
      BY <1>2, <3>1, <3>3 DEF HostLost, HostBack, RuntimeLost
  <2>3. RuntimeFits /\ row.state # "absent"
    BY <2>1, <2>2 DEF RuntimeFits, TokenNotAhead, NothingYet
  <2> QED
    BY <1>0, <2>1, <2>3, FromOutside
<1>3. CASE Age
  <2>1. /\ worker' = worker /\ runtime' = runtime /\ jobs' = jobs
        /\ row' \in Rows /\ row'.epoch = row.epoch /\ row'.handle = row.handle
        /\ row'.state = row.state /\ row.state # "absent"
    BY <1>0, <1>3 DEF Age, Rows, Ages
  <2>2. RuntimeFits
    BY <1>0, <2>1 DEF RuntimeFits, TokenNotAhead
  <2> QED
    BY <1>0, <2>1, <2>2, FromOutside
<1> QED
  BY <1>1, <1>2, <1>3

LEMMA LifeInvHolds == Spec => []LifeInv
<1>1. Init => LifeInv
  <2> SUFFICES ASSUME Init PROVE LifeInv
    OBVIOUS
  <2>1. Idle \in Jobs /\ NoRuntime \in Runtimes /\ ~NoRuntime.there
    BY DEF Idle, Jobs, Seen, Steps, Ages, NoRuntime, Runtimes
  <2>2. CoreTypes
    BY <2>1 DEF Init, CoreTypes, Rows, Ages
  <2>3. JobsFit
    BY DEF Init, JobsFit, JobFits, Shape, Idle
  <2>4. NothingYet
    BY <2>1 DEF Init, NothingYet, Idle
  <2> QED
    BY <2>1, <2>2, <2>3, <2>4 DEF Init, LifeInv, HandleKept, TokenNotAhead, OnFile, Guarded,
                                   Ending, Live
<1>2. LifeInv /\ [Next]_vars => LifeInv'
  <2> SUFFICES ASSUME LifeInv, [Next]_vars PROVE LifeInv'
    OBVIOUS
  <2>1. CASE UNCHANGED vars
    BY <2>1, LifeStays DEF vars
  <2>2. ASSUME NEW w \in Workers, JobStep(w) \/ Crash(w) \/ Cancelled(w)
        PROVE  LifeInv'
    BY <2>2, ClaimStep, OnTheWay, RowMarks, Endings, Looks, Again
       DEF JobStep, Provision, Restart, Terminate
  <2>3. ASSUME NEW p \in ToolHosts, ToolStep(p)
        PROVE  LifeInv'
    BY <2>3, LifeStays DEF ToolStep, Tools, ExecPreview, Exec, ToolRead, ToolClient, ToolCall,
                           ToolEnd
  <2> QED
    BY <2>1, <2>2, <2>3, Environment DEF Next
<1> QED
  BY <1>1, <1>2, PTL DEF Spec

-----------------------------------------------------------------------------
(***************************************************************************)
(* Who looks at the resource.                                              *)
(***************************************************************************)

LEMMA HandsAreBusy ==
  ASSUME LifeInv, NEW w \in Workers, worker[w].kind # "none"
  PROVE  worker[w].kind \in Busy
<1>1. JobFits(worker[w]) /\ worker[w].kind \in Kinds
  BY DEF LifeInv, JobsFit, CoreTypes, Jobs
<1>2. worker[w].pc # "idle"
  BY <1>1 DEF JobFits, Shape, Kinds
<1> QED
  BY <1>2 DEF Busy

\* A job of a kind waits or is in hand, said as the properties say it.
LEMMA JobAhead ==
  ASSUME LifeInv, NEW k \in Kinds, HasJob(k)
  PROVE  k \in jobs \cup Busy
<1>1. k # "none"
  BY DEF Kinds
<1> QED
  BY <1>1, HandsAreBusy DEF HasJob

LEMMA InvWatched ==
  ASSUME LifeInv
  PROVE  Watched
<1>1. CASE row.state \in Live
  <2>1. \/ \E k \in jobs : Counts(k, row.state)
        \/ \E w \in Workers : Sure(worker[w], row.state)
    BY <1>1 DEF LifeInv, Guarded
  <2>2. jobs \cup Busy # {}
    BY <2>1, HandsAreBusy DEF Sure
  <2> QED
    BY <1>1, <2>2 DEF Watched, Live
<1>2. CASE row.state = "terminating"
  <2>1. "terminate" \in jobs \cup Busy
    BY <1>2, JobAhead DEF LifeInv, Ending, Kinds
  <2> QED
    BY <1>2, <2>1 DEF Watched
<1>3. CASE row.state \in Terminal \cup {"absent"}
  BY <1>3 DEF Watched, Terminal
<1> QED
  BY <1>1, <1>2, <1>3 DEF LifeInv, CoreTypes, Rows, States, Live, Terminal

\* Every resource that is not over is watched (Request's watchdog, the four
\* workers' closing transactions and the queue's redelivery together), for any
\* number of worker processes, requests and faults.
THEOREM WatchedHolds == Spec => []Watched
BY LifeInvHolds, InvWatched, PTL

-----------------------------------------------------------------------------
(***************************************************************************)
(* The clients, and the rest of the types.                                 *)
(***************************************************************************)

ClientTypes ==
    /\ cache \in [ToolHosts -> Entries]
    /\ tool \in [ToolHosts -> ToolCalls]
    /\ revoked \subseteq Nat
    /\ calls \in Nat /\ requests \in Nat /\ faults \in Nat

ClientInv == ClientTypes /\ OneLiveClient

\* A step that leaves the calls in hand alone and at most drops the entry of
\* one process, revoking its client.
LEMMA ClientsStay ==
  ASSUME ClientInv, tool' = tool, calls' \in Nat, requests' \in Nat, faults' \in Nat,
         UNCHANGED cacheVars \/ \E w \in Workers : Invalidate(w)
  PROVE  ClientInv'
<1> USE DEF ClientInv
<1>1. CASE UNCHANGED cacheVars
  BY <1>1 DEF ClientTypes, OneLiveClient, cacheVars
<1>2. ASSUME NEW w \in ToolHosts,
             cache' = [cache EXCEPT ![w] = NoEntry], revoked' = revoked \cup {cache[w].id}
      PROVE  ClientInv'
  <2>1. NoEntry \in Entries /\ cache[w].id \in Nat
    BY DEF NoEntry, Entries, ClientTypes
  <2>2. ClientTypes'
    BY <1>2, <2>1 DEF ClientTypes
  <2>3. OneLiveClient'
    <3> SUFFICES ASSUME NEW p \in ToolHosts, tool[p].pc = "held", tool[p].id \notin revoked'
                 PROVE  cache'[p].id = tool[p].id
      BY DEF OneLiveClient
    <3>1. cache[p].id = tool[p].id
      BY <1>2 DEF OneLiveClient
    <3>2. p # w
      BY <1>2, <3>1
    <3> QED
      BY <1>2, <3>1, <3>2 DEF ClientTypes
  <2> QED
    BY <2>2, <2>3
<1> QED
  BY <1>1, <1>2 DEF Invalidate

\* The counters go up by one or stay.
LEMMA CountersGoOn ==
  ASSUME ClientTypes, Fault \/ NoFault
  PROVE  faults' \in Nat
BY DEF ClientTypes, Fault, NoFault

\* The steps of the jobs.
LEMMA JobClients ==
  ASSUME ClientInv, NEW w \in Workers, JobStep(w) \/ Cancelled(w)
  PROVE  ClientInv'
<1>1. ClientTypes
  BY DEF ClientInv
<1>2. ASSUME Outside, Fault \/ NoFault, UNCHANGED cacheVars \/ Invalidate(w)
      PROVE  ClientInv'
  BY <1>1, <1>2, CountersGoOn, ClientsStay DEF Outside, ClientTypes
<1>3. ASSUME NEW k \in Kinds, Claim(w, k)
      PROVE  ClientInv'
  BY <1>2, <1>3 DEF Claim, NoCache
<1>4. CASE ForgetClients(w)
  BY <1>2, <1>4 DEF ForgetClients
<1>5. CASE Provision(w)
  BY <1>2, <1>5 DEF Provision, Mark, Acquire, Persist, NoCache
<1>6. CASE Restart(w)
  BY <1>2, <1>6 DEF Restart, Rotate, RestartRuntime, NoCache
<1>7. CASE Terminate(w)
  BY <1>2, <1>7 DEF Terminate, Release, CommitTerminated, NoCache
<1>8. CASE Reconcile(w)
  BY <1>2, <1>8 DEF Reconcile, Recover, Probe, ProbeError, CommitHealthy, Suspend, Rearm, NoCache
<1>9. CASE Await(w) \/ Undo(w) \/ CommitReady(w) \/ Fail(w) \/ Cancelled(w)
  BY <1>2, <1>9 DEF Await, Undo, CommitReady, Fail, Cancelled, NoCache
<1> QED
  BY <1>3, <1>4, <1>5, <1>6, <1>7, <1>8, <1>9 DEF JobStep

\* The steps of a tool call.
LEMMA ToolClients ==
  ASSUME LifeInv, ClientInv, NEW p \in ToolHosts, ToolStep(p)
  PROVE  ClientInv'
<1> USE DEF ClientInv
<1>1. /\ tool[p] \in ToolCalls /\ tool[p].epoch \in Nat /\ tool[p].id \in Nat
      /\ cache[p] \in Entries /\ cache[p].id \in Nat /\ Rest \in ToolCalls
      /\ Rest.pc = "idle" /\ row.epoch \in Nat /\ calls \in Nat /\ calls + 1 \in Nat
  BY DEF ClientTypes, ToolCalls, Entries, Rest, LifeInv, CoreTypes, Rows
<1>2. requests' \in Nat /\ faults' \in Nat
  BY DEF ClientTypes, ToolStep, Tools, ExecPreview, Exec, ToolRead, ToolClient, ToolCall, ToolEnd,
         NoFault
\* The call in hand becomes t, and holds nothing or what is in the cache.
<1>3. ASSUME NEW t \in ToolCalls, tool' = [tool EXCEPT ![p] = t], UNCHANGED cacheVars,
             calls' \in Nat, t.pc = "held" => cache[p].id = t.id
      PROVE  ClientInv'
  BY <1>1, <1>2, <1>3 DEF ClientTypes, OneLiveClient, cacheVars
<1>4. CASE ToolRead(p)
  <2> DEFINE t == [pc |-> "read", epoch |-> row.epoch, id |-> calls + 1]
  <2>1. t \in ToolCalls /\ t.pc = "read"
    BY <1>1 DEF ToolCalls
  <2>2. tool' = [tool EXCEPT ![p] = t] /\ calls' \in Nat /\ UNCHANGED cacheVars
    BY <1>1, <1>4 DEF ToolRead, NoCache
  <2> HIDE DEF t
  <2> QED
    BY <1>3, <2>1, <2>2
<1>5. CASE ToolEnd(p) \/ ToolCall(p)
  <2>1. /\ UNCHANGED cacheVars /\ calls' \in Nat
        /\ tool' = tool \/ tool' = [tool EXCEPT ![p] = Rest]
    BY <1>1, <1>5 DEF ToolEnd, ToolCall, NoCache
  <2>2. CASE tool' = tool
    BY <1>2, <2>1, <2>2, ClientsStay
  <2> QED
    BY <1>1, <1>3, <2>1, <2>2
<1>6. CASE /\ UNCHANGED cacheVars /\ calls' = calls
           /\ \/ tool' = [tool EXCEPT ![p].pc = "held", ![p].id = cache[p].id]
              \/ tool' = [tool EXCEPT ![p] = Rest]
  <2> DEFINE t == [tool[p] EXCEPT !.pc = "held", !.id = cache[p].id]
  <2>1. t \in ToolCalls /\ t.id = cache[p].id
    BY <1>1 DEF ToolCalls
  <2>2. tool' = [tool EXCEPT ![p] = t] \/ tool' = [tool EXCEPT ![p] = Rest]
    BY <1>6 DEF ClientTypes
  <2> HIDE DEF t
  <2> QED
    BY <1>1, <1>3, <1>6, <2>1, <2>2
<1>7. CASE /\ revoked' = IF cache[p] = NoEntry THEN revoked ELSE revoked \cup {cache[p].id}
           /\ cache' = [cache EXCEPT ![p] = [epoch |-> tool[p].epoch, id |-> tool[p].id]]
           /\ tool' = [tool EXCEPT ![p].pc = "held"]
           /\ calls' = calls
  <2>1. /\ [epoch |-> tool[p].epoch, id |-> tool[p].id] \in Entries
        /\ [tool[p] EXCEPT !.pc = "held"] \in ToolCalls
    BY <1>1 DEF Entries, ToolCalls
  <2>2. ClientTypes'
    BY <1>1, <1>2, <1>7, <2>1 DEF ClientTypes
  <2>3. OneLiveClient'
    <3> SUFFICES ASSUME NEW q \in ToolHosts, tool'[q].pc = "held", tool'[q].id \notin revoked'
                 PROVE  cache'[q].id = tool'[q].id
      BY DEF OneLiveClient
    <3>1. CASE q = p
      BY <1>1, <1>7, <3>1 DEF ClientTypes, ToolCalls
    <3>2. CASE q # p
      <4>1. tool'[q] = tool[q] /\ cache'[q] = cache[q] /\ revoked \subseteq revoked'
        BY <1>7, <3>2 DEF ClientTypes
      <4> QED
        BY <4>1 DEF OneLiveClient
    <3> QED
      BY <3>1, <3>2
  <2> QED
    BY <2>2, <2>3
<1> QED
  BY <1>4, <1>5, <1>6, <1>7 DEF ToolStep, Tools, ExecPreview, Exec, ToolClient, NoCache

\* A process that dies takes its clients along.
LEMMA CrashClients ==
  ASSUME ClientInv, NEW w \in Workers, Crash(w)
  PROVE  ClientInv'
<1> USE DEF ClientInv
<1>1. faults' \in Nat /\ calls' \in Nat /\ requests' \in Nat
  BY CountersGoOn DEF Crash, ClientTypes
<1>2. CASE w \notin ToolHosts
  BY <1>1, <1>2, ClientsStay DEF Crash, NoCache
<1>3. CASE w \in ToolHosts
  <2>1. /\ cache' = [cache EXCEPT ![w] = NoEntry] /\ tool' = [tool EXCEPT ![w] = Rest]
        /\ revoked' = revoked \cup ({cache[w].id, tool[w].id} \ {0})
    BY <1>3 DEF Crash
  <2>2. /\ NoEntry \in Entries /\ Rest \in ToolCalls /\ Rest.pc = "idle"
        /\ cache[w].id \in Nat /\ tool[w].id \in Nat
    BY <1>3 DEF NoEntry, Entries, Rest, ToolCalls, ClientTypes
  <2>3. ClientTypes'
    BY <1>1, <1>3, <2>1, <2>2 DEF ClientTypes
  <2>4. OneLiveClient'
    BY <1>3, <2>1, <2>2 DEF ClientTypes, OneLiveClient
  <2> QED
    BY <2>3, <2>4
<1> QED
  BY <1>2, <1>3

LEMMA ClientInvHolds == Spec => []ClientInv
<1>1. Init => ClientInv
  BY DEF Init, ClientInv, ClientTypes, OneLiveClient, Entries, ToolCalls, NoEntry, Rest
<1>2. LifeInv /\ ClientInv /\ [Next]_vars => ClientInv'
  <2> SUFFICES ASSUME LifeInv, ClientInv, [Next]_vars PROVE ClientInv'
    OBVIOUS
  <2>0. calls \in Nat /\ requests \in Nat /\ faults \in Nat
    BY DEF ClientInv, ClientTypes
  <2>1. CASE UNCHANGED vars
    BY <2>0, <2>1, ClientsStay DEF vars, cacheVars
  <2>2. ASSUME NEW w \in Workers, JobStep(w) \/ Crash(w) \/ Cancelled(w)
        PROVE  ClientInv'
    BY <2>2, JobClients, CrashClients
  <2>3. ASSUME NEW p \in ToolHosts, ToolStep(p)
        PROVE  ClientInv'
    BY <2>3, ToolClients
  <2>4. CASE API \/ HostLost \/ HostBack \/ RuntimeLost \/ Age
    <3>1. tool' = tool /\ calls' = calls /\ UNCHANGED cacheVars
      BY <2>4 DEF API, ProvisionResource, TerminateResource, RestartResource, Request,
                  RequestTerminate, RequestRestart, HostLost, HostBack, RuntimeLost, Age,
                  NoCache, Outside
    <3>2. requests' = requests \/ requests' = requests + 1
      BY <2>4 DEF API, ProvisionResource, TerminateResource, RestartResource, Request,
                  RequestTerminate, RequestRestart, HostLost, HostBack, RuntimeLost, Age, Outside
    <3>3. faults' = faults \/ faults' = faults + 1
      BY <2>4 DEF API, ProvisionResource, TerminateResource, RestartResource, Request,
                  RequestTerminate, RequestRestart, HostLost, HostBack, RuntimeLost, Age, Fault,
                  NoFault
    <3> QED
      BY <2>0, <3>1, <3>2, <3>3, ClientsStay
  <2> QED
    BY <2>1, <2>2, <2>3, <2>4 DEF Next
<1> QED
  BY <1>1, <1>2, LifeInvHolds, PTL DEF Spec

\* A process never holds two clients of the resource that can still reach the
\* network (Cache.Client and InvalidateToolClients), whatever jobs and calls do.
THEOREM OneLiveClientHolds == Spec => []OneLiveClient
<1>1. ClientInv => OneLiveClient
  BY DEF ClientInv
<1> QED
  BY <1>1, ClientInvHolds, PTL

\* The runtime's token is never ahead of the row's, a runtime without a handle on
\* file has a provision job to come, and every variable has its type: for any
\* number of processes, requests, faults and calls.
THEOREM RuntimeInStepHolds == Spec => []RuntimeInStep
<1>1. LifeInv /\ ClientInv => RuntimeInStep
  <2> SUFFICES ASSUME LifeInv, ClientInv PROVE RuntimeInStep
    OBVIOUS
  <2>1. TypeOK
    BY DEF LifeInv, CoreTypes, ClientInv, ClientTypes, TypeOK
  <2>2. RuntimeOnFile
    <3> SUFFICES ASSUME runtime.there, ~row.handle, row.state \notin Terminal \cup {"terminating"}
                 PROVE  "provision" \in jobs \cup Busy
      BY DEF RuntimeOnFile
    <3>1. row.state \in Live
      BY DEF LifeInv, NothingYet, CoreTypes, Rows, States, Live, Terminal
    <3> QED
      BY <3>1, JobAhead DEF LifeInv, OnFile, Kinds
  <2> QED
    BY <2>1, <2>2 DEF RuntimeInStep, LifeInv
<1> QED
  BY <1>1, LifeInvHolds, ClientInvHolds, PTL
=============================================================================
