-------------------------- MODULE Providers_proofs --------------------------
(***************************************************************************)
(* Proofs about the providers and about the tunnel's broker.               *)
(***************************************************************************)
EXTENDS Providers, TunnelBroker, FiniteSetTheorems, SequenceTheorems, TLAPS

-----------------------------------------------------------------------------
(***************************************************************************)
(* Providers, for any bounds on units, tokens, retries and failures, and for *)
(* each of the six kinds of provider.                                      *)
(***************************************************************************)

-----------------------------------------------------------------------------
(***************************************************************************)
(* What may be left of a program: which steps belong to a kind and a job.  *)
(***************************************************************************)

StepsIn(s) == {s[i] : i \in DOMAIN s}

Makes(k, x) ==
    \/ k \in {"docker", "tunnel"} /\ x \in {"volume", "create", "start", "adoptStart", "inspect"}
    \/ k = "k8s" /\ x \in {"secret", "pod", "service", "name"}
    \/ k = "nomad" /\ x \in {"register", "name"}
    \/ k = "static" /\ x \in {"dir", "spawn", "awaitReady"}
    \/ k = "null" /\ x \in {"put", "name"}
Removes(k, x) ==
    \/ k \in {"docker", "tunnel"} /\ x \in {"remove", "removeVolume"}
    \/ k = "k8s" /\ x \in {"deletePod", "deleteService", "deleteSecret"}
    \/ k = "nomad" /\ x = "purge"
    \/ k = "static" /\ x \in {"stop", "removeDir"}
    \/ k = "null" /\ x = "drop"
Clears(k, x) ==
    \/ k \in {"docker", "tunnel"} /\ x = "remove"
    \/ k = "k8s" /\ x \in {"deletePod", "awaitPodAbsent"}
    \/ k = "nomad" /\ x \in {"purge", "awaitJobAbsent"}
    \/ k = "static" /\ x = "stop"
Calls(k, x) == k = "tunnel" /\ x = "call"

Fits(k, op, x) ==
    \/ op = "provision" /\ (Makes(k, x) \/ Calls(k, x) \/ x \in {"adopt", "setHandle", "await", "commit", "fail"})
    \/ op = "restart" /\ (Makes(k, x) \/ Clears(k, x) \/ Calls(k, x) \/ x \in {"refuse", "await", "commit", "fail"})
    \/ op = "terminate" /\ (Removes(k, x) \/ Calls(k, x) \/ x = "terminated")
    \/ op = "undo" /\ (Removes(k, x) \/ Calls(k, x) \/ x = "fail")

\* The platform's closing step comes last.
Closing == {"commit", "fail", "terminated"}
EndsClosed(s) == \A i \in 1 .. Len(s) : s[i] \in Closing => i = Len(s)

JobFits ==
    /\ \A x \in StepsIn(prog["job"].todo) : Fits(kind, prog["job"].op, x)
    /\ EndsClosed(prog["job"].todo)
    /\ prog["job"].op = "none" => prog["job"] = Nothing
StrayFits == kind # "tunnel" => prog["stray"] = Nothing

ProgInv == ProvidersTypeOK /\ JobFits /\ StrayFits

-----------------------------------------------------------------------------
(***************************************************************************)
(* What the control plane holds.                                           *)
(***************************************************************************)

NoneDeleting == kind \notin {"k8s", "nomad"} => \A u \in units : u.phase # "deleting"
AtMostOne ==
    kind # "static" =>
        \A u, v \in units : u.phase # "deleting" /\ v.phase # "deleting" => u = v
KeptFits ==
    /\ kind = "docker" => kept \subseteq {"volume"}
    /\ kind = "k8s" => kept \subseteq {"secret", "service"}
    /\ kind = "nomad" => kept \subseteq {"job"}
    /\ kind = "null" => kept = {}
WorldInv == NoneDeleting /\ AtMostOne /\ KeptFits

\* How far a termination is: what a step that is behind it has removed.
Going == \A u \in units : u.phase = "deleting"
Removed ==
    LET left == StepsIn(prog["job"].todo)
    IN  /\ kind = "docker" /\ "removeVolume" \notin left => kept = {} /\ units = {}
        /\ kind = "k8s" /\ "deletePod" \notin left => Going
        /\ kind = "k8s" /\ "deleteService" \notin left => "service" \notin kept
        /\ kind = "k8s" /\ "deleteSecret" \notin left => "secret" \notin kept
        /\ kind = "nomad" /\ "purge" \notin left => "job" \notin kept /\ Going
        /\ kind = "null" /\ "drop" \notin left => units = {}
TerminateFits ==
    prog["job"].op = "terminate" =>
        /\ prog["job"].handle = row.handle
        /\ row.handle # NoHandle => Removed
OverFits == row.state = "terminated" => prog["job"] = Nothing /\ NothingLeft
EndInv == TerminateFits /\ OverFits

UnitsInv == ProgInv /\ WorldInv /\ EndInv

-----------------------------------------------------------------------------
(***************************************************************************)
(* Whose token the units have.                                             *)
(***************************************************************************)

\* The resource may be ready again without another restart.
Live ==
    /\ "restart" \notin queue /\ row.state # "terminated"
    /\ "provision" \in queue \/ row.state \in {"ready", "suspended"}

Handled == kind \in {"docker", "static", "tunnel"}
HaveToken(us, t) == \A u \in us : u.token = t
Serving == {u \in units : u.phase \in {"running", "deleting"}}

QueueFits ==
    /\ prog["job"].op = "provision" => "provision" \in queue
    /\ prog["job"].op = "restart" => "restart" \in queue
    /\ prog["job"].op # "none" => prog["job"].token = row.token
    /\ row.state \in {"ready", "suspended", "failed"} /\ "restart" \in queue => "provision" \notin queue

RowFresh ==
    Live => /\ Handled => HaveToken(UnitOf(row.handle), row.token)
            /\ kind = "docker" => HaveToken(units, row.token)
            /\ kind = "k8s" => /\ HaveToken(Serving, row.token)
                               /\ "secret" \in kept => secret = row.token
ProvisionFresh ==
    prog["job"].op = "provision" /\ Live /\ Handled =>
        /\ HaveToken(UnitOf(prog["job"].handle), row.token)
        /\ HaveToken(UnitOf(prog["job"].unit), row.token)

\* A restart that was not refused and has not failed.
Left == StepsIn(prog["job"].todo)
Underway == prog["job"].op = "restart" /\ "commit" \in Left /\ "refuse" \notin Left

HandleRestarts ==
    Handled =>
        /\ prog["job"].op = "restart" => HaveToken(UnitOf(prog["job"].unit), row.token)
        /\ Underway /\ "inspect" \notin Left /\ "awaitReady" \notin Left
             => HaveToken(UnitOf(prog["job"].handle), row.token)
DockerRestarts ==
    kind = "docker" /\ Underway /\ "create" \notin Left => HaveToken(units, row.token)
\* No pod is made before the secret is written, nor that before the old pod is gone.
InOrder(s) ==
    \A i, j \in 1 .. Len(s) :
        i < j => /\ s[j] = "secret" => s[i] # "pod"
                 /\ s[j] = "awaitPodAbsent" => s[i] # "secret"
K8sRestarts ==
    kind = "k8s" =>
        /\ prog["job"].op = "restart" => InOrder(prog["job"].todo)
        /\ Underway /\ "awaitPodAbsent" \in Left => "secret" \in Left
        /\ Underway /\ "awaitPodAbsent" \notin Left /\ "secret" \in Left => units = {}
        /\ Underway /\ "awaitPodAbsent" \notin Left /\ "secret" \notin Left
             => secret = row.token /\ HaveToken(Serving, row.token)
FreshInv == QueueFits /\ RowFresh /\ ProvisionFresh /\ HandleRestarts /\ DockerRestarts /\ K8sRestarts

-----------------------------------------------------------------------------
(***************************************************************************)
(* Programs as sequences.                                                  *)
(***************************************************************************)

AllSteps == PlatformSteps \cup AdapterSteps

LEMMA TailSteps ==
  ASSUME NEW S, NEW s \in Seq(S), s # <<>>
  PROVE  /\ Tail(s) \in Seq(S) /\ Head(s) \in S /\ Head(s) \in StepsIn(s)
         /\ \A x \in StepsIn(Tail(s)) : x \in StepsIn(s)
         /\ \A x \in StepsIn(s) : x = Head(s) \/ x \in StepsIn(Tail(s))
<1>1. Len(s) \in Nat /\ Len(s) # 0 /\ DOMAIN s = 1 .. Len(s) /\ Head(s) = s[1]
  OBVIOUS
<1>2. /\ Tail(s) \in Seq(S) /\ Len(Tail(s)) = Len(s) - 1
      /\ \A i \in 1 .. Len(s) - 1 : Tail(s)[i] = s[i + 1]
  OBVIOUS
<1>3. DOMAIN Tail(s) = 1 .. Len(s) - 1
  BY <1>2
<1>4. Head(s) \in S /\ Head(s) \in StepsIn(s)
  BY <1>1 DEF StepsIn
<1>5. ASSUME NEW x \in StepsIn(Tail(s))
      PROVE  x \in StepsIn(s)
  <2>1. PICK i \in 1 .. Len(s) - 1 : x = s[i + 1]
    BY <1>2, <1>3 DEF StepsIn
  <2>2. i + 1 \in DOMAIN s
    BY <1>1
  <2> QED
    BY <2>1, <2>2 DEF StepsIn
<1>6. ASSUME NEW x \in StepsIn(s), x # Head(s)
      PROVE  x \in StepsIn(Tail(s))
  <2>1. PICK i \in 1 .. Len(s) : x = s[i]
    BY <1>1 DEF StepsIn
  <2>2. i # 1
    BY <1>1, <1>6, <2>1
  <2>3. i - 1 \in 1 .. Len(s) - 1 /\ (i - 1) + 1 = i
    BY <1>1, <2>2
  <2>4. Tail(s)[i - 1] = x
    BY <1>2, <2>1, <2>3
  <2> QED
    BY <1>3, <2>3, <2>4 DEF StepsIn
<1> QED
  BY <1>2, <1>4, <1>5, <1>6

LEMMA TailClosed ==
  ASSUME NEW S, NEW s \in Seq(S), s # <<>>, EndsClosed(s)
  PROVE  /\ EndsClosed(Tail(s))
         /\ Head(s) \in Closing => StepsIn(s) = {Head(s)}
<1>0. PICK n : n = Len(s)
  OBVIOUS
<1>1. n \in Nat /\ n # 0 /\ DOMAIN s = 1 .. n /\ Head(s) = s[1]
  BY <1>0
<1>2. Len(Tail(s)) = n - 1 /\ \A i \in 1 .. n - 1 : Tail(s)[i] = s[i + 1]
  BY <1>0
<1>3. \A i \in 1 .. n : s[i] \in Closing => i = n
  BY <1>0 DEF EndsClosed
<1>4. ASSUME NEW i \in 1 .. n - 1, Tail(s)[i] \in Closing
      PROVE  i = n - 1
  <2>1. i + 1 \in 1 .. n
    BY <1>1
  <2>2. s[i + 1] \in Closing
    BY <1>2, <1>4
  <2>3. i + 1 = n
    BY <1>3, <2>1, <2>2
  <2> QED
    BY <1>1, <2>3
<1>5. ASSUME Head(s) \in Closing
      PROVE  StepsIn(s) = {Head(s)}
  <2>1. 1 \in 1 .. n
    BY <1>1
  <2>2. n = 1
    BY <1>1, <1>3, <1>5, <2>1
  <2> QED
    BY <1>1, <2>2 DEF StepsIn
<1> QED
  BY <1>2, <1>4, <1>5 DEF EndsClosed

LEMMA CatSteps ==
  ASSUME NEW S, NEW s \in Seq(S), NEW t \in Seq(S)
  PROVE  /\ s \o t \in Seq(S)
         /\ \A x \in StepsIn(s \o t) : x \in StepsIn(s) \/ x \in StepsIn(t)
         /\ \A x \in StepsIn(s) : x \in StepsIn(s \o t)
         /\ \A x \in StepsIn(t) : x \in StepsIn(s \o t)
<1>1. PICK m, n : m = Len(s) /\ n = Len(t)
  OBVIOUS
<1>2. m \in Nat /\ n \in Nat /\ DOMAIN s = 1 .. m /\ DOMAIN t = 1 .. n
  BY <1>1
<1>3. /\ s \o t \in Seq(S) /\ Len(s \o t) = m + n /\ DOMAIN (s \o t) = 1 .. m + n
      /\ \A i \in 1 .. m + n : (s \o t)[i] = IF i <= m THEN s[i] ELSE t[i - m]
  BY <1>1
<1>4. ASSUME NEW x \in StepsIn(s \o t)
      PROVE  x \in StepsIn(s) \/ x \in StepsIn(t)
  <2>1. PICK i \in 1 .. m + n : x = (s \o t)[i]
    BY <1>3 DEF StepsIn
  <2>2. CASE i <= m
    BY <1>2, <1>3, <2>1, <2>2 DEF StepsIn
  <2>3. CASE ~(i <= m)
    <3>1. i - m \in 1 .. n
      BY <1>2, <2>3
    <3>2. x = t[i - m]
      BY <1>3, <2>1, <2>3
    <3> QED
      BY <1>2, <3>1, <3>2 DEF StepsIn
  <2> QED
    BY <2>2, <2>3
<1>5. ASSUME NEW x \in StepsIn(s)
      PROVE  x \in StepsIn(s \o t)
  <2>1. PICK i \in 1 .. m : x = s[i]
    BY <1>2 DEF StepsIn
  <2>2. i \in 1 .. m + n /\ i <= m
    BY <1>2
  <2>3. (s \o t)[i] = x
    BY <1>3, <2>1, <2>2
  <2> QED
    BY <1>3, <2>2, <2>3 DEF StepsIn
<1>6. ASSUME NEW x \in StepsIn(t)
      PROVE  x \in StepsIn(s \o t)
  <2>1. PICK i \in 1 .. n : x = t[i]
    BY <1>2 DEF StepsIn
  <2>2. i + m \in 1 .. m + n /\ ~(i + m <= m) /\ (i + m) - m = i
    BY <1>2
  <2>3. (s \o t)[i + m] = x
    BY <1>3, <2>1, <2>2
  <2> QED
    BY <1>3, <2>2, <2>3 DEF StepsIn
<1> QED
  BY <1>3, <1>4, <1>5, <1>6

LEMMA CatClosed ==
  ASSUME NEW S, NEW s \in Seq(S), NEW t \in Seq(S), EndsClosed(t),
         \A x \in StepsIn(s) : x \notin Closing
  PROVE  EndsClosed(s \o t)
<1>1. PICK m, n : m = Len(s) /\ n = Len(t)
  OBVIOUS
<1>2. m \in Nat /\ n \in Nat /\ DOMAIN s = 1 .. m /\ DOMAIN t = 1 .. n
  BY <1>1
<1>3. /\ Len(s \o t) = m + n
      /\ \A i \in 1 .. m + n : (s \o t)[i] = IF i <= m THEN s[i] ELSE t[i - m]
  BY <1>1
<1>4. ASSUME NEW i \in 1 .. m + n, (s \o t)[i] \in Closing
      PROVE  i = m + n
  <2>1. CASE i <= m
    <3>1. i \in 1 .. m /\ s[i] \in Closing
      BY <1>2, <1>3, <1>4, <2>1
    <3> QED
      BY <1>2, <3>1 DEF StepsIn
  <2>2. CASE ~(i <= m)
    <3>1. i - m \in 1 .. n
      BY <1>2, <2>2
    <3>2. t[i - m] \in Closing
      BY <1>3, <1>4, <2>2
    <3>3. i - m = n
      BY <1>1, <3>1, <3>2 DEF EndsClosed
    <3> QED
      BY <1>2, <3>3
  <2> QED
    BY <2>1, <2>2
<1> QED
  BY <1>3, <1>4 DEF EndsClosed

LEMMA OneStep ==
  ASSUME NEW x
  PROVE  StepsIn(<<x>>) = {x} /\ EndsClosed(<<x>>)
BY DEF StepsIn, EndsClosed

-----------------------------------------------------------------------------
(***************************************************************************)
(* The adapters' programs.                                                 *)
(***************************************************************************)

LEMMA KindCases == ProvidersTypeOK => kind \in {"docker", "k8s", "nomad", "static", "null", "tunnel"}
BY ProvidersConstants DEF ProvidersTypeOK

LEMMA DockerSteps ==
  /\ DockerProvision \in Seq(AllSteps)
  /\ StepsIn(DockerProvision) = {"volume", "create", "start", "inspect"}
  /\ DockerTerminate \in Seq(AllSteps) /\ StepsIn(DockerTerminate) = {"remove", "removeVolume"}
  /\ <<"call">> \in Seq(AllSteps) /\ StepsIn(<<"call">>) = {"call"}
  /\ <<"remove">> \in Seq(AllSteps) /\ StepsIn(<<"remove">>) = {"remove"}
BY DEF DockerProvision, DockerTerminate, StepsIn, AllSteps, PlatformSteps, AdapterSteps

LEMMA RestartOfDocker ==
  DockerRestart \in Seq(AllSteps) /\ StepsIn(DockerRestart) = {"remove", "volume", "create", "start", "inspect"}
<1>1. PICK a \in Seq(AllSteps) : a = <<"remove">>
  BY DockerSteps
<1>2. PICK b \in Seq(AllSteps) : b = DockerProvision
  BY DockerSteps
<1>3. StepsIn(a) = {"remove"} /\ StepsIn(b) = {"volume", "create", "start", "inspect"}
  BY <1>1, <1>2, DockerSteps
<1>4. DockerRestart = a \o b
  BY <1>1, <1>2 DEF DockerRestart
<1>5. a \o b \in Seq(AllSteps) /\ StepsIn(a \o b) = {"remove", "volume", "create", "start", "inspect"}
  BY <1>3, CatSteps
<1> QED
  BY <1>4, <1>5

LEMMA ProvisionSteps ==
  ASSUME ProvidersTypeOK
  PROVE  Provision \in Seq(AllSteps) /\ \A x \in StepsIn(Provision) : Makes(kind, x) \/ Calls(kind, x)
<1>1. CASE kind = "docker"
  BY <1>1, DockerSteps DEF Provision, Makes
<1>2. CASE kind = "k8s"
  <2>1. K8sProvision \in Seq(AllSteps) /\ StepsIn(K8sProvision) = {"secret", "pod", "service", "name"}
    BY DEF K8sProvision, StepsIn, AllSteps, PlatformSteps, AdapterSteps
  <2> QED
    BY <1>2, <2>1 DEF Provision, Makes
<1>3. CASE kind = "nomad"
  <2>1. NomadProvision \in Seq(AllSteps) /\ StepsIn(NomadProvision) = {"register", "name"}
    BY DEF NomadProvision, StepsIn, AllSteps, PlatformSteps, AdapterSteps
  <2> QED
    BY <1>3, <2>1 DEF Provision, Makes
<1>4. CASE kind = "static"
  <2>1. StaticProvision \in Seq(AllSteps) /\ StepsIn(StaticProvision) = {"dir", "spawn", "awaitReady"}
    BY DEF StaticProvision, StepsIn, AllSteps, PlatformSteps, AdapterSteps
  <2> QED
    BY <1>4, <2>1 DEF Provision, Makes
<1>5. CASE kind = "null"
  <2>1. NullProvision \in Seq(AllSteps) /\ StepsIn(NullProvision) = {"put", "name"}
    BY DEF NullProvision, StepsIn, AllSteps, PlatformSteps, AdapterSteps
  <2> QED
    BY <1>5, <2>1 DEF Provision, Makes
<1>6. CASE kind = "tunnel"
  <2>1. PICK a \in Seq(AllSteps) : a = <<"call">> /\ StepsIn(a) = {"call"}
    BY DockerSteps
  <2>2. PICK b \in Seq(AllSteps) : b = DockerProvision /\ StepsIn(b) = {"volume", "create", "start", "inspect"}
    BY DockerSteps
  <2>3. Provision = a \o b
    BY <1>6, <2>1, <2>2 DEF Provision, TunnelProvision
  <2>4. a \o b \in Seq(AllSteps) /\ \A x \in StepsIn(a \o b) : Makes(kind, x) \/ Calls(kind, x)
    BY <1>6, <2>1, <2>2, CatSteps DEF Makes, Calls
  <2> QED
    BY <2>3, <2>4
<1> QED
  BY <1>1, <1>2, <1>3, <1>4, <1>5, <1>6, KindCases

LEMMA TerminateSteps ==
  ASSUME ProvidersTypeOK
  PROVE  /\ Terminate \in Seq(AllSteps)
         /\ \A x \in StepsIn(Terminate) : Removes(kind, x) \/ Calls(kind, x)
         /\ \A x : Removes(kind, x) => x \in StepsIn(Terminate)
<1>1. CASE kind = "docker"
  BY <1>1, DockerSteps DEF Terminate, Removes
<1>2. CASE kind = "k8s"
  <2>1. K8sTerminate \in Seq(AllSteps) /\ StepsIn(K8sTerminate) = {"deletePod", "deleteService", "deleteSecret"}
    BY DEF K8sTerminate, StepsIn, AllSteps, PlatformSteps, AdapterSteps
  <2> QED
    BY <1>2, <2>1 DEF Terminate, Removes
<1>3. CASE kind = "nomad"
  <2>1. NomadTerminate \in Seq(AllSteps) /\ StepsIn(NomadTerminate) = {"purge"}
    BY DEF NomadTerminate, StepsIn, AllSteps, PlatformSteps, AdapterSteps
  <2> QED
    BY <1>3, <2>1 DEF Terminate, Removes
<1>4. CASE kind = "static"
  <2>1. StaticTerminate \in Seq(AllSteps) /\ StepsIn(StaticTerminate) = {"stop", "removeDir"}
    BY DEF StaticTerminate, StepsIn, AllSteps, PlatformSteps, AdapterSteps
  <2> QED
    BY <1>4, <2>1 DEF Terminate, Removes
<1>5. CASE kind = "null"
  <2>1. NullTerminate \in Seq(AllSteps) /\ StepsIn(NullTerminate) = {"drop"}
    BY DEF NullTerminate, StepsIn, AllSteps, PlatformSteps, AdapterSteps
  <2> QED
    BY <1>5, <2>1 DEF Terminate, Removes
<1>6. CASE kind = "tunnel"
  <2>1. PICK a \in Seq(AllSteps) : a = <<"call">> /\ StepsIn(a) = {"call"}
    BY DockerSteps
  <2>2. PICK b \in Seq(AllSteps) : b = DockerTerminate /\ StepsIn(b) = {"remove", "removeVolume"}
    BY DockerSteps
  <2>3. Terminate = a \o b
    BY <1>6, <2>1, <2>2 DEF Terminate, TunnelTerminate
  <2>4. /\ a \o b \in Seq(AllSteps) /\ \A x \in StepsIn(a \o b) : Removes(kind, x) \/ Calls(kind, x)
        /\ \A x : Removes(kind, x) => x \in StepsIn(a \o b)
    BY <1>6, <2>1, <2>2, CatSteps DEF Removes, Calls
  <2> QED
    BY <2>3, <2>4
<1> QED
  BY <1>1, <1>2, <1>3, <1>4, <1>5, <1>6, KindCases

\* The steps a restart goes through when it is not refused.
MustDo(k, x) ==
    \/ k \in {"docker", "tunnel"} /\ x \in {"create", "inspect"}
    \/ k = "k8s" /\ x \in {"awaitPodAbsent", "secret"}
    \/ k = "static" /\ x = "awaitReady"

LEMMA RestartSteps ==
  ASSUME ProvidersTypeOK, NEW h
  PROVE  /\ Restart(h) \in Seq(AllSteps)
         /\ \A x \in StepsIn(Restart(h)) : Makes(kind, x) \/ Clears(kind, x) \/ Calls(kind, x) \/ x = "refuse"
         /\ "refuse" \in StepsIn(Restart(h)) \/ \A x : MustDo(kind, x) => x \in StepsIn(Restart(h))
<1>0. CASE h = NoHandle /\ kind \in {"docker", "k8s", "tunnel"}
  <2>1. <<"refuse">> \in Seq(AllSteps) /\ StepsIn(<<"refuse">>) = {"refuse"}
    BY DEF StepsIn, AllSteps, PlatformSteps, AdapterSteps
  <2> QED
    BY <1>0, <2>1 DEF Restart
<1>a. CASE ~(h = NoHandle /\ kind \in {"docker", "k8s", "tunnel"})
  <2>1. CASE kind = "docker"
    <3>1. Restart(h) = DockerRestart
      BY <1>a, <2>1 DEF Restart
    <3> QED
      BY <2>1, <3>1, RestartOfDocker DEF Makes, Clears, MustDo
  <2>2. CASE kind = "k8s"
    <3>1. PICK a : a = <<"deletePod", "awaitPodAbsent">>
      OBVIOUS
    <3>2. PICK b : b = K8sProvision
      OBVIOUS
    <3>3. a \in Seq(AllSteps) /\ StepsIn(a) = {"deletePod", "awaitPodAbsent"}
      BY <3>1 DEF StepsIn, AllSteps, PlatformSteps, AdapterSteps
    <3>4. b \in Seq(AllSteps) /\ StepsIn(b) = {"secret", "pod", "service", "name"}
      BY <3>2 DEF K8sProvision, StepsIn, AllSteps, PlatformSteps, AdapterSteps
    <3>5. Restart(h) = a \o b
      BY <1>a, <2>2, <3>1, <3>2 DEF Restart, K8sRestart
    <3>6. /\ a \o b \in Seq(AllSteps)
          /\ StepsIn(a \o b) = {"deletePod", "awaitPodAbsent", "secret", "pod", "service", "name"}
      BY <3>3, <3>4, CatSteps
    <3> QED
      BY <2>2, <3>5, <3>6 DEF Makes, Clears, MustDo
  <2>3. CASE kind = "nomad"
    <3>1. PICK a : a = NomadTerminate
      OBVIOUS
    <3>2. PICK b : b = <<"awaitJobAbsent">>
      OBVIOUS
    <3>3. PICK c : c = NomadProvision
      OBVIOUS
    <3>4. a \in Seq(AllSteps) /\ StepsIn(a) = {"purge"}
      BY <3>1 DEF NomadTerminate, StepsIn, AllSteps, PlatformSteps, AdapterSteps
    <3>5. b \in Seq(AllSteps) /\ StepsIn(b) = {"awaitJobAbsent"}
      BY <3>2 DEF StepsIn, AllSteps, PlatformSteps, AdapterSteps
    <3>6. c \in Seq(AllSteps) /\ StepsIn(c) = {"register", "name"}
      BY <3>3 DEF NomadProvision, StepsIn, AllSteps, PlatformSteps, AdapterSteps
    <3>a. a \o b \in Seq(AllSteps) /\ StepsIn(a \o b) = {"purge", "awaitJobAbsent"}
      BY <3>4, <3>5, CatSteps
    <3>7. PICK d \in Seq(AllSteps) : d = a \o b /\ StepsIn(d) = {"purge", "awaitJobAbsent"}
      BY <3>a
    <3>b. StepsIn(d) = {"purge", "awaitJobAbsent"}
      BY <3>7
    <3>8. d \o c \in Seq(AllSteps) /\ StepsIn(d \o c) = {"purge", "awaitJobAbsent", "register", "name"}
      BY <3>6, <3>b, CatSteps
    <3>9. Restart(h) = d \o c
      BY <1>a, <2>3, <3>1, <3>2, <3>3, <3>7 DEF Restart, NomadRestart
    <3> QED
      BY <2>3, <3>8, <3>9 DEF Makes, Clears, MustDo
  <2>4. CASE kind = "static"
    <3>1. PICK a : a = <<"stop">>
      OBVIOUS
    <3>2. PICK b : b = StaticProvision
      OBVIOUS
    <3>3. a \in Seq(AllSteps) /\ StepsIn(a) = {"stop"}
      BY <3>1 DEF StepsIn, AllSteps, PlatformSteps, AdapterSteps
    <3>4. b \in Seq(AllSteps) /\ StepsIn(b) = {"dir", "spawn", "awaitReady"}
      BY <3>2 DEF StaticProvision, StepsIn, AllSteps, PlatformSteps, AdapterSteps
    <3>5. Restart(h) = a \o b
      BY <1>a, <2>4, <3>1, <3>2 DEF Restart, StaticRestart
    <3>6. a \o b \in Seq(AllSteps) /\ StepsIn(a \o b) = {"stop", "dir", "spawn", "awaitReady"}
      BY <3>3, <3>4, CatSteps
    <3> QED
      BY <2>4, <3>5, <3>6 DEF Makes, Clears, MustDo
  <2>5. CASE kind = "null"
    <3>1. Restart(h) = NullProvision
      BY <1>a, <2>5 DEF Restart
    <3>2. NullProvision \in Seq(AllSteps) /\ StepsIn(NullProvision) = {"put", "name"}
      BY DEF NullProvision, StepsIn, AllSteps, PlatformSteps, AdapterSteps
    <3> QED
      BY <2>5, <3>1, <3>2 DEF Makes, MustDo
  <2>6. CASE kind = "tunnel"
    <3>1. PICK a \in Seq(AllSteps) : a = <<"call">> /\ StepsIn(a) = {"call"}
      BY DockerSteps
    <3>2. PICK b \in Seq(AllSteps) : b = DockerRestart /\ StepsIn(b) = {"remove", "volume", "create", "start", "inspect"}
      BY RestartOfDocker
    <3>3. Restart(h) = a \o b
      BY <1>a, <2>6, <3>1, <3>2 DEF Restart, TunnelRestart
    <3>4. a \o b \in Seq(AllSteps) /\ StepsIn(a \o b) = {"call", "remove", "volume", "create", "start", "inspect"}
      BY <3>1, <3>2, CatSteps
    <3> QED
      BY <2>6, <3>3, <3>4 DEF Makes, Clears, Calls, MustDo
  <2> QED
    BY <2>1, <2>2, <2>3, <2>4, <2>5, <2>6, KindCases
<1> QED
  BY <1>0, <1>a

-----------------------------------------------------------------------------
(***************************************************************************)
(* How a step moves the programs.                                          *)
(***************************************************************************)

\* Program p goes on with s, under handle h and unit n; the other one stays.
Moves(p, s, h, n) ==
    /\ prog' \in [Slots -> Programs]
    /\ prog'[p].op = prog[p].op /\ prog'[p].token = prog[p].token
    /\ prog'[p].todo = s /\ prog'[p].handle = h /\ prog'[p].unit = n
    /\ \A q \in Slots \ {p} : prog'[q] = prog[q]

\* Program p is replaced by q.
Becomes(p, q) ==
    /\ prog' \in [Slots -> Programs]
    /\ prog'[p] = q
    /\ \A r \in Slots \ {p} : prog'[r] = prog[r]

LEMMA ProgTypes ==
  ASSUME ProvidersTypeOK, NEW p \in Slots
  PROVE  /\ prog \in [Slots -> Programs] /\ prog[p] \in Programs
         /\ prog[p].op \in Ops /\ prog[p].todo \in Seq(AllSteps) /\ prog[p].handle \in Handles
         /\ prog[p].token \in Tokens /\ prog[p].unit \in 0 .. MaxUnits /\ prog[p].tries \in 0 .. MaxTries
BY DEF ProvidersTypeOK, Programs, AllSteps

LEMMA NothingFits == Nothing \in Programs /\ Nothing.todo = <<>> /\ Nothing.op = "none" /\ Nothing.unit = 0 /\ Nothing.handle = NoHandle
BY ProvidersConstants DEF Nothing, Programs, Ops, Handles, Tokens, NoHandle, Named

LEMMA PutProgram ==
  ASSUME ProvidersTypeOK, NEW p \in Slots, NEW q \in Programs, prog' = [prog EXCEPT ![p] = q]
  PROVE  Becomes(p, q)
BY ProgTypes DEF Becomes

LEMMA PutTodo ==
  ASSUME ProvidersTypeOK, NEW p \in Slots, NEW s \in Seq(AllSteps),
         prog' = [prog EXCEPT ![p].todo = s]
  PROVE  Moves(p, s, prog[p].handle, prog[p].unit)
<1>1. PICK q : q = [prog[p] EXCEPT !.todo = s]
  OBVIOUS
<1>2. /\ q \in Programs /\ q.op = prog[p].op /\ q.token = prog[p].token
      /\ q.todo = s /\ q.handle = prog[p].handle /\ q.unit = prog[p].unit
  BY <1>1, ProgTypes DEF Programs, AllSteps
<1>3. prog' = [prog EXCEPT ![p] = q]
  BY <1>1, Zenon
<1> QED
  BY <1>2, <1>3, PutProgram DEF Moves, Becomes

LEMMA PutTodoUnit ==
  ASSUME ProvidersTypeOK, NEW p \in Slots, NEW s \in Seq(AllSteps), NEW n \in 0 .. MaxUnits,
         prog' = [prog EXCEPT ![p].unit = n, ![p].todo = s]
  PROVE  Moves(p, s, prog[p].handle, n)
<1>0. PICK r : r = [prog[p] EXCEPT !.unit = n]
  OBVIOUS
<1>1. PICK q : q = [r EXCEPT !.todo = s]
  OBVIOUS
<1>2. /\ q \in Programs /\ q.op = prog[p].op /\ q.token = prog[p].token
      /\ q.todo = s /\ q.handle = prog[p].handle /\ q.unit = n
  BY <1>0, <1>1, ProgTypes DEF Programs, AllSteps
<1>3. prog' = [prog EXCEPT ![p] = q]
  BY <1>0, <1>1, ProgTypes
<1> QED
  BY <1>2, <1>3, PutProgram DEF Moves, Becomes

LEMMA PutTodoHandle ==
  ASSUME ProvidersTypeOK, NEW p \in Slots, NEW s \in Seq(AllSteps), NEW h \in Handles,
         prog' = [prog EXCEPT ![p].handle = h, ![p].todo = s]
  PROVE  Moves(p, s, h, prog[p].unit)
<1>0. PICK r : r = [prog[p] EXCEPT !.handle = h]
  OBVIOUS
<1>1. PICK q : q = [r EXCEPT !.todo = s]
  OBVIOUS
<1>2. /\ q \in Programs /\ q.op = prog[p].op /\ q.token = prog[p].token
      /\ q.todo = s /\ q.handle = h /\ q.unit = prog[p].unit
  BY <1>0, <1>1, ProgTypes DEF Programs, AllSteps
<1>3. prog' = [prog EXCEPT ![p] = q]
  BY <1>0, <1>1, ProgTypes
<1> QED
  BY <1>2, <1>3, PutProgram DEF Moves, Becomes

LEMMA AdvanceMoves ==
  ASSUME ProvidersTypeOK, NEW p \in Slots, prog[p].todo # <<>>, Advance(p)
  PROVE  Moves(p, Tail(prog[p].todo), prog[p].handle, prog[p].unit)
<1>1. PICK s \in Seq(AllSteps) : s = Tail(prog[p].todo)
  BY ProgTypes, TailSteps
<1>2. prog' = [prog EXCEPT ![p].todo = s]
  BY <1>1 DEF Advance
<1> QED
  BY <1>1, <1>2, PutTodo

LEMMA FailedMoves ==
  ASSUME ProvidersTypeOK, NEW p \in Slots, Failed(p)
  PROVE  \/ (p = "stray" \/ prog[p].op = "terminate") /\ Becomes(p, Nothing)
         \/ p = "job" /\ prog[p].op # "terminate" /\ Moves(p, <<"fail">>, prog[p].handle, prog[p].unit)
<1>1. CASE p = "stray" \/ prog[p].op = "terminate"
  <2>1. prog' = [prog EXCEPT ![p] = Nothing]
    BY <1>1 DEF Failed
  <2> QED
    BY <1>1, <2>1, NothingFits, PutProgram
<1>2. CASE ~(p = "stray" \/ prog[p].op = "terminate")
  <2>0. <<"fail">> \in Seq(AllSteps)
    BY DEF AllSteps, PlatformSteps
  <2>1. PICK s \in Seq(AllSteps) : s = <<"fail">>
    BY <2>0
  <2>2. prog' = [prog EXCEPT ![p].todo = s]
    BY <1>2, <2>1 DEF Failed
  <2> QED
    BY <1>2, <2>1, <2>2, PutTodo DEF Slots
<1> QED
  BY <1>1, <1>2

\* Where a program is says whose it is.
LEMMA HeadFits ==
  ASSUME ProgInv, NEW x, At("job", x)
  PROVE  /\ prog["job"].todo # <<>> /\ prog["job"].todo \in Seq(AllSteps)
         /\ x = Head(prog["job"].todo) /\ x \in StepsIn(prog["job"].todo)
         /\ Fits(kind, prog["job"].op, x) /\ prog["job"].op # "none"
<1>1. /\ prog["job"].todo # <<>> /\ prog["job"].todo \in Seq(AllSteps)
      /\ x = Head(prog["job"].todo)
  BY ProgTypes DEF ProgInv, At, Slots
<1>2. x \in StepsIn(prog["job"].todo)
  BY <1>1, TailSteps
<1> QED
  BY <1>1, <1>2 DEF ProgInv, JobFits, Fits

LEMMA StrayHead ==
  ASSUME ProgInv, prog["stray"].todo # <<>>
  PROVE  kind = "tunnel"
BY NothingFits DEF ProgInv, StrayFits

ProgsFit == JobFits /\ StrayFits

LEMMA JobMoved ==
  ASSUME ProgInv, kind' = kind, NEW s, NEW h, NEW n, Moves("job", s, h, n), prog["job"].op # "none",
         \A x \in StepsIn(s) : Fits(kind, prog["job"].op, x), EndsClosed(s)
  PROVE  ProgsFit'
BY DEF ProgInv, ProgsFit, JobFits, StrayFits, Moves, Slots

LEMMA JobAdvances ==
  ASSUME ProgInv, kind' = kind, NEW h, NEW n, prog["job"].todo # <<>>,
         Moves("job", Tail(prog["job"].todo), h, n)
  PROVE  ProgsFit'
<1>1. PICK s \in Seq(AllSteps) : s = prog["job"].todo
  BY ProgTypes DEF ProgInv, Slots
<1>2. s # <<>> /\ EndsClosed(s) /\ \A x \in StepsIn(s) : Fits(kind, prog["job"].op, x)
  BY <1>1 DEF ProgInv, JobFits
<1>3. EndsClosed(Tail(s)) /\ \A x \in StepsIn(Tail(s)) : Fits(kind, prog["job"].op, x)
  BY <1>2, TailSteps, TailClosed
<1>4. prog["job"].op # "none"
  BY <1>1, <1>2, NothingFits DEF ProgInv, JobFits
<1> QED
  BY <1>1, <1>3, <1>4, JobMoved

LEMMA JobEnds ==
  ASSUME ProgInv, kind' = kind, Becomes("job", Nothing)
  PROVE  ProgsFit'
<1>1. StepsIn(<<>>) = {} /\ EndsClosed(<<>>)
  BY DEF StepsIn, EndsClosed
<1> QED
  BY <1>1, NothingFits DEF ProgInv, ProgsFit, JobFits, StrayFits, Becomes, Slots

LEMMA JobFails ==
  ASSUME ProgInv, kind' = kind, prog["job"].todo # <<>>, Failed("job")
  PROVE  ProgsFit' /\ prog' \in [Slots -> Programs]
<1>0. prog["job"].op \in Ops /\ prog["job"].op # "none"
  BY NothingFits, ProgTypes DEF ProgInv, JobFits, Slots
<1>1. CASE Becomes("job", Nothing)
  BY <1>1, JobEnds DEF Becomes
<1>2. CASE prog["job"].op # "terminate" /\ Moves("job", <<"fail">>, prog["job"].handle, prog["job"].unit)
  <2>1. Fits(kind, prog["job"].op, "fail")
    BY <1>0, <1>2 DEF Fits, Ops
  <2>2. PICK s : s = <<"fail">>
    OBVIOUS
  <2>3. EndsClosed(s) /\ \A x \in StepsIn(s) : x = "fail"
    BY <2>2, OneStep
  <2>4. Moves("job", s, prog["job"].handle, prog["job"].unit)
    BY <1>2, <2>2
  <2>5. ProgsFit'
    BY <1>0, <2>1, <2>3, <2>4, JobMoved
  <2> QED
    BY <1>2, <2>5 DEF Moves
<1> QED
  BY <1>1, <1>2, FailedMoves DEF ProgInv, Slots

LEMMA StrayMoved ==
  ASSUME ProgInv, kind' = kind, kind = "tunnel", prog'["job"] = prog["job"]
  PROVE  ProgsFit'
BY DEF ProgInv, ProgsFit, JobFits, StrayFits

\* Either program goes on or fails.
LEMMA SlotAdvances ==
  ASSUME ProgInv, kind' = kind, NEW p \in Slots, prog[p].todo # <<>>, NEW h, NEW n,
         Moves(p, Tail(prog[p].todo), h, n)
  PROVE  ProgsFit' /\ prog' \in [Slots -> Programs]
<1>1. CASE p = "job"
  BY <1>1, JobAdvances DEF Moves
<1>2. CASE p = "stray"
  BY <1>2, StrayHead, StrayMoved DEF Moves, Slots
<1> QED
  BY <1>1, <1>2 DEF Slots

LEMMA SlotGoesOn ==
  ASSUME ProgInv, kind' = kind, NEW p \in Slots, prog[p].todo # <<>>, Advance(p)
  PROVE  ProgsFit' /\ prog' \in [Slots -> Programs]
BY AdvanceMoves, SlotAdvances DEF ProgInv

LEMMA SlotFails ==
  ASSUME ProgInv, kind' = kind, NEW p \in Slots, prog[p].todo # <<>>, Failed(p)
  PROVE  ProgsFit' /\ prog' \in [Slots -> Programs]
<1>1. CASE p = "job"
  BY <1>1, JobFails
<1>2. CASE p = "stray"
  <2>1. Becomes(p, Nothing)
    BY <1>2, FailedMoves DEF ProgInv
  <2> QED
    BY <1>2, <2>1, StrayHead, StrayMoved DEF Becomes, Slots
<1> QED
  BY <1>1, <1>2 DEF Slots

-----------------------------------------------------------------------------
(***************************************************************************)
(* The types, and the programs' steps, action by action.                   *)
(***************************************************************************)

RowRecords == [state : RowStates, handle : Handles, token : Tokens]
Datas == {"none", "empty", "work"}
ProgsKept == ProgsFit /\ prog \in [Slots -> Programs]
WorldTypes == units \subseteq Units /\ kept \subseteq Objects /\ secret \in Tokens /\ data \in Datas

LEMMA TypesHere ==
  ASSUME ProgInv
  PROVE  /\ ProvidersTypeOK /\ WorldTypes /\ ProgsKept /\ row \in RowRecords
         /\ queue \subseteq {"provision", "restart", "terminate"} /\ faults \in 0 .. MaxFaults
         /\ row.state \in RowStates /\ row.handle \in Handles /\ row.token \in Tokens
BY DEF ProgInv, ProvidersTypeOK, WorldTypes, ProgsKept, ProgsFit, RowRecords, Datas

\* A step of an adapter, with a failure or without one.
LEMMA AdapterKeeps ==
  ASSUME ProgInv, UNCHANGED <<kind, serves, row, queue, agent>>,
         faults' = faults \/ (faults < MaxFaults /\ faults' = faults + 1),
         ProgsKept', WorldTypes'
  PROVE  ProgInv'
<1>1. faults' \in 0 .. MaxFaults
  <2>1. faults \in Nat /\ faults <= MaxFaults /\ MaxFaults \in Nat
    BY ProvidersConstants DEF ProgInv, ProvidersTypeOK
  <2> QED
    BY <2>1
<1> QED
  BY <1>1 DEF ProgInv, ProvidersTypeOK, ProgsKept, ProgsFit, WorldTypes, Datas

\* A step of the platform.
LEMMA ServiceKeeps ==
  ASSUME ProgInv, NoWorld, ProgsKept', row' \in RowRecords,
         queue' \subseteq {"provision", "restart", "terminate"}
  PROVE  ProgInv'
BY DEF ProgInv, ProvidersTypeOK, ProgsKept, ProgsFit, NoWorld, worldVars, RowRecords

LEMMA Advancing ==
  ASSUME ProgInv, kind' = kind, NEW p \in Slots, NEW x, At(p, x), Advance(p)
  PROVE  ProgsKept'
BY SlotGoesOn DEF At, ProgsKept

LEMMA Failing ==
  ASSUME ProgInv, kind' = kind, NEW p \in Slots, NEW x, At(p, x), Failed(p)
  PROVE  ProgsKept'
BY SlotFails DEF At, ProgsKept

LEMMA FreshUnit ==
  ASSUME ProgInv, FreeIds # {}, NEW p \in Slots, NEW ph \in Phases
  PROVE  /\ FreshId \in FreeIds /\ FreshId \in 1 .. MaxUnits /\ FreshId \in 0 .. MaxUnits
         /\ NewUnit(p, ph) \in Units /\ NewUnit(p, ph).id = FreshId /\ NewUnit(p, ph).phase = ph
         /\ NewUnit(p, ph).token = prog[p].token
<1>1. FreshId \in FreeIds
  BY DEF FreshId
<1>2. FreshId \in 1 .. MaxUnits
  BY <1>1 DEF FreeIds
<1>3. FreshId \in 0 .. MaxUnits
  BY <1>2, ProvidersConstants
<1>4. prog[p].token \in Tokens
  BY ProgTypes, TypesHere
<1> QED
  BY <1>1, <1>2, <1>3, <1>4 DEF NewUnit, Units

LEMMA PhaseSet ==
  ASSUME ProgInv, NEW u \in units, NEW ph \in Phases, SetPhase(u, ph)
  PROVE  units' \subseteq Units
BY TypesHere DEF WorldTypes, SetPhase, Units

LEMMA DeletingTyped ==
  ASSUME ProgInv
  PROVE  /\ Deleting \subseteq Units /\ \A u \in Deleting : u.phase = "deleting"
         /\ \A u \in Deleting : \E v \in units : v.phase \in {"running", "deleting"} /\ v.id = u.id /\ v.token = u.token
<1>1. units \subseteq Units
  BY TypesHere DEF WorldTypes
<1>2. ASSUME NEW u \in Deleting
      PROVE  /\ u \in Units /\ u.phase = "deleting"
             /\ \E v \in units : v.phase \in {"running", "deleting"} /\ v.id = u.id /\ v.token = u.token
  <2>1. PICK v \in units : v.phase \in {"running", "deleting"} /\ u = [v EXCEPT !.phase = "deleting"]
    BY DEF Deleting
  <2>2. v \in Units
    BY <1>1
  <2>3. u \in Units /\ u.phase = "deleting" /\ u.id = v.id /\ u.token = v.token
    BY <2>1, <2>2 DEF Units, Phases
  <2> QED
    BY <2>1, <2>3
<1> QED
  BY <1>2

LEMMA DockerKeeps ==
  ASSUME ProgInv, NEW p \in Slots, Docker(p)
  PROVE  ProgInv'
<1> USE DEF Quiet
<1>1. CASE VolumeCreate(p)
  <2>1. ProgsKept'
    BY <1>1, Advancing DEF VolumeCreate
  <2>2. WorldTypes'
    BY <1>1, TypesHere DEF VolumeCreate, With, Workspace, WorldTypes, Objects, Datas
  <2> QED
    BY <1>1, <2>1, <2>2, AdapterKeeps DEF VolumeCreate
<1>2. CASE ContainerCreate(p)
  <2>1. CASE units # {} /\ Failed(p) /\ UNCHANGED units
    <3>1. ProgsKept'
      BY <1>2, <2>1, Failing DEF ContainerCreate
    <3>2. WorldTypes'
      BY <1>2, <2>1, TypesHere DEF ContainerCreate, WorldTypes
    <3> QED
      BY <1>2, <3>1, <3>2, AdapterKeeps DEF ContainerCreate
  <2>2. CASE /\ units = {} /\ units' = units \cup {NewUnit(p, "created")}
             /\ prog' = [prog EXCEPT ![p].unit = FreshId, ![p].todo = Tail(@)]
    <3>0. FreeIds # {} /\ prog[p].todo # <<>>
      BY <1>2 DEF ContainerCreate, At
    <3>1. PICK s \in Seq(AllSteps) : s = Tail(prog[p].todo)
      BY <3>0, ProgTypes, TailSteps DEF ProgInv
    <3>2. PICK n \in 0 .. MaxUnits : n = FreshId
      BY <3>0, FreshUnit DEF Phases
    <3>3. prog' = [prog EXCEPT ![p].unit = n, ![p].todo = s]
      BY <2>2, <3>1, <3>2
    <3>4. Moves(p, Tail(prog[p].todo), prog[p].handle, n)
      BY <3>1, <3>3, PutTodoUnit DEF ProgInv
    <3>5. ProgsKept'
      BY <1>2, <3>0, <3>4, SlotAdvances DEF ContainerCreate, ProgsKept
    <3>6. WorldTypes'
      BY <1>2, <2>2, <3>0, TypesHere, FreshUnit DEF ContainerCreate, WorldTypes, Phases
    <3> QED
      BY <1>2, <3>5, <3>6, AdapterKeeps DEF ContainerCreate
  <2> QED
    BY <1>2, <2>1, <2>2 DEF ContainerCreate
<1>3. CASE ContainerStart(p)
  <2>0. prog[p].todo # <<>>
    BY <1>3 DEF ContainerStart, At
  <2>1. ProgsKept'
    BY <1>3, <2>0, SlotGoesOn, SlotFails DEF ContainerStart, ProgsKept
  <2>2. units' \subseteq Units
    BY <1>3, TypesHere, PhaseSet DEF ContainerStart, UnitOf, WorldTypes, Phases
  <2>3. WorldTypes'
    BY <1>3, <2>2, TypesHere DEF ContainerStart, WorldTypes
  <2> QED
    BY <1>3, <2>1, <2>3, AdapterKeeps DEF ContainerStart
<1>4. CASE ContainerInspect(p)
  <2>1. WorldTypes'
    BY <1>4, TypesHere DEF ContainerInspect, WorldTypes, worldVars
  <2>2. CASE Failed(p)
    <3>1. ProgsKept'
      BY <1>4, <2>2, Failing DEF ContainerInspect
    <3> QED
      BY <1>4, <2>1, <3>1, AdapterKeeps DEF ContainerInspect
  <2>3. CASE prog' = [prog EXCEPT ![p].handle = prog[p].unit, ![p].todo = Tail(@)]
    <3>0. prog[p].todo # <<>>
      BY <1>4 DEF ContainerInspect, At
    <3>1. PICK s \in Seq(AllSteps) : s = Tail(prog[p].todo)
      BY <3>0, ProgTypes, TailSteps DEF ProgInv
    <3>2. PICK h \in Handles : h = prog[p].unit
      BY ProvidersConstants, ProgTypes DEF ProgInv, Handles, Named
    <3>3. prog' = [prog EXCEPT ![p].handle = h, ![p].todo = s]
      BY <2>3, <3>1, <3>2
    <3>4. Moves(p, Tail(prog[p].todo), h, prog[p].unit)
      BY <3>1, <3>3, PutTodoHandle DEF ProgInv
    <3>5. ProgsKept'
      BY <1>4, <3>0, <3>4, SlotAdvances DEF ContainerInspect, ProgsKept
    <3> QED
      BY <1>4, <2>1, <3>5, AdapterKeeps DEF ContainerInspect
  <2> QED
    BY <1>4, <2>2, <2>3 DEF ContainerInspect
<1>5. CASE ContainerRemove(p)
  <2>1. ProgsKept'
    BY <1>5, Advancing DEF ContainerRemove
  <2>2. WorldTypes'
    BY <1>5, TypesHere DEF ContainerRemove, WorldTypes
  <2> QED
    BY <1>5, <2>1, <2>2, AdapterKeeps DEF ContainerRemove
<1>6. CASE VolumeRemove(p)
  <2>1. ProgsKept'
    BY <1>6, Advancing, Failing DEF VolumeRemove
  <2>2. WorldTypes'
    BY <1>6, TypesHere DEF VolumeRemove, WorldTypes, Without, Datas
  <2> QED
    BY <1>6, <2>1, <2>2, AdapterKeeps DEF VolumeRemove
<1> QED
  BY <1>1, <1>2, <1>3, <1>4, <1>5, <1>6 DEF Docker

\* A program gets further steps in front.
LEMMA JobPrefixed ==
  ASSUME ProgInv, kind' = kind, NEW a \in Seq(AllSteps), NEW t \in Seq(AllSteps), NEW h, NEW n,
         prog["job"].op # "none",
         \A x \in StepsIn(a) : Fits(kind, prog["job"].op, x) /\ x \notin Closing,
         \A x \in StepsIn(t) : Fits(kind, prog["job"].op, x), EndsClosed(t),
         Moves("job", a \o t, h, n)
  PROVE  ProgsKept'
<1>1. EndsClosed(a \o t) /\ \A x \in StepsIn(a \o t) : Fits(kind, prog["job"].op, x)
  BY CatSteps, CatClosed
<1>2. ProgsFit'
  BY <1>1, JobMoved
<1> QED
  BY <1>2 DEF ProgsKept, Moves

LEMMA MadeFits ==
  ASSUME NEW k, NEW op \in {"provision", "restart"}, NEW x, Makes(k, x) \/ Calls(k, x)
  PROVE  Fits(k, op, x) /\ x \notin Closing
BY DEF Fits, Makes, Calls, Closing

LEMMA RemovedFits ==
  ASSUME NEW k, NEW op \in {"terminate", "undo"}, NEW x, Removes(k, x) \/ Calls(k, x)
  PROVE  Fits(k, op, x) /\ x \notin Closing
BY DEF Fits, Removes, Calls, Closing

\* What is left of a program after its first step.
LEMMA RestOfJob ==
  ASSUME ProgInv, prog["job"].todo # <<>>
  PROVE  LET t == Tail(prog["job"].todo)
         IN  t \in Seq(AllSteps) /\ EndsClosed(t) /\ \A x \in StepsIn(t) : Fits(kind, prog["job"].op, x)
<1>1. PICK s \in Seq(AllSteps) : s = prog["job"].todo
  BY ProgTypes DEF ProgInv, Slots
<1>2. s # <<>> /\ EndsClosed(s) /\ \A x \in StepsIn(s) : Fits(kind, prog["job"].op, x)
  BY <1>1 DEF ProgInv, JobFits
<1>3. Tail(s) \in Seq(AllSteps) /\ EndsClosed(Tail(s)) /\ \A x \in StepsIn(Tail(s)) : Fits(kind, prog["job"].op, x)
  BY <1>2, TailSteps, TailClosed
<1> QED
  BY <1>1, <1>3

LEMMA PutTodoTries ==
  ASSUME ProvidersTypeOK, NEW p \in Slots, NEW s \in Seq(AllSteps), prog[p].tries < MaxTries,
         prog' = [prog EXCEPT ![p].tries = @ + 1, ![p].todo = s]
  PROVE  Moves(p, s, prog[p].handle, prog[p].unit)
<1>a. PICK k \in 0 .. MaxTries : k = prog[p].tries + 1
  <2>1. PICK t \in 0 .. MaxTries : t = prog[p].tries
    BY ProgTypes
  <2>2. t + 1 \in 0 .. MaxTries
    BY <2>1, ProvidersConstants
  <2> QED
    BY <2>1, <2>2
<1>0. PICK r : r = [prog[p] EXCEPT !.tries = k]
  OBVIOUS
<1>1. PICK q : q = [r EXCEPT !.todo = s]
  OBVIOUS
<1>2. /\ q \in Programs /\ q.op = prog[p].op /\ q.token = prog[p].token
      /\ q.todo = s /\ q.handle = prog[p].handle /\ q.unit = prog[p].unit
  BY <1>0, <1>1, ProgTypes DEF Programs, AllSteps
<1>b. prog' = [prog EXCEPT ![p].tries = k, ![p].todo = s]
  BY <1>a
<1>3. prog' = [prog EXCEPT ![p] = q]
  BY <1>b, <1>0, <1>1, ProgTypes
<1> QED
  BY <1>2, <1>3, PutProgram DEF Moves, Becomes

LEMMA PortTakenKeeps ==
  ASSUME ProgInv, NEW p \in Slots, PortTaken(p)
  PROVE  ProgInv'
<1>0. prog[p].todo # <<>> /\ kind' = kind /\ At(p, "start")
  BY DEF PortTaken, At
<1>1. WorldTypes'
  BY TypesHere DEF PortTaken, WorldTypes
<1>2. ProgsKept'
  <2>1. CASE Failed(p)
    BY <1>0, <2>1, Failing
  <2>2. CASE /\ prog[p].tries < MaxTries
             /\ prog' = [prog EXCEPT ![p].tries = @ + 1, ![p].todo = <<"volume", "create">> \o @]
    <3>1. PICK a : a = <<"volume", "create">>
      OBVIOUS
    <3>2. a \in Seq(AllSteps) /\ StepsIn(a) = {"volume", "create"}
      BY <3>1 DEF StepsIn, AllSteps, PlatformSteps, AdapterSteps
    <3>3. PICK t \in Seq(AllSteps) : t = prog[p].todo
      BY ProgTypes DEF ProgInv
    <3>4. PICK s \in Seq(AllSteps) : s = a \o t
      BY <3>2, <3>3, CatSteps
    <3>5. prog' = [prog EXCEPT ![p].tries = @ + 1, ![p].todo = s]
      BY <2>2, <3>1, <3>3, <3>4
    <3>6. Moves(p, s, prog[p].handle, prog[p].unit)
      BY <2>2, <3>5, PutTodoTries DEF ProgInv
    <3>7. CASE p = "stray"
      BY <1>0, <3>6, <3>7, StrayHead, StrayMoved DEF Moves, Slots, ProgsKept
    <3>8. CASE p = "job"
      <4>1. Fits(kind, prog["job"].op, "start") /\ prog["job"].op # "none"
        BY <1>0, <3>8, HeadFits
      <4>2. \A x \in StepsIn(a) : Fits(kind, prog["job"].op, x) /\ x \notin Closing
        BY <3>2, <4>1 DEF Fits, Makes, Removes, Clears, Calls, Closing
      <4>3. EndsClosed(t) /\ \A x \in StepsIn(t) : Fits(kind, prog["job"].op, x)
        BY <3>3, <3>8 DEF ProgInv, JobFits
      <4>4. Moves("job", a \o t, prog[p].handle, prog[p].unit)
        BY <3>4, <3>6, <3>8
      <4> QED
        BY <1>0, <3>2, <4>1, <4>2, <4>3, <4>4, JobPrefixed
    <3> QED
      BY <3>7, <3>8 DEF Slots
  <2> QED
    BY <2>1, <2>2 DEF PortTaken
<1> QED
  BY <1>1, <1>2, AdapterKeeps DEF PortTaken

LEMMA CallFailsKeeps ==
  ASSUME ProgInv, NEW p \in Slots, CallFails(p)
  PROVE  ProgInv'
<1>1. WorldTypes'
  BY TypesHere DEF CallFails, WorldTypes, worldVars
<1>2. ProgsKept'
  BY SlotGoesOn, SlotFails DEF CallFails, ProgsKept
<1> QED
  BY <1>1, <1>2, AdapterKeeps DEF CallFails

\* Adopt: the rest of the program follows what is still to be made.
LEMMA Adopting ==
  ASSUME ProgInv, kind' = kind, At("job", "adopt"), NEW a \in Seq(AllSteps), NEW h, NEW n,
         \A x \in StepsIn(a) : Makes(kind, x) \/ Calls(kind, x),
         Moves("job", a \o Tail(prog["job"].todo), h, n)
  PROVE  ProgsKept'
<1>1. prog["job"].op = "provision" /\ prog["job"].todo # <<>>
  BY HeadFits DEF Fits, Makes, Removes, Clears, Calls
<1>2. PICK t \in Seq(AllSteps) : t = Tail(prog["job"].todo)
  BY <1>1, RestOfJob
<1>3. EndsClosed(t) /\ \A x \in StepsIn(t) : Fits(kind, prog["job"].op, x)
  BY <1>1, <1>2, RestOfJob
<1>4. \A x \in StepsIn(a) : Fits(kind, prog["job"].op, x) /\ x \notin Closing
  BY <1>1, MadeFits
<1>5. Moves("job", a \o t, h, n)
  BY <1>2
<1> QED
  BY <1>1, <1>3, <1>4, <1>5, JobPrefixed

LEMMA NamedAdopts ==
  ASSUME ProgInv, kind' = kind, kind \in {"k8s", "nomad", "null"}, At("job", "adopt"), NEW c \in BOOLEAN,
         prog' = [prog EXCEPT !["job"].todo = (IF c THEN Provision ELSE <<"name">>) \o Tail(@)]
  PROVE  /\ ProgsKept'
         /\ \E s : Moves("job", s, prog["job"].handle, prog["job"].unit)
<1>1. PICK a : a = IF c THEN Provision ELSE <<"name">>
  OBVIOUS
<1>2. <<"name">> \in Seq(AllSteps) /\ StepsIn(<<"name">>) = {"name"}
  BY DEF StepsIn, AllSteps, AdapterSteps
<1>3. a \in Seq(AllSteps) /\ \A x \in StepsIn(a) : Makes(kind, x) \/ Calls(kind, x)
  <2>1. CASE c
    BY <1>1, <2>1, ProvisionSteps, TypesHere
  <2>2. CASE ~c
    BY <1>1, <1>2, <2>2 DEF Makes
  <2> QED
    BY <2>1, <2>2
<1>4. prog["job"].todo # <<>>
  BY DEF At
<1>5. PICK t \in Seq(AllSteps) : t = Tail(prog["job"].todo)
  BY <1>4, RestOfJob
<1>a. a \in Seq(AllSteps)
  BY <1>3
<1>6. PICK s \in Seq(AllSteps) : s = a \o t
  BY <1>a, CatSteps
<1>7. prog' = [prog EXCEPT !["job"].todo = s]
  BY <1>1, <1>5, <1>6
<1>8. Moves("job", s, prog["job"].handle, prog["job"].unit)
  BY <1>7, PutTodo, TypesHere DEF Slots
<1> QED
  BY <1>3, <1>5, <1>6, <1>8, Adopting

LEMMA DockerAdopts ==
  ASSUME ProgInv, DockerAdopt
  PROVE  /\ ProgsKept'
         /\ \E s, n : /\ Moves("job", s, prog["job"].handle, n)
                      /\ n = prog["job"].unit \/ \E u \in units : n = u.id
<1>0. prog["job"].todo # <<>> /\ kind = "docker" /\ kind' = kind /\ At("job", "adopt")
  BY DEF DockerAdopt, At, Quiet
<1>1. PICK t \in Seq(AllSteps) : t = Tail(prog["job"].todo)
  BY <1>0, RestOfJob
<1>2. CASE prog' = [prog EXCEPT !["job"].todo = Provision \o Tail(@)]
  <2>1. PICK a \in Seq(AllSteps) : a = Provision
    BY ProvisionSteps, TypesHere
  <2>2. \A x \in StepsIn(a) : Makes(kind, x) \/ Calls(kind, x)
    BY <2>1, ProvisionSteps, TypesHere
  <2>3. PICK s \in Seq(AllSteps) : s = a \o t
    BY <1>1, CatSteps
  <2>4. prog' = [prog EXCEPT !["job"].todo = s]
    BY <1>1, <1>2, <2>1, <2>3
  <2>5. Moves("job", s, prog["job"].handle, prog["job"].unit)
    BY <2>4, PutTodo, TypesHere DEF Slots
  <2> QED
    BY <1>0, <1>1, <2>2, <2>3, <2>5, Adopting
<1>3. ASSUME NEW u \in units,
             prog' = [prog EXCEPT !["job"].unit = u.id,
                                  !["job"].todo = (IF u.phase = "running" THEN <<"inspect">>
                                                   ELSE <<"adoptStart", "inspect">>) \o Tail(@)]
      PROVE  /\ ProgsKept'
             /\ \E s, n : /\ Moves("job", s, prog["job"].handle, n)
                          /\ n = prog["job"].unit \/ \E v \in units : n = v.id
  <2>1. PICK a : a = IF u.phase = "running" THEN <<"inspect">> ELSE <<"adoptStart", "inspect">>
    OBVIOUS
  <2>2. a \in Seq(AllSteps) /\ \A x \in StepsIn(a) : x \in {"inspect", "adoptStart"}
    <3>1. <<"inspect">> \in Seq(AllSteps) /\ StepsIn(<<"inspect">>) = {"inspect"}
      BY DEF StepsIn, AllSteps, AdapterSteps
    <3>2. /\ <<"adoptStart", "inspect">> \in Seq(AllSteps)
          /\ StepsIn(<<"adoptStart", "inspect">>) = {"adoptStart", "inspect"}
      BY DEF StepsIn, AllSteps, AdapterSteps
    <3>3. CASE u.phase = "running"
      BY <2>1, <3>1, <3>3
    <3>4. CASE u.phase # "running"
      BY <2>1, <3>2, <3>4
    <3> QED
      BY <3>3, <3>4
  <2>3. \A x \in StepsIn(a) : Makes(kind, x) \/ Calls(kind, x)
    BY <1>0, <2>2 DEF Makes
  <2>4. PICK s \in Seq(AllSteps) : s = a \o t
    BY <1>1, <2>2, CatSteps
  <2>5. PICK n \in 0 .. MaxUnits : n = u.id
    BY ProvidersConstants, TypesHere DEF WorldTypes, Units
  <2>6. prog' = [prog EXCEPT !["job"].unit = n, !["job"].todo = s]
    BY <1>1, <1>3, <2>1, <2>4, <2>5
  <2>7. Moves("job", s, prog["job"].handle, n)
    BY <2>6, PutTodoUnit, TypesHere DEF Slots
  <2> QED
    BY <1>0, <1>1, <2>2, <2>3, <2>4, <2>5, <2>7, Adopting
<1> QED
  BY <1>2, <1>3 DEF DockerAdopt

LEMMA K8sKeeps ==
  ASSUME ProgInv, K8s
  PROVE  ProgInv'
<1> USE DEF Quiet
<1>0. "job" \in Slots
  BY DEF Slots
<1>1. CASE K8sAdopt
  <2>1. ProgsKept'
    <3>1. PICK c \in BOOLEAN : c = (units = {})
      OBVIOUS
    <3>2. prog' = [prog EXCEPT !["job"].todo = (IF c THEN Provision ELSE <<"name">>) \o Tail(@)]
      BY <1>1, <3>1 DEF K8sAdopt
    <3> QED
      BY <1>1, <3>2, NamedAdopts DEF K8sAdopt
  <2>2. WorldTypes'
    BY <1>1, TypesHere DEF K8sAdopt, WorldTypes, worldVars
  <2> QED
    BY <1>1, <2>1, <2>2, AdapterKeeps DEF K8sAdopt
<1>2. CASE ApplySecret
  <2>1. ProgsKept'
    BY <1>0, <1>2, Advancing DEF ApplySecret
  <2>2. WorldTypes'
    <3>1. prog["job"].token \in Tokens
      BY <1>0, ProgTypes, TypesHere
    <3> QED
      BY <1>2, <3>1, TypesHere DEF ApplySecret, WorldTypes, With, Objects
  <2> QED
    BY <1>2, <2>1, <2>2, AdapterKeeps DEF ApplySecret
<1>3. CASE ApplyPod
  <2>1. ProgsKept'
    BY <1>0, <1>3, Advancing DEF ApplyPod
  <2>2. FreeIds # {} /\ "pending" \in Phases
    BY <1>3 DEF ApplyPod, Phases
  <2>3. NewUnit("job", "pending") \in Units
    BY <1>0, <2>2, FreshUnit
  <2>4. WorldTypes'
    BY <1>3, <2>3, TypesHere DEF ApplyPod, WorldTypes, Datas
  <2> QED
    BY <1>3, <2>1, <2>4, AdapterKeeps DEF ApplyPod
<1>4. CASE ApplyService
  <2>1. ProgsKept'
    BY <1>0, <1>4, Advancing, Failing DEF ApplyService
  <2>2. WorldTypes'
    BY <1>4, TypesHere DEF ApplyService, WorldTypes, With, Objects
  <2> QED
    BY <1>4, <2>1, <2>2, AdapterKeeps DEF ApplyService
<1>5. CASE DeletePod
  <2>1. ProgsKept'
    BY <1>0, <1>5, Advancing DEF DeletePod
  <2>2. WorldTypes'
    BY <1>5, TypesHere, DeletingTyped DEF DeletePod, WorldTypes, Datas
  <2> QED
    BY <1>5, <2>1, <2>2, AdapterKeeps DEF DeletePod
<1>6. CASE AwaitPodAbsent
  <2>1. ProgsKept'
    BY <1>0, <1>6, Advancing, Failing DEF AwaitPodAbsent
  <2>2. WorldTypes'
    BY <1>6, TypesHere DEF AwaitPodAbsent, WorldTypes, worldVars
  <2> QED
    BY <1>6, <2>1, <2>2, AdapterKeeps DEF AwaitPodAbsent
<1>7. ASSUME NEW x, NEW o, DeleteObject(x, o)
      PROVE  ProgInv'
  <2>1. ProgsKept'
    BY <1>0, <1>7, Advancing DEF DeleteObject
  <2>2. WorldTypes'
    BY <1>7, TypesHere DEF DeleteObject, WorldTypes, Without
  <2> QED
    BY <1>7, <2>1, <2>2, AdapterKeeps DEF DeleteObject
<1> QED
  BY <1>1, <1>2, <1>3, <1>4, <1>5, <1>6, <1>7 DEF K8s

LEMMA NomadKeeps ==
  ASSUME ProgInv, Nomad
  PROVE  ProgInv'
<1> USE DEF Quiet
<1>0. "job" \in Slots
  BY DEF Slots
<1>1. CASE NomadAdopt
  <2>1. ProgsKept'
    <3>1. PICK c \in BOOLEAN : c = ("job" \notin kept)
      OBVIOUS
    <3>2. prog' = [prog EXCEPT !["job"].todo = (IF c THEN Provision ELSE <<"name">>) \o Tail(@)]
      BY <1>1, <3>1 DEF NomadAdopt
    <3> QED
      BY <1>1, <3>2, NamedAdopts DEF NomadAdopt
  <2>2. WorldTypes'
    BY <1>1, TypesHere DEF NomadAdopt, WorldTypes, worldVars
  <2> QED
    BY <1>1, <2>1, <2>2, AdapterKeeps DEF NomadAdopt
<1>2. CASE Register
  <2>1. ProgsKept'
    BY <1>0, <1>2, Advancing DEF Register
  <2>2. CASE UNCHANGED <<units, data>>
    <3>1. WorldTypes'
      BY <1>2, <2>2, TypesHere DEF Register, WorldTypes, With, Objects
    <3> QED
      BY <1>2, <2>1, <3>1, AdapterKeeps DEF Register
  <2>3. CASE FreeIds # {} /\ units' = Deleting \cup {NewUnit("job", "pending")} /\ data' = "empty"
    <3>1. NewUnit("job", "pending") \in Units
      BY <1>0, <2>3, FreshUnit DEF Phases
    <3>2. WorldTypes'
      BY <1>2, <2>3, <3>1, TypesHere, DeletingTyped DEF Register, WorldTypes, With, Objects, Datas
    <3> QED
      BY <1>2, <2>1, <3>2, AdapterKeeps DEF Register
  <2> QED
    BY <1>2, <2>2, <2>3 DEF Register
<1>3. CASE Purge
  <2>1. ProgsKept'
    BY <1>0, <1>3, Advancing DEF Purge
  <2>2. WorldTypes'
    BY <1>3, TypesHere, DeletingTyped DEF Purge, WorldTypes, Without, Datas
  <2> QED
    BY <1>3, <2>1, <2>2, AdapterKeeps DEF Purge
<1>4. CASE AwaitJobAbsent
  <2>1. ProgsKept'
    BY <1>0, <1>4, Advancing, Failing DEF AwaitJobAbsent
  <2>2. WorldTypes'
    BY <1>4, TypesHere DEF AwaitJobAbsent, WorldTypes, worldVars
  <2> QED
    BY <1>4, <2>1, <2>2, AdapterKeeps DEF AwaitJobAbsent
<1> QED
  BY <1>1, <1>2, <1>3, <1>4 DEF Nomad

LEMMA StaticKeeps ==
  ASSUME ProgInv, Static
  PROVE  ProgInv'
<1> USE DEF Quiet
<1>0. "job" \in Slots
  BY DEF Slots
<1>1. CASE MakeDir
  <2>1. ProgsKept'
    BY <1>0, <1>1, Advancing DEF MakeDir
  <2>2. WorldTypes'
    BY <1>1, TypesHere DEF MakeDir, WorldTypes, With, Workspace, Objects, Datas
  <2> QED
    BY <1>1, <2>1, <2>2, AdapterKeeps DEF MakeDir
<1>2. CASE Spawn
  <2>0. FreeIds # {} /\ prog["job"].todo # <<>>
    BY <1>2 DEF Spawn, At
  <2>1. PICK s \in Seq(AllSteps) : s = Tail(prog["job"].todo)
    BY <2>0, RestOfJob
  <2>2. PICK n \in 0 .. MaxUnits : n = FreshId
    BY <1>0, <2>0, FreshUnit DEF Phases
  <2>3. prog' = [prog EXCEPT !["job"].unit = n, !["job"].todo = s]
    BY <1>2, <2>1, <2>2 DEF Spawn
  <2>4. Moves("job", Tail(prog["job"].todo), prog["job"].handle, n)
    BY <1>0, <2>1, <2>3, PutTodoUnit DEF ProgInv
  <2>5. ProgsKept'
    BY <1>0, <1>2, <2>0, <2>4, SlotAdvances DEF Spawn, ProgsKept
  <2>6. NewUnit("job", "running") \in Units
    BY <1>0, <2>0, FreshUnit DEF Phases
  <2>7. WorldTypes'
    BY <1>2, <2>6, TypesHere DEF Spawn, WorldTypes
  <2> QED
    BY <1>2, <2>5, <2>7, AdapterKeeps DEF Spawn
<1>3. CASE AwaitReady
  <2>1. WorldTypes'
    BY <1>3, TypesHere DEF AwaitReady, WorldTypes, worldVars
  <2>2. CASE Failed("job")
    <3>1. ProgsKept'
      BY <1>0, <1>3, <2>2, Failing DEF AwaitReady
    <3> QED
      BY <1>3, <2>1, <3>1, AdapterKeeps DEF AwaitReady
  <2>3. CASE prog' = [prog EXCEPT !["job"].handle = prog.job.unit, !["job"].todo = Tail(@)]
    <3>0. prog["job"].todo # <<>>
      BY <1>3 DEF AwaitReady, At
    <3>1. PICK s \in Seq(AllSteps) : s = Tail(prog["job"].todo)
      BY <3>0, RestOfJob
    <3>2. PICK h \in Handles : h = prog["job"].unit
      BY <1>0, ProvidersConstants, ProgTypes DEF ProgInv, Handles, Named
    <3>3. prog' = [prog EXCEPT !["job"].handle = h, !["job"].todo = s]
      BY <2>3, <3>1, <3>2
    <3>4. Moves("job", Tail(prog["job"].todo), h, prog["job"].unit)
      BY <1>0, <3>1, <3>3, PutTodoHandle DEF ProgInv
    <3>5. ProgsKept'
      BY <1>0, <1>3, <3>0, <3>4, SlotAdvances DEF AwaitReady, ProgsKept
    <3> QED
      BY <1>3, <2>1, <3>5, AdapterKeeps DEF AwaitReady
  <2> QED
    BY <1>3, <2>2, <2>3 DEF AwaitReady
<1>4. CASE StopProcess
  <2>1. ProgsKept'
    BY <1>0, <1>4, Advancing DEF StopProcess
  <2>2. WorldTypes'
    BY <1>4, TypesHere DEF StopProcess, WorldTypes
  <2> QED
    BY <1>4, <2>1, <2>2, AdapterKeeps DEF StopProcess
<1>5. CASE RemoveDir
  <2>1. ProgsKept'
    BY <1>0, <1>5, Advancing DEF RemoveDir
  <2>2. WorldTypes'
    BY <1>5, TypesHere DEF RemoveDir, WorldTypes, Without, Datas
  <2> QED
    BY <1>5, <2>1, <2>2, AdapterKeeps DEF RemoveDir
<1> QED
  BY <1>1, <1>2, <1>3, <1>4, <1>5 DEF Static

LEMMA NullKeeps ==
  ASSUME ProgInv, Null
  PROVE  ProgInv'
<1> USE DEF Quiet
<1>0. "job" \in Slots
  BY DEF Slots
<1>1. CASE NullAdopt
  <2>1. ProgsKept'
    <3>1. PICK c \in BOOLEAN : c = (units = {})
      OBVIOUS
    <3>2. prog' = [prog EXCEPT !["job"].todo = (IF c THEN Provision ELSE <<"name">>) \o Tail(@)]
      BY <1>1, <3>1 DEF NullAdopt
    <3> QED
      BY <1>1, <3>2, NamedAdopts DEF NullAdopt
  <2>2. WorldTypes'
    BY <1>1, TypesHere DEF NullAdopt, WorldTypes, worldVars
  <2> QED
    BY <1>1, <2>1, <2>2, AdapterKeeps DEF NullAdopt
<1>2. CASE Put
  <2>1. ProgsKept'
    BY <1>0, <1>2, Advancing DEF Put
  <2>2. PICK t \in Tokens : t = prog["job"].token
    BY <1>0, ProgTypes, TypesHere
  <2>3. 1 \in 1 .. MaxUnits
    BY ProvidersConstants
  <2>4. [id |-> 1, token |-> t, phase |-> "running"] \in Units
    BY <2>3 DEF Units, Phases
  <2>5. WorldTypes'
    BY <1>2, <2>2, <2>4, TypesHere DEF Put, WorldTypes
  <2> QED
    BY <1>2, <2>1, <2>5, AdapterKeeps DEF Put
<1>3. CASE Drop
  <2>1. ProgsKept'
    BY <1>0, <1>3, Advancing DEF Drop
  <2>2. WorldTypes'
    BY <1>3, TypesHere DEF Drop, WorldTypes
  <2> QED
    BY <1>3, <2>1, <2>2, AdapterKeeps DEF Drop
<1> QED
  BY <1>1, <1>2, <1>3 DEF Null

LEMMA NameTaken ==
  ASSUME ProgInv, TakeName
  PROVE  ProgInv' /\ Moves("job", Tail(prog["job"].todo), Named, prog["job"].unit)
<1>0. "job" \in Slots /\ prog["job"].todo # <<>>
  BY DEF Slots, TakeName, At
<1>1. PICK s \in Seq(AllSteps) : s = Tail(prog["job"].todo)
  BY <1>0, RestOfJob
<1>2. PICK h \in Handles : h = Named
  BY ProvidersConstants DEF Handles, Named
<1>3. prog' = [prog EXCEPT !["job"].handle = h, !["job"].todo = s]
  BY <1>1, <1>2 DEF TakeName
<1>4. Moves("job", Tail(prog["job"].todo), Named, prog["job"].unit)
  BY <1>0, <1>1, <1>2, <1>3, PutTodoHandle DEF ProgInv
<1>5. ProgsKept'
  BY <1>0, <1>4, SlotAdvances DEF TakeName, Quiet, ProgsKept
<1>6. WorldTypes'
  BY TypesHere DEF TakeName, WorldTypes, worldVars
<1> QED
  BY <1>4, <1>5, <1>6, AdapterKeeps DEF TakeName, Quiet

LEMMA RefuseKeeps ==
  ASSUME ProgInv, Refuse
  PROVE  ProgInv'
<1>1. ProgsKept'
  BY Failing DEF Refuse, Slots, Quiet
<1>2. WorldTypes'
  BY TypesHere DEF Refuse, WorldTypes, worldVars
<1> QED
  BY <1>1, <1>2, AdapterKeeps DEF Refuse, Quiet

LEMMA RemotePart ==
  ASSUME NEW s \in Seq(AllSteps)
  PROVE  SubSeq(s, 1, RemoteSteps(s)) \in Seq(AllSteps)
<1>1. PICK n : n = Len(s)
  OBVIOUS
<1>2. n \in Nat /\ DOMAIN s = 1 .. n
  BY <1>1
<1>3. IsFiniteSet(1 .. n) /\ Cardinality(1 .. n) = n
  BY <1>2, FS_Interval
<1>4. PICK R : R = {i \in DOMAIN s : Remote(s[i])}
  OBVIOUS
<1>5. IsFiniteSet(R) /\ Cardinality(R) <= n
  BY <1>2, <1>3, <1>4, FS_Subset
<1>6. PICK m : m = Cardinality(R)
  OBVIOUS
<1>7. m \in Nat /\ m <= n
  BY <1>5, <1>6, FS_CardinalityType
<1>8. RemoteSteps(s) = m
  BY <1>4, <1>6 DEF RemoteSteps
<1>9. SubSeq(s, 1, m) \in Seq(AllSteps)
  <2>1. \A i \in 1 .. m : i \in 1 .. n
    BY <1>2, <1>7
  <2>2. \A i \in 1 .. m : s[i] \in AllSteps
    BY <1>2, <2>1
  <2>3. SubSeq(s, 1, m) = [i \in 1 .. m |-> s[i]]
    BY <1>7
  <2> QED
    BY <1>7, <2>2, <2>3
<1> QED
  BY <1>8, <1>9

LEMMA LeftTyped ==
  ASSUME ProgInv
  PROVE  LeftBehind \in Programs /\ (kind # "tunnel" => LeftBehind = Nothing)
<1>1. PICK q \in Programs : q = prog["job"]
  BY ProgTypes, TypesHere DEF Slots
<1>2. PICK s \in Seq(AllSteps) : s = q.todo
  BY <1>1 DEF Programs, AllSteps
<1>3. PICK t \in Seq(AllSteps) : t = SubSeq(s, 1, RemoteSteps(s))
  BY RemotePart
<1>4. [q EXCEPT !.todo = t] \in Programs
  BY <1>1 DEF Programs, AllSteps
<1>5. prog["stray"] \in Programs
  BY ProgTypes, TypesHere DEF Slots
<1>6. LeftBehind = [q EXCEPT !.todo = t] \/ LeftBehind = prog["stray"]
  BY <1>1, <1>2, <1>3 DEF LeftBehind
<1>7. kind # "tunnel" => LeftBehind = Nothing
  BY DEF LeftBehind, ProgInv, StrayFits
<1> QED
  BY <1>4, <1>5, <1>6, <1>7

\* The last step of a program.
LEMMA LastStep ==
  ASSUME ProgInv, At("job", "call"),
         prog' = [prog EXCEPT !["job"].todo = <<@[Len(@)]>>], kind' = kind
  PROVE  /\ ProgsKept'
         /\ \E s : Moves("job", s, prog["job"].handle, prog["job"].unit)
<1>0. prog["job"].op # "none"
  BY HeadFits
<1>1. PICK s \in Seq(AllSteps) : s = prog["job"].todo
  BY ProgTypes, TypesHere DEF Slots
<1>2. s # <<>> /\ \A x \in StepsIn(s) : Fits(kind, prog["job"].op, x)
  BY <1>1 DEF ProgInv, JobFits, At
<1>3. PICK y : y = s[Len(s)]
  OBVIOUS
<1>4. y \in AllSteps /\ y \in StepsIn(s)
  <2>1. Len(s) \in DOMAIN s
    BY <1>2
  <2> QED
    BY <1>3, <2>1 DEF StepsIn
<1>a. <<y>> \in Seq(AllSteps)
  BY <1>4
<1>5. PICK t \in Seq(AllSteps) : t = <<y>>
  BY <1>a
<1>6. EndsClosed(t) /\ \A x \in StepsIn(t) : Fits(kind, prog["job"].op, x)
  BY <1>2, <1>4, <1>5, OneStep
<1>7. prog' = [prog EXCEPT !["job"].todo = t]
  BY <1>1, <1>3, <1>5
<1>8. Moves("job", t, prog["job"].handle, prog["job"].unit)
  BY <1>7, PutTodo, TypesHere DEF Slots
<1>9. ProgsFit'
  BY <1>0, <1>6, <1>8, JobMoved
<1> QED
  BY <1>8, <1>9 DEF ProgsKept, Moves

\* Both programs change: the job's ends or fails, and the agent keeps its part.
LEMMA BothMove ==
  ASSUME ProgInv, kind' = kind, NEW q \in Programs, NEW r \in Programs,
         prog' = [prog EXCEPT !["stray"] = r, !["job"] = q],
         kind # "tunnel" => r = Nothing,
         q = Nothing \/ (q.todo = <<"fail">> /\ q.op = prog["job"].op /\ q.op \in {"provision", "restart", "undo"})
  PROVE  ProgsKept' /\ prog'["job"] = q
<1>1. prog' \in [Slots -> Programs] /\ prog'["job"] = q /\ prog'["stray"] = r
  BY ProgTypes, TypesHere DEF Slots
<1>2. CASE q = Nothing
  <2>1. StepsIn(<<>>) = {} /\ EndsClosed(<<>>)
    BY DEF StepsIn, EndsClosed
  <2> QED
    BY <1>1, <1>2, <2>1, NothingFits DEF ProgsKept, ProgsFit, JobFits, StrayFits
<1>3. CASE q.todo = <<"fail">> /\ q.op = prog["job"].op /\ q.op \in {"provision", "restart", "undo"}
  <2>1. EndsClosed(q.todo) /\ \A x \in StepsIn(q.todo) : x = "fail"
    BY <1>3, OneStep
  <2>2. Fits(kind, q.op, "fail") /\ q.op # "none"
    BY <1>3 DEF Fits
  <2> QED
    BY <1>1, <2>1, <2>2 DEF ProgsKept, ProgsFit, JobFits, StrayFits
<1> QED
  BY <1>2, <1>3

LEMMA LostCall ==
  ASSUME ProgInv, CallLost
  PROVE  /\ ProgsKept'
         /\ IF prog["job"].op = "terminate" THEN prog'["job"] = Nothing
            ELSE prog'["job"] = [prog["job"] EXCEPT !.todo = <<"fail">>]
<1>0. prog["job"].todo # <<>> /\ kind = "tunnel" /\ kind' = kind
  BY DEF CallLost
<1>1. prog["job"].op \in Ops /\ prog["job"].op # "none" /\ prog["job"] \in Programs
  BY <1>0, NothingFits, ProgTypes DEF ProgInv, JobFits, Slots
<1>2. PICK r \in Programs : r = LeftBehind
  BY LeftTyped
<1>3. PICK q : q = IF prog["job"].op = "terminate" THEN Nothing
                   ELSE [prog["job"] EXCEPT !.todo = <<"fail">>]
  OBVIOUS
<1>4. /\ q \in Programs
      /\ q = Nothing \/ (q.todo = <<"fail">> /\ q.op = prog["job"].op /\ q.op \in {"provision", "restart", "undo"})
  <2>1. CASE prog["job"].op = "terminate"
    BY <1>3, <2>1, NothingFits
  <2>2. CASE prog["job"].op # "terminate"
    <3>1. <<"fail">> \in Seq(AllSteps)
      BY DEF AllSteps, PlatformSteps
    <3> QED
      BY <1>1, <1>3, <2>2, <3>1 DEF Programs, AllSteps, Ops
  <2> QED
    BY <2>1, <2>2
<1>5. prog' = [prog EXCEPT !["stray"] = r, !["job"] = q]
  <2>1. prog' = [prog EXCEPT !["stray"] = LeftBehind,
                             !["job"] = IF prog["job"].op = "terminate" THEN Nothing
                                        ELSE [prog["job"] EXCEPT !.todo = <<"fail">>]]
    BY DEF CallLost
  <2> QED
    BY <1>2, <1>3, <2>1
<1> QED
  BY <1>0, <1>2, <1>3, <1>4, <1>5, BothMove

LEMMA TunnelKeeps ==
  ASSUME ProgInv, Tunnel
  PROVE  ProgInv'
<1>0. "job" \in Slots /\ "stray" \in Slots
  BY DEF Slots
<1>1. CASE Call
  <2>1. ProgsKept'
    BY <1>0, <1>1, Advancing, Failing, LastStep DEF Call, Quiet
  <2>2. WorldTypes'
    BY <1>1, TypesHere DEF Call, WorldTypes, worldVars
  <2> QED
    BY <1>1, <2>1, <2>2, AdapterKeeps DEF Call, Quiet
<1>2. CASE CallLost
  <2>1. WorldTypes'
    BY <1>2, TypesHere DEF CallLost, WorldTypes, worldVars
  <2> QED
    BY <1>2, <2>1, LostCall, AdapterKeeps DEF CallLost
<1>3. CASE StrayEnds
  <2>1. Becomes("stray", Nothing)
    BY <1>0, <1>3, NothingFits, PutProgram, TypesHere DEF StrayEnds
  <2>2. kind = "tunnel"
    BY <1>3 DEF StrayEnds, ProgInv, StrayFits
  <2>3. ProgsKept'
    BY <1>3, <2>1, <2>2, StrayMoved DEF StrayEnds, Quiet, Becomes, Slots, ProgsKept
  <2>4. WorldTypes'
    BY <1>3, TypesHere DEF StrayEnds, WorldTypes, worldVars
  <2> QED
    BY <1>3, <2>3, <2>4, AdapterKeeps DEF StrayEnds, Quiet
<1>4. CASE AgentDown \/ AgentUp
  <2>1. agent \in [up : BOOLEAN, revoked : BOOLEAN]
    BY DEF ProgInv, ProvidersTypeOK
  <2>2. agent' \in [up : BOOLEAN, revoked : BOOLEAN]
    BY <1>4, <2>1 DEF AgentDown, AgentUp
  <2>3. faults' \in 0 .. MaxFaults
    <3>1. faults \in 0 .. MaxFaults /\ MaxFaults \in Nat
      BY ProvidersConstants, TypesHere
    <3> QED
      BY <1>4, <3>1 DEF AgentDown, AgentUp
  <2> QED
    BY <1>4, <2>2, <2>3 DEF AgentDown, AgentUp, ProgInv, ProvidersTypeOK, JobFits, StrayFits, worldVars
<1>5. ASSUME NEW b \in BOOLEAN, RevokeLease(b)
      PROVE  ProgInv'
  <2>0. kind = "tunnel" /\ kind' = kind
    BY <1>5 DEF RevokeLease
  <2>1. agent \in [up : BOOLEAN, revoked : BOOLEAN]
    BY DEF ProgInv, ProvidersTypeOK
  <2>2. agent' \in [up : BOOLEAN, revoked : BOOLEAN]
    BY <1>5, <2>1 DEF RevokeLease
  <2>3. faults' \in 0 .. MaxFaults
    <3>1. faults \in 0 .. MaxFaults /\ MaxFaults \in Nat
      BY ProvidersConstants, TypesHere
    <3> QED
      BY <1>5, <3>1 DEF RevokeLease
  <2>4. PICK q \in Programs : prog' = [prog EXCEPT !["stray"] = q]
    <3>1. PICK s \in Seq(AllSteps) : s = DockerTerminate
      BY DockerSteps
    <3>2. PICK h \in Handles : h = row.handle
      BY TypesHere
    <3>3. [Nothing EXCEPT !.todo = s, !.handle = h] \in Programs
      BY NothingFits DEF Programs, AllSteps
    <3>4. prog["stray"] \in Programs
      BY <1>0, ProgTypes, TypesHere
    <3> QED
      BY <1>5, <3>1, <3>2, <3>3, <3>4 DEF RevokeLease
  <2>5. Becomes("stray", q)
    BY <1>0, <2>4, PutProgram, TypesHere
  <2>6. ProgsKept'
    BY <2>0, <2>5, StrayMoved DEF Becomes, Slots, ProgsKept
  <2> QED
    BY <1>5, <2>2, <2>3, <2>6 DEF RevokeLease, ProgInv, ProvidersTypeOK, ProgsKept, ProgsFit, worldVars
<1> QED
  BY <1>1, <1>2, <1>3, <1>4, <1>5 DEF Tunnel

LEMMA ControlPlaneKeeps ==
  ASSUME ProgInv, ControlPlane
  PROVE  ProgInv'
<1>0. ASSUME UNCHANGED prog, kind' = kind
      PROVE  ProgsKept'
  BY <1>0 DEF ProgInv, ProvidersTypeOK, ProgsKept, ProgsFit, JobFits, StrayFits
<1>1. ASSUME NEW u \in units, UnitStarts(u)
      PROVE  ProgInv'
  <2>1. ProgsKept'
    BY <1>0, <1>1 DEF UnitStarts, Quiet
  <2>2. PICK t \in Tokens : t = IF kind = "k8s" THEN secret ELSE u.token
    BY TypesHere DEF WorldTypes, Units
  <2>3. PICK v : v = [u EXCEPT !.phase = "running", !.token = t]
    OBVIOUS
  <2>4. v \in Units
    BY <2>3, TypesHere DEF WorldTypes, Units, Phases
  <2>5. units' = (units \ {u}) \cup {v}
    BY <1>1, <2>2, <2>3 DEF UnitStarts
  <2>6. WorldTypes'
    BY <1>1, <2>4, <2>5, TypesHere DEF UnitStarts, WorldTypes
  <2> QED
    BY <1>1, <2>1, <2>6, AdapterKeeps DEF UnitStarts, Quiet
<1>2. ASSUME NEW u \in units, UnitGone(u)
      PROVE  ProgInv'
  <2>1. ProgsKept'
    BY <1>0, <1>2 DEF UnitGone, Quiet
  <2>2. WorldTypes'
    BY <1>2, TypesHere DEF UnitGone, WorldTypes, Datas
  <2> QED
    BY <1>2, <2>1, <2>2, AdapterKeeps DEF UnitGone, Quiet
<1>3. ASSUME NEW u \in units, UnitDies(u)
      PROVE  ProgInv'
  <2>1. ProgsKept'
    BY <1>0, <1>3 DEF UnitDies
  <2>2. units' \subseteq Units
    BY <1>3, PhaseSet, TypesHere DEF UnitDies, WorldTypes, Phases
  <2>3. WorldTypes'
    BY <1>3, <2>2, TypesHere DEF UnitDies, WorldTypes
  <2> QED
    BY <1>3, <2>1, <2>3, AdapterKeeps DEF UnitDies
<1>4. CASE Work
  <2>1. ProgsKept'
    BY <1>0, <1>4 DEF Work, Quiet
  <2>2. WorldTypes'
    BY <1>4, TypesHere DEF Work, WorldTypes, Datas
  <2> QED
    BY <1>4, <2>1, <2>2, AdapterKeeps DEF Work, Quiet
<1> QED
  BY <1>1, <1>2, <1>3, <1>4 DEF ControlPlane

\* A job begins.
Started(op, s, t) ==
    /\ prog' \in [Slots -> Programs]
    /\ prog'["job"].op = op /\ prog'["job"].todo = s /\ prog'["job"].token = t
    /\ prog'["job"].handle = row.handle /\ prog'["job"].unit = 0
    /\ prog'["stray"] = prog["stray"]

LEMMA RunStarts ==
  ASSUME ProgInv, NEW op \in Ops, NEW s \in Seq(AllSteps), NEW t \in Tokens, Run(op, s, t)
  PROVE  Started(op, s, t)
<1>1. PICK h \in Handles : h = row.handle
  BY TypesHere
<1>2. PICK q : q = [Nothing EXCEPT !.op = op, !.todo = s, !.handle = h, !.token = t]
  OBVIOUS
<1>3. q \in Programs /\ q.op = op /\ q.todo = s /\ q.handle = h /\ q.token = t /\ q.unit = 0
  BY <1>2, NothingFits DEF Programs, AllSteps
<1>4. prog' = [prog EXCEPT !["job"] = q]
  BY <1>1, <1>2, Zenon DEF Run
<1>5. Becomes("job", q)
  BY <1>3, <1>4, PutProgram, TypesHere DEF Slots
<1> QED
  BY <1>1, <1>3, <1>5 DEF Becomes, Started, Slots

LEMMA JobStarted ==
  ASSUME ProgInv, kind' = kind, NEW op \in Ops \ {"none"}, NEW s, NEW t, Started(op, s, t),
         EndsClosed(s), \A x \in StepsIn(s) : Fits(kind, op, x)
  PROVE  ProgsKept'
BY DEF ProgInv, Started, ProgsKept, ProgsFit, JobFits, StrayFits

LEMMA Closings ==
  /\ <<"setHandle", "await", "commit">> \in Seq(AllSteps)
  /\ StepsIn(<<"setHandle", "await", "commit">>) = {"setHandle", "await", "commit"}
  /\ EndsClosed(<<"setHandle", "await", "commit">>)
  /\ <<"await", "commit">> \in Seq(AllSteps) /\ StepsIn(<<"await", "commit">>) = {"await", "commit"}
  /\ EndsClosed(<<"await", "commit">>)
  /\ <<"terminated">> \in Seq(AllSteps) /\ StepsIn(<<"terminated">>) = {"terminated"}
  /\ EndsClosed(<<"terminated">>)
  /\ <<"fail">> \in Seq(AllSteps) /\ StepsIn(<<"fail">>) = {"fail"} /\ EndsClosed(<<"fail">>)
  /\ <<>> \in Seq(AllSteps) /\ StepsIn(<<>>) = {}
  /\ <<"adopt">> \in Seq(AllSteps) /\ StepsIn(<<"adopt">>) = {"adopt"}
<1>1. EndsClosed(<<"setHandle", "await", "commit">>)
  BY DEF EndsClosed, Closing
<1>2. EndsClosed(<<"await", "commit">>)
  BY DEF EndsClosed, Closing
<1> QED
  BY <1>1, <1>2 DEF StepsIn, EndsClosed, AllSteps, PlatformSteps, AdapterSteps

LEMMA TokenStep ==
  ASSUME ProgInv, row.token < MaxTokens
  PROVE  row.token + 1 \in Tokens
<1>1. PICK t \in 0 .. MaxTokens : t = row.token
  BY TypesHere DEF Tokens
<1>2. t + 1 \in 0 .. MaxTokens
  BY <1>1, ProvidersConstants
<1> QED
  BY <1>1, <1>2 DEF Tokens

LEMMA RowStateSet ==
  ASSUME ProgInv, NEW st \in RowStates, row' = [row EXCEPT !.state = st]
  PROVE  row' \in RowRecords /\ row'.state = st /\ row'.handle = row.handle /\ row'.token = row.token
BY TypesHere DEF RowRecords

LEMMA RowTokenSet ==
  ASSUME ProgInv, NEW t \in Tokens, row' = [row EXCEPT !.token = t]
  PROVE  row' \in RowRecords /\ row'.token = t /\ row'.handle = row.handle /\ row'.state = row.state
BY TypesHere DEF RowRecords

LEMMA RowHandleSet ==
  ASSUME ProgInv, NEW h \in Handles, row' = [row EXCEPT !.handle = h]
  PROVE  row' \in RowRecords /\ row'.handle = h /\ row'.token = row.token /\ row'.state = row.state
BY TypesHere DEF RowRecords

LEMMA RowBothSet ==
  ASSUME ProgInv, NEW st \in RowStates, NEW h \in Handles,
         row' = [row EXCEPT !.state = st, !.handle = h]
  PROVE  row' \in RowRecords /\ row'.state = st /\ row'.handle = h /\ row'.token = row.token
BY TypesHere DEF RowRecords

\* What the jobs' steps do to the resource.
LEMMA RowMoves ==
  ASSUME ProgInv
  PROVE  /\ BeginProvision => \/ row.state \in Over \cup {"ready"} /\ row' = row
                              \/ row' \in RowRecords /\ row'.state = "provisioning" /\ row'.handle = row.handle
                                 /\ row'.token = row.token
         /\ BeginRestart => \/ row.state \in Over /\ row' = row
                            \/ row' \in RowRecords /\ row'.state = row.state /\ row'.handle = row.handle
                               /\ row'.token = row.token + 1
         /\ SetHandle => row' \in RowRecords /\ row'.state = row.state /\ row'.token = row.token
                         /\ row'.handle = prog["job"].handle
         /\ Commit => \/ row' = row
                      \/ row' \in RowRecords /\ row'.state = "ready" /\ row'.handle = prog["job"].handle
                         /\ row'.token = row.token
         /\ Fail => row' \in RowRecords /\ row'.state = "failed" /\ row'.handle = row.handle /\ row'.token = row.token
         /\ Terminated => row' \in RowRecords /\ row'.state = "terminated" /\ row'.handle = row.handle
                          /\ row'.token = row.token
<1>0. {"provisioning", "ready", "failed", "terminated"} \subseteq RowStates
  BY DEF RowStates
<1>h. prog["job"].handle \in Handles
  BY TypesHere, ProgTypes DEF Slots
<1>1. ASSUME BeginProvision, row.state \notin Over \cup {"ready"}
      PROVE  row' \in RowRecords /\ row'.state = "provisioning" /\ row'.handle = row.handle /\ row'.token = row.token
  BY <1>0, <1>1, RowStateSet DEF BeginProvision
<1>2. ASSUME BeginRestart, row.state \notin Over
      PROVE  row' \in RowRecords /\ row'.state = row.state /\ row'.handle = row.handle /\ row'.token = row.token + 1
  <2>1. PICK t \in Tokens : t = row.token + 1
    BY <1>2, TokenStep DEF BeginRestart
  <2>2. row' = [row EXCEPT !.token = t]
    BY <1>2, <2>1 DEF BeginRestart
  <2> QED
    BY <2>1, <2>2, RowTokenSet
<1>3. ASSUME SetHandle
      PROVE  row' \in RowRecords /\ row'.state = row.state /\ row'.token = row.token
             /\ row'.handle = prog["job"].handle
  <2>1. PICK h \in Handles : h = prog["job"].handle
    BY <1>h
  <2>2. row' = [row EXCEPT !.handle = h]
    BY <1>3, <2>1 DEF SetHandle
  <2> QED
    BY <2>1, <2>2, RowHandleSet
<1>4. ASSUME Commit, row' # row
      PROVE  row' \in RowRecords /\ row'.state = "ready" /\ row'.handle = prog["job"].handle
             /\ row'.token = row.token
  <2>1. PICK h \in Handles : h = prog["job"].handle
    BY <1>h
  <2>2. PICK st \in RowStates : st = "ready"
    BY <1>0
  <2>3. row' = [row EXCEPT !.state = st, !.handle = h]
    BY <1>4, <2>1, <2>2 DEF Commit
  <2> QED
    BY <2>1, <2>2, <2>3, RowBothSet
<1>5. ASSUME Fail
      PROVE  row' \in RowRecords /\ row'.state = "failed" /\ row'.handle = row.handle /\ row'.token = row.token
  BY <1>0, <1>5, RowStateSet DEF Fail
<1>6. ASSUME Terminated
      PROVE  row' \in RowRecords /\ row'.state = "terminated" /\ row'.handle = row.handle /\ row'.token = row.token
  BY <1>0, <1>6, RowStateSet DEF Terminated
<1>7. BeginProvision /\ row.state \in Over \cup {"ready"} => row' = row
  BY DEF BeginProvision
<1>8. BeginRestart /\ row.state \in Over => row' = row
  BY DEF BeginRestart
<1> QED
  BY <1>1, <1>2, <1>3, <1>4, <1>5, <1>6, <1>7, <1>8

\* The programs the jobs begin with.
LEMMA ProvisionBegins ==
  ASSUME ProgInv, BeginProvision, row.state \notin Over \cup {"ready"}
  PROVE  \E s : /\ Started("provision", s, row.token) /\ EndsClosed(s)
                /\ \A x \in StepsIn(s) : Fits(kind, "provision", x)
<1>1. PICK a : a = CASE row.handle # NoHandle -> <<>>
                     [] row.handle = NoHandle /\ kind \in Adopters -> <<"adopt">>
                     [] OTHER -> Provision
  OBVIOUS
<1>2. /\ a \in Seq(AllSteps)
      /\ \A x \in StepsIn(a) : Makes(kind, x) \/ Calls(kind, x) \/ x = "adopt"
  <2>1. a = <<>> \/ a = <<"adopt">> \/ a = Provision
    BY <1>1
  <2>2. CASE a = <<>>
    BY <2>2, Closings
  <2>3. CASE a = <<"adopt">>
    BY <2>3, Closings
  <2>4. CASE a = Provision
    BY <2>4, ProvisionSteps, TypesHere
  <2> QED
    BY <2>1, <2>2, <2>3, <2>4
<1>3. PICK b \in Seq(AllSteps) : b = <<"setHandle", "await", "commit">>
  BY Closings
<1>4. EndsClosed(b) /\ \A x \in StepsIn(b) : Fits(kind, "provision", x)
  <2>1. StepsIn(b) = {"setHandle", "await", "commit"} /\ EndsClosed(b)
    BY <1>3, Closings
  <2> QED
    BY <2>1 DEF Fits
<1>5. \A x \in StepsIn(a) : Fits(kind, "provision", x) /\ x \notin Closing
  BY <1>2 DEF Fits, Makes, Calls, Closing
<1>6. a \in Seq(AllSteps)
  BY <1>2
<1>7. PICK s \in Seq(AllSteps) : s = a \o b
  BY <1>6, CatSteps
<1>8. EndsClosed(s) /\ \A x \in StepsIn(s) : Fits(kind, "provision", x)
  BY <1>4, <1>5, <1>6, <1>7, CatSteps, CatClosed
<1>9. Run("provision", s, row.token)
  BY <1>1, <1>3, <1>7 DEF BeginProvision
<1>10. Started("provision", s, row.token)
  BY <1>9, RunStarts, TypesHere DEF Ops
<1> QED
  BY <1>8, <1>10

LEMMA RestartBegins ==
  ASSUME ProgInv, BeginRestart, row.state \notin Over
  PROVE  \E s : /\ Started("restart", s, row.token + 1) /\ EndsClosed(s)
                /\ \A x \in StepsIn(s) : Fits(kind, "restart", x)
                /\ "refuse" \in StepsIn(s) \/ \A x : MustDo(kind, x) => x \in StepsIn(s)
                /\ s = Restart(row.handle) \o <<"await", "commit">>
<1>1. PICK a \in Seq(AllSteps) : a = Restart(row.handle)
  BY RestartSteps, TypesHere
<1>2. /\ \A x \in StepsIn(a) : Makes(kind, x) \/ Clears(kind, x) \/ Calls(kind, x) \/ x = "refuse"
      /\ "refuse" \in StepsIn(a) \/ \A x : MustDo(kind, x) => x \in StepsIn(a)
  BY <1>1, RestartSteps, TypesHere
<1>3. PICK b \in Seq(AllSteps) : b = <<"await", "commit">>
  BY Closings
<1>4. EndsClosed(b) /\ \A x \in StepsIn(b) : Fits(kind, "restart", x)
  <2>1. StepsIn(b) = {"await", "commit"} /\ EndsClosed(b)
    BY <1>3, Closings
  <2> QED
    BY <2>1 DEF Fits
<1>5. \A x \in StepsIn(a) : Fits(kind, "restart", x) /\ x \notin Closing
  BY <1>2 DEF Fits, Makes, Clears, Calls, Closing
<1>6. PICK s \in Seq(AllSteps) : s = a \o b
  BY CatSteps
<1>7. EndsClosed(s) /\ \A x \in StepsIn(s) : Fits(kind, "restart", x)
  BY <1>4, <1>5, <1>6, CatSteps, CatClosed
<1>8. "refuse" \in StepsIn(s) \/ \A x : MustDo(kind, x) => x \in StepsIn(s)
  BY <1>2, <1>6, CatSteps
<1>9. Run("restart", s, row.token + 1)
  BY <1>1, <1>3, <1>6 DEF BeginRestart
<1>10. row.token + 1 \in Tokens
  BY TokenStep DEF BeginRestart
<1>11. Started("restart", s, row.token + 1)
  BY <1>9, <1>10, RunStarts DEF Ops
<1>12. s = Restart(row.handle) \o <<"await", "commit">>
  BY <1>1, <1>3, <1>6
<1> QED
  BY <1>7, <1>8, <1>11, <1>12

LEMMA TerminateBegins ==
  ASSUME ProgInv, BeginTerminate, row.state # "terminated"
  PROVE  \E s : /\ Started("terminate", s, row.token) /\ EndsClosed(s)
                /\ \A x \in StepsIn(s) : Fits(kind, "terminate", x)
                /\ row.handle # NoHandle => \A x : Removes(kind, x) => x \in StepsIn(s)
<1>1. PICK a : a = IF row.handle = NoHandle THEN <<>> ELSE Terminate
  OBVIOUS
<1>2. /\ a \in Seq(AllSteps) /\ \A x \in StepsIn(a) : Removes(kind, x) \/ Calls(kind, x)
      /\ row.handle # NoHandle => \A x : Removes(kind, x) => x \in StepsIn(a)
  <2>1. CASE row.handle = NoHandle
    BY <1>1, <2>1, Closings
  <2>2. CASE row.handle # NoHandle
    BY <1>1, <2>2, TerminateSteps, TypesHere
  <2> QED
    BY <2>1, <2>2
<1>3. PICK b \in Seq(AllSteps) : b = <<"terminated">>
  BY Closings
<1>4. EndsClosed(b) /\ \A x \in StepsIn(b) : Fits(kind, "terminate", x)
  <2>1. StepsIn(b) = {"terminated"} /\ EndsClosed(b)
    BY <1>3, Closings
  <2> QED
    BY <2>1 DEF Fits
<1>5. \A x \in StepsIn(a) : Fits(kind, "terminate", x) /\ x \notin Closing
  BY <1>2, RemovedFits
<1>6. a \in Seq(AllSteps)
  BY <1>2
<1>7. PICK s \in Seq(AllSteps) : s = a \o b
  BY <1>6, CatSteps
<1>8. EndsClosed(s) /\ \A x \in StepsIn(s) : Fits(kind, "terminate", x)
  BY <1>4, <1>5, <1>6, <1>7, CatSteps, CatClosed
<1>9. row.handle # NoHandle => \A x : Removes(kind, x) => x \in StepsIn(s)
  BY <1>2, <1>6, <1>7, CatSteps
<1>10. Run("terminate", s, row.token)
  BY <1>1, <1>3, <1>7 DEF BeginTerminate
<1>11. Started("terminate", s, row.token)
  BY <1>10, RunStarts, TypesHere DEF Ops
<1> QED
  BY <1>8, <1>9, <1>11

\* awaitHealthy gave up.
LEMMA UndoBegins ==
  ASSUME ProgInv, kind' = kind,
         prog' = [prog EXCEPT !["job"].op = "undo", !["job"].todo = Terminate \o <<"fail">>]
  PROVE  ProgsKept' /\ prog'["job"].op = "undo" /\ prog'["job"].token = prog["job"].token
<1>1. PICK a \in Seq(AllSteps) : a = Terminate
  BY TerminateSteps, TypesHere
<1>2. PICK b \in Seq(AllSteps) : b = <<"fail">>
  BY Closings
<1>3. StepsIn(b) = {"fail"} /\ EndsClosed(b)
  BY <1>2, Closings
<1>4. \A x \in StepsIn(a) : Fits(kind, "undo", x) /\ x \notin Closing
  BY <1>1, TerminateSteps, TypesHere, RemovedFits
<1>5. PICK s \in Seq(AllSteps) : s = a \o b
  BY CatSteps
<1>6. EndsClosed(s) /\ \A x \in StepsIn(s) : Fits(kind, "undo", x)
  BY <1>3, <1>4, <1>5, CatSteps, CatClosed DEF Fits
<1>7. PICK o \in Ops : o = "undo"
  BY DEF Ops
<1>8. PICK r : r = [prog["job"] EXCEPT !.op = o]
  OBVIOUS
<1>9. PICK q : q = [r EXCEPT !.todo = s]
  OBVIOUS
<1>10. q \in Programs /\ q.op = o /\ q.todo = s /\ q.token = prog["job"].token
  BY <1>8, <1>9, ProgTypes, TypesHere DEF Programs, AllSteps, Slots
<1>11. prog' = [prog EXCEPT !["job"] = q]
  <2>1. prog' = [prog EXCEPT !["job"].op = o, !["job"].todo = s]
    BY <1>1, <1>2, <1>5, <1>7
  <2> QED
    BY <2>1, <1>8, <1>9, ProgTypes, TypesHere DEF Slots
<1>12. Becomes("job", q)
  BY <1>10, <1>11, PutProgram, TypesHere DEF Slots
<1>13. prog'["job"] = q /\ prog'["stray"] = prog["stray"] /\ prog' \in [Slots -> Programs]
  BY <1>12 DEF Becomes, Slots
<1>14. q.op = "undo"
  BY <1>7, <1>10
<1>15. JobFits'
  BY <1>6, <1>10, <1>13, <1>14 DEF JobFits
<1>16. StrayFits'
  BY <1>13 DEF ProgInv, StrayFits
<1> QED
  BY <1>10, <1>13, <1>14, <1>15, <1>16 DEF ProgsKept, ProgsFit

LEMMA ServiceStep ==
  ASSUME ProgInv, Service
  PROVE  ProgInv'
<1>0. "job" \in Slots /\ ProvidersTypeOK /\ row \in RowRecords
      /\ queue \subseteq {"provision", "restart", "terminate"}
  BY TypesHere DEF Slots
<1>a. ASSUME UNCHANGED prog, kind' = kind
      PROVE  ProgsKept'
  BY <1>a DEF ProgInv, ProvidersTypeOK, ProgsKept, ProgsFit, JobFits, StrayFits
<1>b. ASSUME prog' = [prog EXCEPT !["job"] = Nothing], kind' = kind
      PROVE  ProgsKept'
  BY <1>0, <1>b, NothingFits, PutProgram, JobEnds DEF ProgsKept, Becomes
<1>1. CASE BeginProvision
  <2>1. row' \in RowRecords /\ queue' \subseteq {"provision", "restart", "terminate"}
    BY <1>0, <1>1, RowMoves DEF BeginProvision, Ack
  <2>2. ProgsKept'
    <3>1. CASE row.state \in Over \cup {"ready"}
      BY <1>1, <1>a, <3>1 DEF BeginProvision, NoWorld
    <3>2. CASE row.state \notin Over \cup {"ready"}
      BY <1>1, <3>2, ProvisionBegins, JobStarted DEF BeginProvision, NoWorld, Ops
    <3> QED
      BY <3>1, <3>2
  <2> QED
    BY <1>1, <2>1, <2>2, ServiceKeeps DEF BeginProvision
<1>2. CASE BeginRestart
  <2>1. row' \in RowRecords /\ queue' \subseteq {"provision", "restart", "terminate"}
    BY <1>0, <1>2, RowMoves DEF BeginRestart, Ack
  <2>2. ProgsKept'
    <3>1. CASE row.state \in Over
      BY <1>2, <1>a, <3>1 DEF BeginRestart, NoWorld
    <3>2. CASE row.state \notin Over
      BY <1>2, <3>2, RestartBegins, JobStarted DEF BeginRestart, NoWorld, Ops
    <3> QED
      BY <3>1, <3>2
  <2> QED
    BY <1>2, <2>1, <2>2, ServiceKeeps DEF BeginRestart
<1>3. CASE BeginTerminate
  <2>1. row' \in RowRecords /\ queue' \subseteq {"provision", "restart", "terminate"}
    BY <1>0, <1>3 DEF BeginTerminate, Ack
  <2>2. ProgsKept'
    <3>1. CASE row.state = "terminated"
      BY <1>3, <1>a, <3>1 DEF BeginTerminate, NoWorld
    <3>2. CASE row.state # "terminated"
      BY <1>3, <3>2, TerminateBegins, JobStarted DEF BeginTerminate, NoWorld, Ops
    <3> QED
      BY <3>1, <3>2
  <2> QED
    BY <1>3, <2>1, <2>2, ServiceKeeps DEF BeginTerminate
<1>4. CASE SetHandle
  <2>1. row' \in RowRecords
    BY <1>4, RowMoves
  <2>2. ProgsKept'
    BY <1>0, <1>4, Advancing DEF SetHandle, NoWorld
  <2> QED
    BY <1>0, <1>4, <2>1, <2>2, ServiceKeeps DEF SetHandle
<1>5. CASE Await
  <2>1. ProgsKept'
    BY <1>0, <1>5, Advancing, UndoBegins DEF Await, NoWorld
  <2> QED
    BY <1>0, <1>5, <2>1, ServiceKeeps DEF Await
<1>6. CASE Commit
  <2>1. row' \in RowRecords
    BY <1>0, <1>6, RowMoves
  <2>2. ProgsKept'
    BY <1>6, <1>b DEF Commit, NoWorld
  <2>3. queue' \subseteq {"provision", "restart", "terminate"}
    BY <1>0, <1>6 DEF Commit, Ack
  <2> QED
    BY <1>6, <2>1, <2>2, <2>3, ServiceKeeps DEF Commit
<1>7. CASE Fail
  <2>1. row' \in RowRecords /\ queue' \subseteq {"provision", "restart", "terminate"}
    BY <1>0, <1>7, RowMoves DEF Fail
  <2>2. ProgsKept'
    BY <1>7, <1>b DEF Fail, NoWorld
  <2> QED
    BY <1>7, <2>1, <2>2, ServiceKeeps DEF Fail
<1>8. CASE Terminated
  <2>1. row' \in RowRecords /\ queue' \subseteq {"provision", "restart", "terminate"}
    BY <1>0, <1>8, RowMoves DEF Terminated, Ack
  <2>2. ProgsKept'
    BY <1>8, <1>b DEF Terminated, NoWorld
  <2> QED
    BY <1>8, <2>1, <2>2, ServiceKeeps DEF Terminated
<1> QED
  BY <1>1, <1>2, <1>3, <1>4, <1>5, <1>6, <1>7, <1>8 DEF Service


LEMMA DockerAdoptKeeps ==
  ASSUME ProgInv, DockerAdopt
  PROVE  ProgInv'
<1>1. ProgsKept'
  BY DockerAdopts
<1>2. WorldTypes'
  BY TypesHere DEF DockerAdopt, WorldTypes, worldVars
<1> QED
  BY <1>1, <1>2, AdapterKeeps DEF DockerAdopt, Quiet

LEMMA AdaptersKeep ==
  ASSUME ProgInv, Adapters
  PROVE  ProgInv'
BY DockerKeeps, PortTakenKeeps, CallFailsKeeps, DockerAdoptKeeps, K8sKeeps, NomadKeeps, StaticKeeps,
   NullKeeps, NameTaken, RefuseKeeps DEF Adapters

\* What a request and the reconciler do to the resource.
LEMMA RowRequests ==
  ASSUME ProgInv
  PROVE  /\ RequestRestart => row' \in RowRecords /\ row'.state = "provisioning" /\ row'.handle = row.handle
                              /\ row'.token = row.token
         /\ RequestTerminate => row' \in RowRecords /\ row'.state = "terminating" /\ row'.handle = row.handle
                                /\ row'.token = row.token
         /\ Reconcile => row' \in RowRecords /\ row'.state \in {"ready", "suspended", "failed"}
                         /\ row'.handle = row.handle /\ row'.token = row.token
                         /\ (row'.state = "failed" => Status(row.handle) # "suspended")
<1>0. {"provisioning", "ready", "suspended", "failed", "terminating"} \subseteq RowStates
  BY DEF RowStates
<1>1. ASSUME RequestRestart
      PROVE  row' \in RowRecords /\ row'.state = "provisioning" /\ row'.handle = row.handle /\ row'.token = row.token
  BY <1>0, <1>1, RowStateSet DEF RequestRestart
<1>2. ASSUME RequestTerminate
      PROVE  row' \in RowRecords /\ row'.state = "terminating" /\ row'.handle = row.handle /\ row'.token = row.token
  BY <1>0, <1>2, RowStateSet DEF RequestTerminate
<1>3. ASSUME Reconcile
      PROVE  row' \in RowRecords /\ row'.state \in {"ready", "suspended", "failed"}
             /\ row'.handle = row.handle /\ row'.token = row.token
             /\ (row'.state = "failed" => Status(row.handle) # "suspended")
  <2>1. PICK st : /\ row' = [row EXCEPT !.state = st] /\ st \in {"ready", "suspended", "failed"}
                  /\ st = "failed" => Status(row.handle) # "suspended"
    <3>1. PICK s : s = Status(row.handle)
      OBVIOUS
    <3>2. PICK st : st = CASE row.state = "ready" /\ s = "suspended" -> "suspended"
             [] row.state = "ready" /\ s # "suspended" ->
                  IF s = "ready" /\ (serves => Endpoint(row.handle) # {}) THEN "ready" ELSE "failed"
             [] row.state = "suspended" /\ s = "ready" -> "ready"
             [] row.state = "suspended" /\ s \in Over -> "failed"
             [] OTHER -> "suspended"
      OBVIOUS
    <3>3. row' = [row EXCEPT !.state = st]
      BY <1>3, <3>1, <3>2 DEF Reconcile
    <3>4. st \in {"ready", "suspended", "failed"} /\ (st = "failed" => s # "suspended")
      BY <3>2 DEF Over
    <3> QED
      BY <3>1, <3>3, <3>4
  <2>2. st \in RowStates
    BY <1>0, <2>1
  <2> QED
    BY <2>1, <2>2, RowStateSet
<1> QED
  BY <1>1, <1>2, <1>3

LEMMA RequestsKeep ==
  ASSUME ProgInv, RequestRestart \/ RequestTerminate \/ Reconcile
  PROVE  ProgInv'
<1>1. ProgsKept'
  <2>1. UNCHANGED prog /\ kind' = kind
    BY DEF RequestRestart, RequestTerminate, Reconcile, NoWorld
  <2> QED
    BY <2>1 DEF ProgInv, ProvidersTypeOK, ProgsKept, ProgsFit, JobFits, StrayFits
<1>2. row' \in RowRecords
  BY RowRequests
<1>3. queue' \subseteq {"provision", "restart", "terminate"}
  BY TypesHere DEF RequestRestart, RequestTerminate, Reconcile
<1> QED
  BY <1>1, <1>2, <1>3, ServiceKeeps DEF RequestRestart, RequestTerminate, Reconcile

LEMMA CrashKeeps ==
  ASSUME ProgInv, Crash
  PROVE  ProgInv' /\ prog'["job"] = Nothing
<1>1. PICK r \in Programs : r = LeftBehind
  BY LeftTyped
<1>2. kind # "tunnel" => r = Nothing
  BY <1>1, LeftTyped
<1>3. prog' = [job |-> Nothing, stray |-> r]
  BY <1>1 DEF Crash
<1>4. prog' \in [Slots -> Programs] /\ prog'["job"] = Nothing /\ prog'["stray"] = r
  BY <1>3, NothingFits DEF Slots
<1>5. StepsIn(<<>>) = {} /\ EndsClosed(<<>>)
  BY DEF StepsIn, EndsClosed
<1>6. ProgsKept'
  BY <1>2, <1>4, <1>5, NothingFits DEF Crash, ProgsKept, ProgsFit, JobFits, StrayFits
<1>7. WorldTypes'
  BY TypesHere DEF Crash, WorldTypes
<1> QED
  BY <1>4, <1>6, <1>7, AdapterKeeps DEF Crash

LEMMA ProgInitial == ProvidersInit => ProgInv
<1> SUFFICES ASSUME ProvidersInit
             PROVE  ProgInv
  OBVIOUS
<1>1. prog \in [Slots -> Programs] /\ prog["job"] = Nothing /\ prog["stray"] = Nothing
  BY NothingFits DEF ProvidersInit, Slots
<1>2. StepsIn(<<>>) = {} /\ EndsClosed(<<>>)
  BY DEF StepsIn, EndsClosed
<1>3. JobFits /\ StrayFits
  BY <1>1, <1>2, NothingFits DEF JobFits, StrayFits
<1>4. row \in [state : RowStates, handle : Handles, token : Tokens] /\ secret \in Tokens /\ faults \in 0 .. MaxFaults
  BY ProvidersConstants DEF ProvidersInit, RowStates, Handles, Tokens, NoHandle, Named
<1>5. serves \in BOOLEAN
  BY DEF ProvidersInit, DryRun
<1> QED
  BY <1>1, <1>3, <1>4, <1>5 DEF ProvidersInit, ProgInv, ProvidersTypeOK

LEMMA ProgStep ==
  ASSUME ProgInv, [ProvidersNext]_pvars
  PROVE  ProgInv'
<1>1. CASE UNCHANGED pvars
  BY <1>1 DEF pvars, ProgInv, ProvidersTypeOK, JobFits, StrayFits
<1> QED
  BY <1>1, AdaptersKeep, ServiceStep, TunnelKeeps, ControlPlaneKeeps, RequestsKeep, CrashKeeps DEF ProvidersNext


-----------------------------------------------------------------------------
(***************************************************************************)
(* What the control plane holds: the steps of each kind.                   *)
(***************************************************************************)

LEMMA DockerKind ==
  ASSUME ProgInv, NEW p \in Slots, NEW x, At(p, x),
         x \in {"volume", "create", "start", "adoptStart", "inspect", "remove", "removeVolume"}
  PROVE  kind \in {"docker", "tunnel"}
<1>1. CASE p = "job"
  <2>1. Fits(kind, prog["job"].op, x)
    BY <1>1, HeadFits
  <2> QED
    BY <2>1 DEF Fits, Makes, Clears, Removes, Calls
<1>2. CASE p = "stray"
  BY <1>2, StrayHead DEF At
<1> QED
  BY <1>1, <1>2 DEF Slots

LEMMA JobKind ==
  ASSUME ProgInv, NEW x, At("job", x)
  PROVE  /\ x \in {"secret", "pod", "service", "deletePod", "awaitPodAbsent", "deleteService", "deleteSecret"}
              => kind = "k8s"
         /\ x \in {"register", "purge", "awaitJobAbsent"} => kind = "nomad"
         /\ x \in {"dir", "spawn", "awaitReady", "stop", "removeDir"} => kind = "static"
         /\ x \in {"put", "drop"} => kind = "null"
         /\ x = "call" => kind = "tunnel"
<1>1. Fits(kind, prog["job"].op, x)
  BY HeadFits
<1> QED
  BY <1>1 DEF Fits, Makes, Clears, Removes, Calls

\* The ways in which the units of a resource change.
UnitsMove ==
    \/ units' \subseteq units
    \/ \E x \in Units : units' \subseteq {x} /\ x.phase # "deleting"
    \/ \E u \in units : \E v \in Units :
         u.phase # "deleting" /\ v.phase # "deleting" /\ units' = (units \ {u}) \cup {v}
    \/ kind \in {"k8s", "nomad"} /\ \E x : \A w \in units' : w.phase = "deleting" \/ w = x
    \/ kind = "static" /\ \A w \in units' : w.phase # "deleting"

LEMMA WorldMoves ==
  ASSUME WorldInv, kind' = kind, UnitsMove, KeptFits'
  PROVE  WorldInv'
<1>1. CASE units' \subseteq units
  BY <1>1 DEF WorldInv, NoneDeleting, AtMostOne
<1>2. CASE \E x \in Units : units' \subseteq {x} /\ x.phase # "deleting"
  BY <1>2 DEF WorldInv, NoneDeleting, AtMostOne
<1>3. ASSUME NEW u \in units, NEW v \in Units, u.phase # "deleting", v.phase # "deleting",
             units' = (units \ {u}) \cup {v}
      PROVE  WorldInv'
  <2>1. NoneDeleting'
    BY <1>3 DEF WorldInv, NoneDeleting
  <2>2. AtMostOne'
    BY <1>3 DEF WorldInv, AtMostOne
  <2> QED
    BY <2>1, <2>2 DEF WorldInv
<1>4. CASE kind \in {"k8s", "nomad"} /\ \E x : \A w \in units' : w.phase = "deleting" \/ w = x
  BY <1>4 DEF WorldInv, NoneDeleting, AtMostOne
<1>5. CASE kind = "static" /\ \A w \in units' : w.phase # "deleting"
  BY <1>5 DEF WorldInv, NoneDeleting, AtMostOne
<1> QED
  BY <1>1, <1>2, <1>3, <1>4, <1>5 DEF UnitsMove

LEMMA KeptSame ==
  ASSUME WorldInv, kind' = kind, kept' \subseteq kept
  PROVE  KeptFits'
BY DEF WorldInv, KeptFits

LEMMA PhaseMoves ==
  ASSUME ProgInv, NEW u \in units, u.phase # "deleting", NEW ph \in Phases \ {"deleting"}, SetPhase(u, ph)
  PROVE  UnitsMove
<1>1. u \in Units
  BY TypesHere DEF WorldTypes
<1>2. PICK v : v = [u EXCEPT !.phase = ph]
  OBVIOUS
<1>3. v \in Units /\ v.phase # "deleting"
  BY <1>1, <1>2 DEF Units
<1>4. units' = (units \ {u}) \cup {v}
  BY <1>2 DEF SetPhase
<1> QED
  BY <1>3, <1>4 DEF UnitsMove

LEMMA WorldDocker ==
  ASSUME ProgInv, WorldInv, NEW p \in Slots, Docker(p) \/ PortTaken(p)
  PROVE  WorldInv'
<1>1. kind \in {"docker", "tunnel"} /\ kind' = kind
  BY DockerKind DEF Docker, VolumeCreate, ContainerCreate, ContainerStart, ContainerInspect, ContainerRemove,
     VolumeRemove, PortTaken, Quiet
<1>2. KeptFits'
  <2>1. kept' \subseteq kept \cup {"volume"}
    BY DEF Docker, VolumeCreate, ContainerCreate, ContainerStart, ContainerInspect, ContainerRemove,
       VolumeRemove, PortTaken, With, Without, worldVars
  <2> QED
    BY <1>1, <2>1 DEF WorldInv, KeptFits
<1>3. UnitsMove
  <2>1. CASE ContainerCreate(p) /\ units = {} /\ units' = units \cup {NewUnit(p, "created")}
    <3>1. NewUnit(p, "created") \in Units /\ NewUnit(p, "created").phase = "created"
      BY <2>1, FreshUnit DEF ContainerCreate, Phases
    <3> QED
      BY <2>1, <3>1 DEF UnitsMove
  <2>2. ASSUME NEW u \in UnitOf(prog[p].unit), SetPhase(u, "running")
        PROVE  UnitsMove
    <3>1. u \in units /\ u.phase # "deleting"
      BY <1>1, <2>2 DEF UnitOf, WorldInv, NoneDeleting
    <3> QED
      BY <2>2, <3>1, PhaseMoves DEF Phases
  <2>3. CASE units' \subseteq units
    BY <2>3 DEF UnitsMove
  <2> QED
    BY <2>1, <2>2, <2>3 DEF Docker, VolumeCreate, ContainerCreate, ContainerStart, ContainerInspect,
       ContainerRemove, VolumeRemove, PortTaken, worldVars
<1> QED
  BY <1>1, <1>2, <1>3, WorldMoves

LEMMA WorldK8s ==
  ASSUME ProgInv, WorldInv, K8s
  PROVE  WorldInv'
<1>0. kind' = kind /\ kind = "k8s"
  BY JobKind DEF K8s, K8sAdopt, ApplySecret, ApplyPod, ApplyService, DeletePod, AwaitPodAbsent, DeleteObject, Quiet
<1>1. KeptFits'
  <2>1. kept' \subseteq kept \cup {"secret", "service"}
    BY DEF K8s, K8sAdopt, ApplySecret, ApplyPod, ApplyService, DeletePod, AwaitPodAbsent, DeleteObject,
       With, Without, worldVars
  <2> QED
    BY <1>0, <2>1 DEF WorldInv, KeptFits
<1>2. UnitsMove
  <2>1. CASE ApplyPod /\ units' = {NewUnit("job", "pending")}
    <3>1. NewUnit("job", "pending") \in Units /\ NewUnit("job", "pending").phase = "pending"
      BY <2>1, FreshUnit DEF ApplyPod, Phases, Slots
    <3> QED
      BY <2>1, <3>1 DEF UnitsMove
  <2>2. CASE units' = Deleting
    BY <1>0, <2>2, DeletingTyped DEF UnitsMove
  <2>3. CASE units' = units
    BY <2>3 DEF UnitsMove
  <2> QED
    BY <2>1, <2>2, <2>3 DEF K8s, K8sAdopt, ApplySecret, ApplyPod, ApplyService, DeletePod, AwaitPodAbsent,
       DeleteObject, worldVars
<1> QED
  BY <1>0, <1>1, <1>2, WorldMoves

LEMMA WorldNomad ==
  ASSUME ProgInv, WorldInv, Nomad
  PROVE  WorldInv'
<1>0. kind' = kind /\ kind = "nomad"
  BY JobKind DEF Nomad, NomadAdopt, Register, Purge, AwaitJobAbsent, Quiet
<1>1. KeptFits'
  <2>1. kept' \subseteq kept \cup {"job"}
    BY DEF Nomad, NomadAdopt, Register, Purge, AwaitJobAbsent, With, Without, worldVars
  <2> QED
    BY <1>0, <2>1 DEF WorldInv, KeptFits
<1>2. UnitsMove
  <2>1. CASE FreeIds # {} /\ units' = Deleting \cup {NewUnit("job", "pending")}
    <3>1. NewUnit("job", "pending") \in Units
      BY <2>1, FreshUnit DEF Phases, Slots
    <3> QED
      BY <1>0, <2>1, <3>1, DeletingTyped DEF UnitsMove
  <2>2. CASE units' = Deleting
    BY <1>0, <2>2, DeletingTyped DEF UnitsMove
  <2>3. CASE units' = units
    BY <2>3 DEF UnitsMove
  <2> QED
    BY <2>1, <2>2, <2>3 DEF Nomad, NomadAdopt, Register, Purge, AwaitJobAbsent, worldVars
<1> QED
  BY <1>0, <1>1, <1>2, WorldMoves

LEMMA WorldStatic ==
  ASSUME ProgInv, WorldInv, Static
  PROVE  WorldInv'
<1>0. kind' = kind /\ kind = "static"
  BY JobKind DEF Static, MakeDir, Spawn, AwaitReady, StopProcess, RemoveDir, Quiet
<1>1. KeptFits'
  BY <1>0 DEF KeptFits
<1>2. UnitsMove
  <2>0. \A w \in units : w.phase # "deleting"
    BY <1>0 DEF WorldInv, NoneDeleting
  <2>1. CASE FreeIds # {} /\ units' = units \cup {NewUnit("job", "running")}
    <3>1. NewUnit("job", "running").phase = "running"
      BY <2>1, FreshUnit DEF Phases, Slots
    <3> QED
      BY <1>0, <2>0, <2>1, <3>1 DEF UnitsMove
  <2>2. CASE units' \subseteq units
    BY <2>2 DEF UnitsMove
  <2> QED
    BY <2>1, <2>2 DEF Static, MakeDir, Spawn, AwaitReady, StopProcess, RemoveDir, worldVars
<1> QED
  BY <1>0, <1>1, <1>2, WorldMoves

LEMMA WorldNull ==
  ASSUME ProgInv, WorldInv, Null
  PROVE  WorldInv'
<1>0. kind' = kind /\ kind = "null" /\ kept' = kept
  BY JobKind DEF Null, NullAdopt, Put, Drop, Quiet, worldVars
<1>1. UnitsMove
  <2>1. CASE Put
    <3>1. PICK t \in Tokens : t = prog["job"].token
      BY ProgTypes, TypesHere DEF Slots
    <3>2. PICK x : x = [id |-> 1, token |-> t, phase |-> "running"]
      OBVIOUS
    <3>3. x \in Units /\ x.phase = "running"
      BY <3>2, ProvidersConstants DEF Units, Phases
    <3>4. units' = {x}
      BY <2>1, <3>1, <3>2 DEF Put
    <3> QED
      BY <3>3, <3>4 DEF UnitsMove
  <2>2. CASE units' \subseteq units
    BY <2>2 DEF UnitsMove
  <2> QED
    BY <2>1, <2>2 DEF Null, NullAdopt, Drop, worldVars
<1> QED
  BY <1>0, <1>1, KeptSame, WorldMoves

LEMMA WorldControl ==
  ASSUME ProgInv, WorldInv, ControlPlane
  PROVE  WorldInv'
<1>0. kind' = kind /\ kept' = kept
  BY DEF ControlPlane, UnitStarts, UnitGone, UnitDies, Work, Quiet
<1>1. ASSUME NEW u \in units, UnitStarts(u)
      PROVE  UnitsMove
  <2>1. PICK t \in Tokens : t = IF kind = "k8s" THEN secret ELSE u.token
    BY TypesHere DEF WorldTypes, Units
  <2>2. PICK v : v = [u EXCEPT !.phase = "running", !.token = t]
    OBVIOUS
  <2>3. v \in Units /\ v.phase = "running"
    BY <2>2, TypesHere DEF WorldTypes, Units, Phases
  <2>4. units' = (units \ {u}) \cup {v} /\ u.phase = "pending"
    BY <1>1, <2>1, <2>2 DEF UnitStarts
  <2> QED
    BY <2>3, <2>4 DEF UnitsMove
<1>2. ASSUME NEW u \in units, UnitGone(u)
      PROVE  UnitsMove
  BY <1>2 DEF UnitGone, UnitsMove
<1>3. ASSUME NEW u \in units, UnitDies(u)
      PROVE  UnitsMove
  <2>1. CASE units' = units \ {u}
    BY <2>1 DEF UnitsMove
  <2>2. CASE SetPhase(u, "stopped")
    BY <1>3, <2>2, PhaseMoves DEF UnitDies, Phases
  <2> QED
    BY <1>3, <2>1, <2>2 DEF UnitDies
<1>4. ASSUME Work
      PROVE  UnitsMove
  <2>1. units' \subseteq units
    BY <1>4 DEF Work
  <2> QED
    BY <2>1 DEF UnitsMove
<1> QED
  BY <1>0, <1>1, <1>2, <1>3, <1>4, KeptSame, WorldMoves DEF ControlPlane

LEMMA WorldStill ==
  ASSUME WorldInv, kind' = kind, kept' = kept, units' \subseteq units
  PROVE  WorldInv'
BY DEF WorldInv, NoneDeleting, AtMostOne, KeptFits

LEMMA WorldStep ==
  ASSUME ProgInv, WorldInv, [ProvidersNext]_pvars
  PROVE  WorldInv'
<1>1. ASSUME NEW p \in Slots, CallFails(p)
      PROVE  WorldInv'
  BY <1>1, WorldStill DEF CallFails, worldVars
<1>2. CASE DockerAdopt \/ TakeName \/ Refuse
  BY <1>2, WorldStill DEF DockerAdopt, TakeName, Refuse, Quiet, worldVars
<1>3. CASE Tunnel
  BY <1>3, WorldStill DEF Tunnel, Call, CallLost, StrayEnds, AgentDown, AgentUp, RevokeLease, Quiet, worldVars
<1>4. CASE Service
  BY <1>4, WorldStill DEF Service, BeginProvision, BeginRestart, BeginTerminate, SetHandle, Await, Commit, Fail,
     Terminated, NoWorld, worldVars
<1>5. CASE RequestRestart \/ RequestTerminate \/ Reconcile
  BY <1>5, WorldStill DEF RequestRestart, RequestTerminate, Reconcile, NoWorld, worldVars
<1>6. CASE Crash
  BY <1>6, WorldStill DEF Crash
<1>7. CASE UNCHANGED pvars
  BY <1>7, WorldStill DEF pvars
<1>8. CASE Adapters
  BY <1>1, <1>2, <1>8, WorldDocker, WorldK8s, WorldNomad, WorldStatic, WorldNull DEF Adapters
<1> QED
  BY <1>3, <1>4, <1>5, <1>6, <1>7, <1>8, WorldControl DEF ProvidersNext


-----------------------------------------------------------------------------
(***************************************************************************)
(* How far a termination is.                                               *)
(***************************************************************************)

LEMMA JobActive ==
  ASSUME EndInv, prog["job"].todo # <<>>
  PROVE  row.state # "terminated"
BY NothingFits DEF EndInv, OverFits

\* A running job goes on as another one, or ends.
LEMMA EndOther ==
  ASSUME row'.state # "terminated", prog'["job"].op # "terminate"
  PROVE  EndInv'
BY DEF EndInv, TerminateFits, OverFits

\* A running job goes on under its handle.
LEMMA EndGoesOn ==
  ASSUME EndInv, row'.state # "terminated", row'.handle = row.handle,
         prog'["job"].op = prog["job"].op,
         prog["job"].op = "terminate" =>
             /\ prog'["job"].handle = prog["job"].handle
             /\ row.handle # NoHandle /\ Removed => Removed'
  PROVE  EndInv'
BY DEF EndInv, TerminateFits, OverFits

LEMMA EndMoves ==
  ASSUME EndInv, row' = row, prog["job"].todo # <<>>, NEW s, NEW h, NEW n, Moves("job", s, h, n),
         prog["job"].op = "terminate" =>
             /\ h = prog["job"].handle
             /\ row.handle # NoHandle /\ Removed => Removed'
  PROVE  EndInv'
BY JobActive, EndGoesOn DEF Moves

LEMMA EndFails ==
  ASSUME ProgInv, EndInv, row' = row, prog["job"].todo # <<>>, Failed("job")
  PROVE  EndInv'
<1>1. row'.state # "terminated"
  BY JobActive
<1>2. prog'["job"].op # "terminate"
  BY FailedMoves, TypesHere, NothingFits DEF Becomes, Moves, Slots
<1> QED
  BY <1>1, <1>2, EndOther

\* Only a tunnel's agent runs a program of its own.
LEMMA EndStray ==
  ASSUME EndInv, kind' = kind, row' = row, kind = "tunnel", prog'["job"] = prog["job"]
  PROVE  EndInv'
BY DEF EndInv, TerminateFits, OverFits, Removed, NothingLeft

Removals == {"remove", "removeVolume", "deletePod", "deleteService", "deleteSecret", "purge", "stop",
             "removeDir", "drop", "call", "terminated"}

LEMMA NotEnding ==
  ASSUME ProgInv, NEW x, At("job", x), x \notin Removals
  PROVE  prog["job"].op # "terminate"
<1>1. Fits(kind, prog["job"].op, x)
  BY HeadFits
<1> QED
  BY <1>1 DEF Fits, Removes, Calls, Removals

\* A step of a removal takes itself off what is left.
LEMMA LeftShrinks ==
  ASSUME ProgInv, NEW x, At("job", x), NEW h, NEW n, Moves("job", Tail(prog["job"].todo), h, n)
  PROVE  \A y \in StepsIn(prog["job"].todo) : y = x \/ y \in StepsIn(prog'["job"].todo)
<1>1. PICK s \in Seq(AllSteps) : s = prog["job"].todo
  BY ProgTypes, TypesHere DEF Slots
<1>2. s # <<>> /\ Head(s) = x
  BY <1>1 DEF At
<1>3. \A y \in StepsIn(s) : y = Head(s) \/ y \in StepsIn(Tail(s))
  BY <1>2, TailSteps
<1> QED
  BY <1>1, <1>2, <1>3 DEF Moves

LEMMA SlotMakes ==
  ASSUME ProgInv, EndInv, kind' = kind, row' = row, NEW p \in Slots, NEW x, At(p, x), x \notin Removals,
         NEW s, NEW h, NEW n, Moves(p, s, h, n)
  PROVE  EndInv'
<1>1. CASE p = "job"
  BY <1>1, NotEnding, EndMoves DEF At
<1>2. CASE p = "stray"
  BY <1>2, StrayHead, EndStray DEF At, Moves, Slots
<1> QED
  BY <1>1, <1>2 DEF Slots

LEMMA SlotFailsEnd ==
  ASSUME ProgInv, EndInv, kind' = kind, row' = row, NEW p \in Slots, prog[p].todo # <<>>, Failed(p)
  PROVE  EndInv'
<1>1. CASE p = "job"
  BY <1>1, EndFails
<1>2. CASE p = "stray"
  BY <1>2, StrayHead, EndStray, FailedMoves, TypesHere DEF Becomes, Slots
<1> QED
  BY <1>1, <1>2 DEF Slots

LEMMA SlotAdvancesEnd ==
  ASSUME ProgInv, EndInv, kind' = kind, row' = row, NEW p \in Slots, NEW x, At(p, x), Advance(p),
         p = "job" /\ prog["job"].op = "terminate" /\ row.handle # NoHandle /\ Removed => Removed'
  PROVE  EndInv'
<1>1. Moves(p, Tail(prog[p].todo), prog[p].handle, prog[p].unit)
  BY AdvanceMoves, TypesHere DEF At
<1>2. CASE p = "job"
  BY <1>1, <1>2, EndMoves DEF At
<1>3. CASE p = "stray"
  BY <1>1, <1>3, StrayHead, EndStray DEF At, Moves, Slots
<1> QED
  BY <1>2, <1>3 DEF Slots

LEMMA EndDocker ==
  ASSUME ProgInv, WorldInv, EndInv, NEW p \in Slots, Docker(p)
  PROVE  EndInv'
<1>0. kind' = kind /\ row' = row
  BY DEF Docker, VolumeCreate, ContainerCreate, ContainerStart, ContainerInspect, ContainerRemove, VolumeRemove, Quiet
<1>a. ASSUME NEW x, At(p, x), x \notin Removals, Advance(p)
      PROVE  EndInv'
  BY <1>0, <1>a, AdvanceMoves, SlotMakes, TypesHere DEF At
<1>b. ASSUME NEW x, At(p, x), Failed(p)
      PROVE  EndInv'
  BY <1>0, <1>b, SlotFailsEnd DEF At
<1>1. CASE VolumeCreate(p)
  BY <1>1, <1>a DEF VolumeCreate, Removals
<1>2. CASE ContainerCreate(p)
  <2>1. CASE Failed(p)
    BY <1>2, <1>b, <2>1 DEF ContainerCreate
  <2>2. CASE prog' = [prog EXCEPT ![p].unit = FreshId, ![p].todo = Tail(@)]
    <3>0. FreeIds # {} /\ At(p, "create") /\ prog[p].todo # <<>>
      BY <1>2 DEF ContainerCreate, At
    <3>1. PICK s \in Seq(AllSteps) : s = Tail(prog[p].todo)
      BY <3>0, ProgTypes, TailSteps DEF ProgInv
    <3>2. PICK n \in 0 .. MaxUnits : n = FreshId
      BY <3>0, FreshUnit DEF Phases
    <3>3. prog' = [prog EXCEPT ![p].unit = n, ![p].todo = s]
      BY <2>2, <3>1, <3>2
    <3>4. Moves(p, s, prog[p].handle, n)
      BY <3>3, PutTodoUnit DEF ProgInv
    <3> QED
      BY <1>0, <3>0, <3>4, SlotMakes DEF Removals
  <2> QED
    BY <1>2, <2>1, <2>2 DEF ContainerCreate
<1>3. CASE ContainerStart(p)
  BY <1>3, <1>a, <1>b DEF ContainerStart, Removals
<1>4. CASE ContainerInspect(p)
  <2>1. CASE Failed(p)
    BY <1>4, <1>b, <2>1 DEF ContainerInspect
  <2>2. CASE prog' = [prog EXCEPT ![p].handle = prog[p].unit, ![p].todo = Tail(@)]
    <3>0. At(p, "inspect") /\ prog[p].todo # <<>>
      BY <1>4 DEF ContainerInspect, At
    <3>1. PICK s \in Seq(AllSteps) : s = Tail(prog[p].todo)
      BY <3>0, ProgTypes, TailSteps DEF ProgInv
    <3>2. PICK h \in Handles : h = prog[p].unit
      BY ProvidersConstants, ProgTypes DEF ProgInv, Handles, Named
    <3>3. prog' = [prog EXCEPT ![p].handle = h, ![p].todo = s]
      BY <2>2, <3>1, <3>2
    <3>4. Moves(p, s, h, prog[p].unit)
      BY <3>3, PutTodoHandle DEF ProgInv
    <3> QED
      BY <1>0, <3>0, <3>4, SlotMakes DEF Removals
  <2> QED
    BY <1>4, <2>1, <2>2 DEF ContainerInspect
<1>5. CASE ContainerRemove(p)
  <2>0. At(p, "remove") /\ Advance(p) /\ units' \subseteq units /\ kept' = kept
    BY <1>5 DEF ContainerRemove
  <2>1. ASSUME p = "job", Removed
        PROVE  Removed'
    <3>1. Moves("job", Tail(prog["job"].todo), prog["job"].handle, prog["job"].unit)
      BY <2>0, <2>1, AdvanceMoves, TypesHere DEF At
    <3>2. "removeVolume" \notin StepsIn(prog'["job"].todo) => "removeVolume" \notin StepsIn(prog["job"].todo)
      BY <2>0, <2>1, <3>1, LeftShrinks
    <3>3. kind \in {"docker", "tunnel"}
      BY <2>0, DockerKind
    <3> QED
      BY <1>0, <2>0, <2>1, <3>2, <3>3 DEF Removed
  <2> QED
    BY <1>0, <2>0, <2>1, SlotAdvancesEnd
<1>6. CASE VolumeRemove(p)
  <2>0. At(p, "removeVolume") /\ units' = units
    BY <1>6 DEF VolumeRemove
  <2>1. CASE Failed(p)
    BY <1>b, <2>0, <2>1
  <2>2. CASE units = {} /\ Without("volume") /\ Advance(p)
    <3>1. kind \in {"docker", "tunnel"}
      BY <2>0, DockerKind
    <3>2. Removed'
      BY <1>0, <2>0, <2>2, <3>1 DEF Removed, Without, WorldInv, KeptFits
    <3> QED
      BY <1>0, <2>0, <2>2, <3>2, SlotAdvancesEnd
  <2> QED
    BY <1>6, <2>1, <2>2 DEF VolumeRemove
<1> QED
  BY <1>1, <1>2, <1>3, <1>4, <1>5, <1>6 DEF Docker

LEMMA EndPortTaken ==
  ASSUME ProgInv, EndInv, NEW p \in Slots, PortTaken(p)
  PROVE  EndInv'
<1>0. kind' = kind /\ row' = row /\ At(p, "start") /\ prog[p].todo # <<>>
  BY DEF PortTaken, At
<1>1. CASE Failed(p)
  BY <1>0, <1>1, SlotFailsEnd
<1>2. CASE prog[p].tries < MaxTries /\ prog' = [prog EXCEPT ![p].tries = @ + 1, ![p].todo = <<"volume", "create">> \o @]
  <2>1. PICK a : a = <<"volume", "create">>
    OBVIOUS
  <2>2. a \in Seq(AllSteps)
    BY <2>1 DEF AllSteps, AdapterSteps
  <2>3. PICK t \in Seq(AllSteps) : t = prog[p].todo
    BY ProgTypes, TypesHere
  <2>4. PICK s \in Seq(AllSteps) : s = a \o t
    BY <2>2, CatSteps
  <2>5. prog' = [prog EXCEPT ![p].tries = @ + 1, ![p].todo = s]
    BY <1>2, <2>1, <2>3, <2>4
  <2>6. Moves(p, s, prog[p].handle, prog[p].unit)
    BY <1>2, <2>5, PutTodoTries, TypesHere
  <2> QED
    BY <1>0, <2>6, SlotMakes DEF Removals
<1> QED
  BY <1>1, <1>2 DEF PortTaken

LEMMA EndCallFails ==
  ASSUME ProgInv, EndInv, NEW p \in Slots, CallFails(p)
  PROVE  EndInv'
<1>0. kind' = kind /\ row' = row /\ prog[p].todo # <<>>
  BY DEF CallFails
<1>1. CASE Failed(p)
  BY <1>0, <1>1, SlotFailsEnd
<1>2. CASE prog[p].op = "restart" /\ Advance(p) /\ At(p, "remove")
  BY <1>0, <1>2, SlotAdvancesEnd
<1> QED
  BY <1>0, <1>1, <1>2 DEF CallFails, At


LEMMA AdoptMoves ==
  ASSUME ProgInv, K8sAdopt \/ NomadAdopt \/ NullAdopt
  PROVE  \E s : Moves("job", s, prog["job"].handle, prog["job"].unit)
<1>1. PICK c \in BOOLEAN : prog' = [prog EXCEPT !["job"].todo = (IF c THEN Provision ELSE <<"name">>) \o Tail(@)]
  <2>1. CASE K8sAdopt \/ NullAdopt
    <3>1. PICK c \in BOOLEAN : c = (units = {})
      OBVIOUS
    <3>2. prog' = [prog EXCEPT !["job"].todo = (IF c THEN Provision ELSE <<"name">>) \o Tail(@)]
      BY <2>1, <3>1 DEF K8sAdopt, NullAdopt
    <3> QED
      BY <3>2
  <2>2. CASE NomadAdopt
    <3>1. PICK c \in BOOLEAN : c = ("job" \notin kept)
      OBVIOUS
    <3>2. prog' = [prog EXCEPT !["job"].todo = (IF c THEN Provision ELSE <<"name">>) \o Tail(@)]
      BY <2>2, <3>1 DEF NomadAdopt
    <3> QED
      BY <3>2
  <2> QED
    BY <2>1, <2>2
<1>2. kind' = kind /\ kind \in {"k8s", "nomad", "null"} /\ At("job", "adopt")
  BY DEF K8sAdopt, NomadAdopt, NullAdopt, Quiet
<1> QED
  BY <1>1, <1>2, NamedAdopts

LEMMA EndAdopts ==
  ASSUME ProgInv, EndInv, K8sAdopt \/ NomadAdopt \/ NullAdopt \/ DockerAdopt
  PROVE  EndInv'
<1>1. kind' = kind /\ row' = row /\ At("job", "adopt")
  BY DEF K8sAdopt, NomadAdopt, NullAdopt, DockerAdopt, Quiet
<1>2. PICK s, n : Moves("job", s, prog["job"].handle, n)
  BY AdoptMoves, DockerAdopts
<1> QED
  BY <1>1, <1>2, SlotMakes DEF Removals, Slots

LEMMA EndMakes ==
  ASSUME ProgInv, EndInv, kind' = kind, row' = row, NEW x, At("job", x), x \notin Removals, Advance("job")
  PROVE  EndInv'
BY AdvanceMoves, SlotMakes, TypesHere DEF At, Slots

LEMMA EndAdvances ==
  ASSUME ProgInv, EndInv, kind' = kind, row' = row, NEW x, At("job", x), Advance("job"),
         prog["job"].op = "terminate" /\ row.handle # NoHandle /\ Removed => Removed'
  PROVE  EndInv'
BY SlotAdvancesEnd DEF Slots

LEMMA AdvanceShrinks ==
  ASSUME ProgInv, NEW x, At("job", x), Advance("job")
  PROVE  \A y \in StepsIn(prog["job"].todo) : y = x \/ y \in StepsIn(prog'["job"].todo)
BY AdvanceMoves, LeftShrinks, TypesHere DEF At, Slots

LEMMA EndK8s ==
  ASSUME ProgInv, WorldInv, EndInv, K8s
  PROVE  EndInv'
<1>0. kind' = kind /\ row' = row /\ kind = "k8s"
  BY JobKind DEF K8s, K8sAdopt, ApplySecret, ApplyPod, ApplyService, DeletePod, AwaitPodAbsent, DeleteObject, Quiet
<1>a. ASSUME NEW x, At("job", x), Failed("job")
      PROVE  EndInv'
  BY <1>0, <1>a, EndFails DEF At
<1>1. CASE K8sAdopt
  BY <1>1, EndAdopts
<1>2. CASE ApplySecret
  BY <1>0, <1>2, EndMakes DEF ApplySecret, Removals
<1>3. CASE ApplyPod
  BY <1>0, <1>3, EndMakes DEF ApplyPod, Removals
<1>4. CASE ApplyService
  BY <1>0, <1>4, <1>a, EndMakes DEF ApplyService, Removals
<1>5. CASE AwaitPodAbsent
  BY <1>0, <1>5, <1>a, EndMakes DEF AwaitPodAbsent, Removals
<1>6. CASE DeletePod
  <2>1. At("job", "deletePod") /\ Advance("job") /\ units' = Deleting /\ kept' = kept
    BY <1>6 DEF DeletePod
  <2>2. ASSUME Removed
        PROVE  Removed'
    <3>1. Going'
      BY <2>1, DeletingTyped DEF Going
    <3>2. \A y \in StepsIn(prog["job"].todo) : y = "deletePod" \/ y \in StepsIn(prog'["job"].todo)
      BY <2>1, AdvanceShrinks
    <3> QED
      BY <1>0, <2>1, <2>2, <3>1, <3>2 DEF Removed
  <2> QED
    BY <1>0, <2>1, <2>2, EndAdvances
<1>7. ASSUME NEW x, NEW obj, (x = "deleteService" /\ obj = "service") \/ (x = "deleteSecret" /\ obj = "secret"),
             DeleteObject(x, obj)
      PROVE  EndInv'
  <2>1. At("job", x) /\ Advance("job") /\ units' = units /\ kept' = kept \ {obj}
    BY <1>7 DEF DeleteObject, Without
  <2>2. ASSUME Removed
        PROVE  Removed'
    <3>1. Going' <=> Going
      BY <2>1 DEF Going
    <3>2. \A y \in StepsIn(prog["job"].todo) : y = x \/ y \in StepsIn(prog'["job"].todo)
      BY <2>1, AdvanceShrinks
    <3> QED
      BY <1>0, <1>7, <2>1, <2>2, <3>1, <3>2 DEF Removed
  <2> QED
    BY <1>0, <2>1, <2>2, EndAdvances
<1>8. DeleteObject("deleteService", "service") => EndInv'
  BY <1>7
<1>9. DeleteObject("deleteSecret", "secret") => EndInv'
  BY <1>7
<1> QED
  BY <1>1, <1>2, <1>3, <1>4, <1>5, <1>6, <1>8, <1>9 DEF K8s

LEMMA EndNomad ==
  ASSUME ProgInv, WorldInv, EndInv, Nomad
  PROVE  EndInv'
<1>0. kind' = kind /\ row' = row /\ kind = "nomad"
  BY JobKind DEF Nomad, NomadAdopt, Register, Purge, AwaitJobAbsent, Quiet
<1>1. CASE NomadAdopt
  BY <1>1, EndAdopts
<1>2. CASE Register
  BY <1>0, <1>2, EndMakes DEF Register, Removals
<1>3. CASE AwaitJobAbsent
  BY <1>0, <1>3, EndFails, EndMakes DEF AwaitJobAbsent, Removals, At
<1>4. CASE Purge
  <2>1. At("job", "purge") /\ Advance("job")
    BY <1>4 DEF Purge
  <2>2. ASSUME prog["job"].op = "terminate", row.handle # NoHandle
        PROVE  Removed'
    <3>1. prog["job"].handle # NoHandle
      BY <2>2 DEF EndInv, TerminateFits
    <3>2. kept' = kept \ {"job"} /\ units' = Deleting
      BY <1>4, <3>1 DEF Purge, Without
    <3>3. Going'
      BY <3>2, DeletingTyped DEF Going
    <3> QED
      BY <1>0, <3>2, <3>3 DEF Removed
  <2> QED
    BY <1>0, <2>1, <2>2, EndAdvances
<1> QED
  BY <1>1, <1>2, <1>3, <1>4 DEF Nomad

LEMMA EndStatic ==
  ASSUME ProgInv, EndInv, Static
  PROVE  EndInv'
<1>0. kind' = kind /\ row' = row /\ kind = "static"
  BY JobKind DEF Static, MakeDir, Spawn, AwaitReady, StopProcess, RemoveDir, Quiet
<1>a. Removed'
  BY <1>0 DEF Removed
<1>1. CASE MakeDir \/ StopProcess \/ RemoveDir
  BY <1>0, <1>1, <1>a, EndAdvances DEF MakeDir, StopProcess, RemoveDir
<1>2. CASE Spawn
  <2>0. FreeIds # {} /\ At("job", "spawn") /\ prog["job"].todo # <<>>
    BY <1>2 DEF Spawn, At
  <2>1. PICK s \in Seq(AllSteps) : s = Tail(prog["job"].todo)
    BY <2>0, ProgTypes, TailSteps DEF ProgInv, Slots
  <2>2. PICK n \in 0 .. MaxUnits : n = FreshId
    BY <2>0, FreshUnit DEF Phases, Slots
  <2>3. prog' = [prog EXCEPT !["job"].unit = n, !["job"].todo = s]
    BY <1>2, <2>1, <2>2 DEF Spawn
  <2>4. Moves("job", s, prog["job"].handle, n)
    BY <2>3, PutTodoUnit DEF ProgInv, Slots
  <2> QED
    BY <1>0, <2>0, <2>4, SlotMakes DEF Removals, Slots
<1>3. CASE AwaitReady
  <2>0. At("job", "awaitReady") /\ prog["job"].todo # <<>>
    BY <1>3 DEF AwaitReady, At
  <2>1. CASE Failed("job")
    BY <1>0, <2>0, <2>1, EndFails
  <2>2. CASE prog' = [prog EXCEPT !["job"].handle = prog["job"].unit, !["job"].todo = Tail(@)]
    <3>1. PICK s \in Seq(AllSteps) : s = Tail(prog["job"].todo)
      BY <2>0, ProgTypes, TailSteps DEF ProgInv, Slots
    <3>2. PICK h \in Handles : h = prog["job"].unit
      BY ProvidersConstants, ProgTypes DEF ProgInv, Handles, Named, Slots
    <3>3. prog' = [prog EXCEPT !["job"].handle = h, !["job"].todo = s]
      BY <2>2, <3>1, <3>2
    <3>4. Moves("job", s, h, prog["job"].unit)
      BY <3>3, PutTodoHandle DEF ProgInv, Slots
    <3> QED
      BY <1>0, <2>0, <3>4, SlotMakes DEF Removals, Slots
  <2> QED
    BY <1>3, <2>1, <2>2 DEF AwaitReady
<1> QED
  BY <1>1, <1>2, <1>3 DEF Static

LEMMA EndNull ==
  ASSUME ProgInv, EndInv, Null
  PROVE  EndInv'
<1>0. kind' = kind /\ row' = row /\ kind = "null"
  BY JobKind DEF Null, NullAdopt, Put, Drop, Quiet
<1>1. CASE NullAdopt
  BY <1>1, EndAdopts
<1>2. CASE Put
  BY <1>0, <1>2, EndMakes DEF Put, Removals
<1>3. CASE Drop
  <2>1. Removed'
    BY <1>0, <1>3 DEF Drop, Removed
  <2> QED
    BY <1>0, <1>3, <2>1, EndAdvances DEF Drop
<1> QED
  BY <1>1, <1>2, <1>3 DEF Null

LEMMA EndAdapters ==
  ASSUME ProgInv, WorldInv, EndInv, Adapters
  PROVE  EndInv'
<1>1. CASE TakeName
  <2>1. Moves("job", Tail(prog["job"].todo), Named, prog["job"].unit)
    BY <1>1, NameTaken
  <2> QED
    BY <1>1, <2>1, SlotMakes DEF TakeName, Quiet, Removals, Slots
<1>2. CASE Refuse
  BY <1>2, EndFails DEF Refuse, Quiet, At
<1> QED
  BY <1>1, <1>2, EndDocker, EndPortTaken, EndCallFails, EndAdopts, EndK8s, EndNomad, EndStatic, EndNull DEF Adapters


LEMMA EndTunnel ==
  ASSUME ProgInv, EndInv, Tunnel
  PROVE  EndInv'
<1>1. CASE Call
  <2>0. At("job", "call") /\ kind' = kind /\ row' = row /\ prog["job"].todo # <<>>
    BY <1>1 DEF Call, Quiet, At
  <2>1. kind = "tunnel"
    BY <2>0, JobKind
  <2>2. Removed'
    BY <2>0, <2>1 DEF Removed
  <2>3. CASE Advance("job")
    BY <2>0, <2>2, <2>3, EndAdvances
  <2>4. CASE Failed("job")
    BY <2>0, <2>4, EndFails
  <2>5. CASE prog' = [prog EXCEPT !["job"].todo = <<@[Len(@)]>>]
    <3>1. PICK s : Moves("job", s, prog["job"].handle, prog["job"].unit)
      BY <2>0, <2>5, LastStep
    <3> QED
      BY <2>0, <2>2, <3>1, EndMoves
  <2> QED
    BY <1>1, <2>3, <2>4, <2>5 DEF Call
<1>2. CASE CallLost
  <2>1. row'.state # "terminated"
    BY <1>2, JobActive DEF CallLost
  <2>2. prog'["job"].op # "terminate"
    <3>1. prog["job"] \in Programs
      BY ProgTypes, TypesHere DEF Slots
    <3>2. [prog["job"] EXCEPT !.todo = <<"fail">>].op = prog["job"].op
      BY <3>1 DEF Programs
    <3> QED
      BY <1>2, <3>2, LostCall, NothingFits
  <2> QED
    BY <2>1, <2>2, EndOther
<1>3. CASE StrayEnds
  <2>1. kind = "tunnel"
    BY <1>3 DEF StrayEnds, ProgInv, StrayFits
  <2>2. prog'["job"] = prog["job"]
    BY <1>3, NothingFits, PutProgram, TypesHere DEF StrayEnds, Becomes, Slots
  <2> QED
    BY <1>3, <2>1, <2>2, EndStray DEF StrayEnds, Quiet
<1>4. CASE AgentDown \/ AgentUp
  BY <1>4, EndStray DEF AgentDown, AgentUp
<1>5. ASSUME NEW b \in BOOLEAN, RevokeLease(b)
      PROVE  EndInv'
  <2>1. prog'["job"] = prog["job"]
    <3>1. PICK q : prog' = [prog EXCEPT !["stray"] = q]
      BY <1>5 DEF RevokeLease
    <3> QED
      BY <3>1, TypesHere DEF ProgsKept, Slots
  <2> QED
    BY <1>5, <2>1, EndStray DEF RevokeLease
<1> QED
  BY <1>1, <1>2, <1>3, <1>4, <1>5 DEF Tunnel

\* What is being deleted, or gone, does not start or die.
LEMMA EndUnits ==
  ASSUME EndInv, kind' = kind, row' = row, prog' = prog, kept' = kept,
         units = {} => units' = {}, Going => Going'
  PROVE  EndInv'
<1>1. Removed => Removed'
  BY DEF Removed
<1>2. NothingLeft => NothingLeft'
  BY DEF NothingLeft, Going
<1> QED
  BY <1>1, <1>2 DEF EndInv, TerminateFits, OverFits

LEMMA EndControl ==
  ASSUME EndInv, ControlPlane
  PROVE  EndInv'
<1>0. kind' = kind /\ row' = row /\ prog' = prog /\ kept' = kept
  BY DEF ControlPlane, UnitStarts, UnitGone, UnitDies, Work, Quiet
<1>1. CASE units' \subseteq units
  BY <1>0, <1>1, EndUnits DEF Going
<1>2. ASSUME NEW u \in units, u.phase # "deleting"
      PROVE  EndInv'
  BY <1>0, <1>2, EndUnits DEF Going
<1> QED
  BY <1>1, <1>2 DEF ControlPlane, UnitStarts, UnitGone, UnitDies, Work

LEMMA EndService ==
  ASSUME ProgInv, WorldInv, EndInv, Service
  PROVE  EndInv'
<1>0. kind' = kind /\ kept' = kept /\ units' = units
  BY DEF Service, BeginProvision, BeginRestart, BeginTerminate, SetHandle, Await, Commit, Fail, Terminated,
     NoWorld, worldVars
<1>a. ASSUME row' = row, prog' = prog
      PROVE  EndInv'
  BY <1>0, <1>a, EndUnits DEF Going
<1>b. ASSUME prog' = [prog EXCEPT !["job"] = Nothing]
      PROVE  prog'["job"] = Nothing
  BY <1>b, NothingFits, PutProgram, TypesHere DEF Becomes, Slots
<1>1. CASE BeginProvision
  <2>1. CASE row.state \in Over \cup {"ready"}
    BY <1>1, <1>a, <2>1 DEF BeginProvision
  <2>2. CASE row.state \notin Over \cup {"ready"}
    <3>1. row'.state # "terminated"
      BY <1>1, <2>2, RowMoves
    <3>2. prog'["job"].op # "terminate"
      BY <1>1, <2>2, ProvisionBegins DEF Started
    <3> QED
      BY <3>1, <3>2, EndOther
  <2> QED
    BY <2>1, <2>2
<1>2. CASE BeginRestart
  <2>1. CASE row.state \in Over
    BY <1>2, <1>a, <2>1 DEF BeginRestart
  <2>2. CASE row.state \notin Over
    <3>1. row'.state # "terminated"
      BY <1>2, <2>2, RowMoves DEF Over
    <3>2. prog'["job"].op # "terminate"
      BY <1>2, <2>2, RestartBegins DEF Started
    <3> QED
      BY <3>1, <3>2, EndOther
  <2> QED
    BY <2>1, <2>2
<1>3. CASE BeginTerminate
  <2>1. CASE row.state = "terminated"
    BY <1>3, <1>a, <2>1 DEF BeginTerminate
  <2>2. CASE row.state # "terminated"
    <3>1. row' = row
      BY <1>3 DEF BeginTerminate
    <3>2. PICK s : /\ Started("terminate", s, row.token)
                   /\ row.handle # NoHandle => \A x : Removes(kind, x) => x \in StepsIn(s)
      BY <1>3, <2>2, TerminateBegins
    <3>3. prog'["job"].handle = row.handle /\ prog'["job"].todo = s
      BY <3>2 DEF Started
    <3>4. row.handle # NoHandle => Removed'
      BY <1>0, <3>2, <3>3 DEF Removed, Removes
    <3> QED
      BY <2>2, <3>1, <3>3, <3>4 DEF EndInv, TerminateFits, OverFits
  <2> QED
    BY <2>1, <2>2
<1>4. CASE SetHandle
  <2>0. At("job", "setHandle") /\ Advance("job") /\ prog["job"].todo # <<>>
    BY <1>4 DEF SetHandle, At
  <2>1. prog["job"].op # "terminate"
    BY <2>0, NotEnding DEF Removals
  <2>2. prog'["job"].op # "terminate"
    BY <2>0, <2>1, AdvanceMoves, TypesHere DEF Moves, Slots
  <2>3. row'.state # "terminated"
    BY <1>4, <2>0, JobActive, RowMoves
  <2> QED
    BY <2>2, <2>3, EndOther
<1>5. CASE Await
  <2>0. At("job", "await") /\ row' = row /\ prog["job"].todo # <<>>
    BY <1>5 DEF Await, At
  <2>1. CASE Advance("job")
    BY <1>0, <2>0, <2>1, EndMakes DEF Removals
  <2>2. CASE prog' = [prog EXCEPT !["job"].op = "undo", !["job"].todo = Terminate \o <<"fail">>]
    BY <1>0, <2>0, <2>2, UndoBegins, JobActive, EndOther
  <2> QED
    BY <1>5, <2>1, <2>2 DEF Await
<1>6. CASE Commit
  <2>0. prog["job"].todo # <<>>
    BY <1>6 DEF Commit, At
  <2>1. row'.state # "terminated"
    BY <1>6, <2>0, JobActive, RowMoves
  <2>2. prog'["job"].op # "terminate"
    BY <1>6, <1>b, NothingFits DEF Commit
  <2> QED
    BY <2>1, <2>2, EndOther
<1>7. CASE Fail
  <2>1. row'.state # "terminated"
    BY <1>7, RowMoves
  <2>2. prog'["job"].op # "terminate"
    BY <1>7, <1>b, NothingFits DEF Fail
  <2> QED
    BY <2>1, <2>2, EndOther
<1>8. CASE Terminated
  <2>0. At("job", "terminated") /\ prog'["job"] = Nothing /\ row'.handle = row.handle
    BY <1>8, <1>b, RowMoves DEF Terminated
  <2>1. prog["job"].op = "terminate"
    <3>1. Fits(kind, prog["job"].op, "terminated")
      BY <2>0, HeadFits
    <3> QED
      BY <3>1 DEF Fits, Makes, Clears, Removes, Calls
  <2>2. StepsIn(prog["job"].todo) = {"terminated"}
    <3>1. PICK s \in Seq(AllSteps) : s = prog["job"].todo
      BY ProgTypes, TypesHere DEF Slots
    <3>2. s # <<>> /\ Head(s) = "terminated" /\ EndsClosed(s)
      BY <2>0, <3>1 DEF At, ProgInv, JobFits
    <3>3. StepsIn(s) = {"terminated"}
      BY <3>2, TailClosed DEF Closing
    <3> QED
      BY <3>1, <3>3
  <2>3. row.handle # NoHandle => Removed
    BY <2>1 DEF EndInv, TerminateFits
  <2>4. NothingLeft'
    BY <1>0, <2>0, <2>2, <2>3 DEF NothingLeft, Removed, Going, WorldInv, KeptFits
  <2> QED
    BY <2>0, <2>4, NothingFits DEF EndInv, TerminateFits, OverFits
<1> QED
  BY <1>1, <1>2, <1>3, <1>4, <1>5, <1>6, <1>7, <1>8 DEF Service

LEMMA EndStep ==
  ASSUME ProgInv, WorldInv, EndInv, [ProvidersNext]_pvars
  PROVE  EndInv'
<1>1. CASE RequestRestart \/ RequestTerminate \/ Reconcile
  <2>1. kind' = kind /\ prog' = prog /\ kept' = kept /\ units' = units
    BY <1>1 DEF RequestRestart, RequestTerminate, Reconcile, NoWorld, worldVars
  <2>2. row'.handle = row.handle /\ row'.state # "terminated"
    BY <1>1, RowRequests
  <2>3. Removed => Removed'
    BY <2>1 DEF Removed, Going
  <2> QED
    BY <2>1, <2>2, <2>3, EndGoesOn
<1>2. CASE Crash
  <2>1. prog'["job"] = Nothing
    BY <1>2, CrashKeeps
  <2>2. row' = row /\ row.state # "terminated"
    BY <1>2 DEF Crash, EndInv, OverFits
  <2> QED
    BY <2>1, <2>2, NothingFits, EndOther
<1>3. CASE UNCHANGED pvars
  BY <1>3, EndUnits DEF pvars, Going
<1> QED
  BY <1>1, <1>2, <1>3, EndAdapters, EndService, EndTunnel, EndControl DEF ProvidersNext

\* The inductive invariant holds, so what a resource is entitled to does.
LEMMA UnitsInvariant == ProvidersSpec => []UnitsInv
<1>1. ProvidersInit => UnitsInv
  <2> SUFFICES ASSUME ProvidersInit
               PROVE  UnitsInv
    OBVIOUS
  <2>1. ProgInv
    BY ProgInitial
  <2>2. prog["job"] = Nothing
    BY DEF ProvidersInit, Slots
  <2>3. WorldInv
    BY DEF ProvidersInit, WorldInv, NoneDeleting, AtMostOne, KeptFits
  <2>4. EndInv
    BY <2>2, NothingFits DEF ProvidersInit, EndInv, TerminateFits, OverFits
  <2> QED
    BY <2>1, <2>3, <2>4 DEF UnitsInv
<1>2. UnitsInv /\ [ProvidersNext]_pvars => UnitsInv'
  BY ProgStep, WorldStep, EndStep DEF UnitsInv
<1> QED
  BY <1>1, <1>2, PTL DEF ProvidersSpec

LEMMA OneAtMost ==
  ASSUME AtMostOne
  PROVE  OneUnit
<1> SUFFICES ASSUME kind # "static"
             PROVE  Cardinality({u \in units : u.phase # "deleting"}) <= 1
  BY DEF OneUnit
<1>1. PICK S : S = {u \in units : u.phase # "deleting"}
  OBVIOUS
<1>2. \A u, v \in S : u = v
  BY <1>1 DEF AtMostOne
<1>3. CASE S = {}
  BY <1>1, <1>3, FS_EmptySet
<1>4. CASE S # {}
  <2>1. PICK u : S = {u}
    BY <1>2, <1>4
  <2>2. Cardinality(S) = 1
    BY <2>1, FS_Singleton
  <2> QED
    BY <1>1, <2>2
<1> QED
  BY <1>3, <1>4

LEMMA NothingLeftFollows ==
  ASSUME EndInv
  PROVE  NothingLeft
<1>1. CASE row.state = "terminated"
  BY <1>1 DEF EndInv, OverFits
<1>2. CASE row.state # "terminated"
  BY <1>2 DEF NothingLeft
<1> QED
  BY <1>1, <1>2

\* One unit while the resource lives (unless its adapter, static, cannot adopt),
\* nothing after a termination that had a handle: whatever calls fail, workers
\* die or agents are lost on the way, the adapters' programs (docker, Kubernetes,
\* Nomad, null) leave no second runtime and no object behind.
THEOREM UnitsFitHolds == ProvidersSpec => []UnitsFit
<1>1. UnitsInv => UnitsFit
  BY OneAtMost, NothingLeftFollows DEF UnitsInv, ProgInv, WorldInv, UnitsFit
<1> QED
  BY <1>1, UnitsInvariant, PTL


-----------------------------------------------------------------------------
(***************************************************************************)
(* Restarts and absences.                                                  *)
(***************************************************************************)

\* Nothing but a termination removes a volume or a directory.
LEMMA RestartSpares ==
  ASSUME ProgInv, prog["job"].op = "restart", NEW x, At("job", x)
  PROVE  x \notin {"removeVolume", "removeDir"}
<1>1. Fits(kind, prog["job"].op, x)
  BY HeadFits
<1> QED
  BY <1>1 DEF Fits, Makes, Clears, Calls

\* A program that goes on is another one.
LEMMA StrayChanges ==
  ASSUME ProgInv, prog["stray"].todo # <<>>, Advance("stray")
  PROVE  prog'["stray"] # prog["stray"]
<1>1. PICK s \in Seq(AllSteps) : s = prog["stray"].todo
  BY ProgTypes, TypesHere DEF Slots
<1>2. s # <<>> /\ prog'["stray"].todo = Tail(s)
  BY <1>1, AdvanceMoves, TypesHere DEF Moves, Slots
<1>3. Len(Tail(s)) # Len(s)
  BY <1>1, <1>2
<1> QED
  BY <1>1, <1>2, <1>3

LEMMA WorkStays ==
  ASSUME ProgInv, ProvidersNext, prog["job"].op = "restart", prog'["stray"] = prog["stray"],
         kind \in {"docker", "static", "tunnel"}, data = "work"
  PROVE  data' = "work"
<1>1. ASSUME NEW p \in Slots, Docker(p)
      PROVE  data' = "work"
  <2>1. CASE VolumeRemove(p) /\ Advance(p)
    <3>1. CASE p = "job"
      BY <2>1, <3>1, RestartSpares DEF VolumeRemove
    <3>2. CASE p = "stray"
      BY <2>1, <3>2, StrayChanges DEF VolumeRemove, At
    <3> QED
      BY <3>1, <3>2 DEF Slots
  <2>2. CASE VolumeCreate(p)
    BY <2>2 DEF VolumeCreate, Workspace
  <2> QED
    BY <1>1, <2>1, <2>2 DEF Docker, ContainerCreate, ContainerStart, ContainerInspect, ContainerRemove, VolumeRemove,
       worldVars
<1>2. ASSUME NEW p \in Slots, PortTaken(p) \/ CallFails(p)
      PROVE  data' = "work"
  BY <1>2 DEF PortTaken, CallFails, worldVars
<1>3. CASE K8s
  <2>1. kind = "k8s"
    BY <1>3, JobKind DEF K8s, K8sAdopt, ApplySecret, ApplyPod, ApplyService, DeletePod, AwaitPodAbsent, DeleteObject
  <2> QED
    BY <2>1
<1>4. CASE Nomad
  <2>1. kind = "nomad"
    BY <1>4, JobKind DEF Nomad, NomadAdopt, Register, Purge, AwaitJobAbsent
  <2> QED
    BY <2>1
<1>5. CASE Static
  <2>1. CASE RemoveDir
    BY <2>1, RestartSpares DEF RemoveDir
  <2>2. CASE MakeDir
    BY <2>2 DEF MakeDir, Workspace
  <2> QED
    BY <1>5, <2>1, <2>2 DEF Static, Spawn, AwaitReady, StopProcess, worldVars
<1>6. CASE DockerAdopt \/ Null \/ TakeName \/ Refuse
  BY <1>6 DEF DockerAdopt, Null, NullAdopt, Put, Drop, TakeName, Refuse, worldVars
<1>7. CASE Service
  BY <1>7 DEF Service, BeginProvision, BeginRestart, BeginTerminate, SetHandle, Await, Commit, Fail, Terminated,
     NoWorld, worldVars
<1>8. CASE Tunnel
  BY <1>8 DEF Tunnel, Call, CallLost, StrayEnds, AgentDown, AgentUp, RevokeLease, worldVars
<1>9. CASE ControlPlane
  BY <1>9 DEF ControlPlane, UnitStarts, UnitGone, UnitDies, Work
<1>10. CASE RequestRestart \/ RequestTerminate \/ Reconcile \/ Crash
  BY <1>10 DEF RequestRestart, RequestTerminate, Reconcile, Crash, NoWorld, worldVars
<1> QED
  BY <1>1, <1>2, <1>3, <1>4, <1>5, <1>6, <1>7, <1>8, <1>9, <1>10 DEF ProvidersNext, Adapters

LEMMA Preserving ==
  ASSUME ProgInv, kind = "docker" \/ "restart_preserves_state" \in Claims
  PROVE  kind \in {"docker", "static", "tunnel"}
<1>1. kind # "k8s"
  BY DEF Claims, K8sClaims
<1>2. kind # "nomad"
  BY DEF Claims, NomadClaims
<1>3. kind # "null"
  BY DEF Claims, NullClaims
<1> QED
  BY <1>1, <1>2, <1>3, KindCases, TypesHere

LEMMA AbsentSuspends ==
  ASSUME ProgInv, ProvidersNext, prog["job"] = Nothing, kind = "tunnel", ~agent.up,
         row.state \in {"ready", "suspended"}
  PROVE  row'.state # "failed"
<1>0. prog["job"].todo = <<>>
  BY NothingFits
<1>1. CASE row' = row
  BY <1>1
<1>2. CASE Service
  BY <1>0, <1>1, <1>2, RowMoves DEF Service, BeginTerminate, Await, Fail, At
<1>3. CASE RequestRestart \/ RequestTerminate
  BY <1>3, RowRequests
<1>4. CASE Reconcile
  <2>1. Status(row.handle) = "suspended"
    BY DEF Status, TunnelStatus
  <2> QED
    BY <1>4, <2>1, RowRequests
<1>5. CASE Adapters
  BY <1>1, <1>5 DEF Adapters, Docker, VolumeCreate, ContainerCreate, ContainerStart, ContainerInspect,
     ContainerRemove, VolumeRemove, PortTaken, CallFails, DockerAdopt, K8s, K8sAdopt, ApplySecret, ApplyPod,
     ApplyService, DeletePod, AwaitPodAbsent, DeleteObject, Nomad, NomadAdopt, Register, Purge, AwaitJobAbsent,
     Static, MakeDir, Spawn, AwaitReady, StopProcess, RemoveDir, Null, NullAdopt, Put, Drop, TakeName, Refuse, Quiet
<1>6. CASE Tunnel
  BY <1>1, <1>6 DEF Tunnel, Call, CallLost, StrayEnds, AgentDown, AgentUp, RevokeLease, Quiet
<1>7. CASE ControlPlane \/ Crash
  BY <1>1, <1>7 DEF ControlPlane, UnitStarts, UnitGone, UnitDies, Work, Crash, Quiet
<1> QED
  BY <1>2, <1>3, <1>4, <1>5, <1>6, <1>7 DEF ProvidersNext

\* A restart never touches the work in a workspace that the adapter says it
\* preserves, wherever it is cut short, and an agent that is offline suspends
\* its resource and never fails it.
THEOREM WorkOutlastsHolds == ProvidersSpec => WorkOutlasts
<1>1. ASSUME UnitsInv, [ProvidersNext]_pvars
      PROVE  [(/\ prog.job.op = "restart" /\ prog'.stray = prog.stray
               /\ kind = "docker" \/ "restart_preserves_state" \in Claims
               /\ data = "work") => data' = "work"]_pvars
  BY <1>1, Preserving, WorkStays DEF UnitsInv
<1>2. ASSUME UnitsInv, [ProvidersNext]_pvars
      PROVE  [prog.job = Nothing /\ kind = "tunnel" /\ ~agent.up /\ row.state \in {"ready", "suspended"}
              => row'.state # "failed"]_pvars
  BY <1>2, AbsentSuspends DEF UnitsInv
<1>3. ProvidersSpec => WorkSurvivesRestart
  BY <1>1, UnitsInvariant, PTL DEF ProvidersSpec, WorkSurvivesRestart
<1>4. ProvidersSpec => DisconnectSuspends
  BY <1>2, UnitsInvariant, PTL DEF ProvidersSpec, DisconnectSuspends
<1> QED
  BY <1>3, <1>4 DEF WorkOutlasts


-----------------------------------------------------------------------------
(***************************************************************************)
(* Whose token the units have: how a job goes on.                          *)
(***************************************************************************)

LEMMA OrderTail ==
  ASSUME NEW S, NEW s \in Seq(S), s # <<>>, InOrder(s)
  PROVE  /\ InOrder(Tail(s))
         /\ Head(s) = "pod" => "secret" \notin StepsIn(s)
         /\ Head(s) = "secret" => "awaitPodAbsent" \notin StepsIn(s)
<1>0. PICK n : n = Len(s)
  OBVIOUS
<1>1. n \in Nat /\ n # 0 /\ DOMAIN s = 1 .. n /\ Head(s) = s[1]
  BY <1>0
<1>2. Len(Tail(s)) = n - 1 /\ \A i \in 1 .. n - 1 : Tail(s)[i] = s[i + 1]
  BY <1>0
<1>3. \A i, j \in 1 .. n : i < j => /\ s[j] = "secret" => s[i] # "pod"
                                    /\ s[j] = "awaitPodAbsent" => s[i] # "secret"
  BY <1>0 DEF InOrder
<1>4. ASSUME NEW i \in 1 .. n - 1, NEW j \in 1 .. n - 1, i < j
      PROVE  /\ Tail(s)[j] = "secret" => Tail(s)[i] # "pod"
             /\ Tail(s)[j] = "awaitPodAbsent" => Tail(s)[i] # "secret"
  <2>1. i + 1 \in 1 .. n /\ j + 1 \in 1 .. n /\ i + 1 < j + 1
    BY <1>1, <1>4
  <2> QED
    BY <1>2, <1>3, <2>1
<1>5. ASSUME NEW j \in 1 .. n, j # 1
      PROVE  /\ s[j] = "secret" => s[1] # "pod"
             /\ s[j] = "awaitPodAbsent" => s[1] # "secret"
  <2>1. 1 \in 1 .. n /\ 1 < j
    BY <1>1, <1>5
  <2> QED
    BY <1>3, <2>1
<1>6. InOrder(Tail(s))
  BY <1>2, <1>4 DEF InOrder
<1>7. ASSUME Head(s) = "pod", "secret" \in StepsIn(s)
      PROVE  FALSE
  <2>1. PICK j \in 1 .. n : s[j] = "secret"
    BY <1>1, <1>7 DEF StepsIn
  <2>2. j # 1
    BY <1>1, <1>7, <2>1
  <2> QED
    BY <1>1, <1>5, <1>7, <2>1, <2>2
<1>8. ASSUME Head(s) = "secret", "awaitPodAbsent" \in StepsIn(s)
      PROVE  FALSE
  <2>1. PICK j \in 1 .. n : s[j] = "awaitPodAbsent"
    BY <1>1, <1>8 DEF StepsIn
  <2>2. j # 1
    BY <1>1, <1>8, <2>1
  <2> QED
    BY <1>1, <1>5, <1>8, <2>1, <2>2
<1> QED
  BY <1>6, <1>7, <1>8

LEMMA OrderCat ==
  ASSUME NEW S, NEW s \in Seq(S), NEW t \in Seq(S), InOrder(s), InOrder(t),
         \/ "pod" \notin StepsIn(s) /\ "secret" \notin StepsIn(s)
         \/ "secret" \notin StepsIn(t) /\ "awaitPodAbsent" \notin StepsIn(t)
  PROVE  InOrder(s \o t)
<1>1. PICK m, n : m = Len(s) /\ n = Len(t)
  OBVIOUS
<1>2. m \in Nat /\ n \in Nat /\ DOMAIN s = 1 .. m /\ DOMAIN t = 1 .. n
  BY <1>1
<1>3. PICK r : r = s \o t
  OBVIOUS
<1>4. Len(r) = m + n /\ \A i \in 1 .. m + n : r[i] = IF i <= m THEN s[i] ELSE t[i - m]
  BY <1>1, <1>3
<1>5. ASSUME NEW i \in 1 .. m + n, NEW j \in 1 .. m + n, i < j
      PROVE  /\ r[j] = "secret" => r[i] # "pod"
             /\ r[j] = "awaitPodAbsent" => r[i] # "secret"
  <2>1. CASE j <= m
    <3>1. i \in 1 .. m /\ j \in 1 .. m /\ i <= m
      BY <1>2, <1>5, <2>1
    <3>2. r[i] = s[i] /\ r[j] = s[j]
      BY <1>4, <2>1, <3>1
    <3> QED
      BY <1>1, <1>5, <3>1, <3>2 DEF InOrder
  <2>2. CASE ~(i <= m)
    <3>1. i - m \in 1 .. n /\ j - m \in 1 .. n /\ i - m < j - m /\ ~(j <= m)
      BY <1>2, <1>5, <2>2
    <3>2. r[i] = t[i - m] /\ r[j] = t[j - m]
      BY <1>4, <2>2, <3>1
    <3> QED
      BY <1>1, <3>1, <3>2 DEF InOrder
  <2>3. CASE i <= m /\ ~(j <= m)
    <3>1. i \in 1 .. m /\ j - m \in 1 .. n
      BY <1>2, <2>3
    <3>2. r[i] = s[i] /\ r[j] = t[j - m]
      BY <1>4, <2>3
    <3>3. r[i] \in StepsIn(s) /\ r[j] \in StepsIn(t)
      BY <1>2, <3>1, <3>2 DEF StepsIn
    <3> QED
      BY <3>3
  <2> QED
    BY <1>2, <2>1, <2>2, <2>3
<1> QED
  BY <1>3, <1>4, <1>5 DEF InOrder

LEMMA K8sOrdered ==
  ASSUME NEW r, r = K8sRestart \/ r = <<"refuse">>
  PROVE  InOrder(r \o <<"await", "commit">>)
<1>1. PICK a : a = <<"deletePod", "awaitPodAbsent">>
  OBVIOUS
<1>2. PICK b : b = K8sProvision
  OBVIOUS
<1>3. PICK c : c = <<"await", "commit">>
  OBVIOUS
<1>4. a \in Seq(AllSteps) /\ StepsIn(a) = {"deletePod", "awaitPodAbsent"}
  BY <1>1 DEF StepsIn, AllSteps, AdapterSteps
<1>5. b \in Seq(AllSteps)
  BY <1>2 DEF K8sProvision, AllSteps, AdapterSteps
<1>6. c \in Seq(AllSteps) /\ StepsIn(c) = {"await", "commit"}
  BY <1>3, Closings
<1>7. InOrder(a)
  <2>1. Len(a) = 2 /\ a[1] = "deletePod"
    BY <1>1
  <2>2. \A i, j \in 1 .. 2 : i < j => i = 1
    OBVIOUS
  <2> QED
    BY <2>1, <2>2 DEF InOrder
<1>8. InOrder(b)
  <2>1. Len(b) = 4 /\ b[1] = "secret" /\ b[2] = "pod" /\ b[3] = "service" /\ b[4] = "name"
    BY <1>2 DEF K8sProvision
  <2>2. \A j \in 1 .. 4 : b[j] # "awaitPodAbsent" /\ (b[j] = "secret" => j = 1)
    BY <2>1
  <2>3. \A i, j \in 1 .. 4 : i < j => j # 1
    OBVIOUS
  <2> QED
    BY <2>1, <2>2, <2>3 DEF InOrder
<1>9. InOrder(c)
  <2>1. Len(c) = 2 /\ c[1] = "await" /\ c[2] = "commit"
    BY <1>3
  <2>2. \A j \in 1 .. 2 : c[j] # "awaitPodAbsent" /\ c[j] # "secret"
    BY <2>1
  <2> QED
    BY <2>1, <2>2 DEF InOrder
<1>10. a \o b \in Seq(AllSteps) /\ InOrder(a \o b)
  BY <1>4, <1>5, <1>7, <1>8, CatSteps, OrderCat
<1>11. CASE r = K8sRestart
  <2>1. r = a \o b
    BY <1>1, <1>2, <1>11 DEF K8sRestart
  <2> QED
    BY <1>3, <1>6, <1>9, <1>10, <2>1, OrderCat
<1>12. CASE r = <<"refuse">>
  <2>1. r \in Seq(AllSteps)
    BY <1>12 DEF AllSteps, AdapterSteps
  <2>2. InOrder(r)
    BY <1>12 DEF InOrder
  <2> QED
    BY <1>3, <1>6, <1>9, <2>1, <2>2, OrderCat
<1> QED
  BY <1>11, <1>12

\* The job goes on past step x, or fails, or ends.
Goes(x) ==
    \/ prog'["job"] = Nothing
    \/ /\ prog'["job"].op = prog["job"].op /\ prog'["job"].token = prog["job"].token
       /\ Underway' => Underway
       /\ Underway' => \A y \in Left : y = x \/ y \in Left'
       /\ Underway' /\ kind = "k8s" => \A y \in Left' : y \in Left
       /\ kind = "k8s" /\ prog["job"].op = "restart" /\ InOrder(prog["job"].todo) => InOrder(prog'["job"].todo)
\* And it refers to the units it did.
Follows(x) ==
    /\ Goes(x)
    /\ \/ prog'["job"] = Nothing
       \/ prog'["job"].handle = prog["job"].handle /\ prog'["job"].unit = prog["job"].unit

LEMMA SameFollows ==
  ASSUME NEW x, prog'["job"] = prog["job"]
  PROVE  Follows(x)
BY DEF Follows, Goes, Underway, Left

LEMMA FailFollows ==
  ASSUME ProgInv, NEW x, Moves("job", <<"fail">>, prog["job"].handle, prog["job"].unit)
  PROVE  Follows(x)
<1>1. StepsIn(<<"fail">>) = {"fail"} /\ InOrder(<<"fail">>)
  BY OneStep DEF InOrder
<1>2. ~Underway'
  BY <1>1 DEF Moves, Underway, Left
<1> QED
  BY <1>1, <1>2 DEF Moves, Follows, Goes

LEMMA TailGoes ==
  ASSUME ProgInv, NEW x, At("job", x), x # "refuse", NEW h, NEW n,
         Moves("job", Tail(prog["job"].todo), h, n)
  PROVE  Goes(x)
<1>1. PICK s \in Seq(AllSteps) : s = prog["job"].todo
  BY ProgTypes, TypesHere DEF Slots
<1>2. s # <<>> /\ Head(s) = x /\ prog'["job"].todo = Tail(s)
  BY <1>1 DEF At, Moves
<1>3. /\ \A y \in StepsIn(Tail(s)) : y \in StepsIn(s)
      /\ \A y \in StepsIn(s) : y = x \/ y \in StepsIn(Tail(s))
  BY <1>2, TailSteps
<1>4. Left = StepsIn(s) /\ Left' = StepsIn(Tail(s))
  BY <1>1, <1>2 DEF Left
<1>5. Underway' => Underway
  BY <1>3, <1>4 DEF Underway, Moves
<1>6. InOrder(s) => InOrder(Tail(s))
  BY <1>2, OrderTail
<1> QED
  BY <1>1, <1>2, <1>3, <1>4, <1>5, <1>6 DEF Goes, Moves

LEMMA SlotFollows ==
  ASSUME ProgInv, NEW p \in Slots, NEW x, At(p, x), x # "refuse", Advance(p)
  PROVE  Follows(x)
<1>1. Moves(p, Tail(prog[p].todo), prog[p].handle, prog[p].unit)
  BY AdvanceMoves, TypesHere DEF At
<1>2. CASE p = "job"
  BY <1>1, <1>2, TailGoes DEF Follows, Moves
<1>3. CASE p = "stray"
  BY <1>1, <1>3, SameFollows DEF Moves, Slots
<1> QED
  BY <1>2, <1>3 DEF Slots

LEMMA SlotFailFollows ==
  ASSUME ProgInv, NEW p \in Slots, NEW x, Failed(p)
  PROVE  Follows(x)
<1>1. CASE Becomes(p, Nothing)
  <2>1. CASE p = "job"
    BY <1>1, <2>1 DEF Becomes, Follows, Goes
  <2>2. CASE p = "stray"
    BY <1>1, <2>2, SameFollows DEF Becomes, Slots
  <2> QED
    BY <2>1, <2>2 DEF Slots
<1>2. CASE p = "job" /\ Moves(p, <<"fail">>, prog[p].handle, prog[p].unit)
  BY <1>2, FailFollows
<1> QED
  BY <1>1, <1>2, FailedMoves, TypesHere


\* The units a step leaves have the tokens they had, or an id of their own.
KinStep ==
    \A u \in units' : u.id \in FreeIds \/ \E v \in units : v.id = u.id /\ v.token = u.token
KinDocker ==
    kind = "docker" =>
        \A u \in units' : u.token = row.token \/ \E v \in units : v.token = u.token
KinK8s ==
    kind = "k8s" =>
        /\ \A u \in Serving' :
             \/ u.token = secret /\ "secret" \in kept
             \/ \E v \in Serving : v.token = u.token
        /\ "secret" \in kept' => secret' = row.token \/ (secret' = secret /\ "secret" \in kept)
TokensFit == (Handled => KinStep) /\ KinDocker /\ KinK8s

LEMMA KinTokens ==
  ASSUME KinStep, NEW h, h \notin FreeIds, NEW t, HaveToken(UnitOf(h), t)
  PROVE  \A u \in units' : u.id = h => u.token = t
BY DEF KinStep, HaveToken, UnitOf

LEMMA NamedNotFree ==
  /\ row.handle \notin FreeIds
  /\ prog["job"].handle \notin FreeIds /\ prog["job"].unit \notin FreeIds
BY DEF FreeIds, Slots

LEMMA QueueGoes ==
  ASSUME QueueFits, NEW x, Goes(x), row' = row, queue' = queue
  PROVE  QueueFits'
BY NothingFits DEF QueueFits, Goes

LEMMA LiveSame ==
  ASSUME row' = row, queue' = queue
  PROVE  Live' <=> Live
BY DEF Live

LEMMA RowStays ==
  ASSUME RowFresh, row' = row, queue' = queue, kind' = kind, TokensFit
  PROVE  RowFresh'
<1> SUFFICES ASSUME Live'
             PROVE  /\ Handled' => HaveToken(UnitOf(row.handle), row.token)'
                    /\ kind' = "docker" => HaveToken(units, row.token)'
                    /\ kind' = "k8s" => /\ HaveToken(Serving, row.token)'
                                        /\ "secret" \in kept' => secret' = row'.token
  BY DEF RowFresh
<1>0. Live
  BY LiveSame
<1>1. ASSUME Handled
      PROVE  HaveToken(UnitOf(row.handle), row.token)'
  <2>1. KinStep /\ HaveToken(UnitOf(row.handle), row.token)
    BY <1>0, <1>1 DEF RowFresh, TokensFit
  <2>2. \A u \in units' : u.id = row.handle => u.token = row.token
    BY <2>1, KinTokens, NamedNotFree
  <2> QED
    BY <2>2 DEF HaveToken, UnitOf
<1>2. ASSUME kind = "docker"
      PROVE  HaveToken(units, row.token)'
  BY <1>0, <1>2 DEF RowFresh, TokensFit, KinDocker, HaveToken
<1>3. ASSUME kind = "k8s"
      PROVE  HaveToken(Serving, row.token)' /\ ("secret" \in kept' => secret' = row'.token)
  <2>1. HaveToken(Serving, row.token) /\ ("secret" \in kept => secret = row.token)
    BY <1>0, <1>3 DEF RowFresh
  <2>2. \A u \in Serving' : u.token = row.token
    BY <1>3, <2>1 DEF TokensFit, KinK8s, HaveToken
  <2>3. "secret" \in kept' => secret' = row.token
    BY <1>3, <2>1 DEF TokensFit, KinK8s
  <2> QED
    BY <2>2, <2>3 DEF HaveToken
<1> QED
  BY <1>1, <1>2, <1>3 DEF Handled

\* The program's own units, when it refers to the ones it did.
LEMMA ProvisionStays ==
  ASSUME ProvisionFresh, NEW x, Follows(x), row' = row, queue' = queue, kind' = kind, TokensFit
  PROVE  ProvisionFresh'
<1> SUFFICES ASSUME prog'["job"].op = "provision", Live', Handled'
             PROVE  /\ HaveToken(UnitOf(prog["job"].handle), row.token)'
                    /\ HaveToken(UnitOf(prog["job"].unit), row.token)'
  BY DEF ProvisionFresh
<1>1. Live /\ Handled /\ KinStep
  BY LiveSame DEF Handled, TokensFit
<1>2. /\ prog["job"].op = "provision"
      /\ prog'["job"].handle = prog["job"].handle /\ prog'["job"].unit = prog["job"].unit
  BY NothingFits DEF Follows, Goes
<1>3. HaveToken(UnitOf(prog["job"].handle), row.token) /\ HaveToken(UnitOf(prog["job"].unit), row.token)
  BY <1>1, <1>2 DEF ProvisionFresh
<1>4. \A u \in units' : u.id = prog["job"].handle => u.token = row.token
  BY <1>1, <1>3, KinTokens, NamedNotFree
<1>5. \A u \in units' : u.id = prog["job"].unit => u.token = row.token
  BY <1>1, <1>3, KinTokens, NamedNotFree
<1> QED
  BY <1>2, <1>4, <1>5 DEF HaveToken, UnitOf

LEMMA HandleStays ==
  ASSUME HandleRestarts, NEW x, Follows(x), x \notin {"inspect", "awaitReady"}, row' = row, kind' = kind, TokensFit
  PROVE  HandleRestarts'
<1> SUFFICES ASSUME Handled', prog'["job"].op = "restart"
             PROVE  /\ HaveToken(UnitOf(prog["job"].unit), row.token)'
                    /\ Underway' /\ "inspect" \notin Left' /\ "awaitReady" \notin Left'
                         => HaveToken(UnitOf(prog["job"].handle), row.token)'
  BY DEF HandleRestarts, Underway
<1>1. Handled /\ KinStep
  BY DEF Handled, TokensFit
<1>2. /\ prog["job"].op = "restart"
      /\ prog'["job"].handle = prog["job"].handle /\ prog'["job"].unit = prog["job"].unit
  BY NothingFits DEF Follows, Goes
<1>3. HaveToken(UnitOf(prog["job"].unit), row.token)
  BY <1>1, <1>2 DEF HandleRestarts
<1>4. \A u \in units' : u.id = prog["job"].unit => u.token = row.token
  BY <1>1, <1>3, KinTokens, NamedNotFree
<1>5. ASSUME Underway', "inspect" \notin Left', "awaitReady" \notin Left'
      PROVE  HaveToken(UnitOf(prog["job"].handle), row.token)'
  <2>1. Underway /\ "inspect" \notin Left /\ "awaitReady" \notin Left
    BY <1>2, <1>5, NothingFits DEF Follows, Goes
  <2>2. HaveToken(UnitOf(prog["job"].handle), row.token)
    BY <1>1, <2>1 DEF HandleRestarts
  <2>3. \A u \in units' : u.id = prog["job"].handle => u.token = row.token
    BY <1>1, <2>2, KinTokens, NamedNotFree
  <2> QED
    BY <1>2, <2>3 DEF HaveToken, UnitOf
<1> QED
  BY <1>2, <1>4, <1>5 DEF HaveToken, UnitOf

LEMMA DockerStays ==
  ASSUME DockerRestarts, NEW x, Goes(x), x # "create", row' = row, kind' = kind, TokensFit
  PROVE  DockerRestarts'
<1> SUFFICES ASSUME kind = "docker", Underway', "create" \notin Left'
             PROVE  HaveToken(units, row.token)'
  BY DEF DockerRestarts
<1>1. Underway /\ "create" \notin Left
  BY NothingFits DEF Goes, Underway
<1>2. HaveToken(units, row.token)
  BY <1>1 DEF DockerRestarts
<1> QED
  BY <1>2 DEF TokensFit, KinDocker, HaveToken

LEMMA K8sStays ==
  ASSUME K8sRestarts, NEW x, Goes(x), x \notin {"awaitPodAbsent", "secret"}, row' = row, kind' = kind, TokensFit,
         kind = "k8s" => /\ secret' = secret
                         /\ units = {} /\ Underway /\ "secret" \in Left => units' = {}
  PROVE  K8sRestarts'
<1> SUFFICES ASSUME kind = "k8s", prog'["job"].op = "restart"
             PROVE  /\ InOrder(prog["job"].todo)'
                    /\ Underway' /\ "awaitPodAbsent" \in Left' => "secret" \in Left'
                    /\ Underway' /\ "awaitPodAbsent" \notin Left' /\ "secret" \in Left' => units' = {}
                    /\ Underway' /\ "awaitPodAbsent" \notin Left' /\ "secret" \notin Left'
                         => secret' = row'.token /\ HaveToken(Serving, row.token)'
  BY DEF K8sRestarts, Underway
<1>1. prog["job"].op = "restart" /\ InOrder(prog'["job"].todo)
  BY NothingFits DEF Goes, K8sRestarts
<1>2. ASSUME Underway'
      PROVE  /\ Underway
             /\ "awaitPodAbsent" \in Left' <=> "awaitPodAbsent" \in Left
             /\ "secret" \in Left' <=> "secret" \in Left
  BY <1>2, NothingFits DEF Goes, Underway
<1>3. ASSUME Underway, "awaitPodAbsent" \notin Left, "secret" \notin Left
      PROVE  secret' = row'.token /\ HaveToken(Serving, row.token)'
  <2>1. secret = row.token /\ HaveToken(Serving, row.token)
    BY <1>3 DEF K8sRestarts
  <2>2. \A u \in Serving' : u.token = row.token
    BY <2>1 DEF TokensFit, KinK8s, HaveToken
  <2> QED
    BY <2>1, <2>2 DEF HaveToken
<1> QED
  BY <1>1, <1>2, <1>3 DEF K8sRestarts


Turns == {"inspect", "awaitReady", "create", "awaitPodAbsent", "secret", "pod"}

\* A step that turns nothing keeps every token where it belongs.
LEMMA FreshStays ==
  ASSUME FreshInv, NEW x, Follows(x), x \notin Turns, row' = row, queue' = queue, kind' = kind, TokensFit,
         kind = "k8s" => secret' = secret /\ (units = {} => units' = {})
  PROVE  FreshInv'
<1>1. Goes(x)
  BY DEF Follows
<1>2. QueueFits' /\ RowFresh' /\ ProvisionFresh'
  BY <1>1, QueueGoes, RowStays, ProvisionStays DEF FreshInv
<1>3. HandleRestarts'
  BY HandleStays DEF FreshInv, Turns
<1>4. DockerRestarts'
  BY <1>1, DockerStays DEF FreshInv, Turns
<1>5. K8sRestarts'
  BY <1>1, K8sStays DEF FreshInv, Turns
<1> QED
  BY <1>2, <1>3, <1>4, <1>5 DEF FreshInv

LEMMA TokensShrink ==
  ASSUME units' \subseteq units, secret' = secret, "secret" \in kept' => "secret" \in kept
  PROVE  TokensFit
<1>1. Serving' \subseteq Serving
  BY DEF Serving
<1> QED
  BY <1>1 DEF TokensFit, KinStep, KinDocker, KinK8s

LEMMA FreshShrinks ==
  ASSUME FreshInv, NEW x, Follows(x), x \notin Turns, row' = row, queue' = queue, kind' = kind,
         units' \subseteq units, secret' = secret, "secret" \in kept' => "secret" \in kept
  PROVE  FreshInv'
BY TokensShrink, FreshStays

\* A failed step and one of the agent's turn nothing either.
LEMMA FreshFails ==
  ASSUME ProgInv, FreshInv, NEW p \in Slots, Failed(p), row' = row, queue' = queue, kind' = kind,
         units' \subseteq units, secret' = secret, kept' \subseteq kept
  PROVE  FreshInv'
<1>1. Follows("fail")
  BY SlotFailFollows
<1> QED
  BY <1>1, FreshShrinks DEF Turns

LEMMA FreshSame ==
  ASSUME FreshInv, prog'["job"] = prog["job"], row' = row, queue' = queue, kind' = kind,
         units' \subseteq units, secret' = secret, kept' \subseteq kept \cup {"volume"}
  PROVE  FreshInv'
<1>1. Follows("fail")
  BY SameFollows
<1> QED
  BY <1>1, FreshShrinks DEF Turns

LEMMA FreshAdvances ==
  ASSUME ProgInv, FreshInv, NEW p \in Slots, NEW x, At(p, x), x \notin Turns, x # "refuse", Advance(p),
         row' = row, queue' = queue, kind' = kind,
         units' \subseteq units, secret' = secret, "secret" \in kept' => "secret" \in kept
  PROVE  FreshInv'
<1>1. Follows(x)
  BY SlotFollows
<1> QED
  BY <1>1, FreshShrinks

LEMMA PhaseTokens ==
  ASSUME ProgInv, NEW u \in units, NEW ph \in Phases, SetPhase(u, ph), secret' = secret, kept' = kept,
         kind = "k8s" => ph \notin {"running", "deleting"}
  PROVE  TokensFit /\ (units = {} => units' = {})
<1>1. u \in Units
  BY TypesHere DEF WorldTypes
<1>2. PICK v : v = [u EXCEPT !.phase = ph]
  OBVIOUS
<1>3. v.id = u.id /\ v.token = u.token /\ v.phase = ph
  BY <1>1, <1>2 DEF Units
<1>4. units' = (units \ {u}) \cup {v}
  BY <1>2 DEF SetPhase
<1>5. kind = "k8s" => Serving' \subseteq Serving
  BY <1>3, <1>4 DEF Serving
<1>6. KinStep /\ KinDocker
  BY <1>3, <1>4 DEF KinStep, KinDocker
<1>7. KinK8s
  BY <1>5 DEF KinK8s
<1> QED
  BY <1>6, <1>7 DEF TokensFit

\* The job's own token is the one on file.
LEMMA JobToken ==
  ASSUME ProgInv, FreshInv, NEW x, At("job", x)
  PROVE  prog["job"].token = row.token
BY HeadFits DEF FreshInv, QueueFits

\* A job makes a unit: its own, with the token on file.
LEMMA JobMakes ==
  ASSUME ProgInv, FreshInv, NEW x \in {"create", "spawn"}, At("job", x), FreeIds # {}, NEW ph \in Phases,
         units' = units \cup {NewUnit("job", ph)}, NEW n, n = FreshId,
         Moves("job", Tail(prog["job"].todo), prog["job"].handle, n),
         kind \in {"docker", "static", "tunnel"}, kind = "docker" => units = {},
         row' = row, queue' = queue, kind' = kind, secret' = secret, kept' = kept
  PROVE  FreshInv'
<1>1. PICK w : w = NewUnit("job", ph)
  OBVIOUS
<1>2. w.id = n /\ w.token = row.token /\ n \in FreeIds /\ units' = units \cup {w}
  BY <1>1, FreshUnit, JobToken DEF Slots
<1>3. \A u \in units : u.id # n
  BY <1>2 DEF FreeIds
<1>4. KinStep /\ KinDocker
  BY <1>2 DEF KinStep, KinDocker
<1>5. TokensFit
  BY <1>4 DEF TokensFit, KinK8s
<1>6. Goes(x)
  BY TailGoes
<1>7. QueueFits' /\ RowFresh'
  BY <1>5, <1>6, QueueGoes, RowStays DEF FreshInv
<1>8. /\ prog'["job"].op = prog["job"].op /\ prog'["job"].handle = prog["job"].handle /\ prog'["job"].unit = n
  BY DEF Moves
<1>9. \A u \in units' : u.id = n => u.token = row.token
  BY <1>2, <1>3
<1>10. ProvisionFresh'
  <2> SUFFICES ASSUME prog'["job"].op = "provision", Live', Handled'
               PROVE  /\ HaveToken(UnitOf(prog["job"].handle), row.token)'
                      /\ HaveToken(UnitOf(prog["job"].unit), row.token)'
    BY DEF ProvisionFresh
  <2>1. Live /\ Handled /\ prog["job"].op = "provision"
    BY <1>8, LiveSame DEF Handled
  <2>2. HaveToken(UnitOf(prog["job"].handle), row.token)
    BY <2>1 DEF FreshInv, ProvisionFresh
  <2>3. \A u \in units' : u.id = prog["job"].handle => u.token = row.token
    BY <1>4, <2>2, KinTokens, NamedNotFree
  <2> QED
    BY <1>8, <1>9, <2>3 DEF HaveToken, UnitOf
<1>11. HandleRestarts'
  <2>1. ASSUME Handled', prog'["job"].op = "restart"
        PROVE  HaveToken(UnitOf(prog["job"].unit), row.token)'
    BY <1>8, <1>9 DEF HaveToken, UnitOf
  <2>2. ASSUME Handled', Underway', "inspect" \notin Left', "awaitReady" \notin Left'
        PROVE  HaveToken(UnitOf(prog["job"].handle), row.token)'
    <3>1. Handled /\ Underway /\ "inspect" \notin Left /\ "awaitReady" \notin Left
      BY <1>6, <2>2, NothingFits DEF Goes, Underway, Handled
    <3>2. HaveToken(UnitOf(prog["job"].handle), row.token)
      BY <3>1 DEF FreshInv, HandleRestarts
    <3>3. \A u \in units' : u.id = prog["job"].handle => u.token = row.token
      BY <1>4, <3>2, KinTokens, NamedNotFree
    <3> QED
      BY <1>8, <3>3 DEF HaveToken, UnitOf
  <2> QED
    BY <2>1, <2>2 DEF HandleRestarts
<1>12. DockerRestarts'
  BY <1>2 DEF DockerRestarts, HaveToken
<1>13. K8sRestarts'
  BY DEF K8sRestarts
<1> QED
  BY <1>7, <1>10, <1>11, <1>12, <1>13 DEF FreshInv

\* A job takes the unit it made for its handle.
LEMMA JobInspects ==
  ASSUME ProgInv, FreshInv, NEW x \in {"inspect", "awaitReady"}, At("job", x),
         Moves("job", Tail(prog["job"].todo), prog["job"].unit, prog["job"].unit),
         kind \in {"docker", "static", "tunnel"},
         row' = row, queue' = queue, kind' = kind, units' = units, secret' = secret, kept' = kept
  PROVE  FreshInv'
<1>1. TokensFit
  BY TokensShrink
<1>2. Goes(x)
  BY TailGoes
<1>3. QueueFits' /\ RowFresh'
  BY <1>1, <1>2, QueueGoes, RowStays DEF FreshInv
<1>4. /\ prog'["job"].op = prog["job"].op
      /\ prog'["job"].handle = prog["job"].unit /\ prog'["job"].unit = prog["job"].unit
  BY DEF Moves
<1>5. ProvisionFresh'
  <2>1. Live' /\ Handled' => Live /\ Handled
    BY LiveSame DEF Handled
  <2> QED
    BY <1>4, <2>1 DEF FreshInv, ProvisionFresh, HaveToken, UnitOf
<1>6. HandleRestarts'
  <2>1. Handled' => Handled
    BY DEF Handled
  <2>2. Underway' => prog'["job"].op = "restart"
    BY DEF Underway
  <2> QED
    BY <1>4, <2>1, <2>2 DEF FreshInv, HandleRestarts, HaveToken, UnitOf
<1>7. DockerRestarts'
  BY <1>1, <1>2, DockerStays DEF FreshInv
<1>8. K8sRestarts'
  BY DEF K8sRestarts
<1> QED
  BY <1>3, <1>5, <1>6, <1>7, <1>8 DEF FreshInv


LEMMA FreshDocker ==
  ASSUME ProgInv, FreshInv, NEW p \in Slots, Docker(p)
  PROVE  FreshInv'
<1>0. row' = row /\ queue' = queue /\ kind' = kind /\ kind \in {"docker", "tunnel"} /\ secret' = secret
  BY DockerKind DEF Docker, VolumeCreate, ContainerCreate, ContainerStart, ContainerInspect, ContainerRemove,
     VolumeRemove, Quiet, worldVars
<1>1. CASE VolumeCreate(p)
  BY <1>0, <1>1, FreshAdvances DEF VolumeCreate, With, Turns
<1>2. CASE ContainerCreate(p)
  <2>0. At(p, "create") /\ FreeIds # {} /\ prog[p].todo # <<>> /\ kept' = kept
    BY <1>2 DEF ContainerCreate, At
  <2>1. CASE Failed(p) /\ units' = units
    BY <1>0, <2>0, <2>1, FreshFails
  <2>2. CASE /\ units = {} /\ units' = units \cup {NewUnit(p, "created")}
             /\ prog' = [prog EXCEPT ![p].unit = FreshId, ![p].todo = Tail(@)]
    <3>1. PICK s \in Seq(AllSteps) : s = Tail(prog[p].todo)
      BY <2>0, ProgTypes, TailSteps DEF ProgInv
    <3>2. PICK n \in 0 .. MaxUnits : n = FreshId
      BY <2>0, FreshUnit DEF Phases
    <3>3. prog' = [prog EXCEPT ![p].unit = n, ![p].todo = s]
      BY <2>2, <3>1, <3>2
    <3>4. Moves(p, s, prog[p].handle, n)
      BY <3>3, PutTodoUnit DEF ProgInv
    <3>5. CASE p = "job"
      <4>1. PICK ph \in Phases : ph = "created"
        BY DEF Phases
      <4>2. units' = units \cup {NewUnit("job", ph)}
        BY <2>2, <3>5, <4>1
      <4>3. Moves("job", Tail(prog["job"].todo), prog["job"].handle, n)
        BY <3>1, <3>4, <3>5
      <4>4. At("job", "create")
        BY <2>0, <3>5
      <4> QED
        BY <1>0, <2>0, <2>2, <3>2, <4>2, <4>3, <4>4, JobMakes
    <3>6. CASE p = "stray"
      <4>1. kind = "tunnel"
        BY <2>0, <3>6, StrayHead
      <4>2. Follows("fail")
        BY <3>4, <3>6, SameFollows DEF Moves, Slots
      <4>3. NewUnit(p, "created").id \in FreeIds
        BY <2>0, FreshUnit DEF Phases
      <4>4. KinStep
        BY <2>2, <4>3 DEF KinStep
      <4>5. TokensFit
        BY <4>1, <4>4 DEF TokensFit, KinDocker, KinK8s
      <4> QED
        BY <1>0, <4>2, <4>5, FreshStays DEF Turns
    <3> QED
      BY <3>5, <3>6 DEF Slots
  <2> QED
    BY <1>2, <2>1, <2>2 DEF ContainerCreate
<1>3. CASE ContainerStart(p)
  <2>0. kept' = kept
    BY <1>3 DEF ContainerStart
  <2>1. CASE Failed(p) /\ units' = units
    BY <1>0, <2>0, <2>1, FreshFails
  <2>2. ASSUME NEW u \in UnitOf(prog[p].unit), SetPhase(u, "running"), Advance(p)
        PROVE  FreshInv'
    <3>1. u \in units
      BY DEF UnitOf
    <3>2. TokensFit
      BY <1>0, <2>0, <2>2, <3>1, PhaseTokens DEF Phases
    <3>3. Follows("start") \/ Follows("adoptStart")
      BY <1>3, <2>2, SlotFollows DEF ContainerStart
    <3> QED
      BY <1>0, <3>2, <3>3, FreshStays DEF Turns
  <2> QED
    BY <1>3, <2>1, <2>2 DEF ContainerStart
<1>4. CASE ContainerInspect(p)
  <2>0. At(p, "inspect") /\ prog[p].todo # <<>> /\ kept' = kept /\ units' = units
    BY <1>4 DEF ContainerInspect, At, worldVars
  <2>1. CASE Failed(p)
    BY <1>0, <2>0, <2>1, FreshFails
  <2>2. CASE prog' = [prog EXCEPT ![p].handle = prog[p].unit, ![p].todo = Tail(@)]
    <3>1. PICK s \in Seq(AllSteps) : s = Tail(prog[p].todo)
      BY <2>0, ProgTypes, TailSteps DEF ProgInv
    <3>2. PICK h \in Handles : h = prog[p].unit
      BY ProvidersConstants, ProgTypes DEF ProgInv, Handles, Named
    <3>3. prog' = [prog EXCEPT ![p].handle = h, ![p].todo = s]
      BY <2>2, <3>1, <3>2
    <3>4. Moves(p, s, h, prog[p].unit)
      BY <3>3, PutTodoHandle DEF ProgInv
    <3>5. CASE p = "job"
      <4>1. Moves("job", Tail(prog["job"].todo), prog["job"].unit, prog["job"].unit)
        BY <3>1, <3>2, <3>4, <3>5
      <4>2. At("job", "inspect")
        BY <2>0, <3>5
      <4> QED
        BY <1>0, <2>0, <4>1, <4>2, JobInspects
    <3>6. CASE p = "stray"
      BY <1>0, <2>0, <3>4, <3>6, FreshSame DEF Moves, Slots
    <3> QED
      BY <3>5, <3>6 DEF Slots
  <2> QED
    BY <1>4, <2>1, <2>2 DEF ContainerInspect
<1>5. CASE ContainerRemove(p)
  BY <1>0, <1>5, FreshAdvances DEF ContainerRemove, Turns
<1>6. CASE VolumeRemove(p)
  <2>1. CASE Failed(p)
    BY <1>0, <1>6, <2>1, FreshFails DEF VolumeRemove, Without
  <2>2. CASE Advance(p)
    BY <1>0, <1>6, <2>2, FreshAdvances DEF VolumeRemove, Without, Turns
  <2> QED
    BY <1>6, <2>1, <2>2 DEF VolumeRemove
<1> QED
  BY <1>1, <1>2, <1>3, <1>4, <1>5, <1>6 DEF Docker

LEMMA FreshPortTaken ==
  ASSUME ProgInv, FreshInv, NEW p \in Slots, PortTaken(p)
  PROVE  FreshInv'
<1>0. /\ row' = row /\ queue' = queue /\ kind' = kind /\ units' \subseteq units /\ secret' = secret /\ kept' = kept
      /\ At(p, "start")
  BY DEF PortTaken
<1>1. CASE Failed(p)
  BY <1>0, <1>1, FreshFails
<1>2. CASE prog[p].tries < MaxTries /\ prog' = [prog EXCEPT ![p].tries = @ + 1, ![p].todo = <<"volume", "create">> \o @]
  <2>1. PICK a : a = <<"volume", "create">>
    OBVIOUS
  <2>2. a \in Seq(AllSteps)
    BY <2>1 DEF AllSteps, AdapterSteps
  <2>3. PICK t \in Seq(AllSteps) : t = prog[p].todo
    BY ProgTypes, TypesHere
  <2>4. PICK s \in Seq(AllSteps) : s = a \o t
    BY <2>2, CatSteps
  <2>5. prog' = [prog EXCEPT ![p].tries = @ + 1, ![p].todo = s]
    BY <1>2, <2>1, <2>3, <2>4
  <2>6. Moves(p, s, prog[p].handle, prog[p].unit)
    BY <1>2, <2>5, PutTodoTries, TypesHere
  <2>7. CASE p = "job"
    <3>1. StepsIn(a) = {"volume", "create"}
      BY <2>1 DEF StepsIn
    <3>2. /\ \A y \in StepsIn(s) : y \in {"volume", "create"} \/ y \in StepsIn(t)
          /\ \A y \in StepsIn(t) : y \in StepsIn(s)
      BY <2>2, <2>4, <3>1, CatSteps
    <3>3. Left = StepsIn(t) /\ Left' = StepsIn(s)
      BY <2>3, <2>6, <2>7 DEF Left, Moves
    <3>4. Underway' => Underway
      BY <2>6, <2>7, <3>2, <3>3 DEF Underway, Moves
    <3>5. kind # "k8s"
      BY <1>0, DockerKind
    <3>6. Goes("start")
      BY <2>6, <2>7, <3>2, <3>3, <3>4, <3>5 DEF Goes, Moves
    <3>7. Follows("start")
      BY <2>6, <2>7, <3>6 DEF Follows, Moves
    <3> QED
      BY <1>0, <3>7, FreshShrinks DEF Turns
  <2>8. CASE p = "stray"
    BY <1>0, <2>6, <2>8, FreshSame DEF Moves, Slots
  <2> QED
    BY <2>7, <2>8 DEF Slots
<1> QED
  BY <1>1, <1>2 DEF PortTaken

LEMMA FreshCallFails ==
  ASSUME ProgInv, FreshInv, NEW p \in Slots, CallFails(p)
  PROVE  FreshInv'
<1>0. /\ row' = row /\ queue' = queue /\ kind' = kind /\ units' = units /\ secret' = secret /\ kept' = kept
      /\ prog[p].todo # <<>>
  BY DEF CallFails, worldVars
<1>1. CASE Failed(p)
  BY <1>0, <1>1, FreshFails
<1>2. CASE Advance(p) /\ At(p, "remove")
  BY <1>0, <1>2, FreshAdvances DEF Turns
<1> QED
  BY <1>0, <1>1, <1>2 DEF CallFails, At

LEMMA OnlyProvisionAdopts ==
  ASSUME ProgInv, At("job", "adopt")
  PROVE  prog["job"].op = "provision"
<1>1. Fits(kind, prog["job"].op, "adopt")
  BY HeadFits
<1> QED
  BY <1>1 DEF Fits, Makes, Clears, Removes, Calls

LEMMA FreshAdopts ==
  ASSUME ProgInv, FreshInv, K8sAdopt \/ NomadAdopt \/ NullAdopt
  PROVE  FreshInv'
<1>0. row' = row /\ queue' = queue /\ kind' = kind /\ units' = units /\ secret' = secret /\ kept' = kept
  BY DEF K8sAdopt, NomadAdopt, NullAdopt, Quiet, worldVars
<1>1. prog["job"].op = "provision"
  BY OnlyProvisionAdopts DEF K8sAdopt, NomadAdopt, NullAdopt
<1>2. PICK s : Moves("job", s, prog["job"].handle, prog["job"].unit)
  BY AdoptMoves
<1>3. ~Underway'
  BY <1>1, <1>2 DEF Underway, Moves
<1>4. Follows("adopt")
  BY <1>1, <1>2, <1>3 DEF Follows, Goes, Moves
<1> QED
  BY <1>0, <1>4, FreshShrinks DEF Turns

LEMMA FreshDockerAdopts ==
  ASSUME ProgInv, FreshInv, DockerAdopt
  PROVE  FreshInv'
<1>0. /\ row' = row /\ queue' = queue /\ kind' = kind /\ units' = units /\ secret' = secret /\ kept' = kept
      /\ kind = "docker"
  BY DEF DockerAdopt, Quiet, worldVars
<1>1. prog["job"].op = "provision"
  BY OnlyProvisionAdopts DEF DockerAdopt
<1>2. PICK s, n : /\ Moves("job", s, prog["job"].handle, n)
                  /\ n = prog["job"].unit \/ \E u \in units : n = u.id
  BY DockerAdopts
<1>3. /\ prog'["job"].op = "provision" /\ prog'["job"].token = prog["job"].token
      /\ prog'["job"].handle = prog["job"].handle /\ prog'["job"].unit = n
  BY <1>1, <1>2 DEF Moves
<1>4. QueueFits'
  BY <1>0, <1>1, <1>3 DEF FreshInv, QueueFits
<1>5. RowFresh'
  BY <1>0, TokensShrink, RowStays DEF FreshInv
<1>6. ProvisionFresh'
  <2>1. ASSUME Live
        PROVE  HaveToken(units, row.token)
    BY <1>0, <2>1 DEF FreshInv, RowFresh
  <2>2. Live' => Live
    BY <1>0, LiveSame
  <2> QED
    BY <1>0, <1>3, <2>1, <2>2 DEF ProvisionFresh, HaveToken, UnitOf
<1>7. HandleRestarts' /\ DockerRestarts' /\ K8sRestarts'
  BY <1>0, <1>3 DEF HandleRestarts, DockerRestarts, K8sRestarts, Underway
<1> QED
  BY <1>4, <1>5, <1>6, <1>7 DEF FreshInv


\* Where a pod's secret and the pod are in a restart.
LEMMA K8sHead ==
  ASSUME ProgInv, FreshInv, kind = "k8s", Underway, NEW x, At("job", x)
  PROVE  /\ x = "pod" => "secret" \notin Left
         /\ x = "secret" => "secret" \in Left /\ "awaitPodAbsent" \notin Left
<1>1. PICK s \in Seq(AllSteps) : s = prog["job"].todo
  BY ProgTypes, TypesHere DEF Slots
<1>2. s # <<>> /\ Head(s) = x /\ x \in StepsIn(s)
  BY <1>1, HeadFits
<1>3. InOrder(s)
  BY <1>1 DEF FreshInv, K8sRestarts, Underway
<1> QED
  BY <1>1, <1>2, <1>3, OrderTail DEF Left

\* The parts of a Kubernetes step that its handle has no say in.
LEMMA FreshK8sGoes ==
  ASSUME FreshInv, kind = "k8s", kind' = kind, row' = row, queue' = queue, NEW x, Goes(x), TokensFit, K8sRestarts'
  PROVE  FreshInv'
<1>1. QueueFits' /\ RowFresh'
  BY QueueGoes, RowStays DEF FreshInv
<1>2. ProvisionFresh' /\ HandleRestarts' /\ DockerRestarts'
  BY DEF ProvisionFresh, HandleRestarts, DockerRestarts, Handled
<1> QED
  BY <1>1, <1>2 DEF FreshInv

LEMMA FreshK8s ==
  ASSUME ProgInv, FreshInv, K8s
  PROVE  FreshInv'
<1>0. row' = row /\ queue' = queue /\ kind' = kind /\ kind = "k8s" /\ "job" \in Slots
  BY JobKind DEF K8s, K8sAdopt, ApplySecret, ApplyPod, ApplyService, DeletePod, AwaitPodAbsent, DeleteObject,
     Quiet, Slots
<1>1. CASE K8sAdopt
  BY <1>1, FreshAdopts
<1>2. CASE ApplySecret
  <2>0. /\ At("job", "secret") /\ Advance("job") /\ units' = units /\ secret' = prog["job"].token
        /\ kept' = kept \cup {"secret"}
    BY <1>2 DEF ApplySecret, With
  <2>1. secret' = row.token
    BY <2>0, JobToken
  <2>2. Goes("secret")
    BY <1>0, <2>0, SlotFollows DEF Follows
  <2>3. Serving' = Serving
    BY <2>0 DEF Serving
  <2>4. TokensFit
    BY <1>0, <2>1, <2>3 DEF TokensFit, KinDocker, KinK8s, Handled
  <2>5. K8sRestarts'
    <3>1. prog'["job"].op = "restart" => prog["job"].op = "restart" /\ InOrder(prog'["job"].todo)
      BY <1>0, <2>2, NothingFits DEF Goes, FreshInv, K8sRestarts
    <3>2. ASSUME Underway'
          PROVE  Underway /\ "awaitPodAbsent" \notin Left' /\ units' = {}
      <4>1. Underway /\ \A y \in Left' : y \in Left
        BY <1>0, <2>2, <3>2, NothingFits DEF Goes, Underway
      <4>2. "secret" \in Left /\ "awaitPodAbsent" \notin Left
        BY <1>0, <2>0, <4>1, K8sHead
      <4>3. units = {}
        BY <1>0, <4>1, <4>2 DEF FreshInv, K8sRestarts
      <4> QED
        BY <2>0, <4>1, <4>2, <4>3
    <3>3. Underway' => HaveToken(Serving, row.token)'
      BY <3>2 DEF HaveToken, Serving
    <3> QED
      BY <1>0, <2>1, <3>1, <3>2, <3>3 DEF K8sRestarts
  <2> QED
    BY <1>0, <2>2, <2>4, <2>5, FreshK8sGoes
<1>3. CASE ApplyPod
  <2>0. At("job", "pod") /\ Advance("job") /\ FreeIds # {} /\ secret' = secret /\ kept' = kept
    BY <1>3 DEF ApplyPod
  <2>1. Goes("pod")
    BY <1>0, <2>0, SlotFollows DEF Follows
  <2>2. Serving' \subseteq Serving
    <3>1. NewUnit("job", "pending").phase = "pending"
      BY <1>0, <2>0, FreshUnit DEF Phases
    <3> QED
      BY <1>3, <3>1 DEF ApplyPod, Serving
  <2>3. TokensFit
    BY <1>0, <2>0, <2>2 DEF TokensFit, KinDocker, KinK8s, Handled
  <2>4. ~(Underway /\ "secret" \in Left)
    BY <1>0, <2>0, K8sHead
  <2>5. K8sRestarts'
    BY <1>0, <2>0, <2>1, <2>3, <2>4, K8sStays DEF FreshInv
  <2> QED
    BY <1>0, <2>1, <2>3, <2>5, FreshK8sGoes
<1>4. CASE ApplyService
  <2>1. CASE Failed("job") /\ UNCHANGED kept
    BY <1>0, <1>4, <2>1, FreshFails DEF ApplyService
  <2>2. CASE Advance("job")
    BY <1>0, <1>4, <2>2, FreshAdvances DEF ApplyService, With, Turns
  <2> QED
    BY <1>4, <2>1, <2>2 DEF ApplyService
<1>5. CASE DeletePod
  <2>0. At("job", "deletePod") /\ Advance("job") /\ units' = Deleting /\ secret' = secret /\ kept' = kept
    BY <1>5 DEF DeletePod
  <2>1. Follows("deletePod")
    BY <1>0, <2>0, SlotFollows
  <2>2. \A u \in Serving' : \E v \in Serving : v.token = u.token
    BY <2>0, DeletingTyped DEF Serving
  <2>3. TokensFit
    BY <1>0, <2>0, <2>2 DEF TokensFit, KinDocker, KinK8s, Handled
  <2>4. units = {} => units' = {}
    BY <2>0 DEF Deleting
  <2> QED
    BY <1>0, <2>0, <2>1, <2>3, <2>4, FreshStays DEF Turns
<1>6. CASE AwaitPodAbsent
  <2>0. At("job", "awaitPodAbsent") /\ units' = units /\ secret' = secret /\ kept' = kept
    BY <1>6 DEF AwaitPodAbsent, worldVars
  <2>1. CASE Failed("job")
    BY <1>0, <2>0, <2>1, FreshFails
  <2>2. CASE Advance("job") /\ units = {}
    <3>1. Goes("awaitPodAbsent")
      BY <1>0, <2>0, <2>2, SlotFollows DEF Follows
    <3>2. TokensFit
      BY <2>0, TokensShrink
    <3>3. K8sRestarts'
      <4>1. prog'["job"].op = "restart" => prog["job"].op = "restart" /\ InOrder(prog'["job"].todo)
        BY <1>0, <3>1, NothingFits DEF Goes, FreshInv, K8sRestarts
      <4>2. ASSUME Underway'
            PROVE  "secret" \in Left'
        <5>1. Underway /\ ("secret" \in Left => "secret" \in Left')
          BY <3>1, <4>2, NothingFits DEF Goes, Underway
        <5>2. "awaitPodAbsent" \in Left
          BY <2>0, HeadFits DEF Left
        <5> QED
          BY <1>0, <5>1, <5>2 DEF FreshInv, K8sRestarts
      <4> QED
        BY <1>0, <2>0, <2>2, <4>1, <4>2 DEF K8sRestarts
    <3> QED
      BY <1>0, <3>1, <3>2, <3>3, FreshK8sGoes
  <2> QED
    BY <1>6, <2>1, <2>2 DEF AwaitPodAbsent
<1>7. CASE DeleteObject("deleteService", "service")
  BY <1>0, <1>7, FreshAdvances DEF DeleteObject, Without, Turns
<1>8. CASE DeleteObject("deleteSecret", "secret")
  BY <1>0, <1>8, FreshAdvances DEF DeleteObject, Without, Turns
<1> QED
  BY <1>1, <1>2, <1>3, <1>4, <1>5, <1>6, <1>7, <1>8 DEF K8s

\* No token of a Nomad allocation or of a null resource is claimed.
LEMMA FreshOther ==
  ASSUME FreshInv, kind \in {"nomad", "null"}, kind' = kind, row' = row, queue' = queue, NEW x, Goes(x)
  PROVE  FreshInv'
<1>1. QueueFits'
  BY QueueGoes DEF FreshInv
<1> QED
  BY <1>1 DEF FreshInv, RowFresh, ProvisionFresh, HandleRestarts, DockerRestarts, K8sRestarts, Handled

LEMMA FreshNomad ==
  ASSUME ProgInv, FreshInv, Nomad
  PROVE  FreshInv'
<1>0. row' = row /\ queue' = queue /\ kind' = kind /\ kind = "nomad" /\ "job" \in Slots
  BY JobKind DEF Nomad, NomadAdopt, Register, Purge, AwaitJobAbsent, Quiet, Slots
<1>1. CASE NomadAdopt
  BY <1>1, FreshAdopts
<1>2. CASE Register
  BY <1>0, <1>2, SlotFollows, FreshOther DEF Register, Follows
<1>3. CASE Purge
  BY <1>0, <1>3, SlotFollows, FreshOther DEF Purge, Follows
<1>4. CASE AwaitJobAbsent
  <2>1. Goes("awaitJobAbsent")
    BY <1>0, <1>4, SlotFollows, SlotFailFollows DEF AwaitJobAbsent, Follows
  <2> QED
    BY <1>0, <2>1, FreshOther
<1> QED
  BY <1>1, <1>2, <1>3, <1>4 DEF Nomad

LEMMA FreshNull ==
  ASSUME ProgInv, FreshInv, Null
  PROVE  FreshInv'
<1>0. row' = row /\ queue' = queue /\ kind' = kind /\ kind = "null" /\ "job" \in Slots
  BY JobKind DEF Null, NullAdopt, Put, Drop, Quiet, Slots
<1>1. CASE NullAdopt
  BY <1>1, FreshAdopts
<1>2. CASE Put
  BY <1>0, <1>2, SlotFollows, FreshOther DEF Put, Follows
<1>3. CASE Drop
  BY <1>0, <1>3, SlotFollows, FreshOther DEF Drop, Follows
<1> QED
  BY <1>1, <1>2, <1>3 DEF Null

LEMMA FreshStatic ==
  ASSUME ProgInv, FreshInv, Static
  PROVE  FreshInv'
<1>0. row' = row /\ queue' = queue /\ kind' = kind /\ kind = "static" /\ "job" \in Slots /\ secret' = secret
  BY JobKind DEF Static, MakeDir, Spawn, AwaitReady, StopProcess, RemoveDir, Quiet, Slots, worldVars
<1>1. CASE MakeDir
  BY <1>0, <1>1, FreshAdvances DEF MakeDir, With, Turns
<1>2. CASE StopProcess
  BY <1>0, <1>2, FreshAdvances DEF StopProcess, Turns
<1>3. CASE RemoveDir
  BY <1>0, <1>3, FreshAdvances DEF RemoveDir, Without, Turns
<1>4. CASE Spawn
  <2>0. FreeIds # {} /\ At("job", "spawn") /\ prog["job"].todo # <<>> /\ kept' = kept
    BY <1>4 DEF Spawn, At
  <2>1. PICK s \in Seq(AllSteps) : s = Tail(prog["job"].todo)
    BY <1>0, <2>0, ProgTypes, TailSteps DEF ProgInv
  <2>2. PICK n \in 0 .. MaxUnits : n = FreshId
    BY <1>0, <2>0, FreshUnit DEF Phases
  <2>3. prog' = [prog EXCEPT !["job"].unit = n, !["job"].todo = s]
    BY <1>4, <2>1, <2>2 DEF Spawn
  <2>4. Moves("job", Tail(prog["job"].todo), prog["job"].handle, n)
    BY <1>0, <2>1, <2>3, PutTodoUnit DEF ProgInv
  <2>5. PICK ph \in Phases : ph = "running"
    BY DEF Phases
  <2>6. units' = units \cup {NewUnit("job", ph)}
    BY <1>4, <2>5 DEF Spawn
  <2> QED
    BY <1>0, <2>0, <2>2, <2>4, <2>6, JobMakes
<1>5. CASE AwaitReady
  <2>0. At("job", "awaitReady") /\ prog["job"].todo # <<>> /\ units' = units /\ kept' = kept
    BY <1>5 DEF AwaitReady, At, worldVars
  <2>1. CASE Failed("job")
    BY <1>0, <2>0, <2>1, FreshFails
  <2>2. CASE prog' = [prog EXCEPT !["job"].handle = prog["job"].unit, !["job"].todo = Tail(@)]
    <3>1. PICK s \in Seq(AllSteps) : s = Tail(prog["job"].todo)
      BY <1>0, <2>0, ProgTypes, TailSteps DEF ProgInv
    <3>2. PICK h \in Handles : h = prog["job"].unit
      BY <1>0, ProvidersConstants, ProgTypes DEF ProgInv, Handles, Named
    <3>3. prog' = [prog EXCEPT !["job"].handle = h, !["job"].todo = s]
      BY <2>2, <3>1, <3>2
    <3>4. Moves("job", Tail(prog["job"].todo), prog["job"].unit, prog["job"].unit)
      BY <1>0, <3>1, <3>2, <3>3, PutTodoHandle DEF ProgInv
    <3> QED
      BY <1>0, <2>0, <3>4, JobInspects
  <2> QED
    BY <1>5, <2>1, <2>2 DEF AwaitReady
<1> QED
  BY <1>1, <1>2, <1>3, <1>4, <1>5 DEF Static

LEMMA FreshName ==
  ASSUME ProgInv, FreshInv, TakeName
  PROVE  FreshInv'
<1>0. /\ row' = row /\ queue' = queue /\ kind' = kind /\ units' = units /\ secret' = secret /\ kept' = kept
      /\ At("job", "name")
  BY DEF TakeName, Quiet, worldVars
<1>1. kind \in {"k8s", "nomad", "null"}
  <2>1. Fits(kind, prog["job"].op, "name")
    BY <1>0, HeadFits
  <2> QED
    BY <2>1 DEF Fits, Makes, Clears, Removes, Calls
<1>2. Goes("name")
  BY <1>0, NameTaken, TailGoes
<1>3. TokensFit
  BY <1>0, TokensShrink
<1>4. K8sRestarts'
  BY <1>0, <1>2, <1>3, K8sStays DEF FreshInv
<1> QED
  BY <1>0, <1>1, <1>2, <1>3, <1>4, FreshOther, FreshK8sGoes

LEMMA FreshAdapters ==
  ASSUME ProgInv, FreshInv, Adapters
  PROVE  FreshInv'
<1>1. CASE Refuse
  BY <1>1, FreshFails DEF Refuse, Quiet, worldVars, Slots
<1> QED
  BY <1>1, FreshDocker, FreshPortTaken, FreshCallFails, FreshDockerAdopts, FreshK8s, FreshNomad, FreshStatic, FreshNull,
     FreshName DEF Adapters


LEMMA FreshTunnel ==
  ASSUME ProgInv, FreshInv, Tunnel
  PROVE  FreshInv'
<1>0. /\ row' = row /\ queue' = queue /\ kind' = kind /\ units' = units /\ secret' = secret /\ kept' = kept
      /\ "job" \in Slots
  BY DEF Tunnel, Call, CallLost, StrayEnds, AgentDown, AgentUp, RevokeLease, Quiet, worldVars, Slots
<1>1. CASE Call
  <2>0. At("job", "call")
    BY <1>1 DEF Call
  <2>1. CASE Advance("job")
    BY <1>0, <2>0, <2>1, FreshAdvances DEF Turns
  <2>2. CASE Failed("job")
    BY <1>0, <2>2, FreshFails
  <2>3. CASE prog' = [prog EXCEPT !["job"].todo = <<@[Len(@)]>>] /\ prog["job"].op \in {"terminate", "undo"}
    <3>1. PICK s : Moves("job", s, prog["job"].handle, prog["job"].unit)
      BY <1>0, <2>0, <2>3, LastStep
    <3>2. ~Underway'
      BY <2>3, <3>1 DEF Underway, Moves
    <3>3. Follows("call")
      BY <2>3, <3>1, <3>2 DEF Follows, Goes, Moves
    <3> QED
      BY <1>0, <3>3, FreshShrinks DEF Turns
  <2> QED
    BY <1>1, <2>1, <2>2, <2>3 DEF Call
<1>2. CASE CallLost
  <2>1. Follows("fail")
    <3>1. CASE prog["job"].op = "terminate"
      BY <1>2, <3>1, LostCall DEF Follows, Goes
    <3>2. CASE prog["job"].op # "terminate"
      <4>1. PICK q : q = [prog["job"] EXCEPT !.todo = <<"fail">>]
        OBVIOUS
      <4>2. prog["job"] \in Programs
        BY <1>0, ProgTypes, TypesHere
      <4>3. q.op = prog["job"].op /\ q.token = prog["job"].token /\ q.handle = prog["job"].handle
            /\ q.unit = prog["job"].unit /\ q.todo = <<"fail">>
        BY <4>1, <4>2 DEF Programs
      <4>4. prog'["job"] = q
        BY <1>2, <3>2, <4>1, LostCall
      <4>5. ~Underway'
        BY <4>3, <4>4, OneStep DEF Underway, Left
      <4>6. kind # "k8s"
        BY <1>2 DEF CallLost
      <4> QED
        BY <4>3, <4>4, <4>5, <4>6 DEF Follows, Goes
    <3> QED
      BY <3>1, <3>2
  <2> QED
    BY <1>0, <2>1, FreshShrinks DEF Turns
<1>3. CASE StrayEnds
  <2>1. prog'["job"] = prog["job"]
    BY <1>3, NothingFits, PutProgram, TypesHere DEF StrayEnds, Becomes, Slots
  <2> QED
    BY <1>0, <2>1, FreshSame
<1>4. CASE AgentDown \/ AgentUp
  BY <1>0, <1>4, FreshSame DEF AgentDown, AgentUp
<1>5. ASSUME NEW b \in BOOLEAN, RevokeLease(b)
      PROVE  FreshInv'
  <2>1. PICK q : prog' = [prog EXCEPT !["stray"] = q]
    BY <1>5 DEF RevokeLease
  <2>2. prog'["job"] = prog["job"]
    BY <2>1, TypesHere DEF ProgsKept, Slots
  <2> QED
    BY <1>0, <2>2, FreshSame
<1> QED
  BY <1>1, <1>2, <1>3, <1>4, <1>5 DEF Tunnel

LEMMA FreshControl ==
  ASSUME ProgInv, FreshInv, ControlPlane
  PROVE  FreshInv'
<1>0. /\ row' = row /\ queue' = queue /\ kind' = kind /\ secret' = secret /\ kept' = kept
      /\ prog'["job"] = prog["job"]
  BY DEF ControlPlane, UnitStarts, UnitGone, UnitDies, Work, Quiet
<1>1. Follows("fail")
  BY <1>0, SameFollows
<1>2. CASE units' \subseteq units
  BY <1>0, <1>2, FreshSame
<1>3. ASSUME NEW u \in units, UnitStarts(u)
      PROVE  FreshInv'
  <2>1. PICK t \in Tokens : t = IF kind = "k8s" THEN secret ELSE u.token
    BY TypesHere DEF WorldTypes, Units
  <2>2. PICK v : v = [u EXCEPT !.phase = "running", !.token = t]
    OBVIOUS
  <2>3. v.id = u.id /\ v.token = t /\ v.phase = "running"
    BY <2>2, TypesHere DEF WorldTypes, Units
  <2>4. units' = (units \ {u}) \cup {v} /\ (kind = "k8s" => "secret" \in kept)
    BY <1>3, <2>1, <2>2 DEF UnitStarts
  <2>5. KinDocker /\ (Handled => KinStep)
    BY <2>1, <2>3, <2>4 DEF KinDocker, KinStep, Handled
  <2>6. KinK8s
    BY <1>0, <2>1, <2>3, <2>4 DEF KinK8s, Serving
  <2>7. TokensFit
    BY <2>5, <2>6 DEF TokensFit
  <2> QED
    BY <1>0, <1>1, <2>7, FreshStays DEF Turns
<1>4. ASSUME NEW u \in units, UnitDies(u), SetPhase(u, "stopped")
      PROVE  FreshInv'
  <2>1. TokensFit
    BY <1>0, <1>4, PhaseTokens DEF Phases
  <2> QED
    BY <1>0, <1>1, <2>1, FreshStays DEF Turns
<1> QED
  BY <1>2, <1>3, <1>4 DEF ControlPlane, UnitGone, UnitDies, Work

\* The platform's own steps: the world stays as it is.
LEMMA RowKept ==
  ASSUME RowFresh, NoWorld, Live' => Live /\ row'.token = row.token,
         Live' => row'.handle = row.handle \/ (Handled => HaveToken(UnitOf(row'.handle), row.token))
  PROVE  RowFresh'
<1> SUFFICES ASSUME Live'
             PROVE  /\ Handled' => HaveToken(UnitOf(row.handle), row.token)'
                    /\ kind' = "docker" => HaveToken(units, row.token)'
                    /\ kind' = "k8s" => /\ HaveToken(Serving, row.token)'
                                        /\ "secret" \in kept' => secret' = row'.token
  BY DEF RowFresh
<1>1. kind' = kind /\ units' = units /\ kept' = kept /\ secret' = secret
  BY DEF NoWorld, worldVars
<1>2. Live /\ row'.token = row.token
  OBVIOUS
<1>3. Handled => HaveToken(UnitOf(row'.handle), row.token)
  BY <1>2 DEF RowFresh
<1> QED
  BY <1>1, <1>2, <1>3 DEF RowFresh, Handled, HaveToken, UnitOf, Serving

LEMMA NoJob ==
  ASSUME prog'["job"].op \notin {"provision", "restart"}
  PROVE  ProvisionFresh' /\ HandleRestarts' /\ DockerRestarts' /\ K8sRestarts'
BY DEF ProvisionFresh, HandleRestarts, DockerRestarts, K8sRestarts, Underway

LEMMA NoUnit ==
  ASSUME ProgInv
  PROVE  UnitOf(0) = {}
<1>1. \A u \in units : u.id \in 1 .. MaxUnits
  BY TypesHere DEF WorldTypes, Units
<1> QED
  BY <1>1 DEF UnitOf


LEMMA FreshBegins ==
  ASSUME ProgInv, FreshInv, BeginProvision \/ BeginRestart \/ BeginTerminate
  PROVE  FreshInv'
<1>0. NoWorld /\ prog["job"].op = "none" /\ kind' = kind /\ units' = units
  BY NothingFits DEF BeginProvision, BeginRestart, BeginTerminate, Begin, NoWorld, worldVars
<1>1. CASE BeginProvision
  <2>1. CASE row.state \in Over \cup {"ready"}
    <3>1. row' = row /\ prog' = prog /\ queue' = queue \ {"provision"}
      BY <1>1, <2>1 DEF BeginProvision, Ack
    <3>2. QueueFits'
      BY <1>0, <3>1 DEF FreshInv, QueueFits
    <3>3. Live' => Live
      BY <3>1 DEF Live
    <3>4. RowFresh'
      BY <1>0, <3>1, <3>3, RowKept DEF FreshInv
    <3> QED
      BY <1>0, <3>1, <3>2, <3>4, NoJob DEF FreshInv
  <2>2. CASE row.state \notin Over \cup {"ready"}
    <3>1. /\ row'.state = "provisioning" /\ row'.handle = row.handle /\ row'.token = row.token
          /\ queue' = queue /\ "provision" \in queue
      BY <1>1, <2>2, RowMoves DEF BeginProvision, Begin
    <3>2. PICK s : Started("provision", s, row.token)
      BY <1>1, <2>2, ProvisionBegins
    <3>3. /\ prog'["job"].op = "provision" /\ prog'["job"].token = row.token
          /\ prog'["job"].handle = row.handle /\ prog'["job"].unit = 0
      BY <3>2 DEF Started
    <3>4. QueueFits'
      BY <3>1, <3>3 DEF QueueFits
    <3>5. Live' => Live
      BY <2>2, <3>1 DEF Live, Over
    <3>6. RowFresh'
      BY <1>0, <3>1, <3>5, RowKept DEF FreshInv
    <3>7. ProvisionFresh'
      <4>1. Live' /\ Handled' => HaveToken(UnitOf(row.handle), row.token)
        BY <1>0, <3>5 DEF FreshInv, RowFresh, Handled
      <4>2. HaveToken(UnitOf(0), row.token)
        BY NoUnit DEF HaveToken
      <4> QED
        BY <1>0, <3>1, <3>3, <4>1, <4>2 DEF ProvisionFresh, HaveToken, UnitOf
    <3>8. HandleRestarts' /\ DockerRestarts' /\ K8sRestarts'
      BY <3>3 DEF HandleRestarts, DockerRestarts, K8sRestarts, Underway
    <3> QED
      BY <3>4, <3>6, <3>7, <3>8 DEF FreshInv
  <2> QED
    BY <2>1, <2>2
<1>2. CASE BeginRestart
  <2>0. "restart" \in queue
    BY <1>2 DEF BeginRestart, Begin
  <2>1. CASE row.state \in Over
    <3>1. row' = row /\ prog' = prog /\ queue' = queue \ {"restart"}
      BY <1>2, <2>1 DEF BeginRestart, Ack
    <3>2. QueueFits'
      BY <1>0, <3>1 DEF FreshInv, QueueFits
    <3>3. ~Live'
      BY <2>0, <2>1, <3>1 DEF Live, Over, FreshInv, QueueFits
    <3>4. RowFresh'
      BY <3>3 DEF RowFresh
    <3> QED
      BY <1>0, <3>1, <3>2, <3>4, NoJob DEF FreshInv
  <2>2. CASE row.state \notin Over
    <3>1. /\ row'.state = row.state /\ row'.handle = row.handle /\ row'.token = row.token + 1
          /\ queue' = queue
      BY <1>2, <2>2, RowMoves DEF BeginRestart
    <3>2. PICK s : /\ Started("restart", s, row.token + 1)
                   /\ "refuse" \in StepsIn(s) \/ \A x : MustDo(kind, x) => x \in StepsIn(s)
                   /\ s = Restart(row.handle) \o <<"await", "commit">>
      BY <1>2, <2>2, RestartBegins
    <3>3. /\ prog'["job"].op = "restart" /\ prog'["job"].token = row.token + 1
          /\ prog'["job"].handle = row.handle /\ prog'["job"].unit = 0 /\ prog'["job"].todo = s
      BY <3>2 DEF Started
    <3>4. QueueFits'
      BY <2>0, <3>1, <3>3 DEF FreshInv, QueueFits
    <3>5. ~Live'
      BY <2>0, <3>1 DEF Live
    <3>6. RowFresh' /\ ProvisionFresh'
      BY <3>3, <3>5 DEF RowFresh, ProvisionFresh
    <3>7. Underway' => \A x : MustDo(kind, x) => x \in Left'
      BY <3>2, <3>3 DEF Underway, Left
    <3>8. HandleRestarts'
      <4>1. UnitOf(prog["job"].unit)' = {}
        BY <1>0, <3>3, NoUnit DEF UnitOf
      <4>2. Handled' /\ Underway' => "inspect" \in Left' \/ "awaitReady" \in Left'
        BY <1>0, <3>7 DEF Handled, MustDo
      <4> QED
        BY <4>1, <4>2 DEF HandleRestarts, HaveToken
    <3>9. DockerRestarts'
      BY <1>0, <3>7 DEF DockerRestarts, MustDo
    <3>10. K8sRestarts'
      <4>1. kind = "k8s" /\ Underway' => "awaitPodAbsent" \in Left' /\ "secret" \in Left'
        BY <3>7 DEF MustDo
      <4>2. kind = "k8s" => InOrder(s)
        <5>1. kind = "k8s" => Restart(row.handle) = K8sRestart \/ Restart(row.handle) = <<"refuse">>
          BY DEF Restart
        <5> QED
          BY <3>2, <5>1, K8sOrdered
      <4> QED
        BY <1>0, <3>3, <4>1, <4>2 DEF K8sRestarts
    <3> QED
      BY <3>4, <3>6, <3>8, <3>9, <3>10 DEF FreshInv
  <2> QED
    BY <2>1, <2>2
<1>3. CASE BeginTerminate
  <2>0. row' = row
    BY <1>3 DEF BeginTerminate
  <2>1. CASE row.state = "terminated"
    <3>1. prog' = prog /\ queue' = queue \ {"terminate"}
      BY <1>3, <2>1 DEF BeginTerminate, Ack
    <3>2. QueueFits'
      BY <1>0, <2>0, <3>1 DEF FreshInv, QueueFits
    <3>3. Live' => Live
      BY <2>0, <3>1 DEF Live
    <3>4. RowFresh'
      BY <1>0, <2>0, <3>3, RowKept DEF FreshInv
    <3> QED
      BY <1>0, <3>1, <3>2, <3>4, NoJob DEF FreshInv
  <2>2. CASE row.state # "terminated"
    <3>1. queue' = queue
      BY <1>3, <2>2 DEF BeginTerminate
    <3>2. PICK s : Started("terminate", s, row.token)
      BY <1>3, <2>2, TerminateBegins
    <3>3. prog'["job"].op = "terminate" /\ prog'["job"].token = row.token
      BY <3>2 DEF Started
    <3>4. QueueFits'
      BY <2>0, <3>1, <3>3 DEF FreshInv, QueueFits
    <3>5. RowFresh'
      BY <1>0, <2>0, <3>1, LiveSame, RowKept DEF FreshInv
    <3> QED
      BY <3>3, <3>4, <3>5, NoJob DEF FreshInv
  <2> QED
    BY <2>1, <2>2
<1> QED
  BY <1>1, <1>2, <1>3

\* A restart commits: the unit its handle leads to is the one it made.
LEMMA RestartCommits ==
  ASSUME ProgInv, FreshInv, At("job", "commit"), prog["job"].op = "restart"
  PROVE  /\ Handled => HaveToken(UnitOf(prog["job"].handle), row.token)
         /\ kind = "docker" => HaveToken(units, row.token)
         /\ kind = "k8s" => secret = row.token /\ HaveToken(Serving, row.token)
<1>1. Left = {"commit"}
  <2>1. PICK s \in Seq(AllSteps) : s = prog["job"].todo
    BY ProgTypes, TypesHere DEF Slots
  <2>2. s # <<>> /\ Head(s) = "commit" /\ EndsClosed(s)
    BY <2>1 DEF At, ProgInv, JobFits
  <2>3. StepsIn(s) = {"commit"}
    BY <2>2, TailClosed DEF Closing
  <2> QED
    BY <2>1, <2>3 DEF Left
<1>2. Underway
  BY <1>1 DEF Underway
<1> QED
  BY <1>1, <1>2 DEF FreshInv, HandleRestarts, DockerRestarts, K8sRestarts

LEMMA FreshCommit ==
  ASSUME ProgInv, FreshInv, Commit
  PROVE  FreshInv'
<1>0. At("job", "commit") /\ NoWorld /\ queue' = queue \ {prog["job"].op}
  BY DEF Commit, Ack
<1>1. prog'["job"] = Nothing
  BY NothingFits, PutProgram, TypesHere DEF Commit, Becomes, Slots
<1>2. prog["job"].op \in {"provision", "restart"}
  <2>1. Fits(kind, prog["job"].op, "commit")
    BY <1>0, HeadFits
  <2> QED
    BY <2>1 DEF Fits, Makes, Clears, Removes, Calls
<1>3. QueueFits /\ prog["job"].op \in queue /\ row'.token = row.token
  BY <1>2, RowMoves DEF FreshInv, QueueFits
<1>4. QueueFits'
  <2>1. row' = row \/ row'.state = "ready"
    BY RowMoves
  <2>2. prog'["job"].op = "none"
    BY <1>1, NothingFits
  <2> QED
    BY <1>0, <1>2, <1>3, <2>1, <2>2 DEF QueueFits
<1>5. RowFresh'
  <2>1. CASE prog["job"].op = "provision"
    <3>1. Live' => Live
      <4>1. row.state = "terminated" => row' = row
        BY <2>1 DEF Commit
      <4> QED
        BY <1>0, <1>3, <2>1, <4>1 DEF Live
    <3>2. Live' => row'.handle = row.handle \/ (Handled => HaveToken(UnitOf(row'.handle), row.token))
      BY <2>1, <3>1, RowMoves DEF FreshInv, ProvisionFresh
    <3> QED
      BY <1>0, <1>3, <3>1, <3>2, RowKept DEF FreshInv
  <2>2. CASE prog["job"].op = "restart"
    <3>1. CASE row.state \in Over
      <4>1. row' = row
        BY <2>2, <3>1 DEF Commit
      <4>2. ~Live'
        BY <1>0, <1>3, <2>2, <3>1, <4>1 DEF Live, Over, QueueFits
      <4> QED
        BY <4>2 DEF RowFresh
    <3>2. CASE row.state \notin Over
      <4>1. row'.handle = prog["job"].handle
        <5>1. PICK h \in Handles : h = prog["job"].handle
          BY TypesHere, ProgTypes DEF Slots
        <5>2. PICK st \in RowStates : st = "ready"
          BY DEF RowStates
        <5>3. row' = [row EXCEPT !.state = st, !.handle = h]
          BY <2>2, <3>2, <5>1, <5>2 DEF Commit
        <5> QED
          BY <5>1, <5>3, RowBothSet
      <4>2. /\ Handled => HaveToken(UnitOf(prog["job"].handle), row.token)
            /\ kind = "docker" => HaveToken(units, row.token)
            /\ kind = "k8s" => secret = row.token /\ HaveToken(Serving, row.token)
        BY <1>0, <2>2, RestartCommits
      <4>3. kind' = kind /\ units' = units /\ secret' = secret
        BY <1>0 DEF NoWorld, worldVars
      <4> QED
        BY <1>3, <4>1, <4>2, <4>3 DEF RowFresh, Handled, HaveToken, UnitOf, Serving
    <3> QED
      BY <3>1, <3>2
  <2> QED
    BY <1>2, <2>1, <2>2
<1>6. prog'["job"].op \notin {"provision", "restart"}
  BY <1>1, NothingFits
<1> QED
  BY <1>4, <1>5, <1>6, NoJob DEF FreshInv

LEMMA FreshSetHandle ==
  ASSUME ProgInv, FreshInv, SetHandle
  PROVE  FreshInv'
<1>0. /\ At("job", "setHandle") /\ Advance("job") /\ NoWorld /\ queue' = queue /\ prog["job"].todo # <<>>
      /\ kind' = kind /\ units' = units
  BY DEF SetHandle, NoWorld, worldVars, At
<1>1. row'.state = row.state /\ row'.token = row.token /\ row'.handle = prog["job"].handle
  BY RowMoves
<1>2. prog["job"].op = "provision"
  <2>1. Fits(kind, prog["job"].op, "setHandle")
    BY <1>0, HeadFits
  <2> QED
    BY <2>1 DEF Fits, Makes, Clears, Removes, Calls
<1>3. /\ prog'["job"].op = "provision" /\ prog'["job"].token = prog["job"].token
      /\ prog'["job"].handle = prog["job"].handle /\ prog'["job"].unit = prog["job"].unit
  BY <1>0, <1>2, AdvanceMoves, TypesHere DEF Moves, Slots
<1>4. Live' => Live
  BY <1>0, <1>1 DEF Live
<1>5. QueueFits'
  BY <1>0, <1>1, <1>2, <1>3 DEF FreshInv, QueueFits
<1>6. Live' => (Handled => HaveToken(UnitOf(row'.handle), row.token))
  BY <1>1, <1>2, <1>4 DEF FreshInv, ProvisionFresh
<1>7. RowFresh'
  BY <1>0, <1>1, <1>4, <1>6, RowKept DEF FreshInv
<1>8. ProvisionFresh'
  <2>1. Handled' => Handled
    BY <1>0 DEF Handled
  <2> QED
    BY <1>0, <1>1, <1>2, <1>3, <1>4, <2>1 DEF FreshInv, ProvisionFresh, HaveToken, UnitOf
<1>9. HandleRestarts' /\ DockerRestarts' /\ K8sRestarts'
  BY <1>3 DEF HandleRestarts, DockerRestarts, K8sRestarts, Underway
<1> QED
  BY <1>5, <1>7, <1>8, <1>9 DEF FreshInv

LEMMA FreshService ==
  ASSUME ProgInv, FreshInv, Service
  PROVE  FreshInv'
<1>b. ASSUME prog' = [prog EXCEPT !["job"] = Nothing]
      PROVE  prog'["job"].op = "none"
  BY <1>b, NothingFits, PutProgram, TypesHere DEF Becomes, Slots
<1>1. CASE Await
  <2>0. At("job", "await") /\ NoWorld /\ row' = row /\ queue' = queue /\ kind' = kind
    BY <1>1 DEF Await, NoWorld
  <2>1. CASE Advance("job")
    BY <2>0, <2>1, FreshAdvances DEF NoWorld, worldVars, Turns, Slots
  <2>2. CASE prog' = [prog EXCEPT !["job"].op = "undo", !["job"].todo = Terminate \o <<"fail">>]
    <3>1. prog'["job"].op = "undo" /\ prog'["job"].token = row.token
      BY <2>0, <2>2, UndoBegins, JobToken
    <3>2. QueueFits'
      BY <2>0, <3>1 DEF FreshInv, QueueFits
    <3>3. RowFresh'
      BY <2>0, LiveSame, RowKept DEF FreshInv
    <3> QED
      BY <3>1, <3>2, <3>3, NoJob DEF FreshInv
  <2> QED
    BY <1>1, <2>1, <2>2 DEF Await
<1>2. CASE Fail
  <2>1. row'.state = "failed" /\ queue' = queue \ {"provision", "restart"} /\ prog'["job"].op = "none"
    BY <1>2, <1>b, RowMoves DEF Fail
  <2>2. QueueFits'
    BY <2>1 DEF QueueFits
  <2>3. RowFresh'
    BY <2>1 DEF RowFresh, Live
  <2> QED
    BY <2>1, <2>2, <2>3, NoJob DEF FreshInv
<1>3. CASE Terminated
  <2>1. row'.state = "terminated" /\ prog'["job"].op = "none"
    BY <1>3, <1>b, RowMoves DEF Terminated
  <2>2. QueueFits'
    BY <2>1 DEF QueueFits
  <2>3. RowFresh'
    BY <2>1 DEF RowFresh, Live
  <2> QED
    BY <2>1, <2>2, <2>3, NoJob DEF FreshInv
<1> QED
  BY <1>1, <1>2, <1>3, FreshBegins, FreshCommit, FreshSetHandle DEF Service

LEMMA FreshRequests ==
  ASSUME ProgInv, FreshInv, RequestRestart \/ RequestTerminate \/ Reconcile
  PROVE  FreshInv'
<1>0. NoWorld /\ prog' = prog /\ kind' = kind /\ units' = units /\ secret' = secret /\ kept' = kept
  BY DEF RequestRestart, RequestTerminate, Reconcile, NoWorld, worldVars
<1>1. row'.handle = row.handle /\ row'.token = row.token
  BY RowRequests
<1>2. Live' => Live
  <2>1. CASE RequestRestart
    BY <2>1 DEF RequestRestart, Live
  <2>2. CASE RequestTerminate
    <3>1. row'.state = "terminating" /\ row.state # "terminated" /\ queue' = queue \cup {"terminate"}
      BY <2>2, RowRequests DEF RequestTerminate
    <3> QED
      BY <3>1 DEF Live
  <2>3. CASE Reconcile
    BY <2>3 DEF Reconcile, Live
  <2> QED
    BY <2>1, <2>2, <2>3
<1>3. QueueFits'
  <2>1. CASE RequestRestart
    <3>1. row'.state = "provisioning" /\ queue' = queue \cup {"restart"}
      BY <2>1, RowRequests DEF RequestRestart
    <3> QED
      BY <1>0, <1>1, <3>1 DEF FreshInv, QueueFits
  <2>2. CASE RequestTerminate
    <3>1. row'.state = "terminating" /\ queue' = queue \cup {"terminate"}
      BY <2>2, RowRequests DEF RequestTerminate
    <3> QED
      BY <1>0, <1>1, <3>1 DEF FreshInv, QueueFits
  <2>3. CASE Reconcile
    <3>1. row.state \in {"ready", "suspended"} /\ queue' = queue
      BY <2>3 DEF Reconcile
    <3> QED
      BY <1>0, <1>1, <3>1 DEF FreshInv, QueueFits
  <2> QED
    BY <2>1, <2>2, <2>3
<1>4. RowFresh'
  BY <1>0, <1>1, <1>2, RowKept DEF FreshInv
<1>5. ProvisionFresh'
  BY <1>0, <1>1, <1>2 DEF FreshInv, ProvisionFresh, Handled, HaveToken, UnitOf
<1>6. HandleRestarts' /\ DockerRestarts' /\ K8sRestarts'
  BY <1>0, <1>1 DEF FreshInv, HandleRestarts, DockerRestarts, K8sRestarts, Handled, HaveToken, UnitOf, Underway,
     Left, Serving
<1> QED
  BY <1>3, <1>4, <1>5, <1>6 DEF FreshInv

LEMMA FreshStep ==
  ASSUME ProgInv, FreshInv, [ProvidersNext]_pvars
  PROVE  FreshInv'
<1>1. CASE Crash
  <2>1. prog'["job"] = Nothing
    BY <1>1, CrashKeeps
  <2>2. Follows("fail")
    BY <2>1 DEF Follows, Goes
  <2> QED
    BY <1>1, <2>2, FreshShrinks DEF Crash, Turns
<1>2. CASE UNCHANGED pvars
  BY <1>2, FreshSame DEF pvars
<1> QED
  BY <1>1, <1>2, FreshAdapters, FreshService, FreshTunnel, FreshControl, FreshRequests DEF ProvidersNext

\* A ready resource with no restart ahead is served by units that accept the
\* token on file and no older one, whatever was cut short before: every unit a
\* handle or a service leads to was made under it.  (Nomad, whose readiness may
\* be that of the old allocation, is outside FreshCredential.)
THEOREM FreshCredentialHolds == ProvidersSpec => []FreshCredential
<1>1. ProvidersInit => FreshInv
  <2> SUFFICES ASSUME ProvidersInit
               PROVE  FreshInv
    OBVIOUS
  <2>1. prog["job"].op = "none" /\ prog["job"].op \notin {"provision", "restart"}
    BY NothingFits DEF ProvidersInit, Slots
  <2>2. QueueFits
    BY <2>1 DEF ProvidersInit, QueueFits
  <2>3. RowFresh
    BY DEF ProvidersInit, RowFresh, HaveToken, UnitOf, Serving
  <2>4. ProvisionFresh /\ HandleRestarts /\ DockerRestarts /\ K8sRestarts
    BY <2>1 DEF ProvisionFresh, HandleRestarts, DockerRestarts, K8sRestarts, Underway
  <2> QED
    BY <2>2, <2>3, <2>4 DEF FreshInv
<1>2. UnitsInv /\ FreshInv /\ [ProvidersNext]_pvars => FreshInv'
  BY FreshStep DEF UnitsInv
<1>3. UnitsInv /\ FreshInv => FreshCredential
  <2> SUFFICES ASSUME UnitsInv, FreshInv, row.state = "ready", "restart" \notin queue, kind # "nomad",
                      NEW u \in Endpoint(row.handle)
               PROVE  u.token = row.token
    BY DEF FreshCredential
  <2>1. Live
    BY DEF Live
  <2>2. CASE Handled
    <3>1. Endpoint(row.handle) = UnitOf(row.handle)
      BY <2>2 DEF Handled, Endpoint, UnitEndpoint
    <3> QED
      BY <2>1, <2>2, <3>1 DEF FreshInv, RowFresh, HaveToken
  <2>3. CASE kind = "k8s"
    <3>1. Endpoint(row.handle) = K8sEndpoint
      BY <2>3 DEF Endpoint
    <3>2. u \in Serving
      BY <3>1 DEF K8sEndpoint, Serving
    <3> QED
      BY <2>1, <2>3, <3>2 DEF FreshInv, RowFresh, HaveToken
  <2>4. CASE kind = "null"
    <3>1. Endpoint(row.handle) = {}
      BY <2>4 DEF Endpoint
    <3> QED
      BY <3>1
  <2> QED
    BY <2>2, <2>3, <2>4, KindCases, TypesHere DEF UnitsInv, Handled
<1> QED
  BY <1>1, <1>2, <1>3, UnitsInvariant, PTL DEF ProvidersSpec

-----------------------------------------------------------------------------
(***************************************************************************)
(* TunnelBroker, for any number of connections, dial attempts and goroutines: *)
(* connections and parked attempts are accounted for.                      *)
(***************************************************************************)

\* Why an offered connection is in nobody's hands: what is in the pool, with an
\* attempt or issued was filed, and has not been made anew since.
FiledOnce ==
    \A c \in Conns :
        (InPool(c) \/ c \in issued \/ \E t \in Takes : IsWith(t, c))
            => link[c] \in {"filed", "closed"}

\* An attempt has room in its channel until it is listed, and one that has
\* received or given up gets no other connection to use.
NewIsEmpty == \A t \in Takes : take[t].pc = "new" => chan[t] = NoConn

\* Whoever has received a connection is off the list: it is looked at once.
Listed(t) == \E i \in 1 .. Len(waiters) : waiters[i] = t
ListedIsWaiting ==
    /\ \A t \in Takes : Listed(t) => take[t].pc \in {"parked", "gone"} /\ chan[t] = NoConn
    /\ \A i, j \in 1 .. Len(waiters) : waiters[i] = waiters[j] => i = j

\* What an attempt has received is a connection.
ReceivedOne == \A t \in Takes : take[t].pc = "received" => take[t].conn \in Conns

BrokerInv ==
    ConnsAccounted /\ FiledOnce /\ NewIsEmpty /\ ReceivedOne /\ ListedIsWaiting

\* The list is looked through from its first waiter, which has room.
LEMMA FirstHasRoom ==
  ASSUME BrokerInv, waiters # <<>>
  PROVE  /\ Ready(waiters) # {} /\ FirstReady(waiters) = 1
         /\ 1 \in 1 .. Len(waiters) /\ waiters[1] \in Takes
<1>0. waiters \in Seq(Takes)
  BY DEF BrokerInv, ConnsAccounted, BrokerTypeOK
<1>1. Len(waiters) \in Nat /\ Len(waiters) # 0
  BY <1>0
<1>2. 1 \in 1 .. Len(waiters)
  BY <1>1
<1>3. \A i \in 1 .. Len(waiters) : waiters[i] \in Takes
  BY <1>0
<1>4. \A i \in 1 .. Len(waiters) : chan[waiters[i]] = NoConn
  BY <1>3 DEF BrokerInv, ListedIsWaiting, Listed
<1>5. Ready(waiters) = 1 .. Len(waiters)
  BY <1>4 DEF Ready
<1>6. \A i \in Ready(waiters) : (\A j \in Ready(waiters) : i <= j) => i = 1
  BY <1>1, <1>2, <1>5
<1>7. \A j \in Ready(waiters) : 1 <= j
  BY <1>1, <1>5
<1> QED
  BY <1>2, <1>3, <1>5, <1>6, <1>7 DEF FirstReady

LEMMA InitAccounted == BrokerInit => BrokerInv
BY BrokerConstants DEF BrokerInit, BrokerInv, ConnsAccounted, BrokerTypeOK, OneHolder, ParkedIsListed,
   NoIdleWhileParked, FiledOnce, NewIsEmpty, ReceivedOne, ListedIsWaiting, Listed, IsWith, InPool,
   Links, KeeperSteps, TakeSteps

\* Steps of the network, of the agent and of the broker's listener: they change
\* how far a connection is and leave alone where it is.
LEMMA LinkStep ==
  ASSUME BrokerInv, UNCHANGED <<pool, issued, waiters, chan, take>>,
         link' \in [Conns -> Links],
         keeper' \in [Keepers -> [pc : KeeperSteps, conn : Conns \cup {NoConn}]],
         \A c \in Conns : (InPool(c) \/ c \in issued \/ \E t \in Takes : IsWith(t, c))
            => link'[c] \in {"filed", "closed"}
  PROVE  BrokerInv'
<1>1. BrokerTypeOK'
  BY DEF BrokerInv, ConnsAccounted, BrokerTypeOK
<1>2. (OneHolder /\ ParkedIsListed /\ NoIdleWhileParked)'
  BY DEF BrokerInv, ConnsAccounted, OneHolder, ParkedIsListed, NoIdleWhileParked, IsWith, InPool
<1>3. FiledOnce'
  BY DEF FiledOnce, IsWith, InPool
<1>4. NewIsEmpty' /\ ReceivedOne' /\ ListedIsWaiting'
  BY DEF BrokerInv, NewIsEmpty, ReceivedOne, ListedIsWaiting, Listed
<1> QED
  BY <1>1, <1>2, <1>3, <1>4 DEF BrokerInv, ConnsAccounted

\* A transport step that only changes how far one attempt is keeps the rest.
LEMMA GiveUpStep ==
  ASSUME BrokerInv, NEW t \in Takes, GiveUp(t)
  PROVE  BrokerInv'
<1>1. take' = [take EXCEPT ![t].pc = "gone"] /\ take[t].pc = "parked"
      /\ UNCHANGED <<link, keeper, pool, issued, waiters, chan>>
  BY DEF GiveUp
<1>2. BrokerTypeOK'
  BY <1>1 DEF BrokerInv, ConnsAccounted, BrokerTypeOK, TakeSteps
<1>3. \A u \in Takes : take'[u].conn = take[u].conn
          /\ take'[u].pc = IF u = t THEN "gone" ELSE take[u].pc
  BY <1>1 DEF BrokerInv, ConnsAccounted, BrokerTypeOK
<1>4. \A u \in Takes, c \in Conns : IsWith(u, c)' => IsWith(u, c)
  BY <1>1, <1>3 DEF IsWith
<1>5. \A c \in Conns : InPool(c)' = InPool(c)
  BY <1>1 DEF InPool
<1>6. OneHolder'
  BY <1>1, <1>3, <1>4, <1>5 DEF BrokerInv, ConnsAccounted, OneHolder
<1>7. ParkedIsListed' /\ NoIdleWhileParked'
  BY <1>1, <1>3 DEF BrokerInv, ConnsAccounted, ParkedIsListed, NoIdleWhileParked
<1>8. FiledOnce'
  BY <1>1, <1>4, <1>5 DEF BrokerInv, FiledOnce
<1>9. NewIsEmpty' /\ ReceivedOne' /\ ListedIsWaiting'
  BY <1>1, <1>3 DEF BrokerInv, NewIsEmpty, ReceivedOne, ListedIsWaiting, Listed
<1> QED
  BY <1>2, <1>6, <1>7, <1>8, <1>9 DEF BrokerInv, ConnsAccounted

LEMMA FinishStep ==
  ASSUME BrokerInv, NEW t \in Takes, Finish(t)
  PROVE  BrokerInv'
<1>1. take' = [take EXCEPT ![t] = [pc |-> "gone", conn |-> NoConn]] /\ take[t].pc = "has"
      /\ UNCHANGED <<link, keeper, pool, issued, waiters, chan>>
  BY DEF Finish
<1>2. BrokerTypeOK'
  BY <1>1 DEF BrokerInv, ConnsAccounted, BrokerTypeOK, TakeSteps
<1>3. \A u \in Takes : take'[u] = IF u = t THEN [pc |-> "gone", conn |-> NoConn] ELSE take[u]
  BY <1>1 DEF BrokerInv, ConnsAccounted, BrokerTypeOK
<1>4. \A u \in Takes, c \in Conns : IsWith(u, c)' => IsWith(u, c)
  BY <1>1, <1>3 DEF IsWith
<1>5. \A c \in Conns : InPool(c)' = InPool(c)
  BY <1>1 DEF InPool
<1>6. OneHolder'
  BY <1>1, <1>3, <1>4, <1>5 DEF BrokerInv, ConnsAccounted, OneHolder
<1>7. ParkedIsListed' /\ NoIdleWhileParked'
  BY <1>1, <1>3 DEF BrokerInv, ConnsAccounted, ParkedIsListed, NoIdleWhileParked
<1>8. FiledOnce'
  BY <1>1, <1>4, <1>5 DEF BrokerInv, FiledOnce
<1>9. NewIsEmpty' /\ ReceivedOne' /\ ListedIsWaiting'
  BY <1>1, <1>3 DEF BrokerInv, NewIsEmpty, ReceivedOne, ListedIsWaiting, Listed
<1> QED
  BY <1>2, <1>6, <1>7, <1>8, <1>9 DEF BrokerInv, ConnsAccounted

\* The connection moves from the channel to the hands of the same attempt.
LEMMA ReceiveStep ==
  ASSUME BrokerInv, NEW t \in Takes, Receive(t)
  PROVE  BrokerInv'
<1>1. /\ take[t].pc = "parked" /\ chan[t] # NoConn
      /\ take' = [take EXCEPT ![t] = [pc |-> "received", conn |-> chan[t]]]
      /\ chan' = [chan EXCEPT ![t] = NoConn]
      /\ UNCHANGED <<link, keeper, pool, issued, waiters>>
  BY DEF Receive
<1>2. BrokerTypeOK'
  BY <1>1 DEF BrokerInv, ConnsAccounted, BrokerTypeOK, TakeSteps
<1>3. \A u \in Takes :
        /\ take'[u] = IF u = t THEN [pc |-> "received", conn |-> chan[t]] ELSE take[u]
        /\ chan'[u] = IF u = t THEN NoConn ELSE chan[u]
  BY <1>1 DEF BrokerInv, ConnsAccounted, BrokerTypeOK
<1>4. \A u \in Takes, c \in Conns : IsWith(u, c)' => IsWith(u, c)
  BY <1>1, <1>3, BrokerConstants DEF IsWith
<1>5. \A c \in Conns : InPool(c)' = InPool(c)
  BY <1>1 DEF InPool
<1>6. OneHolder'
  BY <1>1, <1>3, <1>4, <1>5, BrokerConstants DEF BrokerInv, ConnsAccounted, OneHolder
<1>7. ParkedIsListed' /\ NoIdleWhileParked'
  BY <1>1, <1>3 DEF BrokerInv, ConnsAccounted, ParkedIsListed, NoIdleWhileParked
<1>8. FiledOnce'
  BY <1>1, <1>4, <1>5 DEF BrokerInv, FiledOnce
<1>9. NewIsEmpty' /\ ReceivedOne' /\ ListedIsWaiting'
  BY <1>1, <1>3 DEF BrokerInv, ConnsAccounted, BrokerTypeOK, NewIsEmpty, ReceivedOne,
     ListedIsWaiting, Listed
<1> QED
  BY <1>2, <1>6, <1>7, <1>8, <1>9 DEF BrokerInv, ConnsAccounted

LEMMA RecordStep ==
  ASSUME BrokerInv, NEW t \in Takes, Record(t)
  PROVE  BrokerInv'
<1>1. /\ take[t].pc = "received"
      /\ issued' = issued \cup {take[t].conn}
      /\ take' = [take EXCEPT ![t].pc = "has"]
      /\ UNCHANGED <<link, keeper, pool, waiters, chan>>
  BY DEF Record
<1>2. BrokerTypeOK'
  BY <1>1 DEF BrokerInv, ConnsAccounted, BrokerTypeOK, TakeSteps, ReceivedOne
<1>3. \A u \in Takes :
        take'[u].conn = take[u].conn /\ take'[u].pc = IF u = t THEN "has" ELSE take[u].pc
  BY <1>1 DEF BrokerInv, ConnsAccounted, BrokerTypeOK
<1>4. \A u \in Takes, c \in Conns : IsWith(u, c)' = IsWith(u, c)
  BY <1>1, <1>3 DEF IsWith
<1>5. \A c \in Conns : InPool(c)' = InPool(c)
  BY <1>1 DEF InPool
<1>6. \A c \in Conns : c \in issued' => c \in issued \/ IsWith(t, c)
  BY <1>1 DEF IsWith
<1>7. OneHolder'
  BY <1>1, <1>3, <1>4, <1>5, <1>6 DEF BrokerInv, ConnsAccounted, OneHolder
<1>8. ParkedIsListed' /\ NoIdleWhileParked'
  BY <1>1, <1>3 DEF BrokerInv, ConnsAccounted, ParkedIsListed, NoIdleWhileParked
<1>9. FiledOnce'
  BY <1>1, <1>4, <1>5, <1>6 DEF BrokerInv, FiledOnce
<1>10. NewIsEmpty' /\ ReceivedOne' /\ ListedIsWaiting'
  BY <1>1, <1>3 DEF BrokerInv, NewIsEmpty, ReceivedOne, ListedIsWaiting, Listed
<1> QED
  BY <1>2, <1>7, <1>8, <1>9, <1>10 DEF BrokerInv, ConnsAccounted

\* A connection that is being offered is in nobody's hands, in no channel, not
\* in the pool and not issued.
LEMMA OfferedIsNowhere ==
  ASSUME BrokerInv, NEW c \in Conns, link[c] = "accepted"
  PROVE  ~InPool(c) /\ c \notin issued /\ \A t \in Takes : ~IsWith(t, c)
BY DEF BrokerInv, FiledOnce

\* An offer to the first waiter: it leaves the list, and its channel holds what
\* nobody else has.
LEMMA HandOverStep ==
  ASSUME BrokerInv, NEW c \in Conns, Offer(c), waiters # <<>>
  PROVE  BrokerInv'
<1> DEFINE w == waiters[1]
<1>0. /\ Ready(waiters) # {} /\ FirstReady(waiters) = 1
      /\ 1 \in 1 .. Len(waiters) /\ w \in Takes
  BY FirstHasRoom
<1>1. /\ link[c] = "accepted" /\ link' = [link EXCEPT ![c] = "filed"]
      /\ chan' = [chan EXCEPT ![w] = c]
      /\ waiters' = SubSeq(waiters, 2, Len(waiters))
      /\ UNCHANGED <<pool, keeper, issued, take>>
  BY <1>0 DEF Offer
<1>2. waiters \in Seq(Takes) /\ Len(waiters) \in Nat
  BY DEF BrokerInv, ConnsAccounted, BrokerTypeOK
<1>3. /\ waiters' \in Seq(Takes) /\ Len(waiters') = Len(waiters) - 1
      /\ \A i \in 1 .. Len(waiters') : waiters'[i] = waiters[i + 1] /\ i + 1 \in 1 .. Len(waiters)
  <2>1. \A i \in 2 .. Len(waiters) : waiters[i] \in Takes
    BY <1>2
  <2>2. Len(waiters) \in Int /\ 2 \in Int /\ Len(waiters) >= 1
    BY <1>0, <1>2
  <2>3. /\ waiters' \in Seq(Takes)
        /\ Len(waiters') = IF 2 <= Len(waiters) THEN Len(waiters) - 2 + 1 ELSE 0
        /\ \A i \in 1 .. Len(waiters) - 2 + 1 : waiters'[i] = waiters[2 + i - 1]
    BY <1>1, <2>1, <2>2, SubSeqProperties
  <2>4. Len(waiters') = Len(waiters) - 1
    <3>1. \A n \in Int : n >= 1 => (IF 2 <= n THEN n - 2 + 1 ELSE 0) = n - 1
      OBVIOUS
    <3> QED
      BY <2>2, <2>3, <3>1, Zenon
  <2>5. \A i \in 1 .. Len(waiters') : 2 + i - 1 = i + 1 /\ i + 1 \in 1 .. Len(waiters)
                                    /\ i \in 1 .. Len(waiters) - 2 + 1
    BY <2>2, <2>4
  <2> QED
    BY <2>3, <2>4, <2>5
<1>4. BrokerTypeOK'
  BY <1>0, <1>1, <1>3 DEF BrokerInv, ConnsAccounted, BrokerTypeOK, Links
<1>5. \A u \in Takes : chan'[u] = IF u = w THEN c ELSE chan[u]
  BY <1>0, <1>1 DEF BrokerInv, ConnsAccounted, BrokerTypeOK
<1>6. take[w].pc \in {"parked", "gone"} /\ chan[w] = NoConn
  BY <1>0 DEF BrokerInv, ListedIsWaiting, Listed
<1>7. ~InPool(c) /\ c \notin issued /\ \A t \in Takes : ~IsWith(t, c)
  BY <1>1, OfferedIsNowhere
<1>8. \A u \in Takes, d \in Conns : IsWith(u, d)' <=> IsWith(u, d) \/ (u = w /\ d = c)
  BY <1>1, <1>5, <1>6, BrokerConstants DEF IsWith
<1>9. \A d \in Conns : InPool(d)' = InPool(d)
  BY <1>1 DEF InPool
<1>10. OneHolder'
  <2>1. \A d \in Conns : \A i, j \in 1 .. Len(pool') : pool'[i] = d /\ pool'[j] = d => i = j
    BY <1>1 DEF BrokerInv, ConnsAccounted, OneHolder
  <2>2. \A d \in Conns : \A t, u \in Takes : IsWith(t, d)' /\ IsWith(u, d)' => t = u
    BY <1>7, <1>8 DEF BrokerInv, ConnsAccounted, OneHolder
  <2>3. \A d \in Conns : \A t \in Takes : chan'[t] = d => take'[t].pc \notin {"received", "has"}
    BY <1>1, <1>5, <1>6 DEF BrokerInv, ConnsAccounted, OneHolder
  <2>4. \A d \in Conns : InPool(d)' => d \notin issued' /\ \A t \in Takes : ~IsWith(t, d)'
    BY <1>1, <1>7, <1>8, <1>9 DEF BrokerInv, ConnsAccounted, OneHolder
  <2> QED
    BY <2>1, <2>2, <2>3, <2>4 DEF OneHolder
<1>11. \A t \in Takes : Listed(t)' <=> Listed(t) /\ t # w
  <2>1. ASSUME NEW t \in Takes, Listed(t)' PROVE Listed(t) /\ t # w
    <3>1. PICK i \in 1 .. Len(waiters') : waiters'[i] = t
      BY <2>1 DEF Listed
    <3>2. waiters[i + 1] = t /\ i + 1 \in 1 .. Len(waiters) /\ i + 1 # 1
      BY <1>3, <3>1
    <3> QED
      BY <1>0, <3>2 DEF Listed, BrokerInv, ListedIsWaiting
  <2>2. ASSUME NEW t \in Takes, Listed(t), t # w PROVE Listed(t)'
    <3>1. PICK i \in 1 .. Len(waiters) : waiters[i] = t
      BY <2>2 DEF Listed
    <3>2. i # 1
      BY <2>2, <3>1
    <3>3. i - 1 \in 1 .. Len(waiters')
      BY <1>2, <1>3, <3>1, <3>2
    <3>4. waiters'[i - 1] = t
      BY <1>3, <3>1, <3>3
    <3> QED
      BY <3>3, <3>4 DEF Listed
  <2> QED
    BY <2>1, <2>2
<1>12. ParkedIsListed'
  <2>1. \A t \in Takes : take'[t].pc = "parked" /\ chan'[t] = NoConn => Listed(t)'
    BY <1>1, <1>5, <1>11, BrokerConstants
    DEF BrokerInv, ConnsAccounted, ParkedIsListed, Listed
  <2> QED
    BY <2>1 DEF ParkedIsListed, Listed
<1>13. NoIdleWhileParked'
  BY <1>1 DEF BrokerInv, ConnsAccounted, NoIdleWhileParked
<1>14. FiledOnce'
  <2>1. \A d \in Conns : link'[d] = IF d = c THEN "filed" ELSE link[d]
    BY <1>1 DEF BrokerInv, ConnsAccounted, BrokerTypeOK
  <2> QED
    BY <1>1, <1>8, <1>9, <2>1 DEF BrokerInv, FiledOnce
<1>15. NewIsEmpty' /\ ReceivedOne'
  BY <1>1, <1>5, <1>6 DEF BrokerInv, NewIsEmpty, ReceivedOne
<1>16. ListedIsWaiting'
  <2>1. \A t \in Takes : Listed(t)' => take'[t].pc \in {"parked", "gone"} /\ chan'[t] = NoConn
    BY <1>1, <1>5, <1>11 DEF BrokerInv, ListedIsWaiting
  <2>2. \A i, j \in 1 .. Len(waiters') : waiters'[i] = waiters'[j] => i = j
    BY <1>3 DEF BrokerInv, ListedIsWaiting
  <2> QED
    BY <2>1, <2>2 DEF ListedIsWaiting
<1> QED
  BY <1>4, <1>10, <1>12, <1>13, <1>14, <1>15, <1>16 DEF BrokerInv, ConnsAccounted

\* An offer nobody waits for: the connection is the pool's newest.
LEMMA FileStep ==
  ASSUME BrokerInv, NEW c \in Conns, Offer(c), waiters = <<>>
  PROVE  BrokerInv'
<1>1. /\ link[c] = "accepted" /\ link' = [link EXCEPT ![c] = "filed"]
      /\ pool' = Append(pool, c) /\ waiters' = waiters
      /\ UNCHANGED <<chan, keeper, issued, take>>
  BY DEF Offer, Ready
<1>2. pool \in Seq(Conns) /\ Len(pool) \in Nat
  BY DEF BrokerInv, ConnsAccounted, BrokerTypeOK
<1>3. /\ Len(pool') = Len(pool) + 1 /\ pool' \in Seq(Conns)
      /\ \A i \in 1 .. Len(pool') : pool'[i] = IF i = Len(pool) + 1 THEN c ELSE pool[i]
  BY <1>1, <1>2
<1>4. BrokerTypeOK'
  BY <1>1, <1>3 DEF BrokerInv, ConnsAccounted, BrokerTypeOK, Links
<1>5. ~InPool(c) /\ c \notin issued /\ \A t \in Takes : ~IsWith(t, c)
  BY <1>1, OfferedIsNowhere
<1>6. \A d \in Conns : InPool(d)' => InPool(d) \/ d = c
  BY <1>2, <1>3 DEF InPool
<1>7. \A u \in Takes, d \in Conns : IsWith(u, d)' = IsWith(u, d)
  BY <1>1 DEF IsWith
<1>8. OneHolder'
  <2>1. \A d \in Conns : \A i, j \in 1 .. Len(pool') : pool'[i] = d /\ pool'[j] = d => i = j
    BY <1>2, <1>3, <1>5 DEF BrokerInv, ConnsAccounted, OneHolder, InPool
  <2>2. \A d \in Conns : \A t, u \in Takes : IsWith(t, d)' /\ IsWith(u, d)' => t = u
    BY <1>7 DEF BrokerInv, ConnsAccounted, OneHolder
  <2>3. \A d \in Conns : \A t \in Takes : chan'[t] = d => take'[t].pc \notin {"received", "has"}
    BY <1>1 DEF BrokerInv, ConnsAccounted, OneHolder
  <2>4. \A d \in Conns : InPool(d)' => d \notin issued' /\ \A t \in Takes : ~IsWith(t, d)'
    BY <1>1, <1>5, <1>6, <1>7 DEF BrokerInv, ConnsAccounted, OneHolder
  <2> QED
    BY <2>1, <2>2, <2>3, <2>4 DEF OneHolder
<1>9. ParkedIsListed' /\ NoIdleWhileParked'
  BY <1>1 DEF BrokerInv, ConnsAccounted, ParkedIsListed, NoIdleWhileParked
<1>10. FiledOnce'
  <2>1. \A d \in Conns : link'[d] = IF d = c THEN "filed" ELSE link[d]
    BY <1>1 DEF BrokerInv, ConnsAccounted, BrokerTypeOK
  <2> QED
    BY <1>1, <1>6, <1>7, <2>1 DEF BrokerInv, FiledOnce
<1>11. NewIsEmpty' /\ ReceivedOne' /\ ListedIsWaiting'
  BY <1>1 DEF BrokerInv, NewIsEmpty, ReceivedOne, ListedIsWaiting, Listed
<1> QED
  BY <1>4, <1>8, <1>9, <1>10, <1>11 DEF BrokerInv, ConnsAccounted

\* An attempt that finds a connection takes the oldest one out of the pool.
LEMMA TakePooledStep ==
  ASSUME BrokerInv, NEW t \in Takes, TakeOne(t), pool # <<>>
  PROVE  BrokerInv'
<1> DEFINE h == Head(pool)
<1>1. /\ take[t].pc = "new" /\ issued' = issued \cup {h} /\ pool' = Tail(pool)
      /\ take' = [take EXCEPT ![t] = [pc |-> "has", conn |-> h]]
      /\ UNCHANGED <<waiters, link, keeper, chan>>
  BY DEF TakeOne
<1>2. pool \in Seq(Conns) /\ Len(pool) \in Nat /\ Len(pool) # 0 /\ h = pool[1] /\ h \in Conns
  BY DEF BrokerInv, ConnsAccounted, BrokerTypeOK
<1>3. /\ pool' \in Seq(Conns) /\ Len(pool') = Len(pool) - 1
      /\ \A i \in 1 .. Len(pool') : pool'[i] = pool[i + 1] /\ i + 1 \in 1 .. Len(pool)
  BY <1>1, <1>2
<1>4. BrokerTypeOK'
  BY <1>1, <1>2, <1>3 DEF BrokerInv, ConnsAccounted, BrokerTypeOK, TakeSteps
<1>5. \A u \in Takes : take'[u] = IF u = t THEN [pc |-> "has", conn |-> h] ELSE take[u]
  BY <1>1 DEF BrokerInv, ConnsAccounted, BrokerTypeOK
<1>6. \A u \in Takes, d \in Conns : IsWith(u, d)' => IsWith(u, d) \/ (u = t /\ d = h)
  BY <1>1, <1>5 DEF IsWith
<1>7. InPool(h) /\ 1 \in 1 .. Len(pool)
  BY <1>2 DEF InPool
<1>8. \A d \in Conns : InPool(d)' => InPool(d) /\ d # h
  <2> SUFFICES ASSUME NEW d \in Conns, InPool(d)' PROVE InPool(d) /\ d # h
    OBVIOUS
  <2>1. PICK i \in 1 .. Len(pool') : pool'[i] = d
    BY DEF InPool
  <2>2. pool[i + 1] = d /\ i + 1 \in 1 .. Len(pool) /\ i + 1 # 1
    BY <1>3, <2>1
  <2> QED
    BY <1>2, <1>7, <2>2 DEF InPool, BrokerInv, ConnsAccounted, OneHolder
<1>9. OneHolder'
  <2>0. \A u \in Takes : ~IsWith(u, h)
    BY <1>2, <1>7 DEF BrokerInv, ConnsAccounted, OneHolder
  <2>1. \A d \in Conns : \A i, j \in 1 .. Len(pool') : pool'[i] = d /\ pool'[j] = d => i = j
    BY <1>3 DEF BrokerInv, ConnsAccounted, OneHolder
  <2>2. \A d \in Conns : \A r, u \in Takes : IsWith(r, d)' /\ IsWith(u, d)' => r = u
    BY <1>6, <2>0 DEF BrokerInv, ConnsAccounted, OneHolder
  <2>3. \A d \in Conns : \A u \in Takes : chan'[u] = d => take'[u].pc \notin {"received", "has"}
    BY <1>1, <1>5, BrokerConstants DEF BrokerInv, ConnsAccounted, OneHolder, NewIsEmpty
  <2>4. \A d \in Conns : InPool(d)' => d \notin issued' /\ \A u \in Takes : ~IsWith(u, d)'
    BY <1>1, <1>6, <1>8 DEF BrokerInv, ConnsAccounted, OneHolder
  <2> QED
    BY <2>1, <2>2, <2>3, <2>4 DEF OneHolder
<1>10. ParkedIsListed'
  BY <1>1, <1>5 DEF BrokerInv, ConnsAccounted, ParkedIsListed
<1>11. NoIdleWhileParked'
  BY <1>1 DEF BrokerInv, ConnsAccounted, NoIdleWhileParked
<1>12. FiledOnce'
  BY <1>1, <1>6, <1>7, <1>8 DEF BrokerInv, FiledOnce
<1>13. NewIsEmpty' /\ ReceivedOne' /\ ListedIsWaiting'
  BY <1>1, <1>5 DEF BrokerInv, NewIsEmpty, ReceivedOne, ListedIsWaiting, Listed
<1> QED
  BY <1>4, <1>9, <1>10, <1>11, <1>12, <1>13 DEF BrokerInv, ConnsAccounted

\* An attempt that finds none parks, last on the list.
LEMMA ParkStep ==
  ASSUME BrokerInv, NEW t \in Takes, TakeOne(t), pool = <<>>
  PROVE  BrokerInv'
<1>1. /\ take[t].pc = "new" /\ waiters' = Append(waiters, t)
      /\ take' = [take EXCEPT ![t].pc = "parked"]
      /\ UNCHANGED <<pool, issued, link, keeper, chan>>
  BY DEF TakeOne
<1>2. waiters \in Seq(Takes) /\ Len(waiters) \in Nat
  BY DEF BrokerInv, ConnsAccounted, BrokerTypeOK
<1>3. /\ waiters' \in Seq(Takes) /\ Len(waiters') = Len(waiters) + 1
      /\ \A i \in 1 .. Len(waiters') : waiters'[i] = IF i = Len(waiters) + 1 THEN t ELSE waiters[i]
  BY <1>1, <1>2
<1>4. BrokerTypeOK'
  BY <1>1, <1>3 DEF BrokerInv, ConnsAccounted, BrokerTypeOK, TakeSteps
<1>5. \A u \in Takes : take'[u].conn = take[u].conn
          /\ take'[u].pc = IF u = t THEN "parked" ELSE take[u].pc
  BY <1>1 DEF BrokerInv, ConnsAccounted, BrokerTypeOK
<1>6. \A u \in Takes, c \in Conns : IsWith(u, c)' => IsWith(u, c)
  BY <1>1, <1>5 DEF IsWith
<1>7. \A c \in Conns : InPool(c)' = InPool(c)
  BY <1>1 DEF InPool
<1>8. OneHolder'
  BY <1>1, <1>5, <1>6, <1>7 DEF BrokerInv, ConnsAccounted, OneHolder
<1>9. ~Listed(t)
  BY <1>1 DEF BrokerInv, ListedIsWaiting
<1>10. \A u \in Takes : Listed(u)' <=> Listed(u) \/ u = t
  <2>1. \A u \in Takes : Listed(u)' => Listed(u) \/ u = t
    BY <1>2, <1>3 DEF Listed
  <2>2. \A u \in Takes : Listed(u) => Listed(u)'
    BY <1>2, <1>3 DEF Listed
  <2>3. Len(waiters) + 1 \in 1 .. Len(waiters')
    BY <1>2, <1>3
  <2>4. Listed(t)'
    BY <1>3, <2>3 DEF Listed
  <2> QED
    BY <2>1, <2>2, <2>4
<1>11. ParkedIsListed'
  <2>1. \A u \in Takes : take'[u].pc = "parked" /\ chan'[u] = NoConn => Listed(u)'
    BY <1>1, <1>5, <1>10 DEF BrokerInv, ConnsAccounted, ParkedIsListed, Listed
  <2> QED
    BY <2>1 DEF ParkedIsListed, Listed
<1>12. NoIdleWhileParked'
  BY <1>1 DEF NoIdleWhileParked
<1>13. FiledOnce'
  BY <1>1, <1>6, <1>7 DEF BrokerInv, FiledOnce
<1>14. NewIsEmpty' /\ ReceivedOne'
  BY <1>1, <1>5 DEF BrokerInv, NewIsEmpty, ReceivedOne
<1>15. ListedIsWaiting'
  <2>1. \A u \in Takes : Listed(u)' => take'[u].pc \in {"parked", "gone"} /\ chan'[u] = NoConn
    BY <1>1, <1>5, <1>10 DEF BrokerInv, ListedIsWaiting, NewIsEmpty
  <2>2. \A i, j \in 1 .. Len(waiters') : waiters'[i] = waiters'[j] => i = j
    BY <1>2, <1>3, <1>9 DEF BrokerInv, ListedIsWaiting, Listed
  <2> QED
    BY <2>1, <2>2 DEF ListedIsWaiting
<1> QED
  BY <1>4, <1>8, <1>11, <1>12, <1>13, <1>14, <1>15 DEF BrokerInv, ConnsAccounted

\* Disconnecting empties the pool; what it closes was filed.
LEMMA DisconnectStep ==
  ASSUME BrokerInv, Disconnect
  PROVE  BrokerInv'
<1>1. /\ link' = [c \in Conns |-> IF InPool(c) \/ c \in issued THEN "closed" ELSE link[c]]
      /\ pool' = <<>> /\ issued' = {}
      /\ UNCHANGED <<keeper, waiters, chan, take>>
  BY DEF Disconnect
<1>2. BrokerTypeOK'
  BY <1>1 DEF BrokerInv, ConnsAccounted, BrokerTypeOK, Links
<1>3. \A u \in Takes, c \in Conns : IsWith(u, c)' = IsWith(u, c)
  BY <1>1 DEF IsWith
<1>4. \A c \in Conns : ~InPool(c)'
  BY <1>1 DEF InPool
<1>5. OneHolder'
  BY <1>1, <1>3, <1>4 DEF BrokerInv, ConnsAccounted, OneHolder
<1>6. ParkedIsListed' /\ NoIdleWhileParked'
  BY <1>1 DEF BrokerInv, ConnsAccounted, ParkedIsListed, NoIdleWhileParked
<1>7. FiledOnce'
  BY <1>1, <1>3, <1>4 DEF BrokerInv, FiledOnce
<1>8. NewIsEmpty' /\ ReceivedOne' /\ ListedIsWaiting'
  BY <1>1 DEF BrokerInv, NewIsEmpty, ReceivedOne, ListedIsWaiting, Listed
<1> QED
  BY <1>2, <1>5, <1>6, <1>7, <1>8 DEF BrokerInv, ConnsAccounted

\* The steps of the agent's goroutines.
LEMMA DialerStep ==
  ASSUME BrokerInv, NEW k \in Keepers, AgentDialer(k)
  PROVE  BrokerInv'
<1>1. CASE \E c \in Conns : Dial(k, c)
  <2>1. PICK c \in Conns : Dial(k, c)
    BY <1>1
  <2>2. /\ link' \in [Conns -> Links] /\ \A d \in Conns : d # c => link'[d] = link[d]
        /\ keeper' \in [Keepers -> [pc : KeeperSteps, conn : Conns \cup {NoConn}]]
    BY <2>1 DEF Dial, BrokerInv, ConnsAccounted, BrokerTypeOK, Links, KeeperSteps
  <2>3. link[c] = "free" /\ UNCHANGED <<pool, issued, waiters, chan, take>>
    BY <2>1 DEF Dial
  <2> QED
    BY <2>2, <2>3, LinkStep DEF BrokerInv, FiledOnce
<1>2. CASE Answered(k) \/ Redial(k)
  <2>1. UNCHANGED <<link, pool, issued, waiters, chan, take>>
    BY <1>2 DEF Answered, Redial
  <2>2. link' \in [Conns -> Links]
    BY <2>1 DEF BrokerInv, ConnsAccounted, BrokerTypeOK
  <2>3. keeper \in [Keepers -> [pc : KeeperSteps, conn : Conns \cup {NoConn}]]
    BY DEF BrokerInv, ConnsAccounted, BrokerTypeOK
  <2>4. "pause" \in KeeperSteps /\ "dial" \in KeeperSteps
    BY DEF KeeperSteps
  <2>5. keeper' \in [Keepers -> [pc : KeeperSteps, conn : Conns \cup {NoConn}]]
    <3>1. CASE Answered(k)
      BY <2>3, <2>4, <3>1 DEF Answered
    <3>2. CASE Redial(k)
      BY <2>3, <2>4, <3>2 DEF Redial
    <3> QED
      BY <1>2, <3>1, <3>2
  <2> QED
    BY <2>1, <2>2, <2>5, LinkStep DEF BrokerInv, FiledOnce
<1> QED
  BY <1>1, <1>2 DEF AgentDialer

\* The steps of one connection other than its offer.
LEMMA ConnStep ==
  ASSUME BrokerInv, NEW c \in Conns,
         Accept(c) \/ RefuseConn(c) \/ ConnEnds(c) \/ Recycle(c)
  PROVE  BrokerInv'
<1>1. UNCHANGED <<keeper, pool, issued, waiters, chan, take>>
  BY DEF Accept, RefuseConn, ConnEnds, Recycle
<1>2. /\ link' \in [Conns -> Links] /\ \A d \in Conns : d # c => link'[d] = link[d]
      /\ keeper' \in [Keepers -> [pc : KeeperSteps, conn : Conns \cup {NoConn}]]
  BY <1>1 DEF Accept, RefuseConn, ConnEnds, Recycle, BrokerInv, ConnsAccounted, BrokerTypeOK, Links
<1>3. (InPool(c) \/ c \in issued \/ \E t \in Takes : IsWith(t, c)) => link'[c] \in {"filed", "closed"}
  <2>1. CASE Accept(c) \/ RefuseConn(c)
    BY <2>1 DEF Accept, RefuseConn, BrokerInv, FiledOnce
  <2>2. CASE ConnEnds(c)
    BY <2>2 DEF ConnEnds, BrokerInv, ConnsAccounted, BrokerTypeOK
  <2>3. CASE Recycle(c)
    <3>1. ~Referred(c)
      BY <2>3 DEF Recycle
    <3>2. ~(InPool(c) \/ c \in issued \/ \E t \in Takes : IsWith(t, c))
      BY <3>1 DEF Referred, IsWith, InChan, InHand
    <3> QED
      BY <3>2
  <2> QED
    BY <2>1, <2>2, <2>3
<1> QED
  BY <1>1, <1>2, <1>3, LinkStep DEF BrokerInv, FiledOnce

LEMMA StepAccounted == BrokerInv /\ [BrokerNext]_brokerVars => BrokerInv'
<1> SUFFICES ASSUME BrokerInv, [BrokerNext]_brokerVars PROVE BrokerInv'
  OBVIOUS
<1>1. CASE \E k \in Keepers : AgentDialer(k)
  BY <1>1, DialerStep
<1>2. CASE \E c \in Conns : Accept(c) \/ RefuseConn(c) \/ ConnEnds(c) \/ Recycle(c)
  BY <1>2, ConnStep
<1>3. CASE \E c \in Conns : Offer(c)
  BY <1>3, HandOverStep, FileStep
<1>4. CASE \E t \in Takes : TakeOne(t)
  BY <1>4, TakePooledStep, ParkStep
<1>5. CASE \E t \in Takes : Receive(t) \/ Record(t) \/ GiveUp(t) \/ Finish(t)
  BY <1>5, ReceiveStep, RecordStep, GiveUpStep, FinishStep
<1>6. CASE Disconnect
  BY <1>6, DisconnectStep
<1>7. CASE UNCHANGED brokerVars
  <2>1. UNCHANGED <<link, keeper, pool, issued, waiters, chan, take>>
    BY <1>7 DEF brokerVars
  <2> QED
    BY <2>1, LinkStep DEF BrokerInv, ConnsAccounted, BrokerTypeOK, FiledOnce
<1> QED
  BY <1>1, <1>2, <1>3, <1>4, <1>5, <1>6, <1>7 DEF BrokerNext, Transport

\* Whatever the agent, the network and the transport do, no connection is held
\* twice, no parked attempt is forgotten, and no connection lies in the pool
\* while an attempt is parked (agentPool.offer and take).
THEOREM ConnsAccountedHolds == BrokerSpec => []ConnsAccounted
<1>1. BrokerInit => BrokerInv
  BY InitAccounted
<1>2. BrokerInv /\ [BrokerNext]_brokerVars => BrokerInv'
  BY StepAccounted
<1>3. BrokerInv => ConnsAccounted
  BY DEF BrokerInv
<1> QED
  BY <1>1, <1>2, <1>3, PTL DEF BrokerSpec
=============================================================================
