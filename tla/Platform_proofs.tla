-------------------------- MODULE Platform_proofs ---------------------------
(***************************************************************************)
(* Proofs about policies, tenants and the deliveries of a step.            *)
(***************************************************************************)
EXTENDS RunPolicy, Tenants, StepStream, FiniteSetTheorems, TLAPS

-----------------------------------------------------------------------------
(***************************************************************************)
(* RunPolicy, for every set of runs, tools, kinds and requested policies.  *)
(***************************************************************************)

(***************************************************************************)
(* Lemmas about policy.go                                                  *)
(***************************************************************************)

\* IsSubset is sound: what it accepts permits nothing the parent does not.
LEMMA SubsetSound ==
  ASSUME NEW q \in PolicyType, NEW p \in PolicyType, IsSubset(q, p)
  PROVE  NoWider(q, p)
<1>1. ASSUME NEW t \in Tools, AllowsTool(q, t)
      PROVE  AllowsTool(p, t)
  <2>0. t # Star
    BY <1>1, PolicyAssumption
  <2>1. CASE AllowHasStar(q)
    BY <1>1, <2>0, <2>1 DEF IsSubset, AllowsTool, AllowHasStar
  <2>2. CASE ~AllowHasStar(q)
    <3>1. t \in EffectiveAllow(q) \ {Star}
      BY <1>1, <2>0, <2>2 DEF AllowsTool, AllowHasStar, EffectiveAllow
    <3>2. t \notin p.deny /\ (AllowHasStar(p) \/ t \in EffectiveAllow(p))
      BY <2>2, <3>1 DEF IsSubset
    <3> QED
      BY <2>0, <3>2 DEF AllowsTool, AllowHasStar, EffectiveAllow
  <2> QED
    BY <2>1, <2>2
<1>2. ASSUME NEW k \in Kinds, AllowsResourceKind(q, k)
      PROVE  AllowsResourceKind(p, k)
  BY <1>2 DEF IsSubset, KindsSubset, AllowsResourceKind
<1>3. q.max <= p.max
  BY DEF IsSubset
<1> QED
  BY <1>1, <1>2, <1>3 DEF NoWider

LEMMA NoWiderReflexive ==
  ASSUME NEW p \in PolicyType
  PROVE  NoWider(p, p)
BY DEF NoWider, PolicyType

LEMMA NoWiderTransitive ==
  ASSUME NEW p \in PolicyType, NEW q \in PolicyType, NEW r \in PolicyType,
         NoWider(r, q), NoWider(q, p)
  PROVE  NoWider(r, p)
BY DEF NoWider, PolicyType

\* The policy a child gets is a policy, and no wider than its parent's.
LEMMA ChildPolicy ==
  ASSUME NEW p \in PolicyType, NEW spec \in Specs, PolicyAccepted(spec, p)
  PROVE  /\ RequestedPolicy(spec, p) \in PolicyType
         /\ NoWider(RequestedPolicy(spec, p), p)
<1>1. DefaultRunPolicy \in PolicyType
  BY PolicyAssumption DEF DefaultRunPolicy, PolicyType
<1>2. spec.policy \in PolicyType
  BY <1>1, PolicyAssumption DEF Specs
<1>3. RequestedPolicy(spec, p) \in PolicyType
  <2>1. [p EXCEPT !.allow = spec.policy.allow] \in PolicyType
    BY <1>2 DEF PolicyType
  <2> QED
    BY <1>2, <2>1 DEF RequestedPolicy
<1>4. CASE p.inherit
  BY <1>3, <1>4, NoWiderReflexive DEF RequestedPolicy
<1>5. CASE ~p.inherit
  BY <1>3, <1>5, SubsetSound DEF PolicyAccepted
<1> QED
  BY <1>3, <1>4, <1>5

-----------------------------------------------------------------------------
(***************************************************************************)
(* Type correctness                                                        *)
(***************************************************************************)

\* Every state of the spawn tree is well typed.
THEOREM TypeCorrect == Spec => []TypeOK
<1>0. DefaultRunPolicy \in PolicyType
  BY PolicyAssumption DEF DefaultRunPolicy, PolicyType
<1>1. Init => TypeOK
  BY <1>0 DEF Init, TypeOK
<1>2. TypeOK /\ [Next]_vars => TypeOK'
  <2> SUFFICES ASSUME TypeOK, [Next]_vars
               PROVE  TypeOK'
    OBVIOUS
  <2> USE DEF TypeOK
  <2>1. ASSUME NEW r \in Runs, NEW g \in Requests, StartRun(r, g)
        PROVE  TypeOK'
    <3>1. g \in PolicyType
      BY PolicyAssumption
    <3>2. [g EXCEPT !.max = DefaultCap] \in PolicyType
      BY <3>1, PolicyAssumption DEF PolicyType
    <3>3. PolicyFromProto(g) \in PolicyType
      BY <3>1, <3>2 DEF PolicyFromProto
    <3> QED
      BY <2>1, <3>1, <3>3 DEF StartRun
  <2>2. ASSUME NEW r \in Runs, StartRunDefault(r)
        PROVE  TypeOK'
    BY <1>0, <2>2 DEF StartRunDefault
  <2>3. ASSUME NEW r \in Runs, NEW c \in Runs, NEW spec \in Specs,
               SpawnChild(r, c, spec)
        PROVE  TypeOK'
    <3>1. RequestedPolicy(spec, policy[r]) \in PolicyType
      BY <2>3, ChildPolicy DEF SpawnChild
    <3> QED
      BY <2>3, <3>1, PolicyAssumption DEF SpawnChild
  <2>4. ASSUME NEW r \in Runs, NEW t \in Tools, InvokeTool(r, t)
        PROVE  TypeOK'
    BY <2>4 DEF InvokeTool
  <2>5. ASSUME NEW r \in Runs, NEW k \in Kinds, ProvisionResource(r, k)
        PROVE  TypeOK'
    <3>1. "provision_resource" \in Tools
      BY <2>5 DEF ProvisionResource, Offered
    <3> QED
      BY <2>5, <3>1 DEF ProvisionResource
  <2>6. CASE UNCHANGED vars
    BY <2>6 DEF vars
  <2> QED
    BY <2>1, <2>2, <2>3, <2>4, <2>5, <2>6 DEF Next
<1> QED
  BY <1>1, <1>2, PTL DEF Spec

-----------------------------------------------------------------------------
(***************************************************************************)
(* No escalation.  The tree grows at its leaves: only live runs have       *)
(* anything above them, and what is above a run is live.                   *)
(***************************************************************************)

TreeShape == \A c \in Runs : /\ above[c] \subseteq live
                             /\ c \notin live => above[c] = {}

\* No run, at any depth, may do what a run above it may not.
THEOREM NoEscalationHolds == Spec => []NoEscalation
<1>1. Init => TreeShape /\ NoEscalation
  BY DEF Init, TreeShape, NoEscalation
<1>2. TypeOK /\ TypeOK' /\ TreeShape /\ NoEscalation /\ [Next]_vars
        => TreeShape' /\ NoEscalation'
  <2> SUFFICES ASSUME TypeOK, TypeOK', TreeShape, NoEscalation, [Next]_vars
               PROVE  TreeShape' /\ NoEscalation'
    OBVIOUS
  <2>1. ASSUME NEW r \in Runs, r \notin live, live' = live \cup {r},
               UNCHANGED above, \A x \in live : policy'[x] = policy[x]
        PROVE  TreeShape' /\ NoEscalation'
    BY <2>1 DEF TypeOK, TreeShape, NoEscalation
  <2>2. ASSUME NEW r \in Runs, NEW c \in Runs, NEW spec \in Specs,
               SpawnChild(r, c, spec)
        PROVE  TreeShape' /\ NoEscalation'
    <3>1. /\ r \in live /\ c \notin live /\ live' = live \cup {c}
          /\ above' = [above EXCEPT ![c] = above[r] \cup {r}]
          /\ policy' = [policy EXCEPT ![c] = RequestedPolicy(spec, policy[r])]
          /\ PolicyAccepted(spec, policy[r])
      BY <2>2 DEF SpawnChild
    <3>2. TreeShape'
      BY <3>1 DEF TypeOK, TreeShape
    <3>3. NoWider(policy'[c], policy[r])
      BY <3>1, ChildPolicy DEF TypeOK
    <3>4. \A x \in live : policy'[x] = policy[x] /\ above'[x] = above[x]
      BY <3>1 DEF TypeOK
    <3>5. ASSUME NEW x \in live, NEW a \in above'[x]
          PROVE  NoWider(policy'[x], policy'[a])
      BY <3>4, <3>5 DEF TypeOK, TreeShape, NoEscalation
    <3>6. ASSUME NEW a \in above'[c]
          PROVE  NoWider(policy'[c], policy'[a])
      <4>1. above'[c] = above[r] \cup {r} /\ above[r] \subseteq live
        BY <3>1 DEF TypeOK, TreeShape
      <4>2. CASE a = r
        BY <3>1, <3>3, <3>4, <4>2
      <4>3. CASE a \in above[r]
        <5>1. NoWider(policy[r], policy[a])
          BY <3>1, <4>3 DEF NoEscalation
        <5>2. policy'[c] \in PolicyType /\ policy[r] \in PolicyType
                /\ policy[a] \in PolicyType
          BY <4>1, <4>3 DEF TypeOK
        <5>3. NoWider(policy'[c], policy[a])
          BY <3>3, <5>1, <5>2, NoWiderTransitive
        <5> QED
          BY <3>4, <4>1, <4>3, <5>3
      <4> QED
        BY <3>6, <4>1, <4>2, <4>3
    <3>7. NoEscalation'
      BY <3>1, <3>5, <3>6 DEF NoEscalation
    <3> QED
      BY <3>2, <3>7
  <2>3. ASSUME UNCHANGED <<policy, above, live>>
        PROVE  TreeShape' /\ NoEscalation'
    BY <2>3 DEF TreeShape, NoEscalation, NoWider, AllowsTool, AllowsResourceKind
  <2>4. ASSUME NEW r \in Runs, NEW g \in Requests, StartRun(r, g)
        PROVE  TreeShape' /\ NoEscalation'
    BY <2>1, <2>4 DEF StartRun, TypeOK
  <2>5. ASSUME NEW r \in Runs, StartRunDefault(r)
        PROVE  TreeShape' /\ NoEscalation'
    BY <2>1, <2>5 DEF StartRunDefault, TypeOK
  <2> QED
    BY <2>2, <2>3, <2>4, <2>5 DEF Next, vars, InvokeTool, ProvisionResource
<1> QED
  BY <1>1, <1>2, TypeCorrect, PTL DEF Spec

-----------------------------------------------------------------------------
(***************************************************************************)
(* What runs did.  A run acts under its own policy, which never changes    *)
(* once it is live, and the policies above it are no narrower.             *)
(***************************************************************************)

Deeds(r) == /\ r \notin live => used[r] = {} /\ obtained[r] = {}
            /\ \A t \in used[r] \ {"wait_for_agents"} : AllowsTool(policy[r], t)
            /\ \A k \in obtained[r] : AllowsResourceKind(policy[r], k)

DeedsAllowed == \A r \in Runs : Deeds(r)

LEMMA DeedsAllowedHolds == Spec => []DeedsAllowed
<1>1. Init => DeedsAllowed
  BY DEF Init, DeedsAllowed, Deeds
<1>2. TypeOK /\ DeedsAllowed /\ [Next]_vars => DeedsAllowed'
  <2> SUFFICES ASSUME TypeOK, DeedsAllowed, [Next]_vars, NEW x \in Runs
               PROVE  Deeds(x)'
    BY DEF DeedsAllowed
  <2>0. Deeds(x)
    BY DEF DeedsAllowed
  <2>1. ASSUME NEW r \in Runs, NEW g \in Requests, StartRun(r, g)
        PROVE  Deeds(x)'
    BY <2>0, <2>1 DEF StartRun, Deeds, TypeOK
  <2>2. ASSUME NEW r \in Runs, StartRunDefault(r)
        PROVE  Deeds(x)'
    BY <2>0, <2>2 DEF StartRunDefault, Deeds, TypeOK
  <2>3. ASSUME NEW r \in Runs, NEW c \in Runs, NEW spec \in Specs,
               SpawnChild(r, c, spec)
        PROVE  Deeds(x)'
    <3>1. /\ r \in live /\ c \notin live /\ live' = live \cup {c}
          /\ \A y \in Runs : y # c => policy'[y] = policy[y]
          /\ \A y \in Runs : y # r => used'[y] = used[y]
          /\ used'[r] = used[r] \cup {"spawn_agent"}
          /\ obtained' = obtained
      BY <2>3 DEF SpawnChild, TypeOK
    <3>2. AllowsTool(policy[r], "spawn_agent")
      BY <2>3 DEF SpawnChild, Offered
    <3>3. CASE x = c
      BY <2>0, <3>1, <3>3 DEF Deeds
    <3>4. CASE x = r
      BY <2>0, <3>1, <3>2, <3>4 DEF Deeds
    <3>5. CASE x # c /\ x # r
      BY <2>0, <3>1, <3>5 DEF Deeds
    <3> QED
      BY <3>3, <3>4, <3>5
  <2>4. ASSUME NEW r \in Runs, NEW t \in Tools, InvokeTool(r, t)
        PROVE  Deeds(x)'
    <3>1. t # "wait_for_agents" => AllowsTool(policy[r], t)
      BY <2>4 DEF InvokeTool, Offered
    <3> QED
      BY <2>0, <2>4, <3>1 DEF InvokeTool, Deeds, TypeOK, AllowsTool
  <2>5. ASSUME NEW r \in Runs, NEW k \in Kinds, ProvisionResource(r, k)
        PROVE  Deeds(x)'
    <3>1. AllowsTool(policy[r], "provision_resource")
      BY <2>5 DEF ProvisionResource, Offered
    <3> QED
      BY <2>0, <2>5, <3>1 DEF ProvisionResource, Deeds, TypeOK, AllowsTool,
                              AllowsResourceKind
  <2>6. CASE UNCHANGED vars
    BY <2>0, <2>6 DEF vars, Deeds, AllowsTool, AllowsResourceKind
  <2> QED
    BY <2>1, <2>2, <2>3, <2>4, <2>5, <2>6 DEF Next
<1> QED
  BY <1>1, <1>2, TypeCorrect, PTL DEF Spec

\* Whatever a run has done was permitted to every run above it.
THEOREM DeedsWithinAncestorsHolds == Spec => []DeedsWithinAncestors
<1>1. TypeOK /\ NoEscalation /\ DeedsAllowed => DeedsWithinAncestors
  BY DEF TypeOK, NoEscalation, DeedsAllowed, Deeds, DeedsWithinAncestors, NoWider
<1> QED
  BY <1>1, TypeCorrect, NoEscalationHolds, DeedsAllowedHolds, PTL

\* Together: policies bound what is granted and what is done, at any depth.
THEOREM PolicyHoldsAlways == Spec => []PolicyHolds
<1>1. TypeOK /\ NoEscalation /\ DeedsWithinAncestors => PolicyHolds
  BY DEF PolicyHolds
<1> QED
  BY <1>1, TypeCorrect, NoEscalationHolds, DeedsWithinAncestorsHolds, PTL

-----------------------------------------------------------------------------
(***************************************************************************)
(* Tenants, for any number of requests and changes.                        *)
(***************************************************************************)

-----------------------------------------------------------------------------
(***************************************************************************)
(* The invariant: ids are given once, to committed rows and to rows still  *)
(* in a transaction; what a row refers to is there and of its tenant; and  *)
(* a request that is about to remove a provider has an admin's key.        *)
(***************************************************************************)

States == {"none", "live", "admin", "sessions", "revoked", "put", "rotated", "ready", "active",
           "ended", "on", "off", "archived"}
Pcs == {"idle", "authed", "swap", "mint", "restore", "end", "deregister", "request"}
RowRecords == [kind : RowKinds, id : Nat, tenant : Nat, session : Nat, on : Nat, st : States]
Stores == Reqs \cup {Pool}
Flags == BOOLEAN
ReqRecords == [pc : Pcs, tenant : Nat, scope : States, id : Nat, on : Nat, store : Stores,
               prev : Stores, writes : SUBSET RowRecords, failed : Flags]

TenantTypes ==
    /\ db \subseteq RowRecords /\ req \in [Reqs -> ReqRecords] /\ hstore \in Stores
    /\ nextId \in Nat \ {0} /\ changes \in 0 .. MaxChanges

Same(x, y) == x.kind = y.kind /\ x.id = y.id
RowFits(x) == x.id \in 1 .. nextId - 1 /\ (x.kind = "tenant" => x.tenant = x.id)

UniqueIds == \A x, y \in db : Same(x, y) => x = y
UniqueNames ==
    \A x, y \in db : x.kind = y.kind /\ x.kind \in {"credential", "provider"} /\ x.tenant = y.tenant
                       => x = y

\* What a row refers to.
RefersOK(x) ==
    /\ x.kind \in {"memory", "event"} => \E s \in db : s.kind = "session" /\ s.id = x.session
    /\ x.kind \in {"run", "resource", "prompt"} =>
         \E s \in db : s.kind = "session" /\ s.id = x.session /\ s.tenant = x.tenant
    /\ x.kind = "resource" =>
         \E p \in db : p.kind = "provider" /\ p.id = x.on /\ p.tenant = x.tenant

\* Rows of transactions that are not over.
PendingOK ==
    \A q \in Reqs : \A x \in req[q].writes :
        /\ x.kind \in {"tenant", "key"} /\ RowFits(x)
        /\ \A y \in db : ~Same(x, y)
        /\ \A p \in Reqs : \A y \in req[p].writes : Same(x, y) => p = q /\ x = y

AboutToRemove == \A r \in Reqs : req[r].pc = "deregister" => req[r].scope = "admin"

TenantInv ==
    /\ TenantTypes /\ UniqueIds /\ UniqueNames /\ PendingOK /\ AboutToRemove
    /\ \A x \in db : RowFits(x) /\ RefersOK(x)
    /\ Isolation /\ AdminOnly


-----------------------------------------------------------------------------
(***************************************************************************)
(* Requests.                                                               *)
(***************************************************************************)

LEMMA RequestTypes == IdleReq \in ReqRecords /\ IdleReq.writes = {} /\ IdleReq.pc = "idle"
<1> DEFINE no == FALSE
<1>1. no \in Flags
  BY DEF Flags
<1>2. IdleReq = [pc |-> "idle", tenant |-> 0, scope |-> "none", id |-> 0, on |-> 0, store |-> Pool,
                 prev |-> Pool, writes |-> {}, failed |-> no]
  BY DEF IdleReq
<1> HIDE DEF no
<1> QED
  BY <1>1, <1>2 DEF ReqRecords, Stores, Pcs, States

\* A request that moves on leaves the rows alone, and the pending ones but for
\* its own, which it may give up.
LEMMA MovesOn ==
  ASSUME TenantInv, db' = db, nextId' = nextId, changes' = changes, hstore' \in Stores,
         req' \in [Reqs -> ReqRecords], \A q \in Reqs : req'[q].writes \subseteq req[q].writes,
         AboutToRemove', (Isolation /\ AdminOnly)'
  PROVE  TenantInv'
<1>1. (TenantTypes /\ UniqueIds /\ UniqueNames)'
  BY DEF TenantInv, TenantTypes, UniqueIds, UniqueNames, Same
<1>2. \A x \in db' : RowFits(x)' /\ RefersOK(x)'
  BY DEF TenantInv, RowFits, RefersOK
<1>3. PendingOK'
  BY DEF TenantInv, PendingOK, RowFits, Same
<1> QED
  BY <1>1, <1>2, <1>3 DEF TenantInv

\* A request r becomes u, and the others stay.
LEMMA BecomesReq ==
  ASSUME TenantInv, NEW r \in Reqs, NEW u \in ReqRecords, req' = [req EXCEPT ![r] = u]
  PROVE  /\ req' \in [Reqs -> ReqRecords] /\ req'[r] = u
         /\ \A q \in Reqs : q # r => req'[q] = req[q]
BY DEF TenantInv, TenantTypes

LEMMA DoneFields ==
  ASSUME TenantInv, NEW r \in Reqs, Done(r)
  PROVE  /\ req' \in [Reqs -> ReqRecords] /\ \A q \in Reqs : req'[q].writes \subseteq req[q].writes
         /\ AboutToRemove'
<1>1. /\ req' \in [Reqs -> ReqRecords] /\ req'[r] = IdleReq
      /\ \A q \in Reqs : q # r => req'[q] = req[q]
  BY BecomesReq, RequestTypes DEF Done
<1> QED
  BY <1>1, RequestTypes DEF TenantInv, AboutToRemove

LEMMA NothingTouched ==
  ASSUME touched' = {}
  PROVE  (Isolation /\ AdminOnly)'
BY DEF Isolation, AdminOnly

LEMMA TouchFields ==
  ASSUME TenantInv, NEW r \in Reqs, NEW how, NEW x
  PROVE  /\ Touch(r, how, x).by = req[r].tenant /\ Touch(r, how, x).scope = req[r].scope
         /\ Touch(r, how, x).how = how /\ Touch(r, how, x).kind = x.kind
         /\ Touch(r, how, x).of = TenantOf(x)
BY DEF Touch

LEMMA AnswerOK ==
  ASSUME TenantInv, NEW r \in Reqs, NEW S, Answer(r, S), \A x \in S : TenantOf(x) = req[r].tenant
  PROVE  TenantInv'
<1>1. touched' = {Touch(r, "read", x) : x \in S}
  BY DEF Answer
<1>2. Isolation'
  BY <1>1, TouchFields DEF Isolation
<1>3. AdminOnly'
  BY <1>1, TouchFields DEF AdminOnly
<1> QED
  BY <1>2, <1>3, DoneFields, MovesOn DEF Answer, TenantInv, TenantTypes

LEMMA RefuseOK ==
  ASSUME TenantInv, NEW r \in Reqs, Refuse(r)
  PROVE  TenantInv'
BY AnswerOK DEF Refuse

-----------------------------------------------------------------------------
(***************************************************************************)
(* Rows.                                                                   *)
(***************************************************************************)

LEMMA TenantOfRow ==
  ASSUME NEW x
  PROVE  x.kind \notin {"memory", "event"} => TenantOf(x) = x.tenant
BY DEF TenantOf

LEMMA TenantOfPart ==
  ASSUME TenantInv, NEW x, x.kind \in {"memory", "event"},
         NEW t, t \in SessionTenant(x.session)
  PROVE  TenantOf(x) = t
<1>1. PICK s \in db : s.kind = "session" /\ s.id = x.session /\ s.tenant = t
  BY DEF SessionTenant
<1>2. \A y \in db : y.kind = "session" /\ y.id = x.session => y = s
  BY <1>1 DEF TenantInv, UniqueIds, Same
<1>3. (CHOOSE y \in db : y.kind = "session" /\ y.id = x.session) = s
  BY <1>1, <1>2
<1> QED
  BY <1>1, <1>3 DEF TenantOf

\* A row whose id is new, or stands in for the old one.
Likeness(x, y) ==
    /\ y \in RowRecords /\ y.kind = x.kind /\ y.id = x.id /\ y.tenant = x.tenant
    /\ y.session = x.session /\ y.on = x.on

\* Nothing refers to a row that goes.
Unreferred(x) ==
    \/ x.kind \in {"credential", "memory"}
    \/ x.kind = "provider" /\ ~\E y \in db : y.kind = "resource" /\ y.on = x.id

LEMMA RowsReplaced ==
  ASSUME TenantInv, NEW x \in db, NEW Y, db' = (db \ {x}) \cup Y,
         \/ Y = {} /\ Unreferred(x)
         \/ \E y : Y = {y} /\ Likeness(x, y),
         nextId' = nextId, changes' \in 0 .. MaxChanges, hstore' = hstore,
         req' \in [Reqs -> ReqRecords], \A q \in Reqs : req'[q].writes \subseteq req[q].writes,
         AboutToRemove', (Isolation /\ AdminOnly)'
  PROVE  TenantInv'
<1>1. CASE Y = {} /\ Unreferred(x)
  <2>1. db' \subseteq db /\ x \notin db' /\ \A y \in db : y # x => y \in db'
    BY <1>1
  <2>2. (TenantTypes /\ UniqueIds /\ UniqueNames)'
    BY <2>1 DEF TenantInv, TenantTypes, UniqueIds, UniqueNames, Same
  <2>3. ASSUME NEW z \in db'
        PROVE  RowFits(z)' /\ RefersOK(z)'
    <3>1. RowFits(z) /\ RefersOK(z)
      BY <2>1 DEF TenantInv
    <3>2. RowFits(z)'
      BY <3>1 DEF RowFits
    <3>3. (z.kind \in {"memory", "event"} =>
             \E s \in db' : s.kind = "session" /\ s.id = z.session)
          /\ (z.kind \in {"run", "resource", "prompt"} =>
                \E s \in db' : s.kind = "session" /\ s.id = z.session /\ s.tenant = z.tenant)
      BY <1>1, <2>1, <3>1 DEF RefersOK, Unreferred
    <3>4. z.kind = "resource" =>
             \E p \in db' : p.kind = "provider" /\ p.id = z.on /\ p.tenant = z.tenant
      BY <1>1, <2>1, <3>1 DEF RefersOK, Unreferred
    <3> QED
      BY <3>2, <3>3, <3>4 DEF RefersOK
  <2>4. PendingOK'
    BY <2>1 DEF TenantInv, PendingOK, RowFits, Same
  <2> QED
    BY <2>2, <2>3, <2>4 DEF TenantInv
<1>2. ASSUME NEW y, Y = {y}, Likeness(x, y)
      PROVE  TenantInv'
  <2>1. db' = (db \ {x}) \cup {y}
    BY <1>2
  <2>2. \A z \in db : z # x => ~Same(x, z)
    BY DEF TenantInv, UniqueIds
  <2>3. TenantTypes'
    BY <1>2, <2>1 DEF TenantInv, TenantTypes, Likeness
  <2>4. UniqueIds'
    BY <1>2, <2>1, <2>2 DEF TenantInv, UniqueIds, Same, Likeness
  <2>5. UniqueNames'
    BY <1>2, <2>1 DEF TenantInv, UniqueNames, Likeness
  <2>6. \A z \in db : \E w \in db' : Likeness(z, w)
    BY <1>2, <2>1 DEF TenantInv, TenantTypes, Likeness
  <2>7. \A w \in db' : \E z \in db : Likeness(z, w)
    BY <1>2, <2>1 DEF TenantInv, TenantTypes, Likeness
  <2>8. ASSUME NEW w \in db'
        PROVE  RowFits(w)' /\ RefersOK(w)'
    <3>1. PICK z \in db : Likeness(z, w)
      BY <2>7
    <3>2. RowFits(z) /\ RefersOK(z)
      BY DEF TenantInv
    <3>3. RowFits(w)'
      BY <3>1, <3>2 DEF RowFits, Likeness
    <3>4. RefersOK(w)'
      BY <2>6, <3>1, <3>2 DEF RefersOK, Likeness
    <3> QED
      BY <3>3, <3>4
  <2>9. PendingOK'
    BY <2>7 DEF TenantInv, PendingOK, RowFits, Same, Likeness
  <2> QED
    BY <2>3, <2>4, <2>5, <2>8, <2>9 DEF TenantInv
<1> QED
  BY <1>1, <1>2

\* The state a row is in is none of this.
LEMMA LikeItself ==
  ASSUME NEW x \in RowRecords
  PROVE  Likeness(x, x) /\ \A st \in States : Likeness(x, [x EXCEPT !.st = st])
BY DEF RowRecords, Likeness

LEMMA ReplaceOK ==
  ASSUME TenantInv, NEW r \in Reqs, NEW x \in db, NEW Y, Replace(r, x, Y),
         \/ Y = {} /\ Unreferred(x)
         \/ Y = {x}
         \/ \E st \in States : Y = {[x EXCEPT !.st = st]},
         TenantOf(x) = req[r].tenant,
         x.kind \in {"key", "credential", "provider"} => req[r].scope = "admin"
  PROVE  TenantInv'
<1>1. (Isolation /\ AdminOnly)'
  <2>1. touched' = {Touch(r, "write", x)}
    BY DEF Replace
  <2> QED
    BY <2>1, TouchFields DEF Isolation, AdminOnly
<1>2. changes' \in 0 .. MaxChanges
  BY TenantsAssumption DEF Replace, Writes, TenantInv, TenantTypes
<1>3. x \in RowRecords
  BY DEF TenantInv, TenantTypes
<1>4. (Y = {} /\ Unreferred(x)) \/ \E y : Y = {y} /\ Likeness(x, y)
  BY <1>3, LikeItself
<1> QED
  BY <1>1, <1>2, <1>4, RowsReplaced, DoneFields DEF Replace

\* A row that may come.
NewRow(x) ==
    /\ x \in RowRecords /\ x.id = nextId /\ (x.kind = "tenant" => x.tenant = x.id) /\ RefersOK(x)
    /\ x.kind \in {"credential", "provider"} => ~\E y \in db : y.kind = x.kind /\ y.tenant = x.tenant

LEMMA RowAdded ==
  ASSUME TenantInv, NEW x, NewRow(x), db' = db \cup {x}, nextId' = nextId + 1,
         changes' \in 0 .. MaxChanges, hstore' = hstore,
         req' \in [Reqs -> ReqRecords], \A q \in Reqs : req'[q].writes \subseteq req[q].writes,
         AboutToRemove', (Isolation /\ AdminOnly)'
  PROVE  TenantInv'
<1>1. nextId \in Nat /\ \A y \in db : y.id # nextId
  BY DEF TenantInv, TenantTypes, RowFits
<1>2. TenantTypes'
  BY <1>1 DEF TenantInv, TenantTypes, NewRow
<1>3. UniqueIds'
  BY <1>1 DEF TenantInv, UniqueIds, Same, NewRow
<1>4. UniqueNames'
  BY DEF TenantInv, UniqueNames, NewRow
<1>5. ASSUME NEW y \in db'
      PROVE  RowFits(y)' /\ RefersOK(y)'
  <2>0. RefersOK(y)
    BY DEF TenantInv, NewRow
  <2>1. RefersOK(y)'
    BY <2>0 DEF RefersOK
  <2>2. CASE y \in db
    <3>1. RowFits(y)
      BY <2>2 DEF TenantInv
    <3> QED
      BY <1>1, <2>1, <3>1 DEF RowFits
  <2>3. CASE y = x
    <3>1. x.id = nextId /\ nextId >= 1 /\ (x.kind = "tenant" => x.tenant = x.id)
      BY DEF NewRow, TenantInv, TenantTypes
    <3> QED
      BY <1>1, <2>1, <2>3, <3>1 DEF RowFits
  <2> QED
    BY <2>2, <2>3
<1>6. PendingOK'
  <2>1. \A q \in Reqs : \A y \in req[q].writes : y.id # nextId /\ RowFits(y)'
    BY <1>1 DEF TenantInv, PendingOK, RowFits
  <2> QED
    BY <2>1 DEF TenantInv, PendingOK, Same, NewRow
<1> QED
  BY <1>2, <1>3, <1>4, <1>5, <1>6 DEF TenantInv


LEMMA InsertOK ==
  ASSUME TenantInv, NEW r \in Reqs, NEW x, Insert(r, x), NewRow(x),
         TenantOf(x) = req[r].tenant,
         x.kind \in {"key", "credential", "provider"} => req[r].scope = "admin"
  PROVE  TenantInv'
<1>1. (Isolation /\ AdminOnly)'
  <2>1. touched' = {Touch(r, "write", x)}
    BY DEF Insert
  <2> QED
    BY <2>1, TouchFields DEF Isolation, AdminOnly
<1>2. changes' \in 0 .. MaxChanges
  BY TenantsAssumption DEF Insert, Fresh, Writes, TenantInv, TenantTypes
<1> QED
  BY <1>1, <1>2, RowAdded, DoneFields DEF Insert, Fresh

\* The rows handlers make.
LEMMA RowFields ==
  ASSUME TenantInv, NEW kind \in RowKinds, NEW t \in Nat, NEW s \in Nat, NEW st \in States
  PROVE  LET x == Row(kind, nextId, t, s, st)
         IN  /\ x \in RowRecords /\ x.kind = kind /\ x.id = nextId /\ x.tenant = t
             /\ x.session = s /\ x.on = 0
BY DEF TenantInv, TenantTypes, Row, RowRecords

LEMMA ReqTenant ==
  ASSUME TenantInv, NEW r \in Reqs
  PROVE  req[r] \in ReqRecords /\ req[r].tenant \in Nat /\ req[r].id \in Nat /\ req[r].on \in Nat
BY DEF TenantInv, TenantTypes, ReqRecords

LEMMA NamedIds ==
  ASSUME TenantInv, NEW kind, NEW i \in Ids(kind)
  PROVE  i \in Nat
BY DEF Ids, TenantInv, TenantTypes, RowRecords

\* A key, a credential, a provider or a session of the caller's tenant.
LEMMA OwnRow ==
  ASSUME TenantInv, NEW r \in Reqs, NEW kind \in {"key", "credential", "provider", "session"},
         NEW st \in States, Insert(r, Row(kind, nextId, req[r].tenant, Unowned, st)),
         kind # "session" => req[r].scope = "admin",
         kind \in {"credential", "provider"} => List(req[r].tenant, kind) = {}
  PROVE  TenantInv'
<1> DEFINE x == Row(kind, nextId, req[r].tenant, Unowned, st)
<1>1. /\ x \in RowRecords /\ x.kind = kind /\ x.id = nextId /\ x.tenant = req[r].tenant
      /\ x.session = Unowned /\ x.on = 0
  <2>1. kind \in RowKinds /\ Unowned \in Nat
    BY DEF RowKinds, Unowned
  <2>2. PICK t \in Nat : t = req[r].tenant
    BY ReqTenant
  <2>3. PICK s \in Nat : s = Unowned
    BY <2>1
  <2>4. PICK y : y = Row(kind, nextId, t, s, st)
    OBVIOUS
  <2>5. y \in RowRecords /\ y.kind = kind /\ y.id = nextId /\ y.tenant = t /\ y.session = s /\ y.on = 0
    BY <2>1, <2>4 DEF TenantInv, TenantTypes, Row, RowRecords
  <2>6. x = y
    BY <2>2, <2>3, <2>4, Zenon
  <2> QED
    BY <2>2, <2>3, <2>5, <2>6
<1> HIDE DEF x
<1>2. NewRow(x)
  BY <1>1 DEF NewRow, RefersOK, List
<1>3. TenantOf(x) = req[r].tenant
  BY <1>1, TenantOfRow
<1>4. Insert(r, x)
  BY DEF x
<1> QED
  BY <1>1, <1>2, <1>3, <1>4, InsertOK

\* A row in a session of the caller's tenant.
LEMMA RowInSession ==
  ASSUME TenantInv, NEW r \in Reqs, NEW s \in Nat, SessionsGet(req[r].tenant, s) # {},
         NEW kind \in {"memory", "event", "run", "prompt"}, NEW st \in States, NEW t \in Nat,
         kind \in {"run", "prompt"} => t = req[r].tenant,
         Insert(r, Row(kind, nextId, t, s, st))
  PROVE  TenantInv'
<1> DEFINE x == Row(kind, nextId, t, s, st)
<1>1. /\ x \in RowRecords /\ x.kind = kind /\ x.id = nextId /\ x.tenant = t
      /\ x.session = s /\ x.on = 0
  <2>1. kind \in RowKinds
    BY DEF RowKinds
  <2> QED
    BY <2>1, RowFields
<1> HIDE DEF x
<1>2. Insert(r, x)
  BY DEF x
<1>3. PICK y \in db : y.kind = "session" /\ y.id = s /\ y.tenant = req[r].tenant
  BY DEF SessionsGet, Get
<1>4. NewRow(x)
  BY <1>1, <1>3 DEF NewRow, RefersOK
<1>5. TenantOf(x) = req[r].tenant
  <2>1. req[r].tenant \in SessionTenant(x.session)
    BY <1>1, <1>3 DEF SessionTenant
  <2> QED
    BY <1>1, <2>1, TenantOfRow, TenantOfPart
<1> QED
  BY <1>1, <1>2, <1>4, <1>5, InsertOK

\* What the stores of a scope show.
LEMMA ScopedRows ==
  ASSUME TenantInv, NEW t, NEW kind, kind \notin {"memory", "event"}
  PROVE  \A x \in List(t, kind) : x \in db /\ x.kind = kind /\ TenantOf(x) = t
BY TenantOfRow DEF List

LEMMA RowsIn ==
  ASSUME TenantInv, NEW t, NEW kind, kind \notin {"memory", "event"}, NEW s
  PROVE  \A x \in ListIn(t, kind, s) : TenantOf(x) = t
BY TenantOfRow DEF List, ListIn

LEMMA ScopedRow ==
  ASSUME TenantInv, NEW t, NEW kind, kind \notin {"memory", "event"}, NEW i, NEW x \in Get(t, kind, i)
  PROVE  x \in db /\ x.kind = kind /\ x.id = i /\ x.tenant = t /\ TenantOf(x) = t
BY TenantOfRow DEF Get

LEMMA JoinedRows ==
  ASSUME TenantInv, NEW t, NEW kind \in {"memory", "event"}, NEW s
  PROVE  \A x \in JoinIn(t, kind, s) : x \in db /\ x.kind = kind /\ TenantOf(x) = t
BY TenantOfPart DEF JoinIn

LEMMA OfSession ==
  ASSUME TenantInv, NEW r \in Reqs, NEW s, resolveSessionTenant(r, s)
  PROVE  SessionsGet(req[r].tenant, s) # {}
BY DEF resolveSessionTenant, SessionTenant, SessionsGet, Get


-----------------------------------------------------------------------------
(***************************************************************************)
(* CredentialService and ProviderService.                                  *)
(***************************************************************************)

LEMMA OfAdmin ==
  ASSUME NEW r \in Reqs, NEW t, requireAdmin(r, t)
  PROVE  t = req[r].tenant /\ req[r].scope = "admin"
BY DEF requireAdmin, requireTenant

LEMMA CredentialsOK ==
  ASSUME TenantInv, NEW r \in Reqs,
         PutCredential(r) \/ ListCredentials(r) \/ DeleteCredential(r)
  PROVE  TenantInv'
<1>1. CASE Refuse(r)
  BY <1>1, RefuseOK
<1>2. ASSUME PutCredential(r), ~Refuse(r)
      PROVE  TenantInv'
  <2>1. PICK t : /\ requireAdmin(r, t)
                 /\ IF CredentialsGet(t) = {} THEN Insert(r, CredentialsPut(t))
                    ELSE \E x \in CredentialsGet(t) : Replace(r, x, {[x EXCEPT !.st = "rotated"]})
    BY <1>2 DEF PutCredential, WithAdmin, Found
  <2>2. t = req[r].tenant /\ req[r].scope = "admin"
    BY <2>1, OfAdmin
  <2>3. CASE CredentialsGet(t) = {}
    BY <2>1, <2>2, <2>3, OwnRow DEF CredentialsGet, CredentialsPut, States
  <2>4. ASSUME NEW x \in CredentialsGet(t), Replace(r, x, {[x EXCEPT !.st = "rotated"]})
        PROVE  TenantInv'
    <3>1. x \in db /\ x.kind = "credential" /\ TenantOf(x) = t
      BY <2>4, ScopedRows DEF CredentialsGet
    <3>2. "rotated" \in States
      BY DEF States
    <3> QED
      BY <2>2, <2>4, <3>1, <3>2, ReplaceOK
  <2> QED
    BY <2>1, <2>3, <2>4
<1>3. ASSUME ListCredentials(r), ~Refuse(r)
      PROVE  TenantInv'
  <2>1. Answer(r, CredentialsList(req[r].tenant))
    BY <1>3 DEF ListCredentials, WithTenant, requireTenant
  <2> QED
    BY <2>1, AnswerOK, ScopedRows DEF CredentialsList
<1>4. ASSUME DeleteCredential(r), ~Refuse(r)
      PROVE  TenantInv'
  <2>1. PICK t : requireAdmin(r, t) /\ \E x \in CredentialsDelete(t) : Replace(r, x, {})
    BY <1>4 DEF DeleteCredential, WithAdmin, Found
  <2>2. PICK x \in CredentialsDelete(t) : Replace(r, x, {})
    BY <2>1
  <2>3. t = req[r].tenant /\ req[r].scope = "admin"
    BY <2>1, OfAdmin
  <2>4. x \in db /\ x.kind = "credential" /\ TenantOf(x) = t
    BY <2>2, ScopedRows DEF CredentialsDelete
  <2> QED
    BY <2>2, <2>3, <2>4, ReplaceOK DEF Unreferred
<1> QED
  BY <1>1, <1>2, <1>3, <1>4

\* A request that looks first and acts in a later statement.
LEMMA LaterOK ==
  ASSUME TenantInv, NEW r \in Reqs, NEW u \in ReqRecords, req' = [req EXCEPT ![r] = u],
         u.writes \subseteq req[r].writes, u.pc = "deregister" => u.scope = "admin",
         touched' = {}, db' = db, nextId' = nextId, changes' = changes, hstore' \in Stores
  PROVE  TenantInv'
<1>1. /\ req' \in [Reqs -> ReqRecords] /\ req'[r] = u
      /\ \A q \in Reqs : q # r => req'[q] = req[q]
  BY BecomesReq
<1>2. AboutToRemove'
  BY <1>1 DEF AboutToRemove, TenantInv
<1> QED
  BY <1>1, <1>2, MovesOn, NothingTouched

LEMMA ProvidersOK ==
  ASSUME TenantInv, NEW r \in Reqs,
         \/ RegisterProvider(r) \/ ListProviders(r) \/ GetProvider(r)
         \/ DeregisterProvider(r) \/ DeleteProvider(r)
  PROVE  TenantInv'
<1>1. CASE Refuse(r)
  BY <1>1, RefuseOK
<1>2. ASSUME RegisterProvider(r), ~Refuse(r)
      PROVE  TenantInv'
  <2>1. PICK t : requireAdmin(r, t) /\ ProvidersGetByName(t) = {} /\ Insert(r, ProvidersCreate(t))
    BY <1>2 DEF RegisterProvider, WithAdmin
  <2>2. t = req[r].tenant /\ req[r].scope = "admin"
    BY <2>1, OfAdmin
  <2> QED
    BY <2>1, <2>2, OwnRow DEF ProvidersGetByName, ProvidersCreate, States
<1>3. ASSUME ListProviders(r), ~Refuse(r)
      PROVE  TenantInv'
  <2>1. Answer(r, ProvidersList(req[r].tenant))
    BY <1>3 DEF ListProviders, WithTenant, requireTenant
  <2> QED
    BY <2>1, AnswerOK, ScopedRows DEF ProvidersList
<1>4. ASSUME GetProvider(r), ~Refuse(r)
      PROVE  TenantInv'
  <2>1. PICK id : Answer(r, ProvidersGet(req[r].tenant, id))
    BY <1>4 DEF GetProvider, WithTenant, requireTenant
  <2> QED
    BY <2>1, AnswerOK, ScopedRow DEF ProvidersGet
<1>5. ASSUME DeregisterProvider(r), ~Refuse(r)
      PROVE  TenantInv'
  <2>1. PICK t \in Ids("tenant"), id \in Ids("provider") :
           /\ requireAdmin(r, t) /\ req' = [req EXCEPT ![r].pc = "deregister", ![r].id = id]
           /\ touched' = {} /\ UNCHANGED <<db, hstore, nextId, changes>>
    BY <1>5, Zenon DEF DeregisterProvider, WithAdmin
  <2>2. id \in Nat
    BY NamedIds
  <2>3. PICK u : u = [req[r] EXCEPT !.pc = "deregister", !.id = id]
    OBVIOUS
  <2>4. /\ u \in ReqRecords /\ u.writes = req[r].writes /\ u.scope = "admin"
    BY <2>1, <2>2, <2>3, OfAdmin, ReqTenant DEF ReqRecords, Pcs
  <2>5. req' = [req EXCEPT ![r] = u]
    BY <2>1, <2>3, ReqTenant DEF TenantInv, TenantTypes
  <2> QED
    BY <2>1, <2>4, <2>5, LaterOK DEF TenantInv, TenantTypes
<1>6. ASSUME DeleteProvider(r), ~Refuse(r)
      PROVE  TenantInv'
  <2>1. PICK x \in ProvidersGet(req[r].tenant, req[r].id) :
           ~(\E y \in db : y.kind = "resource" /\ y.on = x.id) /\ Replace(r, x, {})
    BY <1>6 DEF DeleteProvider, Found
  <2>2. x \in db /\ x.kind = "provider" /\ TenantOf(x) = req[r].tenant
    BY <2>1, ScopedRow DEF ProvidersGet
  <2>3. req[r].scope = "admin"
    BY <1>6 DEF DeleteProvider, TenantInv, AboutToRemove
  <2> QED
    BY <2>1, <2>2, <2>3, ReplaceOK DEF Unreferred
<1> QED
  BY <1>1, <1>2, <1>3, <1>4, <1>5, <1>6


-----------------------------------------------------------------------------
(***************************************************************************)
(* SessionService and EventService.                                        *)
(***************************************************************************)

\* A handler that is given a session has found it in the caller's tenant.
LEMMA InSession ==
  ASSUME TenantInv, NEW r \in Reqs, NEW s \in Ids("session"), resolveSessionTenant(r, s)
  PROVE  s \in Nat /\ SessionsGet(req[r].tenant, s) # {}
BY NamedIds, OfSession

LEMMA InsertInOK ==
  ASSUME TenantInv, NEW r \in Reqs, NEW s \in Nat,
         NEW kind \in {"memory", "event", "run"}, NEW t \in Nat,
         kind = "run" => t = req[r].tenant,
         InsertIn(r, s, Row(kind, nextId, t, s, "live"))
  PROVE  TenantInv'
<1>1. CASE Refuse(r)
  BY <1>1, RefuseOK
<1>2. CASE SessionsGet(req[r].tenant, s) # {} /\ Insert(r, Row(kind, nextId, t, s, "live"))
  BY <1>2, RowInSession DEF States
<1> QED
  BY <1>1, <1>2 DEF InsertIn

LEMMA SessionsOK ==
  ASSUME TenantInv, NEW r \in Reqs,
         \/ CreateSession(r) \/ GetSession(r) \/ ListSessions(r) \/ ArchiveSession(r)
         \/ UpdateSessionLabels(r)
  PROVE  TenantInv'
<1>1. CASE Refuse(r)
  BY <1>1, RefuseOK
<1>2. ASSUME CreateSession(r), ~Refuse(r)
      PROVE  TenantInv'
  <2>1. Insert(r, SessionsCreate(req[r].tenant))
    BY <1>2 DEF CreateSession, WithTenant, requireTenant
  <2> QED
    BY <2>1, OwnRow DEF SessionsCreate, States
<1>3. ASSUME GetSession(r), ~Refuse(r)
      PROVE  TenantInv'
  <2>1. PICK s \in Ids("session") : Answer(r, SessionsGet(req[r].tenant, s))
    BY <1>3 DEF GetSession, WithSession
  <2> QED
    BY <2>1, AnswerOK, ScopedRow DEF SessionsGet
<1>4. ASSUME ListSessions(r), ~Refuse(r)
      PROVE  TenantInv'
  <2>1. Answer(r, SessionsList(req[r].tenant))
    BY <1>4 DEF ListSessions, WithTenant, requireTenant
  <2> QED
    BY <2>1, AnswerOK, ScopedRows DEF SessionsList
<1>5. ASSUME ArchiveSession(r), ~Refuse(r)
      PROVE  TenantInv'
  <2>1. PICK s \in Ids("session") : \E x \in SessionsGet(req[r].tenant, s) :
           Replace(r, x, {[x EXCEPT !.st = "archived"]})
    BY <1>5, Zenon DEF ArchiveSession, WithSession, Found
  <2>2. PICK x \in SessionsGet(req[r].tenant, s) : Replace(r, x, {[x EXCEPT !.st = "archived"]})
    BY <2>1
  <2>3. x \in db /\ x.kind = "session" /\ TenantOf(x) = req[r].tenant
    BY ScopedRow DEF SessionsGet
  <2>4. "archived" \in States
    BY DEF States
  <2> QED
    BY <2>2, <2>3, <2>4, ReplaceOK
<1>6. ASSUME UpdateSessionLabels(r), ~Refuse(r)
      PROVE  TenantInv'
  <2>1. PICK s \in Ids("session") : \E x \in SessionsGet(req[r].tenant, s) : Update(r, x)
    BY <1>6 DEF UpdateSessionLabels, WithSession, Found
  <2>2. PICK x \in SessionsGet(req[r].tenant, s) : Update(r, x)
    BY <2>1
  <2>3. x \in db /\ x.kind = "session" /\ TenantOf(x) = req[r].tenant
    BY ScopedRow DEF SessionsGet
  <2> QED
    BY <2>2, <2>3, ReplaceOK DEF Update
<1> QED
  BY <1>1, <1>2, <1>3, <1>4, <1>5, <1>6

LEMMA MemoryAndEventsOK ==
  ASSUME TenantInv, NEW r \in Reqs,
         \/ SetMemory(r) \/ GetMemory(r) \/ ListMemory(r) \/ DeleteMemory(r)
         \/ AppendEvent(r) \/ GetEvents(r)
  PROVE  TenantInv'
<1>1. CASE Refuse(r)
  BY <1>1, RefuseOK
<1>0. Unowned \in Nat
  BY DEF Unowned
<1>2. ASSUME SetMemory(r), ~Refuse(r)
      PROVE  TenantInv'
  <2>1. PICK s \in Ids("session") : resolveSessionTenant(r, s) /\ InsertIn(r, s, MemorySet(s))
    BY <1>2 DEF SetMemory, WithSession
  <2> QED
    BY <1>0, <2>1, InSession, InsertInOK DEF MemorySet
<1>3. ASSUME AppendEvent(r), ~Refuse(r)
      PROVE  TenantInv'
  <2>1. PICK s \in Ids("session") : resolveSessionTenant(r, s) /\ InsertIn(r, s, EventsAppend(s))
    BY <1>3 DEF AppendEvent, WithSession
  <2> QED
    BY <1>0, <2>1, InSession, InsertInOK DEF EventsAppend
<1>4. ASSUME GetMemory(r) \/ ListMemory(r), ~Refuse(r)
      PROVE  TenantInv'
  <2>1. PICK s \in Ids("session") : Answer(r, JoinIn(req[r].tenant, "memory", s))
    BY <1>4 DEF GetMemory, ListMemory, WithSession, MemoryGet, MemoryList
  <2> QED
    BY <2>1, AnswerOK, JoinedRows
<1>5. ASSUME GetEvents(r), ~Refuse(r)
      PROVE  TenantInv'
  <2>1. PICK s \in Ids("session") : Answer(r, JoinIn(req[r].tenant, "event", s))
    BY <1>5 DEF GetEvents, WithSession, EventsRange
  <2> QED
    BY <2>1, AnswerOK, JoinedRows
<1>6. ASSUME DeleteMemory(r), ~Refuse(r)
      PROVE  TenantInv'
  <2>1. PICK s \in Ids("session") : \E x \in JoinIn(req[r].tenant, "memory", s) : Replace(r, x, {})
    BY <1>6 DEF DeleteMemory, WithSession, Found, MemoryGet
  <2>2. PICK x \in JoinIn(req[r].tenant, "memory", s) : Replace(r, x, {})
    BY <2>1
  <2>3. x \in db /\ x.kind = "memory" /\ TenantOf(x) = req[r].tenant
    BY JoinedRows
  <2> QED
    BY <2>2, <2>3, ReplaceOK DEF Unreferred
<1> QED
  BY <1>1, <1>2, <1>3, <1>4, <1>5, <1>6

-----------------------------------------------------------------------------
(***************************************************************************)
(* RunService, ResourceService and AutomationService.                      *)
(***************************************************************************)

LEMMA RunsOK ==
  ASSUME TenantInv, NEW r \in Reqs,
         \/ StartRunCall(r) \/ GetRun(r) \/ ListRuns(r) \/ GetRunTree(r) \/ AnswerRun(r) \/ CancelRun(r)
  PROVE  TenantInv'
<1>1. CASE Refuse(r)
  BY <1>1, RefuseOK
<1>2. ASSUME StartRunCall(r), ~Refuse(r)
      PROVE  TenantInv'
  <2>1. PICK s \in Ids("session") :
           resolveSessionTenant(r, s) /\ InsertIn(r, s, RunsCreate(req[r].tenant, s))
    BY <1>2 DEF StartRunCall, WithSession
  <2> QED
    BY <2>1, InSession, InsertInOK, ReqTenant DEF RunsCreate
<1>3. ASSUME ListRuns(r) \/ GetRunTree(r), ~Refuse(r)
      PROVE  TenantInv'
  <2>1. PICK s \in Ids("session") : Answer(r, ListIn(req[r].tenant, "run", s))
    BY <1>3 DEF ListRuns, GetRunTree, WithSession, RunsList
  <2> QED
    BY <2>1, AnswerOK, ScopedRows, RowsIn
<1>4. ASSUME GetRun(r) \/ AnswerRun(r) \/ CancelRun(r), ~Refuse(r)
      PROVE  TenantInv'
  <2>1. PICK id \in Ids("run") : \E x \in Get(req[r].tenant, "run", id) : Answer(r, {x}) \/ Update(r, x)
    BY <1>4 DEF GetRun, AnswerRun, CancelRun, WithRun, Found, resolveRun, RunsGet
  <2>2. PICK x \in Get(req[r].tenant, "run", id) : Answer(r, {x}) \/ Update(r, x)
    BY <2>1
  <2>3. x \in db /\ x.kind = "run" /\ TenantOf(x) = req[r].tenant
    BY ScopedRow
  <2> QED
    BY <2>2, <2>3, AnswerOK, ReplaceOK DEF Update
<1> QED
  BY <1>1, <1>2, <1>3, <1>4

LEMMA ResourceRow ==
  ASSUME TenantInv, NEW t \in Nat, NEW s \in Nat, NEW p \in Nat
  PROVE  LET x == ResourcesCreate(t, s, p)
         IN  /\ x \in RowRecords /\ x.kind = "resource" /\ x.id = nextId /\ x.tenant = t
             /\ x.session = s /\ x.on = p
BY DEF ResourcesCreate, Row, RowRecords, RowKinds, States, TenantInv, TenantTypes

LEMMA ResourcesOK ==
  ASSUME TenantInv, NEW r \in Reqs,
         \/ ProvisionResourceCall(r) \/ Request(r) \/ GetResource(r) \/ ListResources(r)
         \/ TerminateResource(r) \/ RestartResource(r) \/ ExecPreview(r)
  PROVE  TenantInv'
<1>1. CASE Refuse(r)
  BY <1>1, RefuseOK
<1>2. ASSUME ProvisionResourceCall(r), ~Refuse(r)
      PROVE  TenantInv'
  <2>1. PICK s \in Ids("session"), p \in ProvidersGetByName(req[r].tenant) :
           /\ req' = [req EXCEPT ![r].pc = "request", ![r].id = s, ![r].on = p.id]
           /\ touched' = {} /\ UNCHANGED <<db, hstore, nextId, changes>>
    BY <1>2, Zenon DEF ProvisionResourceCall, WithSession, Found
  <2>2. s \in Nat /\ p.id \in Nat
    BY NamedIds DEF ProvidersGetByName, List, TenantInv, TenantTypes, RowRecords
  <2>3. PICK i : i = p.id
    OBVIOUS
  <2>4. PICK u : u = [req[r] EXCEPT !.pc = "request", !.id = s, !.on = i]
    OBVIOUS
  <2>5. u \in ReqRecords /\ u.writes = req[r].writes /\ u.pc = "request"
    BY <2>2, <2>3, <2>4, ReqTenant DEF ReqRecords, Pcs
  <2>6. req' = [req EXCEPT ![r] = u]
    BY <2>1, <2>3, <2>4, ReqTenant DEF TenantInv, TenantTypes
  <2> QED
    BY <2>1, <2>5, <2>6, LaterOK DEF TenantInv, TenantTypes
<1>3. ASSUME Request(r), ~Refuse(r)
      PROVE  TenantInv'
  <2> DEFINE t == req[r].tenant
             x == ResourcesCreate(t, req[r].id, req[r].on)
  <2>1. SessionsGet(t, req[r].id) # {} /\ ProvidersGet(t, req[r].on) # {} /\ Insert(r, x)
    BY <1>3 DEF Request
  <2>2. /\ x \in RowRecords /\ x.kind = "resource" /\ x.id = nextId /\ x.tenant = t
        /\ x.session = req[r].id /\ x.on = req[r].on
    BY ResourceRow, ReqTenant
  <2> HIDE DEF x
  <2>3. NewRow(x)
    BY <2>1, <2>2 DEF NewRow, RefersOK, SessionsGet, ProvidersGet, Get
  <2>4. TenantOf(x) = t
    BY <2>2, TenantOfRow
  <2> QED
    BY <2>1, <2>2, <2>3, <2>4, InsertOK
<1>4. ASSUME GetResource(r), ~Refuse(r)
      PROVE  TenantInv'
  <2>1. PICK id \in Ids("resource") : \E x \in Get(req[r].tenant, "resource", id) :
           Answer(r, {x} \cup Get(x.tenant, "provider", x.on))
    BY <1>4 DEF GetResource, WithResource, Found, resolveResource, ResourcesGet, ProvidersGet
  <2>2. PICK x \in Get(req[r].tenant, "resource", id) :
           Answer(r, {x} \cup Get(x.tenant, "provider", x.on))
    BY <2>1
  <2>3. x.tenant = req[r].tenant /\ TenantOf(x) = req[r].tenant
    BY ScopedRow
  <2>4. \A y \in Get(x.tenant, "provider", x.on) : TenantOf(y) = req[r].tenant
    BY <2>3, ScopedRow
  <2> QED
    BY <2>2, <2>3, <2>4, AnswerOK
<1>5. ASSUME ListResources(r), ~Refuse(r)
      PROVE  TenantInv'
  <2>1. PICK s \in Ids("session") :
           Answer(r, ListIn(req[r].tenant, "resource", s) \cup List(req[r].tenant, "provider"))
    BY <1>5 DEF ListResources, WithSession, ResourcesList, ProvidersList
  <2> QED
    BY <2>1, AnswerOK, ScopedRows, RowsIn
<1>6. ASSUME TerminateResource(r) \/ RestartResource(r), ~Refuse(r)
      PROVE  TenantInv'
  <2>1. PICK id \in Ids("resource") : \E x \in Get(req[r].tenant, "resource", id) : Update(r, x)
    BY <1>6 DEF TerminateResource, RestartResource, WithResource, Found, resolveResource, ResourcesGet
  <2>2. PICK x \in Get(req[r].tenant, "resource", id) : Update(r, x)
    BY <2>1
  <2>3. x \in db /\ x.kind = "resource" /\ TenantOf(x) = req[r].tenant
    BY ScopedRow
  <2> QED
    BY <2>2, <2>3, ReplaceOK DEF Update
<1>7. ASSUME ExecPreview(r), ~Refuse(r)
      PROVE  TenantInv'
  <2>1. PICK id \in Ids("resource") : \E x \in Get(req[r].tenant, "resource", id) :
           InsertIn(r, x.session, EventsAppend(x.session))
    BY <1>7 DEF ExecPreview, WithResource, Found, resolveResource, ResourcesGet
  <2>2. PICK x \in Get(req[r].tenant, "resource", id) :
           InsertIn(r, x.session, EventsAppend(x.session))
    BY <2>1
  <2>3. x.session \in Nat /\ Unowned \in Nat
    BY DEF Get, TenantInv, TenantTypes, RowRecords, Unowned
  <2> QED
    BY <2>2, <2>3, InsertInOK DEF EventsAppend
<1> QED
  BY <1>1, <1>2, <1>3, <1>4, <1>5, <1>6, <1>7

LEMMA ResourceEndsOK ==
  ASSUME TenantInv, ResourceEnds
  PROVE  TenantInv'
<1>1. PICK x \in db : Active(x) /\ db' = (db \ {x}) \cup {[x EXCEPT !.st = "ended"]}
  BY Zenon DEF ResourceEnds
<1>2. x \in RowRecords /\ "ended" \in States
  BY DEF TenantInv, TenantTypes, States
<1>3. PICK y : y = [x EXCEPT !.st = "ended"]
  OBVIOUS
<1>4. Likeness(x, y) /\ db' = (db \ {x}) \cup {y}
  BY <1>1, <1>2, <1>3, LikeItself
<1>5. changes' \in 0 .. MaxChanges /\ nextId' = nextId /\ hstore' = hstore /\ req' = req
  BY TenantsAssumption DEF ResourceEnds, Writes, TenantInv, TenantTypes
<1>6. AboutToRemove' /\ req' \in [Reqs -> ReqRecords]
  BY <1>5 DEF AboutToRemove, TenantInv, TenantTypes
<1>7. (Isolation /\ AdminOnly)'
  BY NothingTouched DEF ResourceEnds
<1> QED
  BY <1>4, <1>5, <1>6, <1>7, RowsReplaced

LEMMA PromptsOK ==
  ASSUME TenantInv, NEW r \in Reqs,
         PutPeriodicPrompt(r) \/ ListPeriodicPrompts(r) \/ SetPeriodicPromptEnabled(r)
  PROVE  TenantInv'
<1>1. CASE Refuse(r)
  BY <1>1, RefuseOK
<1>2. ASSUME PutPeriodicPrompt(r), ~Refuse(r)
      PROVE  TenantInv'
  <2>1. PICK s \in Ids("session") :
           resolveSessionTenant(r, s) /\ Insert(r, PeriodicPromptsCreate(req[r].tenant, s))
    BY <1>2 DEF PutPeriodicPrompt, WithSession
  <2>2. s \in Nat /\ SessionsGet(req[r].tenant, s) # {}
    BY <2>1, InSession
  <2>3. "on" \in States
    BY DEF States
  <2> QED
    BY <2>1, <2>2, <2>3, RowInSession, ReqTenant DEF PeriodicPromptsCreate
<1>3. ASSUME ListPeriodicPrompts(r), ~Refuse(r)
      PROVE  TenantInv'
  <2>1. PICK s \in Ids("session") : Answer(r, ListIn(req[r].tenant, "prompt", s))
    BY <1>3 DEF ListPeriodicPrompts, WithSession, PeriodicPromptsList
  <2> QED
    BY <2>1, AnswerOK, ScopedRows, RowsIn
<1>4. ASSUME SetPeriodicPromptEnabled(r), ~Refuse(r)
      PROVE  TenantInv'
  <2>1. PICK id \in Ids("prompt") : \E x \in Get(req[r].tenant, "prompt", id) :
           \E st \in {"on", "off"} : Replace(r, x, {[x EXCEPT !.st = st]})
    BY <1>4, Zenon DEF SetPeriodicPromptEnabled, Found, PeriodicPromptsGetForUpdate
  <2>2. PICK x \in Get(req[r].tenant, "prompt", id) :
           \E st \in {"on", "off"} : Replace(r, x, {[x EXCEPT !.st = st]})
    BY <2>1
  <2>3. PICK st \in {"on", "off"} : Replace(r, x, {[x EXCEPT !.st = st]})
    BY <2>2
  <2>4. x \in db /\ x.kind = "prompt" /\ TenantOf(x) = req[r].tenant
    BY ScopedRow
  <2>5. st \in States
    BY DEF States
  <2> QED
    BY <2>3, <2>4, <2>5, ReplaceOK
<1> QED
  BY <1>1, <1>2, <1>3, <1>4


-----------------------------------------------------------------------------
(***************************************************************************)
(* Authentication, and TenantService with its shared store.                *)
(***************************************************************************)

LEMMA AuthenticateOK ==
  ASSUME TenantInv, NEW r \in Reqs, Authenticate(r)
  PROVE  TenantInv'
<1>1. PICK k \in db :
         req' = [req EXCEPT ![r] = [IdleReq EXCEPT !.pc = "authed", !.tenant = k.tenant, !.scope = k.st]]
  BY Zenon DEF Authenticate, APIKeysGetByHash
<1>2. k.tenant \in Nat /\ k.st \in States
  BY DEF TenantInv, TenantTypes, RowRecords
<1>3. PICK u : u = [IdleReq EXCEPT !.pc = "authed", !.tenant = k.tenant, !.scope = k.st]
  OBVIOUS
<1>4. u \in ReqRecords /\ u.writes = {} /\ u.pc = "authed"
  BY <1>2, <1>3, RequestTypes DEF ReqRecords, Pcs
<1>5. req' = [req EXCEPT ![r] = u]
  BY <1>1, <1>3, Zenon
<1>6. touched' = {} /\ db' = db /\ nextId' = nextId /\ changes' = changes /\ hstore' \in Stores
  BY DEF Authenticate, TenantInv, TenantTypes
<1> QED
  BY <1>4, <1>5, <1>6, LaterOK

\* The rows the handler's store shows.
LEMMA VisibleRows ==
  ASSUME TenantInv, NEW x \in Visible(hstore)
  PROVE  x \in RowRecords /\ RowFits(x)
BY DEF Visible, OpenTx, TenantInv, TenantTypes, PendingOK, Stores, ReqRecords

LEMMA TenantReadsOK ==
  ASSUME TenantInv, NEW r \in Reqs, GetTenant(r) \/ ListTenants(r) \/ ListAPIKeys(r)
  PROVE  TenantInv'
<1>1. CASE Refuse(r)
  BY <1>1, RefuseOK
<1>2. CASE Answer(r, TenantsGet(Visible(hstore), req[r].tenant))
  <2>1. ASSUME NEW x \in TenantsGet(Visible(hstore), req[r].tenant)
        PROVE  TenantOf(x) = req[r].tenant
    BY VisibleRows, TenantOfRow DEF TenantsGet, RowFits
  <2> QED
    BY <1>2, <2>1, AnswerOK
<1>3. CASE Answer(r, APIKeysList(Visible(hstore), req[r].tenant))
  <2>1. ASSUME NEW x \in APIKeysList(Visible(hstore), req[r].tenant)
        PROVE  TenantOf(x) = req[r].tenant
    BY TenantOfRow DEF APIKeysList
  <2> QED
    BY <1>3, <2>1, AnswerOK
<1> QED
  BY <1>1, <1>2, <1>3 DEF GetTenant, ListTenants, ListAPIKeys, WithTenant, WithAdmin, requireAdmin,
     requireTenant

\* A new row of the open transaction of q, in which nothing else changes.
LEMMA PendingAdded ==
  ASSUME TenantInv, NEW q \in Reqs, NEW x \in RowRecords, x.id = nextId,
         x.kind \in {"tenant", "key"}, x.kind = "tenant" => x.tenant = x.id,
         req' \in [Reqs -> ReqRecords],
         \A p \in Reqs : p # q => req'[p].writes \subseteq req[p].writes,
         req'[q].writes \subseteq req[q].writes \cup {x}, AboutToRemove',
         db' = db, nextId' = nextId + 1, changes' \in 0 .. MaxChanges, hstore' \in Stores,
         (Isolation /\ AdminOnly)'
  PROVE  TenantInv'
<1>1. nextId \in Nat \ {0} /\ (\A y \in db : y.id # nextId)
      /\ \A p \in Reqs : \A y \in req[p].writes : y.id # nextId
  BY DEF TenantInv, TenantTypes, PendingOK, RowFits
<1>2. (TenantTypes /\ UniqueIds /\ UniqueNames)'
  BY <1>1 DEF TenantInv, TenantTypes, UniqueIds, UniqueNames, Same
<1>3. ASSUME NEW y \in db'
      PROVE  RowFits(y)' /\ RefersOK(y)'
  BY <1>1 DEF TenantInv, RowFits, RefersOK
<1>4. PendingOK'
  <2> SUFFICES ASSUME NEW p \in Reqs, NEW y \in req'[p].writes
               PROVE  /\ y.kind \in {"tenant", "key"} /\ RowFits(y)'
                      /\ \A z \in db : ~Same(y, z)
                      /\ \A o \in Reqs : \A z \in req'[o].writes : Same(y, z) => o = p /\ y = z
    BY DEF PendingOK, Same
  <2>1. y \in req[p].writes \/ (p = q /\ y = x)
    OBVIOUS
  <2>2. \A o \in Reqs : \A z \in req'[o].writes : z \in req[o].writes \/ (o = q /\ z = x)
    OBVIOUS
  <2>3. y.kind \in {"tenant", "key"} /\ RowFits(y)'
    BY <1>1, <2>1 DEF TenantInv, PendingOK, RowFits
  <2>4. \A z \in db : ~Same(y, z)
    BY <1>1, <2>1 DEF TenantInv, PendingOK, Same
  <2>5. \A o \in Reqs : \A z \in req'[o].writes : Same(y, z) => o = p /\ y = z
    BY <1>1, <2>1, <2>2 DEF TenantInv, PendingOK, Same
  <2> QED
    BY <2>3, <2>4, <2>5
<1> QED
  BY <1>2, <1>3, <1>4 DEF TenantInv


LEMMA KeyRow ==
  ASSUME TenantInv, NEW t \in Nat, NEW scope \in {"admin", "sessions"}
  PROVE  LET x == mintKey(t, scope)
         IN  x \in RowRecords /\ x.kind = "key" /\ x.id = nextId /\ x.tenant = t
BY DEF mintKey, APIKeysCreate, Row, RowRecords, RowKinds, States, Unowned, TenantInv, TenantTypes

LEMMA CreateAPIKeyOK ==
  ASSUME TenantInv, NEW r \in Reqs, CreateAPIKey(r)
  PROVE  TenantInv'
<1>1. CASE Refuse(r)
  BY <1>1, RefuseOK
<1>2. ASSUME ~Refuse(r)
      PROVE  TenantInv'
  <2>1. PICK t \in Ids("tenant"), scope \in {"admin", "sessions"} :
           /\ requireAdmin(r, t) /\ Begun(r)
           /\ \/ hstore = Pool /\ Insert(r, mintKey(t, scope))
              \/ /\ OpenTx(hstore) /\ Fresh
                 /\ req' = [req EXCEPT ![r] = IdleReq, ![hstore].writes = @ \cup {mintKey(t, scope)}]
                 /\ touched' = {Touch(r, "write", mintKey(t, scope))}
                 /\ UNCHANGED <<db, hstore>>
    BY <1>2, Zenon DEF CreateAPIKey, WithAdmin
  <2>2. t = req[r].tenant /\ req[r].scope = "admin" /\ t \in Nat
    BY <2>1, OfAdmin, ReqTenant
  <2>3. CASE Insert(r, mintKey(t, scope))
    <3>1. scope \in States
      BY DEF States
    <3> QED
      BY <2>2, <2>3, <3>1, OwnRow DEF mintKey, APIKeysCreate
  <2>4. CASE /\ OpenTx(hstore) /\ Fresh
             /\ req' = [req EXCEPT ![r] = IdleReq, ![hstore].writes = @ \cup {mintKey(t, scope)}]
             /\ touched' = {Touch(r, "write", mintKey(t, scope))}
             /\ UNCHANGED <<db, hstore>>
    <3>1. PICK x : x = mintKey(t, scope)
      OBVIOUS
    <3>2. x \in RowRecords /\ x.kind = "key" /\ x.id = nextId /\ x.tenant = t
      BY <2>2, <3>1, KeyRow
    <3>3. PICK f : f = [req EXCEPT ![r] = IdleReq]
      OBVIOUS
    <3>4. f \in [Reqs -> ReqRecords] /\ f[r] = IdleReq /\ \A p \in Reqs : p # r => f[p] = req[p]
      BY <3>3, RequestTypes DEF TenantInv, TenantTypes
    <3>5. hstore \in Reqs
      BY <2>4 DEF OpenTx, TenantInv, TenantTypes, Stores
    <3>6. req' = [f EXCEPT ![hstore].writes = @ \cup {x}]
      <4>1. hstore # r
        BY <2>1, <2>4 DEF OpenTx, Begun
      <4>2. f[hstore] = req[hstore]
        BY <3>4, <3>5, <4>1
      <4> QED
        BY <2>4, <3>1, <3>3, <4>2, Zenon
    <3>7. /\ req' \in [Reqs -> ReqRecords] /\ req'[hstore].writes = f[hstore].writes \cup {x}
          /\ \A p \in Reqs : p # hstore => req'[p] = f[p]
          /\ \A p \in Reqs : req'[p].pc = f[p].pc /\ req'[p].scope = f[p].scope
      BY <3>2, <3>4, <3>5, <3>6 DEF ReqRecords
    <3>8. AboutToRemove'
      BY <3>4, <3>7, RequestTypes DEF AboutToRemove, TenantInv
    <3>9. (Isolation /\ AdminOnly)'
      <4>1. TenantOf(x) = req[r].tenant
        BY <2>2, <3>2, TenantOfRow
      <4>2. touched' = {Touch(r, "write", x)}
        BY <2>4, <3>1
      <4> QED
        BY <2>2, <4>1, <4>2, TouchFields DEF Isolation, AdminOnly
    <3>10. changes' \in 0 .. MaxChanges /\ nextId' = nextId + 1
      BY <2>4, TenantsAssumption DEF Fresh, Writes, TenantInv, TenantTypes
    <3>11. /\ \A p \in Reqs : p # hstore => req'[p].writes \subseteq req[p].writes
           /\ req'[hstore].writes \subseteq req[hstore].writes \cup {x}
      BY <3>4, <3>5, <3>7, RequestTypes
    <3>12. db' = db /\ hstore' \in Stores
      BY <2>4 DEF TenantInv, TenantTypes
    <3> QED
      BY <3>2, <3>5, <3>7, <3>8, <3>9, <3>10, <3>11, <3>12, PendingAdded
  <2> QED
    BY <2>1, <2>3, <2>4
<1> QED
  BY <1>1, <1>2

LEMMA RevokeAPIKeyOK ==
  ASSUME TenantInv, NEW r \in Reqs, RevokeAPIKey(r)
  PROVE  TenantInv'
<1>1. CASE Refuse(r)
  BY <1>1, RefuseOK
<1>2. ASSUME ~Refuse(r)
      PROVE  TenantInv'
  <2>1. PICK t \in Ids("tenant"), id \in Ids("key") :
           requireAdmin(r, t) /\ \E x \in Get(t, "key", id) : Replace(r, x, {[x EXCEPT !.st = "revoked"]})
    BY <1>2, Zenon DEF RevokeAPIKey, WithAdmin, Found, APIKeysRevoke
  <2>2. PICK x \in Get(t, "key", id) : Replace(r, x, {[x EXCEPT !.st = "revoked"]})
    BY <2>1
  <2>3. t = req[r].tenant /\ req[r].scope = "admin"
    BY <2>1, OfAdmin
  <2>4. x \in db /\ TenantOf(x) = req[r].tenant
    BY <2>3, ScopedRow
  <2>5. "revoked" \in States
    BY DEF States
  <2> QED
    BY <2>2, <2>3, <2>4, <2>5, ReplaceOK
<1> QED
  BY <1>1, <1>2

LEMMA CreateTenantOK ==
  ASSUME TenantInv, NEW r \in Reqs, CreateTenant(r)
  PROVE  TenantInv'
<1>1. CASE Refuse(r)
  BY <1>1, RefuseOK
<1>2. ASSUME ~Refuse(r)
      PROVE  TenantInv'
  <2>1. PICK s \in Reqs :
           /\ Fresh
           /\ req' = [[req EXCEPT ![r].pc = "swap", ![r].id = nextId, ![r].store = s]
                        EXCEPT ![s].writes = @ \cup {TenantsCreate}]
           /\ touched' = {} /\ UNCHANGED <<db, hstore>>
    <3> DEFINE s == IF hstore = Pool THEN r ELSE hstore
    <3>1. hstore \in Reqs \cup {Pool} 
      BY DEF TenantInv, TenantTypes, Stores
    <3>2. s \in Reqs
      BY <3>1
    <3>3. /\ Fresh
          /\ req' = [[req EXCEPT ![r].pc = "swap", ![r].id = nextId, ![r].store = s]
                        EXCEPT ![s].writes = @ \cup {TenantsCreate}]
          /\ touched' = {} /\ UNCHANGED <<db, hstore>>
      BY <1>2, Zenon DEF CreateTenant
    <3> QED
      BY <3>2, <3>3, Zenon
  <2>2. PICK x : x = TenantsCreate
    OBVIOUS
  <2>3. x \in RowRecords /\ x.kind = "tenant" /\ x.id = nextId /\ x.tenant = x.id
    BY <2>2 DEF TenantsCreate, Row, RowRecords, RowKinds, States, Unowned, TenantInv, TenantTypes
  <2>4. PICK f : f = [req EXCEPT ![r].pc = "swap", ![r].id = nextId, ![r].store = s]
    OBVIOUS
  <2>5. /\ f \in [Reqs -> ReqRecords] /\ f[r].pc = "swap" /\ f[r].writes = req[r].writes
        /\ \A p \in Reqs : p # r => f[p] = req[p]
    <3>1. PICK u : u = [req[r] EXCEPT !.pc = "swap", !.id = nextId, !.store = s]
      OBVIOUS
    <3>2. u \in ReqRecords /\ u.writes = req[r].writes /\ u.pc = "swap"
      BY <3>1, ReqTenant DEF ReqRecords, Pcs, Stores, TenantInv, TenantTypes
    <3>3. f = [req EXCEPT ![r] = u]
      BY <2>4, <3>1, ReqTenant DEF TenantInv, TenantTypes
    <3> QED
      BY <3>2, <3>3 DEF TenantInv, TenantTypes
  <2>6. req' = [f EXCEPT ![s].writes = @ \cup {x}]
    BY <2>1, <2>2, <2>4, Zenon
  <2>7. /\ req' \in [Reqs -> ReqRecords] /\ req'[s].writes = f[s].writes \cup {x}
        /\ \A p \in Reqs : p # s => req'[p] = f[p]
        /\ \A p \in Reqs : req'[p].pc = f[p].pc /\ req'[p].scope = f[p].scope
    BY <2>3, <2>5, <2>6 DEF ReqRecords
  <2>8. AboutToRemove'
    BY <2>5, <2>7 DEF AboutToRemove, TenantInv
  <2>9. changes' \in 0 .. MaxChanges /\ nextId' = nextId + 1
    BY <2>1, TenantsAssumption DEF Fresh, Writes, TenantInv, TenantTypes
  <2>10. /\ \A p \in Reqs : p # s => req'[p].writes \subseteq req[p].writes
         /\ req'[s].writes \subseteq req[s].writes \cup {x}
    BY <2>5, <2>7
  <2>11. db' = db /\ hstore' \in Stores /\ (Isolation /\ AdminOnly)'
    BY <2>1, NothingTouched DEF TenantInv, TenantTypes
  <2> QED
    BY <2>3, <2>7, <2>8, <2>9, <2>10, <2>11, PendingAdded
<1> QED
  BY <1>1, <1>2

\* The steps of CreateTenant that change the request alone.
LEMMA SwapOK ==
  ASSUME TenantInv, NEW r \in Reqs, Swap(r) \/ Restore(r)
  PROVE  TenantInv'
<1>1. req[r].store \in Stores /\ req[r].prev \in Stores /\ hstore \in Stores
  BY ReqTenant DEF ReqRecords, TenantInv, TenantTypes
<1>2. CASE Swap(r)
  <2>1. PICK u : u = [req[r] EXCEPT !.pc = "mint", !.prev = hstore]
    OBVIOUS
  <2>2. u \in ReqRecords /\ u.writes = req[r].writes /\ u.pc = "mint"
    BY <1>1, <2>1, ReqTenant DEF ReqRecords, Pcs
  <2>3. req' = [req EXCEPT ![r] = u]
    BY <1>2, <2>1, ReqTenant DEF Swap, TenantInv, TenantTypes
  <2> QED
    BY <1>1, <1>2, <2>2, <2>3, LaterOK DEF Swap
<1>3. CASE Restore(r)
  <2>1. PICK u : u = [req[r] EXCEPT !.pc = "end"]
    OBVIOUS
  <2>2. u \in ReqRecords /\ u.writes = req[r].writes /\ u.pc = "end"
    BY <2>1, ReqTenant DEF ReqRecords, Pcs
  <2>3. req' = [req EXCEPT ![r] = u]
    BY <1>3, <2>1, ReqTenant DEF Restore, TenantInv, TenantTypes
  <2> QED
    BY <1>1, <1>3, <2>2, <2>3, LaterOK DEF Restore
<1> QED
  BY <1>2, <1>3

LEMMA MintOK ==
  ASSUME TenantInv, NEW r \in Reqs, Mint(r)
  PROVE  TenantInv'
<1> DEFINE key == mintKey(req[r].id, "admin")
<1>1. key \in RowRecords /\ key.kind = "key" /\ key.id = nextId
  BY KeyRow, ReqTenant
<1>2. (Isolation /\ AdminOnly)' /\ hstore' = hstore
  BY NothingTouched DEF Mint
<1>3. CASE /\ OpenTx(hstore) /\ Fresh
           /\ req' = [[req EXCEPT ![r].pc = "restore"] EXCEPT ![hstore].writes = @ \cup {key}]
           /\ UNCHANGED db
  <2>1. PICK f : f = [req EXCEPT ![r].pc = "restore"]
    OBVIOUS
  <2>2. /\ f \in [Reqs -> ReqRecords] /\ f[r].pc = "restore" /\ f[r].writes = req[r].writes
        /\ \A p \in Reqs : p # r => f[p] = req[p]
    BY <2>1 DEF TenantInv, TenantTypes, ReqRecords, Pcs
  <2>3. hstore \in Reqs
    BY <1>3 DEF OpenTx, TenantInv, TenantTypes, Stores
  <2>4. req' = [f EXCEPT ![hstore].writes = @ \cup {key}]
    BY <1>3, <2>1, Zenon
  <2>5. /\ req' \in [Reqs -> ReqRecords] /\ req'[hstore].writes = f[hstore].writes \cup {key}
        /\ \A p \in Reqs : p # hstore => req'[p] = f[p]
        /\ \A p \in Reqs : req'[p].pc = f[p].pc /\ req'[p].scope = f[p].scope
    <3> HIDE DEF key
    <3> QED
      BY <1>1, <2>2, <2>3, <2>4 DEF ReqRecords
  <2>6. AboutToRemove'
    BY <2>2, <2>5 DEF AboutToRemove, TenantInv
  <2>7. changes' \in 0 .. MaxChanges /\ nextId' = nextId + 1
    BY <1>3, TenantsAssumption DEF Fresh, Writes, TenantInv, TenantTypes
  <2>8. /\ \A p \in Reqs : p # hstore => req'[p].writes \subseteq req[p].writes
        /\ req'[hstore].writes \subseteq req[hstore].writes \cup {key}
    BY <2>2, <2>3, <2>5
  <2>9. db' = db /\ hstore' \in Stores
    BY <1>2, <1>3 DEF TenantInv, TenantTypes
  <2> HIDE DEF key
  <2> QED
    BY <1>1, <1>2, <2>3, <2>5, <2>6, <2>7, <2>8, <2>9, PendingAdded
<1>4. ASSUME NEW u, req' = [req EXCEPT ![r] = u], u \in ReqRecords, u.pc = "restore",
             u.writes = req[r].writes
      PROVE  /\ req' \in [Reqs -> ReqRecords] /\ AboutToRemove'
             /\ \A q \in Reqs : req'[q].writes \subseteq req[q].writes
  <2>1. /\ req' \in [Reqs -> ReqRecords] /\ req'[r] = u
        /\ \A q \in Reqs : q # r => req'[q] = req[q]
    BY <1>4, BecomesReq
  <2> QED
    BY <1>4, <2>1 DEF AboutToRemove, TenantInv
<1>5. CASE Fresh /\ db' = db \cup {key} /\ req' = [req EXCEPT ![r].pc = "restore"]
  <2>1. PICK u : u = [req[r] EXCEPT !.pc = "restore"]
    OBVIOUS
  <2>2. u \in ReqRecords /\ u.writes = req[r].writes /\ u.pc = "restore"
    BY <2>1, ReqTenant DEF ReqRecords, Pcs
  <2>3. req' = [req EXCEPT ![r] = u]
    BY <1>5, <2>1, ReqTenant DEF TenantInv, TenantTypes
  <2>4. NewRow(key)
    <3> HIDE DEF key
    <3> QED
      BY <1>1 DEF NewRow, RefersOK
  <2>5. changes' \in 0 .. MaxChanges /\ nextId' = nextId + 1
    BY <1>5, TenantsAssumption DEF Fresh, Writes, TenantInv, TenantTypes
  <2> HIDE DEF key
  <2> QED
    BY <1>2, <1>4, <1>5, <2>2, <2>3, <2>4, <2>5, RowAdded
<1>6. CASE /\ req' = [req EXCEPT ![r].pc = "restore", ![r].failed = TRUE]
           /\ UNCHANGED <<db, nextId, changes>>
  <2>1. PICK yes : yes = TRUE /\ yes \in Flags
    BY DEF Flags
  <2>2. PICK u : u = [req[r] EXCEPT !.pc = "restore", !.failed = yes]
    OBVIOUS
  <2>3. u \in ReqRecords /\ u.writes = req[r].writes /\ u.pc = "restore"
    <3>1. yes \in Flags
      BY <2>1
    <3> QED
      BY <3>1, <2>2, ReqTenant DEF ReqRecords, Pcs
  <2>4. req' = [req EXCEPT ![r] = u]
    <3>1. req' = [req EXCEPT ![r].pc = "restore", ![r].failed = yes]
      BY <1>6, <2>1, Zenon
    <3> QED
      BY <2>2, <3>1, ReqTenant DEF TenantInv, TenantTypes
  <2> QED
    BY <1>2, <1>6, <1>4, <2>3, <2>4, MovesOn DEF TenantInv, TenantTypes
<1> QED
  BY <1>3, <1>5, <1>6, Zenon DEF Mint

LEMMA EndCreateOK ==
  ASSUME TenantInv, NEW r \in Reqs, EndCreate(r)
  PROVE  TenantInv'
<1>0. (Isolation /\ AdminOnly)' /\ hstore' = hstore /\ nextId' = nextId /\ changes' = changes
  BY NothingTouched DEF EndCreate
<1>1. /\ req' \in [Reqs -> ReqRecords] /\ req'[r] = IdleReq
      /\ \A q \in Reqs : q # r => req'[q] = req[q]
  BY BecomesReq, RequestTypes DEF EndCreate, Done
<1>2. AboutToRemove' /\ \A q \in Reqs : req'[q].writes \subseteq req[q].writes
  BY DoneFields DEF EndCreate
<1>3. CASE db' = db
  BY <1>0, <1>1, <1>2, <1>3, MovesOn DEF TenantInv, TenantTypes
<1>4. CASE db' = db \cup req[r].writes
  <2>0. \A x \in req[r].writes :
           /\ x \in RowRecords /\ x.kind \in {"tenant", "key"} /\ RowFits(x)
           /\ \A y \in db : ~Same(x, y)
           /\ \A p \in Reqs : \A y \in req[p].writes : Same(x, y) => p = r /\ x = y
    BY DEF TenantInv, TenantTypes, PendingOK, ReqRecords
  <2>1. TenantTypes'
    BY <1>0, <1>1, <1>4, <2>0 DEF TenantInv, TenantTypes
  <2>2. UniqueIds'
    BY <1>4, <2>0 DEF TenantInv, UniqueIds, Same
  <2>3. UniqueNames'
    BY <1>4, <2>0 DEF TenantInv, UniqueNames
  <2>4. ASSUME NEW y \in db'
        PROVE  RowFits(y)' /\ RefersOK(y)'
    <3>1. RowFits(y) /\ RefersOK(y)
      BY <1>4, <2>0 DEF TenantInv, RefersOK
    <3> QED
      BY <1>0, <1>4, <3>1 DEF RowFits, RefersOK
  <2>5. PendingOK'
    <3>1. ASSUME NEW q \in Reqs, NEW x \in req'[q].writes
          PROVE  q # r /\ x \in req[q].writes
      BY <1>1, RequestTypes
    <3> QED
      BY <1>0, <1>4, <2>0, <3>1 DEF TenantInv, PendingOK, RowFits, Same
  <2> QED
    BY <1>0, <1>2, <2>1, <2>2, <2>3, <2>4, <2>5 DEF TenantInv
<1> QED
  BY <1>3, <1>4 DEF EndCreate


-----------------------------------------------------------------------------
LEMMA TenantInvInit == TenantsInit => TenantInv
<1> SUFFICES ASSUME TenantsInit PROVE TenantInv
  OBVIOUS
<1>2. PICK a, b, c, d, e, f, g, h, o :
        /\ db = {a, b, c, d, e, f, g, h, o}
        /\ a = Row("key", 5, 1, 0, "sessions")
        /\ b = Row("tenant", 1, 1, 0, "live")
        /\ c = Row("key", 3, 1, 0, "admin")
        /\ d = Row("session", 6, 1, 0, "live")
        /\ e = Row("provider", 8, 1, 0, "ready")
        /\ f = Row("tenant", 2, 2, 0, "live")
        /\ g = Row("key", 4, 2, 0, "admin")
        /\ h = Row("session", 7, 2, 0, "live")
        /\ o = Row("provider", 9, 2, 0, "ready")
  BY DEF TenantsInit, Unowned
<1>a. /\ a \in RowRecords /\ a.kind = "key" /\ a.id = 5 /\ a.tenant = 1
      /\ b \in RowRecords /\ b.kind = "tenant" /\ b.id = 1 /\ b.tenant = 1
      /\ c \in RowRecords /\ c.kind = "key" /\ c.id = 3 /\ c.tenant = 1
      /\ d \in RowRecords /\ d.kind = "session" /\ d.id = 6 /\ d.tenant = 1
      /\ e \in RowRecords /\ e.kind = "provider" /\ e.id = 8 /\ e.tenant = 1
      /\ f \in RowRecords /\ f.kind = "tenant" /\ f.id = 2 /\ f.tenant = 2
      /\ g \in RowRecords /\ g.kind = "key" /\ g.id = 4 /\ g.tenant = 2
      /\ h \in RowRecords /\ h.kind = "session" /\ h.id = 7 /\ h.tenant = 2
      /\ o \in RowRecords /\ o.kind = "provider" /\ o.id = 9 /\ o.tenant = 2
  BY <1>2 DEF Row, RowRecords, RowKinds, States
<1>b. db = {a, b, c, d, e, f, g, h, o}
  BY <1>2
<1>3. /\ \A x \in db : /\ x \in RowRecords /\ x.kind \in {"key", "tenant", "session", "provider"}
                       /\ x.id \in 1 .. 9 /\ (x.kind = "tenant" => x.tenant = x.id)
      /\ UniqueIds /\ UniqueNames
  BY <1>a, <1>b DEF UniqueIds, UniqueNames, Same
<1>4. TenantTypes
  BY <1>3, RequestTypes, TenantsAssumption DEF TenantTypes, TenantsInit, Stores
<1>5. PendingOK /\ AboutToRemove
  BY RequestTypes DEF TenantsInit, PendingOK, AboutToRemove
<1>6. \A x \in db : RowFits(x) /\ RefersOK(x)
  BY <1>3 DEF RowFits, RefersOK, TenantsInit
<1> QED
  BY <1>3, <1>4, <1>5, <1>6 DEF TenantInv, Isolation, AdminOnly, TenantsInit

LEMMA TenantInvNext == TenantInv /\ [TenantsNext]_tenantVars => TenantInv'
<1> SUFFICES ASSUME TenantInv, [TenantsNext]_tenantVars PROVE TenantInv'
  OBVIOUS
<1>1. ASSUME NEW r \in Reqs, Authenticate(r)
      PROVE  TenantInv'
  BY <1>1, AuthenticateOK
<1>2. ASSUME NEW r \in Reqs, TenantService(r)
      PROVE  TenantInv'
  BY <1>2, CreateTenantOK, SwapOK, MintOK, EndCreateOK, TenantReadsOK, CreateAPIKeyOK, RevokeAPIKeyOK
     DEF TenantService
<1>3. ASSUME NEW r \in Reqs, OtherServices(r)
      PROVE  TenantInv'
  BY <1>3, CredentialsOK, ProvidersOK, SessionsOK, MemoryAndEventsOK, RunsOK, ResourcesOK, PromptsOK
     DEF OtherServices
<1>4. CASE ResourceEnds
  BY <1>4, ResourceEndsOK
<1>5. CASE UNCHANGED tenantVars
  <2>1. AboutToRemove' /\ (Isolation /\ AdminOnly)'
    BY <1>5 DEF tenantVars, TenantInv, AboutToRemove, Isolation, AdminOnly
  <2> QED
    BY <1>5, <2>1, MovesOn DEF tenantVars, TenantInv, TenantTypes
<1> QED
  BY <1>1, <1>2, <1>3, <1>4, <1>5 DEF TenantsNext

\* With any number of requests in flight, the ones of TenantService sharing
\* their store and the others cut between looking and acting: a request reads
\* and changes what is its tenant's, only admins change keys, credentials and
\* providers, a row belongs to the tenant of what it refers to, and a resource
\* keeps its provider.
THEOREM TenantsApartHolds == TenantsSpec => []TenantsApart
<1>1. TenantInv => TenantsApart
  <2> SUFFICES ASSUME TenantInv PROVE TenantsApart
    OBVIOUS
  <2>1. TenantsTypeOK
    BY DEF TenantInv, TenantTypes, UniqueIds, UniqueNames, Same, RowFits, RowRecords, Stores, TenantsTypeOK
  <2>2. OneOwner
    <3> SUFFICES ASSUME NEW x \in db
                 PROVE  /\ x.kind \in {"run", "resource", "prompt"} => SessionTenant(x.session) = {x.tenant}
                        /\ \A p \in db : x.kind = "resource" /\ p.kind = "provider" /\ p.id = x.on
                                           => p.tenant = x.tenant
      BY DEF OneOwner
    <3>1. RefersOK(x) /\ UniqueIds
      BY DEF TenantInv
    <3>2. x.kind \in {"run", "resource", "prompt"} => SessionTenant(x.session) = {x.tenant}
      BY <3>1 DEF RefersOK, UniqueIds, Same, SessionTenant
    <3> QED
      BY <3>1, <3>2 DEF RefersOK, UniqueIds, Same
  <2>3. ProviderOutlivesResources
    BY DEF TenantInv, RefersOK, ProviderOutlivesResources, Active, Ids
  <2> QED
    BY <2>1, <2>2, <2>3 DEF TenantsApart, TenantInv
<1> QED
  BY <1>1, TenantInvInit, TenantInvNext, PTL DEF TenantsSpec

-----------------------------------------------------------------------------
(***************************************************************************)
(* StepStream, for any number of deliveries, steps, pieces and failures.   *)
(***************************************************************************)

-----------------------------------------------------------------------------
(***************************************************************************)
(* The invariant.  Steps are committed without gaps and a delivery's       *)
(* snapshot of history is older than its step; an attempt is the number of *)
(* starts the delivery had seen, and its own start comes after those.      *)
(***************************************************************************)

Marks == BOOLEAN
PieceRecords == [k : {"text", "reason", "call"}, n : Nat, m : Nat]
Answers == [step : Nat, by : Deliveries, said : Seq(PieceRecords)]
Envs == [msgs : Seq(Answers), compacted : Marks]
StreamPcs == {"idle", "claimed", "resolve", "stream", "commit", "broken", "aborted", "done"}
DeliveryRecords ==
    [pc : StreamPcs, step : Nat, attempt : Nat, sawLog : Nat, env : Envs, text : Seq(PieceRecords),
     reason : Seq(PieceRecords), index : Nat, timer : Marks, model : Nat, heard : Seq(PieceRecords),
     said : Seq(PieceRecords), called : Int, lossy : Marks]
LogKinds == {"step_started", "text_delta", "reasoning_delta", "tool_call_started", "tool_result",
             "history_compacted", "model_fallback", "step_finished", "run_awaiting", "run_completed",
             "run_failed", "run_cancelled"}
LogRecords == [kind : LogKinds, step : Nat, attempt : Nat, index : Nat, body : Seq(PieceRecords),
               by : Deliveries]
StreamTypes ==
    /\ events \in Seq(LogRecords) /\ dlv \in [Deliveries -> DeliveryRecords] /\ history \in Envs
    /\ jobs \subseteq Nat /\ DOMAIN steps \subseteq Nat

InOrder(msgs) == \A i, j \in DOMAIN msgs : i < j => msgs[i].step < msgs[j].step
OfRecord(msgs) ==
    \A i \in DOMAIN msgs : msgs[i].step \in DOMAIN steps /\ steps[msgs[i].step].by = msgs[i].by

\* Every step below s is committed.
CommittedBelow(s) == \A i \in 0 .. s - 1 : i \in DOMAIN steps

StepsInOrder ==
    /\ \A s \in DOMAIN steps : CommittedBelow(s)
    /\ \A s \in jobs : CommittedBelow(s)
    /\ InOrder(history.msgs) /\ OfRecord(history.msgs)
DeliveryFits(t) ==
    /\ CommittedBelow(t.step) /\ InOrder(t.env.msgs) /\ OfRecord(t.env.msgs)
    /\ \A i \in DOMAIN t.env.msgs : t.env.msgs[i].step < t.step

\* The starts of step s among the first n events.
StartsBy(n, s) == {i \in StartsOf(s) : i <= n}
Attempted(t) ==
    /\ t.sawLog <= Len(events)
    /\ t.attempt # 0 => t.attempt = Cardinality(StartsBy(t.sawLog, t.step)) + 1
StartsFit ==
    \A i \in DOMAIN events : events[i].kind = "step_started" =>
        LET t == dlv[events[i].by]
        IN  /\ events[i].by \in Deliveries /\ t.pc \notin {"idle", "claimed"} /\ t.attempt # 0
            /\ events[i].step = t.step /\ events[i].attempt = t.attempt /\ t.sawLog < i
ClaimedFits(t) == t.pc = "claimed" => t.attempt # 0

StreamInv ==
    /\ StreamTypes /\ StepsInOrder /\ StartsFit
    /\ \A d \in Deliveries : DeliveryFits(dlv[d]) /\ Attempted(dlv[d]) /\ ClaimedFits(dlv[d])


-----------------------------------------------------------------------------
(***************************************************************************)
(* The log only grows.                                                     *)
(***************************************************************************)

LEMMA LogGrows ==
  ASSUME events \in Seq(LogRecords), NEW kept \in Seq(LogRecords), events' = events \o kept
  PROVE  /\ events' \in Seq(LogRecords) /\ Len(events) \in Nat /\ Len(events) <= Len(events')
         /\ DOMAIN events = 1 .. Len(events) /\ DOMAIN events \subseteq DOMAIN events'
         /\ \A i \in DOMAIN events : events'[i] = events[i]
         /\ \A i \in DOMAIN events' : i \in DOMAIN events \/ (i > Len(events) /\ \E j \in DOMAIN kept : events'[i] = kept[j])
<1>1. Len(events) \in Nat /\ Len(kept) \in Nat /\ Len(events') = Len(events) + Len(kept)
  OBVIOUS
<1>2. DOMAIN events = 1 .. Len(events) /\ DOMAIN events' = 1 .. Len(events') /\ DOMAIN kept = 1 .. Len(kept)
  OBVIOUS
<1>3. \A i \in 1 .. Len(events) : events'[i] = events[i]
  OBVIOUS
<1>4. ASSUME NEW i \in 1 .. Len(events'), i \notin 1 .. Len(events)
      PROVE  i > Len(events) /\ i - Len(events) \in DOMAIN kept /\ events'[i] = kept[i - Len(events)]
  BY <1>1, <1>2, <1>4
<1>5. events' \in Seq(LogRecords)
  OBVIOUS
<1>6. ASSUME NEW i \in DOMAIN events'
      PROVE  i \in DOMAIN events \/ (i > Len(events) /\ \E j \in DOMAIN kept : events'[i] = kept[j])
  BY <1>2, <1>4
<1> QED
  BY <1>1, <1>2, <1>3, <1>5, <1>6

LEMMA StartsStay ==
  ASSUME events \in Seq(LogRecords), NEW kept \in Seq(LogRecords), events' = events \o kept,
         NEW n \in Nat, n <= Len(events), NEW s
  PROVE  StartsBy(n, s)' = StartsBy(n, s)
<1>1. /\ Len(events) \in Nat /\ Len(events) <= Len(events') /\ events' \in Seq(LogRecords)
      /\ DOMAIN events = 1 .. Len(events)
      /\ \A i \in DOMAIN events : events'[i] = events[i]
  BY LogGrows
<1>2. DOMAIN events' = 1 .. Len(events') /\ Len(events') \in Nat
  BY <1>1
<1>3. \A i : i \in StartsBy(n, s)' <=> i \in StartsBy(n, s)
  BY <1>1, <1>2 DEF StartsBy, StartsOf
<1> QED
  BY <1>3

-----------------------------------------------------------------------------
(***************************************************************************)
(* A delivery goes on: what it was given at its claim stays.               *)
(***************************************************************************)

Onward(t, u) ==
    /\ u \in DeliveryRecords /\ u.step = t.step /\ u.attempt = t.attempt /\ u.sawLog = t.sawLog
    /\ u.env.msgs = t.env.msgs

\* Events of delivery d, as t.
Speech(d, t) ==
    {e \in LogRecords : e.kind = "step_started" =>
                          e.by = d /\ e.step = t.step /\ e.attempt = t.attempt /\ t.attempt # 0}

LEMMA OnwardOn ==
  ASSUME NEW t, NEW u, NEW v, Onward(t, u), Onward(u, v)
  PROVE  Onward(t, v)
BY DEF Onward

LEMMA DeliveryTypes ==
  ASSUME StreamInv, NEW d \in Deliveries
  PROVE  /\ dlv[d] \in DeliveryRecords /\ DeliveryFits(dlv[d]) /\ Attempted(dlv[d])
         /\ ClaimedFits(dlv[d])
BY DEF StreamInv, StreamTypes

\* What a step of delivery d leaves of attempts and starts, whatever it commits.
LEMMA StartsMove ==
  ASSUME StreamInv, NEW d \in Deliveries, NEW u, dlv' = [dlv EXCEPT ![d] = u],
         Onward(dlv[d], u), u.pc \notin {"idle", "claimed"},
         NEW kept \in Seq(Speech(d, dlv[d])), events' = events \o kept
  PROVE  /\ events' \in Seq(LogRecords) /\ dlv' \in [Deliveries -> DeliveryRecords] /\ StartsFit'
         /\ \A c \in Deliveries :
              /\ dlv'[c].step = dlv[c].step /\ dlv'[c].env.msgs = dlv[c].env.msgs
              /\ (Attempted(dlv[c]) /\ ClaimedFits(dlv[c]))'
<1>1. /\ dlv' \in [Deliveries -> DeliveryRecords] /\ dlv'[d] = u
      /\ \A c \in Deliveries : c # d => dlv'[c] = dlv[c]
  BY DEF StreamInv, StreamTypes, Onward
<1>2. kept \in Seq(LogRecords) /\ \A j \in DOMAIN kept : kept[j] \in Speech(d, dlv[d])
  <2>1. Speech(d, dlv[d]) \subseteq LogRecords
    BY DEF Speech
  <2>2. \A j \in DOMAIN kept : kept[j] \in Speech(d, dlv[d])
    OBVIOUS
  <2> QED
    BY <2>1, <2>2
<1>3. events \in Seq(LogRecords)
  BY DEF StreamInv, StreamTypes
<1>4. /\ events' \in Seq(LogRecords) /\ Len(events) \in Nat /\ Len(events) <= Len(events')
      /\ DOMAIN events = 1 .. Len(events) /\ DOMAIN events \subseteq DOMAIN events'
      /\ \A i \in DOMAIN events : events'[i] = events[i]
      /\ \A i \in DOMAIN events' :
           i \in DOMAIN events \/ (i > Len(events) /\ \E j \in DOMAIN kept : events'[i] = kept[j])
  BY <1>2, <1>3, LogGrows
<1>7. ASSUME NEW c \in Deliveries
      PROVE  /\ dlv'[c].step = dlv[c].step /\ dlv'[c].env.msgs = dlv[c].env.msgs
             /\ (Attempted(dlv[c]) /\ ClaimedFits(dlv[c]))'
  <2>0. /\ dlv[c] \in DeliveryRecords /\ DeliveryFits(dlv[c]) /\ Attempted(dlv[c])
        /\ ClaimedFits(dlv[c])
    BY DeliveryTypes
  <2>1. /\ dlv'[c].step = dlv[c].step /\ dlv'[c].attempt = dlv[c].attempt
        /\ dlv'[c].sawLog = dlv[c].sawLog /\ dlv'[c].env.msgs = dlv[c].env.msgs
    BY <1>1 DEF Onward
  <2>3. dlv[c].sawLog \in Nat /\ dlv[c].sawLog <= Len(events)
    BY <2>0 DEF Attempted, DeliveryRecords
  <2>4. StartsBy(dlv[c].sawLog, dlv[c].step)' = StartsBy(dlv[c].sawLog, dlv[c].step)
    <3>1. PICK n, s : n = dlv[c].sawLog /\ s = dlv[c].step
      OBVIOUS
    <3>2. StartsBy(n, s)' = StartsBy(n, s)
      BY <1>2, <1>3, <2>3, <3>1, StartsStay
    <3> QED
      BY <2>1, <3>1, <3>2 DEF StartsBy, StartsOf
  <2>5. Attempted(dlv[c])'
    BY <1>4, <2>0, <2>1, <2>3, <2>4 DEF Attempted
  <2>6. ClaimedFits(dlv[c])'
    BY <1>1, <2>0 DEF ClaimedFits
  <2> QED
    BY <2>1, <2>5, <2>6
<1>8. StartsFit'
  <2> SUFFICES ASSUME NEW i \in DOMAIN events', events'[i].kind = "step_started"
               PROVE  /\ events'[i].by \in Deliveries
                      /\ dlv'[events'[i].by].pc \notin {"idle", "claimed"}
                      /\ dlv'[events'[i].by].attempt # 0
                      /\ events'[i].step = dlv'[events'[i].by].step
                      /\ events'[i].attempt = dlv'[events'[i].by].attempt
                      /\ dlv'[events'[i].by].sawLog < i
    BY DEF StartsFit
  <2>1. CASE i \in DOMAIN events
    <3>1. /\ events[i].by \in Deliveries /\ dlv[events[i].by].pc \notin {"idle", "claimed"}
          /\ dlv[events[i].by].attempt # 0
          /\ events[i].step = dlv[events[i].by].step
          /\ events[i].attempt = dlv[events[i].by].attempt
          /\ dlv[events[i].by].sawLog < i /\ events'[i] = events[i]
      BY <1>4, <2>1 DEF StreamInv, StartsFit
    <3> QED
      BY <1>1, <3>1 DEF Onward
  <2>2. ASSUME NEW j \in DOMAIN kept, i > Len(events), events'[i] = kept[j]
        PROVE  /\ events'[i].by = d /\ dlv[d].attempt # 0 /\ dlv[d].sawLog < i
               /\ events'[i].step = dlv[d].step /\ events'[i].attempt = dlv[d].attempt
    <3>1. kept[j] \in Speech(d, dlv[d])
      BY <1>2
    <3>2. dlv[d].sawLog \in Nat /\ dlv[d].sawLog <= Len(events)
      BY DeliveryTypes DEF Attempted, DeliveryRecords
    <3>3. i \in Nat
      BY <1>4
    <3> QED
      BY <1>4, <2>2, <3>1, <3>2, <3>3 DEF Speech
  <2>3. CASE i \notin DOMAIN events
    BY <1>1, <1>4, <2>2, <2>3 DEF Onward
  <2> QED
    BY <2>1, <2>3
<1> QED
  BY <1>1, <1>4, <1>7, <1>8

\* A step of delivery d that commits nothing.
LEMMA StreamMove ==
  ASSUME StreamInv, NEW d \in Deliveries, NEW u, dlv' = [dlv EXCEPT ![d] = u],
         Onward(dlv[d], u), u.pc \notin {"idle", "claimed"},
         NEW kept \in Seq(Speech(d, dlv[d])), events' = events \o kept,
         steps' = steps, jobs' \subseteq jobs, history' \in Envs,
         history'.msgs = history.msgs \/ history'.msgs = dlv[d].env.msgs
  PROVE  StreamInv'
<1>1. /\ events' \in Seq(LogRecords) /\ dlv' \in [Deliveries -> DeliveryRecords] /\ StartsFit'
      /\ \A c \in Deliveries :
           /\ dlv'[c].step = dlv[c].step /\ dlv'[c].env.msgs = dlv[c].env.msgs
           /\ (Attempted(dlv[c]) /\ ClaimedFits(dlv[c]))'
  BY StartsMove
<1>2. StreamTypes'
  BY <1>1 DEF StreamInv, StreamTypes
<1>3. StepsInOrder'
  <2>1. InOrder(dlv[d].env.msgs) /\ OfRecord(dlv[d].env.msgs)
    BY DEF StreamInv, DeliveryFits
  <2> QED
    BY <2>1 DEF StreamInv, StepsInOrder, InOrder, OfRecord, CommittedBelow
<1>4. ASSUME NEW c \in Deliveries
      PROVE  DeliveryFits(dlv[c])'
  <2>1. DeliveryFits(dlv[c])
    BY DeliveryTypes
  <2>2. CommittedBelow(dlv[c].step)'
    BY <1>1, <2>1 DEF DeliveryFits, CommittedBelow
  <2>3. OfRecord(dlv[c].env.msgs)'
    BY <1>1, <2>1 DEF DeliveryFits, OfRecord
  <2> QED
    BY <1>1, <2>1, <2>2, <2>3 DEF DeliveryFits, InOrder
<1> QED
  BY <1>1, <1>2, <1>3, <1>4 DEF StreamInv

-----------------------------------------------------------------------------
(***************************************************************************)
(* Appends outside a transaction, of which some fail.                      *)
(***************************************************************************)

LEMMA LossyFields ==
  ASSUME NEW t \in DeliveryRecords, NEW b \in Marks
  PROVE  Onward(t, [t EXCEPT !.lossy = b]) /\ [t EXCEPT !.lossy = b].pc = t.pc
BY DEF DeliveryRecords, Onward

LEMMA AppendAtKeeps ==
  ASSUME NEW d \in Deliveries, NEW after \in DeliveryRecords, NEW S, NEW es \in Seq(S), NEW cost,
         AppendAt(cost, d, after, es)
  PROVE  \E u : \E kept \in Seq(S) :
            /\ dlv' = [dlv EXCEPT ![d] = u] /\ Onward(after, u) /\ u.pc = after.pc
            /\ events' = events \o kept
<1>1. PICK pick \in Picks(es) :
         /\ events' = events \o [i \in DOMAIN pick |-> es[pick[i]]]
         /\ dlv' = [dlv EXCEPT ![d] = [after EXCEPT !.lossy = @ \/ (Len(es) - Len(pick)) > 0]]
  BY Zenon DEF AppendAt
<1>2. PICK n \in 0 .. Len(es) : pick \in [1 .. n -> DOMAIN es]
  BY DEF Picks
<1>3. [i \in DOMAIN pick |-> es[pick[i]]] \in Seq(S)
  <2>1. n \in Nat /\ DOMAIN pick = 1 .. n /\ \A i \in 1 .. n : es[pick[i]] \in S
    BY <1>2
  <2>2. [i \in DOMAIN pick |-> es[pick[i]]] \in [1 .. n -> S]
    BY <2>1
  <2> QED
    BY <2>1, <2>2
<1>4. PICK b : b = (after.lossy \/ (Len(es) - Len(pick)) > 0)
  OBVIOUS
<1>5. b \in Marks
  BY <1>4, Zenon DEF Marks
<1>6. dlv' = [dlv EXCEPT ![d] = [after EXCEPT !.lossy = b]]
  BY <1>1, <1>4, Zenon
<1>7. Onward(after, [after EXCEPT !.lossy = b]) /\ [after EXCEPT !.lossy = b].pc = after.pc
  BY <1>5, LossyFields
<1>8. PICK u : u = [after EXCEPT !.lossy = b]
  OBVIOUS
<1>9. dlv' = [dlv EXCEPT ![d] = u] /\ Onward(after, u) /\ u.pc = after.pc
  BY <1>6, <1>7, <1>8, Zenon
<1> QED
  BY <1>1, <1>3, <1>9, Zenon

\* A delivery that appends some of es goes on.
LEMMA AppendMove ==
  ASSUME StreamInv, NEW d \in Deliveries, NEW after, Onward(dlv[d], after),
         after.pc \notin {"idle", "claimed"},
         NEW es \in Seq(Speech(d, dlv[d])), NEW cost, AppendAt(cost, d, after, es),
         steps' = steps, jobs' = jobs, history' \in Envs,
         history'.msgs = history.msgs \/ history'.msgs = dlv[d].env.msgs
  PROVE  StreamInv'
<1>1. after \in DeliveryRecords
  BY DEF Onward
<1>2. PICK u : \E kept \in Seq(Speech(d, dlv[d])) :
            /\ dlv' = [dlv EXCEPT ![d] = u] /\ Onward(after, u) /\ u.pc = after.pc
            /\ events' = events \o kept
  BY <1>1, AppendAtKeeps
<1>3. PICK kept \in Seq(Speech(d, dlv[d])) :
            /\ dlv' = [dlv EXCEPT ![d] = u] /\ Onward(after, u) /\ u.pc = after.pc
            /\ events' = events \o kept
  BY <1>2
<1>4. Onward(dlv[d], u)
  BY <1>3, OnwardOn
<1> QED
  BY <1>3, <1>4, StreamMove

\* The events of a delivery, but for its start.
LEMMA SpokenEvent ==
  ASSUME StreamInv, NEW d \in Deliveries, NEW kind \in LogKinds, NEW index \in Nat,
         NEW body \in Seq(PieceRecords),
         kind = "step_started" => dlv[d].attempt # 0
  PROVE  Event(d, kind, index, body) \in Speech(d, dlv[d])
<1>1. dlv[d].step \in Nat /\ dlv[d].attempt \in Nat
  BY DeliveryTypes DEF DeliveryRecords
<1>2. PICK e : e = Event(d, kind, index, body)
  OBVIOUS
<1>3. /\ e \in LogRecords /\ e.kind = kind /\ e.by = d /\ e.step = dlv[d].step
      /\ e.attempt = dlv[d].attempt
  BY <1>1, <1>2 DEF Event, LogRecords
<1>4. e \in Speech(d, dlv[d])
  BY <1>3 DEF Speech
<1> QED
  BY <1>2, <1>4

LEMMA NoPieces == <<>> \in Seq(PieceRecords) /\ 0 \in Nat
OBVIOUS

LEMMA SpokenOne ==
  ASSUME StreamInv, NEW d \in Deliveries, NEW kind \in LogKinds,
         kind = "step_started" => dlv[d].attempt # 0
  PROVE  /\ Event(d, kind, 0, <<>>) \in Speech(d, dlv[d])
         /\ <<Event(d, kind, 0, <<>>)>> \in Seq(Speech(d, dlv[d]))
<1> DEFINE none == <<>>
<1>1. none \in Seq(PieceRecords) /\ 0 \in Nat
  OBVIOUS
<1> HIDE DEF none
<1>2. Event(d, kind, 0, none) \in Speech(d, dlv[d])
  BY <1>1, SpokenEvent
<1>3. PICK e : e = Event(d, kind, 0, none)
  OBVIOUS
<1>4. <<e>> \in Seq(Speech(d, dlv[d]))
  BY <1>2, <1>3
<1> QED
  BY <1>2, <1>3, <1>4, Zenon DEF none

LEMMA FlushedSpeech ==
  ASSUME StreamInv, NEW d \in Deliveries, NEW t, Onward(dlv[d], t)
  PROVE  Flushed(d, t) \in Seq(Speech(d, dlv[d]))
<1>0. t.index \in Nat /\ t.reason \in Seq(PieceRecords) /\ t.text \in Seq(PieceRecords)
  BY DEF Onward, DeliveryRecords
<1>1. PICK i : i = t.index + (IF t.reason = <<>> THEN 0 ELSE 1)
  OBVIOUS
<1>i. i \in Nat
  BY <1>0, <1>1
<1>2. PICK a, b : a = Event(d, "reasoning_delta", t.index, t.reason) /\ b = Event(d, "text_delta", i, t.text)
  OBVIOUS
<1>3. a \in Speech(d, dlv[d]) /\ b \in Speech(d, dlv[d])
  BY <1>0, <1>i, <1>2, SpokenEvent DEF LogKinds
<1>4. Flushed(d, t) = (IF t.reason = <<>> THEN <<>> ELSE <<a>>) \o (IF t.text = <<>> THEN <<>> ELSE <<b>>)
  BY <1>1, <1>2, Zenon DEF Flushed
<1>5. PICK S : S = Speech(d, dlv[d])
  OBVIOUS
<1>6. <<>> \in Seq(S) /\ <<a>> \in Seq(S) /\ <<b>> \in Seq(S)
  BY <1>3, <1>5
<1>7. PICK x, y : x = (IF t.reason = <<>> THEN <<>> ELSE <<a>>) /\ y = (IF t.text = <<>> THEN <<>> ELSE <<b>>)
  OBVIOUS
<1>8. x \in Seq(S) /\ y \in Seq(S)
  BY <1>6, <1>7, Zenon
<1>9. x \o y \in Seq(S)
  BY <1>8
<1> QED
  BY <1>4, <1>5, <1>7, <1>9, Zenon

LEMMA AfterFlushFields ==
  ASSUME NEW t \in DeliveryRecords
  PROVE  Onward(t, AfterFlush(t)) /\ AfterFlush(t).pc = t.pc
<1> DEFINE none == <<>>
           no == FALSE
<1>1. none \in Seq(PieceRecords) /\ no \in Marks
  BY DEF Marks
<1>2. PICK i : i = t.index + (IF t.reason = <<>> THEN 0 ELSE 1) + (IF t.text = <<>> THEN 0 ELSE 1)
  OBVIOUS
<1>3. i \in Nat
  BY <1>2 DEF DeliveryRecords
<1>4. AfterFlush(t) = [t EXCEPT !.reason = none, !.text = none, !.timer = no, !.index = i]
  BY <1>2, Zenon DEF AfterFlush
<1> HIDE DEF none, no
<1>5. PICK u : u = [t EXCEPT !.reason = none, !.text = none, !.timer = no, !.index = i]
  OBVIOUS
<1>6. Onward(t, u) /\ u.pc = t.pc
  BY <1>1, <1>3, <1>5 DEF DeliveryRecords, Onward
<1> QED
  BY <1>4, <1>5, <1>6

LEMMA FlushMove ==
  ASSUME StreamInv, NEW d \in Deliveries, NEW t, Onward(dlv[d], t), t.pc \notin {"idle", "claimed"},
         NEW more \in Seq(Speech(d, dlv[d])), flushLocked(d, t, more),
         steps' = steps, jobs' = jobs, history' = history
  PROVE  StreamInv'
<1>1. Flushed(d, t) \o more \in Seq(Speech(d, dlv[d]))
  <2>1. Flushed(d, t) \in Seq(Speech(d, dlv[d]))
    BY FlushedSpeech
  <2> QED
    BY <2>1
<1>2. Onward(dlv[d], AfterFlush(t)) /\ AfterFlush(t).pc = t.pc
  BY AfterFlushFields, OnwardOn DEF Onward
<1>3. history \in Envs
  BY DEF StreamInv, StreamTypes
<1>4. AppendAt(0, d, AfterFlush(t), Flushed(d, t) \o more)
  BY DEF flushLocked, AppendEvents
<1> QED
  BY <1>1, <1>2, <1>3, <1>4, AppendMove


-----------------------------------------------------------------------------
(***************************************************************************)
(* The actions between claim and commit.                                   *)
(***************************************************************************)

LEMMA PcOnward ==
  ASSUME NEW t \in DeliveryRecords, NEW pc \in StreamPcs
  PROVE  Onward(t, [t EXCEPT !.pc = pc]) /\ [t EXCEPT !.pc = pc].pc = pc
BY DEF DeliveryRecords, Onward

LEMMA PieceType ==
  ASSUME StreamInv, NEW d \in Deliveries, NEW kind \in {"text", "reason", "call"}
  PROVE  Piece(d, kind) \in PieceRecords
<1>1. dlv[d].heard \in Seq(PieceRecords) /\ dlv[d].model \in Nat
  BY DeliveryTypes DEF DeliveryRecords
<1> QED
  BY <1>1 DEF Piece, PieceRecords

LEMMA HeardFields ==
  ASSUME StreamInv, NEW d \in Deliveries, NEW kind \in {"text", "reason", "call"}
  PROVE  Onward(dlv[d], Heard(d, kind)) /\ Heard(d, kind).pc = dlv[d].pc
<1>1. PICK p : p = Piece(d, kind)
  OBVIOUS
<1>2. p \in PieceRecords
  BY <1>1, PieceType
<1>3. PICK t, a, b : t = dlv[d] /\ a = Append(t.heard, p) /\ b = Append(t.said, p)
  OBVIOUS
<1>4. t \in DeliveryRecords
  BY <1>3, DeliveryTypes
<1>5. t.heard \in Seq(PieceRecords) /\ t.said \in Seq(PieceRecords)
  BY <1>4 DEF DeliveryRecords
<1>6. a \in Seq(PieceRecords) /\ b \in Seq(PieceRecords)
  BY <1>2, <1>3, <1>5
<1>7. PICK u : u = [t EXCEPT !.heard = a, !.said = b]
  OBVIOUS
<1>8. Onward(t, u) /\ u.pc = t.pc
  BY <1>4, <1>6, <1>7 DEF DeliveryRecords, Onward
<1>9. Heard(d, kind) = u
  BY <1>1, <1>3, <1>7, Zenon DEF Heard
<1> QED
  BY <1>3, <1>8, <1>9

\* What the model says is buffered.
LEMMA BufferFields ==
  ASSUME NEW t \in DeliveryRecords, NEW p \in PieceRecords
  PROVE  /\ Onward(t, [t EXCEPT !.text = Append(@, p)]) /\ [t EXCEPT !.text = Append(@, p)].pc = t.pc
         /\ Onward(t, [t EXCEPT !.reason = Append(@, p)])
         /\ [t EXCEPT !.reason = Append(@, p)].pc = t.pc
<1>1. Append(t.text, p) \in Seq(PieceRecords) /\ Append(t.reason, p) \in Seq(PieceRecords)
  BY DEF DeliveryRecords
<1>2. PICK a, b : a = Append(t.text, p) /\ b = Append(t.reason, p)
  OBVIOUS
<1>3. PICK u, v : u = [t EXCEPT !.text = a] /\ v = [t EXCEPT !.reason = b]
  OBVIOUS
<1>4. Onward(t, u) /\ u.pc = t.pc /\ Onward(t, v) /\ v.pc = t.pc
  BY <1>1, <1>2, <1>3 DEF DeliveryRecords, Onward
<1> QED
  BY <1>2, <1>3, <1>4, Zenon

LEMMA TimerFields ==
  ASSUME NEW t \in DeliveryRecords
  PROVE  Onward(t, [t EXCEPT !.timer = TRUE]) /\ [t EXCEPT !.timer = TRUE].pc = t.pc
<1>1. PICK yes : yes = TRUE
  OBVIOUS
<1>2. yes \in Marks
  BY <1>1 DEF Marks
<1>3. Onward(t, [t EXCEPT !.timer = yes]) /\ [t EXCEPT !.timer = yes].pc = t.pc
  BY <1>2 DEF DeliveryRecords, Onward
<1> QED
  BY <1>1, <1>3, Zenon

\* Nothing is appended.
LEMMA QuietMove ==
  ASSUME StreamInv, NEW d \in Deliveries, NEW u, dlv' = [dlv EXCEPT ![d] = u],
         Onward(dlv[d], u), u.pc \notin {"idle", "claimed"},
         events' = events, steps' = steps, jobs' \subseteq jobs, history' = history
  PROVE  StreamInv'
<1>1. PICK kept : kept = <<>>
  OBVIOUS
<1>2. kept \in Seq(Speech(d, dlv[d]))
  BY <1>1
<1>3. events \o kept = events /\ history \in Envs
  BY <1>1 DEF StreamInv, StreamTypes
<1> QED
  BY <1>2, <1>3, StreamMove

LEMMA AddMove ==
  ASSUME StreamInv, NEW d \in Deliveries, NEW t, Onward(dlv[d], t), t.pc \notin {"idle", "claimed"},
         add(d, t), steps' = steps, jobs' = jobs, history' = history
  PROVE  StreamInv'
<1>1. CASE flushLocked(d, t, <<>>)
  <2>1. PICK more : more = <<>>
    OBVIOUS
  <2>2. more \in Seq(Speech(d, dlv[d]))
    BY <2>1
  <2> QED
    BY <1>1, <2>1, <2>2, FlushMove
<1>2. CASE dlv' = [dlv EXCEPT ![d] = [t EXCEPT !.timer = TRUE]] /\ UNCHANGED <<events, trouble>>
  <2>1. PICK u : u = [t EXCEPT !.timer = TRUE]
    OBVIOUS
  <2>2. t \in DeliveryRecords
    BY DEF Onward
  <2>3. Onward(t, u) /\ u.pc = t.pc
    BY <2>1, <2>2, TimerFields, Zenon
  <2>4. dlv' = [dlv EXCEPT ![d] = u] /\ events' = events
    BY <1>2, <2>1, Zenon
  <2> QED
    BY <2>3, <2>4, OnwardOn, QuietMove
<1> QED
  BY <1>1, <1>2, Zenon DEF add

LEMMA NothingMore ==
  ASSUME NEW S
  PROVE  <<>> \in Seq(S)
OBVIOUS

LEMMA TimerOK ==
  ASSUME StreamInv, NEW d \in Deliveries, Timer(d)
  PROVE  StreamInv'
<1>1. dlv[d] \in DeliveryRecords /\ dlv[d].pc = "stream" /\ flushLocked(d, dlv[d], <<>>)
      /\ UNCHANGED <<state, cancel, history, steps, jobs>>
  BY DeliveryTypes DEF Timer
<1>2. Onward(dlv[d], dlv[d])
  BY <1>1 DEF Onward
<1>3. PICK more : more = <<>> /\ more \in Seq(Speech(d, dlv[d]))
  BY NothingMore
<1> QED
  BY <1>1, <1>2, <1>3, FlushMove

LEMMA AnnounceOK ==
  ASSUME StreamInv, NEW d \in Deliveries, Announce(d)
  PROVE  StreamInv'
<1>1. dlv[d] \in DeliveryRecords /\ dlv[d].attempt # 0 /\ history \in Envs
  BY DeliveryTypes DEF Announce, ClaimedFits, StreamInv, StreamTypes
<1>2. PICK after, es : after = [dlv[d] EXCEPT !.pc = "resolve"] /\ es = <<Event(d, "step_started", 0, <<>>)>>
  OBVIOUS
<1>3. Onward(dlv[d], after) /\ after.pc = "resolve"
  BY <1>1, <1>2, PcOnward DEF StreamPcs
<1>4. es \in Seq(Speech(d, dlv[d]))
  BY <1>1, <1>2, SpokenOne DEF LogKinds
<1>5. AppendAt(0, d, after, es) /\ UNCHANGED <<state, cancel, history, steps, jobs>>
  BY <1>2, Zenon DEF Announce, AppendEvents
<1> QED
  BY <1>1, <1>3, <1>4, <1>5, AppendMove

\* The marker is set in the copy of history the delivery has.
LEMMA MarkedFields ==
  ASSUME NEW t \in DeliveryRecords, NEW m, m = [t.env EXCEPT !.compacted = TRUE]
  PROVE  /\ m \in Envs /\ m.msgs = t.env.msgs
         /\ Onward(t, [t EXCEPT !.pc = "stream", !.env = m])
         /\ [t EXCEPT !.pc = "stream", !.env = m].pc = "stream"
<1>1. PICK yes : yes = TRUE
  OBVIOUS
<1>2. yes \in Marks
  BY <1>1 DEF Marks
<1>3. PICK e : e = t.env
  OBVIOUS
<1>4. e \in Envs
  BY <1>3 DEF DeliveryRecords
<1>5. m = [e EXCEPT !.compacted = yes]
  BY <1>1, <1>3, Zenon
<1>6. m \in Envs /\ m.msgs = e.msgs
  BY <1>2, <1>4, <1>5 DEF Envs
<1>7. PICK u : u = [t EXCEPT !.pc = "stream", !.env = m]
  OBVIOUS
<1>8. Onward(t, u) /\ u.pc = "stream"
  BY <1>3, <1>6, <1>7 DEF DeliveryRecords, Onward, StreamPcs
<1> QED
  BY <1>3, <1>6, <1>7, <1>8

LEMMA CompactOK ==
  ASSUME StreamInv, NEW d \in Deliveries, Compact(d)
  PROVE  StreamInv'
<1>0. dlv[d] \in DeliveryRecords /\ history \in Envs /\ steps' = steps /\ jobs' = jobs
  BY DeliveryTypes DEF Compact, StreamInv, StreamTypes
<1>1. PICK m : m = [dlv[d].env EXCEPT !.compacted = TRUE]
  OBVIOUS
<1>2. PICK after : after = [dlv[d] EXCEPT !.pc = "stream", !.env = m]
  OBVIOUS
<1>3. m \in Envs /\ m.msgs = dlv[d].env.msgs /\ Onward(dlv[d], after) /\ after.pc = "stream"
  BY <1>0, <1>1, <1>2, MarkedFields
<1>4. CASE \E fails \in {0, 1} :
             /\ history' = (IF fails = 0 THEN m ELSE history)
             /\ AppendAt(fails, d, after, <<Event(d, "history_compacted", 0, <<>>)>>)
  <2>1. PICK fails \in {0, 1} :
             /\ history' = (IF fails = 0 THEN m ELSE history)
             /\ AppendAt(fails, d, after, <<Event(d, "history_compacted", 0, <<>>)>>)
    BY <1>4
  <2>2. PICK es : es = <<Event(d, "history_compacted", 0, <<>>)>>
    OBVIOUS
  <2>3. es \in Seq(Speech(d, dlv[d]))
    BY <2>2, SpokenOne DEF LogKinds
  <2> QED
    BY <1>0, <1>3, <2>1, <2>2, <2>3, AppendMove
<1>5. CASE dlv' = [dlv EXCEPT ![d].pc = "stream"] /\ UNCHANGED <<history, events, trouble>>
  <2>1. PICK u : u = [dlv[d] EXCEPT !.pc = "stream"]
    OBVIOUS
  <2>2. dlv' = [dlv EXCEPT ![d] = u]
    BY <1>5, <2>1, Zenon
  <2>3. Onward(dlv[d], u) /\ u.pc = "stream"
    BY <1>0, <2>1, PcOnward DEF StreamPcs
  <2> QED
    BY <1>0, <1>5, <2>2, <2>3, QuietMove
<1> QED
  BY <1>1, <1>2, <1>4, <1>5, Zenon DEF Compact


LEMMA OnTextDeltaOK ==
  ASSUME StreamInv, NEW d \in Deliveries, OnTextDelta(d)
  PROVE  StreamInv'
<1>1. PICK h, p : h = Heard(d, "text") /\ p = Piece(d, "text")
  OBVIOUS
<1>2. Onward(dlv[d], h) /\ h.pc = dlv[d].pc /\ p \in PieceRecords
  BY <1>1, HeardFields, PieceType
<1>3. h \in DeliveryRecords
  BY <1>2 DEF Onward
<1>4. PICK t : t = [h EXCEPT !.text = Append(@, p)]
  OBVIOUS
<1>5. Onward(h, t) /\ t.pc = h.pc
  BY <1>2, <1>3, <1>4, BufferFields, Zenon
<1>6. Onward(dlv[d], t) /\ dlv[d].pc = "stream"
  BY <1>2, <1>5, OnwardOn DEF OnTextDelta, Streaming
<1>7. add(d, t) /\ steps' = steps /\ jobs' = jobs /\ history' = history
  BY <1>1, <1>4, Zenon DEF OnTextDelta
<1> QED
  BY <1>2, <1>5, <1>6, <1>7, AddMove

\* The fallback's reasoning and calls are heard and not told.
LEMMA HeardMove ==
  ASSUME StreamInv, NEW d \in Deliveries, NEW kind \in {"text", "reason", "call"},
         dlv' = [dlv EXCEPT ![d] = Heard(d, kind)], dlv[d].pc = "stream",
         events' = events, steps' = steps, jobs' = jobs, history' = history
  PROVE  StreamInv'
BY HeardFields, QuietMove

LEMMA OnReasoningDeltaOK ==
  ASSUME StreamInv, NEW d \in Deliveries, OnReasoningDelta(d)
  PROVE  StreamInv'
<1>0. dlv[d].pc = "stream" /\ steps' = steps /\ jobs' = jobs /\ history' = history
  BY DEF OnReasoningDelta, Streaming
<1>1. PICK h, p : h = Heard(d, "reason") /\ p = Piece(d, "reason")
  OBVIOUS
<1>2. Onward(dlv[d], h) /\ h.pc = dlv[d].pc /\ p \in PieceRecords
  BY <1>1, HeardFields, PieceType
<1>3. h \in DeliveryRecords
  BY <1>2 DEF Onward
<1>4. PICK t : t = [h EXCEPT !.reason = Append(@, p)]
  OBVIOUS
<1>5. Onward(h, t) /\ t.pc = h.pc
  BY <1>2, <1>3, <1>4, BufferFields, Zenon
<1>6. Onward(dlv[d], t)
  BY <1>2, <1>5, OnwardOn
<1>7. CASE add(d, t)
  BY <1>0, <1>2, <1>5, <1>6, <1>7, AddMove
<1>8. CASE dlv' = [dlv EXCEPT ![d] = Heard(d, "reason")] /\ UNCHANGED <<events, trouble>>
  BY <1>0, <1>8, HeardMove
<1> QED
  BY <1>1, <1>4, <1>7, <1>8, Zenon DEF OnReasoningDelta

LEMMA CalledFields ==
  ASSUME NEW t \in DeliveryRecords
  PROVE  /\ Onward(t, [t EXCEPT !.called = @ + 1]) /\ [t EXCEPT !.called = @ + 1].pc = t.pc
         /\ Onward(t, [t EXCEPT !.called = @ - 1]) /\ [t EXCEPT !.called = @ - 1].pc = t.pc
<1>1. PICK a, b : a = t.called + 1 /\ b = t.called - 1
  OBVIOUS
<1>2. a \in Int /\ b \in Int
  BY <1>1 DEF DeliveryRecords
<1>3. /\ Onward(t, [t EXCEPT !.called = a]) /\ [t EXCEPT !.called = a].pc = t.pc
      /\ Onward(t, [t EXCEPT !.called = b]) /\ [t EXCEPT !.called = b].pc = t.pc
  BY <1>2 DEF DeliveryRecords, Onward
<1> QED
  BY <1>1, <1>3, Zenon

LEMMA OnToolCallOK ==
  ASSUME StreamInv, NEW d \in Deliveries, OnToolCall(d)
  PROVE  StreamInv'
<1>0. dlv[d].pc = "stream" /\ steps' = steps /\ jobs' = jobs /\ history' = history
  BY DEF OnToolCall, Streaming
<1>1. PICK h, p : h = Heard(d, "call") /\ p = Piece(d, "call")
  OBVIOUS
<1>2. Onward(dlv[d], h) /\ h.pc = dlv[d].pc /\ p \in PieceRecords
  BY <1>1, HeardFields, PieceType
<1>3. PICK t : t = [h EXCEPT !.called = @ + 1]
  OBVIOUS
<1>4. Onward(h, t) /\ t.pc = h.pc
  <2>1. h \in DeliveryRecords
    BY <1>2 DEF Onward
  <2> QED
    BY <1>3, <2>1, CalledFields, Zenon
<1>5. Onward(dlv[d], t)
  BY <1>2, <1>4, OnwardOn
<1>6. PICK more : more = <<Event(d, "tool_call_started", 0, <<p>>)>>
  OBVIOUS
<1>7. more \in Seq(Speech(d, dlv[d]))
  <2>1. PICK body : body = <<p>>
    OBVIOUS
  <2>2. body \in Seq(PieceRecords)
    BY <1>2, <2>1
  <2>3. PICK e : e = Event(d, "tool_call_started", 0, body)
    OBVIOUS
  <2>4. e \in Speech(d, dlv[d])
    BY <2>2, <2>3, SpokenEvent DEF LogKinds
  <2>5. <<e>> \in Seq(Speech(d, dlv[d]))
    BY <2>4
  <2> QED
    BY <1>6, <2>1, <2>3, <2>5, Zenon
<1>8. CASE flushLocked(d, t, more)
  BY <1>0, <1>2, <1>4, <1>5, <1>7, <1>8, FlushMove
<1>9. CASE dlv' = [dlv EXCEPT ![d] = Heard(d, "call")] /\ UNCHANGED <<events, trouble>>
  BY <1>0, <1>9, HeardMove
<1> QED
  BY <1>1, <1>3, <1>6, <1>8, <1>9, Zenon DEF OnToolCall

LEMMA OnToolResultOK ==
  ASSUME StreamInv, NEW d \in Deliveries, OnToolResult(d)
  PROVE  StreamInv'
<1>1. dlv[d] \in DeliveryRecords /\ dlv[d].pc = "stream" /\ history \in Envs
      /\ steps' = steps /\ jobs' = jobs /\ history' = history
  BY DeliveryTypes DEF OnToolResult, StreamInv, StreamTypes
<1>2. PICK after, es :
        after = [dlv[d] EXCEPT !.called = @ - 1] /\ es = <<Event(d, "tool_result", 0, <<>>)>>
  OBVIOUS
<1>3. Onward(dlv[d], after) /\ after.pc = "stream"
  BY <1>1, <1>2, CalledFields, Zenon
<1>4. es \in Seq(Speech(d, dlv[d]))
  BY <1>2, SpokenOne DEF LogKinds
<1>5. AppendAt(0, d, after, es)
  BY <1>2, Zenon DEF OnToolResult, AppendEvents
<1> QED
  BY <1>1, <1>3, <1>4, <1>5, AppendMove

LEMMA StreamStopsOK ==
  ASSUME StreamInv, NEW d \in Deliveries, StreamEnds(d) \/ pollCancel(d)
  PROVE  StreamInv'
<1>1. dlv[d] \in DeliveryRecords /\ steps' = steps /\ jobs' = jobs /\ history' = history
  BY DeliveryTypes DEF StreamEnds, pollCancel
<1>2. ASSUME NEW pc \in {"commit", "aborted"}, NEW t, t = [dlv[d] EXCEPT !.pc = pc],
             flushLocked(d, t, <<>>)
      PROVE  StreamInv'
  <2>0. pc \in StreamPcs
    BY DEF StreamPcs
  <2>1. Onward(dlv[d], t) /\ t.pc = pc
    BY <1>1, <1>2, <2>0, PcOnward, Zenon
  <2>2. PICK more : more = <<>> /\ more \in Seq(Speech(d, dlv[d]))
    BY NothingMore
  <2> QED
    BY <1>1, <1>2, <2>1, <2>2, FlushMove
<1>3. CASE StreamEnds(d)
  BY <1>2, <1>3, Zenon DEF StreamEnds
<1>4. CASE pollCancel(d)
  BY <1>2, <1>4, Zenon DEF pollCancel
<1> QED
  BY <1>3, <1>4

LEMMA FailMove ==
  ASSUME StreamInv, NEW d \in Deliveries, NEW u, Onward(dlv[d], u),
         NEW es \in Seq(Speech(d, dlv[d])), NEW pc \in {"stream", "broken"},
         AppendAt(1, d, [AfterFlush(u) EXCEPT !.pc = pc], es),
         steps' = steps, jobs' = jobs, history' = history
  PROVE  StreamInv'
<1>1. u \in DeliveryRecords /\ history \in Envs
  BY DEF Onward, StreamInv, StreamTypes
<1>2. PICK a : a = AfterFlush(u)
  OBVIOUS
<1>3. Onward(u, a) /\ a \in DeliveryRecords
  BY <1>1, <1>2, AfterFlushFields DEF Onward
<1>4. PICK after : after = [a EXCEPT !.pc = pc]
  OBVIOUS
<1>5. Onward(a, after) /\ after.pc = pc
  BY <1>3, <1>4, PcOnward DEF StreamPcs
<1>6. Onward(dlv[d], after)
  BY <1>3, <1>5, OnwardOn
<1>7. AppendAt(1, d, after, es)
  BY <1>2, <1>4, Zenon
<1> QED
  BY <1>1, <1>5, <1>6, <1>7, AppendMove

LEMMA FallbackFields ==
  ASSUME NEW t \in DeliveryRecords, NEW none \in Seq(PieceRecords), NEW m \in Nat, NEW c \in Int
  PROVE  Onward(t, [t EXCEPT !.model = m, !.said = none, !.called = c])
<1>1. PICK u : u = [t EXCEPT !.model = m, !.said = none, !.called = c]
  OBVIOUS
<1>2. u \in DeliveryRecords
  BY <1>1 DEF DeliveryRecords
<1>3. u.step = t.step /\ u.attempt = t.attempt /\ u.sawLog = t.sawLog /\ u.env = t.env
  BY <1>1 DEF DeliveryRecords
<1>4. Onward(t, u)
  BY <1>2, <1>3 DEF Onward
<1> QED
  BY <1>1, <1>4

LEMMA StreamFailsOK ==
  ASSUME StreamInv, NEW d \in Deliveries, NEW retryable, StreamFails(d, retryable)
  PROVE  StreamInv'
<1>1. dlv[d] \in DeliveryRecords /\ history \in Envs /\ steps' = steps /\ jobs' = jobs
      /\ history' = history
  BY DeliveryTypes DEF StreamFails, StreamInv, StreamTypes
<1>2. PICK t : t = [dlv[d] EXCEPT !.model = 2, !.said = <<>>, !.called = 0]
  OBVIOUS
<1>3. Onward(dlv[d], t)
  <2>1. PICK none : none = <<>> /\ none \in Seq(PieceRecords)
    BY NothingMore
  <2>2. PICK v : v = dlv[d]
    OBVIOUS
  <2>3. t = [v EXCEPT !.model = 2, !.said = none, !.called = 0] /\ v \in DeliveryRecords
    BY <1>1, <1>2, <2>1, <2>2, Zenon
  <2>4. none \in Seq(PieceRecords)
    BY <2>1
  <2>5. Onward(v, t)
    <3>1. PICK m, c : m = 2 /\ c = 0
      OBVIOUS
    <3>2. m \in Nat /\ c \in Int
      BY <3>1
    <3> QED
      BY <2>3, <2>4, <3>1, <3>2, FallbackFields, Zenon
  <2> QED
    BY <2>2, <2>5
<1>4. PICK a, b, c : a = Flushed(d, t) /\ b = <<Event(d, "model_fallback", 0, <<>>)>> /\ c = Flushed(d, dlv[d])
  OBVIOUS
<1>5. Onward(dlv[d], dlv[d])
  BY <1>1 DEF Onward
<1>6. a \in Seq(Speech(d, dlv[d])) /\ b \in Seq(Speech(d, dlv[d])) /\ c \in Seq(Speech(d, dlv[d]))
  BY <1>3, <1>4, <1>5, FlushedSpeech, SpokenOne DEF LogKinds
<1>7. a \o b \in Seq(Speech(d, dlv[d]))
  BY <1>6
<1>8. ASSUME NEW pc \in {"stream", "broken"}, AppendAt(1, d, [AfterFlush(t) EXCEPT !.pc = pc], a \o b)
      PROVE  StreamInv'
  BY <1>1, <1>3, <1>7, <1>8, FailMove
<1>9. ASSUME AppendAt(1, d, [AfterFlush(dlv[d]) EXCEPT !.pc = "broken"], c)
      PROVE  StreamInv'
  BY <1>1, <1>5, <1>6, <1>9, FailMove
<1> QED
  BY <1>2, <1>4, <1>8, <1>9, Zenon DEF StreamFails


-----------------------------------------------------------------------------
(***************************************************************************)
(* Ends, claims and commits.                                               *)
(***************************************************************************)

\* Delivery d is over.
LEMMA DoneRecord ==
  ASSUME StreamInv, NEW d \in Deliveries, dlv' = [dlv EXCEPT ![d].pc = "done"]
  PROVE  \E u : dlv' = [dlv EXCEPT ![d] = u] /\ Onward(dlv[d], u) /\ u.pc = "done"
<1>1. dlv[d] \in DeliveryRecords
  BY DeliveryTypes
<1>2. PICK u : u = [dlv[d] EXCEPT !.pc = "done"]
  OBVIOUS
<1>3. Onward(dlv[d], u) /\ u.pc = "done"
  BY <1>1, <1>2, PcOnward DEF StreamPcs
<1>4. dlv' = [dlv EXCEPT ![d] = u]
  BY <1>2, Zenon
<1> QED
  BY <1>3, <1>4

LEMMA LeaveMove ==
  ASSUME StreamInv, NEW d \in Deliveries, NEW es \in Seq(Speech(d, dlv[d])), NEW st, Leave(d, es, st),
         jobs' \subseteq jobs
  PROVE  StreamInv'
<1>1. PICK u : dlv' = [dlv EXCEPT ![d] = u] /\ Onward(dlv[d], u) /\ u.pc = "done"
  BY DoneRecord DEF Leave
<1>2. events' = events \o es /\ steps' = steps /\ history' = history
  BY DEF Leave
<1>3. history \in Envs
  BY DEF StreamInv, StreamTypes
<1> QED
  BY <1>1, <1>2, <1>3, StreamMove

LEMMA LeaveQuietly ==
  ASSUME StreamInv, NEW d \in Deliveries, NEW st, Leave(d, <<>>, st), jobs' \subseteq jobs
  PROVE  StreamInv'
<1>1. PICK es : es = <<>> /\ es \in Seq(Speech(d, dlv[d]))
  BY NothingMore
<1> QED
  BY <1>1, LeaveMove

LEMMA LeaveSaying ==
  ASSUME StreamInv, NEW d \in Deliveries, NEW kind \in {"run_failed", "run_cancelled"}, NEW st,
         Leave(d, <<Event(d, kind, 0, <<>>)>>, st), jobs' \subseteq jobs
  PROVE  StreamInv'
<1>1. kind \in LogKinds /\ kind # "step_started"
  BY DEF LogKinds
<1>2. PICK es : es = <<Event(d, kind, 0, <<>>)>>
  OBVIOUS
<1>3. es \in Seq(Speech(d, dlv[d]))
  BY <1>1, <1>2, SpokenOne
<1>4. Leave(d, es, st)
  BY <1>2, Zenon
<1> QED
  BY <1>3, <1>4, LeaveMove

LEMMA FailRunMove ==
  ASSUME StreamInv, NEW d \in Deliveries, failRun(d)
  PROVE  StreamInv'
<1>1. jobs' \subseteq jobs
  BY DEF failRun, Ack
<1>2. Leave(d, <<>>, state) \/ Leave(d, <<Event(d, "run_failed", 0, <<>>)>>, "failed")
  BY DEF failRun
<1> QED
  BY <1>1, <1>2, LeaveQuietly, LeaveSaying

LEMMA CancelledMove ==
  ASSUME StreamInv, NEW d \in Deliveries, markCancelledTx(d), jobs' \subseteq jobs
  PROVE  StreamInv'
BY LeaveSaying DEF markCancelledTx

LEMMA EndsOK ==
  ASSUME StreamInv, NEW d \in Deliveries,
         ResolveFails(d) \/ NoStep(d) \/ handleStreamError(d) \/ GiveBack(d)
  PROVE  StreamInv'
<1>1. CASE ResolveFails(d) \/ NoStep(d) \/ (handleStreamError(d) /\ failRun(d))
  BY <1>1, FailRunMove DEF ResolveFails, NoStep
<1>2. CASE handleStreamError(d) /\ ~failRun(d)
  BY <1>2, CancelledMove DEF handleStreamError, Ack
<1>3. CASE GiveBack(d)
  <2>1. PICK u : dlv' = [dlv EXCEPT ![d] = u] /\ Onward(dlv[d], u) /\ u.pc = "done"
    BY <1>3, DoneRecord DEF GiveBack
  <2> QED
    BY <1>3, <2>1, QuietMove DEF GiveBack
<1> QED
  BY <1>1, <1>2, <1>3

\* Steps a delivery may be given come after all that are committed.
LEMMA BeyondSteps ==
  ASSUME StreamInv, NEW s \in Nat, s \notin DOMAIN steps
  PROVE  \A x \in DOMAIN steps : x < s
<1> SUFFICES ASSUME NEW x \in DOMAIN steps, ~(x < s) PROVE FALSE
  OBVIOUS
<1>1. x \in Nat /\ CommittedBelow(x)
  BY DEF StreamInv, StreamTypes, StepsInOrder
<1>2. s \in 0 .. x - 1 \/ s = x
  BY <1>1
<1> QED
  BY <1>1, <1>2 DEF CommittedBelow

LEMMA BlankDelivery == NotDelivered \in DeliveryRecords /\ NotDelivered.pc = "idle"
                       /\ NotDelivered.attempt = 0 /\ NotDelivered.sawLog = 0 /\ NotDelivered.step = 0
                       /\ NotDelivered.env.msgs = <<>>
<1> DEFINE none == <<>>
           no == FALSE
           h == [msgs |-> <<>>, compacted |-> FALSE]
<1>1. none \in Seq(PieceRecords) /\ no \in Marks /\ <<>> \in Seq(Answers)
  BY DEF Marks
<1>2. h \in Envs /\ h.msgs = <<>>
  <2>1. PICK ms : ms = <<>> /\ ms \in Seq(Answers)
    BY <1>1
  <2>2. h = [msgs |-> ms, compacted |-> no]
    BY <2>1, Zenon
  <2> HIDE DEF h, no
  <2>3. h \in Envs /\ h.msgs = ms
    BY <1>1, <2>1, <2>2 DEF Envs
  <2> QED
    BY <2>1, <2>3
<1>3. NotDelivered =
        [pc |-> "idle", step |-> 0, attempt |-> 0, sawLog |-> 0, env |-> h, text |-> none,
         reason |-> none, index |-> 0, timer |-> no, model |-> 1, heard |-> none, said |-> none,
         called |-> 0, lossy |-> no]
  BY DEF NotDelivered
<1> HIDE DEF none, no, h
<1>4. NotDelivered \in DeliveryRecords /\ NotDelivered.pc = "idle" /\ NotDelivered.attempt = 0
      /\ NotDelivered.sawLog = 0 /\ NotDelivered.step = 0 /\ NotDelivered.env = h
  BY <1>1, <1>2, <1>3 DEF DeliveryRecords, StreamPcs
<1> QED
  BY <1>2, <1>4


\* Starts are finitely many.
LEMMA StartsFinite ==
  ASSUME events \in Seq(LogRecords), NEW s
  PROVE  /\ IsFiniteSet(StartsOf(s)) /\ Cardinality(StartsOf(s)) \in Nat
         /\ StartsBy(Len(events), s) = StartsOf(s)
         /\ \A n : IsFiniteSet(StartsBy(n, s)) /\ Cardinality(StartsBy(n, s)) \in Nat
<1>1. DOMAIN events = 1 .. Len(events) /\ Len(events) \in Nat
  OBVIOUS
<1>2. IsFiniteSet(1 .. Len(events))
  BY <1>1, FS_Interval
<1>3. StartsOf(s) \subseteq 1 .. Len(events)
  BY <1>1 DEF StartsOf
<1>4. IsFiniteSet(StartsOf(s))
  BY <1>2, <1>3, FS_Subset
<1>5. StartsBy(Len(events), s) = StartsOf(s)
  BY <1>1, <1>3 DEF StartsBy
<1>6. \A n : StartsBy(n, s) \subseteq StartsOf(s)
  BY DEF StartsBy
<1>7. \A n : IsFiniteSet(StartsBy(n, s))
  BY <1>4, <1>6, FS_Subset
<1> QED
  BY <1>4, <1>5, <1>7, FS_CardinalityType

LEMMA ClaimMove ==
  ASSUME StreamInv, NEW d \in Deliveries, dlv[d].pc = "idle", NEW s \in jobs, s \notin DOMAIN steps,
         NEW u, u \in DeliveryRecords, u.pc = "claimed", u.step = s,
         u.attempt = Cardinality(StartsOf(s)) + 1, u.sawLog = Len(events), u.env = history,
         dlv' = [dlv EXCEPT ![d] = u],
         events' = events, steps' = steps, jobs' = jobs, history' = history
  PROVE  StreamInv'
<1>1. /\ events \in Seq(LogRecords) /\ Len(events) \in Nat /\ s \in Nat /\ history \in Envs
      /\ history.msgs \in Seq(Answers)
  BY DEF StreamInv, StreamTypes, Envs
<1>2. /\ dlv' \in [Deliveries -> DeliveryRecords] /\ dlv'[d] = u
      /\ \A c \in Deliveries : c # d => dlv'[c] = dlv[c]
  BY DEF StreamInv, StreamTypes
<1>3. StreamTypes'
  BY <1>2 DEF StreamInv, StreamTypes
<1>4. StepsInOrder'
  BY DEF StreamInv, StepsInOrder, InOrder, OfRecord, CommittedBelow
<1>5. StartsFit'
  <2> SUFFICES ASSUME NEW i \in DOMAIN events, events[i].kind = "step_started"
               PROVE  /\ events[i].by \in Deliveries
                      /\ dlv'[events[i].by].pc \notin {"idle", "claimed"}
                      /\ dlv'[events[i].by].attempt # 0
                      /\ events[i].step = dlv'[events[i].by].step
                      /\ events[i].attempt = dlv'[events[i].by].attempt
                      /\ dlv'[events[i].by].sawLog < i
    BY DEF StartsFit
  <2>1. /\ events[i].by \in Deliveries /\ dlv[events[i].by].pc \notin {"idle", "claimed"}
        /\ dlv[events[i].by].attempt # 0
        /\ events[i].step = dlv[events[i].by].step
        /\ events[i].attempt = dlv[events[i].by].attempt /\ dlv[events[i].by].sawLog < i
    BY DEF StreamInv, StartsFit
  <2>2. events[i].by # d
    BY <2>1
  <2> QED
    BY <1>2, <2>1, <2>2
<1>6. ASSUME NEW c \in Deliveries, c # d
      PROVE  (DeliveryFits(dlv[c]) /\ Attempted(dlv[c]) /\ ClaimedFits(dlv[c]))'
  BY <1>2, <1>6, DeliveryTypes
     DEF DeliveryFits, CommittedBelow, InOrder, OfRecord, Attempted, StartsBy, StartsOf, ClaimedFits
<1>7. DeliveryFits(dlv[d])'
  <2>1. CommittedBelow(s) /\ InOrder(history.msgs) /\ OfRecord(history.msgs)
    BY DEF StreamInv, StepsInOrder
  <2>2. \A i \in DOMAIN history.msgs : history.msgs[i].step < s
    BY <1>1, <2>1, BeyondSteps DEF OfRecord
  <2> QED
    BY <1>2, <2>1, <2>2 DEF DeliveryFits, CommittedBelow, InOrder, OfRecord
<1>8. Attempted(dlv[d])' /\ ClaimedFits(dlv[d])'
  <2>1. Cardinality(StartsOf(s)) \in Nat /\ StartsBy(Len(events), s) = StartsOf(s)
    BY <1>1, StartsFinite
  <2>2. u.attempt = Cardinality(StartsBy(u.sawLog, u.step)) + 1 /\ u.attempt # 0
    BY <2>1
  <2>3. Attempted(u) /\ ClaimedFits(u)
    BY <1>1, <2>2 DEF Attempted, ClaimedFits
  <2> QED
    BY <1>2, <2>3 DEF Attempted, StartsBy, StartsOf, ClaimedFits
<1> QED
  BY <1>3, <1>4, <1>5, <1>6, <1>7, <1>8 DEF StreamInv

LEMMA ClaimOK ==
  ASSUME StreamInv, NEW d \in Deliveries, claim(d)
  PROVE  StreamInv'
<1>1. dlv[d].pc = "idle"
  BY DEF claim
<1>2. ASSUME NEW s \in jobs, dlv' = [dlv EXCEPT ![d].pc = "done"], jobs' = jobs \ {s},
             UNCHANGED <<state, cancel, history, steps, events, trouble>>
      PROVE  StreamInv'
  <2>1. PICK u : dlv' = [dlv EXCEPT ![d] = u] /\ Onward(dlv[d], u) /\ u.pc = "done"
    BY <1>2, DoneRecord
  <2>2. PICK none : none = <<>> /\ none \in Seq(Speech(d, dlv[d]))
    BY NothingMore
  <2>3. events' = events \o none /\ history \in Envs /\ history' = history /\ steps' = steps
        /\ jobs' \subseteq jobs
    BY <1>2, <2>2 DEF StreamInv, StreamTypes
  <2> QED
    BY <2>1, <2>2, <2>3, StreamMove
<1>3. ASSUME NEW s \in jobs, markCancelledTx(d), jobs' = jobs \ {s}
      PROVE  StreamInv'
  BY <1>3, CancelledMove
<1>4. ASSUME NEW s \in jobs, s \notin DOMAIN steps,
             dlv' = [dlv EXCEPT ![d] = [NotDelivered EXCEPT
                            !.pc = "claimed", !.step = s, !.attempt = countAttempts(s) + 1,
                            !.sawLog = Len(events), !.env = history]],
             UNCHANGED <<cancel, history, steps, events, jobs, trouble>>
      PROVE  StreamInv'
  <2>1. PICK t : t = NotDelivered
    OBVIOUS
  <2>2. PICK a : a = countAttempts(s) + 1
    OBVIOUS
  <2>3. PICK n : n = Len(events)
    OBVIOUS
  <2>4. PICK u : u = [t EXCEPT !.pc = "claimed", !.step = s, !.attempt = a, !.sawLog = n, !.env = history]
    OBVIOUS
  <2>5. dlv' = [dlv EXCEPT ![d] = u]
    BY <1>4, <2>1, <2>2, <2>3, <2>4, Zenon
  <2>6. /\ a = Cardinality(StartsOf(s)) + 1 /\ a \in Nat /\ n \in Nat /\ s \in Nat /\ history \in Envs
        /\ t \in DeliveryRecords
    <3>1. events \in Seq(LogRecords) /\ history \in Envs /\ s \in Nat
      BY DEF StreamInv, StreamTypes
    <3>2. Cardinality(StartsOf(s)) \in Nat
      BY <3>1, StartsFinite
    <3> QED
      BY <2>1, <2>2, <2>3, <3>1, <3>2, BlankDelivery DEF countAttempts
  <2>7. /\ u \in DeliveryRecords /\ u.pc = "claimed" /\ u.step = s /\ u.attempt = a /\ u.sawLog = n
        /\ u.env = history
    <3>1. PICK h : h = history
      OBVIOUS
    <3>2. u = [t EXCEPT !.pc = "claimed", !.step = s, !.attempt = a, !.sawLog = n, !.env = h]
      BY <2>4, <3>1, Zenon
    <3>3. h \in Envs /\ t \in DeliveryRecords /\ s \in Nat /\ a \in Nat /\ n \in Nat
      BY <2>6, <3>1
    <3>4. /\ u \in DeliveryRecords /\ u.pc = "claimed" /\ u.step = s /\ u.attempt = a /\ u.sawLog = n
          /\ u.env = h
      BY <3>2, <3>3 DEF DeliveryRecords, StreamPcs
    <3> QED
      BY <3>1, <3>4
  <2>8. u.attempt = Cardinality(StartsOf(s)) + 1 /\ u.sawLog = Len(events)
    BY <2>3, <2>6, <2>7
  <2>9. /\ events' = events /\ steps' = steps /\ jobs' = jobs /\ history' = history
        /\ s \notin DOMAIN steps
    BY <1>4
  <2> QED
    BY <1>1, <2>5, <2>7, <2>8, <2>9, ClaimMove
<1>5. PICK s \in jobs :
         IF state \notin {"pending", "running"} \/ (~cancel /\ s \in DOMAIN steps)
         THEN /\ dlv' = [dlv EXCEPT ![d].pc = "done"] /\ jobs' = jobs \ {s}
              /\ UNCHANGED <<state, cancel, history, steps, events, trouble>>
         ELSE IF cancel THEN markCancelledTx(d) /\ jobs' = jobs \ {s} /\ UNCHANGED trouble
         ELSE /\ state' = "running"
              /\ dlv' = [dlv EXCEPT ![d] = [NotDelivered EXCEPT
                            !.pc = "claimed", !.step = s, !.attempt = countAttempts(s) + 1,
                            !.sawLog = Len(events), !.env = history]]
              /\ UNCHANGED <<cancel, history, steps, events, jobs, trouble>>
  BY Zenon DEF claim
<1>6. CASE state \notin {"pending", "running"} \/ (~cancel /\ s \in DOMAIN steps)
  BY <1>2, <1>5, <1>6, Zenon
<1>7. CASE ~(state \notin {"pending", "running"} \/ (~cancel /\ s \in DOMAIN steps)) /\ cancel
  BY <1>3, <1>5, <1>7, Zenon
<1>8. CASE ~(state \notin {"pending", "running"} \/ (~cancel /\ s \in DOMAIN steps)) /\ ~cancel
  BY <1>4, <1>5, <1>8, Zenon
<1> QED
  BY <1>6, <1>7, <1>8


\* An answer after those of earlier steps.
LEMMA AnswerAdded ==
  ASSUME NEW ms \in Seq(Answers), NEW a \in Answers, InOrder(ms),
         \A i \in DOMAIN ms : ms[i].step < a.step
  PROVE  /\ Append(ms, a) \in Seq(Answers) /\ InOrder(Append(ms, a))
         /\ \A i \in DOMAIN Append(ms, a) : Append(ms, a)[i] = a \/ (i \in DOMAIN ms /\ Append(ms, a)[i] = ms[i])
<1>1. /\ Len(ms) \in Nat /\ DOMAIN ms = 1 .. Len(ms) /\ DOMAIN Append(ms, a) = 1 .. Len(ms) + 1
      /\ Append(ms, a)[Len(ms) + 1] = a /\ \A i \in 1 .. Len(ms) : Append(ms, a)[i] = ms[i]
      /\ Append(ms, a) \in Seq(Answers)
  OBVIOUS
<1>2. ASSUME NEW i \in 1 .. Len(ms) + 1, NEW j \in 1 .. Len(ms) + 1, i < j
      PROVE  Append(ms, a)[i].step < Append(ms, a)[j].step
  <2>1. i \in 1 .. Len(ms) /\ (j \in 1 .. Len(ms) \/ j = Len(ms) + 1)
    BY <1>1, <1>2
  <2> QED
    BY <1>1, <1>2, <2>1 DEF InOrder
<1>3. InOrder(Append(ms, a))
  BY <1>1, <1>2 DEF InOrder
<1>4. \A i \in 1 .. Len(ms) + 1 : i = Len(ms) + 1 \/ i \in 1 .. Len(ms)
  BY <1>1
<1> QED
  BY <1>1, <1>3, <1>4

LEMMA InsertedStep ==
  ASSUME NEW s, NEW d, s \notin DOMAIN steps, steps' = InsertStep(s, d)
  PROVE  /\ DOMAIN steps' = DOMAIN steps \cup {s} /\ steps'[s].by = d
         /\ \A x \in DOMAIN steps : steps'[x] = steps[x]
BY DEF InsertStep

LEMMA EnvFields ==
  ASSUME NEW e \in Envs, NEW ms \in Seq(Answers)
  PROVE  [e EXCEPT !.msgs = ms] \in Envs /\ [e EXCEPT !.msgs = ms].msgs = ms
BY DEF Envs

\* History with the answer of delivery d.
WithAnswer(d, s) ==
    [dlv[d].env EXCEPT !.msgs = Append(@, [step |-> s, by |-> d, said |-> dlv[d].said])]

LEMMA AnswerKept ==
  ASSUME StreamInv, NEW d \in Deliveries, NEW s, s = dlv[d].step, NEW h, h = WithAnswer(d, s)
  PROVE  \E a \in Answers : /\ a.step = s /\ a.by = d
                            /\ h \in Envs /\ h.msgs = Append(dlv[d].env.msgs, a)
<1>1. PICK e : e = dlv[d].env
  OBVIOUS
<1>2. PICK said : said = dlv[d].said
  OBVIOUS
<1>3. s \in Nat /\ e \in Envs /\ e.msgs \in Seq(Answers) /\ said \in Seq(PieceRecords)
  BY <1>1, <1>2, DeliveryTypes DEF DeliveryRecords, Envs
<1>4. PICK a : a = [step |-> s, by |-> d, said |-> said]
  OBVIOUS
<1>5. a \in Answers /\ a.step = s /\ a.by = d
  BY <1>3, <1>4 DEF Answers
<1>6. PICK ns : ns = Append(e.msgs, a)
  OBVIOUS
<1>7. ns \in Seq(Answers)
  BY <1>3, <1>5, <1>6
<1>8. h = [e EXCEPT !.msgs = ns]
  BY <1>1, <1>2, <1>4, <1>6, Zenon DEF WithAnswer
<1>9. [e EXCEPT !.msgs = ns] \in Envs /\ [e EXCEPT !.msgs = ns].msgs = ns
  BY <1>3, <1>7, EnvFields
<1>10. h \in Envs /\ h.msgs = Append(dlv[d].env.msgs, a)
  BY <1>1, <1>6, <1>8, <1>9, Zenon
<1> QED
  BY <1>5, <1>10, Zenon

\* The commit of step s: run_steps, history and the next job.
LEMMA CommitMove ==
  ASSUME StreamInv, NEW d \in Deliveries, NEW s, s = dlv[d].step, s \notin DOMAIN steps,
         steps' = InsertStep(s, d), jobs' \subseteq jobs \cup {s + 1},
         NEW a \in Answers, a.step = s, a.by = d, history' \in Envs,
         history'.msgs = Append(dlv[d].env.msgs, a),
         NEW u, dlv' = [dlv EXCEPT ![d] = u], Onward(dlv[d], u), u.pc = "done",
         NEW kept \in Seq(Speech(d, dlv[d])), events' = events \o kept
  PROVE  StreamInv'
<1>1. /\ events' \in Seq(LogRecords) /\ dlv' \in [Deliveries -> DeliveryRecords] /\ StartsFit'
      /\ \A c \in Deliveries :
           /\ dlv'[c].step = dlv[c].step /\ dlv'[c].env.msgs = dlv[c].env.msgs
           /\ (Attempted(dlv[c]) /\ ClaimedFits(dlv[c]))'
  BY StartsMove
<1>2. /\ s \in Nat /\ dlv[d].env \in Envs /\ dlv[d].env.msgs \in Seq(Answers)
      /\ dlv[d].said \in Seq(PieceRecords)
  BY DeliveryTypes DEF DeliveryRecords, Envs
<1>3. /\ DOMAIN steps' = DOMAIN steps \cup {s} /\ steps'[s].by = d
      /\ \A x \in DOMAIN steps : steps'[x] = steps[x]
  BY InsertedStep
<1>4. PICK ms : ms = dlv[d].env.msgs
  OBVIOUS
<1>7. ms \in Seq(Answers) /\ InOrder(ms) /\ OfRecord(ms) /\ \A i \in DOMAIN ms : ms[i].step < s
  BY <1>2, <1>4, DeliveryTypes DEF DeliveryFits
<1>8. PICK ns : ns = Append(ms, a)
  OBVIOUS
<1>9. /\ ns \in Seq(Answers) /\ InOrder(ns)
      /\ \A i \in DOMAIN ns : ns[i] = a \/ (i \in DOMAIN ms /\ ns[i] = ms[i])
  BY <1>7, <1>8, AnswerAdded
<1>10. history'.msgs = ns
  BY <1>4, <1>8
<1>11. \A i \in DOMAIN ns : ns[i].step \in DOMAIN steps' /\ steps'[ns[i].step].by = ns[i].by
  BY <1>3, <1>7, <1>9 DEF OfRecord
<1>12. CommittedBelow(s) /\ \A x \in DOMAIN steps \cup jobs : x \in Nat /\ CommittedBelow(x)
  BY DeliveryTypes DEF DeliveryFits, StreamInv, StreamTypes, StepsInOrder
<1>13. \A x \in Nat : CommittedBelow(x) => CommittedBelow(x)'
  BY <1>3 DEF CommittedBelow
<1>14. CommittedBelow(s + 1)'
  <2>1. \A i \in 0 .. (s + 1) - 1 : i \in 0 .. s - 1 \/ i = s
    BY <1>2
  <2> QED
    BY <1>3, <1>12, <2>1 DEF CommittedBelow
<1>15. StreamTypes'
  BY <1>1, <1>2, <1>3, <1>10, <1>12 DEF StreamTypes
<1>16. StepsInOrder'
  <2>1. \A x \in DOMAIN steps' : CommittedBelow(x)'
    BY <1>2, <1>3, <1>12, <1>13
  <2>2. \A x \in jobs' : CommittedBelow(x)'
    BY <1>12, <1>13, <1>14
  <2>3. InOrder(history.msgs)' /\ OfRecord(history.msgs)'
    BY <1>9, <1>10, <1>11 DEF InOrder, OfRecord
  <2> QED
    BY <2>1, <2>2, <2>3 DEF StepsInOrder, CommittedBelow
<1>17. ASSUME NEW c \in Deliveries
       PROVE  DeliveryFits(dlv[c])'
  <2>1. DeliveryFits(dlv[c]) /\ dlv[c].step \in Nat
    BY DeliveryTypes DEF DeliveryRecords
  <2>2. CommittedBelow(dlv[c].step)'
    BY <1>1, <1>3, <2>1 DEF DeliveryFits, CommittedBelow
  <2>3. OfRecord(dlv[c].env.msgs)'
    BY <1>1, <1>3, <2>1 DEF DeliveryFits, OfRecord
  <2> QED
    BY <1>1, <2>1, <2>2, <2>3 DEF DeliveryFits, InOrder
<1> QED
  BY <1>1, <1>15, <1>16, <1>17 DEF StreamInv

LEMMA SpokenTwo ==
  ASSUME StreamInv, NEW d \in Deliveries, NEW kind \in {"run_awaiting", "run_completed"}
  PROVE  /\ <<Event(d, "step_finished", 0, <<>>), Event(d, kind, 0, <<>>)>> \in Seq(Speech(d, dlv[d]))
         /\ <<Event(d, "step_finished", 0, <<>>)>> \in Seq(Speech(d, dlv[d]))
<1>1. PICK none : none = <<>> /\ none \in Seq(PieceRecords)
  BY NothingMore
<1>2. none \in Seq(PieceRecords)
  BY <1>1
<1>3. kind \in LogKinds /\ kind # "step_started"
  BY DEF LogKinds
<1>4. PICK e, f : e = Event(d, "step_finished", 0, none) /\ f = Event(d, kind, 0, none)
  OBVIOUS
<1>5. e \in Speech(d, dlv[d]) /\ f \in Speech(d, dlv[d])
  BY <1>2, <1>3, <1>4, SpokenEvent DEF LogKinds
<1>6. <<e, f>> \in Seq(Speech(d, dlv[d])) /\ <<e>> \in Seq(Speech(d, dlv[d]))
  BY <1>5
<1> QED
  BY <1>1, <1>4, <1>6, Zenon

LEMMA CommitOK ==
  ASSUME StreamInv, NEW d \in Deliveries, commitOutcome(d)
  PROVE  StreamInv'
<1>1. CASE Leave(d, <<>>, state) /\ Ack(d)
  BY <1>1, LeaveQuietly DEF Ack
<1>2. CASE markCancelledTx(d) /\ Ack(d)
  BY <1>2, CancelledMove DEF Ack
<1>3. ASSUME NEW s, s = dlv[d].step, s \notin DOMAIN steps, steps' = InsertStep(s, d),
             history' = WithAnswer(d, s),
             dlv' = [dlv EXCEPT ![d].pc = "done"],
             NEW kept \in Seq(Speech(d, dlv[d])), events' = events \o kept,
             jobs' \subseteq jobs \cup {s + 1}
      PROVE  StreamInv'
  <2>1. PICK u : dlv' = [dlv EXCEPT ![d] = u] /\ Onward(dlv[d], u) /\ u.pc = "done"
    BY <1>3, DoneRecord
  <2>2. PICK h : h = history'
    OBVIOUS
  <2>3. h = WithAnswer(d, s)
    BY <1>3, <2>2, Zenon
  <2>4. PICK a \in Answers : /\ a.step = s /\ a.by = d
                            /\ h \in Envs /\ h.msgs = Append(dlv[d].env.msgs, a)
    BY <1>3, <2>3, AnswerKept
  <2>5. history' \in Envs /\ history'.msgs = Append(dlv[d].env.msgs, a)
    BY <2>2, <2>4
  <2>6. s = dlv[d].step /\ s \notin DOMAIN steps /\ steps' = InsertStep(s, d)
        /\ events' = events \o kept /\ jobs' \subseteq jobs \cup {s + 1}
    BY <1>3
  <2> QED
    BY <2>1, <2>4, <2>5, <2>6, CommitMove
<1>4. PICK s : s = dlv[d].step
  OBVIOUS
<1>5. CASE ~(state # "running" \/ (~cancel /\ Duplicate(dlv[d].step))) /\ ~cancel
  <2>1. s \notin DOMAIN steps
    BY <1>4, <1>5 DEF Duplicate
  <2>2. /\ steps' = InsertStep(s, d)
        /\ history' = WithAnswer(d, s)
        /\ dlv' = [dlv EXCEPT ![d].pc = "done"]
    BY <1>4, <1>5, Zenon DEF commitOutcome, WithAnswer
  <2>3. PICK one : one = <<Event(d, "step_finished", 0, <<>>)>>
    OBVIOUS
  <2>4. PICK waits : waits = <<Event(d, "step_finished", 0, <<>>), Event(d, "run_awaiting", 0, <<>>)>>
    OBVIOUS
  <2>5. PICK ends : ends = <<Event(d, "step_finished", 0, <<>>), Event(d, "run_completed", 0, <<>>)>>
    OBVIOUS
  <2>6. \/ events' = Append(events, Event(d, "step_finished", 0, <<>>)) /\ jobs' = (jobs \ {s}) \cup {s + 1}
        \/ events' = events \o waits /\ jobs' = jobs \ {s}
        \/ events' = events \o ends /\ jobs' = jobs \ {s}
    BY <1>4, <1>5, <2>4, <2>5, Zenon DEF commitOutcome
  <2>7. one \in Seq(Speech(d, dlv[d])) /\ waits \in Seq(Speech(d, dlv[d])) /\ ends \in Seq(Speech(d, dlv[d]))
    BY <2>3, <2>4, <2>5, SpokenTwo, Zenon
  <2>8. events' = Append(events, Event(d, "step_finished", 0, <<>>)) => events' = events \o one
    <3>1. PICK e : e = Event(d, "step_finished", 0, <<>>)
      OBVIOUS
    <3>2. events \in Seq(LogRecords) /\ one = <<e>>
      BY <2>3, <3>1 DEF StreamInv, StreamTypes
    <3>3. e \in LogRecords
      BY <2>7, <3>2 DEF Speech
    <3>4. Append(events, e) = events \o <<e>>
      BY <3>2, <3>3
    <3> QED
      BY <3>1, <3>2, <3>4, Zenon
  <2>9. PICK kept \in Seq(Speech(d, dlv[d])) : events' = events \o kept
    BY <2>6, <2>7, <2>8
  <2>10. jobs' \subseteq jobs \cup {s + 1}
    BY <2>6
  <2> QED
    BY <1>3, <1>4, <2>1, <2>2, <2>9, <2>10, Zenon
<1> QED
  BY <1>1, <1>2, <1>5 DEF commitOutcome


-----------------------------------------------------------------------------
(***************************************************************************)
(* The theorem.                                                            *)
(***************************************************************************)

LEMMA StreamStarts ==
  ASSUME StreamInit
  PROVE  StreamInv
<1>1. PICK none : none = <<>> /\ none \in Seq(Answers)
  <2>1. <<>> \in Seq(Answers)
    OBVIOUS
  <2> QED
    BY <2>1, Zenon
<1>2. history \in Envs /\ history.msgs = none
  <2>1. PICK no : no = FALSE
    BY Zenon
  <2>2. no \in Marks
    BY <2>1, Zenon DEF Marks
  <2>3. history = [msgs |-> none, compacted |-> no]
    BY <1>1, <2>1, Zenon DEF StreamInit
  <2> QED
    BY <1>1, <2>2, <2>3 DEF Envs
<1>3. /\ dlv = [d \in Deliveries |-> NotDelivered] /\ jobs = {0} /\ events = <<>> /\ steps = <<>>
  BY DEF StreamInit
<1>4. /\ events \in Seq(LogRecords) /\ DOMAIN events = {} /\ Len(events) = 0 /\ DOMAIN steps = {}
  BY <1>3
<1>5. /\ dlv \in [Deliveries -> DeliveryRecords]
      /\ \A d \in Deliveries : dlv[d].pc = "idle" /\ dlv[d].attempt = 0 /\ dlv[d].sawLog = 0
                               /\ dlv[d].step = 0 /\ dlv[d].env.msgs = none
  BY <1>1, <1>3, BlankDelivery
<1>6. DOMAIN none = {}
  BY <1>1
<1>7. StreamTypes
  BY <1>2, <1>3, <1>4, <1>5 DEF StreamTypes
<1>8. StepsInOrder
  BY <1>2, <1>3, <1>4, <1>6 DEF StepsInOrder, CommittedBelow, InOrder, OfRecord
<1>9. StartsFit
  BY <1>4 DEF StartsFit
<1>10. \A d \in Deliveries : DeliveryFits(dlv[d]) /\ Attempted(dlv[d]) /\ ClaimedFits(dlv[d])
  BY <1>4, <1>5, <1>6 DEF DeliveryFits, Attempted, ClaimedFits, CommittedBelow, InOrder, OfRecord
<1> QED
  BY <1>7, <1>8, <1>9, <1>10 DEF StreamInv

LEMMA StreamSame ==
  ASSUME StreamInv, UNCHANGED <<history, steps, events, jobs, dlv>>
  PROVE  StreamInv'
BY DEF StreamInv, StreamTypes, StepsInOrder, StartsFit, DeliveryFits, Attempted, ClaimedFits,
       CommittedBelow, InOrder, OfRecord, StartsBy, StartsOf

LEMMA DeliverOK ==
  ASSUME StreamInv, NEW d \in Deliveries, Deliver(d)
  PROVE  StreamInv'
<1>1. CASE claim(d) \/ Announce(d) \/ Compact(d) \/ Timer(d)
  BY <1>1, ClaimOK, AnnounceOK, CompactOK, TimerOK
<1>2. CASE OnTextDelta(d) \/ OnReasoningDelta(d) \/ OnToolCall(d) \/ OnToolResult(d)
  BY <1>2, OnTextDeltaOK, OnReasoningDeltaOK, OnToolCallOK, OnToolResultOK
<1>3. CASE StreamEnds(d) \/ pollCancel(d) \/ \E retryable \in BOOLEAN : StreamFails(d, retryable)
  BY <1>3, StreamStopsOK, StreamFailsOK
<1>4. CASE ResolveFails(d) \/ NoStep(d) \/ handleStreamError(d) \/ GiveBack(d)
  BY <1>4, EndsOK
<1>5. CASE commitOutcome(d)
  BY <1>5, CommitOK
<1> QED
  BY <1>1, <1>2, <1>3, <1>4, <1>5 DEF Deliver

LEMMA StreamStays ==
  ASSUME StreamInv, [StreamNext]_streamVars
  PROVE  StreamInv'
<1>1. CASE RequestCancel \/ UNCHANGED streamVars
  BY <1>1, StreamSame DEF RequestCancel, streamVars
<1>2. CASE \E d \in Deliveries : Deliver(d)
  BY <1>2, DeliverOK
<1> QED
  BY <1>1, <1>2 DEF StreamNext

\* Of two starts of a step, the one whose delivery had seen the other counts it.
LEMMA LaterAttempt ==
  ASSUME StreamInv, NEW i \in DOMAIN events, NEW j \in DOMAIN events,
         events[i].kind = "step_started", events[j].kind = "step_started",
         events[i].step = events[j].step, dlv[events[j].by].sawLog >= i
  PROVE  events[j].attempt > events[i].attempt
<1>1. PICK s : s = events[i].step
  OBVIOUS
<1>2. PICK n : n = dlv[events[i].by].sawLog
  OBVIOUS
<1>3. PICK m : m = dlv[events[j].by].sawLog
  OBVIOUS
<1>4. /\ events \in Seq(LogRecords) /\ i \in Nat /\ events[i].by \in Deliveries /\ events[j].by \in Deliveries
      /\ n < i /\ i <= m /\ m < j
      /\ events[i].attempt = dlv[events[i].by].attempt /\ events[j].attempt = dlv[events[j].by].attempt
      /\ dlv[events[i].by].step = s /\ dlv[events[j].by].step = s
      /\ dlv[events[i].by].attempt # 0 /\ dlv[events[j].by].attempt # 0
  BY <1>1, <1>2, <1>3 DEF StreamInv, StreamTypes, StartsFit
<1>5. n \in Nat /\ m \in Nat
  BY <1>2, <1>3, <1>4, DeliveryTypes DEF DeliveryRecords
<1>6. /\ events[i].attempt = Cardinality(StartsBy(n, s)) + 1
      /\ events[j].attempt = Cardinality(StartsBy(m, s)) + 1
  BY <1>2, <1>3, <1>4, DeliveryTypes DEF Attempted
<1>7. i \in StartsOf(s)
  BY <1>1 DEF StartsOf
<1>8. i \notin StartsBy(n, s) /\ StartsBy(n, s) \cup {i} \subseteq StartsBy(m, s)
  <2>1. StartsBy(n, s) \subseteq StartsBy(m, s)
    <3> SUFFICES ASSUME NEW k \in StartsOf(s), k <= n PROVE k <= m
      BY DEF StartsBy
    <3>1. k \in Nat
      BY <1>4 DEF StartsOf
    <3> QED
      BY <1>4, <1>5, <3>1
  <2> QED
    BY <1>4, <1>5, <1>7, <2>1 DEF StartsBy
<1>9. /\ IsFiniteSet(StartsBy(n, s)) /\ Cardinality(StartsBy(n, s)) \in Nat
      /\ IsFiniteSet(StartsBy(m, s)) /\ Cardinality(StartsBy(m, s)) \in Nat
  BY <1>4, StartsFinite
<1>10. Cardinality(StartsBy(n, s) \cup {i}) = Cardinality(StartsBy(n, s)) + 1
  BY <1>8, <1>9, FS_AddElement
<1>11. Cardinality(StartsBy(n, s) \cup {i}) <= Cardinality(StartsBy(m, s))
  BY <1>8, <1>9, FS_Subset
<1> QED
  BY <1>6, <1>9, <1>10, <1>11

LEMMA ApartFromInv ==
  ASSUME StreamInv
  PROVE  DeliveriesApart
<1>1. AttemptsApart
  BY LaterAttempt DEF AttemptsApart
<1>2. HistoryIsOfRecord
  BY DEF StreamInv, StepsInOrder, InOrder, OfRecord, HistoryIsOfRecord
<1> QED
  BY <1>1, <1>2 DEF DeliveriesApart

(* However many deliveries of a step overlap, die and lose appends         *)
(* (claimStep, countAttempts, commitOutcome): a delivery that claimed      *)
(* after another's step_started was in the log has a later attempt, and    *)
(* history holds one answer per committed step, in order, the one of the   *)
(* delivery that run_steps names.                                          *)
THEOREM DeliveriesApartHolds == StreamSpec => []DeliveriesApart
<1>1. StreamInit => StreamInv
  BY StreamStarts
<1>2. StreamInv /\ [StreamNext]_streamVars => StreamInv'
  BY StreamStays
<1>3. StreamInv => DeliveriesApart
  BY ApartFromInv
<1> QED
  BY <1>1, <1>2, <1>3, PTL DEF StreamSpec
=============================================================================
