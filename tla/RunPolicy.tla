------------------------------ MODULE RunPolicy ------------------------------
(***************************************************************************)
(* The policy a run is created with and how it narrows along a spawn tree: *)
(* AllowsTool, AllowsResourceKind and IsSubset (policy.go), the policy the *)
(* API reads (policyFromProto in http/convert.go), the policy a child gets *)
(* (resolvePolicy and spawnChild in loop/spawn.go) and the tools a step    *)
(* offers under it (loop/step.go, loop/spawn.go, loop/resourcetools.go).   *)
(*                                                                         *)
(* The spawn transaction and its races are AgentLoop's subject; here one   *)
(* spawn is one action and what varies is the policies.                    *)
(***************************************************************************)
EXTENDS Integers, FiniteSets

CONSTANTS
  Runs,        \* run ids
  Roots,       \* the ids the API may use; children use the others
  NoRun,       \* parent of a run the API started
  Tools,       \* tool names, "spawn_agent" among them
  Kinds,       \* resource kinds
  Star,        \* the name "*"
  DefaultCap,  \* MaxChildren of DefaultRunPolicy
  Requests     \* the policies callers and models ask for

PolicyType == [allow : SUBSET (Tools \cup {Star}), deny : SUBSET (Tools \cup {Star}),
               kinds : SUBSET (Kinds \cup {Star}), max : Nat, inherit : BOOLEAN]

ASSUME PolicyAssumption ==
  /\ NoRun \notin Runs
  /\ Roots \subseteq Runs
  /\ Star \notin Tools
  /\ Star \notin Kinds
  /\ "spawn_agent" \in Tools
  /\ DefaultCap \in Nat
  /\ Requests \subseteq PolicyType

VARIABLES
  policy,   \* agent_runs.policy
  asked,    \* the policy the run was requested with
  parent,   \* agent_runs.parent_run_id
  above,    \* every run on the path to the root, for the properties
  live,     \* the runs that exist
  used,     \* the tools each run has executed
  obtained  \* the resource kinds each run has requested

vars == <<policy, asked, parent, above, live, used, obtained>>

TypeOK ==
  /\ policy \in [Runs -> PolicyType]
  /\ asked \in [Runs -> PolicyType]
  /\ parent \in [Runs -> Runs \cup {NoRun}]
  /\ above \in [Runs -> SUBSET Runs]
  /\ live \in SUBSET Runs
  /\ used \in [Runs -> SUBSET Tools]
  /\ obtained \in [Runs -> SUBSET Kinds]

-----------------------------------------------------------------------------
(***************************************************************************)
(* policy.go                                                               *)
(***************************************************************************)

DefaultRunPolicy == [allow |-> {Star}, deny |-> {}, kinds |-> {Star},
                     max |-> DefaultCap, inherit |-> FALSE]

AllowsTool(p, t) == /\ t \notin p.deny /\ Star \notin p.deny
                    /\ Star \in p.allow \/ t \in p.allow

AllowsResourceKind(p, k) == Star \in p.kinds \/ k \in p.kinds

AllowHasStar(p) == Star \notin p.deny /\ Star \in p.allow

EffectiveAllow(p) == IF Star \in p.deny THEN {}
                     ELSE IF Star \in p.allow THEN {Star}
                     ELSE p.allow \ p.deny

KindsSubset(child, par) == \/ child = {}
                           \/ Star \in par
                           \/ Star \notin child /\ child \subseteq par

\* Fault variant: a child with "*" is not asked to repeat its parent's denies.
IsSubsetNoDeny(p, par) ==
  /\ p.max <= par.max
  /\ AllowHasStar(p) => AllowHasStar(par)
  /\ ~AllowHasStar(p) => \A t \in EffectiveAllow(p) :
                           /\ t \notin par.deny
                           /\ AllowHasStar(par) \/ t \in EffectiveAllow(par)
  /\ KindsSubset(p.kinds, par.kinds)

IsSubset(p, par) ==
  /\ p.max <= par.max
  /\ IF AllowHasStar(p)
     THEN /\ AllowHasStar(par)
          /\ \A d \in par.deny \ {Star} : d \in p.deny \/ Star \in p.deny
     ELSE \A t \in EffectiveAllow(p) \ {Star} :
            /\ t \notin par.deny
            /\ AllowHasStar(par) \/ t \in EffectiveAllow(par)
  /\ KindsSubset(p.kinds, par.kinds)

-----------------------------------------------------------------------------
(***************************************************************************)
(* Where policies come from and what they gate                             *)
(***************************************************************************)

\* policyFromProto: a policy with tools and no cap gets the default cap.
PolicyFromProto(g) ==
  IF g.allow # {} /\ g.max = 0 THEN [g EXCEPT !.max = DefaultCap] ELSE g

\* childSpec: a whole policy, a tool list, or neither.
Specs == {[form |-> "policy", policy |-> q] : q \in Requests}
           \cup {[form |-> "tools", policy |-> q] : q \in Requests}
           \cup {[form |-> "none", policy |-> q] : q \in {DefaultRunPolicy}}

\* resolvePolicy, before its subset check.
RequestedPolicy(spec, par) ==
  IF par.inherit \/ spec.form = "none" THEN par
  ELSE IF spec.form = "policy" THEN spec.policy
  ELSE [par EXCEPT !.allow = spec.policy.allow]

PolicyAccepted(spec, par) == par.inherit \/ IsSubset(RequestedPolicy(spec, par), par)

\* The tools a step is given.  The wait tool comes with the spawn tool, and the
\* cohort tool needs both names.
Offered(p) ==
  {t \in Tools : /\ t # "wait_for_agents" => AllowsTool(p, t)
                 /\ t \in {"wait_for_agents", "run_agent_cohort"}
                      => AllowsTool(p, "spawn_agent")}

ChildrenOf(r) == {c \in live : parent[c] = r}

-----------------------------------------------------------------------------

Init ==
  /\ policy = [r \in Runs |-> DefaultRunPolicy]
  /\ asked = [r \in Runs |-> DefaultRunPolicy]
  /\ parent = [r \in Runs |-> NoRun]
  /\ above = [r \in Runs |-> {}]
  /\ live = {}
  /\ used = [r \in Runs |-> {}]
  /\ obtained = [r \in Runs |-> {}]

\* StartRun with an explicit policy, or with none.
StartRun(r, g) ==
  /\ r \in Roots \ live
  /\ live' = live \cup {r}
  /\ policy' = [policy EXCEPT ![r] = PolicyFromProto(g)]
  /\ asked' = [asked EXCEPT ![r] = g]
  /\ UNCHANGED <<parent, above, used, obtained>>

StartRunDefault(r) ==
  /\ r \in Roots \ live
  /\ live' = live \cup {r}
  /\ policy' = [policy EXCEPT ![r] = DefaultRunPolicy]
  /\ asked' = [asked EXCEPT ![r] = DefaultRunPolicy]
  /\ UNCHANGED <<parent, above, used, obtained>>

SpawnChild(r, c, spec) ==
  /\ r \in live
  /\ c \in Runs \ (live \cup Roots)
  /\ "spawn_agent" \in Offered(policy[r])
  /\ PolicyAccepted(spec, policy[r])
  /\ policy[r].max > 0
  /\ Cardinality(ChildrenOf(r)) < policy[r].max
  /\ live' = live \cup {c}
  /\ policy' = [policy EXCEPT ![c] = RequestedPolicy(spec, policy[r])]
  /\ asked' = [asked EXCEPT ![c] = RequestedPolicy(spec, policy[r])]
  /\ parent' = [parent EXCEPT ![c] = r]
  /\ above' = [above EXCEPT ![c] = above[r] \cup {r}]
  /\ used' = [used EXCEPT ![r] = @ \cup {"spawn_agent"}]
  /\ UNCHANGED obtained

\* Any offered tool other than the two with effects modelled here; every other
\* canonical name is a denial stub.
InvokeTool(r, t) ==
  /\ r \in live
  /\ t \in Offered(policy[r]) \ {"spawn_agent", "provision_resource"}
  /\ used' = [used EXCEPT ![r] = @ \cup {t}]
  /\ UNCHANGED <<policy, asked, parent, above, live, obtained>>

ProvisionResource(r, k) ==
  /\ r \in live
  /\ "provision_resource" \in Offered(policy[r])
  /\ AllowsResourceKind(policy[r], k)
  /\ used' = [used EXCEPT ![r] = @ \cup {"provision_resource"}]
  /\ obtained' = [obtained EXCEPT ![r] = @ \cup {k}]
  /\ UNCHANGED <<policy, asked, parent, above, live>>

Next ==
  \E r \in Runs :
    \/ \E g \in Requests : StartRun(r, g)
    \/ StartRunDefault(r)
    \/ \E c \in Runs, spec \in Specs : SpawnChild(r, c, spec)
    \/ \E t \in Tools : InvokeTool(r, t)
    \/ \E k \in Kinds : ProvisionResource(r, k)

Spec == Init /\ [][Next]_vars

-----------------------------------------------------------------------------
(***************************************************************************)
(* Properties                                                              *)
(***************************************************************************)

\* q permits nothing that p does not.
NoWider(q, p) ==
  /\ \A t \in Tools : AllowsTool(q, t) => AllowsTool(p, t)
  /\ \A k \in Kinds : AllowsResourceKind(q, k) => AllowsResourceKind(p, k)
  /\ q.max <= p.max

\* No run may do what a run above it may not, at any depth of the tree and
\* whatever policies models ask for on the way (resolvePolicy, IsSubset).
NoEscalation ==
  \A c \in live : \A a \in above[c] : NoWider(policy[c], policy[a])

\* What a run has done was permitted to every run above it: the tools it
\* executed, apart from waiting, and the resource kinds it obtained.
DeedsWithinAncestors ==
  \A c \in live : \A a \in above[c] :
    /\ \A t \in used[c] \ {"wait_for_agents"} : AllowsTool(policy[a], t)
    /\ \A k \in obtained[c] : AllowsResourceKind(policy[a], k)

\* A policy bounds what is granted below it and what is done below it.
PolicyHolds == TypeOK /\ NoEscalation /\ DeedsWithinAncestors
=============================================================================
