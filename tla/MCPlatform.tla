----------------------------- MODULE MCPlatform -----------------------------
(***************************************************************************)
(* The policies of a tree of runs, the tenants' requests, and the          *)
(* streaming of one run's steps, side by side: a behavior is one of one of *)
(* the three.                                                              *)
(***************************************************************************)
EXTENDS RunPolicy, Tenants, StepStream

Lists(S) == SUBSET (S \cup {Star})

\* Lists of allowed and of denied tools; with a star among the allowed other
\* names add nothing, and one among the denied leaves nothing.  Kinds and the cap
\* play no part.  Waiting is gated by spawn_agent, so no list needs its name.
Listed == Tools \ {"wait_for_agents"}
ToolLists == (SUBSET Listed \cup {{Star}}) \X ({{}} \cup {{t} : t \in Listed})
             \cup {<<{Star, "spawn_agent"}, {}>>, <<{Star}, {Star}>>}
ToolRequests == {[allow |-> l[1], deny |-> l[2], kinds |-> {Star}, max |-> 1,
                  inherit |-> FALSE] : l \in ToolLists}

\* Every kind list and cap, and an inherited policy; all tools.
KindRequests == [allow : {{Star}}, deny : {{}}, kinds : Lists(Kinds),
                 max : 0 .. 1, inherit : {FALSE}]
                \cup
                [allow : {{Star}}, deny : {{}}, kinds : Lists(Kinds),
                 max : {1}, inherit : {TRUE}]

AllRequests == ToolRequests \cup KindRequests

\* Requests are alike, and so are the runs below a root.
Symmetry == Permutations(Reqs) \cup Permutations(Runs \ Roots)

VARIABLE part
mcVars == <<part, vars, tenantVars, streamVars>>

MCInit == part \in {"policies", "tenants", "stream"} /\ Init /\ TenantsInit /\ StreamInit

MCNext ==
    \/ part = "policies" /\ Next /\ UNCHANGED <<part, tenantVars, streamVars>>
    \/ part = "tenants" /\ TenantsNext /\ UNCHANGED <<part, vars, streamVars>>
    \/ part = "stream" /\ StreamNext /\ UNCHANGED <<part, vars, tenantVars>>

MCSpec == MCInit /\ [][MCNext]_mcVars
=============================================================================
