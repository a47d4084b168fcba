------------------------------ MODULE Tenants ------------------------------
(***************************************************************************)
(* Tenants share one server and one database.  A request is authenticated  *)
(* (http/auth.go, auth.go), its handler resolves what the request names to *)
(* the caller's tenant (http/*_handler.go), and the stores filter by       *)
(* tenant (postgres/*.go).  Handlers of several requests run at once; the  *)
(* ones that look and act in two statements, and CreateTenant, which swaps *)
(* the handler's store, are cut where others can come between.             *)
(*                                                                         *)
(* Only the effect on rows that tell one tenant from another is kept: what *)
(* a run or a resource then goes through is in AgentLoop and               *)
(* ResourceLifecycle, memory and labels are in SessionTx.                  *)
(***************************************************************************)
EXTENDS Integers, FiniteSets

CONSTANTS
    Reqs,       \* requests in flight
    MaxChanges  \* bound: rows created, changed and deleted

Pool == "pool"
ASSUME TenantsAssumption == Pool \notin Reqs /\ MaxChanges \in Nat

RowKinds == {"tenant", "key", "credential", "provider", "session", "memory",
          "event", "run", "resource", "prompt"}

VARIABLES
    db,       \* committed rows
    req,      \* requests
    hstore,   \* tenantHandler.store: the pool, or the transaction of a request
    nextId,   \* ids are fresh
    changes,  \* statements that wrote so far
    touched   \* what the last step read into an answer or changed, and for whom
tenantVars == <<db, req, hstore, nextId, changes, touched>>

\* Rows of memory and events carry no tenant: theirs is their session's.
Row(kind, id, tenant, session, st) ==
    [kind |-> kind, id |-> id, tenant |-> tenant, session |-> session, on |-> 0, st |-> st]
Unowned == 0

IdleReq == [pc |-> "idle", tenant |-> 0, scope |-> "none", id |-> 0, on |-> 0, store |-> Pool,
            prev |-> Pool, writes |-> {}, failed |-> FALSE]

Ids(kind) == {x.id : x \in {y \in db : y.kind = kind}}
TenantOf(x) ==
    IF x.kind \in {"memory", "event"}
    THEN (CHOOSE s \in db : s.kind = "session" /\ s.id = x.session).tenant
    ELSE x.tenant
Touch(r, how, x) ==
    [by |-> req[r].tenant, scope |-> req[r].scope, how |-> how, kind |-> x.kind, of |-> TenantOf(x)]

----------------------------------------------------------------------------
(* Authentication.                                                         *)

\* A hash is that of one key.
APIKeysGetByHash(k) == {x \in db : x.kind = "key" /\ x.id = k}

\* A key is looked up by its hash; a revoked key is refused.
Authenticate(r) ==
    /\ req[r].pc = "idle"
    /\ \E id \in Ids("key") : \E k \in APIKeysGetByHash(id) :
          /\ k.st # "revoked"
          /\ req' = [req EXCEPT ![r] = [IdleReq EXCEPT !.pc = "authed", !.tenant = k.tenant,
                                                    !.scope = k.st]]
    /\ touched' = {}
    /\ UNCHANGED <<db, hstore, nextId, changes>>

requireTenant(r, t) == req[r].tenant = t
requireAdmin(r, t) == requireTenant(r, t) /\ req[r].scope = "admin"

SessionTenant(s) == {x.tenant : x \in {y \in db : y.kind = "session" /\ y.id = s}}
resolveSessionTenant(r, s) == req[r].tenant \in SessionTenant(s)

----------------------------------------------------------------------------
(* The stores of a tenant's scope.                                         *)

GetUnscoped(t, kind, id) == {x \in db : x.kind = kind /\ x.id = id}  \* mutant
Get(t, kind, id) == {x \in db : x.kind = kind /\ x.id = id /\ x.tenant = t}
List(t, kind) == {x \in db : x.kind = kind /\ x.tenant = t}
ListIn(t, kind, s) == {x \in List(t, kind) : x.session = s}
\* Rows without a tenant are joined with their session.
JoinIn(t, kind, s) ==
    {x \in db : x.kind = kind /\ x.session = s /\ t \in SessionTenant(s)}
Active(x) == x.kind = "resource" /\ x.st # "ended"

TenantsCreate == Row("tenant", nextId, nextId, Unowned, "live")
APIKeysCreate(t, scope) == Row("key", nextId, t, Unowned, scope)
APIKeysRevoke(t, id) == Get(t, "key", id)
APIKeysList(rows, t) == {x \in rows : x.kind = "key" /\ x.tenant = t}
TenantsGet(rows, t) == {x \in rows : x.kind = "tenant" /\ x.id = t}
CredentialsPut(t) == Row("credential", nextId, t, Unowned, "put")
CredentialsList(t) == List(t, "credential")
CredentialsGet(t) == List(t, "credential")
CredentialsDelete(t) == List(t, "credential")
ProvidersCreate(t) == Row("provider", nextId, t, Unowned, "ready")
ProvidersGet(t, id) == Get(t, "provider", id)
ProvidersGetByName(t) == List(t, "provider")
ProvidersList(t) == List(t, "provider")
SessionsCreate(t) == Row("session", nextId, t, Unowned, "live")
SessionsGet(t, s) == Get(t, "session", s)
SessionsList(t) == List(t, "session")
RunsCreate(t, s) == Row("run", nextId, t, s, "live")
RunsGet(t, id) == Get(t, "run", id)
RunsList(t, s) == ListIn(t, "run", s)
ResourcesCreate(t, s, p) == [Row("resource", nextId, t, s, "active") EXCEPT !.on = p]
ResourcesGet(t, id) == Get(t, "resource", id)
ResourcesList(t, s) == ListIn(t, "resource", s)
MemorySet(s) == Row("memory", nextId, Unowned, s, "live")
MemoryList(t, s) == JoinIn(t, "memory", s)
MemoryGet(t, s) == JoinIn(t, "memory", s)
EventsAppend(s) == Row("event", nextId, Unowned, s, "live")
EventsRange(t, s) == JoinIn(t, "event", s)
PeriodicPromptsCreate(t, s) == Row("prompt", nextId, t, s, "on")
PeriodicPromptsList(t, s) == ListIn(t, "prompt", s)
PeriodicPromptsGetForUpdate(t, id) == Get(t, "prompt", id)
ResourcesListActive(t) == {x \in List(t, "resource") : Active(x)}

\* What a request's answer shows, and what it writes.
Writes == changes < MaxChanges /\ changes' = changes + 1
Fresh == Writes /\ nextId' = nextId + 1
Done(r) == req' = [req EXCEPT ![r] = IdleReq]
Answer(r, S) ==
    /\ Done(r) /\ touched' = {Touch(r, "read", x) : x \in S}
    /\ UNCHANGED <<db, hstore, nextId, changes>>
Refuse(r) == Answer(r, {})
Insert(r, x) ==
    /\ Fresh
    /\ db' = db \cup {x} /\ Done(r) /\ touched' = {Touch(r, "write", x)}
    /\ UNCHANGED hstore
Replace(r, x, y) ==
    /\ Writes
    /\ db' = (db \ {x}) \cup y /\ Done(r) /\ touched' = {Touch(r, "write", x)}
    /\ UNCHANGED <<hstore, nextId>>

\* A change of what is left out here.
Update(r, x) == Replace(r, x, {x})

\* The ways a handler gets from its request to a tenant.
Begun(r) == req[r].pc = "authed"
WithTenant(r, A(_)) ==
    Begun(r) /\ \E t \in Ids("tenant") : IF requireTenant(r, t) THEN A(t) ELSE Refuse(r)
WithAdmin(r, A(_)) ==
    Begun(r) /\ \E t \in Ids("tenant") : IF requireAdmin(r, t) THEN A(t) ELSE Refuse(r)
WithSession(r, A(_)) ==
    Begun(r) /\ \E s \in Ids("session") :
        IF resolveSessionTenant(r, s) THEN A(s) ELSE Refuse(r)
Found(r, S, A(_)) == IF S = {} THEN Refuse(r) ELSE \E x \in S : A(x)
resolveRun(r, id) == RunsGet(req[r].tenant, id)
resolveResource(r, id) == ResourcesGet(req[r].tenant, id)
WithRun(r, A(_)) == Begun(r) /\ \E id \in Ids("run") : Found(r, resolveRun(r, id), A)
WithResource(r, A(_)) ==
    Begun(r) /\ \E id \in Ids("resource") : Found(r, resolveResource(r, id), A)

----------------------------------------------------------------------------
(* TenantService.  Its handler keeps its store in a field that             *)
(* CreateTenant changes while it runs.                                     *)

\* A statement on the transaction of another request fails once it is over,
\* and may fail before (its connection is busy).
OpenTx(s) == s # Pool /\ req[s].pc \in {"swap", "mint", "restore", "end"}
Works(s) == s = Pool \/ OpenTx(s)
Visible(s) == IF OpenTx(s) THEN db \cup req[s].writes ELSE db

GetTenant(r) ==
    WithTenant(r, LAMBDA t : \/ Works(hstore) /\ Answer(r, TenantsGet(Visible(hstore), t))
                             \/ hstore # Pool /\ Refuse(r))
ListTenants(r) ==
    /\ Begun(r)
    /\ \/ Works(hstore) /\ Answer(r, TenantsGet(Visible(hstore), req[r].tenant))
       \/ hstore # Pool /\ Refuse(r)
ListAPIKeys(r) ==
    WithAdmin(r, LAMBDA t : \/ Works(hstore) /\ Answer(r, APIKeysList(Visible(hstore), t))
                            \/ hstore # Pool /\ Refuse(r))

mintKey(t, scope) == APIKeysCreate(t, scope)
\* Through the transaction of another request the key is that request's to
\* commit.
CreateAPIKey(r) ==
    WithAdmin(r, LAMBDA t : \E scope \in {"admin", "sessions"} :
        \/ hstore = Pool /\ Insert(r, mintKey(t, scope))
        \/ /\ OpenTx(hstore) /\ Fresh
           /\ req' = [req EXCEPT ![r] = IdleReq, ![hstore].writes = @ \cup {mintKey(t, scope)}]
           /\ touched' = {Touch(r, "write", mintKey(t, scope))}
           /\ UNCHANGED <<db, hstore>>
        \/ hstore # Pool /\ Refuse(r))
RevokeAPIKey(r) ==
    WithAdmin(r, LAMBDA t : \E id \in Ids("key") :
        \/ hstore = Pool /\ Found(r, APIKeysRevoke(t, id), LAMBDA x : Replace(r, x, {[x EXCEPT !.st = "revoked"]}))
        \/ hstore # Pool /\ Refuse(r))

\* Store.Tx: in a transaction already, the outer one is used.
CreateTenant(r) ==
    LET own == hstore = Pool
        s == IF own THEN r ELSE hstore
    IN  /\ Begun(r)
        /\ \/ req[r].scope # "admin" /\ Refuse(r)
           \/ req[r].scope = "admin" /\ ~own /\ Refuse(r)
           \/ /\ req[r].scope = "admin" /\ (own \/ OpenTx(hstore))
              /\ Fresh
              /\ req' = LET q == [req EXCEPT ![r].pc = "swap", ![r].id = nextId, ![r].store = s]
                        IN  [q EXCEPT ![s].writes = @ \cup {TenantsCreate}]
              /\ touched' = {} /\ UNCHANGED <<db, hstore>>

Swap(r) ==
    /\ req[r].pc = "swap"
    /\ req' = [req EXCEPT ![r].pc = "mint", ![r].prev = hstore]
    /\ hstore' = req[r].store
    /\ touched' = {} /\ UNCHANGED <<db, nextId, changes>>

\* The key refers to its tenant, which must be visible to the statement.
Mint(r) ==
    LET key == mintKey(req[r].id, "admin")
        stored == \E x \in Visible(hstore) : x.kind = "tenant" /\ x.id = req[r].id
    IN  /\ req[r].pc = "mint" /\ touched' = {} /\ UNCHANGED hstore
        /\ \/ /\ OpenTx(hstore) /\ stored
              /\ Fresh
              /\ req' = LET q == [req EXCEPT ![r].pc = "restore"]
                        IN  [q EXCEPT ![hstore].writes = @ \cup {key}]
              /\ UNCHANGED db
           \/ /\ hstore = Pool /\ stored
              /\ Fresh
              /\ db' = db \cup {key}
              /\ req' = [req EXCEPT ![r].pc = "restore"]
           \/ /\ hstore # r \/ ~stored
              /\ req' = [req EXCEPT ![r].pc = "restore", ![r].failed = TRUE]
              /\ UNCHANGED <<db, nextId, changes>>

Restore(r) ==
    /\ req[r].pc = "restore"
    /\ req' = [req EXCEPT ![r].pc = "end"]
    /\ hstore' = req[r].prev
    /\ touched' = {} /\ UNCHANGED <<db, nextId, changes>>

\* Its own transaction is committed or rolled back with all it was given.
EndCreate(r) ==
    /\ req[r].pc = "end"
    /\ db' = IF req[r].store = r /\ ~req[r].failed THEN db \cup req[r].writes ELSE db
    /\ Done(r) /\ touched' = {} /\ UNCHANGED <<hstore, nextId, changes>>

----------------------------------------------------------------------------
(* CredentialService and ProviderService.  Names are unique in a tenant;   *)
(* each tenant uses one.                                                   *)

PutCredential(r) ==
    WithAdmin(r, LAMBDA t :
        IF CredentialsGet(t) = {} THEN Insert(r, CredentialsPut(t))
        ELSE Found(r, CredentialsGet(t), LAMBDA x : Replace(r, x, {[x EXCEPT !.st = "rotated"]})))
ListCredentials(r) == WithTenant(r, LAMBDA t : Answer(r, CredentialsList(t)))
DeleteCredential(r) ==
    WithAdmin(r, LAMBDA t : Found(r, CredentialsDelete(t), LAMBDA x : Replace(r, x, {})))

RegisterProvider(r) ==
    WithAdmin(r, LAMBDA t :
        IF ProvidersGetByName(t) # {} THEN Refuse(r) ELSE Insert(r, ProvidersCreate(t)))
ListProviders(r) == WithTenant(r, LAMBDA t : Answer(r, ProvidersList(t)))
GetProvider(r) ==
    WithTenant(r, LAMBDA t : \E id \in Ids("provider") : Answer(r, ProvidersGet(t, id)))

\* The handler counts what the provider hosts, and deletes in a later
\* statement.
DeregisterProvider(r) ==
    WithAdmin(r, LAMBDA t : \E id \in Ids("provider") :
        IF \E x \in ResourcesListActive(t) : x.on = id THEN Refuse(r)
        ELSE /\ req' = [req EXCEPT ![r].pc = "deregister", ![r].id = id]
             /\ touched' = {} /\ UNCHANGED <<db, hstore, nextId, changes>>)

\* Not while a resource that has not ended is on it; and a row that refers to
\* it, ended or not, makes the database refuse.
DeleteProvider(r) ==
    /\ req[r].pc = "deregister"
    /\ Found(r, ProvidersGet(req[r].tenant, req[r].id),
             LAMBDA x : IF \E y \in db : y.kind = "resource" /\ y.on = x.id THEN Refuse(r)
                        ELSE Replace(r, x, {}))

----------------------------------------------------------------------------
(* SessionService and EventService.                                        *)

CreateSession(r) == WithTenant(r, LAMBDA t : Insert(r, SessionsCreate(t)))
GetSession(r) == WithSession(r, LAMBDA s : Answer(r, SessionsGet(req[r].tenant, s)))
ListSessions(r) == WithTenant(r, LAMBDA t : Answer(r, SessionsList(t)))
ArchiveSession(r) ==
    WithSession(r, LAMBDA s : Found(r, SessionsGet(req[r].tenant, s),
        LAMBDA x : Replace(r, x, {[x EXCEPT !.st = "archived"]})))
UpdateSessionLabels(r) ==
    WithSession(r, LAMBDA s : Found(r, SessionsGet(req[r].tenant, s), LAMBDA x : Update(r, x)))

\* INSERT ... SELECT FROM sessions WHERE id = s AND tenant_id = the scope's.
InsertIn(r, s, x) ==
    IF SessionsGet(req[r].tenant, s) = {} THEN Refuse(r) ELSE Insert(r, x)

SetMemory(r) == WithSession(r, LAMBDA s : InsertIn(r, s, MemorySet(s)))
GetMemory(r) == WithSession(r, LAMBDA s : Answer(r, MemoryGet(req[r].tenant, s)))
ListMemory(r) == WithSession(r, LAMBDA s : Answer(r, MemoryList(req[r].tenant, s)))
DeleteMemory(r) ==
    WithSession(r, LAMBDA s : Found(r, MemoryGet(req[r].tenant, s), LAMBDA x : Replace(r, x, {})))
AppendEvent(r) == WithSession(r, LAMBDA s : InsertIn(r, s, EventsAppend(s)))
GetEvents(r) == WithSession(r, LAMBDA s : Answer(r, EventsRange(req[r].tenant, s)))

----------------------------------------------------------------------------
(* RunService, ResourceService and AutomationService.                      *)

StartRunCall(r) == WithSession(r, LAMBDA s : InsertIn(r, s, RunsCreate(req[r].tenant, s)))
GetRun(r) == WithRun(r, LAMBDA x : Answer(r, {x}))
ListRuns(r) == WithSession(r, LAMBDA s : Answer(r, RunsList(req[r].tenant, s)))
GetRunTree(r) == WithSession(r, LAMBDA s : Answer(r, RunsList(req[r].tenant, s)))
AnswerRun(r) == WithRun(r, LAMBDA x : Update(r, x))
CancelRun(r) == WithRun(r, LAMBDA x : Update(r, x))

\* The provider is found by name, and the row inserted in a later statement
\* that joins session and provider by tenant.
ProvisionResourceCall(r) ==
    WithSession(r, LAMBDA s : Found(r, ProvidersGetByName(req[r].tenant),
        LAMBDA p : /\ req' = [req EXCEPT ![r].pc = "request", ![r].id = s, ![r].on = p.id]
                   /\ touched' = {} /\ UNCHANGED <<db, hstore, nextId, changes>>))
Request(r) ==
    LET t == req[r].tenant
        joined == SessionsGet(t, req[r].id) # {} /\ ProvidersGet(t, req[r].on) # {}
    IN  /\ req[r].pc = "request"
        /\ IF ~joined THEN Refuse(r)
           ELSE Insert(r, ResourcesCreate(t, req[r].id, req[r].on))
\* The provider's name and state are shown with the resource.
GetResource(r) ==
    WithResource(r, LAMBDA x : Answer(r, {x} \cup ProvidersGet(x.tenant, x.on)))
ListResources(r) ==
    WithSession(r, LAMBDA s : Answer(r, ResourcesList(req[r].tenant, s)
                                        \cup ProvidersList(req[r].tenant)))
TerminateResource(r) == WithResource(r, LAMBDA x : Update(r, x))
RestartResource(r) == WithResource(r, LAMBDA x : Update(r, x))
ExecPreview(r) == WithResource(r, LAMBDA x : InsertIn(r, x.session, EventsAppend(x.session)))
\* A worker ends it: terminated or failed.
ResourceEnds ==
    /\ Writes
    /\ \E x \in {y \in db : Active(y)} : db' = (db \ {x}) \cup {[x EXCEPT !.st = "ended"]}
    /\ touched' = {} /\ UNCHANGED <<req, hstore, nextId>>

\* The insert itself does not look at the session.
PutPeriodicPrompt(r) ==
    WithSession(r, LAMBDA s : Insert(r, PeriodicPromptsCreate(req[r].tenant, s)))
ListPeriodicPrompts(r) == WithSession(r, LAMBDA s : Answer(r, PeriodicPromptsList(req[r].tenant, s)))
SetPeriodicPromptEnabled(r) ==
    Begun(r) /\ \E id \in Ids("prompt") : Found(r, PeriodicPromptsGetForUpdate(req[r].tenant, id),
        LAMBDA x : \E st \in {"on", "off"} : Replace(r, x, {[x EXCEPT !.st = st]}))

----------------------------------------------------------------------------
\* Two tenants, each with an admin key, a session and a provider; the first
\* has a sessions key too.
TenantsInit ==
    /\ db = {Row("key", 5, 1, Unowned, "sessions")} \cup
            UNION {{Row("tenant", t, t, Unowned, "live"), Row("key", 2 + t, t, Unowned, "admin"),
                    Row("session", 5 + t, t, Unowned, "live"), Row("provider", 7 + t, t, Unowned, "ready")}
                   : t \in {1, 2}}
    /\ req = [r \in Reqs |-> IdleReq]
    /\ hstore = Pool
    /\ nextId = 10
    /\ changes = 0
    /\ touched = {}

TenantService(r) ==
    \/ CreateTenant(r) \/ Swap(r) \/ Mint(r) \/ Restore(r) \/ EndCreate(r)
    \/ GetTenant(r) \/ ListTenants(r) \/ CreateAPIKey(r) \/ ListAPIKeys(r) \/ RevokeAPIKey(r)
OtherServices(r) ==
    \/ PutCredential(r) \/ ListCredentials(r) \/ DeleteCredential(r)
    \/ RegisterProvider(r) \/ ListProviders(r) \/ GetProvider(r)
    \/ DeregisterProvider(r) \/ DeleteProvider(r)
    \/ CreateSession(r) \/ GetSession(r) \/ ListSessions(r) \/ ArchiveSession(r)
    \/ UpdateSessionLabels(r)
    \/ SetMemory(r) \/ GetMemory(r) \/ ListMemory(r) \/ DeleteMemory(r)
    \/ AppendEvent(r) \/ GetEvents(r)
    \/ StartRunCall(r) \/ GetRun(r) \/ ListRuns(r) \/ GetRunTree(r) \/ AnswerRun(r) \/ CancelRun(r)
    \/ ProvisionResourceCall(r) \/ Request(r) \/ GetResource(r) \/ ListResources(r)
    \/ TerminateResource(r) \/ RestartResource(r) \/ ExecPreview(r)
    \/ PutPeriodicPrompt(r) \/ ListPeriodicPrompts(r) \/ SetPeriodicPromptEnabled(r)

TenantsNext ==
    \/ \E r \in Reqs : Authenticate(r) \/ TenantService(r) \/ OtherServices(r)
    \/ ResourceEnds
\* The tenant handler by itself.
TenantServiceSpec ==
    TenantsInit /\ [][\E r \in Reqs : Authenticate(r) \/ TenantService(r)]_tenantVars
TenantsSpec == TenantsInit /\ [][TenantsNext]_tenantVars

----------------------------------------------------------------------------
(* Properties.                                                             *)

(* Types of the rows; ids are unique, and so are the names a tenant gives  *)
(* its credentials and providers.                                          *)
TenantsTypeOK ==
    /\ \A x \in db : x.kind \in RowKinds /\ x.id \in 1 .. nextId - 1
    /\ \A x, y \in db : x.kind = y.kind /\ x.id = y.id => x = y
    /\ \A x, y \in db : x.kind = y.kind /\ x.kind \in {"credential", "provider"} /\ x.tenant = y.tenant => x = y
    /\ hstore \in Reqs \cup {Pool}
    /\ changes \in 0 .. MaxChanges

(* Isolation (requireTenant, resolveSessionTenant, resolveRun, the scoped  *)
(* stores): whatever ids a request names, it is shown, and changes, only   *)
(* what belongs to the tenant its key belongs to.                          *)
Isolation == \A x \in touched : x.of = x.by

(* Scope (requireAdmin): keys, credentials and providers are changed by    *)
(* admin keys only.                                                        *)
AdminOnly ==
    \A x \in touched : x.how = "write" /\ x.kind \in {"key", "credential", "provider"}
                          => x.scope = "admin"

(* Ownership (runStore.Create, resourceStore.Create, PutPeriodicPrompt): a *)
(* run, resource or prompt belongs to the tenant of its session, and a     *)
(* resource to the tenant of its provider.                                 *)
OneOwner ==
    \A x \in db :
        /\ x.kind \in {"run", "resource", "prompt"} => SessionTenant(x.session) = {x.tenant}
        /\ \A p \in db : x.kind = "resource" /\ p.kind = "provider" /\ p.id = x.on => p.tenant = x.tenant

(* Removal (DeregisterProvider, racing ProvisionResource): a resource that *)
(* has not ended still has its provider.                                   *)
ProviderOutlivesResources == \A x \in db : Active(x) => x.on \in Ids("provider")

(* Tenants are apart: in what requests read and change, in who owns what,  *)
(* and when a provider goes while a resource comes.                        *)
TenantsApart ==
    /\ TenantsTypeOK /\ Isolation /\ AdminOnly
    /\ OneOwner /\ ProviderOutlivesResources

(* The swap (CreateTenant, "Temporarily swap store for mint inside tx"):   *)
(* once no CreateTenant is under way the handler is back on the pool.      *)
SwapIsTemporary ==
    (\A r \in Reqs : req[r].pc \notin {"mint", "restore"}) => hstore = Pool
============================================================================
