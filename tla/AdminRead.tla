----------------------------- MODULE AdminRead -----------------------------
(***************************************************************************)
(* The admin API's reads (adminhttp/handler.go, admin/store/store.go): who *)
(* may ask (admin/authz/tokens.go, adminhttp/server.go), how the columns   *)
(* of a row get into the fields of an answer, which is by position, and    *)
(* the reads that take several statements while others change the rows.    *)
(* How a list is paged is in AdminQuery; the commands are in AdminCommand. *)
(***************************************************************************)
EXTENDS AdminMessages, Integers, Sequences, FiniteSets, SequencesExt

CONSTANTS
    Readers,        \* requests
    RelatedLimit,   \* page size of ListRelated
    MaxWorldMoves   \* bound on what others change

ASSUME ReadAssumption == RelatedLimit \in Nat \ {0} /\ MaxWorldMoves \in Nat

----------------------------------------------------------------------------
(* Columns.  The value of a column is written as its name.                 *)

Times == {"created_at", "revoked_at", "archived_at", "ts", "updated_at", "cancel_requested_at",
          "ready_at", "terminated_at", "last_healthy_at", "rotated_at", "next_at", "deadline",
          "resolved_at", "resumed_at", "scheduled_at", "attempted_at", "finalized_at"}
Ints == {"session_count", "run_count", "api_key_count", "last_seq", "event_count",
         "resource_count", "seq", "payload_bytes", "loop_version", "cohort_ordinal", "step_count",
         "prompt_bytes", "history_bytes", "step_index", "attempt", "tokens_in", "tokens_out",
         "epoch", "spec_bytes", "handle_bytes", "config_bytes", "capabilities_bytes",
         "ciphertext_bytes", "value_bytes", "member_count", "job_id", "max_attempts",
         "errors_count"}
Bools == {"has_ciphertext", "has_result", "has_token", "encrypted", "enabled"}
Docs == {"targets", "before_summary", "after_summary"}

\* A value of another type becomes the zero value of the wanted one.
Zero == "zero"
asString(v) == v
asTime(v) == IF v \in Times THEN v ELSE Zero
asInt(v) == IF v \in Ints THEN v ELSE Zero
asBool(v) == IF v \in Bools THEN v ELSE Zero
asStruct(v) == IF v \in Docs THEN v ELSE Zero
asStringMap(v) == IF v = "labels" THEN v ELSE Zero

----------------------------------------------------------------------------
(* What each collection selects, and what its list makes of a row: fields  *)
(* by position, each with its conversion.                                  *)

F(as, names) == [i \in DOMAIN names |-> <<names[i], as>>]
S(names) == F("string", names)
T(names) == F("time", names)
N(names) == F("int", names)
B(names) == F("bool", names)
D(names) == F("struct", names)
M(names) == F("map", names)

TenantsSelect == <<"id", "name", "created_at", "session_count", "run_count", "api_key_count">>
ListTenants == S(<<"id", "name">>) \o T(<<"created_at">>)
               \o N(<<"session_count", "run_count", "api_key_count">>)

APIKeysSelect == <<"id", "tenant_id", "name", "scope", "prefix", "created_at", "revoked_at",
                   "key_hash_prefix", "has_ciphertext">>
ListAPIKeys == S(<<"id", "tenant_id", "name", "scope", "prefix">>)
               \o T(<<"created_at", "revoked_at">>) \o S(<<"key_hash_prefix">>)
               \o B(<<"has_ciphertext">>)

SessionsSelect == <<"id", "tenant_id", "title", "labels", "last_seq", "created_at",
                    "archived_at", "event_count", "run_count", "resource_count">>
ListSessions == S(<<"id", "tenant_id", "title">>) \o M(<<"labels">>) \o N(<<"last_seq">>)
                \o T(<<"created_at", "archived_at">>)
                \o N(<<"event_count", "run_count", "resource_count">>)

EventsSelect == <<"session_id", "tenant_id", "seq", "ts", "actor_kind", "actor_id",
                  "actor_display", "kind", "payload_bytes", "payload_preview">>
ListEvents == S(<<"session_id", "tenant_id">>) \o N(<<"seq">>) \o T(<<"ts">>)
              \o S(<<"actor_kind", "actor_id", "actor_display", "kind">>)
              \o N(<<"payload_bytes">>) \o S(<<"payload_preview">>)

RunsSelect == <<"id", "session_id", "tenant_id", "state", "loop_kind", "loop_version",
                "parent_run_id", "spawn_key", "cohort_id", "cohort_ordinal", "failure_reason",
                "actor_kind", "actor_id", "actor_display", "created_at", "updated_at",
                "cancel_requested_at", "step_count", "prompt_bytes", "history_bytes", "has_result">>
ListRunsShifted ==  \* mutant
    S(<<"id", "session_id", "tenant_id", "state", "loop_kind">>) \o N(<<"loop_version">>)
    \o S(<<"parent_run_id", "spawn_key", "cohort_id">>) \o N(<<"cohort_ordinal">>)
    \o S(<<"failure_reason", "actor_kind", "actor_id", "actor_display">>)
    \o T(<<"created_at", "updated_at", "cancel_requested_at">>)
    \o N(<<"prompt_bytes", "step_count", "history_bytes">>) \o B(<<"has_result">>)
ListRuns == S(<<"id", "session_id", "tenant_id", "state", "loop_kind">>) \o N(<<"loop_version">>)
            \o S(<<"parent_run_id", "spawn_key", "cohort_id">>) \o N(<<"cohort_ordinal">>)
            \o S(<<"failure_reason", "actor_kind", "actor_id", "actor_display">>)
            \o T(<<"created_at", "updated_at", "cancel_requested_at">>)
            \o N(<<"step_count", "prompt_bytes", "history_bytes">>) \o B(<<"has_result">>)

RunStepsSelect == <<"run_id", "tenant_id", "session_id", "step_index", "attempt", "tokens_in",
                    "tokens_out", "finish_reason", "created_at">>
ListRunSteps == S(<<"run_id", "tenant_id", "session_id">>)
                \o N(<<"step_index", "attempt", "tokens_in", "tokens_out">>)
                \o S(<<"finish_reason">>) \o T(<<"created_at">>)

ResourcesSelect == <<"id", "tenant_id", "session_id", "provider_instance_id", "kind", "state",
                     "endpoint", "epoch", "failure_message", "created_by_run_id", "created_at",
                     "updated_at", "ready_at", "terminated_at", "spec_bytes", "handle_bytes",
                     "has_token">>
ListResources == S(<<"id", "tenant_id", "session_id", "provider_instance_id", "kind", "state",
                     "endpoint">>) \o N(<<"epoch">>) \o S(<<"failure_message", "created_by_run_id">>)
                 \o T(<<"created_at", "updated_at", "ready_at", "terminated_at">>)
                 \o N(<<"spec_bytes", "handle_bytes">>) \o B(<<"has_token">>)

ProvidersSelect == <<"id", "tenant_id", "kind", "name", "state", "last_healthy_at", "created_at",
                     "config_bytes", "capabilities_bytes", "resource_count">>
ListProviders == S(<<"id", "tenant_id", "kind", "name", "state">>)
                 \o T(<<"last_healthy_at", "created_at">>)
                 \o N(<<"config_bytes", "capabilities_bytes", "resource_count">>)

CredentialsSelect == <<"tenant_id", "kind", "name", "created_at", "rotated_at",
                       "ciphertext_bytes", "encrypted">>
ListCredentials == S(<<"tenant_id", "kind", "name">>) \o T(<<"created_at", "rotated_at">>)
                   \o N(<<"ciphertext_bytes">>) \o B(<<"encrypted">>)

PeriodicPromptsSelect == <<"id", "tenant_id", "session_id", "run_id", "schedule", "enabled",
                           "next_at", "created_at", "prompt_bytes", "prompt_preview">>
ListPeriodicPrompts == S(<<"id", "tenant_id", "session_id", "run_id", "schedule">>)
                       \o B(<<"enabled">>) \o T(<<"next_at", "created_at">>)
                       \o N(<<"prompt_bytes">>) \o S(<<"prompt_preview">>)

MemorySelect == <<"session_id", "tenant_id", "key", "updated_by_kind", "updated_by_id",
                  "updated_at", "value_bytes">>
ListMemory == S(<<"session_id", "tenant_id", "key", "updated_by_kind", "updated_by_id">>)
              \o T(<<"updated_at">>) \o N(<<"value_bytes">>)

WaitsSelect == <<"id", "parent_run_id", "tenant_id", "session_id", "step_index", "tool_call_id",
                 "kind", "state", "timeout_policy", "deadline", "created_at", "resolved_at",
                 "resumed_at", "member_count", "has_result">>
ListWaits == S(<<"id", "parent_run_id", "tenant_id", "session_id">>) \o N(<<"step_index">>)
             \o S(<<"tool_call_id", "kind", "state", "timeout_policy">>)
             \o T(<<"deadline", "created_at", "resolved_at", "resumed_at">>)
             \o N(<<"member_count">>) \o B(<<"has_result">>)

JobsSelect == <<"job_id", "kind", "state", "attempt", "max_attempts", "queue", "priority",
                "created_at", "scheduled_at", "attempted_at", "finalized_at", "errors_preview",
                "errors_count", "tags">>
ListJobs == N(<<"job_id">>) \o S(<<"kind", "state">>) \o N(<<"attempt", "max_attempts">>)
            \o S(<<"queue", "priority">>)
            \o T(<<"created_at", "scheduled_at", "attempted_at", "finalized_at">>)
            \o S(<<"errors_preview">>) \o N(<<"errors_count">>) \o S(<<"tags">>)

AuditEventsSelect == <<"id", "ts", "operator_id", "operator_role", "request_id", "command",
                       "targets", "reason", "preview_hash", "before_summary", "after_summary",
                       "result", "error", "source_ip", "build_version", "idempotency_key">>
auditFromVals == S(<<"id">>) \o T(<<"ts">>)
                 \o S(<<"operator_id", "operator_role", "request_id", "command">>)
                 \o D(<<"targets">>) \o S(<<"reason", "preview_hash">>)
                 \o D(<<"before_summary", "after_summary">>)
                 \o S(<<"result", "error", "source_ip", "build_version", "idempotency_key">>)
ListAuditEvents == auditFromVals

\* made: fields the code fills from the request or from another column.
Shape(select, decode, made, message) ==
    [select |-> select, decode |-> decode, made |-> made, message |-> message]
Collection(select, decode, message) == Shape(select, decode, {}, message)
Collections ==
    [tenants |-> Collection(TenantsSelect, ListTenants, TenantSummary),
     api_keys |-> Collection(APIKeysSelect, ListAPIKeys, APIKeySummary),
     sessions |-> Collection(SessionsSelect, ListSessions, SessionSummary),
     events |-> Collection(EventsSelect, ListEvents, EventSummary),
     runs |-> Collection(RunsSelect, ListRuns, RunSummary),
     run_steps |-> Collection(RunStepsSelect, ListRunSteps, RunStepSummary),
     resources |-> Collection(ResourcesSelect, ListResources, ResourceSummary),
     providers |-> Collection(ProvidersSelect, ListProviders, ProviderSummary),
     credentials |-> Collection(CredentialsSelect, ListCredentials, CredentialSummary),
     periodic_prompts |-> Collection(PeriodicPromptsSelect, ListPeriodicPrompts, PeriodicPromptSummary),
     memory |-> Collection(MemorySelect, ListMemory, MemorySummary),
     waits |-> Collection(WaitsSelect, ListWaits, WaitSummary),
     jobs |-> Collection(JobsSelect, ListJobs, JobSummary),
     audit_events |-> Collection(AuditEventsSelect, ListAuditEvents, AuditEventSummary)]
Names == DOMAIN Collections

Convert(as, v) ==
    CASE as = "string" -> asString(v) [] as = "time" -> asTime(v) [] as = "int" -> asInt(v)
      [] as = "bool" -> asBool(v) [] as = "struct" -> asStruct(v) [] as = "map" -> asStringMap(v)

----------------------------------------------------------------------------
(* The reads of one row that have a statement of their own: the columns it *)
(* selects and the variables they are scanned into, again by position.     *)

GetEvent ==
    Shape(<<"tenant_id", "ts", "actor_kind", "actor_id", "actor_display", "kind", "payload">>,
          S(<<"tenant_id">>) \o T(<<"ts">>)
          \o S(<<"actor_kind", "actor_id", "actor_display", "kind", "payload">>),
          {"session_id", "seq", "payload_bytes", "payload_preview"}, EventDetail)
GetRun ==
    Shape(<<"id", "session_id", "tenant_id", "state", "loop_kind", "loop_version",
            "parent_run_id", "spawn_key", "cohort_id", "cohort_ordinal", "failure_reason",
            "failure_message", "actor_kind", "actor_id", "actor_display", "created_at",
            "updated_at", "cancel_requested_at", "prompt", "model_config", "policy",
            "result", "history_bytes">>,
          S(<<"id", "session_id", "tenant_id", "state", "loop_kind">>)
          \o N(<<"loop_version">>) \o S(<<"parent_run_id", "spawn_key", "cohort_id">>)
          \o N(<<"cohort_ordinal">>)
          \o S(<<"failure_reason", "failure_message", "actor_kind", "actor_id",
                 "actor_display">>)
          \o T(<<"created_at", "updated_at", "cancel_requested_at">>)
          \o S(<<"prompt", "model_config", "policy", "result">>) \o N(<<"history_bytes">>),
          {"prompt_bytes", "has_result"}, RunDetail \ {"step_count"})
GetRunHistory ==
    Shape(<<"history">>, S(<<"history">>),
          {"run_id"}, RunHistoryBlob)
GetResource ==
    Shape(<<"id", "tenant_id", "session_id", "provider_instance_id", "kind", "state",
            "endpoint", "epoch", "failure_message", "created_by_run_id", "created_at",
            "updated_at", "ready_at", "terminated_at", "spec", "handle",
            "token_hash_prefix", "has_token">>,
          S(<<"id", "tenant_id", "session_id", "provider_instance_id", "kind", "state",
              "endpoint">>) \o N(<<"epoch">>)
          \o S(<<"failure_message", "created_by_run_id">>)
          \o T(<<"created_at", "updated_at", "ready_at", "terminated_at">>)
          \o S(<<"spec", "handle", "token_hash_prefix">>) \o B(<<"has_token">>),
          {"spec_bytes", "handle_bytes"}, ResourceDetail)
GetProvider ==
    Shape(<<"id", "tenant_id", "kind", "name", "state", "last_healthy_at", "created_at",
            "config", "capabilities">>,
          S(<<"id", "tenant_id", "kind", "name", "state">>)
          \o T(<<"last_healthy_at", "created_at">>) \o S(<<"config", "capabilities">>),
          {"config_bytes", "capabilities_bytes"}, ProviderDetail \ {"resource_count"})
GetPeriodicPrompt ==
    Shape(<<"id", "tenant_id", "session_id", "run_id", "schedule", "enabled", "next_at",
            "created_at", "prompt">>,
          S(<<"id", "tenant_id", "session_id", "run_id", "schedule">>) \o B(<<"enabled">>)
          \o T(<<"next_at", "created_at">>) \o S(<<"prompt">>),
          {"prompt_bytes", "prompt_preview"}, PeriodicPromptDetail)
GetMemory ==
    Shape(<<"tenant_id", "updated_by_kind", "updated_by_id", "updated_at", "value">>,
          S(<<"tenant_id", "updated_by_kind", "updated_by_id">>) \o T(<<"updated_at">>)
          \o S(<<"value">>),
          {"session_id", "key", "value_bytes"}, MemoryDetail)
GetJob ==
    Shape(<<"job_id", "kind", "state", "attempt", "max_attempts", "queue", "priority",
            "created_at", "scheduled_at", "attempted_at", "finalized_at", "args",
            "metadata", "errors", "tags">>,
          N(<<"job_id">>) \o S(<<"kind", "state">>) \o N(<<"attempt", "max_attempts">>)
          \o S(<<"queue", "priority">>)
          \o T(<<"created_at", "scheduled_at", "attempted_at", "finalized_at">>)
          \o S(<<"args", "metadata", "errors", "tags">>),
          {"errors_preview", "errors_count"}, JobDetail)
GetAuditEvent == Collection(AuditEventsSelect, auditFromVals, AuditEventSummary)

\* Four reads of one row are a list of at most one row.
GetTenant == Collection(TenantsSelect, ListTenants, TenantDetail)
GetAPIKey == Collection(APIKeysSelect, ListAPIKeys, APIKeySummary)
GetSession == Collection(SessionsSelect, ListSessions, SessionDetail)
GetCredential == Collection(CredentialsSelect, ListCredentials, CredentialDetail)

Rows ==
    [GetEvent |-> GetEvent, GetRun |-> GetRun, GetRunHistory |-> GetRunHistory,
     GetResource |-> GetResource, GetProvider |-> GetProvider,
     GetPeriodicPrompt |-> GetPeriodicPrompt, GetMemory |-> GetMemory, GetJob |-> GetJob,
     GetAuditEvent |-> GetAuditEvent, GetTenant |-> GetTenant, GetAPIKey |-> GetAPIKey,
     GetSession |-> GetSession, GetCredential |-> GetCredential]

\* The row as it is shown: each field with the value that landed in it.
Decode(c) == {<<c.decode[i][1], Convert(c.decode[i][2], c.select[i])>> : i \in DOMAIN c.decode}

----------------------------------------------------------------------------
(* Operators.                                                              *)

\* Role names as configured: trimmed, and in either case.
ParseRole(s) == CASE s = " Admin " -> "admin" [] s = "root" -> "" [] OTHER -> s

Unset == [none |-> ""]
\* CORE_ADMIN_TOKENS, CORE_ADMIN_TOKEN, CORE_ADMIN_TOKEN_ROLE, CORE_ADMIN_DEV_MODE
Env == [tokens : {Unset, [t1 |-> "viewer"], [t1 |-> "root"], [t1 |-> " Admin ", t2 |-> "viewer"]},
        token : {"", "t2"}, role : {"", "viewer", "root"}, dev : BOOLEAN]

Entry(t, role) == [token |-> t, role |-> role]
LoadTokens(e) ==
    CASE e.tokens # Unset -> {Entry(t, ParseRole(e.tokens[t])) : t \in DOMAIN e.tokens}
      [] e.tokens = Unset /\ e.token # "" ->
             {Entry(e.token, IF e.role = "" THEN "admin" ELSE ParseRole(e.role))}
      [] OTHER -> {}

\* coreadmin starts only with roles it knows, and without tokens only in dev mode.
Starts(e) ==
    /\ \A x \in LoadTokens(e) : x.role # ""
    /\ LoadTokens(e) # {} \/ e.dev

NoOperator == [id |-> "", role |-> ""]
Lookup(e, t) ==
    LET known == {x \in LoadTokens(e) : x.token = t} IN
    CASE t = "" -> NoOperator
      [] t # "" /\ known # {} -> [id |-> t, role |-> (CHOOSE x \in known : TRUE).role]
      [] t # "" /\ known = {} /\ e.dev /\ LoadTokens(e) = {} -> [id |-> "dev", role |-> "admin"]
      [] OTHER -> NoOperator

----------------------------------------------------------------------------
(* One session's rows and one wait, which others change, and the requests. *)

VARIABLES
    env,        \* the environment coreadmin was started with
    river,      \* does the river_job table exist?
    rows,       \* rows of the session: [ts, kind, id]
    wait,       \* a wait of the session: [members, state, result]
    reads,      \* requests
    shifts      \* changes made by others so far
readVars == <<env, river, rows, wait, reads, shifts>>

RowKinds == {"event", "run"}
RowSpace == [ts : 1 .. 2, kind : RowKinds, id : 1 .. 2]
Unasked == [pc |-> "idle", op |-> "", token |-> "", role |-> "", todo |-> <<>>, got |-> <<>>,
            start |-> {}, more |-> FALSE, failed |-> FALSE]
NoWait == [members |-> 0, state |-> "none", result |-> FALSE]

ReadInit ==
    /\ env \in {e \in Env : Starts(e)} /\ river \in BOOLEAN
    /\ rows \in {s \in SUBSET RowSpace : Cardinality(s) <= 3}
    /\ wait \in {NoWait, [members |-> 2, state |-> "open", result |-> FALSE]}
    /\ reads = [r \in Readers |-> Unasked]
    /\ shifts = 0

AnswerRead(r, pc, got, more) ==
    reads' = [reads EXCEPT ![r].pc = pc, ![r].got = got, ![r].more = more, ![r].todo = <<>>]

\* What each read still has to ask the database, in order.
WaitStatements == <<"wait", "result", "members">>

\* ListRelated: the edges of a collection, and the ones a relation selects.
EdgesOf ==
    [tenants |-> <<"sessions", "api_keys", "providers">>,
     sessions |-> <<"runs", "resources", "events", "memory">>,
     runs |-> <<"steps", "children", "waits">>,
     providers |-> <<"resources">>, resources |-> <<"provider">>]
RelatedEdges(collection, relation) ==
    SelectSeq(EdgesOf[collection], LAMBDA e : relation \in {"", e})

EdgeTo(x) == IF x.kind = "run" THEN "runs" ELSE "events"

HealthStatements == <<"count">>

(* A request arrives: the interceptor looks its bearer token up, then the  *)
(* handler checks what it can before it asks the database.                 *)
Ask(r, t, op, todo) ==
    LET known == Lookup(env, t) IN
    /\ reads[r].pc = "idle"
    /\ reads' = [reads EXCEPT ![r] =
                   [Unasked EXCEPT !.op = op, !.token = t, !.role = known.role,
                    !.start = {x \in rows : op = "ListRelated" => EdgeTo(x) \in ToSet(todo)},
                    !.pc = CASE known = NoOperator -> "unauthenticated"
                             [] known # NoOperator /\ todo = <<>> -> "invalid"
                             [] OTHER -> "reading",
                    !.todo = IF known = NoOperator THEN <<>> ELSE todo]]
    /\ UNCHANGED <<env, river, rows, wait, shifts>>

AskList(r, t) == \E c \in Names : Ask(r, t, c, <<"list">>)
AskGet(r, t) == \E g \in DOMAIN Rows : Ask(r, t, g, <<"get">>)
AskWait(r, t) == Ask(r, t, "GetWait", WaitStatements)
AskHealth(r, t) == Ask(r, t, "GetRuntimeHealth", HealthStatements)
AskTimeline(r, t) == Ask(r, t, "GetSessionTimeline", <<"page">>)
WhoAmI(r, t) == Ask(r, t, "WhoAmI", <<"me">>)
\* A cursor is refused, and so is a relation the collection does not have.
AskRelated(r, t) ==
    \E relation \in {"", "runs", "events", "steps"}, cursor \in BOOLEAN :
        Ask(r, t, "ListRelated", IF cursor THEN <<>> ELSE RelatedEdges("sessions", relation))

Reads(r, statement) == reads[r].pc = "reading" /\ Head(reads[r].todo) = statement
Still == UNCHANGED <<env, river, rows, wait, shifts>>

\* AdminStore.list: without a job table there are no jobs.
ListRows(r) ==
    /\ Reads(r, "list")
    /\ AnswerRead(r, "done",
                  IF reads[r].op = "jobs" /\ ~river THEN <<>>
                  ELSE <<Decode(Collections[reads[r].op])>>, FALSE)
    /\ Still

GetRow(r) ==
    /\ Reads(r, "get")
    /\ \/ AnswerRead(r, "not_found", <<>>, FALSE)
       \/ /\ reads[r].op = "GetJob" => river
          /\ AnswerRead(r, "done", <<Decode(Rows[reads[r].op])>>, FALSE)
    /\ Still

Identify(r) ==
    /\ Reads(r, "me")
    /\ AnswerRead(r, "done", <<reads[r].role>>, FALSE)
    /\ Still

\* GetWait: the summary, then the result, whose error is dropped, then the members.
Waiting(statement, fails) ==
    CASE statement = "wait" -> <<wait.result, wait.members>>
      [] statement = "result" -> wait.result /\ ~fails
      [] OTHER -> wait.members
WaitRow(r) ==
    /\ reads[r].op = "GetWait" /\ reads[r].pc = "reading"
    /\ LET statement == Head(reads[r].todo) IN
       \E fails \in BOOLEAN :
          /\ fails => statement = "result"
          /\ IF statement = "wait" /\ wait = NoWait THEN AnswerRead(r, "not_found", <<>>, FALSE)
             ELSE reads' = [reads EXCEPT
                    ![r].todo = Tail(@), ![r].failed = @ \/ fails,
                    ![r].got = Append(@, <<statement, Waiting(statement, fails)>>),
                    ![r].pc = IF Len(reads[r].todo) = 1 THEN "done" ELSE "reading"]
    /\ Still

\* GetRuntimeHealth drops every error: a count that failed is shown as zero.
Count(r) ==
    /\ Reads(r, "count")
    /\ \E fails \in BOOLEAN :
          AnswerRead(r, "done", <<IF fails THEN 0 ELSE Cardinality(rows)>>, FALSE)
    /\ Still

\* ORDER BY ts DESC, kind, id, and what follows a cursor in that order.
KindRank(x) == IF x.kind = "event" THEN 1 ELSE 2
TimelineBefore(x, y) ==
    \/ x.ts > y.ts
    \/ x.ts = y.ts /\ (KindRank(x) < KindRank(y) \/ (KindRank(x) = KindRank(y) /\ x.id < y.id))
TimelineAfter(c) ==
    {x \in rows : x.ts < c.ts \/ (x.ts = c.ts /\ (KindRank(x) > KindRank(c)
                                                   \/ (x.kind = c.kind /\ x.id > c.id)))}
First(s, n) == SubSeq(s, 1, IF Len(s) < n THEN Len(s) ELSE n)

\* One page; while there are more the client asks again with the cursor.
TimelinePage(r) ==
    /\ Reads(r, "page")
    /\ LET got == reads[r].got
           left == IF got = <<>> THEN rows ELSE TimelineAfter(Last(got))
           found == First(SetToSortSeq(left, TimelineBefore), RelatedLimit + 1)
           shown == got \o First(found, RelatedLimit)
       IN IF Len(found) > RelatedLimit THEN reads' = [reads EXCEPT ![r].got = shown]
          ELSE AnswerRead(r, "done", shown, FALSE)
    /\ Still

\* One edge of ListRelated, newest first, and after the last one the cut.
EdgeRows(e) ==
    SetToSortSeq({x \in rows : EdgeTo(x) = e}, LAMBDA x, y : TimelineBefore(x, y))
Edge(e) == First(EdgeRows(e), RelatedLimit + 1)
FollowEdge(r) ==
    /\ reads[r].op = "ListRelated" /\ reads[r].pc = "reading"
    /\ LET items == reads[r].got \o Edge(Head(reads[r].todo)) IN
       IF Len(reads[r].todo) > 1 THEN reads' = [reads EXCEPT ![r].todo = Tail(@), ![r].got = items]
       ELSE AnswerRead(r, "done", First(items, RelatedLimit), Len(items) > RelatedLimit)
    /\ Still

\* While a request of several statements is read, the core and its workers go
\* on: rows are added, possibly with a time before that of a row already
\* there, and the wait is created and resolved.
UnderWay ==
    /\ shifts < MaxWorldMoves
    /\ \E r \in Readers : reads[r].pc = "reading"
                           /\ reads[r].op \in {"GetWait", "GetSessionTimeline", "ListRelated"}

AddRow ==
    /\ UnderWay
    /\ \E x \in RowSpace \ rows : rows' = rows \cup {x}
    /\ shifts' = shifts + 1 /\ UNCHANGED <<env, river, wait, reads>>

MoveWait ==
    /\ UnderWay
    /\ \/ wait = NoWait /\ wait' = [members |-> 2, state |-> "open", result |-> FALSE]
       \/ wait.state = "open" /\ wait' = [wait EXCEPT !.state = "resolved", !.result = TRUE]
    /\ shifts' = shifts + 1 /\ UNCHANGED <<env, river, rows, reads>>

ReadNext ==
    \/ \E r \in Readers :
          \/ \E t \in {"", "t1", "t2", "t3"} :
                AskList(r, t) \/ AskGet(r, t) \/ AskWait(r, t) \/ AskHealth(r, t)
                \/ AskTimeline(r, t) \/ AskRelated(r, t) \/ WhoAmI(r, t)
          \/ ListRows(r) \/ GetRow(r) \/ Identify(r) \/ WaitRow(r) \/ Count(r)
          \/ TimelinePage(r) \/ FollowEdge(r)
    \/ AddRow \/ MoveWait

ReadSpec == ReadInit /\ [][ReadNext]_readVars

----------------------------------------------------------------------------
(* Properties.                                                             *)

Done(r, op) == reads[r].pc = "done" /\ reads[r].op = op

(* Positions (AdminStore.List*, Get*, the Select lists of descriptors.go): *)
(* every field of every message is filled, with the column it is named     *)
(* for, and no conversion turns it into a zero value.  Two details leave a *)
(* count of their summary at zero (GetRun, GetProvider), unlike the list.  *)
ShownIsStored ==
    \A r \in Readers : reads[r].pc = "done" /\ reads[r].op \in Names \cup DOMAIN Rows =>
        LET c == IF reads[r].op \in Names THEN Collections[reads[r].op] ELSE Rows[reads[r].op]
        IN \A i \in DOMAIN reads[r].got :
              /\ \A field \in reads[r].got[i] : field[1] = field[2]
              /\ {field[1] : field \in reads[r].got[i]} \cup c.made = c.message

(* GetWait reads the summary, the result and the members one after the     *)
(* other: while the wait is being resolved, a summary that says there is a *)
(* result still comes with it, unless that statement failed, and with all  *)
(* of the members it counts.                                               *)
WaitShownWhole ==
    \A r \in Readers : Done(r, "GetWait") /\ ~reads[r].failed =>
        LET said(s) == (CHOOSE x \in ToSet(reads[r].got) : x[1] = s)[2]
        IN said("wait")[1] => said("result") /\ said("wait")[2] = said("members")

(* Operators (LoadTokens, Lookup, the interceptor): a read is answered     *)
(* only for a configured token and with its role; any bearer is let in as  *)
(* an admin only where no token at all is configured.                      *)
OnlyKnownOperators ==
    \A r \in Readers : reads[r].pc \notin {"idle", "unauthenticated"} =>
        \/ Entry(reads[r].token, reads[r].role) \in LoadTokens(env)
        \/ env.tokens = Unset /\ env.token = "" /\ env.dev /\ reads[r].role = "admin"

(* ListRelated: an answer without has_more shows every row that was there  *)
(* when the request came, although the edges are read one by one while     *)
(* rows are added, and although each of them is cut.                       *)
NoneHidden ==
    \A r \in Readers : Done(r, "ListRelated") /\ ~reads[r].more =>
        reads[r].start \subseteq ToSet(reads[r].got)

(* GetSessionTimeline: page by page, in the order of time descending and   *)
(* then kind and id ascending, a client sees every row that was there when *)
(* it began, each once, however rows are added meanwhile.                  *)
TimelineWhole ==
    \A r \in Readers : Done(r, "GetSessionTimeline") =>
        /\ reads[r].start \subseteq ToSet(reads[r].got)
        /\ \A i \in 2 .. Len(reads[r].got) : TimelineBefore(reads[r].got[i - 1], reads[r].got[i])

(* What an operator is shown is whole and true, and only an operator is    *)
(* shown anything.                                                         *)
ReadsWhole ==
    /\ OnlyKnownOperators /\ ShownIsStored
    /\ WaitShownWhole /\ NoneHidden /\ TimelineWhole
=============================================================================
