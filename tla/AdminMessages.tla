--------------------------- MODULE AdminMessages ---------------------------
(***************************************************************************)
(* The messages the admin API answers with, as the generated code defines  *)
(* them: the names of their fields.  A detail holds a summary; its own     *)
(* fields are named here for the columns they show.  (The id of a job is   *)
(* called job_id: it is a number, and every other id is a string.)         *)
(***************************************************************************)

TenantSummary == {"id", "name", "created_at", "session_count", "run_count", "api_key_count"}
APIKeySummary == {"id", "tenant_id", "name", "scope", "prefix", "created_at", "revoked_at",
                  "key_hash_prefix", "has_ciphertext"}
SessionSummary == {"id", "tenant_id", "title", "labels", "last_seq", "created_at", "archived_at",
                   "event_count", "run_count", "resource_count"}
EventSummary == {"session_id", "tenant_id", "seq", "ts", "actor_kind", "actor_id",
                 "actor_display", "kind", "payload_bytes", "payload_preview"}
RunSummary == {"id", "session_id", "tenant_id", "state", "loop_kind", "loop_version",
               "parent_run_id", "spawn_key", "cohort_id", "cohort_ordinal", "failure_reason",
               "actor_kind", "actor_id", "actor_display", "created_at", "updated_at",
               "cancel_requested_at", "step_count", "prompt_bytes", "history_bytes", "has_result"}
RunStepSummary == {"run_id", "tenant_id", "session_id", "step_index", "attempt", "tokens_in",
                   "tokens_out", "finish_reason", "created_at"}
ResourceSummary == {"id", "tenant_id", "session_id", "provider_instance_id", "kind", "state",
                    "endpoint", "epoch", "failure_message", "created_by_run_id", "created_at",
                    "updated_at", "ready_at", "terminated_at", "spec_bytes", "handle_bytes",
                    "has_token"}
ProviderSummary == {"id", "tenant_id", "kind", "name", "state", "last_healthy_at", "created_at",
                    "config_bytes", "capabilities_bytes", "resource_count"}
CredentialSummary == {"tenant_id", "kind", "name", "created_at", "rotated_at",
                      "ciphertext_bytes", "encrypted"}
PeriodicPromptSummary == {"id", "tenant_id", "session_id", "run_id", "schedule", "enabled",
                          "next_at", "created_at", "prompt_bytes", "prompt_preview"}
MemorySummary == {"session_id", "tenant_id", "key", "updated_by_kind", "updated_by_id",
                  "updated_at", "value_bytes"}
WaitSummary == {"id", "parent_run_id", "tenant_id", "session_id", "step_index", "tool_call_id",
                "kind", "state", "timeout_policy", "deadline", "created_at", "resolved_at",
                "resumed_at", "member_count", "has_result"}
JobSummary == {"job_id", "kind", "state", "attempt", "max_attempts", "queue", "priority",
               "created_at", "scheduled_at", "attempted_at", "finalized_at", "errors_preview",
               "errors_count", "tags"}
AuditEventSummary == {"id", "ts", "operator_id", "operator_role", "request_id", "command",
                      "targets", "reason", "preview_hash", "before_summary", "after_summary",
                      "result", "error", "source_ip", "build_version", "idempotency_key"}

TenantDetail == TenantSummary
SessionDetail == SessionSummary
CredentialDetail == CredentialSummary
EventDetail == EventSummary \cup {"payload"}
RunDetail == RunSummary \cup {"model_config", "policy", "result", "failure_message", "prompt"}
RunHistoryBlob == {"run_id", "history"}
ResourceDetail == ResourceSummary \cup {"spec", "handle", "token_hash_prefix"}
ProviderDetail == ProviderSummary \cup {"config", "capabilities"}
PeriodicPromptDetail == PeriodicPromptSummary \cup {"prompt"}
MemoryDetail == MemorySummary \cup {"value"}
JobDetail == JobSummary \cup {"args", "metadata", "errors"}
============================================================================
