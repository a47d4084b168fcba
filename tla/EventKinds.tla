----------------------------- MODULE EventKinds -----------------------------
(***************************************************************************)
(* The event log stores a kind and JSON.  Writers encode a Go struct of    *)
(* event.go; the transport decodes the JSON into the generated message of  *)
(* that kind and silently drops every field the message does not have      *)
(* (http/convert.go).  A struct and a message are the names of their       *)
(* fields.                                                                 *)
(***************************************************************************)

(* What is written (event.go).                                             *)
UserMessagePayload == {"text"}
AnnotationPayload == {"text"}
RunStartedPayload == {"run_id", "prompt"}
StepStartedPayload == {"run_id", "step_index", "attempt"}
TextDeltaPayload == {"run_id", "step_index", "attempt", "delta_index", "text"}
ReasoningDeltaPayload == {"run_id", "step_index", "attempt", "delta_index", "text"}
ToolCallStartedPayload == {"run_id", "step_index", "tool_call_id", "name", "input"}
ToolResultPayload == {"run_id", "step_index", "tool_call_id", "name", "content", "is_error"}
StepFinishedPayload == {"run_id", "step_index", "tokens_in", "tokens_out", "finish_reason"}
RunAwaitingPayload == {"run_id", "question"}
RunCompletedPayload == {"run_id", "final_text"}
RunFailedPayload == {"run_id", "reason", "message"}
RunCancelledPayload == {"run_id"}
ResourceEventPayload == {"resource_id", "kind", "name", "provider_instance_id", "endpoint",
                         "message", "epoch"}
ExecPreviewRanPayload == {"resource_id", "command", "output", "is_error"}
RunSpawnedPayload == {"parent_run_id", "child_run_id"}
MemoryEventPayload == {"key", "updated_by_type", "updated_by_id", "value_json"}
SessionLabelsChangedPayload == {"labels"}
HistoryCompactedPayload == {"run_id", "covered_messages", "summary_tokens"}
ModelFallbackPayload == {"run_id", "from", "to", "reason"}
HookFiredPayload == {"hook", "run_id"}
PermissionDeniedPayload == {"run_id", "tool", "resource_id", "reason"}

\* The kinds somebody appends.  periodic_prompt_fired is declared too; nobody does.
Written ==
    [user_message |-> UserMessagePayload, annotation |-> AnnotationPayload,
     run_started |-> RunStartedPayload, step_started |-> StepStartedPayload,
     text_delta |-> TextDeltaPayload, reasoning_delta |-> ReasoningDeltaPayload,
     tool_call_started |-> ToolCallStartedPayload, tool_result |-> ToolResultPayload,
     step_finished |-> StepFinishedPayload, run_awaiting |-> RunAwaitingPayload,
     run_completed |-> RunCompletedPayload, run_failed |-> RunFailedPayload,
     run_cancelled |-> RunCancelledPayload, resource_requested |-> ResourceEventPayload,
     resource_provisioning |-> ResourceEventPayload, resource_ready |-> ResourceEventPayload,
     resource_failed |-> ResourceEventPayload, resource_suspended |-> ResourceEventPayload,
     resource_terminating |-> ResourceEventPayload, resource_terminated |-> ResourceEventPayload,
     exec_preview_ran |-> ExecPreviewRanPayload, run_spawned |-> RunSpawnedPayload,
     memory_set |-> MemoryEventPayload, memory_deleted |-> MemoryEventPayload,
     permission_denied |-> PermissionDeniedPayload,
     history_compacted |-> HistoryCompactedPayload, model_fallback |-> ModelFallbackPayload,
     hook_fired |-> HookFiredPayload, session_labels_changed |-> SessionLabelsChangedPayload]

(* What it is read into (event.pb.go).                                     *)
UserMessage == {"text"}
Annotation == {"text"}
RunStarted == {"run_id", "prompt"}
StepStarted == {"run_id", "step_index", "attempt"}
TextDelta == {"run_id", "step_index", "attempt", "delta_index", "text"}
ReasoningDelta == {"run_id", "step_index", "attempt", "delta_index", "text"}
ToolCallStarted == {"run_id", "step_index", "tool_call_id", "name", "input"}
ToolResult == {"run_id", "step_index", "tool_call_id", "name", "content", "is_error"}
StepFinished == {"run_id", "step_index", "tokens_in", "tokens_out", "finish_reason"}
RunAwaiting == {"run_id", "question"}
RunCompleted == {"run_id", "final_text"}
RunFailed == {"run_id", "reason", "message"}
RunCancelled == {"run_id"}
ResourceLifecycle == {"resource_id", "kind", "name", "provider_instance_id", "endpoint",
                      "message", "epoch"}
ExecPreviewRan == {"resource_id", "command", "output", "is_error"}
RunSpawned == {"parent_run_id", "child_run_id"}
MemoryChanged == {"key", "updated_by_type", "updated_by_id", "value_json"}
HistoryCompacted == {"run_id", "covered_messages", "summary_tokens"}
ModelFallback == {"run_id", "from", "to", "reason"}
HookFired == {"hook", "run_id"}
PeriodicPromptFired == {"run_id", "prompt"}
PermissionDenied == {"run_id", "tool", "resource_id", "reason"}
SessionLabelsChanged == {"labels"}

\* A kind without a message is an error, and ends the stream it was read for.
payloadFromDomain ==
    [user_message |-> UserMessage, annotation |-> Annotation, run_started |-> RunStarted,
     step_started |-> StepStarted, text_delta |-> TextDelta, reasoning_delta |-> ReasoningDelta,
     tool_call_started |-> ToolCallStarted, tool_result |-> ToolResult,
     step_finished |-> StepFinished, run_awaiting |-> RunAwaiting,
     run_completed |-> RunCompleted, run_failed |-> RunFailed, run_cancelled |-> RunCancelled,
     resource_requested |-> ResourceLifecycle, resource_provisioning |-> ResourceLifecycle,
     resource_ready |-> ResourceLifecycle, resource_suspended |-> ResourceLifecycle,
     resource_failed |-> ResourceLifecycle, resource_terminating |-> ResourceLifecycle,
     resource_terminated |-> ResourceLifecycle, exec_preview_ran |-> ExecPreviewRan,
     run_spawned |-> RunSpawned, memory_set |-> MemoryChanged, memory_deleted |-> MemoryChanged,
     history_compacted |-> HistoryCompacted, model_fallback |-> ModelFallback,
     hook_fired |-> HookFired, periodic_prompt_fired |-> PeriodicPromptFired,
     session_labels_changed |-> SessionLabelsChanged, permission_denied |-> PermissionDenied]

\* decodeAs: the fields of the message that the stored JSON fills.
decodeAs(kind, payload) == payload \cap payloadFromDomain[kind]

\* The client's name for what it got (sdk/events.go) is the kind itself.
EventKind(kind) == IF kind \in DOMAIN payloadFromDomain THEN kind ELSE "unknown"

\* A human appends messages and annotations, nothing else.
payloadToDomain == {"user_message", "annotation"}
=============================================================================
