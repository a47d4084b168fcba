----------------------------- MODULE StepStream -----------------------------
(***************************************************************************)
(* What a delivery of a step job does between its claim and its commit     *)
(* (loop/step.go): it announces the attempt, compacts a long history,      *)
(* streams the model's answer through the delta batcher into the event     *)
(* log, falls back to a second model, and commits the answer to the run's  *)
(* history.  AgentLoop takes all of this as one step.  Here appends made   *)
(* outside a transaction fail and are only logged, deliveries of one job   *)
(* overlap or die, and the run is cancelled in between.  The answer is a   *)
(* sequence of pieces; a buffered byte is a piece.                         *)
(***************************************************************************)
EXTENDS Integers, Sequences, FiniteSets, SequencesExt, EventKinds

CONSTANTS
    Deliveries,  \* 1 .. n: hand-overs of step jobs to a worker, in this order
    MaxStep,     \* bound: the last step
    MaxPieces,   \* bound: pieces of all answers
    MaxBytes,    \* deltaBatcher.maxBytes
    LongAt,      \* messages that make a history longer than 32 KiB
    Fallbacks,   \* whether the run's model has a fallback
    MaxTrouble   \* bound: lost appends, errors, crashes and cancels

ASSUME StreamAssumption ==
    /\ Deliveries \subseteq Nat
    /\ MaxStep \in Nat /\ MaxPieces \in Nat /\ LongAt \in Nat /\ MaxTrouble \in Nat
    /\ MaxBytes \in Nat \ {0} /\ Fallbacks \in BOOLEAN

VARIABLES
    state,      \* agent_runs.state
    cancel,     \* agent_runs.cancel_requested_at is set
    history,    \* agent_runs.history: the answers, and the compaction marker
    steps,      \* run_steps: the attempt and the delivery of each committed step
    events,     \* the session's log, the events of this run
    jobs,       \* step jobs in the queue
    dlv,        \* what each delivery has in memory
    trouble     \* what went wrong so far
streamVars == <<state, cancel, history, steps, events, jobs, dlv, trouble>>

NotDelivered == [pc |-> "idle", step |-> 0, attempt |-> 0, sawLog |-> 0,
          env |-> [msgs |-> <<>>, compacted |-> FALSE],
          text |-> <<>>, reason |-> <<>>, index |-> 0, timer |-> FALSE,
          model |-> 1, heard |-> <<>>, said |-> <<>>, called |-> 0, lossy |-> FALSE]

TerminalRun == {"completed", "failed", "cancelled"}
Event(d, kind, index, body) ==
    [kind |-> kind, step |-> dlv[d].step, attempt |-> dlv[d].attempt, index |-> index,
     body |-> body, by |-> d]
Has(seq, kind) == SelectSeq(seq, LAMBDA x : x.k = kind)

\* appendEvent, for several events: one that fails is logged and left out.  The
\* others are picked by their places, in order.
Picks(es) ==
    {pick \in UNION {[1 .. n -> DOMAIN es] : n \in 0 .. Len(es)} :
        \A i, j \in DOMAIN pick : i < j => pick[i] < pick[j]}
AppendAt(cost, d, after, es) ==
    \E pick \in Picks(es) :
        LET n == Len(es) - Len(pick)
        IN  /\ trouble + n + cost <= MaxTrouble /\ trouble' = trouble + n + cost
            /\ events' = events \o [i \in DOMAIN pick |-> es[pick[i]]]
            /\ dlv' = [dlv EXCEPT ![d] = [after EXCEPT !.lossy = @ \/ n > 0]]
AppendEvents(d, after, es) == AppendAt(0, d, after, es)
Trouble == trouble < MaxTrouble /\ trouble' = trouble + 1

----------------------------------------------------------------------------
(* The delta batcher.                                                      *)

Flushed(d, t) ==
    (IF t.reason = <<>> THEN <<>> ELSE <<Event(d, "reasoning_delta", t.index, t.reason)>>)
    \o (IF t.text = <<>> THEN <<>>
        ELSE <<Event(d, "text_delta", t.index + (IF t.reason = <<>> THEN 0 ELSE 1), t.text)>>)
AfterFlush(t) ==
    [t EXCEPT !.reason = <<>>, !.text = <<>>, !.timer = FALSE,
              !.index = @ + (IF t.reason = <<>> THEN 0 ELSE 1) + (IF t.text = <<>> THEN 0 ELSE 1)]
flushLocked(d, t, more) == AppendEvents(d, AfterFlush(t), Flushed(d, t) \o more)

add(d, t) ==
    IF Len(t.text) + Len(t.reason) >= MaxBytes
    THEN flushLocked(d, t, <<>>)
    ELSE dlv' = [dlv EXCEPT ![d] = [t EXCEPT !.timer = TRUE]] /\ UNCHANGED <<events, trouble>>

\* The interval is over.
Timer(d) ==
    /\ dlv[d].timer /\ dlv[d].pc = "stream"
    /\ flushLocked(d, dlv[d], <<>>)
    /\ UNCHANGED <<state, cancel, history, steps, jobs>>

----------------------------------------------------------------------------
(* Terminal transitions, each in a transaction of its own.                 *)

Leave(d, es, st) ==
    /\ state' = st /\ events' = events \o es
    /\ dlv' = [dlv EXCEPT ![d].pc = "done"]
    /\ UNCHANGED <<cancel, history, steps>>
Ack(d) == jobs' = jobs \ {dlv[d].step}

failRun(d) ==
    /\ IF state \in TerminalRun THEN Leave(d, <<>>, state)
       ELSE Leave(d, <<Event(d, "run_failed", 0, <<>>)>>, "failed")
    /\ Ack(d)
markCancelledTx(d) == Leave(d, <<Event(d, "run_cancelled", 0, <<>>)>>, "cancelled")

\* An error, a crash or the end of the job's context: the job is delivered again.
GiveBack(d) ==
    /\ dlv[d].pc \notin {"idle", "done"}
    /\ dlv' = [dlv EXCEPT ![d].pc = "done"] /\ Trouble
    /\ UNCHANGED <<state, cancel, history, steps, events, jobs>>

----------------------------------------------------------------------------
(* The delivery.                                                           *)

countAttemptsCommitted(s) == IF s \in DOMAIN steps THEN 1 ELSE 0  \* mutant
StartsOf(s) == {i \in DOMAIN events : events[i].kind = "step_started" /\ events[i].step = s}
countAttempts(s) == Cardinality(StartsOf(s))

claim(d) ==
    /\ dlv[d].pc = "idle" /\ \A c \in Deliveries : c < d => dlv[c].pc # "idle"
    /\ \E s \in jobs :
         IF state \notin {"pending", "running"} \/ (~cancel /\ s \in DOMAIN steps)
         THEN /\ dlv' = [dlv EXCEPT ![d].pc = "done"] /\ jobs' = jobs \ {s}
              /\ UNCHANGED <<state, cancel, history, steps, events, trouble>>
         ELSE IF cancel THEN markCancelledTx(d) /\ jobs' = jobs \ {s} /\ UNCHANGED trouble
         ELSE /\ state' = "running"
              /\ dlv' = [dlv EXCEPT ![d] = [NotDelivered EXCEPT
                            !.pc = "claimed", !.step = s, !.attempt = countAttempts(s) + 1,
                            !.sawLog = Len(events), !.env = history]]
              /\ UNCHANGED <<cancel, history, steps, events, jobs, trouble>>

Announce(d) ==
    /\ dlv[d].pc = "claimed"
    /\ AppendEvents(d, [dlv[d] EXCEPT !.pc = "resolve"], <<Event(d, "step_started", 0, <<>>)>>)
    /\ UNCHANGED <<state, cancel, history, steps, jobs>>

\* ResolveModel, Registry.Resolve and DecodeEnvelope: a missing credential, an
\* unknown loop and a corrupt history end the run; any other error is GiveBack.
ResolveFails(d) == dlv[d].pc = "resolve" /\ failRun(d) /\ Trouble

\* SetHistory takes no lock, and its error is ignored.
Compact(d) ==
    LET e == dlv[d].env
        marked == [e EXCEPT !.compacted = TRUE]
    IN  /\ dlv[d].pc = "resolve"
        /\ IF Len(e.msgs) >= LongAt /\ ~e.compacted
           THEN \E fails \in {0, 1} :
                  /\ history' = IF fails = 0 THEN marked ELSE history
                  /\ AppendAt(fails, d, [dlv[d] EXCEPT !.pc = "stream", !.env = marked],
                              <<Event(d, "history_compacted", 0, <<>>)>>)
           ELSE /\ dlv' = [dlv EXCEPT ![d].pc = "stream"]
                /\ UNCHANGED <<history, events, trouble>>
        /\ UNCHANGED <<state, cancel, steps, jobs>>

\* The model says something more.
Piece(d, kind) == [k |-> kind, n |-> Len(dlv[d].heard) + 1, m |-> dlv[d].model]
Heard(d, kind) == [dlv[d] EXCEPT !.heard = Append(@, Piece(d, kind)),
                                 !.said = Append(@, Piece(d, kind))]
Pieces == FoldFunction(LAMBDA t, n : n + Len(t.heard), 0, dlv)
Streaming(d) == dlv[d].pc = "stream" /\ Pieces < MaxPieces

OnTextDelta(d) ==
    /\ Streaming(d)
    /\ add(d, [Heard(d, "text") EXCEPT !.text = Append(@, Piece(d, "text"))])
    /\ UNCHANGED <<state, cancel, history, steps, jobs>>

\* The stream of the fallback has no callback for reasoning or tools.
OnReasoningDelta(d) ==
    /\ Streaming(d)
    /\ IF dlv[d].model = 1
       THEN add(d, [Heard(d, "reason") EXCEPT !.reason = Append(@, Piece(d, "reason"))])
       ELSE dlv' = [dlv EXCEPT ![d] = Heard(d, "reason")] /\ UNCHANGED <<events, trouble>>
    /\ UNCHANGED <<state, cancel, history, steps, jobs>>

OnToolCallUnflushed(d) ==  \* mutant
    /\ Streaming(d)
    /\ IF dlv[d].model = 1
       THEN AppendEvents(d, [Heard(d, "call") EXCEPT !.called = @ + 1],
                         <<Event(d, "tool_call_started", 0, <<Piece(d, "call")>>)>>)
       ELSE dlv' = [dlv EXCEPT ![d] = Heard(d, "call")] /\ UNCHANGED <<events, trouble>>
    /\ UNCHANGED <<state, cancel, history, steps, jobs>>
OnToolCall(d) ==
    /\ Streaming(d)
    /\ IF dlv[d].model = 1
       THEN flushLocked(d, [Heard(d, "call") EXCEPT !.called = @ + 1],
                        <<Event(d, "tool_call_started", 0, <<Piece(d, "call")>>)>>)
       ELSE dlv' = [dlv EXCEPT ![d] = Heard(d, "call")] /\ UNCHANGED <<events, trouble>>
    /\ UNCHANGED <<state, cancel, history, steps, jobs>>

OnToolResult(d) ==
    /\ dlv[d].pc = "stream" /\ dlv[d].called > 0
    /\ AppendEvents(d, [dlv[d] EXCEPT !.called = @ - 1], <<Event(d, "tool_result", 0, <<>>)>>)
    /\ UNCHANGED <<state, cancel, history, steps, jobs>>

StreamEnds(d) ==
    /\ dlv[d].pc = "stream" /\ dlv[d].called = 0
    /\ flushLocked(d, [dlv[d] EXCEPT !.pc = "commit"], <<>>)
    /\ UNCHANGED <<state, cancel, history, steps, jobs>>

\* A retryable error of the first model: the fallback starts over, in the same
\* attempt and with the same batcher.  Its credential may not resolve.
StreamFails(d, retryable) ==
    LET fall == retryable /\ Fallbacks /\ dlv[d].model = 1
        t == [dlv[d] EXCEPT !.model = 2, !.said = <<>>, !.called = 0]
    IN  /\ dlv[d].pc = "stream"
        /\ IF fall THEN \E pc \in {"stream", "broken"} :
                            AppendAt(1, d, [AfterFlush(t) EXCEPT !.pc = pc],
                                     Flushed(d, t) \o <<Event(d, "model_fallback", 0, <<>>)>>)
           ELSE AppendAt(1, d, [AfterFlush(dlv[d]) EXCEPT !.pc = "broken"], Flushed(d, dlv[d]))
        /\ UNCHANGED <<state, cancel, history, steps, jobs>>

\* pollCancel has seen the request and cancelled the stream's context.
pollCancel(d) ==
    /\ dlv[d].pc = "stream" /\ cancel
    /\ flushLocked(d, [dlv[d] EXCEPT !.pc = "aborted"], <<>>)
    /\ UNCHANGED <<state, cancel, history, steps, jobs>>

handleStreamError(d) ==
    /\ \/ dlv[d].pc = "aborted" /\ markCancelledTx(d) /\ Ack(d)
       \/ dlv[d].pc = "broken" /\ failRun(d)
    /\ UNCHANGED trouble

\* ErrAlreadyExists: run_steps has a primary key.
Duplicate(s) == s \in DOMAIN steps
InsertStep(s, d) ==
    [x \in DOMAIN steps \cup {s} |->
        IF x \in DOMAIN steps THEN steps[x] ELSE [attempt |-> dlv[d].attempt, by |-> d]]

\* The step, its event and what follows from it, in one transaction.  SessionTx
\* has the hook and the waits of it.
commitOutcome(d) ==
    LET s == dlv[d].step
        finished == Event(d, "step_finished", 0, <<>>)
    IN  /\ dlv[d].pc = "commit"
        /\ IF state # "running" \/ (~cancel /\ Duplicate(s))
           THEN Leave(d, <<>>, state) /\ Ack(d)
           ELSE IF cancel THEN markCancelledTx(d) /\ Ack(d)
           ELSE /\ history' = [dlv[d].env EXCEPT !.msgs =
                                  Append(@, [step |-> s, by |-> d, said |-> dlv[d].said])]
                /\ steps' = InsertStep(s, d)
                /\ \/ /\ s < MaxStep
                      /\ jobs' = (jobs \ {s}) \cup {s + 1} /\ events' = Append(events, finished)
                      /\ UNCHANGED state
                   \/ /\ state' = "awaiting" /\ jobs' = jobs \ {s}
                      /\ events' = events \o <<finished, Event(d, "run_awaiting", 0, <<>>)>>
                   \/ /\ state' = "completed" /\ jobs' = jobs \ {s}
                      /\ events' = events \o <<finished, Event(d, "run_completed", 0, <<>>)>>
                /\ dlv' = [dlv EXCEPT ![d].pc = "done"]
                /\ UNCHANGED cancel
        /\ UNCHANGED trouble

\* The model returned no step.
NoStep(d) == dlv[d].pc = "commit" /\ dlv[d].said = <<>> /\ failRun(d) /\ Trouble

\* RunService.CancelRun, for a run that is not terminal.
RequestCancel ==
    /\ state \notin TerminalRun /\ ~cancel /\ cancel' = TRUE /\ Trouble
    /\ UNCHANGED <<state, history, steps, events, jobs, dlv>>

----------------------------------------------------------------------------
StreamInit ==
    /\ state = "pending" /\ cancel = FALSE
    /\ history = [msgs |-> <<>>, compacted |-> FALSE]
    /\ steps = <<>> /\ events = <<>> /\ jobs = {0}
    /\ dlv = [d \in Deliveries |-> NotDelivered] /\ trouble = 0

Deliver(d) ==
    \/ claim(d) \/ Announce(d) \/ ResolveFails(d) \/ Compact(d)
    \/ OnTextDelta(d) \/ OnReasoningDelta(d) \/ OnToolCall(d) \/ OnToolResult(d) \/ Timer(d)
    \/ StreamEnds(d) \/ pollCancel(d) \/ handleStreamError(d)
    \/ \E retryable \in BOOLEAN : StreamFails(d, retryable)
    \/ commitOutcome(d) \/ NoStep(d) \/ GiveBack(d)
StreamNext == RequestCancel \/ \E d \in Deliveries : Deliver(d)
StreamSpec == StreamInit /\ [][StreamNext]_streamVars

----------------------------------------------------------------------------
(* Properties.                                                             *)

(* Types.  A buffer never holds a whole flush, and the timer runs whenever *)
(* something is buffered: nothing waits for a flush that never comes.      *)
StreamTypeOK ==
    /\ state \in {"pending", "running", "awaiting"} \cup TerminalRun
    /\ cancel \in BOOLEAN /\ trouble \in 0 .. MaxTrouble
    /\ jobs \subseteq 0 .. MaxStep /\ DOMAIN steps \subseteq 0 .. MaxStep
    /\ \A d \in Deliveries :
         /\ Len(dlv[d].text) + Len(dlv[d].reason) < MaxBytes
         /\ dlv[d].pc = "stream" /\ dlv[d].text \o dlv[d].reason # <<>> => dlv[d].timer

Written1(d, kinds) ==
    LET own == SelectSeq(events, LAMBDA e : e.by = d /\ e.kind \in kinds)
    IN  FlattenSeq([i \in DOMAIN own |-> own[i].body])
Deltas(d) == SelectSeq(events, LAMBDA e : e.by = d /\ e.kind \in {"text_delta", "reasoning_delta"})

(* Order of the log (deltaBatcher, OnToolCall): however flushes by size,   *)
(* by timer and before tool calls interleave, what a delivery appended,    *)
(* followed by its buffers, is what its model said so far: text and tool   *)
(* calls in the order they came, reasoning in its own order, and delta     *)
(* indexes count up from 0.  A delivery that lost an append, or fell back,    *)
(* is excused.                                                             *)
LogFollowsModel ==
    \A d \in Deliveries : ~dlv[d].lossy /\ dlv[d].model = 1 =>
        /\ Written1(d, {"text_delta", "tool_call_started"}) \o dlv[d].text
             = SelectSeq(dlv[d].heard, LAMBDA x : x.k \in {"text", "call"})
        /\ Written1(d, {"reasoning_delta"}) \o dlv[d].reason = Has(dlv[d].heard, "reason")
        /\ LET deltas == Deltas(d)
           IN  \A i \in DOMAIN deltas : deltas[i].index = i - 1

(* Supersession (countAttempts): a delivery that claimed a step after      *)
(* another one's step_started was in the log has a later attempt than it.  *)
AttemptsApart ==
    LET started == {i \in DOMAIN events : events[i].kind = "step_started"}
    IN  \A i, j \in started :
            events[i].step = events[j].step /\ dlv[events[j].by].sawLog >= i
                => events[j].attempt > events[i].attempt

(* The winner's answer (commitOutcome, InsertStep): with overlapping and   *)
(* repeated deliveries, history holds at most one answer per step, in the  *)
(* order of the steps, and it is that of the delivery run_steps names.     *)
HistoryIsOfRecord ==
    /\ \A i, j \in DOMAIN history.msgs : i < j => history.msgs[i].step < history.msgs[j].step
    /\ \A i \in DOMAIN history.msgs :
         /\ history.msgs[i].step \in DOMAIN steps
         /\ steps[history.msgs[i].step].by = history.msgs[i].by

(* Event kinds (http/convert.go): every event appended, of this run and of *)
(* the other writers, has a message, and no field of it is lost in it.     *)
ReadableKinds ==
    {kind \in DOMAIN Written : EventKind(kind) = kind /\ decodeAs(kind, Written[kind]) = Written[kind]}
EventsReadable ==
    /\ DOMAIN Written \subseteq ReadableKinds
    /\ \A i \in DOMAIN events : events[i].kind \in ReadableKinds

(* A reader of the log gets what the model said, in its order, and nothing *)
(* of it is lost on the way to the API.                                    *)
StreamTold == StreamTypeOK /\ LogFollowsModel /\ EventsReadable

(* Deliveries of one step are told apart in the log, and one of them wins. *)
DeliveriesApart == AttemptsApart /\ HistoryIsOfRecord
=============================================================================
