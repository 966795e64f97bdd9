---------------------------- MODULE GatewayRequest ----------------------------
(* One chat completion request in the Sentinel gateway: admission, policy     *)
(* enforcement, the provider chain with its fallbacks, the inspection of the  *)
(* answer, and the audit record that ends it (routes/chat_completions.py,     *)
(* router/selection.py, middleware/audit.py, terminal_audit_wrapper.py).      *)
(*                                                                            *)
(* A request is served by one task, so its steps are sequential; what makes   *)
(* it hard is that every await may fail, that a stream is inspected piece by  *)
(* piece after its status was sent, and that the client may leave at any time.*)
(* Text is a sequence of symbols, one symbol is one token; a detector finds   *)
(* Secret in the text it is shown (the detectors themselves are not modelled).*)
(* A request may ask for several choices: a stream mixes their pieces, and    *)
(* the client puts each choice together by its index.                         *)
EXTENDS Integers, Sequences, SequencesExt

CONSTANTS
    Chain,          \* the tenant's fallback_order, a sequence of providers
    Usable,         \* providers that are allowed and have credentials
    MaxFallbacks,   \* settings.router_max_fallbacks
    Rate,           \* Rate[p]: cost of a token at provider p
    Estimate,       \* tokens a request is estimated to cost before the call
    Ceiling,        \* policy.cost_ceiling_cents
    BudgetLeft,     \* tokens left in the tightest active budget at entry
    Symbols,        \* what texts are made of
    Secret,         \* what the outbound detector looks for
    Marker,         \* [REDACTED:...], which no detector looks for
    MaxChoices,     \* bound on n, the choices a request asks for
    Chunks,         \* what a provider may send at once, the deltas of two choices
    Reported,       \* completion tokens a provider may report, 0 without a usage block
    BufLen,         \* stream_inspect_buffer_bytes
    MaxText,        \* bound on the length of a streamed answer
    MaxGatewayFaults \* bound on failed audit appends

\* The piece of one choice in a chunk.
Deltas == [choice : 1..MaxChoices, text : Seq(Symbols)]

ASSUME GatewayAssumption ==
    /\ MaxFallbacks \in Nat /\ Estimate \in Nat /\ Ceiling \in Nat
    /\ BudgetLeft \in Nat /\ MaxText \in Nat /\ MaxGatewayFaults \in Nat
    /\ Secret \in Seq(Symbols) /\ Len(Secret) > 0 /\ Marker \notin Range(Secret)
    /\ MaxChoices \in Nat \ {0} /\ Chunks \subseteq Deltas \X Deltas /\ Reported \subseteq Nat
    /\ BufLen \in Nat /\ BufLen >= Len(Secret) - 1

VARIABLES
    gstage,     \* where the handler is
    streaming,  \* validated.stream
    asked,      \* validated.n
    attempt,    \* attempt_index + 1
    calls,      \* providers called, in order
    decisions,  \* routing_decision events that were appended
    received,   \* text of the stream, counted in tokens_out
    tail,       \* carried_tail
    delivered,  \* text of the stream the client got, in the order it was sent
    answer,     \* answer[c]: text of choice c as the client puts it together
    ending,     \* how the response ended for the client
    records,    \* tokens of every usage event appended for the request
    appendFaults

gatewayRequestVars ==
    <<gstage, streaming, asked, attempt, calls, decisions, received, tail, delivered,
      answer, ending, records, appendFaults>>

\* What no action but the delivery of text changes.
requestUnchanged == UNCHANGED <<streaming, asked>>
textUnchanged == UNCHANGED <<received, tail, delivered, answer>>

GatewayRequestInit ==
    /\ gstage = "admission"
    /\ streaming \in BOOLEAN /\ asked \in 1..MaxChoices
    /\ attempt = 1
    /\ calls = <<>> /\ decisions = <<>>
    /\ received = <<>> /\ tail = <<>> /\ delivered = <<>>
    /\ answer = [c \in 1..MaxChoices |-> <<>>]
    /\ ending = "open"
    /\ records = <<>>
    /\ appendFaults = 0

-----------------------------------------------------------------------------
\* The candidates in order, those allowed and configured, cut at the cap.
_effective_chain ==
    LET viable == SelectSeq(Chain, LAMBDA p : p \in Usable)
    IN  SubSeq(viable, 1, IF Len(viable) > MaxFallbacks + 1
                          THEN MaxFallbacks + 1 ELSE Len(viable))

\* emit_routing_decision is best effort: a failed append is logged and dropped.
emit_routing_decision(outcome) ==
    \/ /\ decisions' = Append(decisions, outcome)
       /\ UNCHANGED appendFaults
    \/ /\ appendFaults < MaxGatewayFaults
       /\ appendFaults' = appendFaults + 1
       /\ UNCHANGED decisions

\* A terminal outcome of the router.  A plain request raises GatewayError, which
\* the handler audits; a stream has sent its 200, so it gets one error frame.
Refuse(code) ==
    /\ gstage' = IF streaming THEN "finally" ELSE "rejected"
    /\ ending' = code

\* Steps 5 to 7b: tenant context, rate limit, body, pre-request hooks and the
\* stream preflight of the data lock.  All of them come before the 200.
AdmissionFails ==
    /\ gstage = "admission"
    /\ \E code \in {"invalid_request", "policy_blocked", "internal_error"} :
          ending' = code
    /\ gstage' = "rejected"
    /\ requestUnchanged /\ textUnchanged
    /\ UNCHANGED <<attempt, calls, decisions, records, appendFaults>>

create_chat_completion ==
    /\ gstage = "admission"
    /\ gstage' = "policy"
    /\ requestUnchanged /\ textUnchanged
    /\ UNCHANGED <<attempt, calls, decisions, ending, records, appendFaults>>

\* _enforce_policies_pre_request and _policy_deny: an error blocks, a deny of a
\* model or a budget blocks, and a tenant with no viable provider is denied.
_enforce_policies_pre_request ==
    /\ gstage = "policy"
    /\ \/ /\ \E code \in {"internal_error", "policy_blocked"} : Refuse(code)
          /\ UNCHANGED <<decisions, appendFaults>>
       \/ /\ _effective_chain = <<>>
          /\ emit_routing_decision("allowlist_denied")
          /\ Refuse("policy_blocked")
       \/ /\ _effective_chain # <<>>
          /\ gstage' = "attempt"
          /\ UNCHANGED <<decisions, appendFaults, ending>>
    /\ requestUnchanged /\ textUnchanged /\ UNCHANGED <<attempt, calls, records>>

\* _resolve_policy reads the database outside of any handler of the router: its
\* error escapes the except GatewayError of the route.
ResolvePolicyFails ==
    /\ gstage = "policy"
    /\ gstage' = IF streaming THEN "finally" ELSE "escaped"
    /\ ending' = "internal_error"
    /\ requestUnchanged /\ textUnchanged
    /\ UNCHANGED <<attempt, calls, decisions, records, appendFaults>>

\* The shared deadline has passed: the loop is left before the next call.
DeadlinePassed ==
    /\ gstage = "attempt"
    /\ emit_routing_decision("exhausted")
    /\ Refuse("internal_error")
    /\ requestUnchanged /\ textUnchanged /\ UNCHANGED <<attempt, calls, records>>

\* The estimate for this candidate breaks the tenant's ceiling: terminal, the
\* next candidate is not tried even if it is cheaper.
_check_allowlist_and_cost ==
    /\ gstage = "attempt"
    /\ Rate[_effective_chain[attempt]] * Estimate > Ceiling
    /\ emit_routing_decision("cost_blocked")
    /\ Refuse("policy_blocked")
    /\ requestUnchanged /\ textUnchanged /\ UNCHANGED <<attempt, calls, records>>

\* A call to the provider at hand fails before the first byte.  A retryable kind
\* falls over to the next candidate if there is one.
ProviderFails ==
    /\ gstage = "attempt"
    /\ Rate[_effective_chain[attempt]] * Estimate <= Ceiling
    /\ calls' = Append(calls, _effective_chain[attempt])
    /\ \E retryable \in BOOLEAN :
          IF retryable /\ attempt < Len(_effective_chain)
          THEN /\ emit_routing_decision("fallback_attempted")
               /\ attempt' = attempt + 1
               /\ UNCHANGED <<gstage, ending>>
          ELSE /\ emit_routing_decision("exhausted")
               /\ Refuse("internal_error")
               /\ UNCHANGED attempt
    /\ requestUnchanged /\ textUnchanged /\ UNCHANGED records

\* The call succeeds, or the first line of a stream is there: the provider is
\* committed.  The answer to a plain request is in hand as a whole, and read when
\* it has been inspected.
ProviderAnswers ==
    /\ gstage = "attempt"
    /\ Rate[_effective_chain[attempt]] * Estimate <= Ceiling
    /\ calls' = Append(calls, _effective_chain[attempt])
    /\ emit_routing_decision("selected")
    /\ gstage' = IF streaming THEN "stream" ELSE "selected"
    /\ requestUnchanged /\ textUnchanged /\ UNCHANGED <<attempt, ending, records>>

-----------------------------------------------------------------------------
\* The deltas of a chunk, joined in the order of its choices.
_extract_chunk_content(chunk) == chunk[1].text \o chunk[2].text

\* What a chunk adds to choice c.
DeltaOf(chunk, c) ==
    (IF chunk[1].choice = c THEN chunk[1].text ELSE <<>>)
        \o (IF chunk[2].choice = c THEN chunk[2].text ELSE <<>>)

\* A provider sends no choice that was not asked for.
AskedFor(chunk) == chunk[1].choice <= asked /\ chunk[2].choice <= asked

\* The outbound detector's verdict on a text: Secret occurs in it.
OccursAt(text, i) == SubSeq(text, i, i + Len(Secret) - 1) = Secret
Leaks(text) == \E i \in 1..(Len(text) - Len(Secret) + 1) : OccursAt(text, i)

\* finditer of a pattern: from the left, every occurrence but those that overlap
\* one it has taken.
Matches(text) ==
    LET occurs == {i \in 1..(Len(text) - Len(Secret) + 1) : OccursAt(text, i)}
    IN  {found \in SUBSET occurs :
           \A i \in occurs : i \in found <=> ~\E j \in found : j < i /\ i < j + Len(Secret)}

\* redact: the symbols of every match are replaced.
Redacted(text, found) ==
    [k \in 1..Len(text) |-> IF \E i \in found : k \in i..(i + Len(Secret) - 1)
                            THEN Marker ELSE text[k]]

\* run_post_response, run_code_scan and run_data_lock on the whole answer: a
\* block or a crash of a detector refuses it.
InspectionRefuses ==
    /\ gstage = "selected"
    /\ \E code \in {"policy_blocked", "internal_error"} : Refuse(code)
    /\ requestUnchanged /\ textUnchanged
    /\ UNCHANGED <<attempt, calls, decisions, records, appendFaults>>

\* Every string of the answer is redacted (_redact_in_place), so each choice on its
\* own, and emit_terminal_record notes the tokens the provider reported before the
\* answer is returned.  If the append fails the request is failed: the record must
\* exist first.
RecordAndAnswer ==
    /\ gstage = "selected"
    /\ \/ /\ \E n \in Reported : records' = Append(records, n)
          /\ \E chunk \in Chunks :
                /\ AskedFor(chunk)
                /\ \E found \in [1..MaxChoices -> UNION {Matches(DeltaOf(chunk, c)) : c \in 1..MaxChoices}] :
                      /\ \A c \in 1..MaxChoices : found[c] \in Matches(DeltaOf(chunk, c))
                      /\ answer' = [c \in 1..MaxChoices |-> Redacted(DeltaOf(chunk, c), found[c])]
          /\ ending' = "ok"
          /\ gstage' = "closed"
          /\ UNCHANGED appendFaults
       \/ /\ appendFaults < MaxGatewayFaults
          /\ appendFaults' = appendFaults + 1
          /\ Refuse("internal_error")
          /\ UNCHANGED <<records, answer>>
    /\ requestUnchanged /\ UNCHANGED <<attempt, calls, decisions, received, tail, delivered>>

\* The except GatewayError of the route: a record of no tokens, and a failure of
\* that append turns the answer into internal_error.  The middleware is told that
\* the request has been audited either way.
RecordRejection ==
    /\ gstage = "rejected"
    /\ \/ /\ records' = Append(records, 0)
          /\ UNCHANGED <<appendFaults, ending>>
       \/ /\ appendFaults < MaxGatewayFaults
          /\ appendFaults' = appendFaults + 1
          /\ ending' = "internal_error"
          /\ UNCHANGED records
    /\ gstage' = "closed"
    /\ requestUnchanged /\ textUnchanged /\ UNCHANGED <<attempt, calls, decisions>>

\* TerminalAuditMiddleware: what escaped the route is a 500, recorded after it
\* was sent, best effort.
_emit_audit ==
    /\ gstage = "escaped"
    /\ \/ /\ records' = Append(records, 0)
          /\ UNCHANGED appendFaults
       \/ /\ appendFaults < MaxGatewayFaults
          /\ appendFaults' = appendFaults + 1
          /\ UNCHANGED records
    /\ gstage' = "closed"
    /\ requestUnchanged /\ textUnchanged /\ UNCHANGED <<attempt, calls, decisions, ending>>

-----------------------------------------------------------------------------
\* The running estimate at the committed provider, and the running token count
\* against the budget's baseline.
OverCeiling(text) == Rate[Last(calls)] * Len(text) > Ceiling
OverBudget(text) == Len(text) > BudgetLeft

\* The outbound hook is shown the carried tail and the new text, of whatever choice.
InspectWindow(text) == tail \o text

MutTailOfChunk(text) ==
    SubSeq(text, IF Len(text) > BufLen THEN Len(text) - BufLen + 1 ELSE 1, Len(text))

NextTail(text) ==
    LET both == tail \o text
    IN  SubSeq(both, IF Len(both) > BufLen THEN Len(both) - BufLen + 1 ELSE 1,
               Len(both))

\* The client gets the chunk and adds its pieces to the choices.
Deliver(chunk) ==
    /\ delivered' = delivered \o _extract_chunk_content(chunk)
    /\ answer' = [c \in 1..MaxChoices |-> answer[c] \o DeltaOf(chunk, c)]

MutCheckBeforeCount(chunk) ==
    LET text == _extract_chunk_content(chunk)
    IN  /\ gstage = "stream" /\ AskedFor(chunk)
        /\ Len(received) + Len(text) <= MaxText
        /\ received' = received \o text
        /\ IF OverCeiling(received) \/ OverBudget(received) \/ Leaks(InspectWindow(text))
           THEN Refuse("policy_blocked") /\ UNCHANGED <<tail, delivered, answer>>
           ELSE tail' = NextTail(text) /\ Deliver(chunk) /\ UNCHANGED <<gstage, ending>>
        /\ requestUnchanged /\ UNCHANGED <<attempt, calls, records, decisions, appendFaults>>

\* One chunk of the stream: count it, then cost, budget and content, and only
\* then hand it to the client.  Any breach is one error frame and the end (the
\* policy event of a budget breach is not a routing decision and is left out).
StreamChunk(chunk) ==
    LET text == _extract_chunk_content(chunk)
    IN  /\ gstage = "stream" /\ AskedFor(chunk)
        /\ Len(received) + Len(text) <= MaxText
        /\ received' = received \o text
        /\ IF OverCeiling(received')
           THEN /\ emit_routing_decision("cost_blocked")
                /\ Refuse("policy_blocked")
                /\ UNCHANGED <<tail, delivered, answer>>
           ELSE IF OverBudget(received') \/ Leaks(InspectWindow(text))
           THEN /\ Refuse("policy_blocked")
                /\ UNCHANGED <<tail, delivered, answer, decisions, appendFaults>>
           ELSE /\ tail' = NextTail(text)
                /\ Deliver(chunk)
                /\ UNCHANGED <<gstage, ending, decisions, appendFaults>>
        /\ requestUnchanged /\ UNCHANGED <<attempt, calls, records>>

\* A detector crashes on a chunk: HookFailSafeError, an error frame, the end.
StreamHookCrashes ==
    /\ gstage = "stream"
    /\ Refuse("internal_error")
    /\ requestUnchanged /\ textUnchanged
    /\ UNCHANGED <<attempt, calls, decisions, records, appendFaults>>

\* The provider ends its stream, with [DONE] or with its own error frame; after
\* the first byte there is no fallback.
StreamEnds ==
    /\ gstage = "stream"
    /\ \E code \in {"done", "internal_error"} : Refuse(code)
    /\ requestUnchanged /\ textUnchanged
    /\ UNCHANGED <<attempt, calls, decisions, records, appendFaults>>

\* The client leaves while the stream's task awaits anything: a policy, a provider's
\* first byte (the call was made, its verdict is not), the next chunk, or the record
\* of the end.  If the task is torn down before that record, nothing is recorded.
ClientGone ==
    /\ streaming /\ gstage \in {"policy", "attempt", "stream", "finally"}
    /\ \/ UNCHANGED calls
       \/ /\ gstage = "attempt" /\ Rate[_effective_chain[attempt]] * Estimate <= Ceiling
          /\ calls' = Append(calls, _effective_chain[attempt])
    /\ ending' = "gone"
    /\ gstage' \in {"finally", "closed"} /\ gstage' # gstage
    /\ requestUnchanged /\ textUnchanged
    /\ UNCHANGED <<attempt, decisions, records, appendFaults>>

\* The finally block of the generator: the tokens so far, best effort.
StreamFinally ==
    /\ gstage = "finally"
    /\ \/ /\ records' = Append(records, Len(received))
          /\ UNCHANGED appendFaults
       \/ /\ appendFaults < MaxGatewayFaults
          /\ appendFaults' = appendFaults + 1
          /\ UNCHANGED records
    /\ gstage' = "closed"
    /\ requestUnchanged /\ textUnchanged /\ UNCHANGED <<attempt, calls, decisions, ending>>

GatewayRequestNext ==
    \/ AdmissionFails \/ create_chat_completion
    \/ _enforce_policies_pre_request \/ ResolvePolicyFails
    \/ DeadlinePassed \/ _check_allowlist_and_cost
    \/ ProviderFails \/ ProviderAnswers
    \/ InspectionRefuses \/ RecordAndAnswer \/ RecordRejection \/ _emit_audit
    \/ \E chunk \in Chunks : StreamChunk(chunk)
    \/ StreamHookCrashes \/ StreamEnds \/ ClientGone \/ StreamFinally

GatewayRequestSpec == GatewayRequestInit /\ [][GatewayRequestNext]_gatewayRequestVars

-----------------------------------------------------------------------------
\* A request is charged: a 200 without a stream was recorded before it was sent,
\* with the tokens the provider reported (nothing ties them to the text), and
\* whatever part of a stream the client got is in the one record its end leaves,
\* unless the append failed or the client left (emit_terminal_record, StreamFinally).
DeliveredIsCharged ==
    /\ Len(records) <= 1
    /\ ending = "ok" => Len(records) = 1
    /\ (streaming /\ records # <<>>) => records[1] >= Len(delivered)
    /\ (gstage = "closed" /\ appendFaults = 0 /\ ending # "gone") => records # <<>>

\* What a stream has sent the client never costs more than the tenant's ceiling and
\* never exceeds the budget it entered with (the check of every chunk comes
\* before its yield).
DeliveredWithinCeiling ==
    (streaming /\ delivered # <<>>) =>
        ~OverCeiling(delivered) /\ ~OverBudget(delivered)

\* A stream, read in the order it was sent, never shows a secret, however the
\* provider splits it over chunks: the sliding window joins them.  So a client that
\* asked for one choice reads none, and neither does one that asked for a plain
\* answer.  A stream of several choices promises no more than that: the window joins
\* the choices, and a secret of one that is cut by text of another passes.
NoSecretDelivered ==
    /\ ~Leaks(delivered)
    /\ ~streaming => \A c \in 1..MaxChoices : ~Leaks(answer[c])
    /\ asked = 1 => ~Leaks(answer[1])

\* The routing trail explains the calls: unless an append failed, a request that
\* got past the policies leaves one event per provider that was given up and
\* exactly one verdict, and only a selected one is followed by a stream block.  A
\* call without any event is the last one, of a client that left while it was made.
RoutingIsExplained ==
    (gstage = "closed" /\ appendFaults = 0 /\ (calls # <<>> \/ decisions # <<>>)) =>
        \E given \in 0..Len(decisions) :
            /\ \A i \in 1..given : decisions[i] = "fallback_attempted"
            /\ \/ /\ Len(decisions) = given /\ ending = "gone"
                  /\ Len(calls) \in {given, given + 1}
               \/ /\ Len(decisions) = given + 1
                  /\ decisions[given + 1] \in {"selected", "exhausted", "allowlist_denied", "cost_blocked"}
               \/ /\ Len(decisions) = given + 2
                  /\ decisions[given + 1] = "selected" /\ decisions[given + 2] = "cost_blocked"
            /\ (Len(decisions) > given /\ decisions[given + 1] = "selected") => Len(calls) = given + 1

\* What a request was given is accounted for, whatever failed on the way: it is
\* charged, within ceiling and budget, and its providers are explained
\* (create_chat_completion, _handle_stream, route_non_stream, route_stream).
AnswerIsAccounted == DeliveredIsCharged /\ DeliveredWithinCeiling /\ RoutingIsExplained
=============================================================================
