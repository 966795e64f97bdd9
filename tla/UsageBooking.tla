---------------------------- MODULE UsageBooking ----------------------------
(***************************************************************************)
(* From an event Sentinel reports to the debit in Delta's ledger:          *)
(* EventForwarding and UsageLedger joined at the dispatcher's POST.  A     *)
(* timeout leaves Delta's handler running.                                 *)
(***************************************************************************)
EXTENDS EventForwarding, UsageLedger

CONSTANT BadUsage   \* usage payloads that Delta refuses

ASSUME BookingAssumption ==
    /\ BadUsage \subseteq UsagePayloads
    /\ Events = Keys /\ Callers = Dispatchers

bookingVars == <<forwardingVars, ledgerVars>>

BookingInit == ForwardingInit /\ LedgerInit

\* The POST of drain d reaches handler h of Delta.
PostToDelta(d, h) ==
    /\ SendRow(d)
    /\ LET k == RowOf(d).key
       IN  ingest_usage(h, k, stored[k] \notin BadUsage, d)

\* What the dispatcher makes of a status code.
ClassOf(p) == CASE p = "200" -> "2xx"
                [] p \in {"401", "422"} -> "4xx"
                [] p = "503" -> "transient"

\* Mutant of TakeAnswer: a 503 counts as delivered.
MutTakeAnswerAnyCode(d, h) ==
    /\ posting[h].pc \in Answers /\ posting[h].caller = d
    /\ Answered(d, "2xx")
    /\ posting' = [posting EXCEPT ![h] = Free]
    /\ UNCHANGED <<legs, letters, logged, refused, evaluated, missed>>

TakeAnswer(d, h) ==
    /\ posting[h].pc \in Answers /\ posting[h].caller = d
    /\ Answered(d, ClassOf(posting[h].pc))
    /\ posting' = [posting EXCEPT ![h] = Free]
    /\ UNCHANGED <<legs, letters, logged, refused, evaluated, missed>>

Abandoned(d) ==
    [h \in Handlers |-> IF posting[h] # Free /\ posting[h].caller = d
                        THEN [posting[h] EXCEPT !.caller = NoCaller] ELSE posting[h]]

\* A timeout or a lost connection: the request may still be running in Delta.
PostTimesOut(d) ==
    /\ Answered(d, "transient")
    /\ posting' = Abandoned(d)
    /\ UNCHANGED <<legs, letters, logged, refused, evaluated, missed>>

DrainDies(d) ==
    /\ PassDies(d)
    /\ posting' = Abandoned(d)
    /\ UNCHANGED <<legs, letters, logged, refused, evaluated, missed>>

\* A pass that has selected its rows.
PassStep(d) ==
    \/ (SkipRow(d) \/ _dispatch_row(d) \/ EndPass(d)) /\ UNCHANGED ledgerVars
    \/ \E h \in Handlers : PostToDelta(d, h) \/ TakeAnswer(d, h)
    \/ PostTimesOut(d)

DispatcherStep(d) == (_select_pending(d) /\ UNCHANGED ledgerVars) \/ PassStep(d)

HandlerStep(h) ==
    /\ Handle(h) \/ PostingFails(h) \/ HandlerEnds(h)
    /\ UNCHANGED forwardingVars

BookingNext ==
    \/ \E e \in Emitters : Ingest(e) /\ UNCHANGED ledgerVars
    \/ \E d \in Dispatchers : DispatcherStep(d) \/ DrainDies(d)
    \/ \E h \in Handlers : HandlerStep(h)

BookingSpec == BookingInit /\ [][BookingNext]_bookingVars

-----------------------------------------------------------------------------
(* Properties *)

\* A row the Orchestrator shows as forwarded is in Delta's ledger, and was handed to the
\* budget engine and the kill-switch after it was booked: no answer is taken for a
\* booking, and no crash between the debit and the answer skips the hooks.  That they
\* have evaluated it does not follow: they swallow their failures and the answer is
\* still 200, so a decision may wait for the next event of the scope.
ForwardedIsBooked ==
    \A k \in Keys : fstatus[k] = "forwarded" => legs[k] = 2 /\ k \in Attempted

\* A row that failed leaves a trace: the event is booked after all, in Delta's
\* dead-letter queue or log, or it used up its attempts; only a refused signature
\* leaves none.
FailedIsTraceable ==
    \A k \in Keys :
        fstatus[k] = "failed" =>
            \/ legs[k] = 2 \/ k \in letters \cup logged
            \/ tried[k] >= MaxForwards
            \/ k \in refused

\* Between the Orchestrator's outbox and Delta's ledger no event is booked twice,
\* called forwarded unbooked, or failed without a trace (dispatch_pending, post_usage).
UsageIsAccounted == BookedOnce /\ ForwardedIsBooked /\ FailedIsTraceable
=============================================================================
