------------------------------ MODULE LLMRouting ------------------------------
(***************************************************************************)
(* Routing of model calls: LLMService (llm/service.py) asks the providers  *)
(* of a chain one after the other, and repeats a whole pass after an       *)
(* error that may go away; a circuit breaker per provider                  *)
(* (llm/circuit_breaker.py) takes one that fails out of the routing.       *)
(*                                                                         *)
(* A call gives way to the others only while a provider works and while it *)
(* rests between two passes.  What lies between, the record of an answer   *)
(* and the choice of the next provider, is one step.                       *)
(***************************************************************************)
EXTENDS Integers, Sequences

CONSTANTS
    Provider,
    Chain,            \* the candidates of a task: the binding and its fallbacks
    Call,
    FailureThreshold, \* CircuitBreakerConfig.failure_threshold
    SuccessThreshold, \* .success_threshold
    MinRequests,      \* .min_requests
    ErrorRate,        \* .error_rate_threshold, in percent
    Attempts,         \* _TRANSIENT_RETRY_ATTEMPTS
    MaxReloads        \* bound on the changes of the configuration

ASSUME RoutingAssumption ==
    /\ Chain \in Seq(Provider)
    /\ FailureThreshold \in Nat \ {0}
    /\ SuccessThreshold \in Nat \ {0}
    /\ MinRequests \in Nat \ {0}
    /\ ErrorRate \in 1 .. 100
    /\ Attempts \in Nat \ {0}
    /\ MaxReloads \in Nat

VARIABLES
    breaker, \* the providers' breakers, with ProviderInfo.is_healthy
    call,    \* the calls of LLMService.complete and LLMService.stream
    reloads

vars == <<breaker, call, reloads>>

CircuitState == {"CLOSED", "OPEN", "HALF_OPEN"}

\* expired: an open breaker's timeout has passed.
Breaker == [state : CircuitState, failures : Nat, successes : Nat,
            requests : Nat, failed : Nat, expired : BOOLEAN, healthy : BOOLEAN]

\* at: the place in the chain, 0 before the first; transient: an error of this
\* pass reads like one that may go away; begun: a chunk was passed on.
CallRecord == [pc : {"idle", "asking", "resting", "done", "failed", "timeout",
                     "cancelled"},
               kind : {"complete", "stream"}, at : 0 .. Len(Chain),
               attempt : 1 .. Attempts, transient : BOOLEAN, begun : BOOLEAN]

TypeOK ==
    /\ breaker \in [Provider -> Breaker]
    /\ call \in [Call -> CallRecord]
    /\ reloads \in 0 .. MaxReloads

-----------------------------------------------------------------------------
\* The breaker.

FreshBreaker == [state |-> "CLOSED", failures |-> 0, successes |-> 0, requests |-> 0,
                 failed |-> 0, expired |-> FALSE, healthy |-> TRUE]

IsAvailable(b) == b.state = "OPEN" => b.expired

\* The question itself half-opens a breaker whose timeout has passed.
Asked(b) ==
    IF b.state = "OPEN" /\ b.expired
    THEN [b EXCEPT !.state = "HALF_OPEN", !.successes = 0, !.expired = FALSE]
    ELSE b

RecordSuccess(b) ==
    IF b.state = "HALF_OPEN" /\ b.successes + 1 >= SuccessThreshold
    THEN FreshBreaker
    ELSE [state |-> IF b.state = "OPEN" THEN "HALF_OPEN" ELSE b.state,
          failures |-> 0, successes |-> b.successes + 1, requests |-> b.requests + 1,
          failed |-> b.failed, expired |-> FALSE, healthy |-> TRUE]

\* Mutant of Opens: one failure too late.
OpensLate(b) ==
    \/ b.state = "HALF_OPEN"
    \/ b.failures > FailureThreshold
    \/ b.requests >= MinRequests /\ 100 * b.failed >= ErrorRate * b.requests

Opens(b) ==
    \/ b.state = "HALF_OPEN"
    \/ b.failures >= FailureThreshold
    \/ b.requests >= MinRequests /\ 100 * b.failed >= ErrorRate * b.requests

Counted(b) ==
    [b EXCEPT !.failures = b.failures + 1, !.successes = 0, !.requests = b.requests + 1,
              !.failed = b.failed + 1, !.healthy = FALSE]

RecordFailure(b) ==
    IF Opens(Counted(b))
    THEN [Counted(b) EXCEPT !.state = "OPEN", !.expired = FALSE]
    ELSE Counted(b)

-----------------------------------------------------------------------------
\* The calls.

Init ==
    /\ breaker = [p \in Provider |-> FreshBreaker]
    /\ call \in [Call -> [pc : {"idle"}, kind : {"complete", "stream"}, at : {0},
                          attempt : {1}, transient : {FALSE}, begun : {FALSE}]]
    /\ reloads = 0

\* Mutant of Open: the breakers are read before the last failure is recorded.
OpenBefore(at, brk) == {k \in at + 1 .. Len(Chain) : IsAvailable(breaker[Chain[k]])}

\* The candidates behind a place of the chain whose breakers let them be asked.
Open(at, brk) == {k \in at + 1 .. Len(Chain) : IsAvailable(brk[Chain[k]])}

First(ks) == {k \in ks : \A i \in ks : k <= i}

\* Mutant of PassEnds: one pass too many.
PassEndsLate(x) ==
    IF x.kind = "complete" /\ x.transient /\ x.attempt <= Attempts
    THEN [x EXCEPT !.pc = "resting"]
    ELSE [x EXCEPT !.pc = "failed"]

\* At the end of a pass the errors are joined into one, whose words decide
\* whether there is another pass; a stream has one pass only.
PassEnds(x) ==
    IF x.kind = "complete" /\ x.transient /\ x.attempt < Attempts
    THEN [x EXCEPT !.pc = "resting"]
    ELSE [x EXCEPT !.pc = "failed"]

\* Call c goes on behind its place, with its breakers as brk and itself as x:
\* it asks the next provider that is available, or ends the pass.
Proceed(c, x, brk) ==
    IF Open(x.at, brk) = {}
    THEN /\ call' = [call EXCEPT ![c] = PassEnds(x)]
         /\ breaker' = brk
    ELSE \E k \in First(Open(x.at, brk)) :
         /\ call' = [call EXCEPT ![c] = [x EXCEPT !.pc = "asking", !.at = k]]
         /\ breaker' = [brk EXCEPT ![Chain[k]] = Asked(@)]

Begin(c) ==
    /\ call[c].pc = "idle"
    /\ Proceed(c, call[c], breaker)
    /\ UNCHANGED reloads

\* Mutant of Wake: the last pass is not begun.
WakeShort(c) ==
    /\ call[c].pc = "resting"
    /\ call[c].attempt + 1 < Attempts
    /\ Proceed(c, [call[c] EXCEPT !.at = 0, !.transient = FALSE,
                                  !.attempt = call[c].attempt + 1], breaker)
    /\ UNCHANGED reloads

\* The backoff is over: the chain is tried from its head again.
Wake(c) ==
    /\ call[c].pc = "resting"
    /\ Proceed(c, [call[c] EXCEPT !.at = 0, !.transient = FALSE,
                                  !.attempt = call[c].attempt + 1], breaker)
    /\ UNCHANGED reloads

Asking(c) == call[c].pc = "asking"
Of(c) == Chain[call[c].at]

Succeeded(p) == [breaker EXCEPT ![p] = RecordSuccess(@)]
Failed(p) == [breaker EXCEPT ![p] = RecordFailure(@)]

\* The answer is complete, or the stream has ended.
Answer(c) ==
    /\ Asking(c)
    /\ breaker' = Succeeded(Of(c))
    /\ call' = [call EXCEPT ![c] = [@ EXCEPT !.pc = "done"]]
    /\ UNCHANGED reloads

FirstChunk(c) ==
    /\ Asking(c)
    /\ call[c].kind = "stream" /\ ~call[c].begun
    /\ call' = [call EXCEPT ![c] = [@ EXCEPT !.begun = TRUE]]
    /\ UNCHANGED <<breaker, reloads>>

\* Mutant of MayFailOver: a stream that has begun goes on elsewhere.
MayFailOverAlways(c) == TRUE

\* Another provider may be asked after this error, unless part of the answer
\* of this one was passed on.
MayFailOver(c) == ~call[c].begun

\* The provider is down or overloaded, limits its clients, or does not know the
\* model; words is whether the joined error will still read so.  A stream that
\* stalls is among these.
Fault(c) ==
    /\ Asking(c)
    /\ \E words \in BOOLEAN :
          IF MayFailOver(c)
          THEN Proceed(c, [call[c] EXCEPT !.transient = words \/ call[c].transient],
                       Failed(Of(c)))
          ELSE /\ breaker' = Failed(Of(c))
               /\ call' = [call EXCEPT ![c] = [@ EXCEPT !.pc = "failed"]]
    /\ UNCHANGED reloads

\* An error nobody can place ends the call.
Unknown(c) ==
    /\ Asking(c)
    /\ breaker' = Failed(Of(c))
    /\ call' = [call EXCEPT ![c] = [@ EXCEPT !.pc = "failed"]]
    /\ UNCHANGED reloads

\* The request itself is bad: nobody else is asked, and no breaker counts it.
Reject(c) ==
    /\ Asking(c)
    /\ call' = [call EXCEPT ![c] = [@ EXCEPT !.pc = "failed"]]
    /\ UNCHANGED <<breaker, reloads>>

\* The task's timeout cuts a complete call; its error has no words and no class
\* of this program, so classify_llm_error takes it for a bad request.
TimeOut(c) ==
    /\ Asking(c)
    /\ call[c].kind = "complete"
    /\ call' = [call EXCEPT ![c] = [@ EXCEPT !.pc = "timeout"]]
    /\ UNCHANGED <<breaker, reloads>>

\* The caller gives up: no except clause sees it, and nothing is recorded.
Cancel(c) ==
    /\ call[c].pc \in {"asking", "resting"}
    /\ call' = [call EXCEPT ![c] = [@ EXCEPT !.pc = "cancelled"]]
    /\ UNCHANGED <<breaker, reloads>>

-----------------------------------------------------------------------------
\* What happens to breakers beside the calls.

TimeoutPasses(p) ==
    /\ breaker[p].state = "OPEN"
    /\ ~breaker[p].expired
    /\ breaker' = [breaker EXCEPT ![p] = [@ EXCEPT !.expired = TRUE]]
    /\ UNCHANGED <<call, reloads>>

\* embed and the infill tool take a provider from the registry, which asks its
\* breaker, and record nothing.
Take(p) ==
    /\ Asked(breaker[p]) # breaker[p]
    /\ breaker' = [breaker EXCEPT ![p] = Asked(@)]
    /\ UNCHANGED <<call, reloads>>

\* A change of the configuration builds the registry anew.  Calls under way
\* record what comes of them in the new one.
Reload ==
    /\ reloads < MaxReloads
    /\ reloads' = reloads + 1
    /\ breaker' = [p \in Provider |-> FreshBreaker]
    /\ UNCHANGED call

Return(c) == Answer(c) \/ Fault(c) \/ Unknown(c) \/ Reject(c) \/ TimeOut(c)

Next ==
    \/ \E c \in Call : Begin(c) \/ Wake(c) \/ FirstChunk(c) \/ Return(c) \/ Cancel(c)
    \/ \E p \in Provider : TimeoutPasses(p) \/ Take(p)
    \/ Reload

Spec == Init /\ [][Next]_vars

\* A sleeper wakes, and a provider returns: complete is cut by the task's
\* timeout, a stream by the one for a chunk, unless it goes on for ever, which
\* is taken not to happen.  No caller has to begin or to give up.
Fairness == \A c \in Call : WF_vars(Wake(c)) /\ WF_vars(Return(c))

FairSpec == Spec /\ Fairness

-----------------------------------------------------------------------------
\* Properties.

\* A breaker that lets calls through as if nothing were wrong has not met the
\* threshold of failures in a row, whatever late answers, questions and reloads
\* came in between.
ClosedBelowThreshold ==
    \A p \in Provider : breaker[p].state = "CLOSED" => breaker[p].failures < FailureThreshold

\* is_healthy and the breaker are written in different places; a provider that
\* is shown as healthy is not cut off and has not failed since it last answered.
HealthyIsUp ==
    \A p \in Provider :
        breaker[p].healthy => breaker[p].failures = 0 /\ breaker[p].state # "OPEN"

\* No call is sent to a provider whose breaker is open at that moment, not even
\* to one that the same call has just opened and that comes again in the chain.
OpenIsNotAsked ==
    [][\A c \in Call :
          call'[c].pc = "asking" /\ (call[c].pc # "asking" \/ call'[c].at # call[c].at)
          => breaker'[Chain[call'[c].at]].state # "OPEN"]_vars

\* What a caller is streamed comes from one provider: once a part was passed
\* on, no failure makes another provider go on with, or repeat, the answer.
StreamHasOneSource ==
    [][\A c \in Call : call[c].begun => call'[c].begun /\ call'[c].at = call[c].at]_vars

\* Every call ends, although each provider may fail each time and breakers that
\* open and expire change who can be asked.
EveryCallEnds == \A c \in Call : call[c].pc \in {"asking", "resting"} ~>
                                 call[c].pc \notin {"asking", "resting"}

\* classify_llm_error: "Timeouts, rate limits, auth/quota failures, and
\* server/network failures may be resolved by trying another provider/key, so
\* they are retryable for failover."  A call that timed out at one provider does
\* not fail while there is another to ask.
TimeoutFailsOver ==
    [][\A c \in Call : Asking(c) /\ call'[c].pc = "timeout" => Open(call[c].at, breaker) = {}]_vars

\* CircuitBreaker.open: "Open the circuit and suppress routing until timeout
\* expires."
OpenUntilTimeout ==
    [][\A p \in Provider :
          breaker[p].state = "OPEN" /\ ~breaker[p].expired
          => breaker'[p].state = "OPEN" \/ breaker'[p] = FreshBreaker]_vars

=============================================================================
