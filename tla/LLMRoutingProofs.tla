--------------------------- MODULE LLMRoutingProofs ---------------------------
(***************************************************************************)
(* Proofs about LLMRouting, for any chain, any number of calls and any     *)
(* thresholds.                                                             *)
(*                                                                         *)
(* A breaker changes in a few ways only: it is asked, it records a success *)
(* or a failure, its timeout passes, or it is new.  Sound says of one      *)
(* breaker what the invariants say of all; each of these ways keeps it,    *)
(* and BreakerSteps shows that no step has another one.                    *)
(***************************************************************************)
EXTENDS LLMRouting, TLAPS

\* What the invariants say of one breaker.  That an open breaker is not healthy
\* and that one with failures is not healthy come from different places.
Sound(b) ==
    /\ b \in Breaker
    /\ b.state = "CLOSED" => b.failures < FailureThreshold
    /\ b.healthy => b.failures = 0 /\ b.state # "OPEN"

AllSound == \A p \in Provider : Sound(breaker[p])

\* What holds of one call: one that asks has a place in the chain, one that rests
\* has an attempt left, and neither a call that has not begun nor one that rests
\* has passed a chunk on.
Legal(x) ==
    /\ x.pc = "asking" => x.at # 0
    /\ x.pc = "resting" => x.attempt < Attempts
    /\ x.begun => x.pc \notin {"idle", "resting"}

CallsLegal == \A c \in Call : Legal(call[c])

RoutingInv == TypeOK /\ AllSound /\ CallsLegal

-----------------------------------------------------------------------------
\* Lemmas about one breaker.

LEMMA FreshIsSound == Sound(FreshBreaker)
  BY RoutingAssumption DEF Sound, FreshBreaker, Breaker, CircuitState

LEMMA AskedIsSound == ASSUME NEW b, Sound(b) PROVE Sound(Asked(b))
<1>1. CASE b.state = "OPEN" /\ b.expired
  <2> DEFINE n == [b EXCEPT !.state = "HALF_OPEN", !.successes = 0, !.expired = FALSE]
  <2>1. n \in Breaker /\ n.state = "HALF_OPEN" /\ n.failures = b.failures
        /\ n.healthy = b.healthy
    BY DEF Sound, Breaker, CircuitState
  <2>2. Asked(b) = n
    BY <1>1 DEF Asked
  <2> QED
    BY <2>1, <2>2 DEF Sound
<1>2. CASE ~(b.state = "OPEN" /\ b.expired)
  BY <1>2 DEF Asked
<1> QED
  BY <1>1, <1>2

\* A breaker that was asked because it is available is not open.
LEMMA AskedIsUp ==
  ASSUME NEW b \in Breaker, IsAvailable(b)
  PROVE  Asked(b).state # "OPEN"
<1>1. CASE b.state = "OPEN"
  <2>1. Asked(b) = [b EXCEPT !.state = "HALF_OPEN", !.successes = 0, !.expired = FALSE]
    BY <1>1 DEF Asked, IsAvailable
  <2> QED
    BY <2>1 DEF Breaker
<1>2. CASE b.state # "OPEN"
  BY <1>2 DEF Asked
<1> QED
  BY <1>1, <1>2

LEMMA SuccessIsSound == ASSUME NEW b, Sound(b) PROVE Sound(RecordSuccess(b))
<1>1. CASE b.state = "HALF_OPEN" /\ b.successes + 1 >= SuccessThreshold
  BY <1>1, FreshIsSound DEF RecordSuccess
<1>2. CASE ~(b.state = "HALF_OPEN" /\ b.successes + 1 >= SuccessThreshold)
  <2> DEFINE n == [state |-> IF b.state = "OPEN" THEN "HALF_OPEN" ELSE b.state,
                   failures |-> 0, successes |-> b.successes + 1,
                   requests |-> b.requests + 1, failed |-> b.failed,
                   expired |-> FALSE, healthy |-> TRUE]
  <2>1. b.successes + 1 \in Nat /\ b.requests + 1 \in Nat /\ b.failed \in Nat
        /\ b.state \in CircuitState
    BY DEF Sound, Breaker
  <2>2. n \in Breaker /\ n.failures = 0 /\ n.state # "OPEN"
    BY <2>1 DEF Breaker, CircuitState
  <2>3. RecordSuccess(b) = n
    BY <1>2 DEF RecordSuccess
  <2> QED
    BY <2>2, <2>3, RoutingAssumption DEF Sound
<1> QED
  BY <1>1, <1>2

LEMMA FailureIsSound == ASSUME NEW b, Sound(b) PROVE Sound(RecordFailure(b))
<1> DEFINE n == Counted(b)
<1>1. n \in Breaker /\ n.failures = b.failures + 1 /\ n.healthy = FALSE /\ n.state = b.state
  <2>1. b \in Breaker /\ b.failures + 1 \in Nat /\ b.requests + 1 \in Nat /\ b.failed + 1 \in Nat
    BY DEF Sound, Breaker
  <2> QED
    BY <2>1 DEF Counted, Breaker
<1>2. CASE Opens(n)
  <2> DEFINE o == [n EXCEPT !.state = "OPEN", !.expired = FALSE]
  <2>1. o \in Breaker /\ o.state = "OPEN" /\ o.healthy = FALSE
    BY <1>1 DEF Breaker, CircuitState
  <2>2. RecordFailure(b) = o
    BY <1>2 DEF RecordFailure
  <2> QED
    BY <2>1, <2>2 DEF Sound
<1>3. CASE ~Opens(n)
  <2>1. RecordFailure(b) = n
    BY <1>3 DEF RecordFailure
  <2>2. n.failures < FailureThreshold
    BY <1>1, <1>3, RoutingAssumption DEF Opens, Breaker
  <2> QED
    BY <1>1, <2>1, <2>2 DEF Sound
<1> QED
  BY <1>2, <1>3

LEMMA ExpiredIsSound ==
  ASSUME NEW b, Sound(b), b.state = "OPEN"
  PROVE  Sound([b EXCEPT !.expired = TRUE])
<1> DEFINE n == [b EXCEPT !.expired = TRUE]
<1>1. n \in Breaker /\ n.state = b.state /\ n.failures = b.failures /\ n.healthy = b.healthy
  BY DEF Sound, Breaker
<1> QED
  BY <1>1 DEF Sound

-----------------------------------------------------------------------------
\* Lemmas about the choice of the next provider.

LEMMA OfIsProvider ==
  ASSUME TypeOK, NEW c \in Call, call[c].at # 0
  PROVE  Of(c) \in Provider
<1>1. call[c].at \in 1 .. Len(Chain)
  BY RoutingAssumption DEF TypeOK, CallRecord
<1> QED
  BY <1>1, RoutingAssumption DEF Of

LEMMA PassEndsType ==
  ASSUME NEW x \in CallRecord
  PROVE  /\ PassEnds(x) \in CallRecord
         /\ PassEnds(x).begun = x.begun
         /\ ~x.begun => Legal(PassEnds(x))
<1>1. CASE x.kind = "complete" /\ x.transient /\ x.attempt < Attempts
  BY <1>1 DEF PassEnds, CallRecord, Legal
<1>2. CASE ~(x.kind = "complete" /\ x.transient /\ x.attempt < Attempts)
  BY <1>2 DEF PassEnds, CallRecord, Legal
<1> QED
  BY <1>1, <1>2

\* Going on keeps types, sound breakers and what holds of the calls.
LEMMA ProceedKeeps ==
  ASSUME NEW c \in Call, NEW x \in CallRecord, ~x.begun, NEW brk,
         brk \in [Provider -> Breaker], \A p \in Provider : Sound(brk[p]),
         call \in [Call -> CallRecord], CallsLegal,
         Proceed(c, x, brk)
  PROVE  /\ breaker' \in [Provider -> Breaker]
         /\ AllSound'
         /\ call' \in [Call -> CallRecord]
         /\ CallsLegal'
<1>1. CASE call' = [call EXCEPT ![c] = PassEnds(x)] /\ breaker' = brk
  <2>1. PassEnds(x) \in CallRecord /\ Legal(PassEnds(x))
    BY PassEndsType
  <2> QED
    BY <1>1, <2>1 DEF AllSound, CallsLegal
<1>2. CASE \E k \in x.at + 1 .. Len(Chain) :
              /\ IsAvailable(brk[Chain[k]])
              /\ call' = [call EXCEPT ![c] = [x EXCEPT !.pc = "asking", !.at = k]]
              /\ breaker' = [brk EXCEPT ![Chain[k]] = Asked(@)]
  <2> DEFINE Asks(k) == [x EXCEPT !.pc = "asking", !.at = k]
  <2>1. PICK k \in x.at + 1 .. Len(Chain) :
              /\ call' = [call EXCEPT ![c] = Asks(k)]
              /\ breaker' = [brk EXCEPT ![Chain[k]] = Asked(@)]
    BY <1>2
  <2>2. k \in 1 .. Len(Chain) /\ k \in 0 .. Len(Chain) /\ k # 0
    BY RoutingAssumption DEF CallRecord
  <2>3. Chain[k] \in Provider
    BY <2>2, RoutingAssumption
  <2>4. Asks(k) \in CallRecord /\ Asks(k).pc = "asking" /\ Asks(k).at = k
        /\ Asks(k).begun = x.begun
    BY <2>2 DEF CallRecord
  <2>5. \A p \in Provider : Sound(breaker'[p])
    BY <2>1, <2>3, AskedIsSound
  <2>6. breaker' \in [Provider -> Breaker]
    <3>1. Asked(brk[Chain[k]]) \in Breaker
      BY <2>3, AskedIsSound DEF Sound
    <3> QED
      BY <2>1, <3>1
  <2> HIDE DEF Asks
  <2>7. call' \in [Call -> CallRecord]
    BY <2>1, <2>4
  <2>8. CallsLegal'
    BY <2>1, <2>2, <2>4 DEF CallsLegal, Legal
  <2> QED
    BY <2>5, <2>6, <2>7, <2>8 DEF AllSound
<1>3. \/ call' = [call EXCEPT ![c] = PassEnds(x)] /\ breaker' = brk
      \/ \E k \in x.at + 1 .. Len(Chain) :
            /\ IsAvailable(brk[Chain[k]])
            /\ call' = [call EXCEPT ![c] = [x EXCEPT !.pc = "asking", !.at = k]]
            /\ breaker' = [brk EXCEPT ![Chain[k]] = Asked(@)]
  BY DEF Proceed, First, Open
<1> QED
  BY <1>1, <1>2, <1>3

\* What an answer makes of the breakers.
LEMMA AnswersAreSound ==
  ASSUME TypeOK, AllSound, NEW p \in Provider
  PROVE  /\ Succeeded(p) \in [Provider -> Breaker] /\ Failed(p) \in [Provider -> Breaker]
         /\ \A q \in Provider : Sound(Succeeded(p)[q]) /\ Sound(Failed(p)[q])
<1>1. Sound(RecordSuccess(breaker[p])) /\ Sound(RecordFailure(breaker[p]))
  BY SuccessIsSound, FailureIsSound DEF AllSound
<1>2. RecordSuccess(breaker[p]) \in Breaker /\ RecordFailure(breaker[p]) \in Breaker
  BY <1>1 DEF Sound
<1> QED
  BY <1>1, <1>2 DEF TypeOK, AllSound, Succeeded, Failed

Over == {"done", "failed", "timeout", "cancelled"}

\* A call that is over.
LEMMA OverKeeps ==
  ASSUME TypeOK, CallsLegal, NEW c \in Call, NEW pc \in Over,
         call' = [call EXCEPT ![c] = [@ EXCEPT !.pc = pc]]
  PROVE  /\ call' \in [Call -> CallRecord]
         /\ CallsLegal'
<1> DEFINE n == [call[c] EXCEPT !.pc = pc]
<1>1. n \in CallRecord /\ n.pc = pc
  BY DEF TypeOK, CallRecord, Over
<1>2. call' = [call EXCEPT ![c] = n]
  OBVIOUS
<1> HIDE DEF n
<1> QED
  BY <1>1, <1>2 DEF TypeOK, CallsLegal, Legal, Over

-----------------------------------------------------------------------------
\* The invariant.

LEMMA InitInv == Init => RoutingInv
<1> SUFFICES ASSUME Init PROVE RoutingInv
  OBVIOUS
<1>1. ASSUME NEW c \in Call PROVE call[c] \in CallRecord /\ Legal(call[c])
  <2>1. call[c] \in [pc : {"idle"}, kind : {"complete", "stream"}, at : {0},
                     attempt : {1}, transient : {FALSE}, begun : {FALSE}]
    BY DEF Init
  <2>2. 0 \in 0 .. Len(Chain) /\ 1 \in 1 .. Attempts
    BY RoutingAssumption
  <2> QED
    BY <2>1, <2>2 DEF CallRecord, Legal
<1>2. call \in [Call -> CallRecord]
  BY <1>1 DEF Init
<1>3. AllSound /\ breaker \in [Provider -> Breaker]
  BY FreshIsSound DEF Init, AllSound, Sound
<1> QED
  BY <1>1, <1>2, <1>3, RoutingAssumption DEF Init, RoutingInv, TypeOK, CallsLegal

LEMMA StepInv == RoutingInv /\ [Next]_vars => RoutingInv'
<1> SUFFICES ASSUME TypeOK, AllSound, CallsLegal, [Next]_vars
             PROVE  RoutingInv'
  BY DEF RoutingInv
<1>0. /\ breaker \in [Provider -> Breaker] /\ call \in [Call -> CallRecord]
      /\ reloads \in 0 .. MaxReloads
  BY DEF TypeOK
<1>1. ASSUME NEW c \in Call, Begin(c) PROVE RoutingInv'
  <2>1. ~call[c].begun
    BY <1>1 DEF Begin, CallsLegal, Legal
  <2> QED
    BY <1>0, <1>1, <2>1, ProceedKeeps DEF Begin, AllSound, RoutingInv, TypeOK
<1>2. ASSUME NEW c \in Call, Wake(c) PROVE RoutingInv'
  <2> DEFINE x == [call[c] EXCEPT !.at = 0, !.transient = FALSE,
                                  !.attempt = call[c].attempt + 1]
  <2>1. ~call[c].begun /\ call[c].attempt < Attempts
    BY <1>2 DEF Wake, CallsLegal, Legal
  <2>2. 0 \in 0 .. Len(Chain) /\ call[c].attempt + 1 \in 1 .. Attempts
    BY <1>0, <2>1, RoutingAssumption DEF CallRecord
  <2>3. x \in CallRecord /\ ~x.begun
    BY <1>0, <2>1, <2>2 DEF CallRecord
  <2>4. Proceed(c, x, breaker) /\ UNCHANGED reloads
    BY <1>2 DEF Wake
  <2> HIDE DEF x
  <2> QED
    BY <1>0, <2>3, <2>4, ProceedKeeps DEF AllSound, RoutingInv, TypeOK
<1>3. ASSUME NEW c \in Call, Answer(c) PROVE RoutingInv'
  <2>1. call[c].at # 0
    BY <1>3 DEF Answer, Asking, CallsLegal, Legal
  <2>2. Of(c) \in Provider
    BY <2>1, OfIsProvider
  <2>3. breaker' \in [Provider -> Breaker] /\ AllSound'
    BY <1>3, <2>2, AnswersAreSound DEF Answer, AllSound
  <2>4. call' \in [Call -> CallRecord] /\ CallsLegal'
    BY <1>3, OverKeeps DEF Answer, Over
  <2> QED
    BY <1>0, <1>3, <2>3, <2>4 DEF Answer, RoutingInv, TypeOK
<1>4. ASSUME NEW c \in Call, Unknown(c) PROVE RoutingInv'
  <2>1. call[c].at # 0
    BY <1>4 DEF Unknown, Asking, CallsLegal, Legal
  <2>2. Of(c) \in Provider
    BY <2>1, OfIsProvider
  <2>3. breaker' \in [Provider -> Breaker] /\ AllSound'
    BY <1>4, <2>2, AnswersAreSound DEF Unknown, AllSound
  <2>4. call' \in [Call -> CallRecord] /\ CallsLegal'
    BY <1>4, OverKeeps DEF Unknown, Over
  <2> QED
    BY <1>0, <1>4, <2>3, <2>4 DEF Unknown, RoutingInv, TypeOK
<1>5. ASSUME NEW c \in Call, Fault(c) PROVE RoutingInv'
  <2>1. call[c].at # 0
    BY <1>5 DEF Fault, Asking, CallsLegal, Legal
  <2>2. Of(c) \in Provider
    BY <2>1, OfIsProvider
  <2>3. Failed(Of(c)) \in [Provider -> Breaker] /\ \A p \in Provider : Sound(Failed(Of(c))[p])
    BY <2>2, AnswersAreSound
  <2>4. CASE MayFailOver(c)
    <3> DEFINE x(words) == [call[c] EXCEPT !.transient = words \/ call[c].transient]
    <3>1. PICK words \in BOOLEAN : Proceed(c, x(words), Failed(Of(c)))
      BY <1>5, <2>4 DEF Fault
    <3>2. (words \/ call[c].transient) \in BOOLEAN
      OBVIOUS
    <3>3. x(words) \in CallRecord /\ ~x(words).begun
      BY <1>0, <2>4, <3>2 DEF CallRecord, MayFailOver
    <3> HIDE DEF x
    <3>4. /\ breaker' \in [Provider -> Breaker] /\ AllSound'
          /\ call' \in [Call -> CallRecord] /\ CallsLegal'
      BY <1>0, <2>3, <3>1, <3>3, ProceedKeeps
    <3> QED
      BY <1>0, <1>5, <3>4 DEF Fault, RoutingInv, TypeOK
  <2>5. CASE ~MayFailOver(c)
    <3>1. breaker' = Failed(Of(c)) /\ call' = [call EXCEPT ![c] = [@ EXCEPT !.pc = "failed"]]
      BY <1>5, <2>5 DEF Fault
    <3>2. call' \in [Call -> CallRecord] /\ CallsLegal'
      BY <3>1, OverKeeps DEF Over
    <3> QED
      BY <1>0, <1>5, <2>3, <3>1, <3>2 DEF Fault, RoutingInv, TypeOK, AllSound
  <2> QED
    BY <2>4, <2>5
<1>6. ASSUME NEW c \in Call, Reject(c) \/ TimeOut(c) \/ Cancel(c) PROVE RoutingInv'
  <2>1. \E pc \in Over : call' = [call EXCEPT ![c] = [@ EXCEPT !.pc = pc]]
    BY <1>6 DEF Reject, TimeOut, Cancel, Over
  <2>2. call' \in [Call -> CallRecord] /\ CallsLegal'
    BY <2>1, OverKeeps
  <2>3. UNCHANGED <<breaker, reloads>>
    BY <1>6 DEF Reject, TimeOut, Cancel
  <2> QED
    BY <1>0, <2>2, <2>3 DEF RoutingInv, TypeOK, AllSound
<1>7. ASSUME NEW c \in Call, FirstChunk(c) PROVE RoutingInv'
  <2> DEFINE n == [call[c] EXCEPT !.begun = TRUE]
  <2>1. n \in CallRecord /\ n.pc = "asking" /\ n.at = call[c].at
    BY <1>0, <1>7 DEF FirstChunk, Asking, CallRecord
  <2>2. call[c].at # 0
    BY <1>7 DEF FirstChunk, Asking, CallsLegal, Legal
  <2>3. Legal(n)
    BY <2>1, <2>2 DEF Legal
  <2>4. call' = [call EXCEPT ![c] = n] /\ UNCHANGED <<breaker, reloads>>
    BY <1>7 DEF FirstChunk
  <2> HIDE DEF n
  <2> QED
    BY <1>0, <2>1, <2>3, <2>4 DEF RoutingInv, TypeOK, AllSound, CallsLegal
<1>8. ASSUME NEW p \in Provider, TimeoutPasses(p) \/ Take(p) PROVE RoutingInv'
  <2>1. CASE TimeoutPasses(p)
    <3> DEFINE n == [breaker[p] EXCEPT !.expired = TRUE]
    <3>1. Sound(n)
      BY <2>1, ExpiredIsSound DEF TimeoutPasses, AllSound
    <3>2. breaker' = [breaker EXCEPT ![p] = n]
      BY <2>1 DEF TimeoutPasses
    <3> HIDE DEF n
    <3>3. breaker' \in [Provider -> Breaker] /\ AllSound'
      BY <1>0, <3>1, <3>2 DEF AllSound, Sound
    <3> QED
      BY <1>0, <2>1, <3>3 DEF TimeoutPasses, RoutingInv, TypeOK, CallsLegal
  <2>2. CASE Take(p)
    <3>1. Sound(Asked(breaker[p]))
      BY AskedIsSound DEF AllSound
    <3>2. breaker' \in [Provider -> Breaker] /\ AllSound'
      BY <1>0, <2>2, <3>1 DEF Take, AllSound, Sound
    <3> QED
      BY <1>0, <2>2, <3>2 DEF Take, RoutingInv, TypeOK, CallsLegal
  <2> QED
    BY <1>8, <2>1, <2>2
<1>9. ASSUME Reload PROVE RoutingInv'
  <2>1. breaker' \in [Provider -> Breaker] /\ AllSound'
    BY <1>9, FreshIsSound DEF Reload, AllSound, Sound
  <2>2. reloads' \in 0 .. MaxReloads
    BY <1>0, <1>9, RoutingAssumption DEF Reload
  <2> QED
    BY <1>0, <1>9, <2>1, <2>2 DEF Reload, RoutingInv, TypeOK, CallsLegal
<1>10. CASE UNCHANGED vars
  BY <1>10 DEF vars, RoutingInv, TypeOK, AllSound, CallsLegal
<1> QED
  BY <1>1, <1>2, <1>3, <1>4, <1>5, <1>6, <1>7, <1>8, <1>9, <1>10 DEF Next, Return

LEMMA Invariant == Spec => []RoutingInv
  BY InitInv, StepInv, PTL DEF Spec

-----------------------------------------------------------------------------
\* Theorems.

\* Every variable keeps its type: the attempts of a call do not exceed their
\* number and its place does not leave the chain.
THEOREM RoutingTypes == Spec => []TypeOK
<1>1. RoutingInv => TypeOK
  BY DEF RoutingInv
<1> QED
  BY <1>1, Invariant, PTL

\* A closed breaker has not met the threshold of failures in a row, however
\* calls, questions, timeouts and reloads interleave.
THEOREM ClosedIsBelowThreshold == Spec => []ClosedBelowThreshold
<1>1. RoutingInv => ClosedBelowThreshold
  BY DEF RoutingInv, AllSound, Sound, ClosedBelowThreshold
<1> QED
  BY <1>1, Invariant, PTL

\* A provider that is shown as healthy has not failed since it last answered,
\* and is not cut off.
THEOREM HealthIsTrue == Spec => []HealthyIsUp
<1>1. RoutingInv => HealthyIsUp
  BY DEF RoutingInv, AllSound, Sound, HealthyIsUp
<1> QED
  BY <1>1, Invariant, PTL

\* What going on does to the calls: no other is touched, and the provider that
\* is asked now is not cut off.
LEMMA ProceedAsksOpen ==
  ASSUME NEW c \in Call, NEW x \in CallRecord, NEW brk,
         brk \in [Provider -> Breaker],
         call \in [Call -> CallRecord],
         Proceed(c, x, brk)
  PROVE  /\ \A d \in Call : d # c => call'[d] = call[d]
         /\ call'[c].pc = "asking" => breaker'[Chain[call'[c].at]].state # "OPEN"
<1>1. CASE call' = [call EXCEPT ![c] = PassEnds(x)] /\ breaker' = brk
  <2>1. call'[c] = PassEnds(x)
    BY <1>1
  <2>2. PassEnds(x).pc # "asking"
    BY DEF PassEnds, CallRecord
  <2> QED
    BY <1>1, <2>1, <2>2
<1>2. ASSUME NEW k \in x.at + 1 .. Len(Chain),
             IsAvailable(brk[Chain[k]]),
             call' = [call EXCEPT ![c] = [x EXCEPT !.pc = "asking", !.at = k]],
             breaker' = [brk EXCEPT ![Chain[k]] = Asked(@)]
      PROVE  breaker'[Chain[call'[c].at]].state # "OPEN"
  <2>1. k \in 1 .. Len(Chain)
    BY RoutingAssumption DEF CallRecord
  <2>2. Chain[k] \in Provider
    BY <2>1, RoutingAssumption
  <2>3. call'[c].at = k
    BY <1>2 DEF CallRecord
  <2>4. breaker'[Chain[k]] = Asked(brk[Chain[k]])
    BY <1>2, <2>2
  <2> QED
    BY <1>2, <2>2, <2>3, <2>4, AskedIsUp
<1>3. \/ call' = [call EXCEPT ![c] = PassEnds(x)] /\ breaker' = brk
      \/ \E k \in x.at + 1 .. Len(Chain) :
            /\ IsAvailable(brk[Chain[k]])
            /\ call' = [call EXCEPT ![c] = [x EXCEPT !.pc = "asking", !.at = k]]
            /\ breaker' = [brk EXCEPT ![Chain[k]] = Asked(@)]
  BY DEF Proceed, First, Open
<1> QED
  BY <1>1, <1>2, <1>3

NewlyAsking(c) == call'[c].pc = "asking" /\ (call[c].pc # "asking" \/ call'[c].at # call[c].at)

\* The steps of a call that go on to another provider, or to the end of a pass.
Goes(c) ==
    \E x \in CallRecord, brk \in [Provider -> Breaker] :
        Proceed(c, x, brk) /\ ~x.begun /\ ~call[c].begun

\* Every other step leaves the places of the calls alone.
Stays ==
    \A c \in Call :
        /\ call'[c].at = call[c].at
        /\ call[c].begun => call'[c].begun
        /\ call'[c].pc = "asking" => call[c].pc = "asking"

LEMMA StepGoesOrStays == RoutingInv /\ [Next]_vars => Stays \/ \E c \in Call : Goes(c)
<1> SUFFICES ASSUME TypeOK, AllSound, CallsLegal, [Next]_vars
             PROVE  Stays \/ \E c \in Call : Goes(c)
  BY DEF RoutingInv
<1>0. breaker \in [Provider -> Breaker] /\ call \in [Call -> CallRecord]
  BY DEF TypeOK
<1>1. ASSUME NEW c \in Call, Begin(c) PROVE Goes(c)
  <2>1. ~call[c].begun
    BY <1>1 DEF Begin, CallsLegal, Legal
  <2> QED
    BY <1>0, <1>1, <2>1 DEF Begin, Goes
<1>2. ASSUME NEW c \in Call, Wake(c) PROVE Goes(c)
  <2> DEFINE x == [call[c] EXCEPT !.at = 0, !.transient = FALSE,
                                  !.attempt = call[c].attempt + 1]
  <2>1. ~call[c].begun /\ call[c].attempt < Attempts
    BY <1>2 DEF Wake, CallsLegal, Legal
  <2>2. 0 \in 0 .. Len(Chain) /\ call[c].attempt + 1 \in 1 .. Attempts
    BY <1>0, <2>1, RoutingAssumption DEF CallRecord
  <2>3. x \in CallRecord /\ ~x.begun
    BY <1>0, <2>1, <2>2 DEF CallRecord
  <2>4. Proceed(c, x, breaker)
    BY <1>2 DEF Wake
  <2> HIDE DEF x
  <2> QED
    BY <1>0, <2>1, <2>3, <2>4 DEF Goes
<1>3. ASSUME NEW c \in Call, Fault(c), MayFailOver(c) PROVE Goes(c)
  <2> DEFINE x(words) == [call[c] EXCEPT !.transient = words \/ call[c].transient]
  <2>1. PICK words \in BOOLEAN : Proceed(c, x(words), Failed(Of(c)))
    BY <1>3 DEF Fault
  <2>2. (words \/ call[c].transient) \in BOOLEAN
    OBVIOUS
  <2>3. x(words) \in CallRecord /\ ~x(words).begun /\ ~call[c].begun
    BY <1>0, <1>3, <2>2 DEF CallRecord, MayFailOver
  <2> HIDE DEF x
  <2>4. call[c].at # 0
    BY <1>3 DEF Fault, Asking, CallsLegal, Legal
  <2>5. Failed(Of(c)) \in [Provider -> Breaker]
    BY <2>4, OfIsProvider, AnswersAreSound
  <2> QED
    BY <2>1, <2>3, <2>5 DEF Goes
<1>4. ASSUME NEW c \in Call, NEW pc \in Over, call' = [call EXCEPT ![c] = [@ EXCEPT !.pc = pc]]
      PROVE  Stays
  <2> DEFINE n == [call[c] EXCEPT !.pc = pc]
  <2>1. n \in CallRecord /\ n.pc = pc /\ n.at = call[c].at /\ n.begun = call[c].begun
    BY <1>0 DEF CallRecord, Over
  <2>2. call' = [call EXCEPT ![c] = n]
    BY <1>4
  <2> HIDE DEF n
  <2> QED
    BY <1>0, <2>1, <2>2 DEF Stays, Over
<1>5. ASSUME NEW c \in Call, Return(c) \/ Cancel(c), ~(Fault(c) /\ MayFailOver(c)) PROVE Stays
  <2>1. \E pc \in Over : call' = [call EXCEPT ![c] = [@ EXCEPT !.pc = pc]]
    BY <1>5 DEF Return, Answer, Fault, Unknown, Reject, TimeOut, Cancel, Over
  <2> QED
    BY <1>4, <2>1
<1>6. ASSUME NEW c \in Call, FirstChunk(c) PROVE Stays
  <2> DEFINE n == [call[c] EXCEPT !.begun = TRUE]
  <2>1. n \in CallRecord /\ n.at = call[c].at /\ n.begun /\ call[c].pc = "asking"
    BY <1>0, <1>6 DEF FirstChunk, Asking, CallRecord
  <2>2. call' = [call EXCEPT ![c] = n]
    BY <1>6 DEF FirstChunk
  <2> HIDE DEF n
  <2> QED
    BY <1>0, <2>1, <2>2 DEF Stays
<1>7. ASSUME UNCHANGED call PROVE Stays
  BY <1>7 DEF Stays
<1>8. ASSUME NEW p \in Provider, TimeoutPasses(p) \/ Take(p) PROVE UNCHANGED call
  BY <1>8 DEF TimeoutPasses, Take
<1>9. (Reload \/ UNCHANGED vars) => UNCHANGED call
  BY DEF Reload, vars
<1> QED
  BY <1>1, <1>2, <1>3, <1>5, <1>6, <1>7, <1>8, <1>9 DEF Next, Return

\* No call is sent to a provider whose breaker is open at that moment.
THEOREM AskedAreUp == Spec => OpenIsNotAsked
<1> DEFINE A == \A c \in Call : NewlyAsking(c) => breaker'[Chain[call'[c].at]].state # "OPEN"
<1>1. RoutingInv /\ [Next]_vars => A
  <2> SUFFICES ASSUME RoutingInv, [Next]_vars, NEW c \in Call, NewlyAsking(c)
               PROVE  breaker'[Chain[call'[c].at]].state # "OPEN"
    OBVIOUS
  <2>1. call \in [Call -> CallRecord]
    BY DEF RoutingInv, TypeOK
  <2>2. ~Stays
    BY DEF Stays, NewlyAsking
  <2>3. PICK d \in Call : Goes(d)
    BY <2>2, StepGoesOrStays
  <2>4. PICK x \in CallRecord, brk \in [Provider -> Breaker] : Proceed(d, x, brk)
    BY <2>3 DEF Goes
  <2>5. d = c
    BY <2>1, <2>4, ProceedAsksOpen DEF NewlyAsking
  <2> QED
    BY <2>1, <2>4, <2>5, ProceedAsksOpen DEF NewlyAsking
<1>2. [][A]_vars => OpenIsNotAsked
  BY PTL DEF OpenIsNotAsked, NewlyAsking
<1> QED
  BY <1>1, <1>2, Invariant, PTL DEF Spec

\* A stream that has begun stays with its provider.
THEOREM OneSource == Spec => StreamHasOneSource
<1> DEFINE A == \A c \in Call : call[c].begun => call'[c].begun /\ call'[c].at = call[c].at
<1>1. RoutingInv /\ [Next]_vars => A
  <2> SUFFICES ASSUME RoutingInv, [Next]_vars, NEW c \in Call, call[c].begun
               PROVE  call'[c].begun /\ call'[c].at = call[c].at
    OBVIOUS
  <2>1. call \in [Call -> CallRecord]
    BY DEF RoutingInv, TypeOK
  <2>2. CASE Stays
    BY <2>2 DEF Stays
  <2>3. ASSUME NEW d \in Call, Goes(d) PROVE call'[c] = call[c]
    <3>1. PICK x \in CallRecord, brk \in [Provider -> Breaker] : Proceed(d, x, brk)
      BY <2>3 DEF Goes
    <3>2. d # c
      BY <2>3 DEF Goes
    <3> QED
      BY <2>1, <3>1, <3>2, ProceedAsksOpen
  <2> QED
    BY <2>2, <2>3, StepGoesOrStays
<1>2. [][A]_vars => StreamHasOneSource
  BY PTL DEF StreamHasOneSource
<1> QED
  BY <1>1, <1>2, Invariant, PTL DEF Spec

===============================================================================
