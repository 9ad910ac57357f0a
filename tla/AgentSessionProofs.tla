-------------------------- MODULE AgentSessionProofs --------------------------
(***************************************************************************)
(* Proofs about AgentSession, for any number of turns, any batches, limits *)
(* and decisions.                                                          *)
(*                                                                         *)
(* Legal says what a turn is without its messages.  Advance is all that a  *)
(* step may make of a turn; each operation is shown to make no more of it, *)
(* and TurnMoves collects them.  What the theorems need of the other       *)
(* variables is collected in the same way: RegistryKept, CardsKept,        *)
(* GrantStep, SteersKept.                                                  *)
(*                                                                         *)
(* Sound adds the messages and the limits of a turn, and Tidy is what an   *)
(* operation makes of them: what a turn adds to its conversation is such   *)
(* as the program writes, and no steer message but those it takes.  What a *)
(* repair does to messages is in TranscriptProofs.                         *)
(***************************************************************************)
EXTENDS AgentSession, TranscriptProofs, FiniteSetTheorems

\* The calls of one turn.
TurnCall(t) == [turn : {t}, n : Nat, tool : Tool]

\* The fields a turn has.  Nothing is said of its messages.
Shape(r) ==
    r \in [pc : {r.pc}, conv : {r.conv}, hist : {r.hist}, iter : {r.iter},
        recovery : {r.recovery}, asked : {r.asked}, batch : {r.batch},
        outs : {r.outs}, at : {r.at}, answers : {r.answers}, aborted : {r.aborted},
        loaded : {r.loaded}]

Legal(t, r) ==
    /\ Shape(r)
    /\ r.pc \in TurnPC /\ r.aborted \in BOOLEAN /\ r.asked \in Nat /\ r.at \in Nat \ {0}
    /\ r.batch \in Seq(TurnCall(t)) /\ r.outs \in Seq(Outcome) /\ Len(r.outs) <= Len(r.batch)
    /\ r.pc = "gate" => r.at <= Len(r.outs)
    /\ r.pc = "pause" => r.at <= Len(r.batch)

\* A call that was not started by then is not started afterwards.
NoStart(before, after) ==
    \A i \in DOMAIN before : before[i] = "waiting" => after[i] \in {"waiting", "aborted"}

\* What a step that is not a cancel makes of a turn that is in progress or
\* comes to an end.
Advance(t, r, n) ==
    /\ Legal(t, n)
    /\ n.aborted = r.aborted
    /\ n.pc \in InProgress => r.pc \in InProgress
    /\ r.aborted => n.asked = r.asked /\ NoStart(r.outs, n.outs)

-----------------------------------------------------------------------------
LEMMA SameAdvances ==
  ASSUME NEW t, NEW r, Legal(t, r)
  PROVE  Advance(t, r, r)
  BY DEF Advance, NoStart, Legal

LEMMA GotoAdvances ==
  ASSUME NEW t, NEW r, Legal(t, r), NEW pc \in TurnPC \ {"gate", "pause"},
         pc \in InProgress => r.pc \in InProgress
  PROVE  Advance(t, r, [r EXCEPT !.pc = pc])
<1> DEFINE n == [r EXCEPT !.pc = pc]
<1>1. n \in [pc : {pc}, conv : {r.conv}, hist : {r.hist}, iter : {r.iter},
        recovery : {r.recovery}, asked : {r.asked}, batch : {r.batch},
        outs : {r.outs}, at : {r.at}, answers : {r.answers}, aborted : {r.aborted},
        loaded : {r.loaded}]
  BY DEF Legal, Shape
<1> QED
  BY <1>1 DEF Advance, Legal, Shape, NoStart

LEMMA MinOfTwo ==
  ASSUME NEW a \in Nat, NEW b \in Nat
  PROVE  Min({a, b}) \in {a, b} /\ Min({a, b}) <= a /\ Min({a, b}) <= b
<1>1. \E x \in {a, b} : \A y \in {a, b} : x =< y
  <2>1. CASE a <= b
    BY <2>1
  <2>2. CASE ~(a <= b)
    BY <2>2
  <2> QED
    BY <2>1, <2>2
<1>2. Min({a, b}) \in {a, b} /\ \A y \in {a, b} : Min({a, b}) =< y
  BY <1>1 DEF Min
<1> QED
  BY <1>2

LEMMA BegunAdvances ==
  ASSUME NEW t \in Turn, Legal(t, run[t]), run[t].pc = "load", NEW ms, NEW loaded
  PROVE  Advance(t, run[t], Begun(t, ms, loaded))
<1> DEFINE r == run[t]
           conv == IF r.answers = NoCall THEN Append(ms, User(t)) ELSE ms
           n == [r EXCEPT !.pc = "ask", !.conv = conv, !.hist = conv, !.loaded = loaded]
<1>1. n \in [pc : {"ask"}, conv : {conv}, hist : {conv}, iter : {r.iter},
        recovery : {r.recovery}, asked : {r.asked}, batch : {r.batch},
        outs : {r.outs}, at : {r.at}, answers : {r.answers}, aborted : {r.aborted},
        loaded : {loaded}]
  BY DEF Legal, Shape
<1>2. n = Begun(t, ms, loaded)
  BY DEF Begun
<1> HIDE DEF conv, n
<1>3. Advance(t, r, n)
  BY <1>1 DEF Advance, Legal, Shape, NoStart, TurnPC, InProgress
<1> QED
  BY <1>2, <1>3

\* The calls of an answer are the turn's, as many as are asked for, and one at
\* least if the model asks for any.
LEMMA CallsOfTurn ==
  ASSUME NEW t \in Turn, Legal(t, run[t]), NEW tools \in Seq(Tool)
  PROVE  /\ CallsOf(t, tools) \in Seq(TurnCall(t))
         /\ AskUser \in Range(tools) => Len(CallsOf(t, tools)) = 1
<1>1. Effective(tools) \in Seq(Tool) /\ (AskUser \in Range(tools) => Len(Effective(tools)) = 1)
  BY TurnAssumption DEF Effective
<1>2. \A i \in DOMAIN Effective(tools) : run[t].asked + i \in Nat
  BY <1>1 DEF Legal
<1>3. CallsOf(t, tools) = [i \in 1..Len(Effective(tools)) |->
                             [turn |-> t, n |-> run[t].asked + i, tool |-> Effective(tools)[i]]]
  BY <1>1 DEF CallsOf
<1>4. \A i \in 1..Len(Effective(tools)) :
        [turn |-> t, n |-> run[t].asked + i, tool |-> Effective(tools)[i]] \in TurnCall(t)
  BY <1>1, <1>2 DEF TurnCall
<1>5. Len(Effective(tools)) \in Nat
  BY <1>1
<1> QED
  BY <1>1, <1>3, <1>4, <1>5

LEMMA AnswerAdvances ==
  ASSUME NEW t \in Turn, Legal(t, run[t]), Asking(t), NEW tools \in Seq(Tool)
  PROVE  Advance(t, run[t], AnswerOf(t, tools))
<1> DEFINE r == run[t]
           calls == CallsOf(t, tools)
           m == Assistant(calls, t)
           next == IF calls = <<>> THEN "close" ELSE IF AskUser \in Range(tools) THEN "pause" ELSE "gate"
           limit == Min({Len(calls), MaxCalls})
           outs == [i \in DOMAIN SubSeq(calls, 1, limit) |-> "waiting"]
           n == [r EXCEPT !.pc = next, !.conv = Append(@, m), !.hist = Append(@, m),
                          !.asked = @ + Len(calls), !.batch = calls, !.outs = outs, !.at = 1]
<1>1. calls \in Seq(TurnCall(t)) /\ (AskUser \in Range(tools) => Len(calls) = 1)
  BY CallsOfTurn
<1>2. Len(calls) \in Nat /\ MaxCalls \in Nat \ {0}
  BY <1>1, SessionAssumption
<1>3. limit \in Nat /\ limit <= Len(calls) /\ (Len(calls) >= 1 => limit >= 1)
  BY <1>2, MinOfTwo
<1>4. outs \in Seq(Outcome) /\ Len(outs) = limit
  <2>1. DOMAIN SubSeq(calls, 1, limit) = 1..limit
    BY <1>1, <1>3
  <2>2. outs = [i \in 1..limit |-> "waiting"]
    BY <2>1
  <2> HIDE DEF outs, limit, calls
  <2>3. "waiting" \in Outcome
    BY DEF Outcome
  <2> QED
    BY <2>2, <2>3, <1>3
<1>5. next \in TurnPC /\ (next = "gate" => Len(outs) >= 1) /\ (next = "pause" => Len(calls) >= 1)
  <2>1. calls = <<>> \/ Len(calls) >= 1
    BY <1>1
  <2> QED
    BY <2>1, <1>1, <1>3, <1>4 DEF TurnPC
<1>6. n = AnswerOf(t, tools)
  BY DEF AnswerOf
<1>7. r.asked + Len(calls) \in Nat /\ ~r.aborted /\ r.pc = "ask" /\ r.aborted \in BOOLEAN
  BY <1>2 DEF Legal, Asking
<1>8. Legal(t, r)
  OBVIOUS
<1> HIDE DEF r, calls, m, next, limit, outs
<1>9. n \in [pc : {next}, conv : {Append(r.conv, m)}, hist : {Append(r.hist, m)},
        iter : {r.iter}, recovery : {r.recovery}, asked : {r.asked + Len(calls)},
        batch : {calls}, outs : {outs}, at : {1}, answers : {r.answers},
        aborted : {r.aborted}, loaded : {r.loaded}]
  BY <1>8 DEF Legal, Shape
<1> HIDE DEF n
<1>13. /\ n.pc = next /\ n.asked = r.asked + Len(calls) /\ n.batch = calls
       /\ n.outs = outs /\ n.at = 1 /\ n.aborted = r.aborted
  BY <1>9
<1>14. Shape(n)
  BY <1>9 DEF Shape
<1>10. Legal(t, n)
  BY <1>1, <1>3, <1>4, <1>5, <1>7, <1>13, <1>14 DEF Legal
<1>11. n.aborted = r.aborted
  BY <1>13
<1>12. Advance(t, r, n)
  BY <1>7, <1>10, <1>11 DEF Advance, InProgress
<1> QED
  BY <1>6, <1>12 DEF r

LEMMA TruncatedAdvances ==
  ASSUME NEW t \in Turn, Legal(t, run[t]), Asking(t), NEW tools \in Seq(Tool)
  PROVE  Advance(t, run[t], TruncatedOf(t, tools))
<1> DEFINE r == run[t]
           calls == CallsOf(t, tools)
           m == Assistant(calls, t)
           n == [r EXCEPT !.conv = Append(@, m), !.asked = @ + Len(calls), !.recovery = @ + 1]
<1>1. Len(calls) \in Nat
  BY CallsOfTurn
<1>2. n \in [pc : {r.pc}, conv : {Append(r.conv, m)}, hist : {r.hist}, iter : {r.iter},
        recovery : {r.recovery + 1}, asked : {r.asked + Len(calls)},
        batch : {r.batch}, outs : {r.outs}, at : {r.at}, answers : {r.answers},
        aborted : {r.aborted}, loaded : {r.loaded}]
  BY DEF Legal, Shape
<1>3. n = TruncatedOf(t, tools)
  BY DEF TruncatedOf
<1>4. r.asked + Len(calls) \in Nat /\ ~r.aborted /\ r.pc = "ask"
  BY <1>1 DEF Legal, Asking
<1> HIDE DEF calls, m, n
<1>5. Advance(t, r, n)
  BY <1>2, <1>4 DEF Advance, Legal, Shape, InProgress
<1> QED
  BY <1>3, <1>5

LEMMA ExhaustedAdvances ==
  ASSUME NEW t \in Turn, Legal(t, run[t]), Asking(t)
  PROVE  Advance(t, run[t], ExhaustedOf(t))
<1> DEFINE r == run[t]
           ms == <<Assistant(<<>>, t), Assistant(<<>>, t)>>
           n == [r EXCEPT !.pc = "close", !.conv = @ \o ms]
<1>1. n \in [pc : {"close"}, conv : {r.conv \o ms}, hist : {r.hist}, iter : {r.iter},
        recovery : {r.recovery}, asked : {r.asked}, batch : {r.batch},
        outs : {r.outs}, at : {r.at}, answers : {r.answers}, aborted : {r.aborted},
        loaded : {r.loaded}]
  BY DEF Legal, Shape
<1>2. n = ExhaustedOf(t)
  BY DEF ExhaustedOf
<1> HIDE DEF ms, n
<1>3. Advance(t, r, n)
  BY <1>1 DEF Advance, Legal, Shape, NoStart, TurnPC, InProgress, Asking
<1> QED
  BY <1>2, <1>3

LEMMA GatedAdvances ==
  ASSUME NEW t \in Turn, Legal(t, run[t]), AtGate(t)
  PROVE  Advance(t, run[t], GatedOf(t))
<1> DEFINE r == run[t]
           n1 == [r EXCEPT !.at = @ + 1]
           n2 == [r EXCEPT !.pc = "dispatch", !.at = 1]
<1>0. r.pc = "gate" /\ r.at \in Nat \ {0} /\ Len(r.outs) \in Nat
  BY DEF Legal, AtGate
<1>1. CASE r.at < Len(r.outs)
  <2>1. n1 \in [pc : {r.pc}, conv : {r.conv}, hist : {r.hist}, iter : {r.iter},
        recovery : {r.recovery}, asked : {r.asked}, batch : {r.batch},
        outs : {r.outs}, at : {r.at + 1}, answers : {r.answers}, aborted : {r.aborted},
        loaded : {r.loaded}]
    BY DEF Legal, Shape
  <2>2. n1 = GatedOf(t)
    BY <1>1 DEF GatedOf
  <2>3. r.at + 1 \in Nat \ {0} /\ r.at + 1 <= Len(r.outs)
    BY <1>0, <1>1
  <2> HIDE DEF n1
  <2>4. Advance(t, r, n1)
    BY <2>1, <2>3, <1>0 DEF Advance, Legal, Shape, NoStart
  <2> QED
    BY <2>2, <2>4
<1>2. CASE ~(r.at < Len(r.outs))
  <2>1. n2 \in [pc : {"dispatch"}, conv : {r.conv}, hist : {r.hist}, iter : {r.iter},
        recovery : {r.recovery}, asked : {r.asked}, batch : {r.batch},
        outs : {r.outs}, at : {1}, answers : {r.answers}, aborted : {r.aborted},
        loaded : {r.loaded}]
    BY DEF Legal, Shape
  <2>2. n2 = GatedOf(t)
    BY <1>2 DEF GatedOf
  <2> HIDE DEF n2
  <2>3. Advance(t, r, n2)
    BY <2>1, <1>0 DEF Advance, Legal, Shape, NoStart, TurnPC, InProgress
  <2> QED
    BY <2>2, <2>3
<1> QED
  BY <1>1, <1>2

LEMMA PausedAdvances ==
  ASSUME NEW t \in Turn, Legal(t, run[t]), run[t].pc = "pause"
  PROVE  Advance(t, run[t], PausedOf(t))
<1> DEFINE r == run[t]
           m == ToolRow(GateCall(t), "pending")
           n == [r EXCEPT !.pc = "close", !.conv = Append(@, m)]
<1>1. n = PausedOf(t)
  BY DEF PausedOf
<1> HIDE DEF m
<1>2. n \in [pc : {"close"}, conv : {Append(r.conv, m)}, hist : {r.hist}, iter : {r.iter},
        recovery : {r.recovery}, asked : {r.asked}, batch : {r.batch},
        outs : {r.outs}, at : {r.at}, answers : {r.answers}, aborted : {r.aborted},
        loaded : {r.loaded}]
  BY DEF Legal, Shape
<1> HIDE DEF n
<1>3. Advance(t, r, n)
  BY <1>2 DEF Advance, Legal, Shape, NoStart, TurnPC, InProgress
<1> QED
  BY <1>1, <1>3

LEMMA WithOutAdvances ==
  ASSUME NEW t \in Turn, Legal(t, run[t]), NEW i \in DOMAIN run[t].outs, NEW out \in Outcome,
         run[t].aborted /\ run[t].outs[i] = "waiting" => out \in {"waiting", "aborted"}
  PROVE  Advance(t, run[t], WithOut(t, i, out))
<1> DEFINE r == run[t]
           outs == [r.outs EXCEPT ![i] = out]
           n == [r EXCEPT !.outs = outs]
<1>1. n = WithOut(t, i, out)
  BY DEF WithOut
<1>2. outs \in Seq(Outcome) /\ Len(outs) = Len(r.outs) /\ DOMAIN outs = DOMAIN r.outs
  BY DEF Legal
<1>3. r.aborted => NoStart(r.outs, outs)
  BY DEF NoStart
<1> HIDE DEF outs
<1>4. n \in [pc : {r.pc}, conv : {r.conv}, hist : {r.hist}, iter : {r.iter},
        recovery : {r.recovery}, asked : {r.asked}, batch : {r.batch},
        outs : {outs}, at : {r.at}, answers : {r.answers}, aborted : {r.aborted},
        loaded : {r.loaded}]
  BY DEF Legal, Shape
<1> HIDE DEF n
<1>5. Advance(t, r, n)
  BY <1>2, <1>3, <1>4 DEF Advance, Legal, Shape
<1> QED
  BY <1>1, <1>5

LEMMA DeliveredAdvances ==
  ASSUME NEW t \in Turn, Legal(t, run[t]), run[t].pc = "dispatch"
  PROVE  Advance(t, run[t], DeliveredOf(t, run[t].at))
<1> DEFINE r == run[t]
           next == IF r.at < Len(r.outs) THEN "dispatch" ELSE "steer"
           m == Row(t, r.at)
           n == [r EXCEPT !.pc = next, !.at = r.at + 1, !.conv = Append(@, m), !.hist = Append(@, m)]
<1>1. n = DeliveredOf(t, r.at)
  BY DEF DeliveredOf
<1>2. next \in {"dispatch", "steer"} /\ r.at + 1 \in Nat \ {0}
  BY DEF Legal
<1> HIDE DEF m, next
<1>3. n \in [pc : {next}, conv : {Append(r.conv, m)}, hist : {Append(r.hist, m)}, iter : {r.iter},
        recovery : {r.recovery}, asked : {r.asked}, batch : {r.batch},
        outs : {r.outs}, at : {r.at + 1}, answers : {r.answers}, aborted : {r.aborted},
        loaded : {r.loaded}]
  BY DEF Legal, Shape
<1> HIDE DEF n
<1>4. Advance(t, r, n)
  BY <1>2, <1>3 DEF Advance, Legal, Shape, NoStart, TurnPC, InProgress
<1> QED
  BY <1>1, <1>4

LEMMA SteeredAdvances ==
  ASSUME NEW t \in Turn, Legal(t, run[t]), run[t].pc = "steer"
  PROVE  Advance(t, run[t], SteeredOf(t))
<1> DEFINE r == run[t]
           ms == Steered(t)
           n == [r EXCEPT !.pc = "ask", !.iter = @ + 1, !.recovery = 0, !.conv = @ \o ms, !.hist = @ \o ms]
<1>1. CASE r.aborted
  <2>1. SteeredOf(t) = [r EXCEPT !.pc = "close"]
    BY <1>1 DEF SteeredOf
  <2> QED
    BY <2>1, GotoAdvances DEF TurnPC, InProgress
<1>2. CASE ~r.aborted
  <2>1. n = SteeredOf(t)
    BY <1>2 DEF SteeredOf
  <2> HIDE DEF ms
  <2>2. n \in [pc : {"ask"}, conv : {r.conv \o ms}, hist : {r.hist \o ms}, iter : {r.iter + 1},
        recovery : {0}, asked : {r.asked}, batch : {r.batch},
        outs : {r.outs}, at : {r.at}, answers : {r.answers}, aborted : {r.aborted},
        loaded : {r.loaded}]
    BY DEF Legal, Shape
  <2> HIDE DEF n
  <2>3. Advance(t, r, n)
    BY <2>2 DEF Advance, Legal, Shape, NoStart, TurnPC, InProgress
  <2> QED
    BY <2>1, <2>3
<1> QED
  BY <1>1, <1>2

-----------------------------------------------------------------------------
\* Every turn is what it should be.
Runs == run = [t \in Turn |-> run[t]] /\ \A t \in Turn : Legal(t, run[t])

\* A step of one turn.
Moves(t) ==
    /\ run' = [u \in Turn |-> run'[u]]
    /\ \A u \in Turn \ {t} : run'[u] = run[u]
    /\ Advance(t, run[t], run'[t])

LEMMA OneMoves ==
  ASSUME Runs, NEW t \in Turn, NEW n, run' = [run EXCEPT ![t] = n], Advance(t, run[t], n)
  PROVE  Moves(t)
<1>1. run' = [u \in Turn |-> IF u = t THEN n ELSE run[u]]
  BY DEF Runs
<1>2. run'[t] = n /\ \A u \in Turn \ {t} : run'[u] = run[u]
  BY <1>1
<1>3. run' = [u \in Turn |-> run'[u]]
  BY <1>1
<1> QED
  BY <1>2, <1>3 DEF Moves

LEMMA GotoMoves ==
  ASSUME Runs, NEW t \in Turn, NEW pc \in TurnPC \ {"gate", "pause"}, Goto(t, pc),
         pc \in InProgress => run[t].pc \in InProgress
  PROVE  Moves(t)
<1>1. run' = [run EXCEPT ![t] = [run[t] EXCEPT !.pc = pc]]
  BY DEF Goto
<1>2. Advance(t, run[t], [run[t] EXCEPT !.pc = pc])
  BY GotoAdvances DEF Runs
<1> HIDE DEF Goto
<1> QED
  BY <1>1, <1>2, OneMoves

LEMMA AskApprovalMoves ==
  ASSUME Runs, NEW t \in Turn, AskApproval(t)
  PROVE  Moves(t)
<1> DEFINE r == run[t]
           n == [r EXCEPT !.pc = "pause"]
<1>1. run' = [run EXCEPT ![t] = n]
  BY DEF Goto, AskApproval
<1>2. Legal(t, r) /\ r.pc = "gate"
  BY DEF Runs, AskApproval, AtGate
<1>3. n \in [pc : {"pause"}, conv : {r.conv}, hist : {r.hist}, iter : {r.iter},
        recovery : {r.recovery}, asked : {r.asked}, batch : {r.batch},
        outs : {r.outs}, at : {r.at}, answers : {r.answers}, aborted : {r.aborted},
        loaded : {r.loaded}]
  BY <1>2 DEF Legal, Shape
<1>4. r.at <= Len(r.batch)
  <2>1. r.at \in Nat /\ Len(r.outs) \in Nat /\ Len(r.batch) \in Nat
    BY <1>2 DEF Legal
  <2> QED
    BY <1>2, <2>1 DEF Legal
<1> HIDE DEF n
<1>5. Advance(t, r, n)
  BY <1>2, <1>3, <1>4 DEF Advance, Legal, Shape, NoStart, TurnPC, InProgress
<1> QED
  BY <1>1, <1>5, OneMoves

LEMMA CloseMoves ==
  ASSUME Runs, NEW t \in Turn, Close(t)
  PROVE  Moves(t)
<1> DEFINE r == run[t]
           n == [r EXCEPT !.pc = "save", !.hist = <<>>]
<1>1. run' = [run EXCEPT ![t] = n]
  BY DEF Close
<1>2. Legal(t, r)
  BY DEF Runs
<1>3. n \in [pc : {"save"}, conv : {r.conv}, hist : {<<>>}, iter : {r.iter},
        recovery : {r.recovery}, asked : {r.asked}, batch : {r.batch},
        outs : {r.outs}, at : {r.at}, answers : {r.answers}, aborted : {r.aborted},
        loaded : {r.loaded}]
  BY <1>2 DEF Legal, Shape
<1> HIDE DEF n
<1>4. Advance(t, r, n)
  BY <1>2, <1>3 DEF Advance, Legal, Shape, NoStart, TurnPC, InProgress
<1> QED
  BY <1>1, <1>4, OneMoves

LEMMA ReplyMoves ==
  ASSUME Runs, NEW t \in Turn, NEW c, NEW decision, Reply(t, c, decision)
  PROVE  Moves(t)
<1> DEFINE r == run[t]
           n == [r EXCEPT !.pc = "reply", !.answers = c]
<1>1. run' = [run EXCEPT ![t] = n]
  BY DEF Reply
<1>2. Legal(t, r)
  BY DEF Runs
<1>3. n \in [pc : {"reply"}, conv : {r.conv}, hist : {r.hist}, iter : {r.iter},
        recovery : {r.recovery}, asked : {r.asked}, batch : {r.batch},
        outs : {r.outs}, at : {r.at}, answers : {c}, aborted : {r.aborted},
        loaded : {r.loaded}]
  BY <1>2 DEF Legal, Shape
<1> HIDE DEF n
<1>4. Advance(t, r, n)
  BY <1>2, <1>3 DEF Advance, Legal, Shape, NoStart, TurnPC, InProgress
<1> QED
  BY <1>1, <1>4, OneMoves

\* Requests, and the beginning and the end of a turn.
LEMMA RequestMoves ==
  ASSUME Runs, NEW t \in Turn,
         \/ Send(t) \/ Disconnect(t) \/ StoreReply(t) \/ Save(t) \/ Stop(t) \/ Fail(t)
  PROVE  Moves(t)
<1>1. CASE Send(t)
  BY <1>1, GotoMoves DEF Send, TurnPC, InProgress
<1>2. CASE Disconnect(t)
  BY <1>2, GotoMoves DEF Disconnect, TurnPC, InProgress
<1>3. CASE StoreReply(t)
  BY <1>3, GotoMoves DEF StoreReply, TurnPC, InProgress
<1>4. CASE Save(t)
  BY <1>4, GotoMoves DEF Save, TurnPC, InProgress
<1>5. CASE Stop(t)
  BY <1>5, GotoMoves DEF Stop, Delivering, TurnPC, InProgress
<1>6. CASE Fail(t)
  BY <1>6, GotoMoves DEF Fail, Asking, TurnPC, InProgress
<1> QED
  BY <1>1, <1>2, <1>3, <1>4, <1>5, <1>6

LEMMA LoadMoves ==
  ASSUME Runs, NEW t \in Turn, Load(t) \/ LoadFails(t)
  PROVE  Moves(t)
<1>1. CASE Load(t)
  BY <1>1, OneMoves, BegunAdvances DEF Load, Runs
<1>2. CASE LoadFails(t)
  BY <1>2, OneMoves, BegunAdvances DEF LoadFails, Runs
<1> QED
  BY <1>1, <1>2

LEMMA ModelMoves ==
  ASSUME Runs, NEW t \in Turn, Model(t)
  PROVE  Moves(t)
<1>1. ASSUME NEW tools \in Batches, Answer(t, tools) PROVE Moves(t)
  <2>1. tools \in Seq(Tool)
    BY SessionAssumption
  <2> QED
    BY <1>1, <2>1, OneMoves, AnswerAdvances DEF Answer, Runs
<1>2. ASSUME NEW tools \in Batches, Truncated(t, tools) PROVE Moves(t)
  <2>1. tools \in Seq(Tool)
    BY SessionAssumption
  <2> QED
    BY <1>2, <2>1, OneMoves, TruncatedAdvances DEF Truncated, Runs
<1>3. CASE Exhausted(t)
  BY <1>3, OneMoves, ExhaustedAdvances DEF Exhausted, Runs
<1>4. CASE Fail(t)
  BY <1>4, RequestMoves
<1> QED
  BY <1>1, <1>2, <1>3, <1>4 DEF Model

LEMMA GateMoves ==
  ASSUME Runs, NEW t \in Turn, Gate(t)
  PROVE  Moves(t)
<1>1. ASSUME AtGate(t), NextGate(t) PROVE Moves(t)
  BY <1>1, OneMoves, GatedAdvances DEF NextGate, Runs
<1>2. CASE PassGate(t)
  BY <1>1, <1>2 DEF PassGate
<1>3. CASE ReviewAllow(t)
  BY <1>1, <1>3 DEF ReviewAllow
<1>4. CASE ReviewDeny(t)
  BY <1>1, <1>4 DEF ReviewDeny
<1>5. CASE AskApproval(t)
  BY <1>5, AskApprovalMoves
<1>6. CASE Pause(t)
  BY <1>6, OneMoves, PausedAdvances DEF Pause, Runs
<1> QED
  BY <1>2, <1>3, <1>4, <1>5, <1>6 DEF Gate

LEMMA SetOutMoves ==
  ASSUME Runs, NEW t \in Turn, NEW i \in DOMAIN run[t].outs, NEW out \in Outcome, SetOut(t, i, out),
         run[t].aborted /\ run[t].outs[i] = "waiting" => out \in {"waiting", "aborted"}
  PROVE  Moves(t)
  BY OneMoves, WithOutAdvances DEF SetOut, Runs

LEMMA DispatchMoves ==
  ASSUME Runs, NEW t \in Turn, Dispatch(t)
  PROVE  Moves(t)
<1> USE DEF Outcome
<1>1. ASSUME NEW i \in DOMAIN run[t].outs, StartCall(t, i) PROVE Moves(t)
  BY <1>1, SetOutMoves DEF StartCall, Execute, Refuse
<1>2. ASSUME NEW i \in DOMAIN run[t].outs, EndCall(t, i) PROVE Moves(t)
  BY <1>2, SetOutMoves DEF EndCall
<1>3. ASSUME NEW i \in DOMAIN run[t].outs, RunAgain(t, i) PROVE Moves(t)
  BY <1>3, SetOutMoves DEF RunAgain, Execute, Refuse
<1>4. CASE Deliver(t)
  BY <1>4, OneMoves, DeliveredAdvances DEF Deliver, Delivering, Runs
<1>5. CASE TakeSteers(t)
  BY <1>5, OneMoves, SteeredAdvances DEF TakeSteers, Runs
<1> QED
  BY <1>1, <1>2, <1>3, <1>4, <1>5 DEF Dispatch

\* Every step of a turn or of its client but its registration.
LEMMA TurnMoves ==
  ASSUME Runs, NEW t \in Turn, Client(t) \/ Progress(t)
  PROVE  Moves(t) \/ Register(t)
<1>1. CASE Client(t)
  BY <1>1, RequestMoves, ReplyMoves DEF Client
<1>2. CASE Progress(t)
  BY <1>2, RequestMoves, LoadMoves, ModelMoves, GateMoves, DispatchMoves, CloseMoves DEF Progress
<1> QED
  BY <1>1, <1>2

LEMMA RegisterMoves ==
  ASSUME Runs, NEW t \in Turn, Register(t)
  PROVE  /\ run' = [u \in Turn |-> run'[u]]
         /\ \A u \in Turn \ {t} : run'[u] = run[u]
         /\ Legal(t, run'[t])
         /\ run'[t].aborted = run[t].aborted /\ run'[t].asked = run[t].asked
         /\ run'[t].outs = run[t].outs
         /\ registry' = registry \cup {t}
<1> DEFINE r == run[t]
           n == [r EXCEPT !.pc = "load"]
<1>1. run' = [run EXCEPT ![t] = n] /\ registry' = registry \cup {t}
  BY DEF Register, Goto
<1>2. Legal(t, r)
  BY DEF Runs
<1>3. n \in [pc : {"load"}, conv : {r.conv}, hist : {r.hist}, iter : {r.iter},
        recovery : {r.recovery}, asked : {r.asked}, batch : {r.batch},
        outs : {r.outs}, at : {r.at}, answers : {r.answers}, aborted : {r.aborted},
        loaded : {r.loaded}]
  BY <1>2 DEF Legal, Shape
<1> HIDE DEF n
<1>4. Legal(t, n) /\ n.aborted = r.aborted /\ n.asked = r.asked /\ n.outs = r.outs
  BY <1>2, <1>3 DEF Legal, Shape, TurnPC
<1>5. run' = [u \in Turn |-> IF u = t THEN n ELSE run[u]]
  BY <1>1 DEF Runs
<1> QED
  BY <1>1, <1>4, <1>5

LEMMA CancelStops ==
  ASSUME Runs, Cancel
  PROVE  /\ run' = [t \in Turn |-> run'[t]]
         /\ registry' = {}
         /\ \A t \in Turn : Legal(t, run'[t]) /\ run'[t].asked = run[t].asked
                            /\ run'[t].outs = run[t].outs /\ run'[t].pc = run[t].pc
                            /\ (run[t].aborted \/ t \in registry => run'[t].aborted)
<1>1. run' = [t \in Turn |-> IF t \in registry THEN StoppedOf(t) ELSE run[t]] /\ registry' = {}
  BY DEF Cancel
<1>2. ASSUME NEW t \in Turn
      PROVE  /\ Legal(t, StoppedOf(t)) /\ StoppedOf(t).asked = run[t].asked
             /\ StoppedOf(t).outs = run[t].outs /\ StoppedOf(t).pc = run[t].pc
             /\ StoppedOf(t).aborted
  <2> DEFINE r == run[t]
             n == [r EXCEPT !.aborted = TRUE]
  <2>1. n = StoppedOf(t)
    BY DEF StoppedOf
  <2>2. Legal(t, r)
    BY DEF Runs
  <2>3. n \in [pc : {r.pc}, conv : {r.conv}, hist : {r.hist}, iter : {r.iter},
        recovery : {r.recovery}, asked : {r.asked}, batch : {r.batch},
        outs : {r.outs}, at : {r.at}, answers : {r.answers}, aborted : {TRUE},
        loaded : {r.loaded}]
    BY <2>2 DEF Legal, Shape
  <2> HIDE DEF n
  <2>4. Legal(t, n) /\ n.asked = r.asked /\ n.outs = r.outs /\ n.pc = r.pc /\ n.aborted = TRUE
    BY <2>2, <2>3 DEF Legal, Shape
  <2> QED
    BY <2>1, <2>4
<1>3. \A t \in Turn : Legal(t, run[t])
  BY DEF Runs
<1> QED
  BY <1>1, <1>2, <1>3

-----------------------------------------------------------------------------
LEMMA RunsInit == Init => Runs
<1> SUFFICES ASSUME Init PROVE Runs
  OBVIOUS
<1>1. run = [t \in Turn |-> NewTurn]
  BY DEF Init
<1>2. ASSUME NEW t \in Turn PROVE Legal(t, NewTurn)
  <2>1. <<>> \in Seq(TurnCall(t)) /\ <<>> \in Seq(Outcome) /\ Len(<<>>) <= Len(<<>>)
    OBVIOUS
  <2> QED
    BY <2>1 DEF NewTurn, Legal, Shape, TurnPC
<1> QED
  BY <1>1, <1>2 DEF Runs

LEMMA RunsKept == Runs /\ [Next]_vars => Runs'
<1> SUFFICES ASSUME Runs, [Next]_vars PROVE Runs'
  OBVIOUS
<1>1. ASSUME NEW t \in Turn, Moves(t) PROVE Runs'
  <2>1. ASSUME NEW u \in Turn PROVE Legal(u, run'[u])
    <3>1. CASE u = t
      BY <1>1, <3>1 DEF Moves, Advance
    <3>2. CASE u # t
      BY <1>1, <3>2 DEF Moves, Runs
    <3> QED
      BY <3>1, <3>2
  <2>2. run' = [u \in Turn |-> run'[u]]
    BY <1>1 DEF Moves
  <2> QED
    BY <2>1, <2>2 DEF Runs
<1>2. ASSUME NEW t \in Turn, Register(t) PROVE Runs'
  <2>1. ASSUME NEW u \in Turn PROVE Legal(u, run'[u])
    <3>1. CASE u = t
      BY <1>2, <3>1, RegisterMoves
    <3>2. CASE u # t
      BY <1>2, <3>2, RegisterMoves DEF Runs
    <3> QED
      BY <3>1, <3>2
  <2>2. run' = [u \in Turn |-> run'[u]]
    BY <1>2, RegisterMoves
  <2> QED
    BY <2>1, <2>2 DEF Runs
<1>3. CASE Cancel
  BY <1>3, CancelStops DEF Runs
<1>4. CASE Steer
  BY <1>4 DEF Steer, Runs
<1>5. CASE UNCHANGED vars
  BY <1>5 DEF vars, Runs
<1> QED
  BY <1>1, <1>2, <1>3, <1>4, <1>5, TurnMoves DEF Next

\* A turn leaves the registry when it has left its loop, and not otherwise.
LEMMA RegistryKept ==
  ASSUME Runs, NEW t \in Turn, Client(t) \/ Progress(t), ~Register(t)
  PROVE  \/ registry' = registry
         \/ registry' = registry \ {t} /\ run'[t].pc = "save"
<1>1. CASE Close(t)
  <2>1. run'[t] = [run[t] EXCEPT !.pc = "save", !.hist = <<>>]
    BY <1>1 DEF Close, Runs
  <2>2. run'[t].pc = "save"
    BY <2>1 DEF Runs, Legal, Shape
  <2> QED
    BY <1>1, <2>2 DEF Close
<1>2. CASE ~Close(t)
  BY <1>2 DEF Client, Progress, Send, Disconnect, Reply, StoreReply, Load, LoadFails, Model, Answer,
       Truncated, Exhausted, Fail, Gate, PassGate, ReviewAllow, ReviewDeny, AskApproval, Pause,
       Dispatch, StartCall, EndCall, RunAgain, Deliver, TakeSteers, Stop, Save
<1> QED
  BY <1>1, <1>2

LEMMA ReachKept == Runs /\ CancelReaches /\ [Next]_vars => CancelReaches'
<1> SUFFICES ASSUME Runs, CancelReaches, [Next]_vars, NEW u \in Turn, run'[u].pc \in InProgress
             PROVE  u \in registry' \/ run'[u].aborted
  BY DEF CancelReaches
<1>1. ASSUME NEW t \in Turn, Client(t) \/ Progress(t), ~Register(t)
      PROVE  u \in registry' \/ run'[u].aborted
  <2>1. Moves(t)
    BY <1>1, TurnMoves
  <2>2. run[u].pc \in InProgress /\ run'[u].aborted = run[u].aborted
    BY <2>1 DEF Moves, Advance
  <2>3. u \in registry \/ run[u].aborted
    BY <2>2 DEF CancelReaches
  <2>4. u \in registry => u \in registry'
    BY <1>1, RegistryKept DEF InProgress
  <2> QED
    BY <2>2, <2>3, <2>4
<1>2. ASSUME NEW t \in Turn, Register(t) PROVE u \in registry' \/ run'[u].aborted
  BY <1>2, RegisterMoves DEF CancelReaches
<1>3. CASE Cancel
  BY <1>3, CancelStops DEF CancelReaches
<1>4. CASE Steer
  BY <1>4 DEF Steer, CancelReaches
<1>5. CASE UNCHANGED vars
  BY <1>5 DEF vars, CancelReaches
<1> QED
  BY <1>1, <1>2, <1>3, <1>4, <1>5 DEF Next

\* A cancel always reaches every turn that has not come to its end, for any
\* number of turns: who is not in the registry was told to stop before
\* (AgentController.cancel_session).
THEOREM CancelReachesAll == Spec => []CancelReaches
<1>1. Init => CancelReaches
  BY DEF Init, CancelReaches, NewTurn, InProgress
<1> QED
  BY <1>1, RunsInit, RunsKept, ReachKept, PTL DEF Spec

-----------------------------------------------------------------------------
\* Only a pause shows the user a card: that of the call the gate is at.
LEMMA CardsKept ==
  ASSUME NEW t \in Turn, Client(t) \/ Progress(t), ~Pause(t)
  PROVE  cards' \subseteq cards
<1>1. CASE Client(t)
  BY <1>1 DEF Client, Send, Disconnect, Reply
<1>2. CASE Progress(t)
  BY <1>2 DEF Progress, StoreReply, Register, Load, LoadFails, Model, Answer, Truncated, Exhausted,
       Fail, Gate, PassGate, ReviewAllow, ReviewDeny, AskApproval, Dispatch, StartCall, EndCall,
       RunAgain, Deliver, TakeSteers, Stop, Close, Save
<1> QED
  BY <1>1, <1>2

LEMMA GateCallOfTurn ==
  ASSUME Runs, NEW t \in Turn, run[t].pc \in {"gate", "pause"}
  PROVE  GateCall(t) \in TurnCall(t)
<1>1. Legal(t, run[t])
  BY DEF Runs
<1>2. run[t].at \in 1..Len(run[t].batch)
  <2>1. run[t].at \in Nat \ {0} /\ Len(run[t].outs) \in Nat /\ Len(run[t].batch) \in Nat
    BY <1>1 DEF Legal
  <2> QED
    BY <1>1, <2>1 DEF Legal
<1> QED
  BY <1>1, <1>2 DEF GateCall, Legal

LEMMA CancelHolds ==
  ASSUME Runs, [Next]_vars, NEW u \in Turn, run[u].aborted
  PROVE  /\ run'[u].asked = run[u].asked
         /\ NoStart(run[u].outs, run'[u].outs)
         /\ {c \in cards' : c.turn = u} \subseteq cards
<1>0. NoStart(run[u].outs, run[u].outs)
  BY DEF NoStart
<1>1. ASSUME NEW t \in Turn, Client(t) \/ Progress(t)
      PROVE  run'[u].asked = run[u].asked /\ NoStart(run[u].outs, run'[u].outs)
  <2>1. CASE Register(t)
    BY <2>1, <1>0, RegisterMoves
  <2>2. CASE Moves(t)
    BY <2>2, <1>0 DEF Moves, Advance
  <2> QED
    BY <1>1, <2>1, <2>2, TurnMoves
<1>2. ASSUME NEW t \in Turn, Client(t) \/ Progress(t)
      PROVE  {c \in cards' : c.turn = u} \subseteq cards
  <2>1. CASE Pause(t)
    <3>1. cards' = cards \cup {GateCall(t)} /\ run[t].pc = "pause" /\ ~run[t].aborted
      BY <2>1 DEF Pause
    <3>2. GateCall(t).turn = t
      BY <3>1, GateCallOfTurn DEF TurnCall
    <3> QED
      BY <3>1, <3>2
  <2>2. CASE ~Pause(t)
    BY <1>2, <2>2, CardsKept
  <2> QED
    BY <2>1, <2>2
<1>3. CASE Cancel
  <2>1. cards' = cards
    BY <1>3 DEF Cancel
  <2> QED
    BY <1>0, <1>3, <2>1, CancelStops
<1>4. CASE Steer
  BY <1>0, <1>4 DEF Steer
<1>5. CASE UNCHANGED vars
  BY <1>0, <1>5 DEF vars
<1> QED
  BY <1>1, <1>2, <1>3, <1>4, <1>5 DEF Next

\* A turn that was told to stop starts no call, gets no answer and asks the
\* user nothing, whatever the other turns and requests of the session do
\* (agent/query.py).
THEOREM CancelIsFinal == Spec => CancelledDoesNoMore
<1> DEFINE Holds == \A t \in Turn : run[t].aborted =>
                      /\ run'[t].asked = run[t].asked
                      /\ \A i \in DOMAIN run[t].outs :
                           run[t].outs[i] = "waiting" => run'[t].outs[i] \in {"waiting", "aborted"}
                      /\ {c \in cards' : c.turn = t} \subseteq cards
<1>1. Runs /\ [Next]_vars => Holds
  BY CancelHolds DEF NoStart
<1>2. Runs /\ [Next]_vars => [Holds]_vars
  BY <1>1
<1>3. CancelledDoesNoMore <=> [][Holds]_vars
  BY DEF CancelledDoesNoMore
<1> HIDE DEF Holds
<1> QED
  BY <1>2, <1>3, RunsInit, RunsKept, PTL DEF Spec

-----------------------------------------------------------------------------
\* Approvals: what was granted, decided and used.  Only gated tools are granted
\* or asked about; the rest of the book is of no concern here.
BookTypes(b) ==
    b \in [allowed : [Gated -> Nat], used : [Gated -> Nat], allowedAlways : SUBSET Gated,
           refused : {b.refused}, denied : {b.denied}, taken : {b.taken},
           steered : {b.steered}, troubles : {b.troubles}]

GrantTypes ==
    /\ once \subseteq Gated /\ always \subseteq Gated
    /\ pending \in [turn : Turn, n : Nat, tool : Gated] \cup {NoCall}
    /\ cards \subseteq Call
    /\ BookTypes(book)

GrantInv == GrantTypes /\ RunsNeedAllow

\* The ways in which the book of grants changes.
SameBook == book'.allowed = book.allowed /\ book'.used = book.used
            /\ book'.allowedAlways = book.allowedAlways

GrantsKept == SameBook /\ once' \subseteq once /\ always' = always
GrantedOnce(g) == /\ book'.allowed = [book.allowed EXCEPT ![g] = book.allowed[g] + 1]
                  /\ book'.used = book.used /\ book'.allowedAlways = book.allowedAlways
                  /\ once' = once \cup {g} /\ always' = always
GrantedAlways(g) == /\ book'.allowed = book.allowed /\ book'.used = book.used
                    /\ book'.allowedAlways = book.allowedAlways \cup {g}
                    /\ once' = once /\ always' = always \cup {g}
GrantUsed(g) == /\ book'.used = [book.used EXCEPT ![g] = book.used[g] + 1]
                /\ book'.allowed = book.allowed /\ book'.allowedAlways = book.allowedAlways
                /\ g \in once /\ once' = once \ {g} /\ always' = always

GrantStep == /\ BookTypes(book')
             /\ \/ GrantsKept
                \/ \E g \in Gated : GrantedOnce(g) \/ GrantedAlways(g) \/ GrantUsed(g)

LEMMA GrantStepKeeps == GrantInv /\ GrantStep => RunsNeedAllow' /\ once' \subseteq Gated /\ always' \subseteq Gated
<1> SUFFICES ASSUME GrantInv, GrantStep
             PROVE  RunsNeedAllow' /\ once' \subseteq Gated /\ always' \subseteq Gated
  OBVIOUS
<1>0. /\ book.allowed \in [Gated -> Nat] /\ book.used \in [Gated -> Nat]
      /\ once \subseteq Gated /\ always \subseteq Gated
      /\ always \subseteq book.allowedAlways
      /\ \A g \in Gated : book.used[g] + (IF g \in once THEN 1 ELSE 0) <= book.allowed[g]
  BY DEF GrantInv, GrantTypes, BookTypes, RunsNeedAllow
<1>1. CASE GrantsKept
  BY <1>0, <1>1 DEF GrantsKept, SameBook, RunsNeedAllow
<1>2. ASSUME NEW g \in Gated, GrantedOnce(g)
      PROVE  RunsNeedAllow' /\ once' \subseteq Gated /\ always' \subseteq Gated
  <2>1. ASSUME NEW h \in Gated
        PROVE  book'.used[h] + (IF h \in once' THEN 1 ELSE 0) <= book'.allowed[h]
    <3>1. book.used[h] \in Nat /\ book.allowed[h] \in Nat /\ book'.used[h] = book.used[h]
      BY <1>0, <1>2 DEF GrantedOnce
    <3>2. CASE h = g
      BY <1>0, <1>2, <3>1, <3>2 DEF GrantedOnce
    <3>3. CASE h # g
      BY <1>0, <1>2, <3>1, <3>3 DEF GrantedOnce
    <3> QED
      BY <3>2, <3>3
  <2> QED
    BY <1>0, <1>2, <2>1 DEF GrantedOnce, RunsNeedAllow
<1>3. ASSUME NEW g \in Gated, GrantedAlways(g)
      PROVE  RunsNeedAllow' /\ once' \subseteq Gated /\ always' \subseteq Gated
  BY <1>0, <1>3 DEF GrantedAlways, RunsNeedAllow
<1>4. ASSUME NEW g \in Gated, GrantUsed(g)
      PROVE  RunsNeedAllow' /\ once' \subseteq Gated /\ always' \subseteq Gated
  <2>1. ASSUME NEW h \in Gated
        PROVE  book'.used[h] + (IF h \in once' THEN 1 ELSE 0) <= book'.allowed[h]
    <3>1. book.used[h] \in Nat /\ book.allowed[h] \in Nat /\ book'.allowed[h] = book.allowed[h]
      BY <1>0, <1>4 DEF GrantUsed
    <3>2. CASE h = g
      BY <1>0, <1>4, <3>1, <3>2 DEF GrantUsed
    <3>3. CASE h # g
      BY <1>0, <1>4, <3>1, <3>3 DEF GrantUsed
    <3> QED
      BY <3>2, <3>3
  <2> QED
    BY <1>0, <1>4, <2>1 DEF GrantUsed, RunsNeedAllow
<1> QED
  BY <1>1, <1>2, <1>3, <1>4 DEF GrantStep

\* What a step does to approvals beside the grants.
AsksKept == /\ pending' \in [turn : Turn, n : Nat, tool : Gated] \cup {NoCall}
            /\ cards' \subseteq Call

LEMMA UntouchedGrants ==
  ASSUME GrantTypes, UNCHANGED <<once, always, book>>
  PROVE  GrantStep
  BY DEF GrantTypes, BookTypes, GrantStep, GrantsKept, SameBook

LEMMA TroubleKeepsGrants ==
  ASSUME GrantTypes, UNCHANGED <<once, always>>, Trouble
  PROVE  GrantStep
<1>1. book' = [book EXCEPT !.troubles = @ + 1] /\ BookTypes(book)
  BY DEF Trouble, GrantTypes
<1>2. BookTypes(book') /\ SameBook
  BY <1>1 DEF BookTypes, SameBook
<1> QED
  BY <1>2 DEF GrantStep, GrantsKept

LEMMA AllowedOnce ==
  ASSUME GrantTypes, NEW g \in Gated, book' = [book EXCEPT !.allowed[g] = @ + 1],
         once' = once \cup {g}, always' = always
  PROVE  GrantStep
<1>1. BookTypes(book)
  BY DEF GrantTypes
<1>2. book'.allowed = [book.allowed EXCEPT ![g] = book.allowed[g] + 1] /\ BookTypes(book')
      /\ book'.used = book.used /\ book'.allowedAlways = book.allowedAlways
  BY <1>1 DEF BookTypes
<1> QED
  BY <1>2 DEF GrantStep, GrantedOnce

LEMMA ReplyGrants ==
  ASSUME GrantTypes, NEW t \in Turn, NEW c, NEW decision \in {"once", "session", "deny"},
         Reply(t, c, decision)
  PROVE  GrantStep /\ AsksKept
<1>1. c \in Call /\ cards' \subseteq Call
  BY DEF Reply, GrantTypes
<1>2. CASE pending # c
  BY <1>1, <1>2, UntouchedGrants DEF Reply, Decide, AsksKept, GrantTypes
<1>3. CASE pending = c
  <2>1. c.tool \in Gated
    <3>1. NoCall \notin Call
      BY TurnAssumption DEF NoCall, Call
    <3> QED
      BY <1>1, <1>3, <3>1 DEF GrantTypes
  <2>2. pending' = NoCall
    BY <1>3 DEF Reply, Decide
  <2>3. AsksKept
    BY <1>1, <2>2 DEF AsksKept
  <2>4. CASE decision = "once"
    <3>1. /\ book' = [book EXCEPT !.allowed[c.tool] = @ + 1]
          /\ once' = once \cup {c.tool} /\ always' = always
      BY <1>3, <2>4 DEF Reply, Decide
    <3> QED
      BY <2>1, <2>3, <3>1, AllowedOnce
  <2>5. CASE decision = "session"
    <3>1. book' = [book EXCEPT !.allowedAlways = @ \cup {c.tool}] /\ BookTypes(book)
      BY <1>3, <2>5 DEF Reply, Decide, GrantTypes
    <3>2. /\ BookTypes(book') /\ book'.allowed = book.allowed /\ book'.used = book.used
          /\ book'.allowedAlways = book.allowedAlways \cup {c.tool}
      BY <2>1, <3>1 DEF BookTypes
    <3>3. once' = once /\ always' = always \cup {c.tool}
      BY <1>3, <2>5 DEF Reply, Decide
    <3>4. GrantedAlways(c.tool)
      BY <3>2, <3>3 DEF GrantedAlways
    <3> QED
      BY <2>1, <2>3, <3>2, <3>4 DEF GrantStep
  <2>6. CASE decision = "deny"
    <3>1. UNCHANGED <<once, always, book>>
      BY <1>3, <2>6 DEF Reply, Decide
    <3> QED
      BY <2>3, <3>1, UntouchedGrants
  <2> QED
    BY <2>4, <2>5, <2>6
<1> QED
  BY <1>2, <1>3

LEMMA GateGrants ==
  ASSUME GrantTypes, Runs, NEW t \in Turn, Gate(t)
  PROVE  GrantStep /\ AsksKept
<1> DEFINE c == GateCall(t)
<1>0. run[t].pc \in {"gate", "pause"} => c \in TurnCall(t)
  BY GateCallOfTurn
<1>1. CASE PassGate(t)
  <2>1. once' \subseteq once /\ UNCHANGED <<always, book, pending, cards>>
    BY <1>1 DEF PassGate, TakeGrant
  <2> QED
    BY <2>1 DEF GrantTypes, BookTypes, GrantStep, GrantsKept, SameBook, AsksKept
<1>2. CASE ReviewAllow(t)
  <2>1. c.tool \in Gated
    BY <1>2 DEF ReviewAllow, Granted
  <2>2. /\ book' = [book EXCEPT !.allowed[c.tool] = @ + 1] /\ once' = once \cup {c.tool}
        /\ UNCHANGED <<always, pending, cards>>
    BY <1>2 DEF ReviewAllow
  <2> HIDE DEF c
  <2> QED
    BY <2>1, <2>2, AllowedOnce DEF AsksKept, GrantTypes
<1>3. CASE ReviewDeny(t)
  <2>1. book' = [book EXCEPT !.denied = @ \cup {c}] /\ BookTypes(book)
    BY <1>3 DEF ReviewDeny, GrantTypes
  <2> HIDE DEF c
  <2>2. BookTypes(book') /\ SameBook
    BY <2>1 DEF BookTypes, SameBook
  <2> QED
    BY <1>3, <2>2 DEF ReviewDeny, GrantTypes, GrantStep, GrantsKept, AsksKept
<1>4. CASE AskApproval(t)
  <2>1. c \in TurnCall(t) /\ c.tool \in Gated
    BY <1>0, <1>4 DEF AskApproval, AtGate, Granted
  <2>2. pending' = c /\ cards' = cards /\ UNCHANGED <<once, always, book>>
    BY <1>4 DEF AskApproval
  <2> HIDE DEF c
  <2>3. c \in [turn : Turn, n : Nat, tool : Gated]
    BY <2>1 DEF TurnCall
  <2> QED
    BY <2>2, <2>3, UntouchedGrants DEF AsksKept, GrantTypes
<1>5. CASE Pause(t)
  <2>1. c \in Call
    BY <1>0, <1>5 DEF Pause, TurnCall, Call
  <2> QED
    BY <1>5, <2>1, UntouchedGrants DEF Pause, AsksKept, GrantTypes
<1> QED
  BY <1>1, <1>2, <1>3, <1>4, <1>5 DEF Gate

\* A call that begins takes the grant it was checked with.
LEMMA ExecuteGrants ==
  ASSUME GrantTypes, NEW t \in Turn, NEW i, NEW out, Execute(t, i, out), UNCHANGED <<always, pending, cards>>
  PROVE  GrantStep /\ AsksKept
<1> DEFINE c == run[t].batch[i]
<1>1. AsksKept
  BY DEF AsksKept, GrantTypes
<1>2. Granted(c) /\ TakeGrant(c) /\ book' = UsedBy(c)
  BY DEF Execute
<1> HIDE DEF c
<1>3. CASE c.tool \in Gated \ always
  <2>1. c.tool \in once /\ once' = once \ {c.tool}
    BY <1>2, <1>3 DEF Granted, TakeGrant
  <2>2. book' = [book EXCEPT !.used[c.tool] = @ + 1] /\ BookTypes(book)
    BY <1>2, <1>3 DEF UsedBy, GrantTypes
  <2>3. /\ BookTypes(book') /\ book'.used = [book.used EXCEPT ![c.tool] = book.used[c.tool] + 1]
        /\ book'.allowed = book.allowed /\ book'.allowedAlways = book.allowedAlways
    BY <1>3, <2>2 DEF BookTypes
  <2> QED
    BY <1>1, <1>3, <2>1, <2>3 DEF GrantStep, GrantUsed
<1>4. CASE c.tool \notin Gated \ always
  <2>1. once' = once /\ book' = book
    BY <1>2, <1>4 DEF TakeGrant, UsedBy, GrantTypes
  <2> QED
    BY <1>1, <2>1, UntouchedGrants
<1> QED
  BY <1>3, <1>4

LEMMA RefuseGrants ==
  ASSUME GrantTypes, NEW t \in Turn, NEW i, Refuse(t, i), UNCHANGED <<always, pending, cards>>
  PROVE  GrantStep /\ AsksKept
<1>1. AsksKept /\ once' = once
  BY DEF AsksKept, GrantTypes, Refuse
<1>2. CASE book' = book
  BY <1>1, <1>2, UntouchedGrants
<1>3. CASE book' # book
  <2> DEFINE c == run[t].batch[i]
  <2>1. book' = [book EXCEPT !.refused = @ \cup {c.tool}] /\ BookTypes(book)
    BY <1>3 DEF Refuse, GrantTypes
  <2> HIDE DEF c
  <2>2. BookTypes(book') /\ SameBook
    BY <2>1 DEF BookTypes, SameBook
  <2> QED
    BY <1>1, <2>2 DEF GrantStep, GrantsKept
<1> QED
  BY <1>2, <1>3

LEMMA DispatchGrants ==
  ASSUME GrantTypes, NEW t \in Turn, Dispatch(t)
  PROVE  GrantStep /\ AsksKept
<1>1. ASSUME NEW i \in DOMAIN run[t].outs, StartCall(t, i) PROVE GrantStep /\ AsksKept
  <2>1. CASE UNCHANGED <<once, book>>
    BY <1>1, <2>1, UntouchedGrants DEF StartCall, AsksKept, GrantTypes
  <2>2. CASE Execute(t, i, "running") \/ Refuse(t, i)
    BY <1>1, <2>2, ExecuteGrants, RefuseGrants DEF StartCall
  <2> QED
    BY <1>1, <2>1, <2>2 DEF StartCall
<1>2. ASSUME NEW i \in DOMAIN run[t].outs, EndCall(t, i) PROVE GrantStep /\ AsksKept
  BY <1>2, UntouchedGrants DEF EndCall, AsksKept, GrantTypes
<1>3. ASSUME NEW i \in DOMAIN run[t].outs, RunAgain(t, i) PROVE GrantStep /\ AsksKept
  BY <1>3, ExecuteGrants, RefuseGrants DEF RunAgain
<1>4. CASE Deliver(t)
  BY <1>4, UntouchedGrants DEF Deliver, AsksKept, GrantTypes
<1>5. CASE TakeSteers(t)
  <2>1. book' = [book EXCEPT !.taken = @ \o NewlyTaken(t)] /\ BookTypes(book)
    BY <1>5 DEF TakeSteers, GrantTypes
  <2>2. BookTypes(book') /\ SameBook
    BY <2>1 DEF BookTypes, SameBook
  <2> QED
    BY <1>5, <2>2 DEF TakeSteers, GrantTypes, GrantStep, GrantsKept, AsksKept
<1> QED
  BY <1>1, <1>2, <1>3, <1>4, <1>5 DEF Dispatch

LEMMA OtherGrants ==
  ASSUME GrantTypes, NEW t \in Turn,
         \/ Send(t) \/ Disconnect(t) \/ StoreReply(t) \/ Register(t) \/ Load(t) \/ LoadFails(t)
         \/ Model(t) \/ Stop(t) \/ Close(t) \/ Save(t) \/ Cancel \/ UNCHANGED vars
  PROVE  GrantStep /\ AsksKept
<1>1. UNCHANGED <<pending, cards>>
  BY DEF Send, Disconnect, StoreReply, Register, Load, LoadFails, Model, Answer, Truncated,
     Exhausted, Fail, Stop, Close, Save, Cancel, vars
<1>2. UNCHANGED <<once, always>> /\ (Trouble \/ UNCHANGED book)
  BY DEF Send, Disconnect, StoreReply, Register, Load, LoadFails, Model, Answer, Truncated,
     Exhausted, Fail, Stop, Close, Save, Cancel, vars
<1> QED
  BY <1>1, <1>2, UntouchedGrants, TroubleKeepsGrants DEF AsksKept, GrantTypes

LEMMA SteerGrants ==
  ASSUME GrantTypes, Steer
  PROVE  GrantStep /\ AsksKept
<1>1. book' = [book EXCEPT !.steered = @ + 1] /\ BookTypes(book)
  BY DEF Steer, GrantTypes
<1>2. BookTypes(book') /\ SameBook
  BY <1>1 DEF BookTypes, SameBook
<1> QED
  BY <1>2 DEF Steer, GrantTypes, GrantStep, GrantsKept, AsksKept

LEMMA GrantInvKept == Runs /\ GrantInv /\ [Next]_vars => GrantInv'
<1> SUFFICES ASSUME Runs, GrantInv, [Next]_vars PROVE GrantInv'
  OBVIOUS
<1>1. GrantTypes
  BY DEF GrantInv
<1>2. GrantStep /\ AsksKept
  <2>1. ASSUME NEW t \in Turn, Client(t) PROVE GrantStep /\ AsksKept
    BY <1>1, <2>1, OtherGrants, ReplyGrants DEF Client
  <2>2. ASSUME NEW t \in Turn, Progress(t) PROVE GrantStep /\ AsksKept
    BY <1>1, <2>2, OtherGrants, GateGrants, DispatchGrants DEF Progress
  <2>3. CASE Steer
    BY <1>1, <2>3, SteerGrants
  <2>4. CASE Cancel \/ UNCHANGED vars
    <3>1. UNCHANGED <<pending, cards, once, always>> /\ (Trouble \/ UNCHANGED book)
      BY <2>4 DEF Cancel, vars
    <3> QED
      BY <1>1, <3>1, UntouchedGrants, TroubleKeepsGrants DEF AsksKept, GrantTypes
  <2> QED
    BY <2>1, <2>2, <2>3, <2>4 DEF Next
<1>3. RunsNeedAllow' /\ once' \subseteq Gated /\ always' \subseteq Gated
  BY <1>2, GrantStepKeeps
<1>4. BookTypes(book)' /\ (cards \subseteq Call)'
      /\ (pending \in [turn : Turn, n : Nat, tool : Gated] \cup {NoCall})'
  BY <1>2 DEF GrantStep, AsksKept, BookTypes
<1> QED
  BY <1>3, <1>4 DEF GrantInv, GrantTypes

LEMMA GrantInvInit == Init => GrantInv
<1> SUFFICES ASSUME Init PROVE GrantInv
  OBVIOUS
<1>1. BookTypes(NewBook)
  BY DEF BookTypes, NewBook
<1>2. \A g \in Gated : NewBook.used[g] = 0 /\ NewBook.allowed[g] = 0
  BY DEF NewBook
<1>3. GrantTypes
  BY <1>1 DEF Init, GrantTypes
<1>4. RunsNeedAllow
  BY <1>2 DEF Init, RunsNeedAllow
<1> QED
  BY <1>3, <1>4 DEF GrantInv

\* A gated tool never runs more often than it was allowed to, for any number of
\* turns that overlap, any batches of calls and any decisions: each run without
\* a grant for the session takes a grant for one run, and there are never more
\* of them than decisions (tools/approval.py).
THEOREM NoRunWithoutAllow == Spec => []RunsNeedAllow
<1>1. GrantInv => RunsNeedAllow
  BY DEF GrantInv
<1> QED
  BY <1>1, RunsInit, RunsKept, GrantInvInit, GrantInvKept, PTL DEF Spec

-----------------------------------------------------------------------------
\* Steer messages.
Ids(taken) == [k \in DOMAIN taken |-> taken[k].id]

SteerInv ==
    /\ steers \in Seq(Nat) /\ book.steered \in Nat
    /\ book.taken \in Seq([id : Nat, by : Turn])
    /\ SteersInOrder

SteersKept == steers' = steers /\ book'.taken = book.taken /\ book'.steered = book.steered

LEMMA OtherBooks ==
  ASSUME BookTypes(book), NEW t \in Turn, Client(t) \/ Progress(t), ~TakeSteers(t)
  PROVE  book'.taken = book.taken /\ book'.steered = book.steered
<1> USE DEF BookTypes
<1>1. CASE Client(t)
  <2>1. CASE Send(t) \/ Disconnect(t)
    BY <2>1 DEF Send, Disconnect, Trouble
  <2>2. ASSUME NEW c, NEW decision, Reply(t, c, decision)
        PROVE  book'.taken = book.taken /\ book'.steered = book.steered
    <3>1. Decide(c, decision)
      BY <2>2 DEF Reply
    <3>2. \/ book' = book \/ book' = [book EXCEPT !.allowedAlways = @ \cup {c.tool}]
          \/ book' = [book EXCEPT !.allowed[c.tool] = @ + 1]
      BY <3>1 DEF Decide
    <3> QED
      BY <3>2
  <2> QED
    BY <1>1, <2>1, <2>2 DEF Client
<1>2. CASE \/ StoreReply(t) \/ Register(t) \/ Load(t) \/ LoadFails(t) \/ Model(t)
           \/ Stop(t) \/ Close(t) \/ Save(t)
  BY <1>2 DEF StoreReply, Register, Load, LoadFails, Model, Answer, Truncated, Exhausted, Fail,
       Stop, Close, Save, Trouble
<1>3. CASE Gate(t)
  BY <1>3 DEF Gate, PassGate, ReviewAllow, ReviewDeny, AskApproval, Pause
<1>4. CASE Dispatch(t)
  <2>1. ASSUME NEW i \in DOMAIN run[t].outs, StartCall(t, i) \/ EndCall(t, i) \/ RunAgain(t, i)
        PROVE  book'.taken = book.taken /\ book'.steered = book.steered
    <3>1. \/ book' = book
          \/ \E g : book' = [book EXCEPT !.used[g] = @ + 1]
          \/ \E g : book' = [book EXCEPT !.refused = @ \cup {g}]
      BY <2>1 DEF StartCall, EndCall, RunAgain, Execute, Refuse, UsedBy
    <3> QED
      BY <3>1
  <2>2. CASE Deliver(t)
    BY <2>2 DEF Deliver
  <2> QED
    BY <1>4, <2>1, <2>2 DEF Dispatch
<1> QED
  BY <1>1, <1>2, <1>3, <1>4 DEF Progress

LEMMA OthersKeepSteers ==
  ASSUME BookTypes(book), NEW t \in Turn, Client(t) \/ Progress(t), ~TakeSteers(t)
  PROVE  SteersKept
<1>1. steers' = steers
  <2>1. CASE Client(t)
    BY <2>1 DEF Client, Send, Disconnect, Reply
  <2>2. CASE Progress(t)
    BY <2>2 DEF Progress, StoreReply, Register, Load, LoadFails, Model, Answer, Truncated, Exhausted,
         Fail, Gate, PassGate, ReviewAllow, ReviewDeny, AskApproval, Pause, Dispatch, StartCall,
         EndCall, RunAgain, Deliver, Stop, Close, Save
  <2> QED
    BY <2>1, <2>2
<1> QED
  BY <1>1, OtherBooks DEF SteersKept

LEMMA ConcatOfNats ==
  ASSUME NEW a \in Seq(Nat), NEW b \in Seq(Nat)
  PROVE  /\ a \o b \in Seq(Nat) /\ Len(a \o b) = Len(a) + Len(b)
         /\ a \o b = [k \in 1..(Len(a) + Len(b)) |-> (a \o b)[k]]
<1>1. a \o b \in Seq(Nat) /\ Len(a \o b) = Len(a) + Len(b)
  BY ConcatProperties
<1>2. \A s \in Seq(Nat) : s = [k \in 1..Len(s) |-> s[k]]
  OBVIOUS
<1>3. a \o b = [k \in 1..Len(a \o b) |-> (a \o b)[k]]
  BY <1>1, <1>2
<1> QED
  BY <1>1, <1>3

LEMMA AppendToConcat ==
  ASSUME NEW a \in Seq(Nat), NEW b \in Seq(Nat), NEW x \in Nat
  PROVE  a \o Append(b, x) = Append(a \o b, x)
<1>1. a \o b \in Seq(Nat) /\ <<x>> \in Seq(Nat)
  BY ConcatProperties
<1>2. Append(b, x) = b \o <<x>> /\ Append(a \o b, x) = (a \o b) \o <<x>>
  BY <1>1, AppendIsConcat
<1>3. (a \o b) \o <<x>> = a \o (b \o <<x>>)
  BY <1>1, ConcatAssociative
<1> QED
  BY <1>2, <1>3

LEMMA IdsOf ==
  ASSUME NEW s \in Seq([id : Nat, by : Turn])
  PROVE  /\ Ids(s) \in Seq(Nat) /\ Len(Ids(s)) = Len(s)
         /\ \A k \in 1..Len(s) : Ids(s)[k] = s[k].id
<1>1. Ids(s) = [k \in 1..Len(s) |-> s[k].id]
  BY DEF Ids
<1>2. \A k \in 1..Len(s) : s[k].id \in Nat
  <2>1. \A k \in 1..Len(s) : s[k] \in [id : Nat, by : Turn]
    BY ElementOfSeq
  <2> QED
    BY <2>1
<1> QED
  BY <1>1, <1>2, IsASeq

LEMMA ConcatDomain ==
  ASSUME NEW S, NEW a \in Seq(S), NEW b \in Seq(S)
  PROVE  DOMAIN (a \o b) = 1..(Len(a) + Len(b))
  BY ConcatProperties

LEMMA TakeKeepsOrder ==
  ASSUME BookTypes(book), SteerInv, NEW t \in Turn, TakeSteers(t)
  PROVE  SteerInv'
<1> DEFINE new == NewlyTaken(t)
           before == book.taken
<1>1. new = [k \in 1..Len(steers) |-> [id |-> steers[k], by |-> t]]
  BY DEF NewlyTaken, SteerInv
<1>2. new \in Seq([id : Nat, by : Turn]) /\ Len(new) = Len(steers)
  BY <1>1 DEF SteerInv
<1>3. book' = [book EXCEPT !.taken = @ \o new] /\ steers' = <<>>
  BY DEF TakeSteers
<1>4. book'.taken = before \o new /\ book'.steered = book.steered
  BY <1>3 DEF BookTypes
<1>5. Ids(before \o new) = Ids(before) \o steers
  <2> HIDE DEF new, before
  <2>0. before \in Seq([id : Nat, by : Turn]) /\ steers \in Seq(Nat)
    BY DEF SteerInv, before
  <2>5. DOMAIN (before \o new) = 1..(Len(before) + Len(new))
    <3> DEFINE S == [id : Nat, by : Turn]
    <3>1. before \in Seq(S) /\ new \in Seq(S)
      BY <1>2, <2>0
    <3> HIDE DEF S
    <3> QED
      BY <3>1, ConcatDomain
  <2>1. DOMAIN (before \o new) = 1..(Len(before) + Len(steers))
    BY <1>2, <2>5
  <2>2. Ids(before) \in Seq(Nat) /\ Len(Ids(before)) = Len(before)
        /\ \A k \in 1..Len(before) : Ids(before)[k] = before[k].id
    BY <2>0, IdsOf
  <2>3. Ids(before \o new) = [k \in 1..(Len(before) + Len(steers)) |-> (before \o new)[k].id]
    BY <2>1 DEF Ids
  <2>4. ASSUME NEW k \in 1..(Len(before) + Len(steers))
        PROVE  (before \o new)[k].id = (Ids(before) \o steers)[k]
    <3>0. Len(before) \in Nat /\ Len(steers) \in Nat /\ k \in Nat
      BY <2>0
    <3>1. CASE k <= Len(before)
      <4>1. k \in 1..Len(before)
        BY <3>0, <3>1
      <4>2. (before \o new)[k] = before[k]
        BY <1>2, <2>0, <4>1
      <4>3. (Ids(before) \o steers)[k] = Ids(before)[k]
        BY <2>0, <2>2, <4>1
      <4> QED
        BY <2>2, <4>1, <4>2, <4>3
    <3>2. CASE ~(k <= Len(before))
      <4> DEFINE j == k - Len(before)
      <4>1. j \in 1..Len(steers)
        BY <3>0, <3>2
      <4>2. (before \o new)[k] = new[j]
        BY <1>2, <2>0, <3>0, <3>2
      <4>3. (Ids(before) \o steers)[k] = steers[j]
        BY <2>0, <2>2, <3>0, <3>2
      <4>4. new[j].id = steers[j]
        BY <1>1, <4>1
      <4> QED
        BY <4>2, <4>3, <4>4
    <3> QED
      BY <3>1, <3>2
  <2>6. Ids(before) \o steers = [k \in 1..(Len(before) + Len(steers)) |-> (Ids(before) \o steers)[k]]
    BY <2>0, <2>2, ConcatOfNats
  <2> QED
    BY <2>3, <2>4, <2>6
<1>6. Ids(before) \o steers = [k \in 1..book.steered |-> k] /\ Ids(before) \o steers \in Seq(Nat)
  <2>1. Ids(before) \in Seq(Nat) /\ steers \in Seq(Nat)
    BY IdsOf DEF SteerInv
  <2>2. Ids(before) \o steers = [k \in 1..book.steered |-> k]
    BY DEF SteerInv, SteersInOrder, Ids
  <2> QED
    BY <2>1, <2>2, ConcatProperties
<1>7. book'.taken \in Seq([id : Nat, by : Turn]) /\ steers' \in Seq(Nat) /\ book'.steered \in Nat
  BY <1>2, <1>3, <1>4 DEF SteerInv
<1>8. Ids(book'.taken) \o steers' = [k \in 1..book'.steered |-> k]
  <2>1. Ids(book'.taken) = [k \in 1..book.steered |-> k]
    BY <1>4, <1>5, <1>6
  <2>2. [k \in 1..book.steered |-> k] \o <<>> = [k \in 1..book.steered |-> k]
    BY DEF SteerInv
  <2> QED
    BY <1>3, <1>4, <2>1, <2>2
<1> QED
  BY <1>7, <1>8 DEF SteerInv, SteersInOrder, Ids

LEMMA SteerKeepsOrder ==
  ASSUME BookTypes(book), SteerInv, Steer
  PROVE  SteerInv'
<1> DEFINE n == book.steered
           ids == Ids(book.taken)
<1>1. /\ n \in Nat /\ steers \in Seq(Nat) /\ ids \in Seq(Nat)
      /\ ids \o steers = [k \in 1..n |-> k]
  <2>1. ids \in Seq(Nat)
    BY IdsOf DEF SteerInv
  <2> QED
    BY <2>1 DEF SteerInv, SteersInOrder, Ids
<1>2. book' = [book EXCEPT !.steered = @ + 1] /\ steers' = Append(steers, n + 1)
  BY DEF Steer
<1>3. book'.steered = n + 1 /\ book'.taken = book.taken
  BY <1>2 DEF BookTypes
<1>4. ids \o Append(steers, n + 1) = [k \in 1..(n + 1) |-> k]
  <2> HIDE DEF n, ids
  <2>1. ids \o Append(steers, n + 1) = Append(ids \o steers, n + 1)
    <3>1. n + 1 \in Nat
      BY <1>1
    <3> DEFINE x == n + 1
    <3> HIDE DEF x
    <3>2. x \in Nat => ids \o Append(steers, x) = Append(ids \o steers, x)
      BY <1>1, AppendToConcat
    <3> QED
      BY <3>1, <3>2 DEF x
  <2>2. Append([k \in 1..n |-> k], n + 1) = [k \in 1..(n + 1) |-> k]
    BY <1>1
  <2> QED
    BY <1>1, <2>1, <2>2
<1>5. book'.taken \in Seq([id : Nat, by : Turn]) /\ steers' \in Seq(Nat) /\ book'.steered \in Nat
  BY <1>1, <1>2, <1>3 DEF SteerInv
<1>6. Ids(book'.taken) \o steers' = [k \in 1..book'.steered |-> k]
  BY <1>2, <1>3, <1>4
<1> QED
  BY <1>5, <1>6 DEF SteerInv, SteersInOrder, Ids

LEMMA SteerInvKept == GrantInv /\ SteerInv /\ [Next]_vars => SteerInv'
<1> SUFFICES ASSUME GrantInv, SteerInv, [Next]_vars PROVE SteerInv'
  OBVIOUS
<1>1. BookTypes(book)
  BY DEF GrantInv, GrantTypes
<1>2. ASSUME SteersKept PROVE SteerInv'
  BY <1>2 DEF SteersKept, SteerInv, SteersInOrder
<1>3. ASSUME NEW t \in Turn, Client(t) \/ Progress(t) PROVE SteerInv'
  BY <1>1, <1>2, <1>3, OthersKeepSteers, TakeKeepsOrder
<1>4. CASE Cancel
  BY <1>1, <1>2, <1>4 DEF Cancel, Trouble, SteersKept, BookTypes
<1>5. CASE UNCHANGED vars
  BY <1>2, <1>5 DEF vars, SteersKept
<1> QED
  BY <1>1, <1>3, <1>4, <1>5, SteerKeepsOrder DEF Next

LEMMA SteerInvInit == Init => SteerInv
<1> SUFFICES ASSUME Init PROVE SteerInv
  OBVIOUS
<1>1. steers = <<>> /\ book.taken = <<>> /\ book.steered = 0
  BY DEF Init, NewBook
<1>2. Ids(<<>>) \o <<>> = [k \in 1..0 |-> k]
  BY DEF Ids
<1> QED
  BY <1>1, <1>2 DEF SteerInv, SteersInOrder, Ids

\* No steer message is lost or taken twice, and they are taken in the order in
\* which they were accepted, by any number of turns
\* (SessionControlRegistry.drain_steer).
THEOREM SteersAreTakenInOrder == Spec => []SteersInOrder
<1>1. SteerInv => SteersInOrder
  BY DEF SteerInv
<1> QED
  BY <1>1, SteerInvInit, RunsInit, RunsKept, GrantInvInit, GrantInvKept, SteerInvKept, PTL DEF Spec

-----------------------------------------------------------------------------
(* Messages and limits of a turn. *)

InBatch == {"gate", "pause", "dispatch", "steer"}

Sound(r) ==
    /\ r.conv \in Seq(Written) /\ r.hist \in Seq(Written)
    /\ r.answers \in Call \cup {NoCall} /\ (r.pc = "reply" => r.answers \in Call)
    /\ r.iter \in 1..(MaxTurns + 1) /\ (r.pc \in InBatch => r.iter <= MaxTurns)
    /\ r.recovery \in 0..MaxRecoveries
    /\ Len(r.outs) <= MaxCalls /\ r.at <= MaxCalls + 1
    /\ r.pc = "dispatch" => r.at <= Len(r.outs)
    /\ r.loaded \in BOOLEAN

\* A turn that has not read the transcript.
Early == {"unsent", "reply", "sent", "load"}

Places(ms, x) == {i \in DOMAIN ms : ms[i].of = x}

SameSteers(a, b) == \A x \in Nat : Places(a, x) = Places(b, x)

\* What a step that takes no steer messages makes of a turn.
Tidy(r, n) ==
    /\ Sound(n)
    /\ Heard(n.conv) \subseteq Heard(r.conv) \cup Heard(stored)
    /\ r.pc \notin Early => n.pc \notin Early /\ SameSteers(r.conv, n.conv)

LEMMA HeardPlaces ==
  ASSUME NEW ms, NEW x \in Nat
  PROVE  x \in Heard(ms) <=> Places(ms, x) # {}
  BY DEF Heard, Places

LEMMA AppendSame ==
  ASSUME NEW ms \in Seq(Written), NEW m \in Written, m.of \notin Nat
  PROVE  Append(ms, m) \in Seq(Written) /\ SameSteers(ms, Append(ms, m))
<1> DEFINE ns == Append(ms, m)
<1>1. /\ ns \in Seq(Written) /\ Len(ns) = Len(ms) + 1
      /\ \A i \in 1..Len(ms) : ns[i] = ms[i]
      /\ ns[Len(ms) + 1] = m
  BY AppendHeard
<1>2. DOMAIN ns = 1..(Len(ms) + 1) /\ DOMAIN ms = 1..Len(ms) /\ Len(ms) \in Nat
  BY <1>1, LenProperties
<1> HIDE DEF ns
<1>3. ASSUME NEW x \in Nat PROVE Places(ns, x) = Places(ms, x)
  <2>1. \A i \in 1..(Len(ms) + 1) : ns[i].of = x <=> i \in 1..Len(ms) /\ ms[i].of = x
    <3> TAKE i \in 1..(Len(ms) + 1)
    <3>1. CASE i = Len(ms) + 1
      BY <1>1, <1>2, <3>1
    <3>2. CASE i # Len(ms) + 1
      <4>1. i \in 1..Len(ms)
        BY <1>2, <3>2
      <4> QED
        BY <1>1, <4>1
    <3> QED
      BY <3>1, <3>2
  <2>2. 1..Len(ms) \subseteq 1..(Len(ms) + 1)
    BY <1>2
  <2> QED
    BY <1>2, <2>1, <2>2 DEF Places
<1> QED
  BY <1>1, <1>3 DEF SameSteers, ns

LEMMA SameHeard ==
  ASSUME NEW a, NEW b, SameSteers(a, b)
  PROVE  Heard(b) = Heard(a)
<1>1. \A x \in Nat : x \in Heard(b) <=> x \in Heard(a)
  BY HeardPlaces DEF SameSteers
<1>2. Heard(a) \subseteq Nat /\ Heard(b) \subseteq Nat
  BY DEF Heard
<1> QED
  BY <1>1, <1>2

LEMMA TidyIf ==
  ASSUME NEW r, NEW n, Sound(n), SameSteers(r.conv, n.conv), n.pc \in Early => r.pc \in Early
  PROVE  Tidy(r, n)
  BY SameHeard DEF Tidy

LEMMA SameSame == \A ms : SameSteers(ms, ms)
  BY DEF SameSteers

LEMMA GotoTidy ==
  ASSUME NEW t, NEW r, Legal(t, r), Sound(r),
         NEW pc \in {"sent", "load", "pause", "close", "done"},
         pc \in {"sent", "load"} => r.pc \in Early, pc = "pause" => r.pc \in InBatch
  PROVE  Tidy(r, [r EXCEPT !.pc = pc])
<1> DEFINE n == [r EXCEPT !.pc = pc]
<1>1. /\ n.pc = pc /\ n.conv = r.conv /\ n.hist = r.hist /\ n.iter = r.iter /\ n.recovery = r.recovery
      /\ n.outs = r.outs /\ n.at = r.at /\ n.answers = r.answers /\ n.loaded = r.loaded
  BY DEF Legal, Shape
<1> HIDE DEF n
<1>2. Sound(n)
  BY <1>1 DEF Sound, InBatch
<1>3. n.pc \in Early => r.pc \in Early
  BY <1>1 DEF Early
<1>4. SameSteers(r.conv, n.conv)
  BY <1>1, SameSame
<1>5. Tidy(r, n)
  BY <1>2, <1>3, <1>4, TidyIf
<1> QED
  BY <1>5 DEF n

LEMMA CloseTidy ==
  ASSUME NEW t, NEW r, Legal(t, r), Sound(r)
  PROVE  Tidy(r, [r EXCEPT !.pc = "save", !.hist = <<>>])
<1> DEFINE n == [r EXCEPT !.pc = "save", !.hist = <<>>]
<1>1. /\ n.pc = "save" /\ n.conv = r.conv /\ n.hist = <<>> /\ n.iter = r.iter
      /\ n.recovery = r.recovery
      /\ n.outs = r.outs /\ n.at = r.at /\ n.answers = r.answers /\ n.loaded = r.loaded
  BY DEF Legal, Shape
<1> HIDE DEF n
<1>2. Sound(n)
  BY <1>1 DEF Sound, InBatch
<1>3. n.pc \notin Early
  BY <1>1 DEF Early
<1>4. SameSteers(r.conv, n.conv)
  BY <1>1, SameSame
<1>5. Tidy(r, n)
  BY <1>2, <1>3, <1>4, TidyIf
<1> QED
  BY <1>5 DEF n

LEMMA ReplyTidy ==
  ASSUME NEW t, NEW r, Legal(t, r), Sound(r), r.pc = "unsent", NEW c \in Call
  PROVE  Tidy(r, [r EXCEPT !.pc = "reply", !.answers = c])
<1> DEFINE n == [r EXCEPT !.pc = "reply", !.answers = c]
<1>1. /\ n.pc = "reply" /\ n.conv = r.conv /\ n.hist = r.hist /\ n.iter = r.iter
      /\ n.recovery = r.recovery
      /\ n.outs = r.outs /\ n.at = r.at /\ n.answers = c /\ n.loaded = r.loaded
  BY DEF Legal, Shape
<1> HIDE DEF n
<1>2. Sound(n)
  BY <1>1 DEF Sound, InBatch
<1>3. r.pc \in Early
  BY DEF Early
<1>4. SameSteers(r.conv, n.conv)
  BY <1>1, SameSame
<1>5. Tidy(r, n)
  BY <1>2, <1>3, <1>4, TidyIf
<1> QED
  BY <1>5 DEF n

LEMMA BegunTidy ==
  ASSUME NEW t \in Turn, Legal(t, run[t]), Sound(run[t]), run[t].pc = "load",
         NEW ms \in Seq(Written), Heard(ms) \subseteq Heard(stored), NEW loaded \in BOOLEAN
  PROVE  Tidy(run[t], Begun(t, ms, loaded))
<1> DEFINE r == run[t]
           conv == IF r.answers = NoCall THEN Append(ms, User(t)) ELSE ms
           n == [r EXCEPT !.pc = "ask", !.conv = conv, !.hist = conv, !.loaded = loaded]
<1>1. n = Begun(t, ms, loaded)
  BY DEF Begun
<1>2. conv \in Seq(Written) /\ Heard(conv) = Heard(ms)
  <2>1. User(t) \in Written /\ User(t).of = t /\ t \notin Nat
    BY UserWritten, TurnAssumption
  <2>2. Append(ms, User(t)) \in Seq(Written) /\ Heard(Append(ms, User(t))) = Heard(ms)
    BY <2>1, AppendHeard
  <2> QED
    BY <2>2
<1> HIDE DEF conv
<1>3. /\ n.pc = "ask" /\ n.conv = conv /\ n.hist = conv /\ n.iter = r.iter /\ n.recovery = r.recovery
      /\ n.outs = r.outs /\ n.at = r.at /\ n.answers = r.answers /\ n.loaded = loaded
  BY DEF Legal, Shape
<1> HIDE DEF n
<1>4. Sound(n)
  BY <1>2, <1>3 DEF Sound, InBatch
<1>5. Tidy(r, n)
  BY <1>2, <1>3, <1>4 DEF Tidy, Early
<1> QED
  BY <1>1, <1>5

\* An answer's message.
LEMMA CallsMessage ==
  ASSUME NEW t \in Turn, Legal(t, run[t]), NEW tools \in Seq(Tool)
  PROVE  /\ CallsOf(t, tools) \in Seq(TurnCall(t))
         /\ Assistant(CallsOf(t, tools), t) \in Written
         /\ Assistant(CallsOf(t, tools), t).of \notin Nat
<1>1. CallsOf(t, tools) \in Seq(TurnCall(t))
  BY CallsOfTurn
<1>2. CallsOf(t, tools) \in Seq(Call)
  <2>1. TurnCall(t) \subseteq Call
    BY DEF TurnCall, Call
  <2> QED
    BY <1>1, <2>1
<1> QED
  BY <1>1, <1>2, AssistantWritten, TurnAssumption

LEMMA AnswerTidy ==
  ASSUME NEW t \in Turn, Legal(t, run[t]), Sound(run[t]), Asking(t), NEW tools \in Seq(Tool)
  PROVE  Tidy(run[t], AnswerOf(t, tools))
<1> DEFINE r == run[t]
           calls == CallsOf(t, tools)
           m == Assistant(calls, t)
           next == IF calls = <<>> THEN "close" ELSE IF AskUser \in Range(tools) THEN "pause" ELSE "gate"
           limit == Min({Len(calls), MaxCalls})
           outs == [i \in DOMAIN SubSeq(calls, 1, limit) |-> "waiting"]
           n == [r EXCEPT !.pc = next, !.conv = Append(@, m), !.hist = Append(@, m),
                          !.asked = @ + Len(calls), !.batch = calls, !.outs = outs, !.at = 1]
<1>1. calls \in Seq(TurnCall(t)) /\ m \in Written /\ m.of \notin Nat
  BY CallsMessage
<1>2. Len(calls) \in Nat /\ MaxCalls \in Nat \ {0}
  BY <1>1, SessionAssumption
<1>3. limit \in Nat /\ limit <= Len(calls) /\ limit <= MaxCalls
  BY <1>2, MinOfTwo
<1>4. Len(outs) <= MaxCalls
  <2>1. DOMAIN SubSeq(calls, 1, limit) = 1..limit
    BY <1>1, <1>3
  <2>2. outs = [i \in 1..limit |-> "waiting"]
    BY <2>1
  <2> HIDE DEF outs, limit, calls
  <2> QED
    BY <2>2, <1>3
<1>5. next \in {"close", "pause", "gate"}
  OBVIOUS
<1>6. n = AnswerOf(t, tools)
  BY DEF AnswerOf
<1>7. r.iter <= MaxTurns /\ Legal(t, r) /\ Sound(r)
  BY DEF Asking
<1> HIDE DEF r, calls, m, next, limit, outs
<1>8. /\ n.pc = next /\ n.conv = Append(r.conv, m) /\ n.hist = Append(r.hist, m) /\ n.iter = r.iter
      /\ n.recovery = r.recovery /\ n.outs = outs /\ n.at = 1
      /\ n.answers = r.answers /\ n.loaded = r.loaded
  BY <1>7 DEF Legal, Shape
<1> HIDE DEF n
<1>9. /\ n.conv \in Seq(Written) /\ SameSteers(r.conv, n.conv) /\ n.hist \in Seq(Written)
  BY <1>1, <1>7, <1>8, AppendSame DEF Sound
<1>10. Sound(n)
  <2>1. n.pc # "dispatch" /\ n.pc # "reply" /\ 1 <= MaxCalls + 1
    BY <1>2, <1>5, <1>8
  <2> QED
    BY <1>4, <1>7, <1>8, <1>9, <2>1 DEF Sound
<1>11. n.pc \notin Early
  BY <1>5, <1>8 DEF Early
<1>12. Tidy(r, n)
  BY <1>9, <1>10, <1>11, TidyIf
<1> QED
  BY <1>6, <1>12 DEF r

LEMMA TruncatedTidy ==
  ASSUME NEW t \in Turn, Legal(t, run[t]), Sound(run[t]), Asking(t), NEW tools \in Seq(Tool),
         run[t].recovery < MaxRecoveries
  PROVE  Tidy(run[t], TruncatedOf(t, tools))
<1> DEFINE r == run[t]
           calls == CallsOf(t, tools)
           m == Assistant(calls, t)
           n == [r EXCEPT !.conv = Append(@, m), !.asked = @ + Len(calls), !.recovery = @ + 1]
<1>1. m \in Written /\ m.of \notin Nat
  BY CallsMessage
<1>2. n = TruncatedOf(t, tools)
  BY DEF TruncatedOf
<1>3. r.pc = "ask" /\ Legal(t, r) /\ Sound(r) /\ r.recovery < MaxRecoveries
  BY DEF Asking
<1> HIDE DEF r, calls, m
<1>4. /\ n.pc = r.pc /\ n.conv = Append(r.conv, m) /\ n.hist = r.hist /\ n.iter = r.iter
      /\ n.recovery = r.recovery + 1 /\ n.outs = r.outs /\ n.at = r.at
      /\ n.answers = r.answers /\ n.loaded = r.loaded
  BY <1>3 DEF Legal, Shape
<1> HIDE DEF n
<1>5. n.conv \in Seq(Written) /\ SameSteers(r.conv, n.conv)
  BY <1>1, <1>3, <1>4, AppendSame DEF Sound
<1>6. n.recovery \in 0..MaxRecoveries
  <2> DEFINE k == r.recovery
  <2>1. MaxRecoveries \in Nat
    BY SessionAssumption
  <2>2. k \in 0..MaxRecoveries /\ k < MaxRecoveries
    BY <1>3 DEF Sound
  <2>3. n.recovery = k + 1
    BY <1>4
  <2> HIDE DEF k
  <2>4. k + 1 \in 0..MaxRecoveries
    BY <2>1, <2>2
  <2> QED
    BY <2>3, <2>4
<1>7. Sound(n)
  BY <1>3, <1>4, <1>5, <1>6 DEF Sound
<1>8. n.pc \notin Early
  BY <1>3, <1>4 DEF Early
<1>9. Tidy(r, n)
  BY <1>5, <1>7, <1>8, TidyIf
<1> QED
  BY <1>2, <1>9 DEF r

LEMMA ExhaustedTidy ==
  ASSUME NEW t \in Turn, Legal(t, run[t]), Sound(run[t]), Asking(t)
  PROVE  Tidy(run[t], ExhaustedOf(t))
<1> DEFINE r == run[t]
           m == Assistant(<<>>, t)
           conv == r.conv \o <<m, m>>
           n == [r EXCEPT !.pc = "close", !.conv = @ \o <<m, m>>]
<1>1. m \in Written /\ m.of \notin Nat
  <2>1. <<>> \in Seq(Call)
    OBVIOUS
  <2> QED
    BY <2>1, AssistantWritten, TurnAssumption
<1>2. n = ExhaustedOf(t)
  BY DEF ExhaustedOf
<1>3. Legal(t, r) /\ Sound(r)
  OBVIOUS
<1> HIDE DEF r, m
<1>4. r.conv \in Seq(Written)
  BY <1>3 DEF Sound
<1>5. conv = Append(Append(r.conv, m), m)
  BY <1>1, <1>4
<1>6. conv \in Seq(Written) /\ SameSteers(r.conv, conv)
  <2>1. Append(r.conv, m) \in Seq(Written) /\ SameSteers(r.conv, Append(r.conv, m))
    BY <1>1, <1>4, AppendSame
  <2>2. /\ Append(Append(r.conv, m), m) \in Seq(Written)
        /\ SameSteers(Append(r.conv, m), Append(Append(r.conv, m), m))
    BY <1>1, <2>1, AppendSame
  <2> QED
    BY <1>5, <2>1, <2>2 DEF SameSteers
<1>7. /\ n.pc = "close" /\ n.conv = conv /\ n.hist = r.hist /\ n.iter = r.iter
      /\ n.recovery = r.recovery /\ n.outs = r.outs /\ n.at = r.at
      /\ n.answers = r.answers /\ n.loaded = r.loaded
  BY <1>3 DEF Legal, Shape
<1> HIDE DEF n, conv
<1>8. Sound(n)
  BY <1>3, <1>6, <1>7 DEF Sound, InBatch
<1>9. n.pc \notin Early /\ SameSteers(r.conv, n.conv)
  BY <1>6, <1>7 DEF Early
<1>10. Tidy(r, n)
  BY <1>8, <1>9, TidyIf
<1> QED
  BY <1>2, <1>10 DEF r

LEMMA GatedTidy ==
  ASSUME NEW t \in Turn, Legal(t, run[t]), Sound(run[t]), AtGate(t)
  PROVE  Tidy(run[t], GatedOf(t))
<1> DEFINE r == run[t]
           more == r.at < Len(r.outs)
           n == GatedOf(t)
<1>0. /\ r.pc = "gate" /\ r.at \in Nat \ {0} /\ Len(r.outs) \in Nat /\ r.at <= Len(r.outs)
      /\ Legal(t, r) /\ Sound(r) /\ MaxCalls \in Nat \ {0}
  BY SessionAssumption DEF Legal, AtGate
<1>1. /\ n.pc = (IF more THEN "gate" ELSE "dispatch") /\ n.at = (IF more THEN r.at + 1 ELSE 1)
      /\ n.conv = r.conv /\ n.hist = r.hist /\ n.iter = r.iter /\ n.recovery = r.recovery
      /\ n.outs = r.outs /\ n.answers = r.answers /\ n.loaded = r.loaded
  <2>1. CASE more
    <3>1. n = [r EXCEPT !.at = @ + 1]
      BY <2>1 DEF GatedOf
    <3> HIDE DEF n
    <3> QED
      BY <1>0, <2>1, <3>1 DEF Legal, Shape
  <2>2. CASE ~more
    <3>1. n = [r EXCEPT !.pc = "dispatch", !.at = 1]
      BY <2>2 DEF GatedOf
    <3> HIDE DEF n
    <3> QED
      BY <1>0, <2>2, <3>1 DEF Legal, Shape
  <2> QED
    BY <2>1, <2>2
<1> HIDE DEF n
<1>3. n.pc \in InBatch /\ n.pc # "reply" /\ n.pc \notin Early /\ r.pc \in InBatch
  BY <1>0, <1>1 DEF InBatch, Early
<1>4. n.at <= MaxCalls + 1 /\ (n.pc = "dispatch" => n.at <= Len(n.outs))
  BY <1>0, <1>1 DEF Sound
<1>5. Sound(n)
  BY <1>0, <1>1, <1>3, <1>4 DEF Sound
<1>6. SameSteers(r.conv, n.conv)
  BY <1>1, SameSame
<1>7. Tidy(r, n)
  BY <1>3, <1>5, <1>6, TidyIf
<1> QED
  BY <1>7 DEF n

LEMMA PausedTidy ==
  ASSUME Runs, NEW t \in Turn, Sound(run[t]), run[t].pc = "pause"
  PROVE  Tidy(run[t], PausedOf(t))
<1> DEFINE r == run[t]
           m == ToolRow(GateCall(t), "pending")
           n == [r EXCEPT !.pc = "close", !.conv = Append(@, m)]
<1>1. n = PausedOf(t)
  BY DEF PausedOf
<1>2. m \in Written /\ m.of \notin Nat
  <2>1. GateCall(t) \in Call
    BY GateCallOfTurn DEF TurnCall, Call
  <2> QED
    BY <2>1, ToolRowWritten, TurnAssumption DEF Body
<1>3. Legal(t, r) /\ Sound(r)
  BY DEF Runs
<1> HIDE DEF r, m
<1>4. /\ n.pc = "close" /\ n.conv = Append(r.conv, m) /\ n.hist = r.hist /\ n.iter = r.iter
      /\ n.recovery = r.recovery /\ n.outs = r.outs /\ n.at = r.at
      /\ n.answers = r.answers /\ n.loaded = r.loaded
  BY <1>3 DEF Legal, Shape
<1> HIDE DEF n
<1>5. n.conv \in Seq(Written) /\ SameSteers(r.conv, n.conv)
  BY <1>2, <1>3, <1>4, AppendSame DEF Sound
<1>6. Sound(n) /\ n.pc \notin Early
  BY <1>3, <1>4, <1>5 DEF Sound, InBatch, Early
<1>7. Tidy(r, n)
  BY <1>5, <1>6, TidyIf
<1> QED
  BY <1>1, <1>7 DEF r

LEMMA WithOutTidy ==
  ASSUME NEW t \in Turn, Legal(t, run[t]), Sound(run[t]), NEW i \in DOMAIN run[t].outs,
         NEW out \in Outcome
  PROVE  Tidy(run[t], WithOut(t, i, out))
<1> DEFINE r == run[t]
           outs == [r.outs EXCEPT ![i] = out]
           n == [r EXCEPT !.outs = outs]
<1>1. n = WithOut(t, i, out)
  BY DEF WithOut
<1>2. Len(outs) = Len(r.outs)
  BY DEF Legal
<1>3. Legal(t, r) /\ Sound(r)
  OBVIOUS
<1> HIDE DEF r, outs
<1>4. /\ n.pc = r.pc /\ n.conv = r.conv /\ n.hist = r.hist /\ n.iter = r.iter
      /\ n.recovery = r.recovery /\ n.outs = outs /\ n.at = r.at
      /\ n.answers = r.answers /\ n.loaded = r.loaded
  BY <1>3 DEF Legal, Shape
<1> HIDE DEF n
<1>5. Sound(n)
  BY <1>2, <1>3, <1>4 DEF Sound
<1>6. SameSteers(r.conv, n.conv)
  BY <1>4, SameSame
<1>7. Tidy(r, n)
  BY <1>4, <1>5, <1>6, TidyIf
<1> QED
  BY <1>1, <1>7 DEF r

LEMMA DeliveredTidy ==
  ASSUME NEW t \in Turn, Legal(t, run[t]), Sound(run[t]), Delivering(t)
  PROVE  Tidy(run[t], DeliveredOf(t, run[t].at))
<1> DEFINE r == run[t]
           next == IF r.at < Len(r.outs) THEN "dispatch" ELSE "steer"
           m == Row(t, r.at)
           n == [r EXCEPT !.pc = next, !.at = r.at + 1, !.conv = Append(@, m), !.hist = Append(@, m)]
<1>0. /\ r.pc = "dispatch" /\ r.at \in 1..Len(r.outs) /\ r.at \in 1..Len(r.batch) /\ Len(r.outs) \in Nat
      /\ MaxCalls \in Nat \ {0}
  <2>1. r.pc = "dispatch" /\ r.at <= Len(r.outs)
    BY DEF Delivering, Sound
  <2>2. r.at \in Nat \ {0} /\ Len(r.outs) \in Nat /\ Len(r.batch) \in Nat /\ Len(r.outs) <= Len(r.batch)
    BY DEF Legal
  <2>3. MaxCalls \in Nat \ {0}
    BY SessionAssumption
  <2> DEFINE k == r.at
             o == Len(r.outs)
             b == Len(r.batch)
  <2> HIDE DEF k, o, b
  <2>4. k \in 1..o /\ k \in 1..b
    BY <2>1, <2>2 DEF k, o, b
  <2> QED
    BY <2>1, <2>2, <2>3, <2>4 DEF k, o, b
<1>1. n = DeliveredOf(t, r.at)
  BY DEF DeliveredOf
<1>2. m \in Written /\ m.of \notin Nat
  <2>1. r.batch[r.at] \in Call
    <3>1. r.batch \in Seq(TurnCall(t))
      BY DEF Legal
    <3>2. r.batch[r.at] \in TurnCall(t)
      BY <1>0, <3>1, ElementOfSeq
    <3> QED
      BY <3>2 DEF TurnCall, Call
  <2>2. r.outs[r.at] \in Outcome \ Unfinished
    BY <1>0 DEF Legal, Delivering, Finished
  <2>3. r.outs[r.at] \in Body
    BY <2>2 DEF Outcome, Unfinished, Body
  <2> QED
    BY <2>1, <2>3, ToolRowWritten, TurnAssumption DEF Row
<1>3. Legal(t, r) /\ Sound(r) /\ next \in {"dispatch", "steer"}
  OBVIOUS
<1>4. r.at + 1 <= MaxCalls + 1 /\ (next = "dispatch" => r.at + 1 <= Len(r.outs))
  BY <1>0, <1>3 DEF Sound
<1> HIDE DEF r, m, next
<1>5. /\ n.pc = next /\ n.conv = Append(r.conv, m) /\ n.hist = Append(r.hist, m) /\ n.iter = r.iter
      /\ n.recovery = r.recovery /\ n.outs = r.outs /\ n.at = r.at + 1
      /\ n.answers = r.answers /\ n.loaded = r.loaded
  BY <1>3 DEF Legal, Shape
<1> HIDE DEF n
<1>6. n.conv \in Seq(Written) /\ SameSteers(r.conv, n.conv) /\ n.hist \in Seq(Written)
  BY <1>2, <1>3, <1>5, AppendSame DEF Sound
<1>7. r.pc \in InBatch /\ n.pc # "reply" /\ n.pc \notin Early
  BY <1>0, <1>3, <1>5 DEF InBatch, Early
<1>8. Sound(n)
  BY <1>3, <1>4, <1>5, <1>6, <1>7 DEF Sound
<1>9. Tidy(r, n)
  BY <1>6, <1>7, <1>8, TidyIf
<1> QED
  BY <1>1, <1>9 DEF r

LEMMA StoppedTidy ==
  ASSUME NEW t \in Turn, Legal(t, run[t]), Sound(run[t])
  PROVE  Tidy(run[t], StoppedOf(t))
<1> DEFINE r == run[t]
           n == [r EXCEPT !.aborted = TRUE]
<1>1. n = StoppedOf(t)
  BY DEF StoppedOf
<1>2. Legal(t, r) /\ Sound(r)
  OBVIOUS
<1> HIDE DEF r
<1>3. /\ n.pc = r.pc /\ n.conv = r.conv /\ n.hist = r.hist /\ n.iter = r.iter
      /\ n.recovery = r.recovery /\ n.outs = r.outs /\ n.at = r.at
      /\ n.answers = r.answers /\ n.loaded = r.loaded
  BY <1>2 DEF Legal, Shape
<1> HIDE DEF n
<1>4. Sound(n)
  BY <1>2, <1>3 DEF Sound
<1>5. SameSteers(r.conv, n.conv)
  BY <1>3, SameSame
<1>6. Tidy(r, n)
  BY <1>3, <1>4, <1>5, TidyIf
<1> QED
  BY <1>1, <1>6 DEF r

-----------------------------------------------------------------------------
(* A step makes no more of a turn's messages. *)

Sounds == stored \in Seq(Written) /\ \A t \in Turn : Sound(run[t])

TidyStep(t) ==
    /\ \A u \in Turn \ {t} : run'[u] = run[u]
    /\ Tidy(run[t], run'[t])

LEMMA OneTidy ==
  ASSUME Runs, NEW t \in Turn, NEW n, run' = [run EXCEPT ![t] = n], Tidy(run[t], n)
  PROVE  TidyStep(t)
<1>1. run' = [u \in Turn |-> IF u = t THEN n ELSE run[u]]
  BY DEF Runs
<1>2. run'[t] = n /\ \A u \in Turn \ {t} : run'[u] = run[u]
  BY <1>1
<1> QED
  BY <1>2 DEF TidyStep

LEMMA GotoTidyStep ==
  ASSUME Runs, NEW t \in Turn, Sound(run[t]),
         NEW pc \in {"sent", "load", "pause", "close", "done"}, Goto(t, pc),
         pc \in {"sent", "load"} => run[t].pc \in Early, pc = "pause" => run[t].pc \in InBatch
  PROVE  TidyStep(t)
<1>1. run' = [run EXCEPT ![t] = [run[t] EXCEPT !.pc = pc]]
  BY DEF Goto
<1>2. Tidy(run[t], [run[t] EXCEPT !.pc = pc])
  BY GotoTidy DEF Runs
<1> HIDE DEF Goto
<1> QED
  BY <1>1, <1>2, OneTidy

LEMMA RequestTidy ==
  ASSUME Runs, Sounds, cards \subseteq Call, NEW t \in Turn, Client(t)
  PROVE  TidyStep(t)
<1>0. Sound(run[t])
  BY DEF Sounds
<1>1. CASE Send(t)
  BY <1>0, <1>1, GotoTidyStep DEF Send, MaySend, Early
<1>2. CASE Disconnect(t)
  BY <1>0, <1>2, GotoTidyStep DEF Disconnect
<1>3. ASSUME NEW c \in cards, NEW decision, Reply(t, c, decision)
      PROVE  TidyStep(t)
  <2>1. run' = [run EXCEPT ![t] = [run[t] EXCEPT !.pc = "reply", !.answers = c]] /\ run[t].pc = "unsent"
    BY <1>3 DEF Reply, MaySend
  <2>2. Tidy(run[t], [run[t] EXCEPT !.pc = "reply", !.answers = c])
    BY <1>0, <2>1, ReplyTidy DEF Runs
  <2> QED
    BY <2>1, <2>2, OneTidy
<1> QED
  BY <1>1, <1>2, <1>3 DEF Client

LEMMA BeginTidy ==
  ASSUME Runs, Sounds, NEW t \in Turn,
         StoreReply(t) \/ Register(t) \/ Load(t) \/ LoadFails(t) \/ Stop(t) \/ Close(t) \/ Save(t)
  PROVE  TidyStep(t)
<1>0. Sound(run[t])
  BY DEF Sounds
<1>1. CASE StoreReply(t)
  BY <1>0, <1>1, GotoTidyStep DEF StoreReply, Early
<1>2. CASE Register(t)
  BY <1>0, <1>2, GotoTidyStep DEF Register, Early
<1>3. CASE Load(t)
  <2>1. run' = [run EXCEPT ![t] = Begun(t, stored, TRUE)] /\ run[t].pc = "load"
    BY <1>3 DEF Load
  <2>2. Tidy(run[t], Begun(t, stored, TRUE))
    BY <1>0, <2>1, BegunTidy DEF Runs, Sounds
  <2> QED
    BY <2>1, <2>2, OneTidy
<1>4. CASE LoadFails(t)
  <2>1. run' = [run EXCEPT ![t] = Begun(t, <<>>, FALSE)] /\ run[t].pc = "load"
    BY <1>4 DEF LoadFails
  <2>2. <<>> \in Seq(Written) /\ Heard(<<>>) = {}
    BY DEF Heard
  <2>3. Tidy(run[t], Begun(t, <<>>, FALSE))
    BY <1>0, <2>1, <2>2, BegunTidy DEF Runs
  <2> QED
    BY <2>1, <2>3, OneTidy
<1>5. CASE Stop(t)
  BY <1>0, <1>5, GotoTidyStep DEF Stop
<1>6. CASE Close(t)
  BY <1>0, <1>6, OneTidy, CloseTidy DEF Close, Runs
<1>7. CASE Save(t)
  BY <1>0, <1>7, GotoTidyStep DEF Save
<1> QED
  BY <1>1, <1>2, <1>3, <1>4, <1>5, <1>6, <1>7

LEMMA ModelTidy ==
  ASSUME Runs, Sounds, NEW t \in Turn, Model(t)
  PROVE  TidyStep(t)
<1>0. Sound(run[t]) /\ Legal(t, run[t])
  BY DEF Sounds, Runs
<1>1. ASSUME NEW tools \in Batches, Answer(t, tools) PROVE TidyStep(t)
  <2>1. tools \in Seq(Tool)
    BY SessionAssumption
  <2> QED
    BY <1>0, <1>1, <2>1, OneTidy, AnswerTidy DEF Answer
<1>2. ASSUME NEW tools \in Batches, Truncated(t, tools) PROVE TidyStep(t)
  <2>1. tools \in Seq(Tool)
    BY SessionAssumption
  <2> QED
    BY <1>0, <1>2, <2>1, OneTidy, TruncatedTidy DEF Truncated
<1>3. CASE Exhausted(t)
  BY <1>0, <1>3, OneTidy, ExhaustedTidy DEF Exhausted
<1>4. CASE Fail(t)
  BY <1>0, <1>4, GotoTidyStep DEF Fail
<1> QED
  BY <1>1, <1>2, <1>3, <1>4 DEF Model

LEMMA GateTidy ==
  ASSUME Runs, Sounds, NEW t \in Turn, Gate(t)
  PROVE  TidyStep(t)
<1>0. Sound(run[t]) /\ Legal(t, run[t])
  BY DEF Sounds, Runs
<1>1. ASSUME AtGate(t), NextGate(t) PROVE TidyStep(t)
  BY <1>0, <1>1, OneTidy, GatedTidy DEF NextGate
<1>2. CASE PassGate(t)
  BY <1>1, <1>2 DEF PassGate
<1>3. CASE ReviewAllow(t)
  BY <1>1, <1>3 DEF ReviewAllow
<1>4. CASE ReviewDeny(t)
  BY <1>1, <1>4 DEF ReviewDeny
<1>5. CASE AskApproval(t)
  BY <1>0, <1>5, GotoTidyStep DEF AskApproval, AtGate, InBatch
<1>6. CASE Pause(t)
  BY <1>0, <1>6, OneTidy, PausedTidy DEF Pause
<1> QED
  BY <1>2, <1>3, <1>4, <1>5, <1>6 DEF Gate

LEMMA DispatchTidy ==
  ASSUME Runs, Sounds, NEW t \in Turn, Dispatch(t), ~TakeSteers(t)
  PROVE  TidyStep(t)
<1>0. Sound(run[t]) /\ Legal(t, run[t])
  BY DEF Sounds, Runs
<1>1. ASSUME NEW i \in DOMAIN run[t].outs, NEW out \in Outcome, SetOut(t, i, out)
      PROVE  TidyStep(t)
  BY <1>0, <1>1, OneTidy, WithOutTidy DEF SetOut
<1>2. ASSUME NEW i \in DOMAIN run[t].outs, StartCall(t, i) \/ EndCall(t, i) \/ RunAgain(t, i)
      PROVE  TidyStep(t)
  <2>1. \E out \in {"aborted", "running", "again", "denied", "result"} : SetOut(t, i, out)
    BY <1>2 DEF StartCall, EndCall, RunAgain, Execute, Refuse
  <2> QED
    BY <1>1, <2>1 DEF Outcome
<1>3. CASE Deliver(t)
  BY <1>0, <1>3, OneTidy, DeliveredTidy DEF Deliver
<1> QED
  BY <1>2, <1>3 DEF Dispatch

\* Every step of a turn but the one that takes steer messages.
LEMMA TurnTidy ==
  ASSUME Runs, Sounds, cards \subseteq Call, NEW t \in Turn, Client(t) \/ Progress(t), ~TakeSteers(t)
  PROVE  TidyStep(t)
BY RequestTidy, BeginTidy, ModelTidy, GateTidy, DispatchTidy DEF Progress

LEMMA SteeredWritten ==
  ASSUME steers \in Seq(Nat), NEW t
  PROVE  /\ Steered(t) \in Seq(Written) /\ Len(Steered(t)) = Len(steers)
         /\ \A k \in 1..Len(steers) : Steered(t)[k].of = steers[k]
<1> DEFINE n == Len(steers)
           e(k) == User(steers[k])
<1>1. n \in Nat /\ DOMAIN steers = 1..n /\ \A k \in 1..n : steers[k] \in Nat
  BY LenProperties
<1>2. \A k \in 1..n : e(k) \in Written /\ e(k).of = steers[k]
  BY <1>1, UserWritten
<1>3. Steered(t) = [k \in 1..n |-> e(k)]
  BY <1>1 DEF Steered
<1> HIDE DEF e
<1> QED
  BY <1>1, <1>2, <1>3

LEMMA SteeredSound ==
  ASSUME NEW t \in Turn, Legal(t, run[t]), Sound(run[t]), run[t].pc = "steer", steers \in Seq(Nat)
  PROVE  /\ Sound(SteeredOf(t)) /\ SteeredOf(t).pc \notin Early
         /\ SteeredOf(t).aborted = run[t].aborted
         /\ SteeredOf(t).conv = IF run[t].aborted THEN run[t].conv ELSE run[t].conv \o Steered(t)
<1> DEFINE r == run[t]
           ms == Steered(t)
           n == [r EXCEPT !.pc = "ask", !.iter = @ + 1, !.recovery = 0, !.conv = @ \o ms, !.hist = @ \o ms]
<1>0. Legal(t, r) /\ Sound(r) /\ r.pc = "steer" /\ ms \in Seq(Written)
  BY SteeredWritten
<1>1. CASE r.aborted
  <2> DEFINE m == [r EXCEPT !.pc = "close"]
  <2>1. SteeredOf(t) = m
    BY <1>1 DEF SteeredOf
  <2>2. Tidy(r, m)
    BY <1>0, GotoTidy
  <2>3. m.pc = "close" /\ m.conv = r.conv /\ m.aborted = r.aborted
    BY <1>0 DEF Legal, Shape
  <2> HIDE DEF m
  <2> QED
    BY <1>1, <2>1, <2>2, <2>3 DEF Tidy, Early
<1>2. CASE ~r.aborted
  <2>1. n = SteeredOf(t)
    BY <1>2 DEF SteeredOf
  <2> HIDE DEF ms, r
  <2>2. /\ n.pc = "ask" /\ n.conv = r.conv \o ms /\ n.hist = r.hist \o ms /\ n.iter = r.iter + 1
        /\ n.recovery = 0 /\ n.outs = r.outs /\ n.at = r.at
        /\ n.answers = r.answers /\ n.loaded = r.loaded /\ n.aborted = r.aborted
    BY <1>0 DEF Legal, Shape
  <2> HIDE DEF n
  <2>3. n.conv \in Seq(Written) /\ n.hist \in Seq(Written)
    BY <1>0, <2>2 DEF Sound
  <2>4. n.iter \in 1..(MaxTurns + 1) /\ n.recovery \in 0..MaxRecoveries
    <3>1. MaxTurns \in Nat /\ MaxRecoveries \in Nat
      BY SessionAssumption
    <3>2. r.iter <= MaxTurns /\ r.iter \in 1..(MaxTurns + 1)
      BY <1>0 DEF Sound, InBatch
    <3> QED
      BY <2>2, <3>1, <3>2
  <2>5. Sound(n)
    BY <1>0, <2>2, <2>3, <2>4 DEF Sound, InBatch
  <2> QED
    BY <1>2, <2>1, <2>2, <2>5 DEF r, ms, Early
<1> QED
  BY <1>1, <1>2

\* What is stored was in the transcript or in the conversation of the turn.
LEMMA StoredKept ==
  ASSUME Sounds, NEW t \in Turn, Client(t) \/ Progress(t)
  PROVE  /\ stored' \in Seq(Written)
         /\ Heard(stored') \subseteq Heard(stored) \cup Heard(run[t].conv)
<1>0. stored \in Seq(Written) /\ Sound(run[t])
  BY DEF Sounds
<1>1. CASE StoreReply(t)
  <2>1. stored' = WithReply(stored, run[t].answers) /\ run[t].answers \in Call
    BY <1>0, <1>1 DEF StoreReply, Store, Sound
  <2> QED
    BY <1>0, <2>1, ReplyHeard
<1>2. CASE Save(t)
  <2>1. stored' = Repair(run[t].conv) /\ run[t].conv \in Seq(Written)
    BY <1>0, <1>2 DEF Save, Store, Sound, Repair
  <2> QED
    BY <2>1, RepairWellFormed, RepairHeard
<1>3. CASE ~StoreReply(t) /\ ~Save(t)
  <2>1. stored' = stored
    BY <1>3 DEF Client, Progress, Send, Disconnect, Reply, Register, Load, LoadFails, Model, Answer,
         Truncated, Exhausted, Fail, Gate, PassGate, ReviewAllow, ReviewDeny, AskApproval, Pause,
         Dispatch, StartCall, EndCall, RunAgain, Deliver, TakeSteers, Stop, Close
  <2> QED
    BY <1>0, <2>1
<1> QED
  BY <1>1, <1>2, <1>3

LEMMA SoundsInit == Init => Sounds
<1> SUFFICES ASSUME Init PROVE Sounds
  OBVIOUS
<1>1. MaxTurns \in Nat /\ MaxRecoveries \in Nat /\ MaxCalls \in Nat \ {0}
  BY SessionAssumption
<1>2. <<>> \in Seq(Written) /\ Len(<<>>) = 0
  OBVIOUS
<1>3. Sound(NewTurn)
  BY <1>1, <1>2 DEF Sound, NewTurn, InBatch
<1> QED
  BY <1>2, <1>3 DEF Init, Sounds

LEMMA SoundsKept == Runs /\ GrantInv /\ SteerInv /\ Sounds /\ [Next]_vars => Sounds'
<1> SUFFICES ASSUME Runs, GrantInv, SteerInv, Sounds, [Next]_vars PROVE Sounds'
  OBVIOUS
<1>0. cards \subseteq Call /\ steers \in Seq(Nat)
  BY DEF GrantInv, GrantTypes, SteerInv
<1>1. ASSUME NEW t \in Turn, Client(t) \/ Progress(t) PROVE Sounds'
  <2>1. (\A u \in Turn \ {t} : run'[u] = run[u]) /\ Sound(run'[t])
    <3>1. CASE TakeSteers(t)
      <4>1. run' = [u \in Turn |-> IF u = t THEN SteeredOf(t) ELSE run[u]] /\ run[t].pc = "steer"
        BY <3>1 DEF TakeSteers, Runs
      <4>2. Sound(SteeredOf(t))
        BY <1>0, <4>1, SteeredSound DEF Runs, Sounds
      <4> QED
        BY <4>1, <4>2
    <3>2. CASE ~TakeSteers(t)
      <4>1. TidyStep(t)
        BY <1>0, <1>1, <3>2, TurnTidy
      <4> QED
        BY <4>1 DEF TidyStep, Tidy
    <3> QED
      BY <3>1, <3>2
  <2>2. stored' \in Seq(Written)
    BY <1>1, StoredKept
  <2> QED
    BY <2>1, <2>2 DEF Sounds
<1>2. CASE Cancel
  <2>1. stored' = stored /\ run' = [t \in Turn |-> IF t \in registry THEN StoppedOf(t) ELSE run[t]]
    BY <1>2 DEF Cancel
  <2>2. \A t \in Turn : Sound(StoppedOf(t)) /\ Sound(run[t])
    BY StoppedTidy DEF Tidy, Runs, Sounds
  <2> QED
    BY <2>1, <2>2 DEF Sounds
<1>3. CASE Steer
  BY <1>3 DEF Steer, Sounds
<1>4. CASE UNCHANGED vars
  BY <1>4 DEF vars, Sounds
<1> QED
  BY <1>1, <1>2, <1>3, <1>4 DEF Next

\* Everything that is known of a state.
SessionInv == Runs /\ GrantInv /\ SteerInv /\ Sounds

LEMMA SessionInvHolds == Spec => []SessionInv
BY RunsInit, RunsKept, GrantInvInit, GrantInvKept, SteerInvInit, SteerInvKept, SoundsInit, SoundsKept, PTL
   DEF Spec, SessionInv

\* The model is asked with a history that providers accept, for any turns,
\* batches, limits, approvals and cancels, and wherever compaction cuts it: the
\* messages of a turn are such as the program writes, and a repair makes a
\* well-formed transcript of any of them (agent/query.py before call_model).
THEOREM AskedWellFormedAlways == Spec => []AskedWellFormed
<1>1. Sounds => AskedWellFormed
  <2> SUFFICES ASSUME Sounds, NEW t \in Turn, NEW k \in 1..Len(run[t].hist)
               PROVE  WellFormed(Repair(SubSeq(run[t].hist, k, Len(run[t].hist))))
    BY DEF AskedWellFormed
  <2> DEFINE ms == run[t].hist
  <2>1. ms \in Seq(Written)
    BY DEF Sounds, Sound
  <2>2. SubSeq(ms, k, Len(ms)) \in Seq(Written)
    BY <2>1
  <2> QED
    BY <2>2, RepairWellFormed
<1> QED
  BY <1>1, SessionInvHolds, PTL DEF SessionInv

RegistryTypes == resumable \in Turn \cup {NoTurn} /\ registry \subseteq Turn

LEMMA RegistryTypesKept == RegistryTypes /\ [Next]_vars => RegistryTypes'
<1> SUFFICES ASSUME RegistryTypes, [Next]_vars PROVE RegistryTypes'
  OBVIOUS
<1>1. ASSUME NEW t \in Turn, Client(t) \/ Progress(t) PROVE RegistryTypes'
  <2>1. resumable' \in {resumable, t, NoTurn} /\ registry' \subseteq registry \cup {t}
    BY <1>1 DEF Client, Progress, Send, Disconnect, Reply, StoreReply, Store, Register, Load, LoadFails,
         Model, Answer, Truncated, Exhausted, Fail, Gate, PassGate, ReviewAllow, ReviewDeny,
         AskApproval, Pause, Dispatch, StartCall, EndCall, RunAgain, Deliver, TakeSteers, Stop,
         Close, Save
  <2> QED
    BY <2>1 DEF RegistryTypes
<1>2. CASE Steer \/ Cancel \/ UNCHANGED vars
  BY <1>2 DEF Steer, Cancel, vars, RegistryTypes
<1> QED
  BY <1>1, <1>2 DEF Next

LEMMA TurnTypeHolds ==
  ASSUME NEW t \in Turn, Legal(t, run[t]), Sound(run[t])
  PROVE  TurnType(run[t])
<1> DEFINE r == run[t]
<1>1. Legal(t, r) /\ Sound(r) /\ MaxCalls \in Nat \ {0}
  BY SessionAssumption
<1> HIDE DEF r
<1>2. r.conv \in Seq(Message) /\ r.hist \in Seq(Message)
  <2>1. Written \subseteq Message
    BY DEF Written
  <2>2. r.conv \in Seq(Written) /\ r.hist \in Seq(Written)
    BY <1>1 DEF Sound
  <2> QED
    BY <2>1, <2>2
<1>3. r.batch \in Seq(Call)
  <2>1. TurnCall(t) \subseteq Call
    BY DEF TurnCall, Call
  <2>2. r.batch \in Seq(TurnCall(t))
    BY <1>1 DEF Legal
  <2> QED
    BY <2>1, <2>2
<1>4. r.at \in 1..(MaxCalls + 1)
  BY <1>1 DEF Legal, Sound
<1> QED
  BY <1>1, <1>2, <1>3, <1>4 DEF TurnType, Legal, Sound, r

\* The state always has the shape the code gives it, and no turn goes beyond
\* its limits of answers, recoveries and dispatched calls (agent/query.py,
\* agent/query_engine.py).
THEOREM TypesHold == Spec => []TypeOK
<1>1. Init => RegistryTypes
  BY DEF Init, RegistryTypes
<1>2. SessionInv /\ RegistryTypes => TypeOK
  <2> SUFFICES ASSUME SessionInv, RegistryTypes PROVE TypeOK
    OBVIOUS
  <2>1. \A t \in Turn : TurnType(run[t])
    BY TurnTypeHolds DEF SessionInv, Runs, Sounds
  <2>2. stored \in Seq(Message)
    <3>1. Written \subseteq Message /\ stored \in Seq(Written)
      BY DEF SessionInv, Sounds, Written
    <3> QED
      BY <3>1
  <2> QED
    BY <2>1, <2>2 DEF TypeOK, SessionInv, GrantInv, GrantTypes, RegistryTypes
<1> QED
  BY <1>1, <1>2, SessionInvHolds, RegistryTypesKept, PTL DEF Spec

-----------------------------------------------------------------------------
(* Where steer messages are. *)

TakenIds == {book.taken[k].id : k \in DOMAIN book.taken}

HeardAt(k) ==
    LET by == book.taken[k].by
        places == Places(run[by].conv, book.taken[k].id)
    IN (\E i : places = {i}) \/ (places = {} /\ run[by].aborted)

\* A steer message can be in a transcript only after it was taken; the turn
\* that takes it does not read the transcript again.
HeardInv ==
    /\ Heard(stored) \subseteq TakenIds
    /\ \A t \in Turn : Heard(run[t].conv) \subseteq TakenIds
    /\ \A k \in DOMAIN book.taken : run[book.taken[k].by].pc \notin Early /\ HeardAt(k)

LEMMA SteerNumbers ==
  ASSUME SteerInv
  PROVE  /\ DOMAIN book.taken = 1..Len(book.taken) /\ Len(book.taken) \in Nat /\ Len(steers) \in Nat
         /\ \A k \in 1..Len(book.taken) : book.taken[k].id = k /\ book.taken[k].by \in Turn
         /\ \A j \in 1..Len(steers) : steers[j] = Len(book.taken) + j
<1> DEFINE taken == book.taken
           n == Len(taken)
           m == Len(steers)
           ids == Ids(taken)
<1>1. taken \in Seq([id : Nat, by : Turn]) /\ steers \in Seq(Nat) /\ book.steered \in Nat
  BY DEF SteerInv
<1>2. ids \in Seq(Nat) /\ Len(ids) = n /\ \A k \in 1..n : ids[k] = taken[k].id
  BY <1>1, IdsOf
<1>3. ids \o steers = [k \in 1..book.steered |-> k]
  BY DEF SteerInv, SteersInOrder, Ids
<1>4. DOMAIN taken = 1..n /\ n \in Nat /\ m \in Nat
  BY <1>1, LenProperties
<1> HIDE DEF taken, n, m, ids
<1>5. DOMAIN (ids \o steers) = 1..(n + m)
  BY <1>1, <1>2, ConcatDomain DEF m
<1>6. \A k \in 1..(n + m) : (ids \o steers)[k] = k
  <2>1. DOMAIN [k \in 1..book.steered |-> k] = 1..book.steered
    OBVIOUS
  <2>2. 1..(n + m) = 1..book.steered
    BY <1>3, <1>5, <2>1
  <2>3. \A k \in 1..book.steered : [j \in 1..book.steered |-> j][k] = k
    OBVIOUS
  <2> QED
    BY <1>3, <2>2, <2>3
<1>7. /\ \A k \in 1..n : (ids \o steers)[k] = ids[k]
      /\ \A j \in 1..m : (ids \o steers)[n + j] = steers[j]
  <2>1. Len(ids) = n /\ Len(steers) = m
    BY <1>2 DEF m
  <2>2. \A k \in 1..(n + m) : (ids \o steers)[k] = IF k <= n THEN ids[k] ELSE steers[k - n]
    <3>1. \A k \in 1..(Len(ids) + Len(steers)) :
             (ids \o steers)[k] = IF k <= Len(ids) THEN ids[k] ELSE steers[k - Len(ids)]
      BY <1>1, <1>2, ConcatProperties
    <3> QED
      BY <2>1, <3>1, Zenon
  <2>3. ASSUME NEW k \in 1..n PROVE (ids \o steers)[k] = ids[k]
    <3>1. k \in 1..(n + m) /\ k <= n
      BY <1>4
    <3> QED
      BY <2>2, <3>1, Zenon
  <2>4. ASSUME NEW j \in 1..m PROVE (ids \o steers)[n + j] = steers[j]
    <3>1. n + j \in 1..(n + m) /\ ~(n + j <= n) /\ (n + j) - n = j
      BY <1>4
    <3> QED
      BY <2>2, <3>1
  <2> QED
    BY <2>3, <2>4
<1>8. \A k \in 1..n : taken[k].id = k
  <2> TAKE k \in 1..n
  <2>1. k \in 1..(n + m)
    BY <1>4
  <2> QED
    BY <1>2, <1>6, <1>7, <2>1
<1>9. \A j \in 1..m : steers[j] = n + j
  <2> TAKE j \in 1..m
  <2>1. n + j \in 1..(n + m)
    BY <1>4
  <2> QED
    BY <1>6, <1>7, <2>1
<1>10. \A k \in 1..n : taken[k].by \in Turn
  <2> TAKE k \in 1..n
  <2> DEFINE S == [id : Nat, by : Turn]
  <2>1. taken \in Seq(S) /\ k \in 1..Len(taken)
    BY <1>1 DEF n
  <2> HIDE DEF S
  <2>2. taken[k] \in S
    BY <2>1, ElementOfSeq
  <2> QED
    BY <2>2 DEF S
<1> QED
  BY <1>4, <1>8, <1>9, <1>10 DEF taken, n, m

\* A step in which no steer message is taken.
LEMMA QuietKeepsHeard ==
  ASSUME SteerInv, HeardInv, book'.taken = book.taken,
         \A t \in Turn : Tidy(run[t], run'[t]) /\ (run[t].aborted => run'[t].aborted),
         \A x \in Heard(stored') : x \in Heard(stored) \/ \E t \in Turn : x \in Heard(run[t].conv)
  PROVE  HeardInv'
<1>1. TakenIds' = TakenIds
  BY DEF TakenIds
<1>2. Heard(stored') \subseteq TakenIds
  BY DEF HeardInv
<1>3. \A t \in Turn : Heard(run'[t].conv) \subseteq TakenIds
  BY DEF HeardInv, Tidy
<1>4. ASSUME NEW k \in DOMAIN book.taken
      PROVE  run'[book.taken[k].by].pc \notin Early /\ HeardAt(k)'
  <2> DEFINE by == book.taken[k].by
             id == book.taken[k].id
  <2>1. by \in Turn /\ id \in Nat
    <3>1. k \in 1..Len(book.taken) /\ Len(book.taken) \in Nat
      BY SteerNumbers
    <3> QED
      BY <3>1, SteerNumbers
  <2>2. run[by].pc \notin Early /\ HeardAt(k)
    BY DEF HeardInv
  <2>3. run'[by].pc \notin Early /\ SameSteers(run[by].conv, run'[by].conv)
        /\ (run[by].aborted => run'[by].aborted)
    BY <2>1, <2>2 DEF Tidy
  <2>4. Places(run'[by].conv, id) = Places(run[by].conv, id)
    BY <2>1, <2>3 DEF SameSteers
  <2>5. HeardAt(k)'
    BY <2>2, <2>3, <2>4 DEF HeardAt
  <2> QED
    BY <2>3, <2>5
<1> QED
  BY <1>1, <1>2, <1>3, <1>4 DEF HeardInv

LEMMA SameTidy ==
  ASSUME NEW r, Sound(r)
  PROVE  Tidy(r, r)
  BY TidyIf, SameSame

\* The messages taken come to the end of the conversation, each once.
LEMMA ConcatPlaces ==
  ASSUME NEW ms \in Seq(Written), NEW t, steers \in Seq(Nat), NEW n \in Nat,
         \A j \in 1..Len(steers) : steers[j] = n + j,
         Heard(ms) \subseteq 1..n
  PROVE  /\ \A x \in 1..n : Places(ms \o Steered(t), x) = Places(ms, x)
         /\ \A j \in 1..Len(steers) : Places(ms \o Steered(t), n + j) = {Len(ms) + j}
         /\ Heard(ms \o Steered(t)) \subseteq 1..(n + Len(steers))
<1> DEFINE new == Steered(t)
           m == Len(steers)
           len == Len(ms)
           ns == ms \o new
<1>1. new \in Seq(Written) /\ Len(new) = m /\ \A k \in 1..m : new[k].of = steers[k]
  BY SteeredWritten
<1>2. len \in Nat /\ m \in Nat /\ DOMAIN ms = 1..len
  BY LenProperties
<1>3. DOMAIN ns = 1..(len + m) /\ (\A i \in 1..len : ns[i] = ms[i]) /\ \A j \in 1..m : ns[len + j] = new[j]
  <2> HIDE DEF new
  <2> DEFINE S == Written
  <2>1. ms \in Seq(S) /\ new \in Seq(S)
    BY <1>1
  <2> HIDE DEF S
  <2>2. DOMAIN ns = 1..(len + m)
    <3>1. DOMAIN (ms \o new) = 1..(Len(ms) + Len(new))
      BY <2>1, ConcatDomain
    <3>2. Len(new) = m
      BY <1>1
    <3> QED
      BY <3>1, <3>2, Zenon
  <2>3. (\A i \in 1..len : ns[i] = ms[i]) /\ \A j \in 1..m : ns[len + j] = new[j]
    BY <1>1, <1>2, <2>1, ConcatProperties
  <2> QED
    BY <2>2, <2>3
<1> HIDE DEF ns, new, m, len
<1>4. \A i \in 1..(len + m) : i \in 1..len \/ \E j \in 1..m : i = len + j
  <2> TAKE i \in 1..(len + m)
  <2>1. CASE i > len
    <3>1. i - len \in 1..m /\ i = len + (i - len)
      BY <1>2, <2>1
    <3> QED
      BY <3>1
  <2> QED
    BY <1>2, <2>1
<1>5. \A j \in 1..m : len + j \in 1..(len + m) /\ ns[len + j].of = n + j /\ n + j \notin 1..n
  <2> TAKE j \in 1..m
  <2>1. ns[len + j].of = n + j
    BY <1>1, <1>3 DEF m
  <2> QED
    BY <1>2, <2>1
<1>6. \A i \in 1..len : i \in 1..(len + m) /\ ns[i].of = ms[i].of /\ (ms[i].of \in Nat => ms[i].of \in 1..n)
  <2> TAKE i \in 1..len
  <2>1. ms[i].of \in Nat => ms[i].of \in Heard(ms)
    BY <1>2 DEF Heard
  <2> QED
    BY <1>2, <1>3, <2>1
<1>7. ASSUME NEW x \in 1..n PROVE Places(ns, x) = Places(ms, x)
  <2>1. \A i \in 1..(len + m) : ns[i].of = x <=> i \in 1..len /\ ms[i].of = x
    <3> TAKE i \in 1..(len + m)
    <3>1. CASE i \in 1..len
      BY <1>6, <3>1
    <3>2. ASSUME NEW j \in 1..m, i = len + j PROVE ns[i].of # x /\ i \notin 1..len
      <4>1. ns[i].of = n + j /\ n + j \notin 1..n
        BY <1>5, <3>2
      <4>2. i \notin 1..len
        BY <1>2, <3>2
      <4> QED
        BY <4>1, <4>2
    <3> QED
      BY <1>4, <3>1, <3>2
  <2> QED
    BY <1>2, <1>3, <1>6, <2>1 DEF Places
<1>8. ASSUME NEW j \in 1..m PROVE Places(ns, n + j) = {len + j}
  <2>1. \A i \in 1..(len + m) : ns[i].of = n + j <=> i = len + j
    <3> TAKE i \in 1..(len + m)
    <3>1. CASE i \in 1..len
      <4>1. ns[i].of # n + j
        <5>1. n + j \in Nat /\ n + j \notin 1..n
          BY <1>2, <1>5
        <5> QED
          BY <1>6, <3>1, <5>1
      <4> QED
        BY <1>2, <3>1, <4>1
    <3>2. ASSUME NEW k \in 1..m, i = len + k PROVE ns[i].of = n + j <=> i = len + j
      <4>1. ns[i].of = n + k
        BY <1>5, <3>2
      <4>2. n + k = n + j <=> len + k = len + j
        BY <1>2
      <4> QED
        BY <3>2, <4>1, <4>2
    <3> QED
      BY <1>4, <3>1, <3>2
  <2> QED
    BY <1>3, <1>5, <2>1 DEF Places
<1>9. Heard(ns) \subseteq 1..(n + m)
  <2>1. ASSUME NEW i \in 1..(len + m), ns[i].of \in Nat
        PROVE  ns[i].of \in 1..(n + m)
    <3>1. CASE i \in 1..len
      <4>1. ns[i].of \in 1..n
        BY <1>6, <2>1, <3>1
      <4> QED
        BY <1>2, <4>1
    <3>2. ASSUME NEW j \in 1..m, i = len + j PROVE ns[i].of \in 1..(n + m)
      <4>1. ns[i].of = n + j
        BY <1>5, <3>2
      <4> QED
        BY <1>2, <4>1
    <3> QED
      BY <1>4, <3>1, <3>2
  <2> QED
    BY <1>3, <2>1 DEF Heard
<1> QED
  BY <1>7, <1>8, <1>9 DEF ns, new, m, len

LEMMA TakeKeepsHeard ==
  ASSUME SessionInv, HeardInv, NEW t \in Turn, TakeSteers(t)
  PROVE  HeardInv'
<1> DEFINE n == Len(book.taken)
           m == Len(steers)
           new == NewlyTaken(t)
           conv == run[t].conv
<1>1. /\ SteerInv /\ steers \in Seq(Nat) /\ book.taken \in Seq([id : Nat, by : Turn])
      /\ Legal(t, run[t]) /\ Sound(run[t]) /\ BookTypes(book)
  BY DEF SessionInv, SteerInv, Runs, Sounds, GrantInv, GrantTypes
<1>2. /\ DOMAIN book.taken = 1..n /\ n \in Nat /\ m \in Nat
      /\ \A k \in 1..n : book.taken[k].id = k /\ book.taken[k].by \in Turn
      /\ \A j \in 1..m : steers[j] = n + j
  BY <1>1, SteerNumbers
<1>3. /\ run' = [u \in Turn |-> IF u = t THEN SteeredOf(t) ELSE run[u]] /\ run[t].pc = "steer"
      /\ book' = [book EXCEPT !.taken = @ \o new] /\ stored' = stored
  BY DEF TakeSteers, SessionInv, Runs
<1>4. /\ run'[t] = SteeredOf(t) /\ \A u \in Turn \ {t} : run'[u] = run[u]
  BY <1>3
<1>5. /\ SteeredOf(t).pc \notin Early /\ SteeredOf(t).aborted = run[t].aborted
      /\ SteeredOf(t).conv = IF run[t].aborted THEN conv ELSE conv \o Steered(t)
  BY <1>1, <1>3, SteeredSound
<1>6. TakenIds = 1..n
  BY <1>2 DEF TakenIds
<1>7. /\ Heard(stored) \subseteq 1..n /\ conv \in Seq(Written)
      /\ \A u \in Turn : Heard(run[u].conv) \subseteq 1..n
      /\ \A k \in 1..n : run[book.taken[k].by].pc \notin Early /\ HeardAt(k)
  BY <1>1, <1>2, <1>6 DEF HeardInv, Sound
\* What is taken.
<1>8. /\ book'.taken = book.taken \o new
      /\ DOMAIN book'.taken = 1..(n + m)
      /\ \A k \in 1..n : book'.taken[k] = book.taken[k]
      /\ \A j \in 1..m : book'.taken[n + j].id = n + j /\ book'.taken[n + j].by = t
  <2> DEFINE S == [id : Nat, by : Turn]
             e(k) == [id |-> steers[k], by |-> t]
  <2>1. new = [k \in 1..m |-> e(k)]
    BY <1>1 DEF NewlyTaken
  <2>2. \A k \in 1..m : e(k) \in S
    BY <1>2
  <2>3. \A k \in 1..m : e(k).id = n + k /\ e(k).by = t
    BY <1>2
  <2> HIDE DEF e, S, new, m
  <2>4. new \in Seq(S) /\ Len(new) = m /\ \A k \in 1..m : new[k] = e(k)
    BY <1>2, <2>1, <2>2
  <2>5. book.taken \in Seq(S)
    BY <1>1 DEF S
  <2>6. book'.taken = book.taken \o new
    BY <1>1, <1>3 DEF BookTypes
  <2>7. DOMAIN (book.taken \o new) = 1..(n + m)
    BY <2>4, <2>5, ConcatDomain
  <2>8. /\ \A k \in 1..n : (book.taken \o new)[k] = book.taken[k]
        /\ \A j \in 1..m : (book.taken \o new)[n + j] = new[j]
    BY <1>2, <2>4, <2>5, ConcatProperties
  <2> QED
    BY <2>3, <2>4, <2>6, <2>7, <2>8
<1> HIDE DEF n, m, new
<1>9. \A k \in 1..(n + m) : k \in 1..n \/ \E j \in 1..m : k = n + j
  <2> TAKE k \in 1..(n + m)
  <2>1. CASE k > n
    <3>1. k - n \in 1..m /\ k = n + (k - n)
      BY <1>2, <2>1
    <3> QED
      BY <3>1
  <2> QED
    BY <1>2, <2>1
<1>10. TakenIds' = 1..(n + m) /\ 1..n \subseteq 1..(n + m)
  <2>1. \A k \in 1..(n + m) : book'.taken[k].id = k
    <3> TAKE k \in 1..(n + m)
    <3>1. CASE k \in 1..n
      BY <1>2, <1>8, <3>1
    <3> QED
      BY <1>8, <1>9, <3>1
  <2>2. TakenIds' = {book'.taken[k].id : k \in 1..(n + m)}
    BY <1>8 DEF TakenIds
  <2>3. {book'.taken[k].id : k \in 1..(n + m)} = 1..(n + m)
    BY <2>1
  <2>4. 1..n \subseteq 1..(n + m)
    BY <1>2
  <2> QED
    BY <2>2, <2>3, <2>4
\* Where the messages are.
<1>11. /\ \A x \in 1..n : Places(run'[t].conv, x) = Places(conv, x)
       /\ \A j \in 1..m : \/ \E i : Places(run'[t].conv, n + j) = {i}
                          \/ Places(run'[t].conv, n + j) = {} /\ run[t].aborted
       /\ Heard(run'[t].conv) \subseteq 1..(n + m)
  <2>1. CASE run[t].aborted
    <3>1. run'[t].conv = conv
      BY <1>4, <1>5, <2>1
    <3>2. ASSUME NEW j \in 1..m PROVE Places(conv, n + j) = {}
      <4>1. n + j \in Nat /\ n + j \notin 1..n
        BY <1>2
      <4> QED
        BY <1>7, <4>1, HeardPlaces
    <3> QED
      BY <1>7, <1>10, <2>1, <3>1, <3>2
  <2>2. CASE ~run[t].aborted
    <3>1. run'[t].conv = conv \o Steered(t)
      BY <1>4, <1>5, <2>2
    <3>2. /\ \A x \in 1..n : Places(conv \o Steered(t), x) = Places(conv, x)
          /\ \A j \in 1..m : Places(conv \o Steered(t), n + j) = {Len(conv) + j}
          /\ Heard(conv \o Steered(t)) \subseteq 1..(n + m)
      BY <1>1, <1>2, <1>7, ConcatPlaces DEF m
    <3> QED
      BY <3>1, <3>2
  <2> QED
    BY <2>1, <2>2
<1>12. ASSUME NEW k \in 1..(n + m)
       PROVE  run'[book'.taken[k].by].pc \notin Early /\ HeardAt(k)'
  <2>1. CASE k \in 1..n
    <3> DEFINE by == book.taken[k].by
    <3>1. by \in Turn /\ book'.taken[k] = book.taken[k] /\ book.taken[k].id = k
          /\ run[by].pc \notin Early /\ HeardAt(k)
      BY <1>2, <1>7, <1>8, <2>1
    <3>2. /\ run'[by].pc \notin Early /\ run'[by].aborted = run[by].aborted
          /\ Places(run'[by].conv, k) = Places(run[by].conv, k)
      <4>1. CASE by = t
        BY <1>4, <1>5, <1>11, <2>1, <4>1
      <4>2. CASE by # t
        BY <1>4, <3>1, <4>2
      <4> QED
        BY <4>1, <4>2
    <3>3. HeardAt(k)'
      BY <3>1, <3>2 DEF HeardAt
    <3> QED
      BY <3>1, <3>2, <3>3
  <2>2. ASSUME NEW j \in 1..m, k = n + j
        PROVE  run'[book'.taken[k].by].pc \notin Early /\ HeardAt(k)'
    <3>1. book'.taken[k].id = n + j /\ book'.taken[k].by = t
      BY <1>8, <2>2
    <3>2. run'[t].pc \notin Early /\ run'[t].aborted = run[t].aborted
      BY <1>4, <1>5
    <3> QED
      BY <1>11, <3>1, <3>2 DEF HeardAt
  <2> QED
    BY <1>9, <2>1, <2>2
<1>13. \A u \in Turn : Heard(run'[u].conv) \subseteq 1..(n + m)
  BY <1>4, <1>7, <1>10, <1>11
<1> QED
  BY <1>3, <1>7, <1>8, <1>10, <1>12, <1>13 DEF HeardInv

LEMMA HeardKept == SessionInv /\ HeardInv /\ [Next]_vars => HeardInv'
<1> SUFFICES ASSUME SessionInv, HeardInv, [Next]_vars PROVE HeardInv'
  OBVIOUS
<1>0. /\ Runs /\ Sounds /\ SteerInv /\ cards \subseteq Call /\ BookTypes(book)
      /\ \A u \in Turn : Tidy(run[u], run[u])
  BY SameTidy DEF SessionInv, GrantInv, GrantTypes, Sounds
<1>1. ASSUME NEW t \in Turn, Client(t) \/ Progress(t), ~TakeSteers(t) PROVE HeardInv'
  <2>1. TidyStep(t)
    BY <1>0, <1>1, TurnTidy
  <2>2. run'[t].aborted = run[t].aborted
    BY <1>0, <1>1, TurnMoves, RegisterMoves DEF Moves, Advance
  <2>3. \A u \in Turn : Tidy(run[u], run'[u]) /\ (run[u].aborted => run'[u].aborted)
    BY <1>0, <2>1, <2>2 DEF TidyStep
  <2>4. book'.taken = book.taken
    BY <1>0, <1>1, OtherBooks
  <2>5. Heard(stored') \subseteq Heard(stored) \cup Heard(run[t].conv)
    BY <1>0, <1>1, StoredKept
  <2> QED
    BY <1>0, <2>3, <2>4, <2>5, QuietKeepsHeard
<1>2. ASSUME UNCHANGED stored, book'.taken = book.taken,
             \A u \in Turn : Tidy(run[u], run'[u]) /\ (run[u].aborted => run'[u].aborted)
      PROVE  HeardInv'
  BY <1>0, <1>2, QuietKeepsHeard
<1>3. CASE Cancel
  <2>1. stored' = stored /\ run' = [t \in Turn |-> IF t \in registry THEN StoppedOf(t) ELSE run[t]]
    BY <1>3 DEF Cancel
  <2>2. book'.taken = book.taken
    BY <1>0, <1>3 DEF Cancel, Trouble, BookTypes
  <2>3. \A u \in Turn : Tidy(run[u], StoppedOf(u))
    BY <1>0, StoppedTidy DEF Runs, Sounds
  <2>4. \A u \in Turn : run[u].aborted => run'[u].aborted
    BY <1>0, <1>3, CancelStops
  <2> QED
    BY <1>0, <1>2, <2>1, <2>2, <2>3, <2>4
<1>4. CASE Steer
  <2>1. book' = [book EXCEPT !.steered = @ + 1] /\ run' = run /\ stored' = stored
    BY <1>4 DEF Steer
  <2>2. book'.taken = book.taken
    BY <1>0, <2>1 DEF BookTypes
  <2> QED
    BY <1>0, <1>2, <2>1, <2>2
<1>5. CASE UNCHANGED vars
  BY <1>0, <1>2, <1>5 DEF vars
<1> QED
  BY <1>1, <1>3, <1>4, <1>5, TakeKeepsHeard DEF Next

\* Every steer message is taken in order and by one turn, which has it in its
\* conversation exactly once, unless the turn was cancelled: for any turns that
\* overlap, and whatever they read from and save to the one transcript
\* (agent/query.py, SessionControlRegistry.drain_steer).
THEOREM SteeredOnceAlways == Spec => []SteerOnce
<1>1. Init => HeardInv
  <2> SUFFICES ASSUME Init PROVE HeardInv
    OBVIOUS
  <2>1. Heard(<<>>) = {}
    BY DEF Heard
  <2>2. stored = <<>> /\ book.taken = <<>> /\ \A t \in Turn : run[t].conv = <<>>
    BY DEF Init, NewTurn, NewBook
  <2> QED
    BY <2>1, <2>2 DEF HeardInv
<1>2. SessionInv /\ HeardInv => SteerOnce
  <2> SUFFICES ASSUME SessionInv, HeardInv, NEW k \in DOMAIN book.taken
               PROVE  LET by == book.taken[k].by
                          heard == {i \in DOMAIN run[by].conv : run[by].conv[i].of = book.taken[k].id}
                      IN Cardinality(heard) = 1 \/ (heard = {} /\ run[by].aborted)
    BY DEF SteerOnce, SessionInv, SteerInv
  <2>1. HeardAt(k)
    BY DEF HeardInv
  <2>2. \A i : Cardinality({i}) = 1
    BY FS_Singleton
  <2> QED
    BY <2>1, <2>2 DEF HeardAt, Places
<1> QED
  BY <1>1, <1>2, SessionInvHolds, HeardKept, PTL DEF Spec
=============================================================================
