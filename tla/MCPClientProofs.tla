--------------------------- MODULE MCPClientProofs ---------------------------
(***************************************************************************)
(* Proofs about MCPClient: the types, and that answers keep in step with   *)
(* the requests of a server that answers in order.                         *)
(***************************************************************************)
EXTENDS MCPClient, TLAPS

Busy == {"spawn", "opened", "ending"} \cup Asking

\* What TypeOK says of the handlers, of the clients and of the servers.
HandlersOK ==
    /\ handler \in [Handler -> HandlerRecord]
    /\ \A h \in Handler : handler[h].pc \in Busy => handler[h].at \in Client
ServersOK ==
    /\ asked \in [Client -> SUBSET Nat]
    /\ pipe \in [Client -> Seq(Nat)]
ClientsOK ==
    /\ registered \in Client \cup {NoClient}
    /\ process \in [Client -> {"none", "up", "stuck", "dead", "gone"}]
    /\ connected \in [Client -> BOOLEAN]
    /\ nextId \in [Client -> Nat]
    /\ skipped \in [Client -> SUBSET Nat]

Types == HandlersOK /\ ServersOK /\ ClientsOK

LEMMA TypeParts == TypeOK <=> Types
<1>1. ASSUME NEW pc \in {"idle", "spawn", "opened", "ending", "done"} \cup Asking
      PROVE  pc \in Busy <=> pc \notin {"idle", "done"}
  BY DEF Busy, Asking
<1> QED
  BY <1>1 DEF TypeOK, Types, HandlersOK, ServersOK, ClientsOK, HandlerRecord

LEMMA GotoType ==
    ASSUME HandlersOK, NEW h \in Handler, NEW pc \in {"done"} \cup Busy, Goto(h, pc),
           pc \in Busy => handler[h].at \in Client
    PROVE  HandlersOK'
  BY DEF HandlersOK, Goto, HandlerRecord, Asking, Busy

LEMMA RequestType ==
    ASSUME HandlersOK, ClientsOK, NEW h \in Handler, NEW c \in Client,
           NEW kind \in {"init", "list", "call"}, NEW left \in 0 .. MaxLists,
           Request(h, c, kind, left)
    PROVE  HandlersOK' /\ nextId' \in [Client -> Nat]
  BY DEF HandlersOK, ClientsOK, Request, HandlerRecord, Asking, Busy

LEMMA FailType ==
    ASSUME HandlersOK, ClientsOK, NEW h \in Handler, handler[h].pc \in Asking, Fail(h)
    PROVE  HandlersOK' /\ ClientsOK'
<1>1. handler[h].at \in Client /\ handler[h].id \in Nat
  BY DEF HandlersOK, Busy, HandlerRecord
<1>2. HandlersOK'
  BY GotoType DEF Fail, Busy, Asking
<1> QED
  BY <1>1, <1>2 DEF Fail, ClientsOK

LEMMA StepType ==
    ASSUME Types, NEW h \in Handler, Step(h)
    PROVE  Types'
<1> USE ClientAssumption DEF Types
<1>0. HandlersOK /\ ServersOK /\ ClientsOK
  OBVIOUS
<1> DEFINE c == handler[h].at
<1>1. handler[h].pc \in Busy => c \in Client
  BY <1>0 DEF HandlersOK
<1>2. CASE Write(h)
  <2>1. c \in Client /\ handler[h].id \in Nat
    BY <1>0, <1>1, <1>2 DEF Write, Busy, Asking, HandlersOK, HandlerRecord
  <2>2. HandlersOK'
    BY <1>0, <1>2, <2>1, GotoType DEF Write, Busy, Asking
  <2>3. ServersOK'
    BY <1>0, <1>2, <2>1 DEF Write, ServersOK
  <2> QED
    BY <1>0, <1>2, <2>2, <2>3 DEF Write, ClientsOK
<1>3. CASE Drained(h) \/ Lock(h) \/ ConnectFails(h)
  <2>1. HandlersOK'
    BY <1>0, <1>1, <1>3, GotoType DEF Drained, Lock, ConnectFails, Busy, Asking
  <2> QED
    BY <1>0, <1>3, <2>1 DEF Drained, Lock, ConnectFails, ServersOK, ClientsOK
<1>4. CASE TimeOut(h) \/ Broken(h)
  <2>1. handler[h].pc \in Asking /\ Fail(h)
    BY <1>4 DEF TimeOut, Broken, Asking
  <2> QED
    BY <1>0, <2>1, FailType DEF Fail, ServersOK
<1>5. CASE Read(h)
  <2>1. c \in Client /\ pipe[c] \in Seq(Nat) /\ pipe[c] # <<>>
    BY <1>0, <1>1, <1>5 DEF Read, Busy, Asking, ServersOK
  <2>2. Head(pipe[c]) \in Nat /\ Tail(pipe[c]) \in Seq(Nat)
    BY <2>1
  <2>3. ServersOK'
    BY <1>0, <1>5, <2>1, <2>2 DEF Read, ServersOK
  <2>4. HandlersOK' /\ nextId' \in [Client -> Nat]
    <3>1. CASE Request(h, c, "list", handler[h].left - 1) /\ handler[h].left > 0
      <4>1. handler[h].left - 1 \in 0 .. MaxLists
        BY <1>0, <3>1 DEF HandlersOK, HandlerRecord
      <4> QED
        BY <1>0, <2>1, <3>1, <4>1, RequestType
    <3>2. ASSUME NEW pc \in {"done", "opened"}, UNCHANGED nextId,
                 handler' = [handler EXCEPT ![h].pc = pc, ![h].got = Head(pipe[c])]
          PROVE  HandlersOK' /\ nextId' \in [Client -> Nat]
      <4> DEFINE r == [handler[h] EXCEPT !.pc = pc, !.got = Head(pipe[c])]
      <4>1. handler[h] \in HandlerRecord
        BY <1>0 DEF HandlersOK
      <4>2. r \in HandlerRecord /\ r.at = c
        BY <2>2, <4>1 DEF HandlerRecord
      <4>3. handler' = [handler EXCEPT ![h] = r]
        BY <1>0, <3>2 DEF HandlersOK
      <4> HIDE DEF r
      <4>4. HandlersOK'
        BY <1>0, <2>1, <4>2, <4>3 DEF HandlersOK
      <4> QED
        BY <1>0, <3>2, <4>4 DEF ClientsOK
    <3> QED
      BY <1>5, <3>1, <3>2 DEF Read
  <2> QED
    BY <1>0, <1>5, <2>3, <2>4 DEF Read, ClientsOK
<1>6. CASE Spawned(h)
  <2>1. c \in Client
    BY <1>1, <1>6 DEF Spawned, Busy
  <2>2. HandlersOK' /\ nextId' \in [Client -> Nat]
    BY <1>0, <1>6, <2>1, RequestType DEF Spawned
  <2> QED
    BY <1>0, <1>6, <2>1, <2>2 DEF Spawned, ClientsOK, ServersOK
<1>7. CASE Open(h)
  <2>1. c \in Client
    BY <1>1, <1>7 DEF Open, Busy
  <2>2. HandlersOK' /\ nextId' \in [Client -> Nat]
    <3>1. ASSUME NEW lists \in 1 .. MaxLists, Request(h, c, "list", lists - 1)
          PROVE  HandlersOK' /\ nextId' \in [Client -> Nat]
      <4>1. lists - 1 \in 0 .. MaxLists
        OBVIOUS
      <4> QED
        BY <1>0, <2>1, <3>1, <4>1, RequestType
    <3>2. CASE Goto(h, "done") /\ UNCHANGED nextId
      BY <1>0, <3>2, GotoType DEF ClientsOK, Busy, Asking
    <3> QED
      BY <1>7, <3>1, <3>2 DEF Open
  <2> QED
    BY <1>0, <1>7, <2>1, <2>2 DEF Open, ClientsOK, ServersOK
<1>8. CASE Ended(h)
  <2>1. HandlersOK'
    BY <1>0, <1>8, GotoType DEF Ended, Busy, Asking
  <2> QED
    BY <1>0, <1>1, <1>8, <2>1 DEF Ended, ClientsOK, ServersOK, Busy
<1> QED
  BY <1>2, <1>3, <1>4, <1>5, <1>6, <1>7, <1>8 DEF Step

LEMMA TypeStep ==
    ASSUME Types, [Next]_vars
    PROVE  Types'
<1> USE ClientAssumption DEF Types
<1>0. HandlersOK /\ ServersOK /\ ClientsOK
  OBVIOUS
<1>1. ASSUME NEW h \in Handler, Connect(h) PROVE Types'
  <2>1. HandlersOK'
    BY <1>0, <1>1 DEF Connect, HandlersOK, HandlerRecord, Busy, Asking
  <2> QED
    BY <1>0, <1>1, <2>1 DEF Connect, ClientsOK, ServersOK
<1>2. ASSUME NEW h \in Handler, Call(h) PROVE Types'
  <2>1. HandlersOK' /\ nextId' \in [Client -> Nat]
    BY <1>0, <1>2, RequestType DEF Call, IsConnected, ClientsOK
  <2> QED
    BY <1>0, <1>2, <2>1 DEF Call, ClientsOK, ServersOK
<1>3. ASSUME NEW h \in Handler, Disconnect(h) PROVE Types'
  <2>0. registered \in Client
    BY <1>0, <1>3 DEF Disconnect, ClientsOK
  <2> DEFINE r == [handler[h] EXCEPT !.pc = "ending", !.at = registered]
  <2>a. handler[h] \in HandlerRecord
    BY <1>0 DEF HandlersOK
  <2>b. r \in HandlerRecord /\ r.at = registered
    BY <2>0, <2>a DEF HandlerRecord
  <2>c. handler' = [handler EXCEPT ![h] = r]
    BY <1>0, <1>3 DEF Disconnect, HandlersOK
  <2> HIDE DEF r
  <2>1. HandlersOK'
    BY <1>0, <2>0, <2>b, <2>c DEF HandlersOK
  <2> QED
    BY <1>0, <1>3, <2>1 DEF Disconnect, ClientsOK, ServersOK
<1>4. ASSUME NEW c \in Client, Answer(c) PROVE Types'
  <2>1. PICK k \in asked[c] : /\ asked' = [asked EXCEPT ![c] = @ \ {k}]
                              /\ pipe' = [pipe EXCEPT ![c] = Append(@, k)]
    BY <1>4 DEF Answer
  <2>2. k \in Nat /\ pipe[c] \in Seq(Nat)
    BY <1>0 DEF ServersOK
  <2>3. Append(pipe[c], k) \in Seq(Nat)
    BY <2>2
  <2>4. ServersOK'
    BY <1>0, <2>1, <2>3 DEF ServersOK
  <2> QED
    BY <1>0, <1>4, <2>4 DEF Answer, ClientsOK, HandlersOK
<1>5. ASSUME NEW c \in Client, Die(c) \/ Stick(c) PROVE Types'
  BY <1>0, <1>5 DEF Die, Stick, Turn, ClientsOK, ServersOK, HandlersOK
<1>6. CASE UNCHANGED vars
  BY <1>0, <1>6 DEF vars, ClientsOK, ServersOK, HandlersOK
<1> QED
  BY <1>1, <1>2, <1>3, <1>4, <1>5, <1>6, StepType DEF Next

LEMMA TypeInit == Init => TypeOK
  BY ClientAssumption DEF Init, TypeOK, HandlerRecord, Asking

\* Every variable keeps its type, and every handler at work has a client.
THEOREM TypeCorrect == Spec => []TypeOK
<1>1. Init => Types
  BY TypeInit, TypeParts
<1>2. Types /\ [Next]_vars => Types'
  BY TypeStep
<1>3. Types => TypeOK
  BY TypeParts
<1> QED
  BY <1>1, <1>2, <1>3, PTL DEF Spec

-----------------------------------------------------------------------------
\* The lines that nobody has read yet, by request: answered or not.
lines == [c \in Client |-> asked[c] \cup {pipe[c][n] : n \in 1 .. Len(pipe[c])}]

\* Ids are given in turn; a request has no answer before it has read one.
Numbered ==
    /\ \A h \in Handler :
         /\ handler[h].pc \in Asking \/ handler[h].got # 0 =>
              handler[h].at \in Client /\ handler[h].id \in 1 .. nextId[handler[h].at]
         /\ handler[h].pc \in {"idle", "spawn", "ending"} \cup Asking => handler[h].got = 0
    /\ \A c \in Client : \A k \in lines[c] : k \in 1 .. nextId[c]

\* Requests are made over processes that were started, each of them once.
Started ==
    /\ \A h \in Handler :
         /\ handler[h].pc \in Asking \cup {"opened"} => process[handler[h].at] # "none"
         /\ handler[h].pc = "spawn" =>
              /\ process[handler[h].at] = "none"
              /\ \A g \in Handler \ {h} : handler[g].at # handler[h].at
    /\ registered # NoClient => process[registered] # "none"

\* Requests over one client are ahead of each other in the order of their ids.
Ordered ==
    \A g, h \in Handler :
        g # h /\ handler[g].at = handler[h].at /\ handler[g].pc \in Asking /\ handler[h].pc \in Asking =>
            /\ handler[g].id # handler[h].id
            /\ handler[g].id < handler[h].id =>
                 /\ handler[h].pc # "read"
                 /\ handler[h].pc \in {"wait", "drain"} => handler[g].pc \in {"wait", "read"}

\* A line that is written is there to be read, if the server was.
Written ==
    \A h \in Handler : handler[h].pc \in Asking =>
        LET c == handler[h].at
        IN  /\ handler[h].id \in lines[c] \/ \A k \in lines[c] : k < handler[h].id
            /\ handler[h].pc = "write" => \A k \in lines[c] : k < handler[h].id
            /\ handler[h].pc # "write" /\ process[c] = "up" => handler[h].id \in lines[c]

\* An unread line has somebody to read it, unless an earlier request went
\* without.
Matched ==
    \A c \in Client : \A k \in lines[c] :
        \/ \E h \in Handler : handler[h].at = c /\ handler[h].pc \in Asking /\ handler[h].id = k
        \/ \E j \in 1 .. k : j \in skipped[c]

\* Whoever has read is behind all that is unread and all that ask.
Behind ==
    \A g \in Handler : handler[g].got # 0 =>
        /\ \A k \in lines[handler[g].at] : handler[g].got < k
        /\ \A h \in Handler : handler[h].at = handler[g].at /\ handler[h].pc \in Asking
                                => handler[g].id < handler[h].id

\* Answers lie in the order of the requests.
Sorted ==
    \A c \in Client :
        /\ \A m, n \in 1 .. Len(pipe[c]) : m < n => pipe[c][m] < pipe[c][n]
        /\ \A n \in 1 .. Len(pipe[c]) : \A k \in asked[c] : pipe[c][n] < k

StepInv == Numbered /\ Started /\ Ordered /\ Written /\ Matched /\ Behind /\ Sorted /\ AnswersKeepStep

-----------------------------------------------------------------------------
\* What becomes of the lines.

LEMMA LinesType ==
    ASSUME ServersOK
    PROVE  \A c \in Client : lines[c] \subseteq Nat
  BY DEF ServersOK, lines

LEMMA LinesKept ==
    ASSUME Sorted, UNCHANGED <<asked, pipe>>
    PROVE  lines' = lines /\ Sorted'
  BY DEF lines, Sorted

LEMMA LinesAdd ==
    ASSUME ServersOK, Sorted, NEW c \in Client, NEW i \in Nat,
           asked' = [asked EXCEPT ![c] = @ \cup {i}], UNCHANGED pipe,
           \A k \in lines[c] : k < i
    PROVE  lines' = [lines EXCEPT ![c] = @ \cup {i}] /\ Sorted'
<1>1. lines' = [lines EXCEPT ![c] = @ \cup {i}]
  BY DEF ServersOK, lines
<1>2. \A n \in 1 .. Len(pipe[c]) : pipe[c][n] < i
  BY DEF lines
<1> QED
  BY <1>1, <1>2 DEF ServersOK, Sorted

LEMMA LinesAnswer ==
    ASSUME ServersOK, Sorted, NEW c \in Client, NEW k \in asked[c],
           \A j \in asked[c] : k <= j,
           asked' = [asked EXCEPT ![c] = @ \ {k}],
           pipe' = [pipe EXCEPT ![c] = Append(@, k)]
    PROVE  lines' = lines /\ Sorted'
<1> DEFINE p == pipe[c]
           q == Append(p, k)
<1>1. p \in Seq(Nat) /\ k \in Nat /\ asked[c] \subseteq Nat
  BY DEF ServersOK
<1>2. /\ Len(q) = Len(p) + 1 /\ Len(p) \in Nat
      /\ \A n \in 1 .. Len(p) : q[n] = p[n]
      /\ q[Len(p) + 1] = k
  BY <1>1
<1>3. /\ pipe'[c] = q /\ asked'[c] = asked[c] \ {k}
      /\ \A d \in Client \ {c} : pipe'[d] = pipe[d] /\ asked'[d] = asked[d]
  BY DEF ServersOK
<1>4. \A n \in 1 .. Len(p) : p[n] < k
  BY DEF Sorted
<1>5. \A n \in 1 .. Len(p) : p[n] \in Nat
  BY <1>1
<1> HIDE DEF p, q
<1>6. {q[n] : n \in 1 .. Len(q)} = {p[n] : n \in 1 .. Len(p)} \cup {k}
  <2>1. \A n \in 1 .. Len(q) : n \in 1 .. Len(p) \/ n = Len(p) + 1
    BY <1>2
  <2>2. \A n \in 1 .. Len(p) : n \in 1 .. Len(q)
    BY <1>2
  <2>3. Len(p) + 1 \in 1 .. Len(q)
    BY <1>2
  <2> QED
    BY <1>2, <2>1, <2>2, <2>3
<1>7. asked'[c] \cup {pipe'[c][n] : n \in 1 .. Len(pipe'[c])} = asked[c] \cup {p[n] : n \in 1 .. Len(p)}
  <2>1. {pipe'[c][n] : n \in 1 .. Len(pipe'[c])} = {q[n] : n \in 1 .. Len(q)}
    BY <1>3
  <2> QED
    BY <1>3, <1>6, <2>1
<1>8. lines' = lines
  BY <1>3, <1>7 DEF lines, p
<1>9. \A n \in 1 .. Len(q) : n \in 1 .. Len(p) \/ n = Len(p) + 1
  BY <1>2
<1>10. \A m, n \in 1 .. Len(p) : m < n => p[m] < p[n]
  BY DEF Sorted, p
<1>11. \A m, n \in 1 .. Len(q) : m < n => q[m] < q[n]
  <2> SUFFICES ASSUME NEW m \in 1 .. Len(q), NEW n \in 1 .. Len(q), m < n PROVE q[m] < q[n]
    OBVIOUS
  <2>1. m \in 1 .. Len(p)
    BY <1>2
  <2>2. CASE n \in 1 .. Len(p)
    BY <1>2, <1>10, <2>1, <2>2
  <2>3. CASE n = Len(p) + 1
    BY <1>2, <1>4, <2>1, <2>3
  <2> QED
    BY <1>9, <2>2, <2>3
<1>12. \A n \in 1 .. Len(p) : \A j \in asked[c] : p[n] < j
  BY DEF Sorted, p
<1>13. \A n \in 1 .. Len(q) : \A j \in asked'[c] : q[n] < j
  <2> SUFFICES ASSUME NEW n \in 1 .. Len(q), NEW j \in asked[c], j # k PROVE q[n] < j
    BY <1>3
  <2>1. k < j
    BY <1>1
  <2> QED
    BY <1>2, <1>9, <1>12, <2>1
<1> QED
  BY <1>3, <1>8, <1>11, <1>13 DEF Sorted

LEMMA LinesRead ==
    ASSUME ServersOK, Sorted, NEW c \in Client, pipe[c] # <<>>,
           pipe' = [pipe EXCEPT ![c] = Tail(@)], UNCHANGED asked
    PROVE  /\ lines' = [lines EXCEPT ![c] = @ \ {Head(pipe[c])}]
           /\ Head(pipe[c]) \in lines[c]
           /\ \A k \in lines[c] : Head(pipe[c]) <= k
           /\ Sorted'
<1> DEFINE p == pipe[c]
           q == Tail(p)
<1>1. p \in Seq(Nat) /\ p # <<>> /\ asked[c] \subseteq Nat
  BY DEF ServersOK
<1>2. /\ Len(p) = Len(q) + 1 /\ Len(q) \in Nat
      /\ \A n \in 1 .. Len(q) : q[n] = p[n + 1]
      /\ Head(p) = p[1]
  BY <1>1
<1>3. /\ pipe'[c] = q /\ asked'[c] = asked[c]
      /\ \A d \in Client \ {c} : pipe'[d] = pipe[d] /\ asked'[d] = asked[d]
  BY DEF ServersOK
<1>4. /\ \A m, n \in 1 .. Len(p) : m < n => p[m] < p[n]
      /\ \A n \in 1 .. Len(p) : \A k \in asked[c] : p[n] < k
      /\ \A n \in 1 .. Len(p) : p[n] \in Nat
  BY <1>1 DEF Sorted
<1> HIDE DEF p, q
<1>5. {q[n] : n \in 1 .. Len(q)} = {p[n] : n \in 1 .. Len(p)} \ {Head(p)}
  <2>1. \A n \in 1 .. Len(q) : n + 1 \in 1 .. Len(p) /\ p[1] < p[n + 1]
    BY <1>2, <1>4
  <2>2. \A n \in 1 .. Len(p) : n = 1 \/ (n - 1 \in 1 .. Len(q) /\ q[n - 1] = p[n])
    BY <1>2
  <2>3. \A n \in 1 .. Len(q) : q[n] \in {p[m] : m \in 1 .. Len(p)} \ {Head(p)}
    BY <1>2, <1>4, <2>1
  <2>4. \A n \in 1 .. Len(p) : p[n] # Head(p) => p[n] \in {q[m] : m \in 1 .. Len(q)}
    BY <1>2, <2>2
  <2> QED
    BY <2>3, <2>4
<1>6. 1 \in 1 .. Len(p)
  BY <1>2
<1>7. Head(p) \notin asked[c]
  BY <1>2, <1>4, <1>6
<1>8. lines' = [lines EXCEPT ![c] = @ \ {Head(p)}]
  <2>1. {pipe'[c][n] : n \in 1 .. Len(pipe'[c])} = {q[n] : n \in 1 .. Len(q)}
    BY <1>3
  <2>2. asked'[c] \cup {pipe'[c][n] : n \in 1 .. Len(pipe'[c])}
          = (asked[c] \cup {p[n] : n \in 1 .. Len(p)}) \ {Head(p)}
    BY <1>3, <1>5, <1>7, <2>1
  <2>3. lines[c] = asked[c] \cup {p[n] : n \in 1 .. Len(p)}
    BY DEF lines, p
  <2>4. lines'[c] = lines[c] \ {Head(p)}
    BY <2>2, <2>3 DEF lines
  <2>5. \A d \in Client \ {c} : lines'[d] = lines[d]
    BY <1>3 DEF lines
  <2> QED
    BY <2>4, <2>5 DEF lines
<1>9. Head(p) \in lines[c] /\ \A k \in lines[c] : Head(p) <= k
  <2>1. lines[c] = asked[c] \cup {p[n] : n \in 1 .. Len(p)}
    BY DEF lines, p
  <2>2. \A n \in 1 .. Len(p) : Head(p) <= p[n]
    <3>1. \A n \in 1 .. Len(p) : n = 1 \/ 1 < n
      BY <1>2
    <3> QED
      BY <1>2, <1>4, <1>6, <3>1
  <2>3. \A k \in asked[c] : Head(p) <= k
    BY <1>1, <1>2, <1>4, <1>6
  <2> QED
    BY <1>2, <1>6, <2>1, <2>2, <2>3
<1>10. \A n \in 1 .. Len(q) : n + 1 \in 1 .. Len(p)
  BY <1>2
<1>11. \A m, n \in 1 .. Len(q) : m < n => q[m] < q[n]
  <2> SUFFICES ASSUME NEW m \in 1 .. Len(q), NEW n \in 1 .. Len(q), m < n PROVE q[m] < q[n]
    OBVIOUS
  <2>1. m + 1 < n + 1 /\ m + 1 \in 1 .. Len(p) /\ n + 1 \in 1 .. Len(p)
    BY <1>10
  <2>2. p[m + 1] < p[n + 1]
    BY <1>4, <2>1
  <2> QED
    BY <1>2, <2>2
<1>12. \A n \in 1 .. Len(q) : \A k \in asked[c] : q[n] < k
  BY <1>2, <1>4, <1>10
<1> QED
  BY <1>3, <1>8, <1>9, <1>11, <1>12 DEF Sorted, p

-----------------------------------------------------------------------------
\* What becomes of the handlers.

\* Everything of StepInv that Sorted does not say.
LineInv == Numbered /\ Started /\ Ordered /\ Written /\ Matched /\ Behind /\ AnswersKeepStep

LEMMA HandlerTypes ==
    ASSUME HandlersOK
    PROVE  \A h \in Handler : /\ handler[h].id \in Nat /\ handler[h].got \in Nat
                              /\ handler[h].pc \in {"idle", "done"} \cup Busy
                              /\ handler[h].pc \in Busy => handler[h].at \in Client
  BY DEF HandlersOK, HandlerRecord, Busy, Asking

LEMMA GotoView ==
    ASSUME HandlersOK, NEW h \in Handler, NEW pc, Goto(h, pc)
    PROVE  /\ \A g \in Handler : g # h => handler'[g] = handler[g]
           /\ handler'[h].pc = pc
           /\ handler'[h].at = handler[h].at
           /\ handler'[h].id = handler[h].id
           /\ handler'[h].got = handler[h].got
  BY DEF HandlersOK, HandlerRecord, Goto

LEMMA RequestView ==
    ASSUME HandlersOK, ClientsOK, NEW h \in Handler, NEW c \in Client, NEW kind, NEW left,
           Request(h, c, kind, left)
    PROVE  /\ \A g \in Handler : g # h => handler'[g] = handler[g]
           /\ handler'[h].pc = "write"
           /\ handler'[h].at = c
           /\ handler'[h].id = nextId[c] + 1
           /\ handler'[h].got = 0
           /\ nextId'[c] = nextId[c] + 1
           /\ \A d \in Client : d # c => nextId'[d] = nextId[d]
  BY DEF HandlersOK, ClientsOK, Request

\* A step to another place of the same request, or past its end.
LEMMA MoveKeeps ==
    ASSUME Types, LineInv, NEW h \in Handler, NEW pc \in {"done", "wait", "read"}, Goto(h, pc),
           handler[h].pc \in Asking \cup {"spawn", "opened"},
           pc = "wait" => handler[h].pc = "drain",
           pc = "read" => handler[h].pc = "wait" /\ Foremost(h, {"wait", "read"}),
           pc = "done" => handler[h].pc \notin Asking,
           registered' = registered \/ (handler[h].pc = "opened" /\ registered' = handler[h].at),
           UNCHANGED <<process, nextId, skipped, lines>>
    PROVE  LineInv'
<1> USE DEF Asking
<1>1. /\ \A g \in Handler : g # h => handler'[g] = handler[g]
      /\ handler'[h].pc = pc
      /\ handler'[h].at = handler[h].at
      /\ handler'[h].id = handler[h].id
      /\ handler'[h].got = handler[h].got
  BY GotoView DEF Types
<1>2. \A g \in Handler : handler[g].id \in Nat /\ handler[g].got \in Nat
  BY HandlerTypes DEF Types
<1>3. Numbered'
  BY <1>1 DEF LineInv, Numbered
<1>4. Started'
  BY <1>1 DEF LineInv, Started
<1>5. Ordered'
  BY <1>1, <1>2 DEF LineInv, Ordered, Foremost
<1>6. Written'
  BY <1>1 DEF LineInv, Written
<1>7. Matched'
  BY <1>1 DEF LineInv, Matched
<1>8. Behind'
  BY <1>1 DEF LineInv, Behind
<1>9. AnswersKeepStep'
  BY <1>1 DEF LineInv, AnswersKeepStep
<1> QED
  BY <1>3, <1>4, <1>5, <1>6, <1>7, <1>8, <1>9 DEF LineInv

\* A request that ends without an answer.
LEMMA FailKeeps ==
    ASSUME Types, LineInv, NEW h \in Handler, handler[h].pc \in Asking, Fail(h),
           UNCHANGED lines
    PROVE  LineInv'
<1> USE DEF Asking
<1> DEFINE c == handler[h].at
<1>0. c \in Client
  BY HandlerTypes DEF Types, Busy
<1>1. /\ \A g \in Handler : g # h => handler'[g] = handler[g]
      /\ handler'[h].pc = "done"
      /\ handler'[h].at = c
      /\ handler'[h].id = handler[h].id
      /\ handler'[h].got = handler[h].got
  BY GotoView DEF Types, Fail
<1>2. \A g \in Handler : handler[g].id \in Nat /\ handler[g].got \in Nat
  BY HandlerTypes DEF Types
<1>3. /\ skipped'[c] = skipped[c] \cup {handler[h].id}
      /\ \A d \in Client : skipped[d] \subseteq skipped'[d]
  BY <1>0 DEF Fail, Types, ClientsOK
<1>4. UNCHANGED <<registered, process, nextId>>
  BY DEF Fail
<1>5. Numbered'
  BY <1>1, <1>4 DEF LineInv, Numbered
<1>6. Started'
  BY <1>1, <1>4 DEF LineInv, Started
<1>7. Ordered'
  BY <1>1 DEF LineInv, Ordered
<1>8. Written'
  BY <1>1, <1>4 DEF LineInv, Written
<1>9. Matched'
  <2>1. SUFFICES ASSUME NEW d \in Client, NEW k \in lines[d]
                 PROVE  \/ \E g \in Handler : handler'[g].at = d /\ handler'[g].pc \in Asking /\ handler'[g].id = k
                        \/ \E j \in 1 .. k : j \in skipped'[d]
    BY DEF Matched
  <2>2. CASE \E j \in 1 .. k : j \in skipped[d]
    BY <1>3, <2>2
  <2>3. ASSUME NEW g \in Handler, handler[g].at = d, handler[g].pc \in Asking, handler[g].id = k
        PROVE  \/ \E e \in Handler : handler'[e].at = d /\ handler'[e].pc \in Asking /\ handler'[e].id = k
               \/ \E j \in 1 .. k : j \in skipped'[d]
    <3>1. CASE g = h
      <4>1. k \in 1 .. nextId[d]
        BY DEF LineInv, Numbered
      <4>2. k \in 1 .. k /\ k \in skipped'[d]
        BY <1>2, <1>3, <2>3, <3>1, <4>1
      <4> QED
        BY <4>2
    <3>2. CASE g # h
      BY <1>1, <2>3, <3>2
    <3> QED
      BY <3>1, <3>2
  <2> QED
    BY <2>2, <2>3 DEF LineInv, Matched
<1>10. Behind'
  BY <1>1 DEF LineInv, Behind
<1>11. AnswersKeepStep'
  <2>1. handler[h].got = 0
    BY DEF LineInv, Numbered
  <2>2. SUFFICES ASSUME NEW g \in Handler, handler'[g].got # 0
                 PROVE  /\ handler'[g].got <= handler'[g].id
                        /\ (\A k \in 1 .. handler'[g].id - 1 : k \notin skipped'[handler'[g].at])
                               => handler'[g].got = handler'[g].id
                        /\ \A e \in Handler : handler'[e].at = handler'[g].at /\ handler'[e].got # 0
                                                /\ handler'[e].id < handler'[g].id
                                                => handler'[e].got < handler'[g].got
    BY DEF AnswersKeepStep
  <2>3. g # h /\ handler'[g] = handler[g] /\ handler[g].at \in Client
    BY <1>1, <2>1, <2>2 DEF LineInv, Numbered
  <2>4. (\A k \in 1 .. handler[g].id - 1 : k \notin skipped'[handler[g].at])
           => handler[g].got = handler[g].id
    BY <1>3, <2>2, <2>3 DEF LineInv, AnswersKeepStep
  <2> QED
    BY <1>1, <2>1, <2>2, <2>3, <2>4 DEF LineInv, AnswersKeepStep
<1> QED
  BY <1>5, <1>6, <1>7, <1>8, <1>9, <1>10, <1>11 DEF LineInv

\* Of the lines some are read, but none that somebody other than h asks for,
\* and each that is left has somebody other than h to read it.
OthersLines(h) ==
    /\ \A c \in Client : lines'[c] \subseteq lines[c]
    /\ \A g \in Handler \ {h} : handler[g].pc \in Asking =>
          (handler[g].id \in lines[handler[g].at] => handler[g].id \in lines'[handler[g].at])
    /\ \A c \in Client : \A k \in lines'[c] :
          \/ \E g \in Handler \ {h} : handler[g].at = c /\ handler[g].pc \in Asking /\ handler[g].id = k
          \/ \E j \in 1 .. k : j \in skipped[c]

LEMMA NoLineTaken ==
    ASSUME Types, LineInv, NEW h \in Handler, handler[h].pc \notin Asking, UNCHANGED lines
    PROVE  OthersLines(h)
  BY DEF OthersLines, LineInv, Matched

\* A new request, over a process that is up or will be.
LEMMA RequestKeeps ==
    ASSUME Types, LineInv, NEW h \in Handler, NEW c \in Client, NEW kind, NEW left,
           Request(h, c, kind, left),
           process'[c] # "none",
           \A g \in Handler \ {h} : handler[g].pc = "spawn" => handler[g].at # c,
           process[c] = "none" => \A g \in Handler \ {h} : handler[g].at # c,
           \A d \in Client \ {c} : process'[d] = process[d],
           process[c] # "none" => process'[c] = process[c],
           registered' \in {registered, c},
           OthersLines(h), UNCHANGED skipped
    PROVE  LineInv'
<1> USE DEF Asking
<1>1. /\ \A g \in Handler : g # h => handler'[g] = handler[g]
      /\ handler'[h].pc = "write"
      /\ handler'[h].at = c
      /\ handler'[h].id = nextId[c] + 1
      /\ handler'[h].got = 0
      /\ nextId'[c] = nextId[c] + 1
      /\ \A d \in Client : d # c => nextId'[d] = nextId[d]
  BY RequestView DEF Types
<1>2. /\ \A g \in Handler : handler[g].id \in Nat /\ handler[g].got \in Nat
      /\ \A d \in Client : nextId[d] \in Nat
      /\ registered \in Client \cup {NoClient}
  BY HandlerTypes DEF Types, ClientsOK
<1>3. \A g \in Handler : handler[g].pc \in Asking \/ handler[g].got # 0 =>
          handler[g].at \in Client /\ handler[g].id <= nextId[handler[g].at]
  BY <1>2 DEF LineInv, Numbered
<1>4. \A d \in Client : lines'[d] \subseteq lines[d] /\ \A k \in lines[d] : k \in 1 .. nextId[d]
  BY DEF LineInv, Numbered, OthersLines
<1>5. Numbered'
  BY <1>1, <1>2, <1>4 DEF LineInv, Numbered
<1>6. Started'
  <2>1. \A g \in Handler : handler'[g].pc \in Asking \cup {"opened"} => process'[handler'[g].at] # "none"
    <3>1. SUFFICES ASSUME NEW g \in Handler, g # h, handler[g].pc \in Asking \cup {"opened"}
                   PROVE  process'[handler[g].at] # "none"
      BY <1>1
    <3>2. handler[g].at \in Client /\ process[handler[g].at] # "none"
      BY <3>1, HandlerTypes DEF LineInv, Started, Types, Busy
    <3> QED
      BY <3>1, <3>2
  <2>2. ASSUME NEW g \in Handler, handler'[g].pc = "spawn"
        PROVE  /\ process'[handler'[g].at] = "none"
               /\ \A e \in Handler \ {g} : handler'[e].at # handler'[g].at
    <3>1. g # h /\ handler'[g] = handler[g] /\ handler[g].at # c
      BY <1>1, <2>2
    <3>2. handler[g].at \in Client /\ process[handler[g].at] = "none"
      BY <2>2, <3>1, HandlerTypes DEF LineInv, Started, Types, Busy
    <3> QED
      BY <1>1, <2>2, <3>1, <3>2 DEF LineInv, Started
  <2>3. registered' # NoClient => process'[registered'] # "none"
    BY <1>2 DEF LineInv, Started
  <2> QED
    BY <2>1, <2>2, <2>3 DEF Started
<1>7. Ordered'
  BY <1>1, <1>2, <1>3 DEF LineInv, Ordered
<1>8. Written'
  <2>1. SUFFICES ASSUME NEW g \in Handler, handler'[g].pc \in Asking
                 PROVE  /\ \/ handler'[g].id \in lines'[handler'[g].at]
                           \/ \A k \in lines'[handler'[g].at] : k < handler'[g].id
                        /\ handler'[g].pc = "write" => \A k \in lines'[handler'[g].at] : k < handler'[g].id
                        /\ handler'[g].pc # "write" /\ process'[handler'[g].at] = "up"
                              => handler'[g].id \in lines'[handler'[g].at]
    BY DEF Written
  <2>2. CASE g = h
    BY <1>1, <1>2, <1>4, <2>2
  <2>3. CASE g # h
    <3>1. handler'[g] = handler[g] /\ handler[g].at \in Client /\ process[handler[g].at] # "none"
      BY <1>1, <1>3, <2>1, <2>3 DEF LineInv, Started
    <3>2. process'[handler[g].at] = process[handler[g].at]
      BY <3>1
    <3> QED
      BY <1>4, <2>1, <2>3, <3>1, <3>2 DEF LineInv, Written, OthersLines
  <2> QED
    BY <2>2, <2>3
<1>9. Matched'
  BY <1>1 DEF OthersLines, Matched
<1>10. Behind'
  BY <1>1, <1>2, <1>3, <1>4 DEF LineInv, Behind
<1>11. AnswersKeepStep'
  BY <1>1 DEF LineInv, AnswersKeepStep
<1> QED
  BY <1>5, <1>6, <1>7, <1>8, <1>9, <1>10, <1>11 DEF LineInv

-----------------------------------------------------------------------------
\* The steps.

LEMMA WriteKeeps ==
    ASSUME Types, StepInv, NEW h \in Handler, Write(h)
    PROVE  StepInv'
<1> USE DEF Asking
<1> DEFINE c == handler[h].at
           i == handler[h].id
<1>0. handler[h].pc = "write" /\ c \in Client /\ i \in Nat /\ LineInv
  BY HandlerTypes DEF Types, Busy, Write, StepInv, LineInv
<1>1. /\ \A g \in Handler : g # h => handler'[g] = handler[g]
      /\ handler'[h].pc = "drain"
      /\ handler'[h].at = handler[h].at
      /\ handler'[h].id = handler[h].id
      /\ handler'[h].got = handler[h].got
  BY GotoView DEF Types, Write
<1>2. \A g \in Handler : handler[g].id \in Nat /\ handler[g].got \in Nat
  BY HandlerTypes DEF Types
<1>3. \A k \in lines[c] : k < i
  BY <1>0 DEF LineInv, Written
<1>4. /\ lines' = IF process[c] = "up" THEN [lines EXCEPT ![c] = @ \cup {i}] ELSE lines
      /\ Sorted'
  <2>1. CASE process[c] = "up"
    BY <1>0, <1>3, <2>1, LinesAdd DEF Write, StepInv, Types
  <2>2. CASE process[c] # "up"
    BY <2>2, LinesKept DEF Write, StepInv
  <2> QED
    BY <2>1, <2>2
<1>5. UNCHANGED <<registered, process, nextId, skipped>>
  BY DEF Write
<1>6. /\ \A d \in Client : lines[d] \subseteq lines'[d]
      /\ \A d \in Client \ {c} : lines'[d] = lines[d]
      /\ \A k \in lines'[c] : k \in lines[c] \/ k = i
      /\ process[c] = "up" => i \in lines'[c]
      /\ process[c] # "up" => lines' = lines
  <2>1. lines = [d \in Client |-> lines[d]]
    BY DEF lines
  <2> QED
    BY <1>0, <1>4, <2>1
<1>7. \A g \in Handler \ {h} : handler[g].at = c /\ handler[g].pc \in Asking =>
          IF handler[g].pc \in {"write", "drain"} THEN i < handler[g].id ELSE handler[g].id < i
  BY <1>0, <1>2 DEF Write, Foremost, LineInv, Ordered
<1>8. Numbered'
  BY <1>0, <1>1, <1>5, <1>6 DEF LineInv, Numbered
<1>9. Started'
  BY <1>0, <1>1, <1>5 DEF LineInv, Started
<1>10. Ordered'
  BY <1>0, <1>1, <1>2, <1>7 DEF LineInv, Ordered
<1>11. Written'
  <2>1. SUFFICES ASSUME NEW g \in Handler, handler'[g].pc \in Asking
                 PROVE  /\ \/ handler'[g].id \in lines'[handler'[g].at]
                           \/ \A k \in lines'[handler'[g].at] : k < handler'[g].id
                        /\ handler'[g].pc = "write" => \A k \in lines'[handler'[g].at] : k < handler'[g].id
                        /\ handler'[g].pc # "write" /\ process'[handler'[g].at] = "up"
                              => handler'[g].id \in lines'[handler'[g].at]
    BY DEF Written
  <2>2. CASE g = h
    BY <1>1, <1>3, <1>5, <1>6, <2>2
  <2>3. CASE g # h /\ handler[g].at # c
    BY <1>0, <1>1, <1>5, <1>6, <2>1, <2>3, HandlerTypes DEF LineInv, Written, Types, Busy
  <2>4. CASE g # h /\ handler[g].at = c
    <3>1. handler'[g] = handler[g] /\ handler[g].pc \in Asking /\ process' = process
      BY <1>1, <1>5, <2>1, <2>4
    <3>2. CASE process[c] # "up"
      BY <1>0, <1>6, <2>4, <3>1, <3>2 DEF LineInv, Written
    <3>3. CASE handler[g].pc \in {"write", "drain"}
      BY <1>0, <1>2, <1>6, <1>7, <2>4, <3>1, <3>3 DEF LineInv, Written
    <3>4. CASE process[c] = "up" /\ handler[g].pc \notin {"write", "drain"}
      BY <1>0, <1>6, <2>4, <3>1, <3>4 DEF LineInv, Written
    <3> QED
      BY <3>2, <3>3, <3>4
  <2> QED
    BY <2>2, <2>3, <2>4
<1>12. Matched'
  <2>1. SUFFICES ASSUME NEW d \in Client, NEW k \in lines'[d]
                 PROVE  \/ \E g \in Handler : handler'[g].at = d /\ handler'[g].pc \in Asking /\ handler'[g].id = k
                        \/ \E j \in 1 .. k : j \in skipped[d]
    BY <1>5 DEF Matched
  <2>2. CASE d = c /\ k = i
    BY <1>1, <2>2
  <2>3. CASE k \in lines[d]
    BY <1>0, <1>1, <2>3 DEF LineInv, Matched
  <2> QED
    BY <1>6, <2>2, <2>3
<1>13. Behind'
  <2>1. SUFFICES ASSUME NEW g \in Handler, handler'[g].got # 0
                 PROVE  /\ \A k \in lines'[handler'[g].at] : handler'[g].got < k
                        /\ \A e \in Handler : handler'[e].at = handler'[g].at /\ handler'[e].pc \in Asking
                                                => handler'[g].id < handler'[e].id
    BY DEF Behind
  <2>2. g # h /\ handler'[g] = handler[g] /\ handler[g].at \in Client
    BY <1>0, <1>1, <2>1 DEF LineInv, Numbered
  <2>3. handler[g].at = c => handler[g].got < i
    BY <1>0, <1>2, <2>1, <2>2 DEF LineInv, Behind, AnswersKeepStep
  <2>4. \A k \in lines[handler[g].at] : handler[g].got < k
    BY <1>0, <2>1, <2>2 DEF LineInv, Behind
  <2>5. \A e \in Handler : handler[e].at = handler[g].at /\ handler[e].pc \in Asking
                              => handler[g].id < handler[e].id
    BY <1>0, <2>1, <2>2 DEF LineInv, Behind
  <2> QED
    BY <1>0, <1>1, <1>6, <2>2, <2>3, <2>4, <2>5
<1>14. AnswersKeepStep'
  BY <1>0, <1>1, <1>5 DEF LineInv, AnswersKeepStep
<1> QED
  BY <1>4, <1>8, <1>9, <1>10, <1>11, <1>12, <1>13, <1>14 DEF StepInv

\* What a reader knows: the line it takes is the earliest, its own or an
\* earlier one, and everybody else who asks is behind it.
LEMMA ReadTakes ==
    ASSUME Types, StepInv, NEW h \in Handler, Read(h), NEW c, c = handler[h].at, NEW k, k = Head(pipe[c])
    PROVE  /\ c \in Client /\ k \in Nat \ {0} /\ Sorted' /\ OthersLines(h)
           /\ \A j \in lines'[c] : k < j
           /\ \A g \in Handler : handler[g].at = c /\ handler[g].got # 0 =>
                 handler[g].got < k /\ handler[g].id < handler[h].id
           /\ \A g \in Handler \ {h} : handler[g].at = c /\ handler[g].pc \in Asking => handler[h].id < handler[g].id
           /\ k <= handler[h].id
           /\ k < handler[h].id => \E j \in 1 .. k : j \in skipped[c]
<1> USE DEF Asking
<1>0. handler[h].pc = "read" /\ c \in Client /\ LineInv /\ pipe[c] # <<>>
  BY HandlerTypes DEF Types, Busy, Read, StepInv, LineInv
<1>1. /\ lines' = [lines EXCEPT ![c] = @ \ {k}]
      /\ k \in lines[c]
      /\ \A j \in lines[c] : k <= j
      /\ Sorted'
  BY <1>0, LinesRead DEF Read, StepInv, Types
<1>2. /\ \A g \in Handler : handler[g].id \in Nat /\ handler[g].got \in Nat
      /\ \A d \in Client : lines[d] \subseteq Nat
      /\ k \in Nat \ {0}
  BY <1>0, <1>1, HandlerTypes, LinesType DEF Types, LineInv, Numbered, ClientsOK
<1>3. /\ lines'[c] = lines[c] \ {k}
      /\ \A d \in Client \ {c} : lines'[d] = lines[d]
  BY <1>0, <1>1 DEF lines
<1>4. \A g \in Handler \ {h} : handler[g].at = c /\ handler[g].pc \in Asking => handler[h].id < handler[g].id
  BY <1>0, <1>2 DEF LineInv, Ordered
<1>5. k <= handler[h].id
  <2>1. handler[h].id \in lines[c] \/ \A j \in lines[c] : j < handler[h].id
    BY <1>0 DEF LineInv, Written
  <2> QED
    BY <1>1, <1>2, <2>1
<1>6. k < handler[h].id => \E j \in 1 .. k : j \in skipped[c]
  <2>1. \/ \E g \in Handler : handler[g].at = c /\ handler[g].pc \in Asking /\ handler[g].id = k
        \/ \E j \in 1 .. k : j \in skipped[c]
    BY <1>0, <1>1 DEF LineInv, Matched
  <2>2. \A g \in Handler : handler[g].at = c /\ handler[g].pc \in Asking => handler[h].id <= handler[g].id
    BY <1>2, <1>4
  <2> QED
    BY <1>2, <2>1, <2>2
<1>7. \A j \in lines'[c] : k < j
  BY <1>0, <1>1, <1>2, <1>3
<1>8. \A g \in Handler : handler[g].at = c /\ handler[g].got # 0 =>
          handler[g].got < k /\ handler[g].id < handler[h].id
  BY <1>0, <1>1 DEF LineInv, Behind
<1>9. OthersLines(h)
  <2>1. \A d \in Client : lines'[d] \subseteq lines[d]
    BY <1>3
  <2>2. ASSUME NEW g \in Handler \ {h}, handler[g].pc \in Asking, handler[g].id \in lines[handler[g].at]
        PROVE  handler[g].id \in lines'[handler[g].at]
    <3>1. handler[g].at \in Client
      BY <2>2, HandlerTypes DEF Types, Busy
    <3>2. handler[g].at = c => handler[g].id # k
      BY <1>2, <1>4, <1>5, <2>2
    <3> QED
      BY <1>3, <2>2, <3>1, <3>2
  <2>3. ASSUME NEW d \in Client, NEW j \in lines'[d]
        PROVE  \/ \E g \in Handler \ {h} : handler[g].at = d /\ handler[g].pc \in Asking /\ handler[g].id = j
               \/ \E s \in 1 .. j : s \in skipped[d]
    <3>1. j \in lines[d] /\ j \in Nat
      BY <1>2, <1>3, <2>3
    <3>2. CASE d = c /\ j = handler[h].id
      <4>1. k < j
        BY <1>7, <2>3, <3>2
      <4>2. PICK s \in 1 .. k : s \in skipped[c]
        BY <1>6, <3>2, <4>1
      <4>3. s \in 1 .. j
        BY <1>2, <3>1, <4>1
      <4> QED
        BY <3>2, <4>2, <4>3
    <3>3. CASE ~ (d = c /\ j = handler[h].id)
      BY <1>0, <3>1, <3>3 DEF LineInv, Matched
    <3> QED
      BY <3>2, <3>3
  <2> QED
    BY <2>1, <2>2, <2>3 DEF OthersLines
<1> QED
  BY <1>0, <1>1, <1>2, <1>4, <1>5, <1>6, <1>7, <1>8, <1>9

LEMMA ReadKeeps ==
    ASSUME Types, StepInv, NEW h \in Handler, Read(h)
    PROVE  StepInv'
<1> USE DEF Asking
<1> DEFINE c == handler[h].at
           k == Head(pipe[c])
<1>0. /\ handler[h].pc = "read" /\ LineInv
      /\ UNCHANGED <<registered, process, skipped>>
  BY DEF Read, StepInv, LineInv
<1>1. /\ c \in Client /\ k \in Nat \ {0} /\ Sorted' /\ OthersLines(h)
      /\ \A j \in lines'[c] : k < j
      /\ \A g \in Handler : handler[g].at = c /\ handler[g].got # 0 =>
            handler[g].got < k /\ handler[g].id < handler[h].id
      /\ \A g \in Handler \ {h} : handler[g].at = c /\ handler[g].pc \in Asking => handler[h].id < handler[g].id
      /\ k <= handler[h].id
      /\ k < handler[h].id => \E j \in 1 .. k : j \in skipped[c]
  BY ReadTakes
<1> HIDE DEF k
<1>2. CASE Request(h, c, "list", handler[h].left - 1)
  <2>1. process[c] # "none" /\ \A g \in Handler \ {h} : handler[g].pc = "spawn" => handler[g].at # c
    BY <1>0, <1>1 DEF LineInv, Started
  <2>2. LineInv'
    BY <1>0, <1>1, <1>2, <2>1, RequestKeeps
  <2> QED
    BY <1>1, <2>2 DEF LineInv, StepInv
<1>3. ASSUME NEW pc \in {"done", "opened"}, UNCHANGED nextId,
             handler' = [handler EXCEPT ![h].pc = pc, ![h].got = k]
      PROVE  StepInv'
  <2>1. /\ \A g \in Handler : g # h => handler'[g] = handler[g]
        /\ handler'[h].pc = pc
        /\ handler'[h].at = handler[h].at
        /\ handler'[h].id = handler[h].id
        /\ handler'[h].got = k
    BY <1>3 DEF Types, HandlersOK, HandlerRecord
  <2>2. \A g \in Handler : handler[g].id \in Nat /\ handler[g].got \in Nat
    BY HandlerTypes DEF Types
  <2>3. \A d \in Client : lines'[d] \subseteq lines[d]
    BY <1>1 DEF OthersLines
  <2>4. Numbered'
    BY <1>0, <1>1, <1>3, <2>1, <2>3 DEF LineInv, Numbered
  <2>5. Started'
    BY <1>0, <2>1 DEF LineInv, Started
  <2>6. Ordered'
    BY <1>0, <2>1 DEF LineInv, Ordered
  <2>7. Written'
    <3>1. SUFFICES ASSUME NEW g \in Handler \ {h}, handler[g].pc \in Asking
                   PROVE  /\ \/ handler[g].id \in lines'[handler[g].at]
                             \/ \A j \in lines'[handler[g].at] : j < handler[g].id
                          /\ handler[g].pc = "write" => \A j \in lines'[handler[g].at] : j < handler[g].id
                          /\ handler[g].pc # "write" /\ process[handler[g].at] = "up"
                                => handler[g].id \in lines'[handler[g].at]
      BY <1>0, <2>1 DEF Written
    <3>2. handler[g].at \in Client
      BY <3>1, HandlerTypes DEF Types, Busy
    <3> QED
      BY <1>0, <1>1, <2>3, <3>1, <3>2 DEF LineInv, Written, OthersLines
  <2>8. Matched'
    BY <1>0, <1>1, <2>1 DEF Matched, OthersLines
  <2>9. Behind'
    <3>1. SUFFICES ASSUME NEW g \in Handler, handler'[g].got # 0
                   PROVE  /\ \A j \in lines'[handler'[g].at] : handler'[g].got < j
                          /\ \A e \in Handler : handler'[e].at = handler'[g].at /\ handler'[e].pc \in Asking
                                                  => handler'[g].id < handler'[e].id
      BY DEF Behind
    <3>2. \A e \in Handler : handler'[e].pc \in Asking => e # h /\ handler'[e] = handler[e]
      BY <2>1
    <3>3. CASE g = h
      BY <1>1, <2>1, <3>2, <3>3
    <3>4. CASE g # h
      <4>1. handler'[g] = handler[g] /\ handler[g].at \in Client
        BY <1>0, <2>1, <3>1, <3>4 DEF LineInv, Numbered
      <4> QED
        BY <1>0, <2>3, <3>1, <3>2, <4>1 DEF LineInv, Behind
    <3> QED
      BY <3>3, <3>4
  <2>10. AnswersKeepStep'
    <3>1. SUFFICES ASSUME NEW g \in Handler, handler'[g].got # 0
                   PROVE  /\ handler'[g].got <= handler'[g].id
                          /\ (\A j \in 1 .. handler'[g].id - 1 : j \notin skipped[handler'[g].at])
                                 => handler'[g].got = handler'[g].id
                          /\ \A e \in Handler : handler'[e].at = handler'[g].at /\ handler'[e].got # 0
                                                  /\ handler'[e].id < handler'[g].id
                                                  => handler'[e].got < handler'[g].got
      BY <1>0 DEF AnswersKeepStep
    <3>2. CASE g = h
      <4>1. (\A j \in 1 .. handler[h].id - 1 : j \notin skipped[c]) => k = handler[h].id
        <5>1. SUFFICES ASSUME k < handler[h].id PROVE \E j \in 1 .. handler[h].id - 1 : j \in skipped[c]
          BY <1>1, <2>2
        <5>2. PICK j \in 1 .. k : j \in skipped[c]
          BY <1>1, <5>1
        <5>3. j \in 1 .. handler[h].id - 1
          BY <1>1, <2>2, <5>1
        <5> QED
          BY <5>2, <5>3
      <4>2. \A e \in Handler : handler'[e].at = c /\ handler'[e].got # 0 /\ handler'[e].id < handler[h].id
                                 => handler'[e].got < k
        BY <1>1, <2>1, <2>2
      <4> QED
        BY <1>1, <2>1, <3>2, <4>1, <4>2
    <3>3. CASE g # h
      <4>1. handler'[g] = handler[g] /\ handler[g].got # 0
        BY <2>1, <3>1, <3>3
      <4>2. handler[g].at = c => ~ (handler[h].id < handler[g].id)
        BY <1>1, <2>2, <4>1
      <4> QED
        BY <1>0, <2>1, <4>1, <4>2 DEF LineInv, AnswersKeepStep
    <3> QED
      BY <3>2, <3>3
  <2> QED
    BY <1>1, <2>4, <2>5, <2>6, <2>7, <2>8, <2>9, <2>10 DEF StepInv
<1> QED
  BY <1>2, <1>3 DEF Read, k

\* Steps of the manager and of the server that leave the requests alone.
LEMMA ProcessKeeps ==
    ASSUME Types, LineInv, UNCHANGED <<handler, nextId, skipped, lines>>, registered' = registered,
           NEW c \in Client, process[c] # "none", NEW state \in {"dead", "stuck"},
           process' = [process EXCEPT ![c] = state]
    PROVE  LineInv'
<1>1. process'[c] = state /\ \A d \in Client \ {c} : process'[d] = process[d]
  BY DEF Types, ClientsOK
<1>2. registered \in Client \cup {NoClient}
  BY DEF Types, ClientsOK
<1>3. Started'
  BY <1>1, <1>2, HandlerTypes DEF LineInv, Started, Types, Busy, Asking
<1>4. Written'
  BY <1>1, HandlerTypes DEF LineInv, Written, Types, Busy, Asking
<1> QED
  BY <1>3, <1>4 DEF LineInv, Numbered, Ordered, Matched, Behind, AnswersKeepStep

LEMMA EndedKeeps ==
    ASSUME Types, LineInv, NEW h \in Handler, Ended(h), UNCHANGED lines
    PROVE  LineInv'
<1> USE DEF Asking
<1> DEFINE c == handler[h].at
<1>0. handler[h].pc = "ending" /\ c \in Client
  BY HandlerTypes DEF Types, Busy, Ended
<1>1. /\ \A g \in Handler : g # h => handler'[g] = handler[g]
      /\ handler'[h].pc = "done"
      /\ handler'[h].at = handler[h].at
      /\ handler'[h].id = handler[h].id
      /\ handler'[h].got = handler[h].got
  BY GotoView DEF Types, Ended
<1>2. /\ process'[c] = "gone" /\ \A d \in Client \ {c} : process'[d] = process[d]
      /\ registered' = NoClient
      /\ UNCHANGED <<nextId, skipped>>
  BY <1>0 DEF Types, ClientsOK, Ended
<1>3. Numbered'
  BY <1>0, <1>1, <1>2 DEF LineInv, Numbered
<1>4. Started'
  BY <1>0, <1>1, <1>2, HandlerTypes DEF LineInv, Started, Types, Busy
<1>5. Ordered'
  BY <1>0, <1>1 DEF LineInv, Ordered
<1>6. Written'
  BY <1>0, <1>1, <1>2, HandlerTypes DEF LineInv, Written, Types, Busy
<1>7. Matched'
  BY <1>0, <1>1, <1>2 DEF LineInv, Matched
<1>8. Behind'
  BY <1>0, <1>1 DEF LineInv, Behind
<1>9. AnswersKeepStep'
  BY <1>0, <1>1, <1>2 DEF LineInv, AnswersKeepStep
<1> QED
  BY <1>3, <1>4, <1>5, <1>6, <1>7, <1>8, <1>9 DEF LineInv

\* A handler that takes up a client, to connect or to disconnect it.
TakeUp(h, c, pc) == handler' = [handler EXCEPT ![h].pc = pc, ![h].at = c]

LEMMA TakeUpKeeps ==
    ASSUME Types, LineInv, NEW h \in Handler, handler[h].pc = "idle", NEW c \in Client,
           NEW pc \in {"spawn", "ending"},
           TakeUp(h, c, pc),
           pc = "spawn" => process[c] = "none" /\ \A g \in Handler : handler[g].at # c,
           pc = "ending" => process[c] # "none",
           UNCHANGED <<registered, process, nextId, skipped, lines>>
    PROVE  LineInv'
<1> USE DEF Asking
<1>1. /\ \A g \in Handler : g # h => handler'[g] = handler[g]
      /\ handler'[h].pc = pc
      /\ handler'[h].at = c
      /\ handler'[h].id = handler[h].id
      /\ handler'[h].got = handler[h].got
  BY DEF Types, HandlersOK, HandlerRecord, TakeUp
<1>2. handler[h].got = 0 /\ handler'[h].got = 0
  BY <1>1 DEF LineInv, Numbered
<1>a. \A g \in Handler : handler'[g].pc \in Asking \cup {"opened"} => g # h /\ handler'[g] = handler[g]
  BY <1>1
<1>b. \A g \in Handler : handler'[g].got # 0 => g # h /\ handler'[g] = handler[g]
  BY <1>1, <1>2
<1>3. Numbered'
  <2>1. \A g \in Handler :
          handler'[g].pc \in {"idle", "spawn", "ending"} \cup Asking => handler'[g].got = 0
    BY <1>1, <1>2 DEF LineInv, Numbered
  <2> QED
    BY <1>a, <1>b, <2>1 DEF LineInv, Numbered
<1>4. Started'
  <2>1. ASSUME NEW g \in Handler, handler'[g].pc = "spawn"
        PROVE  /\ process[handler'[g].at] = "none"
               /\ \A e \in Handler \ {g} : handler'[e].at # handler'[g].at
    BY <1>1, <2>1 DEF LineInv, Started
  <2> QED
    BY <1>a, <2>1 DEF LineInv, Started
<1>5. Ordered'
  BY <1>a DEF LineInv, Ordered
<1>6. Written'
  BY <1>a DEF LineInv, Written
<1>7. Matched'
  BY <1>1 DEF LineInv, Matched
<1>8. Behind'
  BY <1>1, <1>2 DEF LineInv, Behind
<1>9. AnswersKeepStep'
  BY <1>1, <1>2 DEF LineInv, AnswersKeepStep
<1> QED
  BY <1>3, <1>4, <1>5, <1>6, <1>7, <1>8, <1>9 DEF LineInv

LEMMA HandlerKeeps ==
    ASSUME Types, StepInv, NEW h \in Handler, Step(h)
    PROVE  StepInv'
<1> USE DEF Asking
<1> DEFINE c == handler[h].at
<1>0. LineInv /\ Sorted /\ (handler[h].pc \in Busy => c \in Client)
  BY HandlerTypes DEF StepInv, LineInv, Types
<1>1. ASSUME LineInv', Sorted' PROVE StepInv'
  BY <1>1 DEF LineInv, StepInv
<1>2. ASSUME UNCHANGED <<asked, pipe>> PROVE lines' = lines /\ Sorted'
  BY <1>0, <1>2, LinesKept
<1>3. CASE Write(h) \/ Read(h)
  BY <1>3, WriteKeeps, ReadKeeps
<1>4. CASE Drained(h) \/ Lock(h) \/ ConnectFails(h)
  <2>1. UNCHANGED <<registered, process, nextId, skipped, asked, pipe>>
    BY <1>4 DEF Drained, Lock, ConnectFails
  <2>2. UNCHANGED <<registered, process, nextId, skipped, lines>> /\ Sorted'
    BY <1>2, <2>1
  <2>3. CASE Drained(h)
    BY <1>0, <1>1, <2>2, <2>3, MoveKeeps DEF Drained
  <2>4. CASE Lock(h)
    BY <1>0, <1>1, <2>2, <2>4, MoveKeeps DEF Lock
  <2>5. CASE ConnectFails(h)
    BY <1>0, <1>1, <2>2, <2>5, MoveKeeps DEF ConnectFails
  <2> QED
    BY <1>4, <2>3, <2>4, <2>5
<1>5. CASE TimeOut(h) \/ Broken(h)
  <2>1. handler[h].pc \in Asking /\ Fail(h) /\ UNCHANGED <<asked, pipe>>
    BY <1>5 DEF TimeOut, Broken, Fail
  <2> QED
    BY <1>0, <1>1, <1>2, <2>1, FailKeeps
<1>6. CASE Spawned(h)
  <2>1. /\ handler[h].pc = "spawn" /\ c \in Client /\ Request(h, c, "init", 0)
        /\ process' = [process EXCEPT ![c] = "up"]
        /\ UNCHANGED <<registered, skipped, asked, pipe>>
    BY <1>0, <1>6 DEF Spawned, Busy
  <2>2. process'[c] = "up" /\ \A d \in Client \ {c} : process'[d] = process[d]
    BY <2>1 DEF Types, ClientsOK
  <2>3. process[c] = "none" /\ \A g \in Handler \ {h} : handler[g].at # c
    BY <1>0, <2>1 DEF LineInv, Started
  <2>4. OthersLines(h)
    BY <1>0, <1>2, <2>1, NoLineTaken
  <2>5. LineInv'
    BY <1>0, <2>1, <2>2, <2>3, <2>4, RequestKeeps
  <2> QED
    BY <1>1, <1>2, <2>1, <2>5
<1>7. CASE Open(h)
  <2>1. /\ handler[h].pc = "opened" /\ c \in Client /\ registered' = c
        /\ UNCHANGED <<process, asked, pipe, skipped>>
    BY <1>0, <1>7 DEF Open, Busy
  <2>2. CASE Goto(h, "done") /\ UNCHANGED nextId
    <3>1. LineInv'
      BY <1>0, <1>2, <2>1, <2>2, MoveKeeps
    <3> QED
      BY <1>1, <1>2, <2>1, <3>1
  <2>3. ASSUME NEW left, Request(h, c, "list", left) PROVE StepInv'
    <3>1. process[c] # "none" /\ \A g \in Handler \ {h} : handler[g].pc = "spawn" => handler[g].at # c
      BY <1>0, <2>1 DEF LineInv, Started
    <3>2. OthersLines(h)
      BY <1>0, <1>2, <2>1, NoLineTaken
    <3>3. LineInv'
      BY <1>0, <2>1, <2>3, <3>1, <3>2, RequestKeeps
    <3> QED
      BY <1>1, <1>2, <2>1, <3>3
  <2> QED
    BY <1>7, <2>2, <2>3 DEF Open
<1>8. CASE Ended(h)
  <2>1. UNCHANGED <<asked, pipe>>
    BY <1>8 DEF Ended
  <2> QED
    BY <1>0, <1>1, <1>2, <1>8, <2>1, EndedKeeps
<1> QED
  BY <1>3, <1>4, <1>5, <1>6, <1>7, <1>8 DEF Step

LEMMA StepInvKept ==
    ASSUME Types, StepInv, [Next]_vars, InOrder
    PROVE  StepInv'
<1> USE DEF Asking
<1>0. LineInv /\ Sorted /\ registered \in Client \cup {NoClient} /\ NoClient \notin Client
  BY ClientAssumption DEF StepInv, LineInv, Types, ClientsOK
<1>1. ASSUME LineInv', Sorted' PROVE StepInv'
  BY <1>1 DEF LineInv, StepInv
<1>2. ASSUME UNCHANGED <<asked, pipe>> PROVE lines' = lines /\ Sorted'
  BY <1>0, <1>2, LinesKept
<1>3. ASSUME NEW h \in Handler, Connect(h) PROVE StepInv'
  <2>1. PICK c \in Client : /\ process[c] = "none"
                            /\ \A g \in Handler : handler[g].at # c
                            /\ TakeUp(h, c, "spawn")
    BY <1>3 DEF Connect, TakeUp
  <2>2. handler[h].pc = "idle" /\ UNCHANGED <<registered, process, nextId, skipped, asked, pipe>>
    BY <1>3 DEF Connect
  <2> QED
    BY <1>0, <1>1, <1>2, <2>1, <2>2, TakeUpKeeps
<1>4. ASSUME NEW h \in Handler, Call(h) PROVE StepInv'
  <2>1. /\ handler[h].pc = "idle" /\ registered \in Client /\ Request(h, registered, "call", 0)
        /\ UNCHANGED <<registered, process, skipped, asked, pipe>>
    BY <1>0, <1>4 DEF Call, IsConnected
  <2>2. /\ process[registered] # "none"
        /\ \A g \in Handler \ {h} : handler[g].pc = "spawn" => handler[g].at # registered
    BY <1>0, <2>1 DEF LineInv, Started
  <2>3. OthersLines(h)
    BY <1>0, <1>2, <2>1, NoLineTaken
  <2>4. LineInv'
    BY <1>0, <2>1, <2>2, <2>3, RequestKeeps
  <2> QED
    BY <1>1, <1>2, <2>1, <2>4
<1>5. ASSUME NEW h \in Handler, Disconnect(h) PROVE StepInv'
  <2>1. /\ handler[h].pc = "idle" /\ registered \in Client /\ TakeUp(h, registered, "ending")
        /\ UNCHANGED <<registered, process, nextId, skipped, asked, pipe>>
    BY <1>0, <1>5 DEF Disconnect, TakeUp
  <2>2. process[registered] # "none"
    BY <1>0, <2>1 DEF LineInv, Started
  <2> QED
    BY <1>0, <1>1, <1>2, <2>1, <2>2, TakeUpKeeps
<1>6. ASSUME NEW c \in Client, Answer(c) PROVE StepInv'
  <2>1. lines' = lines /\ Sorted'
    BY <1>0, <1>6, LinesAnswer DEF Answer, Types
  <2>2. UNCHANGED <<handler, registered, process, connected, nextId, skipped>>
    BY <1>6 DEF Answer
  <2>3. LineInv'
    BY <1>0, <2>1, <2>2 DEF LineInv, Numbered, Started, Ordered, Written, Matched, Behind, AnswersKeepStep
  <2> QED
    BY <1>1, <2>1, <2>3
<1>7. ASSUME NEW c \in Client, Die(c) \/ Stick(c) PROVE StepInv'
  <2>1. PICK state \in {"dead", "stuck"} : process[c] # "none" /\ Turn(c, state)
    BY <1>7 DEF Die, Stick
  <2>2. UNCHANGED <<asked, pipe>>
    BY <2>1 DEF Turn
  <2> QED
    BY <1>0, <1>1, <1>2, <2>1, <2>2, ProcessKeeps DEF Turn
<1>8. CASE UNCHANGED vars
  <2>1. LineInv'
    BY <1>0, <1>2, <1>8 DEF vars, LineInv, Numbered, Started, Ordered, Written, Matched, Behind, AnswersKeepStep
  <2> QED
    BY <1>1, <1>2, <1>8, <2>1 DEF vars
<1> QED
  BY <1>3, <1>4, <1>5, <1>6, <1>7, <1>8, HandlerKeeps DEF Next

LEMMA StepInvInit == Init => StepInv
<1> SUFFICES ASSUME Init PROVE StepInv
  OBVIOUS
<1>1. \A c \in Client : lines[c] = {} /\ pipe[c] = <<>> /\ asked[c] = {}
  BY DEF Init, lines
<1>2. \A h \in Handler : handler[h].pc = "idle" /\ handler[h].got = 0
  BY DEF Init
<1>3. Sorted
  BY <1>1 DEF Sorted
<1> QED
  BY <1>1, <1>2, <1>3 DEF Init, StepInv, Numbered, Started, Ordered, Written, Matched, Behind, AnswersKeepStep, Asking

\* While the server answers in the order of the requests, the answers keep
\* in step with the requests, for any number of handlers and clients.
THEOREM AnswersInStep == ASSUME InOrder PROVE Spec => []AnswersKeepStep
<1>1. Init => Types /\ StepInv
  BY TypeInit, TypeParts, StepInvInit
<1>2. Types /\ StepInv /\ [Next]_vars => (Types /\ StepInv)'
  BY TypeStep, StepInvKept
<1>3. StepInv => AnswersKeepStep
  BY DEF StepInv
<1> QED
  BY <1>1, <1>2, <1>3, PTL DEF Spec
=============================================================================
