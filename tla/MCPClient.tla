------------------------------ MODULE MCPClient ------------------------------
(***************************************************************************)
(* The connection to an external tool server over stdio: MCPClient         *)
(* (mcp/client.py), and how MCPClientManager (mcp/manager.py) makes and    *)
(* drops the clients of one configured server.                             *)
(*                                                                         *)
(* Requests carry an id, but nobody compares the id of an answer: a line   *)
(* goes to whoever holds the read lock.  Both locks are asyncio.Lock, which *)
(* wakes its waiters in the order they came; that is the order of the ids, *)
(* and how the turns at a lock are written here (Foremost).                *)
(*                                                                         *)
(* Left out: the HTTP transport (each request has its own response), the   *)
(* configuration file, what a request and an answer say.                   *)
(***************************************************************************)
EXTENDS Integers, Sequences

CONSTANTS
    Handler,  \* the HTTP handlers that connect, disconnect or call a tool
    Client,   \* the MCPClient objects, one for each attempt to connect
    NoClient,
    MaxLists, \* how many of tools, prompts and resources a server may list
    InOrder   \* whether the server answers in the order of the requests

ASSUME ClientAssumption ==
    /\ NoClient \notin Client
    /\ MaxLists \in 0 .. 3
    /\ InOrder \in BOOLEAN

VARIABLES
    handler,
    registered, \* ManagedClient.client
    process,    \* of each client: _process
    connected,  \* _connected
    nextId,     \* _request_id
    asked,      \* the requests its server has read and not answered
    pipe,       \* the requests whose answers nobody has read yet, in their order
    skipped     \* history: the requests that ended without reading an answer

vars == <<handler, registered, process, connected, nextId, asked, pipe, skipped>>

\* The places of a request: waiting for the write lock, writing, waiting for
\* the read lock, reading.
Asking == {"write", "drain", "wait", "read"}

\* got: the request whose answer was read, 0 for none; left: lists to follow.
HandlerRecord == [pc : {"idle", "spawn", "opened", "ending", "done"} \cup Asking,
                  kind : {"none", "init", "list", "call"}, at : Client \cup {NoClient},
                  id : Nat, left : 0 .. MaxLists, got : Nat]

TypeOK ==
    /\ handler \in [Handler -> HandlerRecord]
    /\ \A h \in Handler : handler[h].pc \notin {"idle", "done"} => handler[h].at \in Client
    /\ registered \in Client \cup {NoClient}
    /\ process \in [Client -> {"none", "up", "stuck", "dead", "gone"}]
    /\ connected \in [Client -> BOOLEAN]
    /\ nextId \in [Client -> Nat]
    /\ asked \in [Client -> SUBSET Nat]
    /\ pipe \in [Client -> Seq(Nat)]
    /\ skipped \in [Client -> SUBSET Nat]

Init ==
    /\ handler = [h \in Handler |-> [pc |-> "idle", kind |-> "none", at |-> NoClient,
                                     id |-> 0, left |-> 0, got |-> 0]]
    /\ registered = NoClient
    /\ process = [c \in Client |-> "none"]
    /\ connected = [c \in Client |-> FALSE]
    /\ nextId = [c \in Client |-> 0]
    /\ asked = [c \in Client |-> {}]
    /\ pipe = [c \in Client |-> <<>>]
    /\ skipped = [c \in Client |-> {}]

IsConnected == registered # NoClient /\ connected[registered]

Goto(h, pc) == handler' = [handler EXCEPT ![h].pc = pc]

-----------------------------------------------------------------------------
\* A request: _send_request, _write_stdio, _read_stdio.

\* The next request of h, over the client c.
Request(h, c, kind, left) ==
    /\ nextId' = [nextId EXCEPT ![c] = @ + 1]
    /\ handler' = [handler EXCEPT ![h] = [pc |-> "write", kind |-> kind, at |-> c,
                                         id |-> nextId[c] + 1, left |-> left, got |-> 0]]

\* No handler has been in one of these places of the same client for longer.
Foremost(h, places) ==
    \A g \in Handler \ {h} :
        handler[g].at = handler[h].at /\ handler[g].pc \in places => handler[h].id < handler[g].id

\* An exception: the handler answers with an error.
Fail(h) ==
    /\ Goto(h, "done")
    /\ skipped' = [skipped EXCEPT ![handler[h].at] = @ \cup {handler[h].id}]
    /\ UNCHANGED <<registered, process, connected, nextId, asked, pipe>>

Write(h) ==
    LET c == handler[h].at
    IN  /\ handler[h].pc = "write"
        /\ Foremost(h, {"write", "drain"})
        /\ process[c] # "gone"
        /\ Goto(h, "drain")
        /\ asked' = IF process[c] = "up" THEN [asked EXCEPT ![c] = @ \cup {handler[h].id}]
                                        ELSE asked
        /\ UNCHANGED <<registered, process, connected, nextId, pipe, skipped>>

\* drain() returns when the server has room for the line; the write lock is
\* given up and the read lock asked for in the same step.
Drained(h) ==
    /\ handler[h].pc = "drain"
    /\ process[handler[h].at] # "stuck"
    /\ Goto(h, "wait")
    /\ UNCHANGED <<registered, process, connected, nextId, asked, pipe, skipped>>

\* Mutant of Lock: the read lock is given to any of those who wait.
LockAny(h) ==
    /\ handler[h].pc = "wait"
    /\ \A g \in Handler : handler[g].at = handler[h].at => handler[g].pc # "read"
    /\ process[handler[h].at] # "gone"
    /\ Goto(h, "read")
    /\ UNCHANGED <<registered, process, connected, nextId, asked, pipe, skipped>>

Lock(h) ==
    /\ handler[h].pc = "wait"
    /\ Foremost(h, {"wait", "read"})
    /\ process[handler[h].at] # "gone"
    /\ Goto(h, "read")
    /\ UNCHANGED <<registered, process, connected, nextId, asked, pipe, skipped>>

\* Mutant of TimeOut: only the calls of tools have a time-out.
TimeOutCalls(h) == handler[h].pc = "read" /\ handler[h].kind = "call" /\ Fail(h)

\* The time-out covers the read alone, not the wait for a lock or the write.
TimeOut(h) == handler[h].pc = "read" /\ Fail(h)

\* A closed pipe: end of file for a reader, a broken pipe for a writer, and
\* no process at all after a disconnect.
Broken(h) ==
    LET c == handler[h].at
    IN  /\ \/ handler[h].pc = "read" /\ pipe[c] = <<>> /\ process[c] \in {"dead", "gone"}
           \/ handler[h].pc = "drain" /\ process[c] \in {"dead", "gone"}
           \/ handler[h].pc \in {"write", "wait"} /\ process[c] = "gone"
        /\ Fail(h)

\* What a handler does after an answer: it is done, with a result or an
\* error, or a connection goes on with what comes next.
Read(h) ==
    LET c == handler[h].at
    IN  /\ handler[h].pc = "read"
        /\ pipe[c] # <<>>
        /\ pipe' = [pipe EXCEPT ![c] = Tail(@)]
        /\ \/ /\ \E pc \in {"done"} \cup IF handler[h].kind = "init" THEN {"opened"} ELSE {} :
                   handler' = [handler EXCEPT ![h].pc = pc, ![h].got = Head(pipe[c])]
              /\ UNCHANGED nextId
           \/ /\ handler[h].kind = "list" /\ handler[h].left > 0
              /\ Request(h, c, "list", handler[h].left - 1)
        /\ UNCHANGED <<registered, process, connected, asked, skipped>>

-----------------------------------------------------------------------------
\* The manager.

\* connect_server makes a client of its own unless one is connected.
Connect(h) ==
    /\ handler[h].pc = "idle"
    /\ ~IsConnected
    /\ \E c \in Client :
         /\ process[c] = "none"
         /\ \A g \in Handler : handler[g].at # c
         /\ handler' = [handler EXCEPT ![h].pc = "spawn", ![h].at = c]
    /\ UNCHANGED <<registered, process, connected, nextId, asked, pipe, skipped>>

\* The process is started and asked to initialize.
Spawned(h) ==
    /\ handler[h].pc = "spawn"
    /\ process' = [process EXCEPT ![handler[h].at] = "up"]
    /\ Request(h, handler[h].at, "init", 0)
    /\ UNCHANGED <<registered, connected, asked, pipe, skipped>>

\* The process cannot be started, or has ended before it could be told that
\* it is initialized.
ConnectFails(h) ==
    /\ \/ handler[h].pc = "spawn"
       \/ handler[h].pc = "opened" /\ process[handler[h].at] = "dead"
    /\ Goto(h, "done")
    /\ UNCHANGED <<registered, process, connected, nextId, asked, pipe, skipped>>

\* The server is told that it is initialized (a line without an answer), the
\* client is registered, and asked for what the server says it has.
Open(h) ==
    LET c == handler[h].at
    IN  /\ handler[h].pc = "opened"
        /\ process[c] # "stuck"
        /\ registered' = c
        /\ connected' = [connected EXCEPT ![c] = TRUE]
        /\ \/ Goto(h, "done") /\ UNCHANGED nextId
           \/ \E lists \in 1 .. MaxLists : Request(h, c, "list", lists - 1)
        /\ UNCHANGED <<process, asked, pipe, skipped>>

\* call_tool, over the client that is registered now.
Call(h) ==
    /\ handler[h].pc = "idle"
    /\ IsConnected
    /\ Request(h, registered, "call", 0)
    /\ UNCHANGED <<registered, process, connected, asked, pipe, skipped>>

\* _disconnect_server: the process is told to end and waited for.
Disconnect(h) ==
    /\ handler[h].pc = "idle"
    /\ registered # NoClient
    /\ handler' = [handler EXCEPT ![h].pc = "ending", ![h].at = registered]
    /\ connected' = [connected EXCEPT ![registered] = FALSE]
    /\ UNCHANGED <<registered, process, nextId, asked, pipe, skipped>>

\* The process has ended or is killed; whatever is registered by now is
\* dropped.
Ended(h) ==
    /\ handler[h].pc = "ending"
    /\ Goto(h, "done")
    /\ process' = [process EXCEPT ![handler[h].at] = "gone"]
    /\ registered' = NoClient
    /\ UNCHANGED <<connected, nextId, asked, pipe, skipped>>

-----------------------------------------------------------------------------
\* The server.

Answer(c) ==
    /\ process[c] = "up"
    /\ \E k \in asked[c] :
         /\ InOrder => \A j \in asked[c] : k <= j
         /\ asked' = [asked EXCEPT ![c] = @ \ {k}]
         /\ pipe' = [pipe EXCEPT ![c] = Append(@, k)]
    /\ UNCHANGED <<handler, registered, process, connected, nextId, skipped>>

\* It ends, by itself or because it was told to, or stops reading its input.
Turn(c, state) ==
    /\ process' = [process EXCEPT ![c] = state]
    /\ UNCHANGED <<handler, registered, connected, nextId, asked, pipe, skipped>>

Die(c) == process[c] \in {"up", "stuck"} /\ Turn(c, "dead")

Stick(c) == process[c] = "up" /\ Turn(c, "stuck")

-----------------------------------------------------------------------------

Step(h) ==
    \/ Write(h) \/ Drained(h) \/ Lock(h) \/ Read(h) \/ TimeOut(h) \/ Broken(h)
    \/ Spawned(h) \/ ConnectFails(h) \/ Open(h) \/ Ended(h)

Next ==
    \/ \E h \in Handler : Step(h) \/ Connect(h) \/ Call(h) \/ Disconnect(h)
    \/ \E c \in Client : Answer(c) \/ Die(c) \/ Stick(c)

Spec == Init /\ [][Next]_vars

\* The event loop runs what can run and timers fire; nothing is asked of the
\* server.
FairSpec == Spec /\ \A h \in Handler : WF_vars(Step(h))

-----------------------------------------------------------------------------
(***************************************************************************)
(* Properties.                                                             *)
(***************************************************************************)

\* A handler never reads the answer of a later request, reads its own unless
\* an earlier request of the same client went without, and earlier requests
\* read earlier answers: the lines stay in step although no id is compared.
AnswersKeepStep ==
    \A h \in Handler : handler[h].got # 0 =>
        LET i == handler[h].id
            c == handler[h].at
        IN  /\ handler[h].got <= i
            /\ (\A k \in 1 .. i - 1 : k \notin skipped[c]) => handler[h].got = i
            /\ \A g \in Handler : handler[g].at = c /\ handler[g].got # 0 /\ handler[g].id < i
                                    => handler[g].got < handler[h].got

\* The time-out covers the read alone, but whatever the server answers or
\* leaves unanswered, every handler ends, or has something to write (or waits
\* for those who have) to a server that does not read.
EveryHandlerEnds ==
    \A h \in Handler :
        handler[h].pc \notin {"idle", "done"} ~>
            \/ handler[h].pc = "done"
            \/ handler[h].pc \in {"write", "drain", "opened"} /\ process[handler[h].at] = "stuck"

\* Every handler ends, whatever the server does.
EndsWithoutServer ==
    \A h \in Handler : handler[h].pc \notin {"idle", "done"} ~> handler[h].pc = "done"

\* Every request reads its own answer.
OwnAnswer == \A h \in Handler : handler[h].got \in {0, handler[h].id}

\* A process that runs is that of the registered client, or a handler is
\* still at work on it.
NoStrayProcess ==
    \A c \in Client : process[c] \in {"up", "stuck"} =>
        \/ registered = c
        \/ \E h \in Handler : handler[h].at = c /\ handler[h].pc \notin {"idle", "done"}
=============================================================================
