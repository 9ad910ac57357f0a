---------------------------- MODULE AgentSession ----------------------------
(***************************************************************************)
(* One chat session: the turns of the agent (agent/controller.py,          *)
(* agent/query.py), the approval of tool calls (tools/approval.py), steer  *)
(* messages, cancellation, and the transcript that one turn leaves to the  *)
(* next (services/session/).  Transcript has the messages.                 *)
(***************************************************************************)
EXTENDS Transcript

CONSTANTS
    Gated,         \* tools that need an approval
    Safe,          \* tools that run next to each other
    Batches,       \* what the model may ask for in one answer: sequences of tools
    MaxCalls,      \* max_tool_calls_per_turn
    MaxTurns,      \* max_turns: answers of the model in one turn
    MaxRecoveries, \* how often a truncated answer is asked for again
    MaxSteers,     \* bound on the steer messages of a behaviour
    MaxTroubles,   \* bound on its cancels, disconnections and failures
    Reviewer,      \* who decides about a gated call first
    MayOverlap     \* whether a client sends while a turn is still going on

ASSUME SessionAssumption ==
    /\ AskUser \notin Gated
    /\ Gated \subseteq Tool
    /\ Safe \subseteq Tool
    /\ Batches \subseteq Seq(Tool)
    /\ MaxCalls \in Nat \ {0}
    /\ {MaxTurns, MaxRecoveries, MaxSteers, MaxTroubles} \subseteq Nat
    /\ Reviewer \in {"user", "auto_review"}
    /\ MayOverlap \in BOOLEAN

VARIABLES
    stored,    \* the session's transcript in the session store
    resumable, \* session_metadata["resumable_state"]: the interrupted turn
    registry,  \* AgentController._session_tasks of the session: running turns
    run,       \* what each turn is doing
    pending,   \* ApprovalStore: the calls a decision is awaited for, at most one
    once,      \* ... tools granted for one run
    always,    \* ... tools granted for the session
    steers,    \* SessionControlRegistry._steer
    cards,     \* calls whose question the client was shown
    book       \* what was decided and done, for the properties

vars == <<stored, resumable, registry, run, pending, once, always, steers, cards, book>>

-----------------------------------------------------------------------------
(* The state of a turn. *)

Unfinished == {"waiting", "running", "again"}
Ran == {"running", "again", "result"}
Outcome == {"waiting", "running", "again", "result", "denied", "aborted"}

TurnPC == {"unsent", "reply", "sent", "load", "ask", "gate", "pause", "dispatch", "steer",
           "close", "save", "done"}

\* pc: where the turn is.  conv: the controller's conversation, which is saved.
\* hist: the query loop's messages, which the model is asked with.  batch: the
\* calls of the last answer.  outs: what became of those that are dispatched.
\* at: the call the gate or the delivery is at.  answers: the call whose card
\* the request replies to.  loaded: conv started from the stored transcript.
NewTurn == [pc |-> "unsent", conv |-> <<>>, hist |-> <<>>, iter |-> 1, recovery |-> 0,
            asked |-> 0, batch |-> <<>>, outs |-> <<>>, at |-> 1, answers |-> NoCall,
            aborted |-> FALSE, loaded |-> FALSE]

\* Between registering and unregistering: what a cancel has to reach.
InProgress == {"load", "ask", "gate", "pause", "dispatch", "steer", "close"}

NewBook == [allowed |-> [g \in Gated |-> 0], used |-> [g \in Gated |-> 0], allowedAlways |-> {},
            refused |-> {}, denied |-> {}, taken |-> <<>>, steered |-> 0, troubles |-> 0]

Init ==
    /\ stored = <<>>
    /\ resumable = NoTurn
    /\ registry = {}
    /\ run = [t \in Turn |-> NewTurn]
    /\ pending = NoCall
    /\ once = {}
    /\ always = {}
    /\ steers = <<>>
    /\ cards = {}
    /\ book = NewBook

Goto(t, pc) == run' = [run EXCEPT ![t].pc = pc]

Trouble ==
    /\ book.troubles < MaxTroubles
    /\ book' = [book EXCEPT !.troubles = @ + 1]

-----------------------------------------------------------------------------
(* Requests of the client (api/v1/chat/__init__.py). *)

MaySend(t) ==
    /\ run[t].pc = "unsent"
    /\ MayOverlap \/ \A u \in Turn \ {t} : run[u].pc \in {"unsent", "done"}

\* chat_stream with a message.
Send(t) ==
    /\ MaySend(t)
    /\ Goto(t, "sent")
    /\ UNCHANGED <<stored, resumable, registry, pending, once, always, steers, cards, book>>

\* Mutant of Decide: an allow grants the tool of the card, whatever is pending.
DecideMutated(c, decision) ==
    /\ pending' = NoCall
    /\ always' = IF decision = "session" THEN always \cup {c.tool} ELSE always
    /\ once' = IF decision = "once" THEN once \cup {c.tool} ELSE once
    /\ UNCHANGED book

\* transform_approval_reply: a reply to the pending call decides about it, and
\* grants its tool.  Any other reply is the content of a tool row.
Decide(c, decision) ==
    IF pending # c THEN UNCHANGED <<pending, once, always, book>>
    ELSE /\ pending' = NoCall
         /\ always' = IF decision = "session" THEN always \cup {c.tool} ELSE always
         /\ once' = IF decision = "once" THEN once \cup {c.tool} ELSE once
         /\ book' = CASE decision = "session" -> [book EXCEPT !.allowedAlways = @ \cup {c.tool}]
                      [] decision = "once" -> [book EXCEPT !.allowed[c.tool] = @ + 1]
                      [] OTHER -> book

\* chat_stream with tool_replies.
Reply(t, c, decision) ==
    /\ MaySend(t)
    /\ c \in cards
    /\ cards' = cards \ {c}
    /\ Decide(c, decision)
    /\ run' = [run EXCEPT ![t] = [@ EXCEPT !.pc = "reply", !.answers = c]]
    /\ UNCHANGED <<stored, resumable, registry, steers>>

\* Every save under the session's lock writes session_metadata anew, without
\* the resumable_state (TieredSessionStore._save_to_database).
Store(ms) ==
    /\ stored' = ms
    /\ resumable' = NoTurn

StoreReply(t) ==
    /\ run[t].pc = "reply"
    /\ Store(WithReply(stored, run[t].answers))
    /\ Goto(t, "sent")
    /\ UNCHANGED <<registry, pending, once, always, steers, cards, book>>

\* steer_session: a message for the running turn.
Steer ==
    /\ registry # {}
    /\ book.steered < MaxSteers
    /\ steers' = Append(steers, book.steered + 1)
    /\ book' = [book EXCEPT !.steered = @ + 1]
    /\ UNCHANGED <<stored, resumable, registry, run, pending, once, always, cards>>

\* cancel_session: every registered turn is told to stop, and forgotten.
StoppedOf(t) == [run[t] EXCEPT !.aborted = TRUE]

Cancel ==
    /\ registry # {}
    /\ Trouble
    /\ run' = [t \in Turn |-> IF t \in registry THEN StoppedOf(t) ELSE run[t]]
    /\ registry' = {}
    /\ UNCHANGED <<stored, resumable, pending, once, always, steers, cards>>

\* The client is gone: run_stream cancels the task of the turn.  While the
\* model answers, the query loop ends the turn as if it had been asked to;
\* elsewhere the controller notes that the turn can be resumed.
Disconnect(t) ==
    /\ run[t].pc \in {"load", "ask", "gate", "dispatch"}
    /\ Trouble
    /\ Goto(t, "close")
    /\ resumable' = IF run[t].pc = "ask" THEN resumable ELSE t
    /\ UNCHANGED <<stored, registry, pending, once, always, steers, cards>>

-----------------------------------------------------------------------------
(* AgentController.run: a turn begins and ends. *)

Register(t) ==
    /\ run[t].pc = "sent"
    /\ registry' = registry \cup {t}
    /\ Goto(t, "load")
    /\ UNCHANGED <<stored, resumable, pending, once, always, steers, cards, book>>

\* A reply adds no message of the user: it is in the stored transcript.
Begun(t, ms, loaded) ==
    LET conv == IF run[t].answers = NoCall THEN Append(ms, User(t)) ELSE ms
    IN [run[t] EXCEPT !.pc = "ask", !.conv = conv, !.hist = conv, !.loaded = loaded]

Load(t) ==
    /\ run[t].pc = "load"
    /\ run' = [run EXCEPT ![t] = Begun(t, stored, TRUE)]
    /\ UNCHANGED <<stored, resumable, registry, pending, once, always, steers, cards, book>>

\* A store that cannot be read: the turn goes on without history.
LoadFails(t) ==
    /\ run[t].pc = "load"
    /\ Trouble
    /\ run' = [run EXCEPT ![t] = Begun(t, <<>>, FALSE)]
    /\ UNCHANGED <<stored, resumable, registry, pending, once, always, steers, cards>>

\* Mutant of Close: the whole entry of the session is taken out of the registry.
CloseMutated(t) ==
    /\ run[t].pc = "close"
    /\ resumable' = IF run[t].aborted THEN t ELSE resumable
    /\ registry' = {}
    /\ run' = [run EXCEPT ![t] = [@ EXCEPT !.pc = "save", !.hist = <<>>]]
    /\ UNCHANGED <<stored, pending, once, always, steers, cards, book>>

\* The finally clause, up to its first await after unregistering.
Close(t) ==
    /\ run[t].pc = "close"
    /\ resumable' = IF run[t].aborted THEN t ELSE resumable
    /\ registry' = registry \ {t}
    /\ run' = [run EXCEPT ![t] = [@ EXCEPT !.pc = "save", !.hist = <<>>]]
    /\ UNCHANGED <<stored, pending, once, always, steers, cards, book>>

\* _save_conversation: the turn's conversation takes the place of the
\* transcript, whatever was stored since it was loaded.
Save(t) ==
    /\ run[t].pc = "save"
    /\ \E ms \in {DropOrphans(run[t].conv)} : Store(AddStubs(ms))
    /\ Goto(t, "done")
    /\ UNCHANGED <<registry, pending, once, always, steers, cards, book>>

\* The calls of the batch are done; their results are on the way.
Finished(t, i) == run[t].outs[i] \notin Unfinished
\* Mutant of Delivering: only calls with a result count as done.
DeliveringMutated(t) == run[t].pc = "dispatch" /\ \A i \in DOMAIN run[t].outs : run[t].outs[i] = "result"

Delivering(t) == run[t].pc = "dispatch" /\ \A i \in DOMAIN run[t].outs : Finished(t, i)

-----------------------------------------------------------------------------
(* query.py: the model is asked, and answers. *)

Asking(t) ==
    /\ run[t].pc = "ask"
    /\ ~run[t].aborted
    /\ run[t].iter <= MaxTurns

\* The loop, the stream or the controller sees the cancel; or the answers of
\* the turn are used up.
Stop(t) ==
    /\ \/ run[t].aborted /\ (run[t].pc \in {"ask", "pause"} \/ Delivering(t))
       \/ run[t].pc = "ask" /\ run[t].iter > MaxTurns
    /\ Goto(t, "close")
    /\ UNCHANGED <<stored, resumable, registry, pending, once, always, steers, cards, book>>

\* ask_user goes alone: other calls of the answer are dropped.
Effective(tools) == IF AskUser \in Range(tools) THEN <<AskUser>> ELSE tools

CallsOf(t, tools) ==
    [i \in DOMAIN Effective(tools) |->
        [turn |-> t, n |-> run[t].asked + i, tool |-> Effective(tools)[i]]]

\* An answer that asks for tools (none: the turn is complete).  Only the first
\* MaxCalls of them are dispatched.
AnswerOf(t, tools) ==
    LET calls == CallsOf(t, tools)
        m == Assistant(calls, t)
        next == IF calls = <<>> THEN "close" ELSE IF AskUser \in Range(tools) THEN "pause" ELSE "gate"
        dispatched == SubSeq(calls, 1, Min({Len(calls), MaxCalls}))
    IN [run[t] EXCEPT !.pc = next, !.conv = Append(@, m), !.hist = Append(@, m),
                      !.asked = @ + Len(calls), !.batch = calls,
                      !.outs = [i \in DOMAIN dispatched |-> "waiting"], !.at = 1]

Answer(t, tools) ==
    /\ Asking(t)
    /\ run' = [run EXCEPT ![t] = AnswerOf(t, tools)]
    /\ UNCHANGED <<stored, resumable, registry, pending, once, always, steers, cards, book>>

\* An answer cut off at the output limit is asked for again.  The controller
\* keeps it all the same; the query loop does not.
TruncatedOf(t, tools) ==
    LET calls == CallsOf(t, tools)
    IN [run[t] EXCEPT !.conv = Append(@, Assistant(calls, t)), !.asked = @ + Len(calls),
                      !.recovery = @ + 1]

Truncated(t, tools) ==
    /\ Asking(t)
    /\ run[t].recovery < MaxRecoveries
    /\ run' = [run EXCEPT ![t] = TruncatedOf(t, tools)]
    /\ UNCHANGED <<stored, resumable, registry, pending, once, always, steers, cards, book>>

\* ... and given up, with a second answer that says so.
ExhaustedOf(t) ==
    [run[t] EXCEPT !.pc = "close", !.conv = @ \o <<Assistant(<<>>, t), Assistant(<<>>, t)>>]

Exhausted(t) ==
    /\ Asking(t)
    /\ run[t].recovery = MaxRecoveries
    /\ run' = [run EXCEPT ![t] = ExhaustedOf(t)]
    /\ UNCHANGED <<stored, resumable, registry, pending, once, always, steers, cards, book>>

\* The model fails, before or in its answer.
Fail(t) ==
    /\ Asking(t)
    /\ Trouble
    /\ Goto(t, "close")
    /\ UNCHANGED <<stored, resumable, registry, pending, once, always, steers, cards>>

-----------------------------------------------------------------------------
(* _approval_pause_terminal: before a batch is dispatched. *)

Granted(c) == c.tool \in Gated => c.tool \in always \cup once

\* Mutant of TakeGrant: a grant for one run stays.
TakeGrantMutated(c) == UNCHANGED once

\* ApprovalStore.is_granted: a grant for one run is used up by asking for it.
TakeGrant(c) == once' = IF c.tool \in always THEN once ELSE once \ {c.tool}

GateCall(t) == run[t].batch[run[t].at]
AtGate(t) == run[t].pc = "gate"

\* On to the next call of the batch, or to their dispatch.
GatedOf(t) ==
    IF run[t].at < Len(run[t].outs) THEN [run[t] EXCEPT !.at = @ + 1]
    ELSE [run[t] EXCEPT !.pc = "dispatch", !.at = 1]

NextGate(t) == run' = [run EXCEPT ![t] = GatedOf(t)]

PassGate(t) ==
    /\ AtGate(t)
    /\ Granted(GateCall(t))
    /\ TakeGrant(GateCall(t))
    /\ NextGate(t)
    /\ UNCHANGED <<stored, resumable, registry, pending, always, steers, cards, book>>

\* The reviewer lets the call through, or refuses it: either way the gate goes
\* on to the next call.
ReviewAllow(t) ==
    LET c == GateCall(t)
    IN /\ AtGate(t) /\ ~Granted(c) /\ Reviewer = "auto_review"
       /\ once' = once \cup {c.tool}
       /\ book' = [book EXCEPT !.allowed[c.tool] = @ + 1]
       /\ NextGate(t)
       /\ UNCHANGED <<stored, resumable, registry, pending, always, steers, cards>>

ReviewDeny(t) ==
    LET c == GateCall(t)
    IN /\ AtGate(t) /\ ~Granted(c) /\ Reviewer = "auto_review"
       /\ book' = [book EXCEPT !.denied = @ \cup {c}]
       /\ NextGate(t)
       /\ UNCHANGED <<stored, resumable, registry, pending, once, always, steers, cards>>

\* The user is to decide: the call replaces any other that waits for it.
AskApproval(t) ==
    /\ AtGate(t)
    /\ ~Granted(GateCall(t))
    /\ pending' = GateCall(t)
    /\ Goto(t, "pause")
    /\ UNCHANGED <<stored, resumable, registry, once, always, steers, cards, book>>

\* The turn ends with a question on a card, and a row that waits for the reply.
PausedOf(t) ==
    [run[t] EXCEPT !.pc = "close", !.conv = Append(@, ToolRow(GateCall(t), "pending"))]

Pause(t) ==
    /\ run[t].pc = "pause"
    /\ ~run[t].aborted
    /\ cards' = cards \cup {GateCall(t)}
    /\ run' = [run EXCEPT ![t] = PausedOf(t)]
    /\ UNCHANGED <<stored, resumable, registry, pending, once, always, steers, book>>

-----------------------------------------------------------------------------
(* _dispatch_tools: calls that are safe next to each other first and together, *)
(* then the others one by one; and what becomes of each.                       *)

IsSafe(t, i) == run[t].batch[i].tool \in Safe

Startable(t, i) ==
    /\ run[t].pc = "dispatch"
    /\ run[t].outs[i] = "waiting"
    /\ \A k \in DOMAIN run[t].outs \ {i} :
         IF IsSafe(t, i) THEN IsSafe(t, k) /\ k < i => run[t].outs[k] # "waiting"
         ELSE IsSafe(t, k) \/ k < i => Finished(t, k)

WithOut(t, i, out) == [run[t] EXCEPT !.outs = [run[t].outs EXCEPT ![i] = out]]
SetOut(t, i, out) == run' = [run EXCEPT ![t] = WithOut(t, i, out)]

\* The book of a run of c: with a grant for one run, or not.
UsedBy(c) ==
    IF c.tool \in Gated \ always THEN [book EXCEPT !.used[c.tool] = @ + 1] ELSE book

\* ToolExecutor.execute checks the permission a second time.
Execute(t, i, out) ==
    LET c == run[t].batch[i]
    IN /\ Granted(c)
       /\ TakeGrant(c)
       /\ SetOut(t, i, out)
       /\ book' = UsedBy(c)

Refuse(t, i) ==
    LET c == run[t].batch[i]
    IN /\ ~Granted(c)
       /\ SetOut(t, i, "denied")
       /\ book' = IF book.used[c.tool] < book.allowed[c.tool]
                  THEN [book EXCEPT !.refused = @ \cup {c.tool}] ELSE book
       /\ UNCHANGED once

\* Mutant of StartCall: a cancel is not looked at.
StartCallMutated(t, i) ==
    /\ Startable(t, i)
    /\ Execute(t, i, "running") \/ Refuse(t, i)
    /\ UNCHANGED <<stored, resumable, registry, pending, always, steers, cards>>

StartCall(t, i) ==
    /\ Startable(t, i)
    /\ \/ run[t].aborted /\ SetOut(t, i, "aborted") /\ UNCHANGED <<once, book>>
       \/ ~run[t].aborted /\ (Execute(t, i, "running") \/ Refuse(t, i))
    /\ UNCHANGED <<stored, resumable, registry, pending, always, steers, cards>>

EndCall(t, i) ==
    /\ run[t].pc = "dispatch"
    /\ run[t].outs[i] \in {"running", "again"}
    /\ SetOut(t, i, "result")
    /\ UNCHANGED <<stored, resumable, registry, pending, once, always, steers, cards, book>>

\* ErrorRecovery runs a call that timed out once more, through the executor and
\* its check of the permission, but past the check for a cancel.
RunAgain(t, i) ==
    /\ run[t].pc = "dispatch"
    /\ run[t].outs[i] = "running"
    /\ Execute(t, i, "again") \/ Refuse(t, i)
    /\ UNCHANGED <<stored, resumable, registry, pending, always, steers, cards>>

Row(t, i) == ToolRow(run[t].batch[i], run[t].outs[i])

\* The results go to the controller one by one.
DeliveredOf(t, i) ==
    [run[t] EXCEPT !.pc = IF i < Len(run[t].outs) THEN "dispatch" ELSE "steer",
                   !.at = i + 1,
                   !.conv = Append(@, Row(t, i)), !.hist = Append(@, Row(t, i))]

Deliver(t) ==
    /\ Delivering(t)
    /\ ~run[t].aborted
    /\ run' = [run EXCEPT ![t] = DeliveredOf(t, run[t].at)]
    /\ UNCHANGED <<stored, resumable, registry, pending, once, always, steers, cards, book>>

Steered(t) == [k \in DOMAIN steers |-> User(steers[k])]
SteeredOf(t) ==
    IF run[t].aborted THEN [run[t] EXCEPT !.pc = "close"]
    ELSE [run[t] EXCEPT !.pc = "ask", !.iter = @ + 1, !.recovery = 0,
                        !.conv = @ \o Steered(t), !.hist = @ \o Steered(t)]

NewlyTaken(t) == [k \in DOMAIN steers |-> [id |-> steers[k], by |-> t]]

\* Mutant of TakeSteers: the queue is read, not emptied.
TakeSteersMutated(t) ==
    /\ run[t].pc = "steer"
    /\ run' = [run EXCEPT ![t] = SteeredOf(t)]
    /\ book' = [book EXCEPT !.taken = @ \o NewlyTaken(t)]
    /\ UNCHANGED <<stored, resumable, registry, pending, once, always, steers, cards>>

\* _drain_steer_messages, and the next answer.  A controller that is told to
\* stop ends the turn at the first of the messages.
TakeSteers(t) ==
    /\ run[t].pc = "steer"
    /\ run' = [run EXCEPT ![t] = SteeredOf(t)]
    /\ steers' = <<>>
    /\ book' = [book EXCEPT !.taken = @ \o NewlyTaken(t)]
    /\ UNCHANGED <<stored, resumable, registry, pending, once, always, cards>>

-----------------------------------------------------------------------------
Gate(t) ==
    PassGate(t) \/ ReviewAllow(t) \/ ReviewDeny(t) \/ AskApproval(t) \/ Pause(t)

Dispatch(t) ==
    \/ \E i \in DOMAIN run[t].outs : StartCall(t, i) \/ EndCall(t, i) \/ RunAgain(t, i)
    \/ Deliver(t) \/ TakeSteers(t)

Model(t) ==
    \/ \E tools \in Batches : Answer(t, tools) \/ Truncated(t, tools)
    \/ Exhausted(t) \/ Fail(t)

\* What the program does for a turn, whatever the client does.
Progress(t) ==
    \/ StoreReply(t) \/ Register(t) \/ Load(t) \/ LoadFails(t)
    \/ Model(t) \/ Gate(t) \/ Dispatch(t)
    \/ Stop(t) \/ Close(t) \/ Save(t)

Client(t) ==
    \/ Send(t) \/ Disconnect(t)
    \/ \E c \in cards, decision \in {"once", "session", "deny"} : Reply(t, c, decision)

Next == (\E t \in Turn : Client(t) \/ Progress(t)) \/ Steer \/ Cancel

Spec == Init /\ [][Next]_vars

\* The event loop runs a turn that can go on; providers and tools answer or
\* time out.
FairSpec == Spec /\ \A t \in Turn : WF_vars(Progress(t))

-----------------------------------------------------------------------------
(* Properties. *)

TurnType(r) ==
    /\ r.pc \in TurnPC
    /\ r.conv \in Seq(Message) /\ r.hist \in Seq(Message)
    /\ r.iter \in 1..(MaxTurns + 1) /\ r.recovery \in 0..MaxRecoveries
    /\ r.asked \in Nat /\ r.at \in 1..(MaxCalls + 1)
    /\ r.batch \in Seq(Call) /\ r.outs \in Seq(Outcome)
    /\ Len(r.outs) <= MaxCalls /\ Len(r.outs) <= Len(r.batch)
    /\ r.answers \in Call \cup {NoCall}
    /\ r.aborted \in BOOLEAN /\ r.loaded \in BOOLEAN

\* The state has the shape the code gives it: only gated tools are granted or
\* waited for, and the answers, recoveries and calls of a turn stay within its
\* limits (agent/query.py, agent/query_engine.py).
TypeOK ==
    /\ stored \in Seq(Message)
    /\ resumable \in Turn \cup {NoTurn}
    /\ registry \subseteq Turn
    /\ \A t \in Turn : TurnType(run[t])
    /\ pending \in [turn : Turn, n : Nat, tool : Gated] \cup {NoCall}
    /\ once \subseteq Gated /\ always \subseteq Gated
    /\ cards \subseteq Call

\* Whatever turns, pauses, cancels, truncated answers and lost updates left in
\* the transcript, and wherever compaction cuts it, the model is asked with a
\* history that providers accept (agent/query.py before call_model).
AskedWellFormed ==
    \A t \in Turn : run[t].pc = "ask" =>
        \A k \in 1..Len(run[t].hist) : WellFormed(Repair(SubSeq(run[t].hist, k, Len(run[t].hist))))

\* A gated tool runs no more often than somebody allowed it: runs and unused
\* grants together are at most as many as the "once" decisions about the tool,
\* and runs without them need a decision for the session.  Overlapping turns
\* and runs after a time-out included (tools/approval.py).
RunsNeedAllow ==
    /\ \A g \in Gated : book.used[g] + (IF g \in once THEN 1 ELSE 0) <= book.allowed[g]
    /\ always \subseteq book.allowedAlways

\* Steer messages are taken in the order they were accepted, each by one turn;
\* those that are not taken wait (SessionControlRegistry.drain_steer).
SteersInOrder ==
    [k \in DOMAIN book.taken |-> book.taken[k].id] \o steers = [k \in 1..book.steered |-> k]

\* ... and the turn that takes one has it in its conversation once, unless it
\* was cancelled (agent/query.py).
SteerOnce ==
    /\ SteersInOrder
    /\ \A k \in DOMAIN book.taken :
         LET by == book.taken[k].by
             heard == {i \in DOMAIN run[by].conv : run[by].conv[i].of = book.taken[k].id}
         IN Cardinality(heard) = 1 \/ (heard = {} /\ run[by].aborted)

\* A cancel reaches every turn that has not come to its end: it is registered,
\* or was told to stop already (AgentController.cancel_session).
CancelReaches ==
    \A t \in Turn : run[t].pc \in InProgress => t \in registry \/ run[t].aborted

\* A turn that was told to stop is given no other answer of the model, starts
\* no call it had not started, and asks the user nothing (agent/query.py).
CancelledDoesNoMore ==
    [][\A t \in Turn : run[t].aborted =>
         /\ run'[t].asked = run[t].asked
         /\ \A i \in DOMAIN run[t].outs :
              run[t].outs[i] = "waiting" => run'[t].outs[i] \in {"waiting", "aborted"}
         /\ {c \in cards' : c.turn = t} \subseteq cards]_vars

\* Every request comes to its end: recoveries and answers are limited, a pause
\* ends the turn, tools and reviews return.
TurnEnds == \A t \in Turn : (run[t].pc # "unsent") ~> (run[t].pc = "done")

-----------------------------------------------------------------------------
(* What the repository says, and the code does not keep. *)

\* What a finished turn left in the transcript stays there, however turns
\* overlap (services/session/manager.py: one lock per session "prevents two
\* concurrent turns from stepping on each other's transcript updates").
TranscriptKept ==
    (\A u \in Turn : run[u].pc \in {"save", "done"} => run[u].loaded) =>
        \A t \in Turn : run[t].pc = "done" /\ run[t].answers = NoCall => User(t) \in Range(stored)

\* ... nor does a turn that could not read the transcript, or that ends before
\* it has read it, take it away (AgentController._load_conversation: "it just
\* won't have history").
UnreadKept ==
    [][\A t \in Turn : run'[t].pc = "done" /\ run[t].pc = "save" /\ ~MayOverlap =>
         \A m \in Range(stored) : m.role = "user" => m \in Range(stored')]_vars

\* An approved tool is not refused when the model asks for it again
\* (approval_reply_content: "it will execute").
ApprovedRuns == book.refused = {}

\* A call that the reviewer refuses does not run (tools/auto_review.py).
DeniedStaysDenied ==
    \A t \in Turn : \A i \in DOMAIN run[t].outs :
        run[t].batch[i] \in book.denied => run[t].outs[i] \notin Ran

\* A call that finished is not reported as interrupted "before this tool
\* finished" (INTERRUPTED_TOOL_RESULT_JSON).
FinishedIsReported ==
    \A t \in Turn : \A i \in DOMAIN run[t].outs :
        run[t].pc = "done" /\ run[t].outs[i] = "result" =>
            ToolRow(run[t].batch[i], "interrupted") \notin Range(stored)

\* A cancelled turn can be resumed until another is sent
\* (AgentController._save_resumable_state: "so the user can resume").
InterruptedCanContinue ==
    \A t \in Turn :
        run[t].pc = "done" /\ run[t].aborted /\ (\A u \in Turn \ {t} : run[u].pc = "unsent") =>
            resumable = t

=============================================================================
