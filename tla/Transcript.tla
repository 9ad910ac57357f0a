----------------------------- MODULE Transcript -----------------------------
(***************************************************************************)
(* The messages of a chat session and what agent/query.py does to a        *)
(* transcript so that providers accept it: tool rows that answer nothing   *)
(* are dropped, calls without a row get a placeholder.                     *)
(*                                                                         *)
(* A message is who it is from, the calls an assistant message asks for,   *)
(* the call a tool row answers and what kind of body it has; "of" says     *)
(* which turn or steer wrote it.  A call is named by its turn, a number    *)
(* and its tool: ids are unique.                                           *)
(***************************************************************************)
EXTENDS Integers, FiniteSets, SequencesExt

CONSTANTS
    Turn,      \* requests of the client that run the agent
    Tool,
    AskUser,   \* the tool that puts questions to the user
    NoTurn

\* Steer messages are numbered; turns are told apart from numbers.
ASSUME TurnAssumption ==
    /\ AskUser \in Tool
    /\ NoTurn \notin Turn
    /\ (Turn \cup {NoTurn}) \cap Nat = {}

Call == [turn : Turn, n : Nat, tool : Tool]
NoCall == [turn |-> NoTurn, n |-> 0, tool |-> AskUser]

Body == {"text", "result", "denied", "aborted", "pending", "interrupted", "reply"}
Message == [role : {"user", "assistant", "tool"}, calls : Seq(Call), call : Call \cup {NoCall},
            body : Body, of : Turn \cup {NoTurn} \cup Nat]

User(of) == [role |-> "user", calls |-> <<>>, call |-> NoCall, body |-> "text", of |-> of]
Assistant(cs, of) == [role |-> "assistant", calls |-> cs, call |-> NoCall, body |-> "text", of |-> of]
ToolRow(c, body) == [role |-> "tool", calls |-> <<>>, call |-> c, body |-> body, of |-> NoTurn]

-----------------------------------------------------------------------------
(* What providers accept, and how a transcript is brought there. *)

\* The message that the tool row at i follows, with only tool rows in between
\* (0: none).
HeadOf(ms, i) ==
    CHOOSE h \in 0..i : /\ h > 0 => ms[h].role # "tool"
                        /\ \A k \in (h + 1)..i : ms[k].role = "tool"

Answers(ms, i) ==
    LET h == HeadOf(ms, i)
    IN h > 0 /\ ms[h].role = "assistant" /\ ms[i].call \in Range(ms[h].calls)

\* drop_orphan_tool_messages: rows that answer no call of their block go.
DropOrphans(ms) ==
    FlattenSeq([i \in DOMAIN ms |->
                   IF ms[i].role = "tool" => Answers(ms, i) THEN <<ms[i]>> ELSE <<>>])

\* _inject_pending_ask_user_tool_stubs and inject_missing_tool_result_stubs:
\* at the end of a block, a placeholder for every call of it without a row.
Stubs(ms, i) ==
    LET h == HeadOf(ms, i)
        answered == {ms[k].call : k \in (h + 1)..i}
        stub(c) == ToolRow(c, IF c.tool = AskUser THEN "pending" ELSE "interrupted")
    IN IF h = 0 THEN <<>>
       ELSE FlattenSeq([j \in DOMAIN ms[h].calls |->
                           IF ms[h].calls[j] \in answered THEN <<>> ELSE <<stub(ms[h].calls[j])>>])

\* Mutant of AddStubs: placeholders at the end of the history only.
AddStubsMutated(ms) == ms \o Stubs(ms, Len(ms))

AddStubs(ms) ==
    LET closes(i) == i = Len(ms) \/ ms[i + 1].role # "tool"
        upTo[i \in 0..Len(ms)] ==
            IF i = 0 THEN <<>>
            ELSE upTo[i - 1] \o (<<ms[i]>> \o IF closes(i) THEN Stubs(ms, i) ELSE <<>>)
    IN upTo[Len(ms)]

Repair(ms) == AddStubs(DropOrphans(ms))

\* replace_pending_tool_reply, or else append_tool_result.
WithReply(ms, c) ==
    LET open == {i \in DOMAIN ms : ms[i].role = "tool" /\ ms[i].call = c /\ ms[i].body = "pending"}
    IN IF open = {} THEN Append(ms, ToolRow(c, "reply"))
       ELSE [ms EXCEPT ![Min(open)].body = "reply"]

-----------------------------------------------------------------------------
\* What a provider accepts: after an assistant message, a row for each of its
\* calls; and no row anywhere else.
WellFormed(ms) ==
    /\ \A i \in DOMAIN ms : \A c \in Range(ms[i].calls) :
         \E k \in (i + 1)..Len(ms) : ms[k].call = c /\ HeadOf(ms, k) = i
    /\ \A i \in DOMAIN ms : ms[i].role = "tool" => Answers(ms, i)
=============================================================================
