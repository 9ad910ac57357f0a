------------------------- MODULE MCWorkflowExecutor -------------------------
(***************************************************************************)
(* Documents and constants for TLC.  Ids follow the alphabetical order of  *)
(* the names in the templates they abstract.                               *)
(***************************************************************************)
EXTENDS WorkflowExecutor, TLC

\* A document of tasks on the nodes of Node, with nothing linked; the
\* documents below override its fields.
Blank ==
    [data |-> [n \in Node |-> {}],
     next |-> [n \in Node |-> NoNode],
     alts |-> [n \in Node |-> {}],
     branches |-> [n \in Node |-> {}],
     handler |-> [n \in Node |-> NoNode],
     routes |-> [n \in Node |-> {}],
     retry |-> [n \in Node |-> NoNode],
     exhausted |-> [n \in Node |-> NoNode],
     kind |-> [n \in Node |-> "task"],
     cacheable |-> {},
     outputs |-> {},
     start |-> 1,
     deadline |-> FALSE]

\* The control edges and data links of TPL-ART-01: approved 1, end 2,
\* export 3, gate 4, image 5, refine 6, start 7 (critic is merged into gate).
ArtPipeline ==
    [Blank EXCEPT !.data = (1 :> {4}) @@ (3 :> {1}) @@ (4 :> {5}) @@ @,
                  !.next = (3 :> 2) @@ (7 :> 5) @@ (5 :> 4) @@ @,
                  !.alts = (4 :> {1, 6}) @@ @,
                  !.routes = (4 :> {1, 6}) @@ @,
                  !.retry = (6 :> 5) @@ @,
                  !.exhausted = (6 :> 1) @@ @,
                  !.kind = (4 :> "gate") @@ (6 :> "refine") @@ @,
                  !.cacheable = {1, 3},
                  !.outputs = {2, 3},
                  !.start = 7]

\* A review next to a task of the same batch: end 1, review 2, task 3,
\* preview 4 (an output linked to the task), start 5.
Review ==
    [Blank EXCEPT !.data = (4 :> {3}) @@ (3 :> {5}) @@ @,
                  !.next = (5 :> 2) @@ (2 :> 1) @@ @,
                  !.kind = (2 :> "review") @@ @,
                  !.cacheable = {2, 3},
                  !.outputs = {1, 4},
                  !.start = 5,
                  !.deadline = TRUE]

\* An error handler, a fan-in of a failing and a succeeding node, a condition
\* that leads to a node that may block, alone in its batch.
Handler ==
    [Blank EXCEPT !.data = (4 :> {2, 3}) @@ @,
                  !.next = (1 :> 2) @@ (2 :> 5) @@ @,
                  !.handler = (2 :> 6) @@ @,
                  !.alts = (5 :> {6, 7}) @@ @,
                  !.routes = (5 :> {6, 7, NoNode}) @@ @,
                  !.kind = (5 :> "condition") @@ (3 :> "agent") @@ (7 :> "agent") @@ @,
                  !.outputs = {4},
                  !.start = 1]

MCNode == 1..7
TemplateDocs == {ArtPipeline, Review, Handler}

-----------------------------------------------------------------------------
\* Families of small documents, so that no property rests on the shape of one
\* template.

Links(edges) == [n \in Node |-> {m \in Node : <<m, n>> \in edges}]

\* Forward documents: every choice of four data links, a control edge that
\* agrees or disagrees with them, an error handler or none, and the output.
ForwardDocs ==
    {[Blank EXCEPT !.data = Links(edges), !.next = next @@ @,
                   !.handler = (2 :> handler) @@ @, !.outputs = outputs] :
        edges \in SUBSET {<<1, 2>>, <<1, 3>>, <<2, 4>>, <<3, 4>>},
        next \in {1 :> 3, 2 :> 4},
        handler \in {NoNode, 5},
        outputs \in {{4}, {3, 5}}}

\* Branches: a condition 1 that leads to 2 or by 3 to 4, where they may meet,
\* with and without data links that cross them.
BranchDocs(output, last) ==
    {[Blank EXCEPT !.data = Links(edges),
                   !.next = (2 :> next) @@ (3 :> 4) @@ (4 :> last) @@ @,
                   !.alts = (1 :> {2, 3}) @@ @,
                   !.routes = (1 :> {2, 3}) @@ @,
                   !.kind = (1 :> "condition") @@ @,
                   !.outputs = {output}] :
        edges \in SUBSET {<<1, 3>>, <<2, 4>>, <<3, 4>>},
        next \in {NoNode, 4}}

AllBranchDocs == BranchDocs(4, NoNode) \cup BranchDocs(5, 5)

\* Loops: 1 -> 2 -> gate 3, which routes to 5 or to the loop-safe 4, which
\* leads back to 2; 5 and 6 may link to the nodes of the loop.
LoopNode == 1..6

LoopDoc(edges, kind, deadline) ==
    [Blank EXCEPT !.data = Links(edges),
                  !.next = (1 :> 2) @@ (2 :> 3) @@ (4 :> 2) @@ @,
                  !.alts = (3 :> {4, 5}) @@ @,
                  !.routes = (3 :> {4, 5}) @@ @,
                  !.retry = (4 :> 2) @@ @,
                  !.exhausted = (4 :> 5) @@ @,
                  !.kind = (3 :> "gate") @@ (4 :> kind) @@ @,
                  !.outputs = {5, 6},
                  !.deadline = deadline]

LoopDocs ==
    {LoopDoc(edges, kind, FALSE) :
        edges \in SUBSET {<<1, 2>>, <<3, 5>>, <<2, 6>>}, kind \in {"wait", "refine"}}

DeadlineDocs ==
    {LoopDoc({<<2, 3>>, <<3, 5>>}, kind, TRUE) : kind \in {"wait", "refine"}}

AllLoopDocs == LoopDocs \cup DeadlineDocs

MCDocs == TemplateDocs \cup ForwardDocs \cup BranchDocs(4, NoNode) \cup AllLoopDocs

ArtDocs == {ArtPipeline}
ReviewDocs == {Review}
=============================================================================
