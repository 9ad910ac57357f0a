---------------------------- MODULE ExecutionList ----------------------------
(***************************************************************************)
(* The scheduler of one workflow run: the classes TopologicalSort and      *)
(* ExecutionList of workflow/engine/graph.py, as pure operators on a       *)
(* document d and a scheduler state s.  An operator returns the scheduler  *)
(* state its method leaves behind; WorkflowExecutor composes them in the   *)
(* order the executor calls them.                                          *)
(*                                                                         *)
(* Node identifiers are natural numbers because the code stages nodes in   *)
(* the order of their (string) ids.                                        *)
(***************************************************************************)
EXTENDS Naturals, FiniteSets

CONSTANTS
    Node,       \* the node ids of the documents
    NoNode,     \* a control edge that is absent, a route that was not taken
    Unrouted    \* no select_branch call was made for the node yet

ASSUME NodeAssumption ==
    /\ Node \subseteq Nat
    /\ NoNode \notin Node
    /\ Unrouted \notin Node \cup {NoNode}

Target == Node \cup {NoNode}

(***************************************************************************)
(* A document.  data[n] are the nodes n links to as inputs.  next, alts    *)
(* (conditions, else, on_reject) and branches (of a ParallelNode) are the  *)
(* control edges the scheduler knows; handler is control.error_handler;    *)
(* routes[n] are the nodes n's own code may name as next_node, which the   *)
(* scheduler learns of only when n returns one of them.                    *)
(***************************************************************************)
Kind == {"task", "wait", "condition", "gate", "refine", "review", "agent"}

Document ==
    [data : [Node -> SUBSET Node],
     next : [Node -> Target],
     alts : [Node -> SUBSET Node],
     branches : [Node -> SUBSET Node],
     handler : [Node -> Target],
     routes : [Node -> SUBSET Target],
     retry : [Node -> Target],
     exhausted : [Node -> Target],
     kind : [Node -> Kind],
     cacheable : SUBSET Node,
     outputs : SUBSET Node,
     start : Node,
     deadline : BOOLEAN]

(***************************************************************************)
(* A scheduler state.  strong_links is represented by the set of nodes     *)
(* add_node has walked: their links are those of the document.             *)
(* pruned_edges is derived: select_branch recomputes a node's pruned edges *)
(* whenever it records the node's chosen successor.                        *)
(***************************************************************************)
Scheduler ==
    [ready : SUBSET Node,
     inProgress : SUBSET Node,
     completed : SUBSET Node,
     skipped : SUBSET Node,
     blocked : SUBSET Node,
     walked : SUBSET Node,
     chosen : [Node -> Target \cup {Unrouted}],
     cancelled : BOOLEAN]

EmptyScheduler ==
    [ready |-> {}, inProgress |-> {}, completed |-> {}, skipped |-> {},
     blocked |-> {}, walked |-> {}, chosen |-> [n \in Node |-> Unrouted],
     cancelled |-> FALSE]

-----------------------------------------------------------------------------
\* TopologicalSort: the edges that are active now.

\* The successors select_branch distributes over.
Choices(d, n) == ({d.next[n]} \ {NoNode}) \cup d.alts[n]

SuccessorsOf(d, s, n) ==
    IF s.chosen[n] # Unrouted THEN {s.chosen[n]} \ {NoNode}
                              ELSE Choices(d, n) \cup d.branches[n]

StrongLinks(d, s, n) == IF n \in s.walked THEN d.data[n] ELSE {}

Dependents(d, s, n) == {m \in s.walked : n \in d.data[m]}

\* The edges in pruned_edges.
PrunedEdge(d, s, n, m) ==
    s.chosen[n] # Unrouted /\ m \in Choices(d, n) \ {s.chosen[n]}

Finished(s) == s.completed \cup s.skipped

RemainingDeps(d, s, n) == StrongLinks(d, s, n) \ Finished(s)

\* The least set that contains S and is closed under step: what a
\* stack-and-seen walk from S visits.
Closed(S, step) ==
    {T \in SUBSET Node : S \subseteq T /\ \A n \in T : step[n] \subseteq T}

Walk(S, step) ==
    LET closed == Closed(S, step) IN {n \in Node : \A T \in closed : n \in T}

\* The nodes that node ids in S take inputs from.
Linked(d, S) == UNION {d.data[n] : n \in S}

\* detect_cycles, over the links of the output nodes: some of the nodes they
\* are computed from wait for each other.
HasCycle(d) ==
    \E S \in SUBSET Walk(d.outputs, d.data) :
        S # {} /\ \A n \in S : d.data[n] \cap S # {}

-----------------------------------------------------------------------------
\* Construction and routing.

\* Mutants of AddNodes: the walked nodes are checked against the links as
\* they were before the walk; a completed node is made ready again.
AddNodesChecksFirst(d, s, seeds) ==
    LET seen == Walk(seeds, d.data)
    IN  [s EXCEPT !.walked = @ \cup seen,
                  !.ready = @ \cup {n \in seen \ (s.completed \cup s.inProgress) :
                                       RemainingDeps(d, s, n) = {}}]

AddNodesAgain(d, s, seeds) ==
    LET seen == Walk(seeds, d.data)
        t == [s EXCEPT !.walked = @ \cup seen]
    IN  [t EXCEPT !.ready = @ \cup {n \in seen : RemainingDeps(d, t, n) = {}}]

\* add_node, for a set of seeds: the walk goes up the data links.
AddNodes(d, s, seeds) ==
    LET seen == Walk(seeds, d.data)
        t == [s EXCEPT !.walked = @ \cup seen]
    IN  [t EXCEPT !.ready = @ \cup {n \in seen \ (s.completed \cup s.inProgress) :
                                       RemainingDeps(d, t, n) = {}}]

AddNode(d, s, seed) == AddNodes(d, s, {seed})

\* _skip_subtree, for every pruned successor: the walk stops at a node that
\* is finished or that some walked node links to.
SkipSubtrees(d, s, roots) ==
    LET Skippable(n) == n \notin Finished(s) /\ Dependents(d, s, n) = {}
        down == [n \in Node |-> {m \in SuccessorsOf(d, s, n) : Skippable(m)}]
        skip == Walk({n \in roots : Skippable(n)}, down)
    IN  [s EXCEPT !.skipped = @ \cup skip, !.ready = @ \ skip]

SelectBranch(d, s, n, target) ==
    SkipSubtrees(d, [s EXCEPT !.chosen[n] = target], Choices(d, n) \ {target})

\* reopen: the cascade follows control successors and data dependents that
\* have already run.
Reopen(d, s, n) ==
    LET again == [m \in Node |->
                      (SuccessorsOf(d, s, m) \cup Dependents(d, s, m)) \cap Finished(s)]
        reset == Walk({n}, again)
    IN  AddNode(d, [s EXCEPT !.completed = @ \ reset, !.skipped = @ \ reset,
                             !.ready = @ \ reset, !.inProgress = @ \ reset], n)

\* Mutant of ReopenOrAdd: any finished target is reopened.
ReopenAlways(d, s, n, allowReopen) ==
    IF n \in Finished(s) THEN Reopen(d, s, n) ELSE AddNode(d, s, n)

ReopenOrAdd(d, s, n, allowReopen) ==
    IF allowReopen /\ n \in Finished(s) THEN Reopen(d, s, n) ELSE AddNode(d, s, n)

-----------------------------------------------------------------------------
\* Staging and completion.

\* stage_ready_batch: the first `limit' ready nodes in the order of their ids.
FirstReady(s, limit) ==
    {n \in s.ready : Cardinality({m \in s.ready : m < n}) < limit}

Stage(s, batch) ==
    [s EXCEPT !.ready = @ \ batch, !.inProgress = @ \cup batch]

\* Mutant of CompleteNode: dependents are not promoted.
CompleteNodeNoPromotion(d, s, n) ==
    [s EXCEPT !.inProgress = @ \ {n}, !.completed = @ \cup {n}]

\* complete_node_execution: a dependent is promoted unless the edge is pruned.
CompleteNode(d, s, n) ==
    LET t == [s EXCEPT !.inProgress = @ \ {n}, !.completed = @ \cup {n}]
    IN  [t EXCEPT !.ready = @ \cup {m \in Dependents(d, t, n) \ Finished(t) :
                                       ~PrunedEdge(d, t, n, m) /\ RemainingDeps(d, t, m) = {}}]

FailNode(s, n) == [s EXCEPT !.inProgress = @ \ {n}, !.skipped = @ \cup {n}]

AddExternalBlock(s, n) ==
    [s EXCEPT !.blocked = @ \cup {n}, !.inProgress = @ \ {n}, !.ready = @ \ {n}]

CancelList(s) == [s EXCEPT !.cancelled = TRUE]

\* Mutant of IsDone: the cancel flag is not looked at.
IsDoneIgnoresCancel(s) == s.ready \cup s.inProgress \cup s.blocked = {}

IsDone(s) == s.cancelled \/ s.ready \cup s.inProgress \cup s.blocked = {}
=============================================================================
