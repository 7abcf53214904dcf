------------------------------ MODULE LocalActions ------------------------------
(***************************************************************************)
(* How exact_run_aggregation.py finds everything a batch executes: the      *)
(* external references of its workflows and of the local composite actions  *)
(* they reach, resolved depth first with a stack of active actions and a    *)
(* cache for each workflow.  A set of references is walked in any order, as *)
(* Python's sets are.                                                       *)
(*                                                                         *)
(* A tree is what a commit holds: the workflows in the order they are read, *)
(* the local actions each uses, and the external references of both.        *)
(***************************************************************************)
EXTENDS Naturals, Sequences, FiniteSets

CONSTANTS
    Workflows,      \* workflow files
    Actions,        \* local composite actions
    MaxActive,      \* actions that may be active at once, 64
    MaxCached       \* actions that may be cached for a workflow, 256

ASSUME LocalActionsConstants ==
    /\ MaxActive \in Nat \ {0} /\ MaxCached \in Nat /\ MaxActive <= MaxCached
    /\ IsFiniteSet(Actions)

VARIABLE scan       \* the discovery under way

References == {"pinned", "mutable"}     \* external references: by full SHA or digest, or not

Tree ==
    [order : Seq(Workflows), uses : [Workflows \cup Actions -> SUBSET Actions],
     external : [Workflows \cup Actions -> SUBSET References],
     malformed : SUBSET Actions]        \* no single composite manifest, or one that calls a workflow

Frame == [action : Actions, todo : SUBSET Actions,
          external : SUBSET References, local : SUBSET Actions]
Found == [external : SUBSET References, local : SUBSET Actions]

ScanTypeOK ==
    /\ scan.verdict \in {"none", "scanning", "found", "refused"}
    /\ scan.workflows \in Seq(Workflows) /\ scan.roots \subseteq Actions
    /\ scan.stack \in Seq(Frame) /\ Len(scan.stack) <= MaxActive
    /\ DOMAIN scan.cache \subseteq Actions /\ Cardinality(DOMAIN scan.cache) <= MaxCached + MaxActive
    /\ \A a \in DOMAIN scan.cache : scan.cache[a] \in Found
    /\ scan.external \subseteq References /\ scan.local \subseteq Actions

NoScan == [verdict |-> "none", workflows |-> <<>>, roots |-> {}, stack |-> <<>>,
           cache |-> [a \in {} |-> [external |-> {}, local |-> {}]], external |-> {}, local |-> {}]

BeginScan(tree) == [NoScan EXCEPT !.verdict = "scanning", !.workflows = tree.order]

-----------------------------------------------------------------------------
Active == {scan.stack[i].action : i \in DOMAIN scan.stack}

\* Wrong variant: only the names of nested actions are passed on.
AbsorbLocal(s, found) ==
    IF s.stack = <<>> THEN [s EXCEPT !.local = @ \cup found.local]
    ELSE [s EXCEPT !.stack[Len(s.stack)].local = @ \cup found.local]

\* What a call has found goes to the caller: the action on top of the stack, or the workflow.
Absorb(s, found) ==
    IF s.stack = <<>>
    THEN [s EXCEPT !.external = @ \cup found.external, !.local = @ \cup found.local]
    ELSE LET top == Len(s.stack)
             caller == s.stack[top]
         IN [s EXCEPT !.stack[top] = [caller EXCEPT !.external = @ \cup found.external,
                                                    !.local = @ \cup found.local]]

Known(a) == a \in DOMAIN scan.cache

Unresolvable(tree, a) ==
    \/ a \in Active \/ Len(scan.stack) >= MaxActive
    \/ Cardinality(DOMAIN scan.cache) >= MaxCached
    \/ a \in tree.malformed

\* A call for one reference, which the caller has taken from its set in s
Enter(tree, s, a) ==
    IF Known(a) THEN Absorb(s, scan.cache[a])
    ELSE IF Unresolvable(tree, a) THEN [NoScan EXCEPT !.verdict = "refused"]
    ELSE [s EXCEPT !.stack = Append(@, [action |-> a, todo |-> tree.uses[a],
                                        external |-> tree.external[a], local |-> {a}])]

\* The next workflow, with a cache of its own
NextWorkflow(tree) ==
    /\ scan.stack = <<>> /\ scan.roots = {} /\ scan.workflows # <<>>
    /\ LET w == Head(scan.workflows) IN
         scan' = [scan EXCEPT !.workflows = SubSeq(@, 2, Len(@)), !.roots = tree.uses[w],
                              !.cache = NoScan.cache, !.external = @ \cup tree.external[w]]

EnterRoot(tree) ==
    /\ scan.stack = <<>>
    /\ \E a \in scan.roots : scan' = Enter(tree, [scan EXCEPT !.roots = @ \ {a}], a)

EnterNested(tree) ==
    LET top == Len(scan.stack) IN
      /\ top > 0
      /\ \E a \in scan.stack[top].todo :
           scan' = Enter(tree, [scan EXCEPT !.stack[top].todo = @ \ {a}], a)

\* An action is resolved when all it uses are.
Leave ==
    LET top == Len(scan.stack) IN
      /\ top > 0 /\ scan.stack[top].todo = {}
      /\ LET frame == scan.stack[top]
             found == [external |-> frame.external, local |-> frame.local]
             cached == [a \in DOMAIN scan.cache \cup {frame.action} |->
                          IF a = frame.action THEN found ELSE scan.cache[a]]
         IN scan' = Absorb([scan EXCEPT !.stack = SubSeq(@, 1, top - 1), !.cache = cached], found)

EndScan ==
    /\ scan.stack = <<>> /\ scan.roots = {} /\ scan.workflows = <<>>
    /\ scan' = [scan EXCEPT !.verdict = "found", !.cache = NoScan.cache]

\* The steps of a discovery under way in a tree
ScanStep(tree) ==
    /\ scan.verdict = "scanning"
    /\ NextWorkflow(tree) \/ EnterRoot(tree) \/ EnterNested(tree) \/ Leave \/ EndScan

-----------------------------------------------------------------------------
\* What a tree executes, without any walk: the least set of actions that holds what the
\* workflows use and what its members use
Closed(tree, set) == \A a \in set : tree.uses[a] \subseteq set
ReachableFrom(tree, roots) ==
    {a \in Actions : \A set \in SUBSET Actions : roots \subseteq set /\ Closed(tree, set) => a \in set}

WorkflowsOf(tree) == {tree.order[i] : i \in DOMAIN tree.order}
Reachable(tree) == ReachableFrom(tree, UNION {tree.uses[w] : w \in WorkflowsOf(tree)})
Executed(tree) == UNION {tree.external[x] : x \in Reachable(tree) \cup WorkflowsOf(tree)}
Cyclic(tree) == \E a \in Reachable(tree) : a \in ReachableFrom(tree, tree.uses[a])

\* The discovery finds exactly what the tree executes, of a tree with no cycle and nothing
\* malformed in reach; one cache for a whole workflow loses nothing, whatever the order
\* (exact_run_aggregation.py:2276-2298, 2389-2447).
ScanExact(tree) ==
    scan.verdict = "found" =>
        /\ scan.local = Reachable(tree) /\ scan.external = Executed(tree)
        /\ ~Cyclic(tree) /\ Reachable(tree) \cap tree.malformed = {}

\* A refusal has a reason in the tree: a cycle, a malformed action, or more actions than the
\* limits allow (exact_run_aggregation.py:2397-2398).
RefusalJustified(tree) ==
    scan.verdict = "refused" =>
        \/ Cyclic(tree) \/ Reachable(tree) \cap tree.malformed # {}
        \/ Cardinality(Reachable(tree)) > MaxActive \/ Cardinality(Reachable(tree)) > MaxCached
=============================================================================
