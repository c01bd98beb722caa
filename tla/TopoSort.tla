------------------------------ MODULE TopoSort ------------------------------
(***************************************************************************)
(* The topological sort engine of the DAG builder:                        *)
(* DAGBuilder.topological_sorting (src/hathor/dag_builder/builder.py,      *)
(* lines 166-200).  It is a Python generator: its first resumption runs    *)
(* the set-up loop over the registry (direct_deps, rev_deps, the initial   *)
(* candidates), then every resumption pops one candidate (LIFO), releases  *)
(* the nodes that depended on it and yields it.  When the candidate list   *)
(* runs dry before |nodes| names were yielded it raises RuntimeError       *)
(* ("there is at least one cycle").                                        *)
(*                                                                         *)
(* The registry the sort reads is the variable pair (keys, graph): keys is *)
(* the insertion order of the dict self._nodes, graph[n] the set           *)
(* node.get_all_dependencies() of node n.  Neither changes while the sort  *)
(* runs; the initial state may be any registry over Names, which is what   *)
(* the builder's recorder operations can produce.                          *)
(*                                                                         *)
(* rev_deps[x] is a Python set of strings, and the iteration order of a    *)
(* set of strings depends on the string hash seed of the process: the     *)
(* order in which released dependents are appended to the candidate list  *)
(* is therefore a nondeterministic choice among all orderings.            *)
(***************************************************************************)
EXTENDS Naturals, Sequences, FiniteSets

CONSTANT Names          \* the node names a registry may hold

ASSUME NamesAssumption == IsFiniteSet(Names)

VARIABLES
    keys,          \* <<n1, n2, ...>>: the keys of self._nodes, in insertion order
    graph,         \* graph[n] = set(node.get_all_dependencies())
    direct_deps,   \* the dict direct_deps: remaining dependencies per node
    candidates,    \* the list candidates (popped from its end)
    emitted,       \* the names yielded so far, in order (seen is its range)
    pc,            \* "setup", "loop", "done", "failed" (RuntimeError) or
                   \* "crashed" (an assert or a KeyError inside the loop)
    scan           \* items of self._nodes the first loop has processed

vars == <<keys, graph, direct_deps, candidates, emitted, pc, scan>>

-----------------------------------------------------------------------------
(* Helpers on sequences and sets.                                          *)

SeqRange(s) == {s[i] : i \in DOMAIN s}

NoDup(s) == \A i, j \in DOMAIN s : s[i] = s[j] => i = j

(* All the ways of listing the finite set S once each: the orders in which *)
(* a Python set may be iterated.                                           *)
Orderings(S) == {s \in [1..Cardinality(S) -> S] : NoDup(s)}

(* The registries: duplicate-free key sequences over Names.                *)
KeySeqs == UNION {{s \in [1..k -> Names] : NoDup(s)} : k \in 0..Cardinality(Names)}

-----------------------------------------------------------------------------
Nodes == SeqRange(keys)

N == Len(keys)                         \* len(self._nodes)

seen == SeqRange(emitted)

(* Mutant: the last candidate read with candidates[-1] but not removed.   *)
PeekLast(s) == s

(* The list left by candidates.pop() (line 191).                          *)
PopLast(s) == [i \in 1..Len(s) - 1 |-> s[i]]

(* rev_deps[x]: the nodes whose dependency set contains x.                 *)
RevDeps(x) == {n \in Nodes : x \in graph[n]}

-----------------------------------------------------------------------------
Init ==
    /\ keys \in KeySeqs
    /\ graph \in [Nodes -> SUBSET Nodes]
    /\ direct_deps = [x \in {} |-> {}]
    /\ candidates = <<>>
    /\ emitted = <<>>
    /\ pc = "setup"
    /\ scan = 0

(* Mutants: direct_deps kept as a defaultdict over every name; every node *)
(* seeded as a candidate whatever its dependencies.                        *)
StoreDepsDefault(dd, name) ==
    [x \in Names |-> IF x = name THEN graph[name]
                    ELSE IF x \in DOMAIN dd THEN dd[x] ELSE {}]

IsSeedAlways(name) == TRUE

(* direct_deps[name] = deps (line 176).                                    *)
StoreDeps(dd, name) ==
    [x \in DOMAIN dd \cup {name} |-> IF x = name THEN graph[name] ELSE dd[x]]

(* if len(deps) == 0 (line 179).                                           *)
IsSeed(name) == graph[name] = {}

(* Lines 172-180: one iteration of the first loop, over the next item of   *)
(* self._nodes in insertion order.  The assert of line 175 aborts the      *)
(* generator if the name already has an entry; the node is a candidate     *)
(* when it has no dependency.  (rev_deps is derived from graph: RevDeps.)  *)
SetupStep ==
    /\ pc = "setup"
    /\ scan < N
    /\ LET name == keys[scan + 1]
       IN  IF name \in DOMAIN direct_deps
           THEN /\ pc' = "crashed"
                /\ UNCHANGED <<keys, graph, direct_deps, candidates, emitted, scan>>
           ELSE /\ direct_deps' = StoreDeps(direct_deps, name)
                /\ candidates' = IF IsSeed(name) THEN Append(candidates, name)
                                                 ELSE candidates
                /\ scan' = scan + 1
                /\ UNCHANGED <<keys, graph, emitted, pc>>

(* Line 182: the first loop is over and the main loop starts.             *)
SetupDone ==
    /\ pc = "setup"
    /\ scan = N
    /\ pc' = "loop"
    /\ UNCHANGED <<keys, graph, direct_deps, candidates, emitted, scan>>

(* Mutant: the loop runs once more than len(self._nodes).                  *)
FailExtraIteration ==
    /\ pc = "loop"
    /\ Len(emitted) <= N
    /\ candidates = <<>>
    /\ pc' = "failed"
    /\ UNCHANGED <<keys, graph, direct_deps, candidates, emitted, scan>>

(* Lines 183-190: no candidate left although fewer than len(self._nodes)   *)
(* names were yielded: RuntimeError('there is at least one cycle').        *)
Fail ==
    /\ pc = "loop"
    /\ Len(emitted) < N
    /\ candidates = <<>>
    /\ pc' = "failed"
    /\ UNCHANGED <<keys, graph, direct_deps, candidates, emitted, scan>>

(* Lines 191-200: one iteration.  pop() takes the last candidate; the      *)
(* assert of line 192 and the remove() of line 195 abort the generator     *)
(* when they fail; every dependent whose remaining set becomes empty is    *)
(* appended (in the iteration order of the set rev_deps[name]) and deleted *)
(* from direct_deps; the popped node is yielded.                           *)
Emit ==
    /\ pc = "loop"
    /\ Len(emitted) < N
    /\ candidates # <<>>
    /\ LET name     == candidates[Len(candidates)]
           rest     == PopLast(candidates)
           released == {d \in RevDeps(name) : direct_deps[d] = {name}}
       IN  IF \/ name \in seen
              \/ \E d \in RevDeps(name) :
                    d \notin DOMAIN direct_deps \/ name \notin direct_deps[d]
           THEN /\ pc' = "crashed"
                /\ UNCHANGED <<keys, graph, direct_deps, candidates, emitted, scan>>
           ELSE /\ direct_deps' =
                      [d \in DOMAIN direct_deps \ released |->
                          IF d \in RevDeps(name) THEN direct_deps[d] \ {name}
                                                 ELSE direct_deps[d]]
                /\ \E order \in Orderings(released) :
                      candidates' = rest \o order
                /\ emitted' = Append(emitted, name)
                /\ pc' = "loop"
                /\ UNCHANGED <<keys, graph, scan>>

(* Line 182: the for loop ran len(self._nodes) times; the generator        *)
(* returns.                                                                *)
Finish ==
    /\ pc = "loop"
    /\ Len(emitted) = N
    /\ pc' = "done"
    /\ UNCHANGED <<keys, graph, direct_deps, candidates, emitted, scan>>

Next == SetupStep \/ SetupDone \/ Fail \/ Emit \/ Finish

(* The exporter consumes the generator to its end (build(), line 205), so  *)
(* every enabled step of the sort is eventually taken.                     *)
Spec == Init /\ [][Next]_vars /\ WF_vars(Next)

-----------------------------------------------------------------------------
(***************************************************************************)
(* Properties.                                                             *)
(***************************************************************************)

TypeOK ==
    /\ keys \in KeySeqs
    /\ graph \in [Nodes -> SUBSET Nodes]
    /\ DOMAIN direct_deps \subseteq Nodes
    /\ direct_deps \in [DOMAIN direct_deps -> SUBSET Nodes]
    /\ candidates \in Seq(Nodes)
    /\ emitted \in Seq(Nodes)
    /\ pc \in {"setup", "loop", "done", "failed", "crashed"}
    /\ scan \in 0..N

(* The graph has a cycle: some non-empty set of nodes in which every node  *)
(* depends on another member of the set.                                   *)
HasCycle ==
    \E S \in SUBSET Nodes : S # {} /\ \A n \in S : graph[n] \cap S # {}

(* Every node the generator yields comes after all the nodes it depends on *)
(* (its parents, the nodes it spends from and its ordering dependencies):  *)
(* the exporter can resolve each vertex from vertices already built.       *)
DepsBeforeDependents ==
    \A i \in 1..Len(emitted) :
        graph[emitted[i]] \subseteq {emitted[j] : j \in 1..i - 1}

(* The loop never trips its own assert or a KeyError, yields no node       *)
(* twice, and when the generator returns it has yielded every node of the  *)
(* registry.                                                               *)
ExactlyOnce ==
    /\ pc # "crashed"
    /\ NoDup(emitted)
    /\ pc = "done" => seen = Nodes

(* RuntimeError('there is at least one cycle') is raised only when the     *)
(* dependency graph really has a cycle.                                    *)
NoFalseCycle == pc = "failed" => HasCycle

(***************************************************************************)
(* The inductive invariant behind DepsBeforeDependents (TopoSortProofs):   *)
(* every candidate waits for nothing that is not yielded yet, and the      *)
(* remaining set of every node still in direct_deps is exactly its        *)
(* dependencies that are not yielded yet.                                  *)
(***************************************************************************)
CandidatesReady == \A i \in 1..Len(candidates) : graph[candidates[i]] \subseteq seen

(* What is left in direct_deps[d] is what d still waits for.               *)
RemainingDeps == \A d \in DOMAIN direct_deps : direct_deps[d] = graph[d] \ seen

(* Nothing is yielded before the first loop is over.                      *)
SetupEmitsNothing == pc = "setup" => emitted = <<>>

(* The conjunction, proved inductive in TopoSortProofs.                    *)
SortInv ==
    /\ TypeOK
    /\ DepsBeforeDependents
    /\ CandidatesReady
    /\ RemainingDeps
    /\ SetupEmitsNothing

(***************************************************************************)
(* The inductive invariant behind ExactlyOnce, NoFalseCycle and the        *)
(* refinement of SortSpec (SortRefinementProofs).                          *)
(***************************************************************************)
(* The names the first loop has gone over.                                 *)
Scanned == {keys[i] : i \in 1..scan}

(* During the first loop, direct_deps holds the names gone over and the    *)
(* candidates are those of them with no dependency.                        *)
SetupProgress ==
    pc = "setup" =>
        /\ DOMAIN direct_deps = Scanned
        /\ SeqRange(candidates) = {n \in Scanned : graph[n] = {}}

(* After it, a node is deleted from direct_deps only once it is ready.     *)
Tracked ==
    pc # "setup" =>
        \A d \in Nodes : ~(graph[d] \subseteq seen) => d \in DOMAIN direct_deps

(* No candidate is listed twice or was yielded already.                   *)
CandidatesFresh == NoDup(candidates) /\ SeqRange(candidates) \cap seen = {}

(* In the main loop every ready node not yielded yet is a candidate.       *)
ReadyAreCandidates ==
    pc \in {"loop", "failed"} =>
        \A n \in Nodes \ seen : graph[n] \subseteq seen => n \in SeqRange(candidates)

(* How the generator ended: never by an abort; by returning after          *)
(* len(self._nodes) names; by raising with no candidate and fewer names.   *)
Ended ==
    /\ pc # "crashed"
    /\ pc = "done" => Len(emitted) = N
    /\ pc = "failed" => candidates = <<>> /\ Len(emitted) < N

RefInv ==
    /\ SortInv
    /\ NoDup(emitted)
    /\ SetupProgress
    /\ Tracked
    /\ CandidatesFresh
    /\ ReadyAreCandidates
    /\ Ended

(***************************************************************************)
(* The generator implements the promise of SortSpec: the yielded names are *)
(* its out, and the generator is running while it sets up or loops.  An    *)
(* abort (pc = "crashed") maps to no state of SortSpec.                    *)
(***************************************************************************)
SortStatus == IF pc \in {"setup", "loop"} THEN "running" ELSE pc

Abs == INSTANCE SortSpec WITH out <- emitted, status <- SortStatus

(* The generator hands out each node after its dependencies and at most    *)
(* once, ends by returning with every node handed out or by raising when   *)
(* no remaining node is ready, and does end (the exporter pulls to the     *)
(* end): DAGBuilder.topological_sorting implements SortSpec.               *)
ImplementsSortSpec == Abs!ASpec

(* Spec, section 8: a script with a cycle must fail with CyclicDependency  *)
(* "and must not emit any partial sequence".  The generator yields every   *)
(* node it can before it finds that the candidates ran out.                *)
NoPartialEmission == pc = "failed" => emitted = <<>>

=============================================================================
