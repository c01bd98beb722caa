------------------------------ MODULE DagBuilder ------------------------------
(***************************************************************************)
(* The DAG builder as a whole (src/hathor/dag_builder/builder.py): the     *)
(* recorder operations of DagRegistry build the registry from a script,    *)
(* then build() (lines 202-205) runs the filler and hands the generator    *)
(* topological_sorting() to the exporter, which consumes it.  The sort is  *)
(* TopoSort, instantiated on the live registry: its keys are the keys of   *)
(* self._nodes and its graph is node.get_all_dependencies() of each node.  *)
(*                                                                         *)
(* The filler only fills numeric attributes (it keeps names, edges and     *)
(* kinds), so it leaves the modelled state unchanged and is not a step.    *)
(***************************************************************************)
EXTENDS DagRegistry

VARIABLES direct_deps, candidates, emitted, pc, scan

sortVars == <<direct_deps, candidates, emitted, pc, scan>>

vars == <<regVars, sortVars>>

(* DAGNode.get_all_dependencies() (hathor/dag_builder/types.py): the      *)
(* parents, the nodes spent from and the explicit and token dependencies.  *)
AllDeps == [n \in Created |->
               nodes[n].parents \cup {inp[1] : inp \in nodes[n].inputs}
                                \cup nodes[n].deps]

Sort == INSTANCE TopoSort WITH graph <- AllDeps

Init ==
    /\ RegInit
    /\ direct_deps = [x \in {} |-> {}]
    /\ candidates = <<>>
    /\ emitted = <<>>
    /\ pc = "setup"
    /\ scan = 0

(* parse_tokens: a recorder step, before build() started the sort.        *)
Parse ==
    /\ pc = "setup"
    /\ scan = 0
    /\ RegNext
    /\ UNCHANGED sortVars

(* build(): once the script is parsed (no assert fired), the exporter     *)
(* drives the sort, one step of the generator at a time; the registry is  *)
(* read-only from then on.                                                 *)
SortStep(A) ==
    /\ status = "ok"
    /\ chain = <<>>
    /\ UNCHANGED <<nodes, status, chain, prev, ops>>
    /\ A

Build == SortStep(Sort!SetupStep) \/ SortStep(Sort!SetupDone)

SortLoop == SortStep(Sort!Fail) \/ SortStep(Sort!Emit) \/ SortStep(Sort!Finish)

Next == Parse \/ Build \/ SortLoop

(* Once build() has started, the exporter consumes the generator to its   *)
(* end.  Nothing forces build() to be called, so Build itself is not fair. *)
Spec == Init /\ [][Next]_vars /\ WF_vars(SortLoop)

-----------------------------------------------------------------------------
TypeOK ==
    /\ RegTypeOK
    /\ DOMAIN direct_deps \subseteq Created
    /\ candidates \in Seq(Created)
    /\ emitted \in Seq(Created)
    /\ pc \in {"setup", "loop", "done", "failed", "crashed"}
    /\ scan \in 0..Len(keys)

(* A script is rejected with 'there is at least one cycle' only when its   *)
(* dependencies really form a cycle: in particular every edge the          *)
(* recorder adds points at a registered node (a dangling dependency would  *)
(* never be released and be reported as a cycle).                          *)
NoFalseCycle == Sort!NoFalseCycle

(* The refinement mapping onto BuildSpec: the builder is recording until  *)
(* the generator takes its first step, and the DAG is the live registry   *)
(* seen through get_all_dependencies().                                    *)
BuildStatus == IF pc = "setup" /\ scan = 0 THEN "recording" ELSE Sort!SortStatus

Promise == INSTANCE BuildSpec WITH graph <- AllDeps, out <- emitted, status <- BuildStatus

(* The builder keeps build_from_str's promise: the recorder only grows     *)
(* the DAG, never leaving a dependency that is not a node, and the         *)
(* exporter receives a topological order of the DAG as it stands when      *)
(* build() starts, or the cycle error when nothing left is ready.          *)
ImplementsBuildSpec == Promise!BuildSafe

=============================================================================
