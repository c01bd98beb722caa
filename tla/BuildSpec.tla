------------------------------ MODULE BuildSpec ------------------------------
(***************************************************************************)
(* What the DAG builder promises as a whole (build_from_str, builder.py    *)
(* lines 207-210): while parse_tokens records the script, the DAG only     *)
(* grows (nodes are added and gain dependencies, none is lost, and every   *)
(* dependency is a node); build() then hands the nodes of the DAG as it    *)
(* stands one at a time, each after the nodes it depends on and none       *)
(* twice, and ends by returning once all were handed out or by raising the *)
(* cycle error when no node left is ready.  The second phase is SortSpec   *)
(* on a DAG that no longer changes.                                        *)
(***************************************************************************)
EXTENDS Naturals, Sequences

CONSTANT Names

VARIABLES
    graph,     \* graph[n]: the dependencies of node n; DOMAIN graph: the nodes
    out,       \* the nodes handed out so far, in order
    status     \* "recording", then "running", "done" or "failed"

bvars == <<graph, out, status>>

BNodes == DOMAIN graph

Handed == {out[i] : i \in DOMAIN out}

(* A DAG over names whose every dependency is a node.                      *)
IsGraph(g) ==
    /\ DOMAIN g \subseteq Names
    /\ g \in [DOMAIN g -> SUBSET DOMAIN g]

Ready(n) == graph[n] \subseteq Handed

BuildInit ==
    /\ graph = [n \in {} |-> {}]
    /\ out = <<>>
    /\ status = "recording"

(* A recorded operation: the DAG grows, keeping every node and dependency. *)
Record ==
    /\ status = "recording"
    /\ IsGraph(graph')
    /\ BNodes \subseteq DOMAIN graph'
    /\ \A n \in BNodes : graph[n] \subseteq graph'[n]
    /\ UNCHANGED <<out, status>>

(* build() starts the sort on the DAG as it stands.                        *)
Start ==
    /\ status = "recording"
    /\ status' = "running"
    /\ UNCHANGED <<graph, out>>

(* Hand out a ready node that was not handed out yet.                      *)
Yield(n) ==
    /\ status = "running"
    /\ n \in BNodes \ Handed
    /\ Ready(n)
    /\ out' = Append(out, n)
    /\ UNCHANGED <<graph, status>>

(* Every node was handed out: return.                                      *)
Return ==
    /\ status = "running"
    /\ Handed = BNodes
    /\ status' = "done"
    /\ UNCHANGED <<graph, out>>

(* Nodes are left and none of them is ready: raise the cycle error.        *)
Raise ==
    /\ status = "running"
    /\ BNodes \ Handed # {}
    /\ \A n \in BNodes \ Handed : ~Ready(n)
    /\ status' = "failed"
    /\ UNCHANGED <<graph, out>>

BuildNext == Record \/ Start \/ (\E n \in Names : Yield(n)) \/ Return \/ Raise

BuildSafe == BuildInit /\ [][BuildNext]_bvars

=============================================================================
