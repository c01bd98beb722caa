------------------------------ MODULE SortSpec ------------------------------
(***************************************************************************)
(* What the generator DAGBuilder.topological_sorting promises its          *)
(* consumer, the exporter (builder.py, lines 166-200, and the docstring    *)
(* of build()): it hands out the nodes of the registry one at a time, each *)
(* after every node it depends on and none twice, and it ends either by    *)
(* returning once every node was handed out or by raising the cycle error  *)
(* when each node not handed out yet waits for one that is not handed out  *)
(* either.  Which ready node comes next is left open.                      *)
(***************************************************************************)
EXTENDS Naturals, Sequences, FiniteSets

CONSTANT Names

VARIABLES
    keys,      \* the registry: the keys of self._nodes
    graph,     \* graph[n]: the dependencies of node n
    out,       \* the nodes handed out so far, in order
    status     \* "running", "done" (returned) or "failed" (raised)

avars == <<keys, graph, out, status>>

ANodes == {keys[i] : i \in DOMAIN keys}

Handed == {out[i] : i \in DOMAIN out}

(* A node is ready when every node it depends on was handed out.           *)
Ready(n) == graph[n] \subseteq Handed

AInit ==
    /\ keys \in Seq(Names)
    /\ graph \in [ANodes -> SUBSET ANodes]
    /\ out = <<>>
    /\ status = "running"

(* Hand out a ready node that was not handed out yet.                      *)
Yield(n) ==
    /\ status = "running"
    /\ n \in ANodes \ Handed
    /\ Ready(n)
    /\ out' = Append(out, n)
    /\ UNCHANGED <<keys, graph, status>>

(* Every node was handed out: return.                                      *)
Return ==
    /\ status = "running"
    /\ Handed = ANodes
    /\ status' = "done"
    /\ UNCHANGED <<keys, graph, out>>

(* Nodes are left and none of them is ready: raise the cycle error.        *)
Raise ==
    /\ status = "running"
    /\ ANodes \ Handed # {}
    /\ \A n \in ANodes \ Handed : ~Ready(n)
    /\ status' = "failed"
    /\ UNCHANGED <<keys, graph, out>>

ANext == (\E n \in Names : Yield(n)) \/ Return \/ Raise

(* The safety part, and the whole promise: the consumer pulls until the    *)
(* generator ends.                                                         *)
ASafe == AInit /\ [][ANext]_avars

ASpec == ASafe /\ WF_avars(ANext)

=============================================================================
