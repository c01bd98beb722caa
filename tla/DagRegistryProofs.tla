-------------------------- MODULE DagRegistryProofs --------------------------
(***************************************************************************)
(* Proofs that the relationship recorder of the DAG builder                *)
(* (src/hathor/dag_builder/builder.py, lines 68-164, modelled in           *)
(* DagRegistry) keeps self._nodes well formed for every script: each node  *)
(* it holds is listed once among the keys, every name an edge points to    *)
(* is a node, and every (name, index) an input spends names a slot within *)
(* the output list of that node.                                           *)
(***************************************************************************)
EXTENDS DagRegistry, FiniteSetTheorems, SequenceTheorems, TLAPS

-----------------------------------------------------------------------------
(* The keys of self._nodes: names, each listed once.                       *)
KeysOK(ks) ==
    /\ ks \in Seq(Names)
    /\ \A i, j \in 1..Len(ks) : ks[i] = ks[j] => i = j

KeySet(ks) == {ks[i] : i \in 1..Len(ks)}

NodesOK(ns) == \A n \in DOMAIN ns : ns[n] \in DAGNode

(* Every edge of every node ends at a node, and a spent index is within   *)
(* the output list of the node spent from.                                 *)
Closed(ns) ==
    \A n \in DOMAIN ns :
        /\ ns[n].parents \subseteq DOMAIN ns
        /\ ns[n].deps \subseteq DOMAIN ns
        /\ \A inp \in ns[n].inputs :
               /\ inp[1] \in DOMAIN ns
               /\ inp[2] < Len(ns[inp[1]].outputs)

(* A key list and a dict of nodes the recorder may have built.             *)
WellFormed(ks, ns) ==
    /\ KeysOK(ks)
    /\ DOMAIN ns = KeySet(ks)
    /\ NodesOK(ns)
    /\ Closed(ns)

(* ns2 keeps every node of ns with all its edges and at least its outputs. *)
Kept(ns, ns2) ==
    \A n \in DOMAIN ns :
        /\ n \in DOMAIN ns2
        /\ ns[n].parents \subseteq ns2[n].parents
        /\ ns[n].inputs \subseteq ns2[n].inputs
        /\ ns[n].deps \subseteq ns2[n].deps
        /\ Len(ns[n].outputs) <= Len(ns2[n].outputs)

(* The inductive invariant of the recorder.                                *)
RegInv ==
    /\ WellFormed(keys, nodes)
    /\ status \in {"ok", "assert"}
    /\ chain \in Seq(Names)
    /\ prev \in Names \cup {None}
    /\ ops \in 0..MaxOps

-----------------------------------------------------------------------------
(* Appending a name the key list lacks, as a dict insertion does, keeps it *)
(* duplicate-free and adds the name.                                       *)
LEMMA AppendKeyOK ==
  ASSUME NEW ks, KeysOK(ks), NEW name \in Names
  PROVE  /\ KeysOK(AppendKey(ks, name))
         /\ KeySet(AppendKey(ks, name)) = KeySet(ks) \cup {name}
<1>1. CASE \E i \in 1..Len(ks) : ks[i] = name
  BY <1>1 DEF AppendKey, KeySet
<1>2. CASE ~\E i \in 1..Len(ks) : ks[i] = name
  <2>1. AppendKey(ks, name) = Append(ks, name)
    BY <1>2 DEF AppendKey
  <2>2. /\ Append(ks, name) \in Seq(Names)
        /\ Len(Append(ks, name)) = Len(ks) + 1
        /\ \A i \in 1..Len(ks) : Append(ks, name)[i] = ks[i]
        /\ Append(ks, name)[Len(ks) + 1] = name
    BY AppendProperties DEF KeysOK
  <2>3. Len(ks) \in Nat
    BY LenProperties DEF KeysOK
  <2>. QED
    BY <1>2, <2>1, <2>2, <2>3 DEF KeysOK, KeySet
<1>. QED
  BY <1>1, <1>2

(* outputs.extend([None] * (index - len(outputs) + 1)) leaves an output    *)
(* list that reaches the index and is no shorter than before.              *)
LEMMA GrowOK ==
  ASSUME NEW out \in Seq(OutValues), NEW i \in Nat
  PROVE  /\ Grow(out, i) \in Seq(OutValues)
         /\ Len(Grow(out, i)) >= Len(out)
         /\ i < Len(Grow(out, i))
<1>1. Len(out) \in Nat
  BY LenProperties
<1>2. CASE Len(out) <= i
  <2> DEFINE pad == [k \in 1..(i + 1 - Len(out)) |-> None]
  <2>1. i + 1 - Len(out) \in Nat
    BY <1>1, <1>2
  <2>2. pad \in Seq(OutValues) /\ Len(pad) = i + 1 - Len(out)
    BY <2>1 DEF OutValues
  <2>3. Grow(out, i) = out \o pad
    BY <1>2 DEF Grow
  <2>4. out \o pad \in Seq(OutValues) /\ Len(out \o pad) = Len(out) + Len(pad)
    BY <2>2, ConcatProperties
  <2>. QED
    BY <1>1, <1>2, <2>2, <2>3, <2>4
<1>3. CASE ~(Len(out) <= i)
  BY <1>1, <1>3 DEF Grow
<1>. QED
  BY <1>2, <1>3
(* Replacing one node of a well-formed dict by a node whose edges end at   *)
(* nodes, whose spent slots exist, and whose output list is no shorter,   *)
(* keeps the dict well formed: no spent slot of another node is lost.      *)
LEMMA UpdateOK ==
  ASSUME NEW ks, NEW ns, WellFormed(ks, ns), NEW name \in DOMAIN ns,
         NEW nd \in DAGNode,
         nd.parents \subseteq DOMAIN ns, nd.deps \subseteq DOMAIN ns,
         \A inp \in nd.inputs :
             inp[1] \in DOMAIN ns /\ inp[2] < Len(ns[inp[1]].outputs),
         Len(nd.outputs) >= Len(ns[name].outputs)
  PROVE  /\ WellFormed(ks, [ns EXCEPT ![name] = nd])
         /\ DOMAIN [ns EXCEPT ![name] = nd] = DOMAIN ns
         /\ [ns EXCEPT ![name] = nd][name] = nd
         /\ \A x \in DOMAIN ns \ {name} : [ns EXCEPT ![name] = nd][x] = ns[x]
<1> DEFINE r == [ns EXCEPT ![name] = nd]
<1>1. /\ DOMAIN r = DOMAIN ns
      /\ r[name] = nd
      /\ \A x \in DOMAIN ns \ {name} : r[x] = ns[x]
  OBVIOUS
<1>2. NodesOK(r)
  BY <1>1 DEF WellFormed, NodesOK
<1>3. \A x \in DOMAIN ns : Len(r[x].outputs) >= Len(ns[x].outputs)
  <2> SUFFICES ASSUME NEW x \in DOMAIN ns
               PROVE  Len(r[x].outputs) >= Len(ns[x].outputs)
    OBVIOUS
  <2>1. ns[x].outputs \in Seq(OutValues)
    BY DEF WellFormed, NodesOK, DAGNode
  <2>2. Len(ns[x].outputs) \in Nat
    BY <2>1, LenProperties
  <2>. QED
    BY <1>1, <2>2
<1>4. Closed(r)
  <2> SUFFICES ASSUME NEW n \in DOMAIN r
               PROVE  /\ r[n].parents \subseteq DOMAIN r
                      /\ r[n].deps \subseteq DOMAIN r
                      /\ \A inp \in r[n].inputs :
                             /\ inp[1] \in DOMAIN r
                             /\ inp[2] < Len(r[inp[1]].outputs)
    BY DEF Closed
  <2>1. \A inp \in r[n].inputs :
            inp[1] \in DOMAIN ns /\ inp[2] < Len(ns[inp[1]].outputs)
    BY <1>1 DEF WellFormed, Closed
  <2>2. \A inp \in r[n].inputs : inp[2] \in Nat
    BY <1>1, <1>2, RegistryAssumption DEF NodesOK, DAGNode
  <2>. QED
    BY <1>1, <1>3, <2>1, <2>2 DEF WellFormed, Closed
<1>. QED
  BY <1>1, <1>2, <1>4 DEF WellFormed

(* A key of the list is found by the membership test of AppendKey.         *)
LEMMA KeyFound ==
  ASSUME NEW ks, NEW name \in KeySet(ks)
  PROVE  AppendKey(ks, name) = ks
BY DEF KeySet, AppendKey

(* _get_or_create_node makes the name a node and removes none.            *)
LEMMA GetOrCreateDomain ==
  ASSUME NEW ns, NEW name, NEW dt
  PROVE  DOMAIN GetOrCreate(ns, name, dt) = DOMAIN ns \cup {name}
BY DEF GetOrCreate

(* ... and leaves the output list of every node as it was.               *)
LEMMA GetOrCreateOutputs ==
  ASSUME NEW ns, NodesOK(ns), NEW name, NEW dt
  PROVE  \A x \in DOMAIN ns : GetOrCreate(ns, name, dt)[x].outputs = ns[x].outputs
BY DEF GetOrCreate, NodesOK, DAGNode

(* _get_or_create_node keeps the dict well formed, makes the name a node  *)
(* and a key, and leaves the output list of every node unchanged.          *)
LEMMA GetOrCreateOK ==
  ASSUME NEW ks, NEW ns, WellFormed(ks, ns), NEW name \in Names,
         NEW dt \in Kinds \cup {Unknown}
  PROVE  /\ WellFormed(AppendKey(ks, name), GetOrCreate(ns, name, dt))
         /\ DOMAIN GetOrCreate(ns, name, dt) = DOMAIN ns \cup {name}
         /\ \A x \in DOMAIN ns : GetOrCreate(ns, name, dt)[x].outputs = ns[x].outputs
<1>1. CASE name \in DOMAIN ns /\ ns[name].type = Unknown
  <2> DEFINE nd == [ns[name] EXCEPT !.type = dt]
  <2>1. GetOrCreate(ns, name, dt) = [ns EXCEPT ![name] = nd]
    BY <1>1 DEF GetOrCreate
  <2>2. ns[name] \in DAGNode
    BY <1>1 DEF WellFormed, NodesOK
  <2>3. /\ nd \in DAGNode
        /\ nd.parents = ns[name].parents /\ nd.deps = ns[name].deps
        /\ nd.inputs = ns[name].inputs /\ nd.outputs = ns[name].outputs
    BY <2>2 DEF DAGNode
  <2>4. Len(nd.outputs) \in Nat
    BY <2>3, LenProperties DEF DAGNode
  <2>5. /\ nd.parents \subseteq DOMAIN ns /\ nd.deps \subseteq DOMAIN ns
        /\ \A inp \in nd.inputs :
               inp[1] \in DOMAIN ns /\ inp[2] < Len(ns[inp[1]].outputs)
    BY <1>1, <2>3 DEF WellFormed, Closed
  <2>6. AppendKey(ks, name) = ks
    BY <1>1, KeyFound DEF WellFormed
  <2> HIDE DEF nd
  <2>7. /\ WellFormed(ks, [ns EXCEPT ![name] = nd])
        /\ DOMAIN [ns EXCEPT ![name] = nd] = DOMAIN ns
        /\ [ns EXCEPT ![name] = nd][name] = nd
        /\ \A x \in DOMAIN ns \ {name} : [ns EXCEPT ![name] = nd][x] = ns[x]
    <3>1. Len(nd.outputs) >= Len(ns[name].outputs)
      BY <2>3, <2>4
    <3>. QED
      BY <1>1, <2>3, <2>5, <3>1, UpdateOK
  <2>. QED
    BY <1>1, <2>1, <2>3, <2>6, <2>7
<1>2. CASE name \in DOMAIN ns /\ ns[name].type # Unknown
  BY <1>2, KeyFound DEF GetOrCreate, WellFormed
<1>3. CASE name \notin DOMAIN ns
  <2> DEFINE r == [x \in DOMAIN ns \cup {name} |->
                     IF x = name THEN NewNode(dt) ELSE ns[x]]
  <2>1. GetOrCreate(ns, name, dt) = r
    BY <1>3 DEF GetOrCreate
  <2>2. KeysOK(AppendKey(ks, name)) /\ DOMAIN r = KeySet(AppendKey(ks, name))
    BY AppendKeyOK DEF WellFormed
  <2>3. NewNode(dt) \in DAGNode
    BY DEF NewNode, DAGNode
  <2>4. NodesOK(r)
    BY <2>3 DEF WellFormed, NodesOK
  <2>5. Closed(r)
    BY <1>3 DEF WellFormed, Closed, NewNode
  <2>. QED
    BY <1>3, <2>1, <2>2, <2>4, <2>5 DEF WellFormed
<1>. QED
  BY <1>1, <1>2, <1>3
(* Recording a parent edge between two nodes keeps the dict well formed. *)
LEMMA AddParentOK ==
  ASSUME NEW ks, NEW ns, WellFormed(ks, ns), NEW name \in DOMAIN ns, NEW to \in DOMAIN ns
  PROVE  /\ WellFormed(ks, [ns EXCEPT ![name].parents = @ \cup {to}])
         /\ DOMAIN [ns EXCEPT ![name].parents = @ \cup {to}] = DOMAIN ns
<1> DEFINE nd == [ns[name] EXCEPT !.parents = @ \cup {to}]
<1>1. [ns EXCEPT ![name].parents = @ \cup {to}] = [ns EXCEPT ![name] = nd]
  OBVIOUS
<1>0. DOMAIN ns \subseteq Names
  BY DEF WellFormed, KeysOK, KeySet
<1>2. ns[name] \in DAGNode
  BY DEF WellFormed, NodesOK
<1>3. nd \in DAGNode
  BY <1>0, <1>2 DEF DAGNode
<1>4. Len(ns[name].outputs) \in Nat
  BY <1>2, LenProperties DEF DAGNode
<1>5. /\ nd.parents \subseteq DOMAIN ns /\ nd.deps \subseteq DOMAIN ns
      /\ \A inp \in nd.inputs :
             inp[1] \in DOMAIN ns /\ inp[2] < Len(ns[inp[1]].outputs)
      /\ Len(nd.outputs) >= Len(ns[name].outputs)
  BY <1>2, <1>4 DEF WellFormed, Closed, DAGNode
<1> HIDE DEF nd
<1>. QED
  BY <1>1, <1>3, <1>5, UpdateOK

(* Recording a dependency between two nodes keeps the dict well formed.  *)
LEMMA AddDepOK ==
  ASSUME NEW ks, NEW ns, WellFormed(ks, ns), NEW name \in DOMAIN ns, NEW to \in DOMAIN ns
  PROVE  /\ WellFormed(ks, [ns EXCEPT ![name].deps = @ \cup {to}])
         /\ DOMAIN [ns EXCEPT ![name].deps = @ \cup {to}] = DOMAIN ns
<1> DEFINE nd == [ns[name] EXCEPT !.deps = @ \cup {to}]
<1>1. [ns EXCEPT ![name].deps = @ \cup {to}] = [ns EXCEPT ![name] = nd]
  OBVIOUS
<1>0. DOMAIN ns \subseteq Names
  BY DEF WellFormed, KeysOK, KeySet
<1>2. ns[name] \in DAGNode
  BY DEF WellFormed, NodesOK
<1>3. nd \in DAGNode
  BY <1>0, <1>2 DEF DAGNode
<1>4. Len(ns[name].outputs) \in Nat
  BY <1>2, LenProperties DEF DAGNode
<1>5. /\ nd.parents \subseteq DOMAIN ns /\ nd.deps \subseteq DOMAIN ns
      /\ \A inp \in nd.inputs :
             inp[1] \in DOMAIN ns /\ inp[2] < Len(ns[inp[1]].outputs)
      /\ Len(nd.outputs) >= Len(ns[name].outputs)
  BY <1>2, <1>4 DEF WellFormed, Closed, DAGNode
<1> HIDE DEF nd
<1>. QED
  BY <1>1, <1>3, <1>5, UpdateOK

(* Recording a spend of an existing slot keeps the dict well formed.     *)
LEMMA AddInputOK ==
  ASSUME NEW ks, NEW ns, WellFormed(ks, ns), NEW name \in DOMAIN ns,
         NEW to \in DOMAIN ns, NEW i \in Slots, i < Len(ns[to].outputs)
  PROVE  /\ WellFormed(ks, [ns EXCEPT ![name].inputs = @ \cup {<<to, i>>}])
         /\ DOMAIN [ns EXCEPT ![name].inputs = @ \cup {<<to, i>>}] = DOMAIN ns
<1> DEFINE nd == [ns[name] EXCEPT !.inputs = @ \cup {<<to, i>>}]
<1>1. [ns EXCEPT ![name].inputs = @ \cup {<<to, i>>}] = [ns EXCEPT ![name] = nd]
  OBVIOUS
<1>0. DOMAIN ns \subseteq Names
  BY DEF WellFormed, KeysOK, KeySet
<1>2. ns[name] \in DAGNode
  BY DEF WellFormed, NodesOK
<1>3. nd \in DAGNode
  BY <1>0, <1>2 DEF DAGNode
<1>4. Len(ns[name].outputs) \in Nat
  BY <1>2, LenProperties DEF DAGNode
<1>5. /\ nd.parents \subseteq DOMAIN ns /\ nd.deps \subseteq DOMAIN ns
      /\ \A inp \in nd.inputs :
             inp[1] \in DOMAIN ns /\ inp[2] < Len(ns[inp[1]].outputs)
      /\ Len(nd.outputs) >= Len(ns[name].outputs)
  BY <1>2, <1>4 DEF WellFormed, Closed, DAGNode
<1> HIDE DEF nd
<1>. QED
  BY <1>1, <1>3, <1>5, UpdateOK

(* Setting the type of a node keeps the dict well formed.                 *)
LEMMA SetTypeOK ==
  ASSUME NEW ks, NEW ns, WellFormed(ks, ns), NEW name \in DOMAIN ns, NEW k \in Kinds \cup {Unknown}
  PROVE  /\ WellFormed(ks, [ns EXCEPT ![name].type = k])
         /\ DOMAIN [ns EXCEPT ![name].type = k] = DOMAIN ns
<1> DEFINE nd == [ns[name] EXCEPT !.type = k]
<1>1. [ns EXCEPT ![name].type = k] = [ns EXCEPT ![name] = nd]
  OBVIOUS
<1>2. ns[name] \in DAGNode
  BY DEF WellFormed, NodesOK
<1>3. nd \in DAGNode
  BY <1>2 DEF DAGNode
<1>4. Len(ns[name].outputs) \in Nat
  BY <1>2, LenProperties DEF DAGNode
<1>5. /\ nd.parents \subseteq DOMAIN ns /\ nd.deps \subseteq DOMAIN ns
      /\ \A inp \in nd.inputs :
             inp[1] \in DOMAIN ns /\ inp[2] < Len(ns[inp[1]].outputs)
      /\ Len(nd.outputs) >= Len(ns[name].outputs)
  BY <1>2, <1>4 DEF WellFormed, Closed, DAGNode
<1> HIDE DEF nd
<1>. QED
  BY <1>1, <1>3, <1>5, UpdateOK

(* Replacing the output list of a node by one at least as long keeps the *)
(* dict well formed.                                                       *)
LEMMA SetOutputsOK ==
  ASSUME NEW ks, NEW ns, WellFormed(ks, ns), NEW name \in DOMAIN ns,
         NEW o \in Seq(OutValues), Len(o) >= Len(ns[name].outputs)
  PROVE  /\ WellFormed(ks, [ns EXCEPT ![name].outputs = o])
         /\ DOMAIN [ns EXCEPT ![name].outputs = o] = DOMAIN ns
         /\ [ns EXCEPT ![name].outputs = o][name].outputs = o
         /\ \A x \in DOMAIN ns \ {name} : [ns EXCEPT ![name].outputs = o][x] = ns[x]
<1> DEFINE nd == [ns[name] EXCEPT !.outputs = o]
<1>1. [ns EXCEPT ![name].outputs = o] = [ns EXCEPT ![name] = nd]
  OBVIOUS
<1>2. ns[name] \in DAGNode
  BY DEF WellFormed, NodesOK
<1>3. nd \in DAGNode
  BY <1>2 DEF DAGNode
<1>4. Len(ns[name].outputs) \in Nat
  BY <1>2, LenProperties DEF DAGNode
<1>5. /\ nd.parents \subseteq DOMAIN ns /\ nd.deps \subseteq DOMAIN ns
      /\ \A inp \in nd.inputs :
             inp[1] \in DOMAIN ns /\ inp[2] < Len(ns[inp[1]].outputs)
      /\ Len(nd.outputs) >= Len(ns[name].outputs)
  BY <1>2, <1>4 DEF WellFormed, Closed, DAGNode
<1>6. nd.outputs = o
  BY <1>2 DEF DAGNode
<1> HIDE DEF nd
<1>. QED
  BY <1>1, <1>3, <1>5, <1>6, UpdateOK
-----------------------------------------------------------------------------
(***************************************************************************)
(* Kept is a preorder on dicts of nodes, and each update the recorder     *)
(* makes to a node (an edge added, the type set, the output list grown)   *)
(* or to the dict (_get_or_create_node) keeps what was there.             *)
(***************************************************************************)
(* The output list of a node is a list of output values.                   *)
LEMMA OutputsOK ==
  ASSUME NEW ns, NodesOK(ns), NEW n \in DOMAIN ns
  PROVE  ns[n].outputs \in Seq(OutValues) /\ Len(ns[n].outputs) \in Nat
BY LenProperties DEF NodesOK, DAGNode

LEMMA KeptSelf ==
  ASSUME NEW ns, NodesOK(ns)
  PROVE  Kept(ns, ns)
BY OutputsOK DEF Kept

LEMMA KeptTrans ==
  ASSUME NEW a, NEW b, NEW c, NodesOK(a), NodesOK(b), NodesOK(c),
         Kept(a, b), Kept(b, c)
  PROVE  Kept(a, c)
<1> SUFFICES ASSUME NEW n \in DOMAIN a
             PROVE  /\ n \in DOMAIN c
                    /\ a[n].parents \subseteq c[n].parents
                    /\ a[n].inputs \subseteq c[n].inputs
                    /\ a[n].deps \subseteq c[n].deps
                    /\ Len(a[n].outputs) <= Len(c[n].outputs)
  BY DEF Kept
<1>1. n \in DOMAIN b /\ n \in DOMAIN c
  BY DEF Kept
<1>2. Len(a[n].outputs) \in Nat /\ Len(b[n].outputs) \in Nat /\ Len(c[n].outputs) \in Nat
  BY <1>1, OutputsOK
<1>. QED
  BY <1>1, <1>2 DEF Kept

LEMMA EdgesKept ==
  ASSUME NEW ns, NodesOK(ns), NEW name \in DOMAIN ns, NEW x
  PROVE  /\ Kept(ns, [ns EXCEPT ![name].parents = @ \cup {x}])
         /\ Kept(ns, [ns EXCEPT ![name].inputs = @ \cup {x}])
         /\ Kept(ns, [ns EXCEPT ![name].deps = @ \cup {x}])
<1>1. \A n \in DOMAIN ns : Len(ns[n].outputs) \in Nat
  BY OutputsOK
<1>2. ns[name] \in DAGNode
  BY DEF NodesOK
<1>. QED
  BY <1>1, <1>2 DEF Kept, DAGNode

LEMMA TypeKept ==
  ASSUME NEW ns, NodesOK(ns), NEW name \in DOMAIN ns, NEW k
  PROVE  Kept(ns, [ns EXCEPT ![name].type = k])
<1>1. \A n \in DOMAIN ns : Len(ns[n].outputs) \in Nat
  BY OutputsOK
<1>2. ns[name] \in DAGNode
  BY DEF NodesOK
<1>. QED
  BY <1>1, <1>2 DEF Kept, DAGNode

LEMMA OutputsKept ==
  ASSUME NEW ns, NodesOK(ns), NEW name \in DOMAIN ns,
         NEW o \in Seq(OutValues), Len(o) >= Len(ns[name].outputs)
  PROVE  Kept(ns, [ns EXCEPT ![name].outputs = o])
<1>1. \A n \in DOMAIN ns : Len(ns[n].outputs) \in Nat
  BY OutputsOK
<1>2. ns[name] \in DAGNode
  BY DEF NodesOK
<1>. QED
  BY <1>1, <1>2 DEF Kept, DAGNode

LEMMA GetOrCreateKept ==
  ASSUME NEW ns, NodesOK(ns), NEW name, NEW dt
  PROVE  Kept(ns, GetOrCreate(ns, name, dt))
<1>1. \A n \in DOMAIN ns : Len(ns[n].outputs) \in Nat
  BY OutputsOK
<1>2. CASE name \in DOMAIN ns /\ ns[name].type = Unknown
  <2>1. GetOrCreate(ns, name, dt) = [ns EXCEPT ![name].type = dt]
    BY <1>2 DEF GetOrCreate
  <2>2. Kept(ns, [ns EXCEPT ![name].type = dt])
    BY <1>2, TypeKept
  <2>. QED
    BY <2>1, <2>2
<1>3. CASE ~(name \in DOMAIN ns /\ ns[name].type = Unknown)
  BY <1>1, <1>3 DEF GetOrCreate, Kept
<1>. QED
  BY <1>2, <1>3

-----------------------------------------------------------------------------
(***************************************************************************)
(* RegInv is inductive: one lemma per operation of parse_tokens.  Each     *)
(* follows the calls the operation makes, in the code's order: every       *)
(* _get_or_create_node keeps the dict well formed and makes its name a     *)
(* node, so the edge recorded last joins two nodes.                        *)
(***************************************************************************)
LEMMA InitOK == RegInit => RegInv
<1> SUFFICES ASSUME RegInit PROVE RegInv
  OBVIOUS
<1>1. keys \in Seq(Names) /\ Len(keys) = 0
  BY EmptySeq DEF RegInit
<1>2. KeySet(keys) = {} /\ DOMAIN nodes = {}
  BY <1>1 DEF RegInit, KeySet
<1>. QED
  BY <1>1, <1>2, RegistryAssumption
     DEF RegInit, RegInv, WellFormed, KeysOK, NodesOK, Closed

(* The counter of dispatched tokens stays within its bound.               *)
LEMMA DispatchedOK ==
  ASSUME RegInv, Idle, Dispatched
  PROVE  /\ status' \in {"ok", "assert"} /\ chain' \in Seq(Names)
         /\ prev' \in Names \cup {None} /\ ops' \in 0..MaxOps
BY RegistryAssumption DEF RegInv, Idle, Dispatched

LEMMA ParentEdgeStep ==
  ASSUME RegInv, NEW f \in Names, NEW t \in Names, AddParentEdge(f, t)
  PROVE  RegInv' /\ Kept(nodes, nodes')
<1> DEFINE ns1 == GetOrCreate(nodes, t, Unknown)
           ns2 == GetOrCreate(ns1, f, Unknown)
<1>1. WellFormed(AppendKey(keys, t), ns1)
  BY GetOrCreateOK DEF RegInv
<1>2. WellFormed(AppendKey(AppendKey(keys, t), f), ns2)
  BY <1>1, GetOrCreateOK
<1>3. t \in DOMAIN ns2 /\ f \in DOMAIN ns2
  <2>1. DOMAIN ns1 = DOMAIN nodes \cup {t}
    BY GetOrCreateDomain
  <2>2. DOMAIN ns2 = DOMAIN ns1 \cup {f}
    BY GetOrCreateDomain
  <2>. QED
    BY <2>1, <2>2
<1>4. WellFormed(AppendKey(AppendKey(keys, t), f), [ns2 EXCEPT ![f].parents = @ \cup {t}])
  BY <1>2, <1>3, AddParentOK
<1>5. /\ keys' = AppendKey(AppendKey(keys, t), f)
      /\ nodes' = [ns2 EXCEPT ![f].parents = @ \cup {t}]
  BY DEF AddParentEdge, add_parent_edge
<1>6. RegInv'
  BY <1>4, <1>5, DispatchedOK DEF AddParentEdge, RegInv
<1>7. Kept(nodes, nodes')
  <2>1. NodesOK(nodes) /\ NodesOK(ns1) /\ NodesOK(ns2) /\ NodesOK(nodes')
    BY <1>1, <1>2, <1>4, <1>5 DEF RegInv, WellFormed
  <2>2. Kept(nodes, ns1) /\ Kept(ns1, ns2)
    BY <2>1, GetOrCreateKept
  <2>3. Kept(ns2, nodes')
    BY <1>3, <1>5, <2>1, EdgesKept
  <2>4. Kept(nodes, ns2)
    BY <2>1, <2>2, KeptTrans
  <2>. QED
    BY <2>1, <2>3, <2>4, KeptTrans
<1>. QED
  BY <1>6, <1>7

LEMMA DepsStep ==
  ASSUME RegInv, NEW f \in Names, NEW t \in Names, AddDeps(f, t)
  PROVE  RegInv' /\ Kept(nodes, nodes')
<1> DEFINE ns1 == GetOrCreate(nodes, f, Unknown)
           ns2 == GetOrCreate(ns1, t, Unknown)
<1>1. WellFormed(AppendKey(keys, f), ns1)
  BY GetOrCreateOK DEF RegInv
<1>2. WellFormed(AppendKey(AppendKey(keys, f), t), ns2)
  BY <1>1, GetOrCreateOK
<1>3. t \in DOMAIN ns2 /\ f \in DOMAIN ns2
  <2>1. DOMAIN ns1 = DOMAIN nodes \cup {f}
    BY GetOrCreateDomain
  <2>2. DOMAIN ns2 = DOMAIN ns1 \cup {t}
    BY GetOrCreateDomain
  <2>. QED
    BY <2>1, <2>2
<1>4. WellFormed(AppendKey(AppendKey(keys, f), t), [ns2 EXCEPT ![f].deps = @ \cup {t}])
  BY <1>2, <1>3, AddDepOK
<1>5. /\ keys' = AppendKey(AppendKey(keys, f), t)
      /\ nodes' = [ns2 EXCEPT ![f].deps = @ \cup {t}]
  BY DEF AddDeps
<1>6. RegInv'
  BY <1>4, <1>5, DispatchedOK DEF AddDeps, RegInv
<1>7. Kept(nodes, nodes')
  <2>1. NodesOK(nodes) /\ NodesOK(ns1) /\ NodesOK(ns2) /\ NodesOK(nodes')
    BY <1>1, <1>2, <1>4, <1>5 DEF RegInv, WellFormed
  <2>2. Kept(nodes, ns1) /\ Kept(ns1, ns2)
    BY <2>1, GetOrCreateKept
  <2>3. Kept(ns2, nodes')
    BY <1>3, <1>5, <2>1, EdgesKept
  <2>4. Kept(nodes, ns2)
    BY <2>1, <2>2, KeptTrans
  <2>. QED
    BY <2>1, <2>3, <2>4, KeptTrans
<1>. QED
  BY <1>6, <1>7

LEMMA TypeAttributeStep ==
  ASSUME RegInv, NEW n \in Names, NEW k \in Kinds, AddTypeAttribute(n, k)
  PROVE  RegInv' /\ Kept(nodes, nodes')
<1> DEFINE ns1 == GetOrCreate(nodes, n, Unknown)
<1>1. WellFormed(AppendKey(keys, n), ns1)
  BY GetOrCreateOK DEF RegInv
<1>2. DOMAIN ns1 = DOMAIN nodes \cup {n}
  BY GetOrCreateDomain
<1>3. WellFormed(AppendKey(keys, n), [ns1 EXCEPT ![n].type = k])
  BY <1>1, <1>2, SetTypeOK
<1>4. RegInv'
  BY <1>3, DispatchedOK DEF AddTypeAttribute, RegInv
<1>5. Kept(nodes, nodes')
  <2>1. NodesOK(nodes) /\ NodesOK(ns1) /\ NodesOK([ns1 EXCEPT ![n].type = k])
    BY <1>1, <1>3 DEF RegInv, WellFormed
  <2>2. Kept(nodes, ns1)
    BY <2>1, GetOrCreateKept
  <2>3. Kept(ns1, [ns1 EXCEPT ![n].type = k])
    BY <1>2, <2>1, TypeKept
  <2>4. nodes' = [ns1 EXCEPT ![n].type = k]
    BY DEF AddTypeAttribute
  <2>. QED
    BY <2>1, <2>2, <2>3, <2>4, KeptTrans
<1>. QED
  BY <1>4, <1>5

LEMMA OtherAttributeStep ==
  ASSUME RegInv, NEW n \in Names, AddOtherAttribute(n)
  PROVE  RegInv' /\ Kept(nodes, nodes')
<1>1. RegInv'
  BY GetOrCreateOK, DispatchedOK DEF AddOtherAttribute, RegInv
<1>2. NodesOK(nodes)
  BY DEF RegInv, WellFormed
<1>3. Kept(nodes, nodes')
  BY <1>2, GetOrCreateKept DEF AddOtherAttribute
<1>. QED
  BY <1>1, <1>3

LEMMA BlockchainCallStep ==
  ASSUME RegInv, NEW c \in Chains, NEW p \in Names \cup {None}, AddBlockchain(c, p)
  PROVE  RegInv' /\ Kept(nodes, nodes')
<1>1. RegInv'
  BY RegistryAssumption DEF AddBlockchain, Idle, RegInv
<1>2. NodesOK(nodes) /\ nodes' = nodes
  BY DEF RegInv, WellFormed, AddBlockchain
<1>. QED
  BY <1>1, <1>2, KeptSelf

(* Growing an output list to index i and setting slot i gives a list of    *)
(* output values that reaches i and is no shorter than before.             *)
LEMMA GrowSetOK ==
  ASSUME NEW out \in Seq(OutValues), NEW i \in Nat, NEW v \in OutValues
  PROVE  /\ [Grow(out, i) EXCEPT ![i + 1] = v] \in Seq(OutValues)
         /\ Len([Grow(out, i) EXCEPT ![i + 1] = v]) >= Len(out)
         /\ i < Len([Grow(out, i) EXCEPT ![i + 1] = v])
<1>1. Grow(out, i) \in Seq(OutValues) /\ Len(Grow(out, i)) >= Len(out)
      /\ i < Len(Grow(out, i))
  BY GrowOK
<1>2. i + 1 \in 1..Len(Grow(out, i))
  BY <1>1, LenProperties
<1>. QED
  BY <1>1, <1>2, ExceptSeq

LEMMA SpendingEdgeStep ==
  ASSUME RegInv, NEW f \in Names, NEW t \in Names, NEW i \in Slots,
         AddSpendingEdge(f, t, i)
  PROVE  RegInv' /\ Kept(nodes, nodes')
<1> DEFINE ks1 == AppendKey(keys, t)
           ns1 == GetOrCreate(nodes, t, Unknown)
           out == ns1[t].outputs
           o == [Grow(out, i) EXCEPT ![i + 1] = Blank]
           ns2 == IF Len(out) <= i THEN [ns1 EXCEPT ![t].outputs = o] ELSE ns1
           ns3 == GetOrCreate(ns2, f, Unknown)
<1>0. i \in Nat
  BY RegistryAssumption
<1>1. WellFormed(ks1, ns1)
  BY GetOrCreateOK DEF RegInv
<1>2. DOMAIN ns1 = DOMAIN nodes \cup {t}
  BY GetOrCreateDomain
<1>3. out \in Seq(OutValues) /\ Len(out) \in Nat
  BY <1>1, <1>2, OutputsOK DEF WellFormed
<1>4. o \in Seq(OutValues) /\ Len(o) >= Len(out) /\ i < Len(o)
  BY <1>0, <1>3, GrowSetOK DEF OutValues
<1> HIDE DEF o
<1>5. WellFormed(ks1, ns2) /\ DOMAIN ns2 = DOMAIN ns1 /\ i < Len(ns2[t].outputs)
  <2>1. CASE Len(out) <= i
    <3>1. /\ WellFormed(ks1, [ns1 EXCEPT ![t].outputs = o])
          /\ DOMAIN [ns1 EXCEPT ![t].outputs = o] = DOMAIN ns1
          /\ [ns1 EXCEPT ![t].outputs = o][t].outputs = o
      BY <1>1, <1>2, <1>4, SetOutputsOK
    <3>. QED
      BY <2>1, <3>1, <1>4
  <2>2. CASE ~(Len(out) <= i)
    BY <2>2, <1>0, <1>1, <1>3
  <2>. QED
    BY <2>1, <2>2
<1>11. Kept(ns1, ns2)
  <2>0. NodesOK(ns1)
    BY <1>1 DEF WellFormed
  <2>1. CASE Len(out) <= i
    <3>1. Kept(ns1, [ns1 EXCEPT ![t].outputs = o])
      BY <1>2, <1>4, <2>0, OutputsKept
    <3>. QED
      BY <2>1, <3>1
  <2>2. CASE ~(Len(out) <= i)
    BY <2>0, <2>2, KeptSelf
  <2>. QED
    BY <2>1, <2>2
<1> HIDE DEF ns2
<1>6. WellFormed(AppendKey(ks1, f), ns3)
  BY <1>5, GetOrCreateOK
<1>7. DOMAIN ns3 = DOMAIN ns2 \cup {f}
  BY GetOrCreateDomain
<1>8. ns3[t].outputs = ns2[t].outputs
  <2>1. NodesOK(ns2)
    BY <1>5 DEF WellFormed
  <2>. QED
    BY <1>2, <1>5, <2>1, GetOrCreateOutputs
<1>9. WellFormed(AppendKey(ks1, f), [ns3 EXCEPT ![f].inputs = @ \cup {<<t, i>>}])
  BY <1>2, <1>5, <1>6, <1>7, <1>8, AddInputOK
<1>10. /\ keys' = AppendKey(ks1, f)
       /\ nodes' = [ns3 EXCEPT ![f].inputs = @ \cup {<<t, i>>}]
  BY DEF AddSpendingEdge, ns2, o
<1>12. RegInv'
  BY <1>9, <1>10, DispatchedOK DEF AddSpendingEdge, RegInv
<1>13. Kept(nodes, nodes')
  <2>1. /\ NodesOK(nodes) /\ NodesOK(ns1) /\ NodesOK(ns2)
        /\ NodesOK(ns3) /\ NodesOK(nodes')
    BY <1>1, <1>5, <1>6, <1>9, <1>10 DEF RegInv, WellFormed
  <2>2. Kept(nodes, ns1) /\ Kept(ns2, ns3)
    BY <2>1, GetOrCreateKept
  <2>3. Kept(ns3, nodes')
    BY <1>7, <1>10, <2>1, EdgesKept
  <2>4. Kept(nodes, ns2)
    BY <1>11, <2>1, <2>2, KeptTrans
  <2>5. Kept(nodes, ns3)
    BY <2>1, <2>2, <2>4, KeptTrans
  <2>. QED
    BY <2>1, <2>3, <2>5, KeptTrans
<1>. QED
  BY <1>12, <1>13
LEMMA SetOutputStep ==
  ASSUME RegInv, NEW n \in Names, NEW i \in Slots, NEW tok \in TokenNames,
         SetOutput(n, i, tok)
  PROVE  RegInv' /\ Kept(nodes, nodes')
<1> DEFINE ks1 == AppendKey(keys, n)
           ns1 == GetOrCreate(nodes, n, Unknown)
           o == [Grow(ns1[n].outputs, i) EXCEPT ![i + 1] = tok]
           ns2 == [ns1 EXCEPT ![n].outputs = o]
<1>0. i \in Nat /\ tok \in OutValues
  BY RegistryAssumption DEF OutValues
<1>1. WellFormed(ks1, ns1)
  BY GetOrCreateOK DEF RegInv
<1>2. DOMAIN ns1 = DOMAIN nodes \cup {n}
  BY GetOrCreateDomain
<1>3. ns1[n].outputs \in Seq(OutValues)
  BY <1>1, <1>2, OutputsOK DEF WellFormed
<1>4. o \in Seq(OutValues) /\ Len(o) >= Len(ns1[n].outputs)
  BY <1>0, <1>3, GrowSetOK
<1> HIDE DEF o
<1>5. WellFormed(ks1, ns2) /\ DOMAIN ns2 = DOMAIN ns1
  BY <1>1, <1>2, <1>4, SetOutputsOK
<1>9. Kept(nodes, ns2) /\ NodesOK(nodes) /\ NodesOK(ns2)
  <2>1. NodesOK(nodes) /\ NodesOK(ns1)
    BY <1>1 DEF RegInv, WellFormed
  <2>2. Kept(nodes, ns1)
    BY <2>1, GetOrCreateKept
  <2>3. Kept(ns1, ns2)
    BY <1>2, <1>4, <2>1, OutputsKept
  <2>4. NodesOK(ns2)
    BY <1>5 DEF WellFormed
  <2>. QED
    BY <2>1, <2>2, <2>3, <2>4, KeptTrans
<1> HIDE DEF ns2
<1>6. CASE tok = HTR
  <2>1. nodes' = ns2 /\ keys' = ks1 /\ Idle /\ Dispatched
    BY <1>6 DEF SetOutput, ns2, o
  <2>. QED
    BY <1>5, <1>9, <2>1, DispatchedOK DEF RegInv
<1>7. CASE tok # HTR /\ KindMismatch(ns2, tok, Token)
  <2>1. RegInv'
    BY <1>7, RegistryAssumption DEF SetOutput, ns2, o, RegInv, Idle
  <2>2. nodes' = nodes
    BY <1>7 DEF SetOutput, ns2, o
  <2>. QED
    BY <1>9, <2>1, <2>2, KeptSelf
<1>8. CASE tok # HTR /\ ~KindMismatch(ns2, tok, Token)
  <2> DEFINE ns3 == GetOrCreate(ns2, tok, Token)
  <2>1. tok \in Names /\ Token \in Kinds \cup {Unknown}
    BY <1>8, RegistryAssumption DEF TokenNames
  <2>2. WellFormed(AppendKey(ks1, tok), ns3)
    BY <1>5, <2>1, GetOrCreateOK
  <2>3. DOMAIN ns3 = DOMAIN ns2 \cup {tok}
    BY GetOrCreateDomain
  <2>4. WellFormed(AppendKey(ks1, tok), [ns3 EXCEPT ![n].deps = @ \cup {tok}])
    BY <1>2, <1>5, <2>2, <2>3, AddDepOK
  <2>5. /\ nodes' = [ns3 EXCEPT ![n].deps = @ \cup {tok}]
        /\ keys' = AppendKey(ks1, tok)
        /\ Idle /\ Dispatched
    BY <1>8 DEF SetOutput, ns2, o
  <2>6. Kept(nodes, nodes')
    <3>1. NodesOK(ns3) /\ NodesOK(nodes')
      BY <2>2, <2>4, <2>5 DEF WellFormed
    <3>2. Kept(ns2, ns3)
      BY <1>9, GetOrCreateKept
    <3>3. Kept(ns3, nodes')
      BY <1>2, <1>5, <2>3, <2>5, <3>1, EdgesKept
    <3>4. Kept(nodes, ns3)
      BY <1>9, <3>1, <3>2, KeptTrans
    <3>. QED
      BY <1>9, <3>1, <3>3, <3>4, KeptTrans
  <2>. QED
    BY <2>4, <2>5, <2>6, DispatchedOK DEF RegInv
<1>. QED
  BY <1>6, <1>7, <1>8

LEMMA ChainStep ==
  ASSUME RegInv, BlockchainStep
  PROVE  RegInv' /\ Kept(nodes, nodes')
<1> DEFINE name == Head(chain)
           ns1 == GetOrCreate(nodes, name, Block)
           ks1 == AppendKey(keys, name)
<1>1. name \in Names /\ Tail(chain) \in Seq(Names)
  BY HeadTailProperties DEF RegInv, BlockchainStep
<1>0. NodesOK(nodes)
  BY DEF RegInv, WellFormed
<1>2. CASE KindMismatch(nodes, name, Block)
  <2>1. RegInv'
    BY <1>2, EmptySeq DEF BlockchainStep, RegInv
  <2>2. nodes' = nodes
    BY <1>2 DEF BlockchainStep
  <2>. QED
    BY <1>0, <2>1, <2>2, KeptSelf
<1>3. CASE ~KindMismatch(nodes, name, Block)
  <2>1. WellFormed(ks1, ns1)
    BY <1>1, GetOrCreateOK, RegistryAssumption DEF RegInv
  <2>2. /\ prev' = name /\ chain' = Tail(chain)
        /\ UNCHANGED <<status, ops>>
    BY <1>3 DEF BlockchainStep
  <2>3. CASE prev = None
    <3>1. nodes' = ns1 /\ keys' = ks1
      BY <1>3, <2>3 DEF BlockchainStep
    <3>2. Kept(nodes, ns1)
      BY <1>0, GetOrCreateKept
    <3>. QED
      BY <1>1, <2>1, <2>2, <3>1, <3>2 DEF RegInv
  <2>4. CASE prev # None
    <3> DEFINE ns2 == GetOrCreate(ns1, prev, Unknown)
               ns3 == GetOrCreate(ns2, name, Unknown)
               ks3 == AppendKey(AppendKey(ks1, prev), name)
    <3>1. prev \in Names
      BY <2>4 DEF RegInv
    <3>2. WellFormed(AppendKey(ks1, prev), ns2)
      BY <2>1, <3>1, GetOrCreateOK
    <3>3. WellFormed(ks3, ns3)
      BY <1>1, <3>2, GetOrCreateOK
    <3>4. DOMAIN ns2 = DOMAIN ns1 \cup {prev} /\ DOMAIN ns3 = DOMAIN ns2 \cup {name}
      BY GetOrCreateDomain
    <3>5. WellFormed(ks3, [ns3 EXCEPT ![name].parents = @ \cup {prev}])
      BY <3>3, <3>4, AddParentOK
    <3>6. /\ nodes' = [ns3 EXCEPT ![name].parents = @ \cup {prev}]
          /\ keys' = ks3
      BY <1>3, <2>4 DEF BlockchainStep
    <3>7. Kept(nodes, nodes')
      <4>1. /\ NodesOK(ns1) /\ NodesOK(ns2) /\ NodesOK(ns3)
            /\ NodesOK(nodes')
        BY <2>1, <3>2, <3>3, <3>5, <3>6 DEF WellFormed
      <4>2. Kept(nodes, ns1) /\ Kept(ns1, ns2) /\ Kept(ns2, ns3)
        BY <1>0, <4>1, GetOrCreateKept
      <4>3. Kept(ns3, nodes')
        BY <3>4, <3>6, <4>1, EdgesKept
      <4>4. Kept(nodes, ns2)
        BY <1>0, <4>1, <4>2, KeptTrans
      <4>5. Kept(nodes, ns3)
        BY <1>0, <4>1, <4>2, <4>4, KeptTrans
      <4>. QED
        BY <1>0, <4>1, <4>3, <4>5, KeptTrans
    <3>. QED
      BY <1>1, <2>2, <3>5, <3>6, <3>7 DEF RegInv
  <2>. QED
    BY <2>3, <2>4
<1>. QED
  BY <1>2, <1>3

(* A step that leaves the registry alone keeps RegInv.                    *)
LEMMA RegUnchanged ==
  ASSUME RegInv, UNCHANGED regVars
  PROVE  RegInv'
<1>1. keys' = keys /\ nodes' = nodes /\ status' = status /\ chain' = chain
      /\ prev' = prev /\ ops' = ops
  BY DEF regVars
<1>2. WellFormed(keys', nodes')
  BY <1>1 DEF RegInv
<1>. QED
  BY <1>1, <1>2 DEF RegInv

LEMMA RegStep == RegInv /\ [RegNext]_regVars => RegInv'
<1> SUFFICES ASSUME RegInv, [RegNext]_regVars PROVE RegInv'
  OBVIOUS
<1>1. CASE UNCHANGED regVars
  BY <1>1, RegUnchanged
<1>. QED
  BY <1>1, ParentEdgeStep, SpendingEdgeStep, TypeAttributeStep,
     OtherAttributeStep, DepsStep, SetOutputStep, BlockchainCallStep,
     ChainStep DEF RegNext
LEMMA RegInvHolds == RegSpec => []RegInv
BY InitOK, RegStep, PTL DEF RegSpec

(* Every step of the recorder from a state satisfying RegInv keeps what   *)
(* was recorded.                                                           *)
LEMMA RegKeptStep ==
  ASSUME RegInv, [RegNext]_regVars
  PROVE  Kept(nodes, nodes') \/ UNCHANGED regVars
BY ParentEdgeStep, SpendingEdgeStep, TypeAttributeStep, OtherAttributeStep,
   DepsStep, SetOutputStep, BlockchainCallStep, ChainStep DEF RegNext

-----------------------------------------------------------------------------
(* For every script: the keys of self._nodes are names and are exactly the *)
(* names of its nodes, every node is a DAGNode, and the add_blockchain     *)
(* loop state and the token counter keep their types.                      *)
THEOREM RegTypeCorrect == RegSpec => []RegTypeOK
<1>1. RegInv => RegTypeOK
  BY DEF RegInv, RegTypeOK, WellFormed, KeysOK, KeySet, NodesOK, Created
<1>. QED
  BY <1>1, RegInvHolds, PTL

(* For every script, add_spending_edge never leaves an input that spends   *)
(* a slot the output list of the spent node lacks, whatever set_output,   *)
(* spend and add_blockchain steps come after it: the exporter's            *)
(* outputs[index] lookup never fails.                                      *)
THEOREM SpentSlotsHold == RegSpec => []SpentSlotsExist
<1>1. RegInv => SpentSlotsExist
  BY DEF RegInv, WellFormed, Closed, SpentSlotsExist
<1>. QED
  BY <1>1, RegInvHolds, PTL

(* For every script, no recorder operation, and no failed assert of        *)
(* _get_or_create_node, loses a node, an edge of one, or a slot of its     *)
(* output list: _get_or_create_node only fills in the type of an Unknown  *)
(* node and the output lists are only extended.                            *)
THEOREM RecordsKeptHolds == RegSpec => RecordsKept
<1>1. RegInv /\ [RegNext]_regVars
        => [\A n \in DOMAIN nodes :
               /\ n \in DOMAIN nodes'
               /\ nodes[n].parents \subseteq nodes'[n].parents
               /\ nodes[n].inputs \subseteq nodes'[n].inputs
               /\ nodes[n].deps \subseteq nodes'[n].deps
               /\ Len(nodes[n].outputs) <= Len(nodes'[n].outputs)]_regVars
  BY RegKeptStep DEF Kept
<1>. QED
  BY <1>1, RegInvHolds, PTL DEF RegSpec, RecordsKept
=============================================================================
