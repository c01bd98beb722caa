--------------------------- MODULE DagBuilderProofs ---------------------------
(***************************************************************************)
(* Proofs about the DAG builder as a whole (DagBuilder): the recorder      *)
(* builds the registry from a script, then build() runs                    *)
(* topological_sorting on it.  The sort's proofs (SortRefinementProofs)    *)
(* are instantiated on the live registry, graph <- AllDeps; what the       *)
(* composition adds is that the registry the recorder leaves is one the    *)
(* sort's proofs start from (distinct keys, every dependency a node), and  *)
(* that it does not change once the sort has started.                      *)
(***************************************************************************)
EXTENDS DagBuilder, DagRegistryProofs

SP == INSTANCE SortRefinementProofs WITH graph <- AllDeps

-----------------------------------------------------------------------------
(* node.get_all_dependencies() of every node of a dict of nodes.           *)
DepsOf(ns) ==
    [n \in DOMAIN ns |->
        ns[n].parents \cup {inp[1] : inp \in ns[n].inputs} \cup ns[n].deps]

(* Until build() starts the sort, the generator's state is its initial one. *)
Fresh ==
    pc = "setup" /\ scan = 0 =>
        /\ direct_deps = [x \in {} |-> {}]
        /\ candidates = <<>>
        /\ emitted = <<>>

(* The inductive invariant of the builder: the recorder's, and the sort's  *)
(* once build() has started it.  (Before, the sort's invariant follows     *)
(* from the recorder's: SortStartsWell below.)                             *)
BInv ==
    /\ RegInv
    /\ Fresh
    /\ (pc = "setup" /\ scan = 0) \/ SP!RefInv

-----------------------------------------------------------------------------
(* The assumption of TopoSort on its names, as the instance states it.    *)
LEMMA NamesFinite == SP!IsFiniteSet(Names)
BY RegistryAssumption DEF SP!IsFiniteSet, IsFiniteSet

(* A well-formed registry is one the sort starts from: its keys are a      *)
(* duplicate-free list of names, at most one per name, and each node's     *)
(* dependencies are nodes.                                                 *)
LEMMA RegistryIsSortInput ==
  ASSUME NEW ks, NEW ns, WellFormed(ks, ns)
  PROVE  /\ ks \in SP!KeySeqs
         /\ DOMAIN ns = {ks[i] : i \in DOMAIN ks}
         /\ DepsOf(ns) \in [DOMAIN ns -> SUBSET DOMAIN ns]
<1>1. ks \in Seq(Names) /\ DOMAIN ks = 1..Len(ks) /\ Len(ks) \in Nat
  BY LenProperties DEF WellFormed, KeysOK
<1>2. SP!NoDup(ks)
  BY <1>1 DEF WellFormed, KeysOK, SP!NoDup
<1>3. Len(ks) \in 0..SP!Cardinality(Names)
  <2>1. SP!IsFiniteSet(SP!SeqRange(ks)) /\ SP!Cardinality(SP!SeqRange(ks)) = Len(ks)
    BY <1>1, <1>2, NamesFinite, SP!NoDupCard
  <2>2. SP!SeqRange(ks) \subseteq Names
    BY <1>1 DEF SP!SeqRange
  <2>3. SP!Cardinality(SP!SeqRange(ks)) <= SP!Cardinality(Names)
    BY <2>2, NamesFinite, SP!FS_Subset
  <2>. QED
    BY <1>1, <2>1, <2>3
<1>4. ks \in SP!KeySeqs
  BY <1>1, <1>2, <1>3 DEF SP!KeySeqs
<1>5. DepsOf(ns) \in [DOMAIN ns -> SUBSET DOMAIN ns]
  BY DEF WellFormed, Closed, DepsOf
<1>. QED
  BY <1>1, <1>4, <1>5 DEF WellFormed, KeySet

(* The sort's graph is get_all_dependencies() of the registry's nodes.     *)
LEMMA AllDepsIsDepsOf ==
  ASSUME DOMAIN nodes = Created
  PROVE  AllDeps = DepsOf(nodes)
BY DEF AllDeps, DepsOf

(* When build() starts the sort on a registry the recorder left, the       *)
(* sort's inductive invariant holds.                                       *)
LEMMA SortStartsWell ==
  ASSUME RegInv, pc = "setup", scan = 0,
         direct_deps = [x \in {} |-> {}], candidates = <<>>, emitted = <<>>
  PROVE  SP!RefInv
<1>1. /\ keys \in SP!KeySeqs
      /\ DOMAIN nodes = {keys[i] : i \in DOMAIN keys}
      /\ DepsOf(nodes) \in [DOMAIN nodes -> SUBSET DOMAIN nodes]
  BY RegistryIsSortInput DEF RegInv
<1>2. AllDeps = DepsOf(nodes)
  BY AllDepsIsDepsOf DEF RegInv, WellFormed, KeySet, Created
<1>3. SP!Init
  BY <1>1, <1>2 DEF SP!Init, SP!Nodes, SP!SeqRange
<1>. QED
  BY <1>3, NamesFinite, SP!RefInit

-----------------------------------------------------------------------------
(***************************************************************************)
(* DagBuilder's Sort and the proofs' SP are two instances of TopoSort with *)
(* the same substitution: their actions and properties are the same       *)
(* formulas once expanded.                                                 *)
(***************************************************************************)
LEMMA SameSetup ==
  /\ Sort!SetupStep <=> SP!SetupStep
  /\ Sort!SetupDone <=> SP!SetupDone
BY DEF Sort!SetupStep, SP!SetupStep, Sort!SetupDone, SP!SetupDone,
       Sort!N, SP!N, Sort!StoreDeps, SP!StoreDeps, Sort!IsSeed, SP!IsSeed

LEMMA SameLoop ==
  /\ Sort!Fail <=> SP!Fail
  /\ Sort!Emit <=> SP!Emit
  /\ Sort!Finish <=> SP!Finish
BY DEF Sort!Fail, SP!Fail, Sort!Emit, SP!Emit, Sort!Finish, SP!Finish,
       Sort!N, SP!N, Sort!PopLast, SP!PopLast, Sort!RevDeps, SP!RevDeps,
       Sort!Orderings, SP!Orderings, Sort!NoDup, SP!NoDup, Sort!Nodes,
       SP!Nodes, Sort!SeqRange, SP!SeqRange, Sort!seen, SP!seen,
       Sort!Cardinality, SP!Cardinality, Cardinality

LEMMA SameProperties == Sort!NoFalseCycle <=> SP!NoFalseCycle
BY DEF Sort!NoFalseCycle, SP!NoFalseCycle, Sort!HasCycle, SP!HasCycle,
       Sort!Nodes, SP!Nodes, Sort!SeqRange, SP!SeqRange

-----------------------------------------------------------------------------
(***************************************************************************)
(* BInv is inductive.  A parse step changes only the registry, and the     *)
(* sort has not started; a sort step leaves the registry (hence the graph) *)
(* as it is and is a step of TopoSort, whose invariant it keeps.           *)
(***************************************************************************)
LEMMA BInit == Init => BInv
BY InitOK DEF Init, BInv, Fresh

LEMMA ParseStep ==
  ASSUME BInv, Parse
  PROVE  BInv'
<1>1. RegInv'
  BY RegStep DEF BInv, Parse
<1>. QED
  BY <1>1 DEF BInv, Fresh, Parse, sortVars

(* A step of the sort keeps BInv when it leaves the registry alone and     *)
(* does not go back to the untouched initial state.                        *)
LEMMA SortStepOK ==
  ASSUME BInv, SP!Next, UNCHANGED <<keys, nodes, status, chain, prev, ops>>,
         pc' # "setup" \/ scan' # 0
  PROVE  BInv'
<1>1. SP!RefInv
  BY SortStartsWell DEF BInv, Fresh
<1>2. SP!RefInv'
  BY <1>1, NamesFinite, SP!RefStep
<1>3. RegInv'
  BY RegUnchanged DEF BInv, regVars
<1>. QED
  BY <1>2, <1>3 DEF BInv, Fresh

LEMMA BStep == BInv /\ [Next]_vars => BInv'
<1> SUFFICES ASSUME BInv, [Next]_vars PROVE BInv'
  OBVIOUS
<1>0. scan \in Nat
  <2>1. SP!RefInv
    BY SortStartsWell DEF BInv, Fresh
  <2>. QED
    BY <2>1 DEF SP!RefInv, SP!SortInv, SP!TypeOK, SP!N
<1>1. CASE Parse
  BY <1>1, ParseStep
<1>2. CASE SortStep(Sort!SetupStep)
  <2>1. SP!Next /\ UNCHANGED <<keys, nodes, status, chain, prev, ops>>
    BY <1>2, SameSetup DEF SortStep, SP!Next, SP!SetupStep
  <2>2. pc' # "setup" \/ scan' # 0
    BY <1>0, <1>2 DEF SortStep, Sort!SetupStep
  <2>. QED
    BY <2>1, <2>2, SortStepOK
<1>3. CASE SortStep(Sort!SetupDone)
  BY <1>3, SameSetup, SortStepOK DEF SortStep, SP!Next, SP!SetupDone
<1>4. CASE SortStep(Sort!Fail)
  BY <1>4, SameLoop, SortStepOK DEF SortStep, SP!Next, SP!Fail
<1>5. CASE SortStep(Sort!Emit)
  <2>1. SP!Next /\ UNCHANGED <<keys, nodes, status, chain, prev, ops>>
    BY <1>5, SameLoop DEF SortStep, SP!Next, SP!Emit
  <2>2. pc' # "setup"
    BY <1>5 DEF SortStep, Sort!Emit
  <2>. QED
    BY <2>1, <2>2, SortStepOK
<1>6. CASE SortStep(Sort!Finish)
  BY <1>6, SameLoop, SortStepOK DEF SortStep, SP!Next, SP!Finish
<1>7. CASE UNCHANGED vars
  <2>1. RegInv'
    BY <1>7, RegUnchanged DEF BInv, vars
  <2>4. Fresh'
    BY <1>7 DEF BInv, Fresh, vars, sortVars
  <2>2. UNCHANGED SP!vars
    BY <1>7 DEF vars, regVars, sortVars, SP!vars, AllDeps, Created
  <2>3. SP!RefInv => SP!RefInv'
    BY <2>2, NamesFinite, SP!RefStep
  <2>. QED
    BY <1>7, <2>1, <2>3, <2>4 DEF BInv, vars, sortVars
<1>. QED
  BY <1>1, <1>2, <1>3, <1>4, <1>5, <1>6, <1>7 DEF Next, Build, SortLoop

LEMMA BInvHolds == Spec => []BInv
BY BInit, BStep, PTL DEF Spec

(* In every state of the builder the sort's invariant holds.              *)
LEMMA BInvRef ==
  ASSUME BInv
  PROVE  SP!RefInv
BY SortStartsWell DEF BInv, Fresh

-----------------------------------------------------------------------------
(* For every script and every run of build(): the registry is well typed,  *)
(* direct_deps only holds nodes, the candidates and the yielded names are  *)
(* nodes, and the first loop's index stays within len(self._nodes).       *)
THEOREM BuilderTypeCorrect == Spec => []TypeOK
<1>1. BInv => TypeOK
  <2> SUFFICES ASSUME BInv PROVE TypeOK
    OBVIOUS
  <2>1. SP!RefInv
    BY BInvRef
  <2>2. RegTypeOK
    BY DEF BInv, RegInv, RegTypeOK, WellFormed, KeysOK, KeySet, NodesOK, Created
  <2>3. SP!Nodes = Created /\ SP!N = Len(keys)
    <3>1. DOMAIN keys = 1..Len(keys)
      BY <2>2, LenProperties DEF RegTypeOK
    <3>. QED
      BY <3>1 DEF SP!Nodes, SP!SeqRange, SP!N, Created
  <2>. QED
    BY <2>1, <2>2, <2>3 DEF TypeOK, SP!RefInv, SP!SortInv, SP!TypeOK
<1>. QED
  BY <1>1, BInvHolds, PTL

(* For every script, whatever build() has done so far, every input spends *)
(* a slot of the output list of the node it names.                         *)
THEOREM BuilderSpentSlots == Spec => []SpentSlotsExist
<1>1. BInv => SpentSlotsExist
  BY DEF BInv, RegInv, WellFormed, Closed, SpentSlotsExist
<1>. QED
  BY <1>1, BInvHolds, PTL

(* For every script, 'there is at least one cycle' is raised only when the *)
(* dependencies the recorder recorded really form a cycle.                 *)
THEOREM BuilderNoFalseCycle == Spec => []NoFalseCycle
<1>1. BInv => NoFalseCycle
  BY BInvRef, SameProperties, NamesFinite, SP!RefNoFalseCycle DEF NoFalseCycle
<1>. QED
  BY <1>1, BInvHolds, PTL

(* Every step of the builder keeps what the script recorded: a parse step *)
(* is a recorder step, and the sort reads self._nodes without writing it. *)
LEMMA BuilderKeptStep ==
  ASSUME BInv, [Next]_vars
  PROVE  Kept(nodes, nodes') \/ UNCHANGED regVars
<1>1. CASE Parse
  BY <1>1, RegKeptStep DEF Parse, BInv
<1>2. CASE Build \/ SortLoop
  <2>1. nodes' = nodes
    BY <1>2 DEF Build, SortLoop, SortStep
  <2>2. NodesOK(nodes)
    BY DEF BInv, RegInv, WellFormed
  <2>. QED
    BY <2>1, <2>2, KeptSelf
<1>3. CASE UNCHANGED vars
  BY <1>3 DEF vars
<1>. QED
  BY <1>1, <1>2, <1>3 DEF Next

(* For every script, neither the recorder operations nor the sort that    *)
(* build() runs afterwards lose a node, an edge of one, or a slot of its   *)
(* output list.                                                            *)
THEOREM BuilderRecordsKept == Spec => RecordsKept
<1>1. BInv /\ [Next]_vars
        => [\A n \in DOMAIN nodes :
               /\ n \in DOMAIN nodes'
               /\ nodes[n].parents \subseteq nodes'[n].parents
               /\ nodes[n].inputs \subseteq nodes'[n].inputs
               /\ nodes[n].deps \subseteq nodes'[n].deps
               /\ Len(nodes[n].outputs) <= Len(nodes'[n].outputs)]_regVars
  BY BuilderKeptStep DEF Kept
<1>. QED
  BY <1>1, BInvHolds, PTL DEF Spec, RecordsKept
=============================================================================
