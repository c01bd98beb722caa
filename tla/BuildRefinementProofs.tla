------------------------ MODULE BuildRefinementProofs ------------------------
(***************************************************************************)
(* The builder implements BuildSpec under the mapping graph <- AllDeps,    *)
(* out <- emitted, status <- BuildStatus.  A parse step is a Record step  *)
(* or a stutter (the registry only grows: Kept; every dependency is a     *)
(* node: RegInv); the generator's first step is Start; every later step   *)
(* is the step of SortSpec that SP!AbsStep maps it to, read on BuildSpec's *)
(* variables.                                                              *)
(***************************************************************************)
EXTENDS DagBuilderProofs

-----------------------------------------------------------------------------
LEMMA PromiseInit == Init => Promise!BuildInit
<1> SUFFICES ASSUME Init PROVE Promise!BuildInit
  OBVIOUS
<1>1. Created = {}
  BY DEF Init, RegInit, Created
<1>2. AllDeps = [n \in {} |-> {}]
  BY <1>1 DEF AllDeps
<1>3. BuildStatus = "recording"
  BY DEF Init, BuildStatus
<1>. QED
  BY <1>2, <1>3 DEF Init, Promise!BuildInit

(* The registry as a DAG: the nodes are the keys, and every dependency is  *)
(* a node.                                                                 *)
LEMMA RegistryIsGraph ==
  ASSUME RegInv
  PROVE  /\ DOMAIN nodes = Created
         /\ Promise!IsGraph(AllDeps)
<1>1. DOMAIN nodes = Created /\ Created \subseteq Names
  BY DEF RegInv, WellFormed, KeysOK, KeySet, Created
<1>2. DepsOf(nodes) \in [DOMAIN nodes -> SUBSET DOMAIN nodes]
  BY RegistryIsSortInput DEF RegInv
<1>3. AllDeps = DepsOf(nodes)
  BY <1>1, AllDepsIsDepsOf
<1>. QED
  BY <1>1, <1>2, <1>3 DEF Promise!IsGraph, AllDeps

(* A parse step grows the DAG (Record) or leaves BuildSpec's state alone. *)
LEMMA PromiseParse ==
  ASSUME BInv, Parse
  PROVE  [Promise!BuildNext]_Promise!bvars
<1>1. BuildStatus = "recording" /\ BuildStatus' = "recording" /\ emitted' = emitted
  BY DEF Parse, sortVars, BuildStatus
<1>2. RegInv /\ RegInv'
  BY ParseStep DEF BInv
<1>3. Kept(nodes, nodes') \/ UNCHANGED regVars
  BY <1>2, RegKeptStep DEF Parse
<1>4. CASE UNCHANGED regVars
  <2>1. AllDeps' = AllDeps
    BY <1>4 DEF regVars, AllDeps, Created
  <2>. QED
    BY <1>1, <2>1 DEF Promise!bvars
<1>5. CASE Kept(nodes, nodes')
  <2>1. DOMAIN nodes = Created /\ Promise!IsGraph(AllDeps)'
    BY <1>2, RegistryIsGraph, PTL
  <2>2. DOMAIN nodes' = Created'
    BY <1>2 DEF RegInv, WellFormed, KeySet, Created
  <2>3. /\ Promise!BNodes \subseteq Promise!BNodes'
        /\ \A n \in Promise!BNodes : AllDeps[n] \subseteq AllDeps'[n]
    BY <1>5, <2>1, <2>2 DEF Kept, AllDeps, Promise!BNodes
  <2>4. Promise!IsGraph(AllDeps')
    BY <2>1 DEF Promise!IsGraph
  <2>5. Promise!Record
    BY <1>1, <2>3, <2>4 DEF Promise!Record, Promise!BNodes
  <2>. QED
    BY <2>5 DEF Promise!BuildNext
<1>. QED
  BY <1>3, <1>4, <1>5

(* A step of the generator is a step of the sort's proofs, leaves the      *)
(* registry alone and leaves the state before build() for good.            *)
LEMMA SortStepFacts ==
  ASSUME BInv, Build \/ SortLoop
  PROVE  /\ SP!Next
         /\ UNCHANGED regVars
         /\ pc' # "setup" \/ scan' # 0
<1>0. scan \in Nat
  <2>1. SP!RefInv \/ scan = 0
    BY DEF BInv
  <2>. QED
    BY <2>1 DEF SP!RefInv, SP!SortInv, SP!TypeOK, SP!N
<1>1. CASE SortStep(Sort!SetupStep)
  BY <1>0, <1>1, SameSetup DEF SortStep, SP!Next, SP!SetupStep, regVars
<1>2. CASE SortStep(Sort!SetupDone)
  BY <1>2, SameSetup DEF SortStep, SP!Next, SP!SetupDone, regVars
<1>3. CASE SortStep(Sort!Fail)
  BY <1>3, SameLoop DEF SortStep, SP!Next, SP!Fail, regVars
<1>4. CASE SortStep(Sort!Emit)
  BY <1>4, SameLoop DEF SortStep, SP!Next, SP!Emit, regVars
<1>5. CASE SortStep(Sort!Finish)
  BY <1>5, SameLoop DEF SortStep, SP!Next, SP!Finish, regVars
<1>. QED
  BY <1>1, <1>2, <1>3, <1>4, <1>5 DEF Build, SortLoop

(* The generator's first step is build() starting the sort.               *)
LEMMA PromiseStart ==
  ASSUME BInv, Build \/ SortLoop, pc = "setup", scan = 0
  PROVE  Promise!Start
<1>1. direct_deps = [x \in {} |-> {}] /\ emitted = <<>>
  BY DEF BInv, Fresh
<1>2. emitted' = emitted /\ pc' \in {"setup", "loop"}
  <2>1. CASE SortStep(Sort!SetupStep)
    BY <1>1, <2>1 DEF SortStep, Sort!SetupStep
  <2>2. CASE SortStep(Sort!SetupDone)
    BY <2>2 DEF SortStep, Sort!SetupDone
  <2>3. CASE SortLoop
    BY <2>3 DEF SortLoop, SortStep, Sort!Fail, Sort!Emit, Sort!Finish
  <2>. QED
    BY <2>1, <2>2, <2>3 DEF Build
<1>3. UNCHANGED regVars /\ (pc' # "setup" \/ scan' # 0)
  BY SortStepFacts
<1>4. BuildStatus = "recording" /\ BuildStatus' = "running"
  BY <1>2, <1>3 DEF BuildStatus, Sort!SortStatus
<1>5. AllDeps' = AllDeps
  BY <1>3 DEF regVars, AllDeps, Created
<1>. QED
  BY <1>2, <1>4, <1>5 DEF Promise!Start

(* Once the sort has started, a step of SortSpec on the live registry is   *)
(* the same step of BuildSpec: both read the registry's nodes, the nodes  *)
(* handed out and the readiness of a node from the same state.            *)
LEMMA AbsToPromise ==
  ASSUME keys \in Seq(Names),
         BuildStatus = SP!SortStatus, BuildStatus' = SP!SortStatus',
         [SP!Abs!ANext]_SP!Abs!avars
  PROVE  [Promise!BuildNext]_Promise!bvars
<1>0. /\ Promise!BNodes = SP!Abs!ANodes
      /\ Promise!Handed = SP!Abs!Handed
      /\ \A n : Promise!Ready(n) = SP!Abs!Ready(n)
  <2>1. DOMAIN keys = 1..Len(keys)
    BY LenProperties
  <2>. QED
    BY <2>1 DEF Promise!BNodes, AllDeps, Created, SP!Abs!ANodes,
              Promise!Handed, SP!Abs!Handed, Promise!Ready, SP!Abs!Ready
<1>1. CASE \E n \in Names : SP!Abs!Yield(n)
  <2>1. PICK n \in Names : SP!Abs!Yield(n)
    BY <1>1
  <2>2. Promise!Yield(n)
    BY <1>0, <2>1 DEF SP!Abs!Yield, Promise!Yield
  <2>. QED
    BY <2>2 DEF Promise!BuildNext
<1>2. CASE SP!Abs!Return
  BY <1>0, <1>2 DEF SP!Abs!Return, Promise!Return, Promise!BuildNext
<1>3. CASE SP!Abs!Raise
  BY <1>0, <1>3 DEF SP!Abs!Raise, Promise!Raise, Promise!BuildNext
<1>4. CASE UNCHANGED SP!Abs!avars
  BY <1>4 DEF SP!Abs!avars, Promise!bvars
<1>. QED
  BY <1>1, <1>2, <1>3, <1>4 DEF SP!Abs!ANext

(* Every step of the builder between two states satisfying BInv is a step *)
(* of BuildSpec or a stutter.                                              *)
LEMMA PromiseStep ==
  ASSUME BInv, BInv', [Next]_vars
  PROVE  [Promise!BuildNext]_Promise!bvars
<1>1. CASE Parse
  BY <1>1, PromiseParse
<1>2. CASE (Build \/ SortLoop) /\ pc = "setup" /\ scan = 0
  BY <1>2, PromiseStart DEF Promise!BuildNext
<1>3. CASE (Build \/ SortLoop) /\ ~(pc = "setup" /\ scan = 0)
  <2>1. SP!Next /\ UNCHANGED regVars /\ (pc' # "setup" \/ scan' # 0)
    BY <1>3, SortStepFacts
  <2>2. SP!RefInv /\ SP!RefInv'
    BY <1>3, <2>1 DEF BInv
  <2>3. [SP!Abs!ANext]_SP!Abs!avars
    BY <2>1, <2>2, NamesFinite, SP!AbsStep
  <2>4. BuildStatus = SP!SortStatus /\ BuildStatus' = SP!SortStatus'
    BY <1>3, <2>1 DEF BuildStatus, Sort!SortStatus, SP!SortStatus
  <2>5. keys \in Seq(Names)
    BY DEF BInv, RegInv, WellFormed, KeysOK
  <2>. QED
    BY <2>3, <2>4, <2>5, AbsToPromise
<1>4. CASE UNCHANGED vars
  <2>1. AllDeps' = AllDeps /\ BuildStatus' = BuildStatus
    BY <1>4 DEF vars, regVars, sortVars, AllDeps, Created, BuildStatus,
                Sort!SortStatus
  <2>. QED
    BY <1>4, <2>1 DEF vars, sortVars, Promise!bvars
<1>. QED
  BY <1>1, <1>2, <1>3, <1>4 DEF Next

(* For every script and every order of the sets rev_deps[name], the        *)
(* builder keeps build_from_str's promise (BuildSpec, a safety property): *)
(* parse_tokens only grows the DAG and leaves no dependency that is not a *)
(* node, and the exporter then receives a topological order of the DAG as *)
(* it stands when build() starts, or the cycle error when no node left is *)
(* ready.                                                                  *)
THEOREM BuilderImplementsBuildSpec == Spec => ImplementsBuildSpec
<1>1. []BInv /\ [][Next]_vars => [][Promise!BuildNext]_Promise!bvars
  BY PromiseStep, PTL
<1>. QED
  BY <1>1, BInvHolds, PromiseInit, PTL DEF Spec, ImplementsBuildSpec,
     Promise!BuildSafe
=============================================================================
