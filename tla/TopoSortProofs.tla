---------------------------- MODULE TopoSortProofs ----------------------------
(***************************************************************************)
(* Proofs about TopoSort, the model of DAGBuilder.topological_sorting      *)
(* (src/hathor/dag_builder/builder.py, lines 166-200), for every finite   *)
(* set of names, every registry and every dependency graph.                *)
(***************************************************************************)
EXTENDS TopoSort, FiniteSetTheorems, SequenceTheorems, TLAPS

-----------------------------------------------------------------------------
(* Every key sequence of a registry is a sequence of names.                *)
LEMMA KeySeqsAreSeqs == KeySeqs \subseteq Seq(Names)
<1> SUFFICES ASSUME NEW s \in KeySeqs PROVE s \in Seq(Names)
  OBVIOUS
<1>1. PICK k \in 0..Cardinality(Names) : s \in [1..k -> Names]
  BY DEF KeySeqs
<1>2. k \in Nat
  BY <1>1, NamesAssumption, FS_CardinalityType
<1>. QED
  BY <1>1, <1>2

(* A listing of a finite set of nodes, in any order, is a sequence of      *)
(* nodes: what the loop of line 194 appends to the candidates.             *)
LEMMA OrderingsAreSeqs ==
  ASSUME NEW S, NEW T, IsFiniteSet(S), S \subseteq T
  PROVE  Orderings(S) \subseteq Seq(T)
<1> SUFFICES ASSUME NEW s \in Orderings(S) PROVE s \in Seq(T)
  OBVIOUS
<1>1. Cardinality(S) \in Nat
  BY FS_CardinalityType
<1>2. s \in [1..Cardinality(S) -> T]
  BY DEF Orderings
<1>. QED
  BY <1>1, <1>2

(* The nodes of a registry are a finite set of names.                      *)
LEMMA NodesFinite ==
  ASSUME keys \in Seq(Names)
  PROVE  Nodes \subseteq Names /\ IsFiniteSet(Nodes)
<1>1. Nodes \subseteq Names
  BY DEF Nodes, SeqRange
<1>. QED
  BY <1>1, NamesAssumption, FS_Subset

-----------------------------------------------------------------------------
(* Facts about the sequence operators the sort applies.                    *)
LEMMA AppendRange ==
  ASSUME NEW S, NEW s \in Seq(S), NEW x
  PROVE  SeqRange(Append(s, x)) = SeqRange(s) \cup {x}
BY DEF SeqRange

LEMMA ConcatElems ==
  ASSUME NEW S, NEW r \in Seq(S), NEW t \in Seq(S),
         NEW i \in 1..Len(r \o t)
  PROVE  \/ i \in 1..Len(r) /\ (r \o t)[i] = r[i]
         \/ i - Len(r) \in 1..Len(t) /\ (r \o t)[i] = t[i - Len(r)]
BY ConcatProperties

LEMMA PopLastElems ==
  ASSUME NEW S, NEW s \in Seq(S), s # <<>>
  PROVE  /\ PopLast(s) \in Seq(S)
         /\ Len(PopLast(s)) = Len(s) - 1
         /\ \A i \in 1..Len(PopLast(s)) : PopLast(s)[i] = s[i]
<1>1. Len(s) \in Nat \ {0}
  BY EmptySeq
<1>. QED
  BY <1>1 DEF PopLast

-----------------------------------------------------------------------------
(* Type correctness: every state of the sort is well typed (in particular  *)
(* every candidate, every yielded name and every key of direct_deps is a   *)
(* node of the registry).                                                  *)
LEMMA TypeInit == Init => TypeOK
BY KeySeqsAreSeqs DEF Init, TypeOK, N

LEMMA TypeStep == TypeOK /\ [Next]_vars => TypeOK'
<1>2. TypeOK /\ [Next]_vars => TypeOK'
  <2> SUFFICES ASSUME TypeOK, [Next]_vars PROVE TypeOK'
    OBVIOUS
  <2>0. /\ keys \in Seq(Names)
        /\ Nodes \subseteq Names /\ IsFiniteSet(Nodes)
        /\ N \in Nat
    BY KeySeqsAreSeqs, NodesFinite DEF TypeOK, N
  <2>1. CASE SetupStep
    <3> DEFINE name == keys[scan + 1]
    <3>1. name \in Nodes
      BY <2>0, <2>1 DEF SetupStep, TypeOK, Nodes, SeqRange, N
    <3>2. CASE name \in DOMAIN direct_deps
      <4>1. pc' = "crashed" /\ UNCHANGED <<keys, graph, direct_deps, candidates, emitted, scan>>
        BY <2>1, <3>2 DEF SetupStep
      <4>. QED
        BY <4>1 DEF TypeOK, Nodes, N
    <3>3. CASE name \notin DOMAIN direct_deps
      <4>1. /\ direct_deps' = StoreDeps(direct_deps, name)
            /\ candidates' = IF IsSeed(name) THEN Append(candidates, name)
                                             ELSE candidates
            /\ scan' = scan + 1
            /\ UNCHANGED <<keys, graph, emitted, pc>>
        BY <2>1, <3>3 DEF SetupStep
      <4>2. scan' \in 0..N
        BY <2>1, <4>1, <2>0 DEF SetupStep, TypeOK
      <4>3. /\ DOMAIN direct_deps' \subseteq Nodes
            /\ direct_deps' \in [DOMAIN direct_deps' -> SUBSET Nodes]
        BY <3>1, <4>1 DEF StoreDeps, TypeOK
      <4>4. candidates' \in Seq(Nodes)
        BY <3>1, <4>1 DEF TypeOK
      <4>. QED
        BY <4>1, <4>2, <4>3, <4>4 DEF TypeOK, Nodes, N
    <3>. QED
      BY <3>2, <3>3
  <2>2. CASE SetupDone
    BY <2>2 DEF SetupDone, TypeOK, Nodes, N
  <2>3. CASE Fail
    BY <2>3 DEF Fail, TypeOK, Nodes, N
  <2>4. CASE Emit
    <3> DEFINE name     == candidates[Len(candidates)]
               rest     == PopLast(candidates)
               released == {d \in RevDeps(name) : direct_deps[d] = {name}}
    <3>1. name \in Nodes /\ rest \in Seq(Nodes)
      BY <2>4 DEF Emit, TypeOK, PopLast
    <3>2. CASE \/ name \in seen
               \/ \E d \in RevDeps(name) :
                     d \notin DOMAIN direct_deps \/ name \notin direct_deps[d]
      BY <2>4, <3>2 DEF Emit, TypeOK, Nodes, N
    <3>3. CASE ~ \/ name \in seen
                 \/ \E d \in RevDeps(name) :
                       d \notin DOMAIN direct_deps \/ name \notin direct_deps[d]
      <4>1. /\ direct_deps' =
                  [d \in DOMAIN direct_deps \ released |->
                      IF d \in RevDeps(name) THEN direct_deps[d] \ {name}
                                             ELSE direct_deps[d]]
            /\ \E order \in Orderings(released) : candidates' = rest \o order
            /\ emitted' = Append(emitted, name)
            /\ pc' = "loop"
            /\ UNCHANGED <<keys, graph, scan>>
        BY <2>4, <3>3 DEF Emit
      <4>2. released \subseteq Nodes /\ IsFiniteSet(released)
        <5>1. released \subseteq Nodes
          BY DEF RevDeps
        <5>. QED
          BY <5>1, <2>0, FS_Subset
      <4>3. candidates' \in Seq(Nodes)
        <5>1. PICK order \in Orderings(released) : candidates' = rest \o order
          BY <4>1
        <5>2. order \in Seq(Nodes)
          BY <4>2, OrderingsAreSeqs
        <5>. QED
          BY <5>1, <5>2, <3>1, ConcatProperties
      <4>4. /\ DOMAIN direct_deps' \subseteq Nodes
            /\ direct_deps' \in [DOMAIN direct_deps' -> SUBSET Nodes]
        <5>1. \A d \in DOMAIN direct_deps : direct_deps[d] \subseteq Nodes
          BY DEF TypeOK
        <5>2. \A d \in DOMAIN direct_deps : direct_deps[d] \ {name} \subseteq Nodes
          BY <5>1
        <5>. QED
          BY <4>1, <5>1, <5>2 DEF TypeOK
      <4>5. emitted' \in Seq(Nodes)
        BY <4>1, <3>1 DEF TypeOK
      <4>. QED
        BY <4>1, <4>3, <4>4, <4>5 DEF TypeOK, Nodes, N
    <3>. QED
      BY <3>2, <3>3
  <2>5. CASE Finish
    BY <2>5 DEF Finish, TypeOK, Nodes, N
  <2>6. CASE UNCHANGED vars
    BY <2>6 DEF vars, TypeOK, Nodes, N
  <2>. QED
    BY <2>1, <2>2, <2>3, <2>4, <2>5, <2>6 DEF Next
<1>. QED
  BY <1>2

THEOREM TypeCorrect == Spec => []TypeOK
BY TypeInit, TypeStep, PTL DEF Spec

-----------------------------------------------------------------------------
(***************************************************************************)
(* The order the generator yields respects every dependency.  SortInv     *)
(* strengthens DepsBeforeDependents with what makes it inductive: a       *)
(* candidate has all its dependencies yielded already (CandidatesReady),  *)
(* and direct_deps holds, for each node still in it, exactly the           *)
(* dependencies not yet yielded (RemainingDeps): so a node whose remaining *)
(* set shrinks to {name} when name is yielded is ready in turn.            *)
(***************************************************************************)
LEMMA InvInit == Init => SortInv
<1> SUFFICES ASSUME Init PROVE SortInv
  OBVIOUS
<1>1. TypeOK
  BY TypeInit
<1>. QED
  BY <1>1 DEF Init, SortInv, DepsBeforeDependents, CandidatesReady,
             RemainingDeps, SetupEmitsNothing

LEMMA InvStep == SortInv /\ [Next]_vars => SortInv'
<1> SUFFICES ASSUME SortInv, [Next]_vars PROVE SortInv'
  OBVIOUS
<1>0. /\ TypeOK /\ TypeOK'
      /\ DepsBeforeDependents /\ CandidatesReady
      /\ RemainingDeps /\ SetupEmitsNothing
  BY TypeStep DEF SortInv
<1> USE DEF SortInv
(* The steps that only move pc leave every conjunct but SetupEmitsNothing  *)
(* as it is.                                                               *)
<1>1. ASSUME UNCHANGED <<keys, graph, direct_deps, candidates, emitted, scan>>,
             pc' # "setup"
      PROVE  SortInv'
  BY <1>0, <1>1 DEF DepsBeforeDependents, CandidatesReady, RemainingDeps,
                    SetupEmitsNothing, seen, Nodes
<1>2. CASE SetupStep
  <2> DEFINE name == keys[scan + 1]
  <2>1. CASE name \in DOMAIN direct_deps
    BY <2>1, <1>2, <1>1 DEF SetupStep
  <2>2. CASE name \notin DOMAIN direct_deps
    <3>1. /\ direct_deps' = StoreDeps(direct_deps, name)
          /\ candidates' = IF IsSeed(name) THEN Append(candidates, name)
                                           ELSE candidates
          /\ UNCHANGED <<keys, graph, emitted, pc>>
      BY <1>2, <2>2 DEF SetupStep
    <3>2. pc = "setup" /\ emitted = <<>> /\ seen = {} /\ seen' = {}
      BY <1>2, <3>1, <1>0 DEF SetupStep, SetupEmitsNothing, seen, SeqRange
    <3>3. DepsBeforeDependents' /\ SetupEmitsNothing'
      BY <3>1, <3>2 DEF DepsBeforeDependents, SetupEmitsNothing
    <3>4. CandidatesReady'
      <4>1. CASE IsSeed(name)
        <5>1. graph[name] = {}
          BY <4>1 DEF IsSeed
        <5>. QED
          BY <3>1, <3>2, <4>1, <5>1, <1>0 DEF CandidatesReady, TypeOK
      <4>2. CASE ~IsSeed(name)
        BY <3>1, <3>2, <4>2, <1>0 DEF CandidatesReady
      <4>. QED
        BY <4>1, <4>2
    <3>5. RemainingDeps'
      BY <3>1, <3>2, <1>0 DEF RemainingDeps, StoreDeps
    <3>. QED
      BY <1>0, <3>3, <3>4, <3>5
  <2>. QED
    BY <2>1, <2>2
<1>3. CASE SetupDone
  BY <1>3, <1>1 DEF SetupDone
<1>4. CASE Fail
  BY <1>4, <1>1 DEF Fail
<1>5. CASE Finish
  BY <1>5, <1>1 DEF Finish
<1>6. CASE Emit
  <2> DEFINE name     == candidates[Len(candidates)]
             rest     == PopLast(candidates)
             released == {d \in RevDeps(name) : direct_deps[d] = {name}}
  <2>0. /\ candidates \in Seq(Nodes) /\ candidates # <<>>
        /\ Len(candidates) \in Nat \ {0}
        /\ name \in Nodes
        /\ graph[name] \subseteq seen
    BY <1>6, <1>0, EmptySeq DEF Emit, TypeOK, CandidatesReady
  <2>1. CASE \/ name \in seen
             \/ \E d \in RevDeps(name) :
                   d \notin DOMAIN direct_deps \/ name \notin direct_deps[d]
    BY <2>1, <1>6, <1>1 DEF Emit
  <2>2. CASE ~ \/ name \in seen
               \/ \E d \in RevDeps(name) :
                     d \notin DOMAIN direct_deps \/ name \notin direct_deps[d]
    <3>1. /\ direct_deps' =
                [d \in DOMAIN direct_deps \ released |->
                    IF d \in RevDeps(name) THEN direct_deps[d] \ {name}
                                           ELSE direct_deps[d]]
          /\ \E order \in Orderings(released) : candidates' = rest \o order
          /\ emitted' = Append(emitted, name)
          /\ pc' = "loop"
          /\ UNCHANGED <<keys, graph, scan>>
      BY <1>6, <2>2 DEF Emit
    <3>2. seen' = seen \cup {name}
      BY <3>1, <1>0, AppendRange DEF seen, TypeOK
    <3>3. DepsBeforeDependents'
      <4> SUFFICES ASSUME NEW i \in 1..Len(emitted')
                   PROVE  graph[emitted'[i]] \subseteq {emitted'[j] : j \in 1..i - 1}
        BY <3>1 DEF DepsBeforeDependents
      <4>1. emitted \in Seq(Nodes) /\ Len(emitted') = Len(emitted) + 1
        BY <3>1, <1>0 DEF TypeOK
      <4>2. CASE i \in 1..Len(emitted)
        <5>1. emitted'[i] = emitted[i]
          BY <4>1, <4>2, <3>1
        <5>2. \A j \in 1..i - 1 : emitted'[j] = emitted[j]
          BY <4>1, <4>2, <3>1
        <5>3. graph[emitted[i]] \subseteq {emitted[j] : j \in 1..i - 1}
          BY <4>2, <1>0 DEF DepsBeforeDependents
        <5>4. {emitted'[j] : j \in 1..i - 1} = {emitted[j] : j \in 1..i - 1}
          BY <5>2
        <5>. QED
          BY <5>1, <5>3, <5>4
      <4>3. CASE i = Len(emitted) + 1
        <5>1. emitted'[i] = name
          BY <4>1, <4>3, <3>1
        <5>2. {emitted'[j] : j \in 1..i - 1} = seen
          BY <4>1, <4>3, <3>1 DEF seen, SeqRange
        <5>. QED
          BY <5>1, <5>2, <2>0, <3>1
      <4>. QED
        BY <4>1, <4>2, <4>3
    <3>4. CandidatesReady'
      <4>1. PICK order \in Orderings(released) : candidates' = rest \o order
        BY <3>1
      <4>2. released \subseteq Nodes /\ IsFiniteSet(released)
        BY NodesFinite, KeySeqsAreSeqs, FS_Subset, <1>0 DEF RevDeps, TypeOK
      <4>3. order \in Seq(Nodes) /\ \A k \in 1..Len(order) : order[k] \in released
        <5>1. Cardinality(released) \in Nat
          BY <4>2, FS_CardinalityType
        <5>2. order \in [1..Cardinality(released) -> released]
          BY <4>1 DEF Orderings
        <5>3. order \in Seq(Nodes)
          BY <4>1, <4>2, OrderingsAreSeqs
        <5>4. DOMAIN order = 1..Len(order)
          BY <5>3, LenProperties
        <5>. QED
          BY <5>2, <5>3, <5>4
      <4>4. /\ rest \in Seq(Nodes)
            /\ \A k \in 1..Len(rest) : graph[rest[k]] \subseteq seen
        <5>1. rest \in Seq(Nodes) /\ Len(rest) = Len(candidates) - 1
              /\ \A k \in 1..Len(rest) : rest[k] = candidates[k]
          BY <2>0, PopLastElems
        <5>. QED
          BY <5>1, <2>0, <1>0 DEF CandidatesReady
      <4>5. \A d \in released : graph[d] \subseteq seen \cup {name}
        BY <1>0, <2>2 DEF RemainingDeps, RevDeps
      <4> SUFFICES ASSUME NEW k \in 1..Len(candidates')
                   PROVE  graph[candidates'[k]] \subseteq seen'
        BY <3>1 DEF CandidatesReady
      <4>6. CASE k \in 1..Len(rest)
        BY <4>1, <4>3, <4>4, <4>6, <3>2, ConcatProperties
      <4>7. CASE k - Len(rest) \in 1..Len(order)
        <5>1. candidates'[k] = order[k - Len(rest)]
          BY <4>1, <4>3, <4>4, <4>7, ConcatProperties
        <5>. QED
          BY <5>1, <4>3, <4>5, <4>7, <3>2
      <4>. QED
        BY <4>1, <4>3, <4>4, <4>6, <4>7, ConcatProperties
    <3>5. RemainingDeps'
      <4> SUFFICES ASSUME NEW d \in DOMAIN direct_deps'
                   PROVE  direct_deps'[d] = graph[d] \ seen'
        BY <3>1 DEF RemainingDeps
      <4>1. d \in DOMAIN direct_deps /\ d \in Nodes
        BY <3>1, <1>0 DEF TypeOK
      <4>2. direct_deps[d] = graph[d] \ seen
        BY <4>1, <1>0 DEF RemainingDeps
      <4>3. CASE d \in RevDeps(name)
        BY <3>1, <3>2, <4>1, <4>2, <4>3
      <4>4. CASE d \notin RevDeps(name)
        <5>1. name \notin graph[d]
          BY <4>1, <4>4 DEF RevDeps
        <5>. QED
          BY <3>1, <3>2, <4>1, <4>2, <4>4, <5>1
      <4>. QED
        BY <4>3, <4>4
    <3>6. SetupEmitsNothing'
      BY <3>1 DEF SetupEmitsNothing
    <3>. QED
      BY <1>0, <3>3, <3>4, <3>5, <3>6
  <2>. QED
    BY <2>1, <2>2
<1>7. CASE UNCHANGED vars
  BY <1>7, <1>0 DEF vars, DepsBeforeDependents, CandidatesReady, RemainingDeps,
                   SetupEmitsNothing, seen, Nodes
<1>. QED
  BY <1>2, <1>3, <1>4, <1>5, <1>6, <1>7 DEF Next

(* The generator of topological_sorting never yields a node before a node  *)
(* it depends on, for every registry and every order in which Python       *)
(* iterates the sets rev_deps[name].                                       *)
THEOREM DepsRespected == Spec => []DepsBeforeDependents
<1>1. Spec => []SortInv
  BY InvInit, InvStep, PTL DEF Spec
<1>. QED
  BY <1>1, PTL DEF SortInv

=============================================================================
