------------------------- MODULE SortRefinementProofs -------------------------
(***************************************************************************)
(* Proofs that DAGBuilder.topological_sorting (TopoSort) never aborts,     *)
(* yields each node once, raises its cycle error only on a real cycle and *)
(* implements the safety part of SortSpec, for every finite set of names, *)
(* every registry and every order of the sets rev_deps[name].              *)
(***************************************************************************)
EXTENDS TopoSortProofs

-----------------------------------------------------------------------------
(* Lemmas on duplicate-free sequences.                                     *)

(* A duplicate-free sequence lists a finite set of exactly its length.     *)
LEMMA NoDupCard ==
  ASSUME NEW S, NEW s \in Seq(S), NoDup(s)
  PROVE  /\ IsFiniteSet(SeqRange(s))
         /\ Cardinality(SeqRange(s)) = Len(s)
<1>1. Len(s) \in Nat /\ DOMAIN s = 1..Len(s)
  BY LenProperties
<1>2. s \in Bijection(1..Len(s), SeqRange(s))
  BY <1>1 DEF Bijection, Injection, Surjection, IsInjective, NoDup, SeqRange
<1>3. ExistsBijection(1..Len(s), SeqRange(s))
  BY <1>2 DEF ExistsBijection
<1>4. IsFiniteSet(1..Len(s)) /\ Cardinality(1..Len(s)) = Len(s)
  BY <1>1, FS_Interval
<1>. QED
  BY <1>3, <1>4, FS_Bijection

(* Appending a name not in the sequence keeps it duplicate-free.           *)
LEMMA AppendNoDup ==
  ASSUME NEW S, NEW s \in Seq(S), NEW x, NoDup(s), x \notin SeqRange(s)
  PROVE  NoDup(Append(s, x))
BY DEF NoDup, SeqRange

(* A concatenation lists the names of both parts.                          *)
LEMMA ConcatRange ==
  ASSUME NEW S, NEW r \in Seq(S), NEW t \in Seq(S)
  PROVE  SeqRange(r \o t) = SeqRange(r) \cup SeqRange(t)
<1>1. DOMAIN (r \o t) = 1..(Len(r) + Len(t)) /\ DOMAIN r = 1..Len(r)
      /\ DOMAIN t = 1..Len(t)
  BY ConcatProperties, LenProperties
<1>2. SeqRange(r \o t) \subseteq SeqRange(r) \cup SeqRange(t)
  BY <1>1, ConcatElems DEF SeqRange
<1>3. SeqRange(r) \subseteq SeqRange(r \o t)
  BY <1>1, ConcatProperties DEF SeqRange
<1>4. SeqRange(t) \subseteq SeqRange(r \o t)
  <2> SUFFICES ASSUME NEW j \in 1..Len(t) PROVE t[j] \in SeqRange(r \o t)
    BY <1>1 DEF SeqRange
  <2>1. Len(r) + j \in 1..Len(r \o t) /\ (r \o t)[Len(r) + j] = t[j]
    BY ConcatProperties
  <2>. QED
    BY <2>1, <1>1 DEF SeqRange
<1>. QED
  BY <1>2, <1>3, <1>4

(* Two duplicate-free sequences with no name in common concatenate to a    *)
(* duplicate-free sequence.                                                *)
LEMMA ConcatNoDup ==
  ASSUME NEW S, NEW r \in Seq(S), NEW t \in Seq(S), NoDup(r), NoDup(t),
         SeqRange(r) \cap SeqRange(t) = {}
  PROVE  NoDup(r \o t)
<1> DEFINE u == r \o t
<1>1. u \in Seq(S) /\ Len(u) = Len(r) + Len(t) /\ DOMAIN u = 1..Len(u)
  BY ConcatProperties, LenProperties
<1> SUFFICES ASSUME NEW i \in 1..Len(u), NEW j \in 1..Len(u), u[i] = u[j]
             PROVE  i = j
  BY <1>1 DEF NoDup
<1>2. /\ \A k \in 1..Len(r) : u[k] = r[k]
      /\ \A k \in 1..Len(t) : u[Len(r) + k] = t[k]
  BY ConcatProperties
<1>3. \A k \in 1..Len(u) : k \in 1..Len(r) \/ k - Len(r) \in 1..Len(t)
  BY <1>1
<1>4. DOMAIN r = 1..Len(r) /\ DOMAIN t = 1..Len(t)
  BY LenProperties
<1>5. CASE i \in 1..Len(r) /\ j \in 1..Len(r)
  BY <1>2, <1>4, <1>5 DEF NoDup
<1>6. CASE i - Len(r) \in 1..Len(t) /\ j - Len(r) \in 1..Len(t)
  <2>1. t[i - Len(r)] = t[j - Len(r)]
    BY <1>2, <1>6
  <2>. QED
    BY <2>1, <1>4, <1>6 DEF NoDup
<1>7. CASE i \in 1..Len(r) /\ j - Len(r) \in 1..Len(t)
  <2>1. r[i] = t[j - Len(r)]
    BY <1>2, <1>7
  <2>. QED
    BY <2>1, <1>4, <1>7 DEF SeqRange
<1>8. CASE i - Len(r) \in 1..Len(t) /\ j \in 1..Len(r)
  <2>1. t[i - Len(r)] = r[j]
    BY <1>2, <1>8
  <2>. QED
    BY <2>1, <1>4, <1>8 DEF SeqRange
<1>. QED
  BY <1>3, <1>5, <1>6, <1>7, <1>8

(* A listing of a finite set in some order lists it all, once.             *)
LEMMA OrderingsList ==
  ASSUME NEW S, IsFiniteSet(S), NEW s \in Orderings(S)
  PROVE  /\ s \in Seq(S)
         /\ NoDup(s)
         /\ SeqRange(s) = S
<1>1. s \in Seq(S) /\ NoDup(s)
  BY OrderingsAreSeqs DEF Orderings
<1>2. Cardinality(SeqRange(s)) = Cardinality(S)
  <2>1. Cardinality(S) \in Nat /\ s \in [1..Cardinality(S) -> S]
    BY FS_CardinalityType DEF Orderings
  <2>2. Len(s) = Cardinality(S)
    BY <2>1
  <2>. QED
    BY <1>1, <2>2, NoDupCard
<1>3. SeqRange(s) \subseteq S
  BY <1>1 DEF SeqRange
<1>. QED
  BY <1>1, <1>2, <1>3, FS_Subset

(* The registry's keys are distinct, so it has len(self._nodes) nodes.     *)
LEMMA KeysDistinct ==
  ASSUME keys \in KeySeqs
  PROVE  /\ keys \in Seq(Names)
         /\ NoDup(keys)
         /\ IsFiniteSet(Nodes)
         /\ Cardinality(Nodes) = N
<1>1. keys \in Seq(Names) /\ NoDup(keys)
  BY KeySeqsAreSeqs DEF KeySeqs
<1>. QED
  BY <1>1, NoDupCard DEF Nodes, N

-----------------------------------------------------------------------------
(***************************************************************************)
(* RefInv is inductive.  What it adds to SortInv: the first loop meets      *)
(* each key once (the keys of a dict are distinct), so its assert holds;   *)
(* a node leaves direct_deps only when it is released, so every dependent  *)
(* of a candidate is still there and remove() succeeds; the candidates are *)
(* distinct and unyielded, so no node is yielded twice; and every ready    *)
(* node is a candidate, so running out of candidates means no node left   *)
(* is ready.                                                               *)
(***************************************************************************)
LEMMA RefInit == Init => RefInv
<1> SUFFICES ASSUME Init PROVE RefInv
  OBVIOUS
<1>1. SortInv
  BY InvInit
<1>2. Scanned = {} /\ seen = {} /\ SeqRange(candidates) = {}
  BY DEF Init, Scanned, seen, SeqRange
<1>. QED
  BY <1>1, <1>2 DEF Init, RefInv, NoDup, SetupProgress, Tracked,
                    CandidatesFresh, ReadyAreCandidates, Ended

(* One iteration of the first loop: the name is new, so the assert holds.  *)
LEMMA RefSetupStep ==
  ASSUME RefInv, SetupStep
  PROVE  RefInv'
<1> DEFINE name == keys[scan + 1]
<1>0. /\ SortInv'
      /\ TypeOK /\ SetupEmitsNothing
      /\ keys \in Seq(Names) /\ NoDup(keys)
      /\ pc = "setup" /\ scan \in 0..(N - 1)
  <2>1. SortInv /\ [Next]_vars
    BY DEF RefInv, Next
  <2>2. SortInv' /\ TypeOK /\ SetupEmitsNothing
    BY <2>1, InvStep DEF SortInv
  <2>3. keys \in Seq(Names) /\ NoDup(keys) /\ N \in Nat
    BY <2>2, KeysDistinct DEF TypeOK, N
  <2>4. pc = "setup" /\ scan \in 0..(N - 1)
    BY <2>2, <2>3 DEF TypeOK, SetupStep
  <2>. QED
    BY <2>2, <2>3, <2>4
<1>1. /\ DOMAIN direct_deps = Scanned
      /\ SeqRange(candidates) = {n \in Scanned : graph[n] = {}}
  BY <1>0 DEF RefInv, SetupProgress
<1>2. name \notin Scanned /\ name \in Nodes
  BY <1>0 DEF Scanned, NoDup, N, Nodes, SeqRange
<1>3. /\ direct_deps' = StoreDeps(direct_deps, name)
      /\ candidates' = IF IsSeed(name) THEN Append(candidates, name)
                                       ELSE candidates
      /\ scan' = scan + 1
      /\ UNCHANGED <<keys, graph, emitted, pc>>
  BY <1>1, <1>2 DEF SetupStep
<1>4. Scanned' = Scanned \cup {name}
  BY <1>0, <1>3 DEF Scanned
<1>5. seen = {} /\ seen' = {}
  BY <1>0, <1>3 DEF SetupEmitsNothing, seen, SeqRange
<1>6. SetupProgress'
  <2>1. DOMAIN direct_deps' = Scanned'
    BY <1>1, <1>3, <1>4 DEF StoreDeps
  <2>2. SeqRange(candidates') = {n \in Scanned' : graph'[n] = {}}
    BY <1>0, <1>1, <1>3, <1>4, AppendRange DEF IsSeed, TypeOK
  <2>. QED
    BY <2>1, <2>2 DEF SetupProgress
<1>7. CandidatesFresh'
  <2>1. NoDup(candidates') 
    <3>1. NoDup(candidates) /\ candidates \in Seq(Nodes)
      BY <1>0 DEF RefInv, CandidatesFresh, TypeOK
    <3>2. name \notin SeqRange(candidates)
      BY <1>1, <1>2
    <3>. QED
      BY <3>1, <3>2, <1>3, AppendNoDup
  <2>. QED
    BY <2>1, <1>5 DEF CandidatesFresh
<1>8. NoDup(emitted') /\ Tracked' /\ ReadyAreCandidates' /\ Ended'
  BY <1>0, <1>3 DEF RefInv, Tracked, ReadyAreCandidates, Ended
<1>. QED
  BY <1>0, <1>6, <1>7, <1>8 DEF RefInv

(* The first loop is over: every node is in direct_deps and every node     *)
(* without a dependency is a candidate.                                    *)
LEMMA RefSetupDone ==
  ASSUME RefInv, SetupDone
  PROVE  RefInv'
<1>0. /\ SortInv' /\ TypeOK /\ SetupEmitsNothing
      /\ keys \in Seq(Names)
      /\ pc = "setup" /\ scan = N /\ pc' = "loop"
      /\ UNCHANGED <<keys, graph, direct_deps, candidates, emitted, scan>>
  BY InvStep, KeysDistinct DEF RefInv, SortInv, TypeOK, SetupDone, Next
<1>1. Scanned = Nodes /\ seen = {} /\ seen' = {}
  BY <1>0 DEF Scanned, Nodes, SeqRange, N, seen, SetupEmitsNothing
<1>2. /\ DOMAIN direct_deps = Nodes
      /\ SeqRange(candidates) = {n \in Nodes : graph[n] = {}}
  BY <1>0, <1>1 DEF RefInv, SetupProgress
<1>3. Tracked'
  BY <1>0, <1>2 DEF Tracked, Nodes
<1>4. ReadyAreCandidates'
  BY <1>0, <1>1, <1>2 DEF ReadyAreCandidates, Nodes
<1>5. NoDup(emitted') /\ CandidatesFresh' /\ SetupProgress' /\ Ended'
  BY <1>0, <1>1 DEF RefInv, CandidatesFresh, SetupProgress, Ended, seen
<1>. QED
  BY <1>0, <1>3, <1>4, <1>5 DEF RefInv

(* RuntimeError: the candidates ran out before len(self._nodes) names.     *)
LEMMA RefFail ==
  ASSUME RefInv, Fail
  PROVE  RefInv'
<1>0. /\ SortInv'
      /\ pc = "loop" /\ pc' = "failed"
      /\ candidates = <<>> /\ Len(emitted) < N
      /\ UNCHANGED <<keys, graph, direct_deps, candidates, emitted, scan>>
  BY InvStep DEF RefInv, Fail, Next
<1>. QED
  BY <1>0 DEF RefInv, SetupProgress, Tracked, CandidatesFresh,
              ReadyAreCandidates, Ended, seen, Nodes, N

(* The loop ran len(self._nodes) times and the generator returns.          *)
LEMMA RefFinish ==
  ASSUME RefInv, Finish
  PROVE  RefInv'
<1>0. /\ SortInv'
      /\ pc = "loop" /\ pc' = "done" /\ Len(emitted) = N
      /\ UNCHANGED <<keys, graph, direct_deps, candidates, emitted, scan>>
  BY InvStep DEF RefInv, Finish, Next
<1>. QED
  BY <1>0 DEF RefInv, SetupProgress, Tracked, CandidatesFresh,
              ReadyAreCandidates, Ended, seen, Nodes, N

(* One iteration of the main loop.  The popped candidate is ready and not  *)
(* yielded; its dependents are all still in direct_deps and wait for it,   *)
(* so remove() succeeds; the released dependents are neither yielded nor   *)
(* candidates already; and a node that becomes ready is released.          *)
LEMMA RefEmit ==
  ASSUME RefInv, Emit
  PROVE  RefInv'
<1> DEFINE name     == candidates[Len(candidates)]
           rest     == PopLast(candidates)
           released == {d \in RevDeps(name) : direct_deps[d] = {name}}
<1>0. /\ SortInv' /\ TypeOK
      /\ DepsBeforeDependents /\ CandidatesReady /\ RemainingDeps
      /\ NoDup(emitted) /\ Tracked /\ CandidatesFresh /\ ReadyAreCandidates
      /\ pc = "loop" /\ candidates # <<>>
  <2>1. SortInv /\ [Next]_vars
    BY DEF RefInv, Next
  <2>. QED
    BY <2>1, InvStep DEF RefInv, SortInv, Emit
<1>1. /\ candidates \in Seq(Nodes) /\ Len(candidates) \in Nat \ {0}
      /\ name \in SeqRange(candidates) /\ name \in Nodes
      /\ name \notin seen
      /\ graph[name] \subseteq seen
  <2>1. candidates \in Seq(Nodes) /\ Len(candidates) \in Nat \ {0}
    BY <1>0, EmptySeq DEF TypeOK
  <2>2. name \in SeqRange(candidates) /\ name \in Nodes
    BY <2>1 DEF SeqRange
  <2>. QED
    BY <1>0, <2>1, <2>2 DEF CandidatesReady, CandidatesFresh
<1>2. \A d \in RevDeps(name) : d \in DOMAIN direct_deps /\ name \in direct_deps[d]
  <2> SUFFICES ASSUME NEW d \in RevDeps(name)
               PROVE  d \in DOMAIN direct_deps /\ name \in direct_deps[d]
    OBVIOUS
  <2>1. d \in Nodes /\ name \in graph[d]
    BY DEF RevDeps
  <2>2. d \in DOMAIN direct_deps
    BY <2>1, <1>1, <1>0 DEF Tracked
  <2>. QED
    BY <2>1, <2>2, <1>1, <1>0 DEF RemainingDeps
<1>3. /\ direct_deps' =
            [d \in DOMAIN direct_deps \ released |->
                IF d \in RevDeps(name) THEN direct_deps[d] \ {name}
                                       ELSE direct_deps[d]]
      /\ \E order \in Orderings(released) : candidates' = rest \o order
      /\ emitted' = Append(emitted, name)
      /\ pc' = "loop"
      /\ UNCHANGED <<keys, graph, scan>>
  BY <1>1, <1>2 DEF Emit
<1>4. seen' = seen \cup {name} /\ emitted \in Seq(Nodes)
  BY <1>3, <1>0, AppendRange DEF seen, TypeOK
<1>5. PICK order \in Orderings(released) : candidates' = rest \o order
  BY <1>3
<1>6. /\ order \in Seq(Nodes) /\ NoDup(order) /\ SeqRange(order) = released
  <2>1. released \subseteq Nodes /\ IsFiniteSet(released)
    BY NodesFinite, KeySeqsAreSeqs, FS_Subset, <1>0 DEF RevDeps, TypeOK
  <2>2. NoDup(order) /\ SeqRange(order) = released
    BY <2>1, OrderingsList
  <2>3. order \in Seq(Nodes)
    BY <2>1, OrderingsAreSeqs
  <2>. QED
    BY <2>2, <2>3
<1>7. /\ rest \in Seq(Nodes) /\ NoDup(rest)
      /\ SeqRange(candidates) = SeqRange(rest) \cup {name}
      /\ name \notin SeqRange(rest)
      /\ \A r \in SeqRange(rest) : graph[r] \subseteq seen /\ r \notin seen
  <2>1. /\ rest \in Seq(Nodes) /\ Len(rest) = Len(candidates) - 1
        /\ \A k \in 1..Len(rest) : rest[k] = candidates[k]
    BY <1>1, PopLastElems
  <2>2. DOMAIN rest = 1..Len(rest) /\ DOMAIN candidates = 1..Len(candidates)
    BY <2>1, <1>1, LenProperties
  <2>3. NoDup(candidates)
    BY <1>0 DEF CandidatesFresh
  <2>4. NoDup(rest)
    BY <2>1, <2>2, <2>3 DEF NoDup
  <2>5. SeqRange(candidates) = SeqRange(rest) \cup {name}
    BY <2>1, <2>2, <1>1 DEF SeqRange
  <2>6. name \notin SeqRange(rest)
    BY <2>1, <2>2, <2>3, <1>1 DEF SeqRange, NoDup
  <2>7. \A r \in SeqRange(rest) : graph[r] \subseteq seen /\ r \notin seen
    BY <2>1, <2>2, <1>0 DEF SeqRange, CandidatesReady, CandidatesFresh
  <2>. QED
    BY <2>1, <2>4, <2>5, <2>6, <2>7
<1>8. \A d \in released : /\ name \in graph[d] /\ d \notin seen
                          /\ d # name /\ d \notin SeqRange(rest)
  <2> SUFFICES ASSUME NEW d \in released
               PROVE  name \in graph[d] /\ d \notin seen /\ d # name
                      /\ d \notin SeqRange(rest)
    OBVIOUS
  <2>1. name \in graph[d]
    BY DEF RevDeps
  <2>2. d \notin seen
    <3> SUFFICES ASSUME d \in seen PROVE FALSE
      OBVIOUS
    <3>1. PICK i \in 1..Len(emitted) : emitted[i] = d
      BY <1>4 DEF seen, SeqRange
    <3>2. graph[d] \subseteq seen
      <4>1. graph[d] \subseteq {emitted[j] : j \in 1..i - 1}
        BY <3>1, <1>0 DEF DepsBeforeDependents
      <4>2. {emitted[j] : j \in 1..i - 1} \subseteq seen
        BY <1>4 DEF seen, SeqRange
      <4>. QED
        BY <4>1, <4>2
    <3>. QED
      BY <3>2, <2>1, <1>1, <1>0 DEF DepsBeforeDependents
  <2>. QED
    BY <2>1, <2>2, <1>1, <1>7
<1>9. SeqRange(candidates') = SeqRange(rest) \cup released
  BY <1>5, <1>6, <1>7, ConcatRange
<1>10. CandidatesFresh'
  <2>1. NoDup(candidates')
    BY <1>5, <1>6, <1>7, <1>8, ConcatNoDup
  <2>2. SeqRange(candidates') \cap seen' = {}
    BY <1>4, <1>7, <1>8, <1>9
  <2>. QED
    BY <2>1, <2>2 DEF CandidatesFresh
<1>11. NoDup(emitted')
  BY <1>0, <1>1, <1>3, <1>4, AppendNoDup DEF seen
<1>12. Tracked'
  <2> SUFFICES ASSUME NEW d \in Nodes, ~(graph[d] \subseteq seen')
               PROVE  d \in DOMAIN direct_deps'
    BY <1>3 DEF Tracked, Nodes
  <2>1. d \in DOMAIN direct_deps
    BY <1>0, <1>4 DEF Tracked
  <2>2. d \notin released
    BY <1>0, <1>4, <2>1 DEF RemainingDeps
  <2>. QED
    BY <1>3, <2>1, <2>2
<1>13. ReadyAreCandidates'
  <2> SUFFICES ASSUME NEW n \in Nodes \ seen', graph[n] \subseteq seen'
               PROVE  n \in SeqRange(candidates')
    BY <1>3 DEF ReadyAreCandidates, Nodes
  <2>1. CASE graph[n] \subseteq seen
    <3>1. n \in SeqRange(candidates)
      BY <2>1, <1>0, <1>4 DEF ReadyAreCandidates
    <3>. QED
      BY <3>1, <1>4, <1>7, <1>9
  <2>2. CASE ~(graph[n] \subseteq seen)
    <3>1. n \in DOMAIN direct_deps /\ direct_deps[n] = graph[n] \ seen
      BY <2>2, <1>0 DEF Tracked, RemainingDeps
    <3>2. direct_deps[n] = {name} /\ name \in graph[n]
      BY <2>2, <3>1, <1>4
    <3>3. n \in released
      BY <3>1, <3>2 DEF RevDeps
    <3>. QED
      BY <3>3, <1>9
  <2>. QED
    BY <2>1, <2>2
<1>14. SetupProgress' /\ Ended'
  BY <1>3 DEF SetupProgress, Ended
<1>. QED
  BY <1>0, <1>10, <1>11, <1>12, <1>13, <1>14 DEF RefInv

LEMMA RefStep == RefInv /\ [Next]_vars => RefInv'
<1> SUFFICES ASSUME RefInv, [Next]_vars PROVE RefInv'
  OBVIOUS
<1>1. CASE SetupStep
  BY <1>1, RefSetupStep
<1>2. CASE SetupDone
  BY <1>2, RefSetupDone
<1>3. CASE Fail
  BY <1>3, RefFail
<1>4. CASE Emit
  BY <1>4, RefEmit
<1>5. CASE Finish
  BY <1>5, RefFinish
<1>6. CASE UNCHANGED vars
  <2>1. SortInv'
    BY InvStep DEF RefInv
  <2>. QED
    BY <1>6, <2>1 DEF vars, RefInv, SetupProgress, Tracked, CandidatesFresh,
                      ReadyAreCandidates, Ended, Scanned, seen, Nodes, N
<1>. QED
  BY <1>1, <1>2, <1>3, <1>4, <1>5, <1>6 DEF Next

LEMMA RefInvHolds == Spec => []RefInv
BY RefInit, RefStep, PTL DEF Spec

(* The names yielded are a set of nodes of the registry of exactly         *)
(* Len(emitted) elements.                                                  *)
LEMMA SeenCount ==
  ASSUME RefInv
  PROVE  /\ seen \subseteq Nodes
         /\ IsFiniteSet(Nodes) /\ Cardinality(Nodes) = N
         /\ IsFiniteSet(seen) /\ Cardinality(seen) = Len(emitted)
<1>1. emitted \in Seq(Nodes) /\ NoDup(emitted) /\ keys \in KeySeqs
  BY DEF RefInv, SortInv, TypeOK
<1>2. seen \subseteq Nodes
  BY <1>1 DEF seen, SeqRange
<1>. QED
  BY <1>1, <1>2, KeysDistinct, NoDupCard DEF seen

(* Fewer names than nodes yielded: some node is left.                      *)
LEMMA NodesLeft ==
  ASSUME RefInv, Len(emitted) < N
  PROVE  Nodes \ seen # {}
<1>1. /\ seen \subseteq Nodes /\ Cardinality(Nodes) = N
      /\ Cardinality(seen) = Len(emitted)
  BY SeenCount
<1>2. seen # Nodes
  BY <1>1
<1>. QED
  BY <1>1, <1>2

-----------------------------------------------------------------------------
(* ExactlyOnce follows from the inductive invariant.                     *)
LEMMA RefExactlyOnce == RefInv => ExactlyOnce
<1> SUFFICES ASSUME RefInv PROVE ExactlyOnce
  OBVIOUS
<1>1. pc # "crashed" /\ NoDup(emitted)
  BY DEF RefInv, Ended
<1>2. ASSUME pc = "done" PROVE seen = Nodes
  <2>1. Len(emitted) = N
    BY <1>2 DEF RefInv, Ended
  <2>. QED
    BY <2>1, SeenCount, FS_Subset
<1>. QED
  BY <1>1, <1>2 DEF ExactlyOnce

(* topological_sorting never trips its asserts or a KeyError, never        *)
(* yields a node twice, and has yielded every node of the registry when   *)
(* it returns: len(self._nodes) distinct names of the registry are all of *)
(* its names.                                                              *)
THEOREM ExactlyOnceHolds == Spec => []ExactlyOnce
BY RefExactlyOnce, RefInvHolds, PTL

(* NoFalseCycle follows from the inductive invariant.                    *)
LEMMA RefNoFalseCycle == RefInv => NoFalseCycle
<1> SUFFICES ASSUME RefInv, pc = "failed" PROVE HasCycle
  BY DEF NoFalseCycle
<1> DEFINE S == Nodes \ seen
<1>1. candidates = <<>> /\ Len(emitted) < N
  BY DEF RefInv, Ended
<1>2. S # {}
  BY <1>1, NodesLeft
<1>3. \A n \in S : ~(graph[n] \subseteq seen)
  <2>1. SeqRange(candidates) = {}
    BY <1>1 DEF SeqRange
  <2>. QED
    BY <2>1 DEF RefInv, ReadyAreCandidates
<1>4. \A n \in S : graph[n] \cap S # {}
  BY <1>3 DEF RefInv, SortInv, TypeOK
<1>. QED
  BY <1>2, <1>4 DEF HasCycle

(* The RuntimeError 'there is at least one cycle' is raised only on a      *)
(* dependency cycle: the nodes not yielded are not empty (fewer names than *)
(* nodes were yielded) and none of them is ready (every ready node would  *)
(* be a candidate), so each waits for another of them.                     *)
THEOREM NoFalseCycleHolds == Spec => []NoFalseCycle
BY RefNoFalseCycle, RefInvHolds, PTL

-----------------------------------------------------------------------------
(***************************************************************************)
(* The refinement: under the mapping out <- emitted, status <- SortStatus  *)
(* an initial state of the generator is an initial state of SortSpec, the *)
(* set-up steps are stutters, a resumption that yields is Yield, the       *)
(* RuntimeError is Raise and the return is Return.                         *)
(***************************************************************************)
LEMMA AbsInit == Init => Abs!AInit
<1> SUFFICES ASSUME Init PROVE Abs!AInit
  OBVIOUS
<1>1. keys \in Seq(Names)
  BY KeySeqsAreSeqs DEF Init
<1>. QED
  BY <1>1 DEF Init, Abs!AInit, Abs!ANodes, Nodes, SeqRange, SortStatus

LEMMA AbsStep == RefInv /\ RefInv' /\ [Next]_vars => [Abs!ANext]_Abs!avars
<1> SUFFICES ASSUME RefInv, RefInv', [Next]_vars
             PROVE  [Abs!ANext]_Abs!avars
  OBVIOUS
<1>0. /\ Abs!ANodes = Nodes /\ Abs!Handed = seen
      /\ \A n : Abs!Ready(n) = (graph[n] \subseteq seen)
  BY DEF Abs!ANodes, Abs!Handed, Abs!Ready, Nodes, seen, SeqRange
<1>1. ASSUME UNCHANGED <<keys, graph, emitted>>,
             pc \in {"setup", "loop"}, pc' \in {"setup", "loop"}
      PROVE  [Abs!ANext]_Abs!avars
  BY <1>1 DEF Abs!avars, SortStatus
<1>2. CASE SetupStep
  <2>1. pc' = "setup" /\ UNCHANGED <<keys, graph, emitted>>
    BY <1>2 DEF SetupStep, RefInv, Ended
  <2>. QED
    BY <1>2, <2>1, <1>1 DEF SetupStep
<1>3. CASE SetupDone
  BY <1>3, <1>1 DEF SetupDone
<1>4. CASE Fail
  <2>1. /\ pc = "loop" /\ candidates = <<>> /\ Len(emitted) < N
        /\ pc' = "failed" /\ UNCHANGED <<keys, graph, emitted>>
    BY <1>4 DEF Fail
  <2>2. Nodes \ seen # {}
    BY <2>1, NodesLeft
  <2>3. \A n \in Nodes \ seen : ~(graph[n] \subseteq seen)
    <3>1. SeqRange(candidates) = {}
      BY <2>1 DEF SeqRange
    <3>. QED
      BY <2>1, <3>1 DEF RefInv, ReadyAreCandidates
  <2>4. Abs!Raise
    BY <2>1, <2>2, <2>3, <1>0 DEF Abs!Raise, SortStatus
  <2>. QED
    BY <2>4 DEF Abs!ANext
<1>5. CASE Emit
  <2> DEFINE name == candidates[Len(candidates)]
  <2>1. /\ pc = "loop" /\ candidates # <<>>
        /\ candidates \in Seq(Nodes)
    BY <1>5 DEF Emit, RefInv, SortInv, TypeOK
  <2>2. /\ name \in SeqRange(candidates) /\ name \in Nodes
        /\ name \notin seen /\ graph[name] \subseteq seen
    <3>1. Len(candidates) \in Nat \ {0}
      BY <2>1, EmptySeq
    <3>. QED
      BY <2>1, <3>1 DEF SeqRange, RefInv, SortInv, CandidatesReady,
                        CandidatesFresh
  <2>3. /\ emitted' = Append(emitted, name)
        /\ pc' = "loop" /\ UNCHANGED <<keys, graph>>
    BY <1>5 DEF Emit, RefInv, Ended
  <2>4. name \in Names
    BY <2>2, KeySeqsAreSeqs DEF RefInv, SortInv, TypeOK, Nodes, SeqRange
  <2>5. Abs!Yield(name)
    BY <2>1, <2>2, <2>3, <1>0 DEF Abs!Yield, SortStatus
  <2>. QED
    BY <2>4, <2>5 DEF Abs!ANext
<1>6. CASE Finish
  <2>1. /\ pc = "loop" /\ Len(emitted) = N
        /\ pc' = "done" /\ UNCHANGED <<keys, graph, emitted>>
    BY <1>6 DEF Finish
  <2>2. seen = Nodes
    <3>1. /\ seen \subseteq Nodes /\ IsFiniteSet(Nodes)
          /\ Cardinality(Nodes) = N /\ Cardinality(seen) = Len(emitted)
      BY SeenCount
    <3>. QED
      BY <2>1, <3>1, FS_Subset
  <2>3. Abs!Return
    BY <2>1, <2>2, <1>0 DEF Abs!Return, SortStatus
  <2>. QED
    BY <2>3 DEF Abs!ANext
<1>7. CASE UNCHANGED vars
  BY <1>7 DEF vars, Abs!avars, SortStatus
<1>. QED
  BY <1>2, <1>3, <1>4, <1>5, <1>6, <1>7 DEF Next

(* topological_sorting implements what it promises the exporter (SortSpec, *)
(* safety part): each node after its dependencies and once, then a return  *)
(* with every node handed out or the cycle error with no node ready.       *)
THEOREM RefinesSortSpec == Spec => Abs!ASafe
<1>1. Spec => []RefInv
  BY RefInvHolds
<1>2. []RefInv /\ [][Next]_vars => [][Abs!ANext]_Abs!avars
  BY AbsStep, PTL
<1>. QED
  BY <1>1, <1>2, AbsInit, PTL DEF Spec, Abs!ASafe

=============================================================================
