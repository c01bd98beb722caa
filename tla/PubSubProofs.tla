----------------------------- MODULE PubSubProofs -----------------------------
(***************************************************************************)
(* Proofs about PubSub, the model of PubSubManager (src/hathor/pubsub.py), *)
(* for any keys, any callbacks and any bound on the publish() calls.       *)
(***************************************************************************)
EXTENDS PubSub, FiniteSetTheorems, SequenceTheorems, TLAPS

(* A list with each callback once: subscribe() appends only a callback     *)
(* that is not in the list.                                                *)
NoDupList(s) == \A i, j \in DOMAIN s : s[i] = s[j] => i = j

(* The callbacks at the first n places of the list s.                      *)
Prefix(s, n) == {s[j] : j \in 1..n}

(* What a running publish() frame knows of the list it iterates.  The list *)
(* only grows by appending (unsubscribe's pop raises before it changes     *)
(* anything), so the frame's iterator index never passes its end, the      *)
(* callbacks called are those at the places the iterator went over, and    *)
(* the callbacks subscribed at the start are all still in the list.        *)
FrameOK(fr) ==
    /\ fr.idx <= Len(subscribers[fr.key])
    /\ fr.called = Prefix(subscribers[fr.key], fr.idx)
    /\ fr.start \subseteq Listed(subscribers[fr.key])

(* The inductive invariant.                                                *)
PInv ==
    /\ PTypeOK
    /\ \A k \in Keys : NoDupList(subscribers[k])
    /\ \A i \in 1..Len(stack) : FrameOK(stack[i])

-----------------------------------------------------------------------------
(* The first n callbacks of a list without repetitions are n callbacks.   *)
LEMMA PrefixCard ==
  ASSUME NEW S, NEW s \in Seq(S), NoDupList(s), NEW n \in 0..Len(s)
  PROVE  Cardinality(Prefix(s, n)) = n
<1> DEFINE g == [j \in 1..n |-> s[j]]
<1>1. g \in Bijection(1..n, Prefix(s, n))
  BY DEF Bijection, Injection, Surjection, IsInjective, NoDupList, Prefix
<1>2. ExistsBijection(1..n, Prefix(s, n))
  BY <1>1 DEF ExistsBijection
<1>3. IsFiniteSet(1..n) /\ Cardinality(1..n) = n
  BY FS_Interval
<1>. QED
  BY <1>2, <1>3, FS_Bijection

(* The steps that remove frames from the top of the stack keep the frames  *)
(* below as they are.                                                      *)
LEMMA TruncateFrames ==
  ASSUME NEW d \in 0..Len(stack), stack \in Seq(Frame)
  PROVE  /\ [i \in 1..d |-> stack[i]] \in Seq(Frame)
         /\ Len([i \in 1..d |-> stack[i]]) = d
         /\ \A i \in 1..d : [i2 \in 1..d |-> stack[i2]][i] = stack[i]
OBVIOUS

(* Two lists that agree on their first n places have the same prefix.     *)
LEMMA PrefixSame ==
  ASSUME NEW s, NEW t, NEW n \in Nat, \A j \in 1..n : s[j] = t[j]
  PROVE  Prefix(s, n) = Prefix(t, n)
BY DEF Prefix

(* A frame that a step keeps as it is, over a list the step keeps as it   *)
(* is, stays consistent.                                                   *)
LEMMA FrameKept ==
  ASSUME NEW fr, NEW fr2, subscribers' = subscribers,
         fr2.key = fr.key, fr2.idx = fr.idx, fr2.called = fr.called,
         fr2.start = fr.start, FrameOK(fr)
  PROVE  FrameOK(fr2)'
BY DEF FrameOK

(* A function with the fields of a frame, each of its type, is a frame.   *)
LEMMA FrameFields ==
  ASSUME NEW r, r = [x \in DOMAIN r |-> r[x]],
         DOMAIN r = {"key", "idx", "inCallback", "start", "called"},
         r.key \in Keys, r.idx \in Nat, r.inCallback \in BOOLEAN,
         r.start \subseteq Fns, r.called \subseteq Fns
  PROVE  r \in Frame
<1>1. r = [key |-> r.key, idx |-> r.idx, inCallback |-> r.inCallback,
           start |-> r.start, called |-> r.called]
  OBVIOUS
<1>. QED
  BY <1>1 DEF Frame

(* The frame after the loop of publish() starts its next callback g.       *)
LEMMA FrameAdvance ==
  ASSUME NEW fr \in Frame, NEW g \in Fns
  PROVE  /\ Advance(fr, g) \in Frame
         /\ Advance(fr, g).key = fr.key /\ Advance(fr, g).idx = fr.idx + 1
         /\ Advance(fr, g).start = fr.start
         /\ Advance(fr, g).called = fr.called \cup {g}
<1> DEFINE r == Advance(fr, g)
<1>1. r = [x \in DOMAIN r |-> r[x]]
  BY DEF Advance
<1>2. DOMAIN r = {"key", "idx", "inCallback", "start", "called"}
  BY DEF Frame, Advance
<1>3. /\ r.key = fr.key /\ r.idx = fr.idx + 1
      /\ r.start = fr.start /\ r.called = fr.called \cup {g}
  BY DEF Frame, Advance
<1>4. /\ r.key \in Keys /\ r.idx \in Nat /\ r.inCallback \in BOOLEAN
      /\ r.start \subseteq Fns /\ r.called \subseteq Fns
  BY DEF Frame, Advance
<1>5. r \in Frame
  BY <1>1, <1>2, <1>4, FrameFields
<1>. QED
  BY <1>3, <1>5

(* The frame once its running callback has returned.                       *)
LEMMA FrameReturn ==
  ASSUME NEW fr \in Frame
  PROVE  /\ [fr EXCEPT !.inCallback = FALSE] \in Frame
         /\ [fr EXCEPT !.inCallback = FALSE].key = fr.key
         /\ [fr EXCEPT !.inCallback = FALSE].idx = fr.idx
         /\ [fr EXCEPT !.inCallback = FALSE].start = fr.start
         /\ [fr EXCEPT !.inCallback = FALSE].called = fr.called
BY DEF Frame

-----------------------------------------------------------------------------
LEMMA PInitInv == PInit => PInv
BY PubSubAssumption DEF PInit, PInv, PTypeOK, NoDupList

LEMMA PStep == PInv /\ [PNext]_pvars => PInv'
<1> SUFFICES ASSUME PInv, [PNext]_pvars PROVE PInv'
  OBVIOUS
<1>0. /\ subscribers \in [Keys -> Seq(Fns)]
      /\ stack \in Seq(Frame)
      /\ published \in 0..MaxPublishes
      /\ unsubscribed \subseteq Keys \X Fns
      /\ \A k \in Keys : NoDupList(subscribers[k])
      /\ \A i \in 1..Len(stack) : FrameOK(stack[i])
  BY DEF PInv, PTypeOK
(* A step that changes neither the lists nor the frames it keeps, and      *)
(* keeps a prefix of the stack.                                            *)
<1>u. ASSUME UNCHANGED subscribers, unsubscribed' \subseteq Keys \X Fns,
             published' \in 0..MaxPublishes,
             NEW d \in 0..Len(stack), stack' = [i \in 1..d |-> stack[i]]
      PROVE  PInv'
  <2>1. stack' \in Seq(Frame) /\ Len(stack') = d
        /\ \A i \in 1..d : stack'[i] = stack[i]
    BY <1>0, <1>u, TruncateFrames
  <2>2. ASSUME NEW i \in 1..Len(stack') PROVE FrameOK(stack[i])'
    <3>1. i \in 1..Len(stack) /\ stack'[i] = stack[i] /\ FrameOK(stack[i])
      BY <1>0, <1>u, <2>1
    <3>. QED
      BY <1>u, <3>1, FrameKept
  <2>. QED
    BY <1>0, <1>u, <2>1, <2>2 DEF PInv, PTypeOK
<1>1. ASSUME NEW k \in Keys, NEW f \in Fns, Subscribe(k, f) PROVE PInv'
  <2>1. /\ f \notin Listed(subscribers[k])
        /\ subscribers' = [subscribers EXCEPT ![k] = Append(@, f)]
        /\ unsubscribed' = unsubscribed \ {<<k, f>>}
        /\ UNCHANGED <<stack, published>>
    BY <1>1 DEF Subscribe
  <2>2. subscribers' \in [Keys -> Seq(Fns)]
    BY <1>0, <2>1
  <2>3. \A k2 \in Keys : NoDupList(subscribers'[k2])
    <3>1. SUFFICES ASSUME NEW k2 \in Keys PROVE NoDupList(subscribers'[k2])
      OBVIOUS
    <3>2. CASE k2 = k
      <4>1. subscribers'[k] = Append(subscribers[k], f) /\ subscribers[k] \in Seq(Fns)
        BY <1>0, <2>1
      <4>. QED
        BY <1>0, <2>1, <3>2, <4>1, AppendProperties DEF NoDupList, Listed
    <3>3. CASE k2 # k
      BY <1>0, <2>1, <3>3
    <3>. QED
      BY <3>2, <3>3
  <2>4. ASSUME NEW i \in 1..Len(stack) PROVE FrameOK(stack[i])'
    <3> DEFINE fr == stack[i]
    <3>1. fr \in Frame /\ FrameOK(fr)
      BY <1>0
    <3>2. CASE fr.key = k
      <4>0. subscribers'[k] = Append(subscribers[k], f) /\ subscribers[k] \in Seq(Fns)
        BY <1>0, <2>1
      <4>1. /\ Len(subscribers'[k]) = Len(subscribers[k]) + 1
            /\ \A j \in 1..Len(subscribers[k]) : subscribers'[k][j] = subscribers[k][j]
        BY <4>0, AppendProperties
      <4>2. Listed(subscribers[k]) \subseteq Listed(subscribers'[k])
        BY <4>0, <4>1 DEF Listed
      <4>3. fr.idx \in Nat /\ fr.idx <= Len(subscribers[k])
        BY <3>1, <3>2 DEF FrameOK, Frame
      <4>4. Prefix(subscribers'[k], fr.idx) = Prefix(subscribers[k], fr.idx)
        <5>1. \A j \in 1..fr.idx : subscribers'[k][j] = subscribers[k][j]
          BY <4>1, <4>3
        <5>. QED
          BY <4>3, <5>1, PrefixSame
      <4>. QED
        BY <2>1, <3>1, <3>2, <4>1, <4>2, <4>3, <4>4 DEF FrameOK
    <3>3. CASE fr.key # k
      <4>1. subscribers'[fr.key] = subscribers[fr.key]
        BY <1>0, <2>1, <3>1, <3>3 DEF Frame
      <4>. QED
        BY <2>1, <3>1, <4>1 DEF FrameOK
    <3>. QED
      BY <3>2, <3>3
  <2>. QED
    BY <1>0, <2>1, <2>2, <2>3, <2>4 DEF PInv, PTypeOK
<1>2. ASSUME NEW k \in Keys, NEW f \in Fns, Unsubscribe(k, f) PROVE PInv'
  <2>1. subscribers' = subscribers
    BY <1>0, <1>2 DEF Unsubscribe, PopFn
  <2>2. PICK d \in 0..Len(stack) : stack' = [i \in 1..d |-> stack[i]]
    BY <1>2 DEF Unsubscribe, Unwind
  <2>. QED
    BY <1>0, <1>2, <2>1, <2>2, <1>u DEF Unsubscribe
<1>3. ASSUME NEW k \in Keys, PublishStart(k) PROVE PInv'
  <2> DEFINE fr == [key |-> k, idx |-> 0, inCallback |-> FALSE,
                    start |-> Listed(subscribers[k]), called |-> {}]
  <2>1. /\ stack' = Append(stack, fr)
        /\ published < MaxPublishes /\ published' = published + 1
        /\ UNCHANGED <<subscribers, unsubscribed>>
    BY <1>3 DEF PublishStart
  <2>2. fr \in Frame /\ FrameOK(fr)
    BY <1>0 DEF Frame, FrameOK, Prefix, Listed
  <2>3. stack' \in Seq(Frame) /\ Len(stack') = Len(stack) + 1
        /\ \A i \in 1..Len(stack) : stack'[i] = stack[i]
        /\ stack'[Len(stack) + 1] = fr
    BY <1>0, <2>1, <2>2
  <2>4. ASSUME NEW i \in 1..Len(stack') PROVE FrameOK(stack[i])'
    <3>1. CASE i = Len(stack) + 1
      BY <2>1, <2>2, <2>3, <3>1, FrameKept
    <3>2. CASE i \in 1..Len(stack)
      BY <1>0, <2>1, <2>3, <3>2, FrameKept
    <3>. QED
      BY <1>0, <2>3, <3>1, <3>2
  <2>5. published' \in 0..MaxPublishes
    BY <1>0, <2>1, PubSubAssumption
  <2>. QED
    BY <1>0, <2>1, <2>3, <2>4, <2>5 DEF PInv, PTypeOK
<1>4. CASE CallNext
  <2> DEFINE L == Len(stack)
             top == stack[L]
             lst == subscribers[top.key]
             g == lst[top.idx + 1]
  <2>1. /\ stack # <<>> /\ ~top.inCallback /\ top.idx < Len(lst)
        /\ stack' = [stack EXCEPT ![L] = Advance(top, g)]
        /\ UNCHANGED <<subscribers, published, unsubscribed>>
    BY <1>4 DEF CallNext
  <2>2. L \in 1..Len(stack)
    BY <1>0, <2>1, EmptySeq, LenProperties
  <2>3. top \in Frame /\ FrameOK(top)
    BY <1>0, <2>2
  <2>4. lst \in Seq(Fns) /\ top.idx \in Nat /\ top.idx + 1 \in 1..Len(lst)
    BY <1>0, <2>1, <2>3 DEF Frame
  <2>5. g \in Fns
    BY <2>4
  <2>6. /\ Advance(top, g) \in Frame
        /\ Advance(top, g).key = top.key /\ Advance(top, g).idx = top.idx + 1
        /\ Advance(top, g).start = top.start
        /\ Advance(top, g).called = top.called \cup {g}
    BY <2>3, <2>5, FrameAdvance
  <2>7. /\ stack' \in Seq(Frame) /\ Len(stack') = L
        /\ \A i \in 1..L : stack'[i] = IF i = L THEN Advance(top, g) ELSE stack[i]
    <3>1. stack \in Seq(Frame) /\ Advance(top, g) \in Frame
      BY <1>0, <2>6
    <3>2. /\ [stack EXCEPT ![L] = Advance(top, g)] \in Seq(Frame)
          /\ Len([stack EXCEPT ![L] = Advance(top, g)]) = Len(stack)
          /\ \A j \in 1..Len(stack) : [stack EXCEPT ![L] = Advance(top, g)][j]
                                     = IF j = L THEN Advance(top, g) ELSE stack[j]
      BY <2>2, <3>1, ExceptSeq
    <3>. QED
      BY <2>1, <3>2
  <2>8. ASSUME NEW i \in 1..Len(stack') PROVE FrameOK(stack[i])'
    <3>1. CASE i = L
      <4>1. Prefix(lst, top.idx + 1) = Prefix(lst, top.idx) \cup {g}
        BY <2>4 DEF Prefix
      <4>2. stack'[i] = Advance(top, g)
        BY <2>7, <3>1
      <4>3. DEFINE nw == stack'[i]
      <4>4. /\ nw.key = top.key /\ nw.idx = top.idx + 1 /\ nw.start = top.start
            /\ nw.called = Prefix(lst, top.idx) \cup {g}
        BY <2>3, <2>6, <4>2 DEF FrameOK
      <4>5. subscribers'[nw.key] = lst
        BY <2>1, <4>4
      <4>6. nw.idx <= Len(subscribers'[nw.key])
        <5>1. top.idx + 1 <= Len(lst)
          BY <2>1, <2>4
        <5>. QED
          BY <4>4, <4>5, <5>1
      <4>7. nw.called = Prefix(subscribers'[nw.key], nw.idx)
        BY <4>1, <4>4, <4>5
      <4>8. nw.start \subseteq Listed(subscribers'[nw.key])
        BY <2>3, <4>4, <4>5 DEF FrameOK
      <4>. QED
        BY <4>6, <4>7, <4>8 DEF FrameOK
    <3>2. CASE i # L
      <4>1. i \in 1..Len(stack) /\ stack'[i] = stack[i]
        BY <2>2, <2>7, <3>2
      <4>2. FrameOK(stack[i])
        BY <1>0, <4>1
      <4>. QED
        BY <2>1, <4>1, <4>2, FrameKept
    <3>. QED
      BY <3>1, <3>2
  <2>. QED
    BY <1>0, <2>1, <2>7, <2>8 DEF PInv, PTypeOK
<1>5. CASE Return
  <2> DEFINE L == Len(stack)
             top == stack[L]
             top2 == [top EXCEPT !.inCallback = FALSE]
  <2>1. /\ stack # <<>>
        /\ stack' = [stack EXCEPT ![L] = top2]
        /\ UNCHANGED <<subscribers, published, unsubscribed>>
    BY <1>5 DEF Return
  <2>2. L \in 1..Len(stack)
    BY <1>0, <2>1, EmptySeq, LenProperties
  <2>3. top \in Frame
    BY <1>0, <2>2
  <2>4. /\ top2 \in Frame /\ top2.key = top.key /\ top2.idx = top.idx
        /\ top2.start = top.start /\ top2.called = top.called
    BY <2>3, FrameReturn
  <2>5. /\ stack' \in Seq(Frame) /\ Len(stack') = L
        /\ \A i \in 1..L : stack'[i] = IF i = L THEN top2 ELSE stack[i]
    BY <1>0, <2>1, <2>2, <2>4, ExceptSeq
  <2>6. ASSUME NEW i \in 1..Len(stack') PROVE FrameOK(stack[i])'
    <3>1. i \in 1..Len(stack) /\ FrameOK(stack[i])
      BY <1>0, <2>5
    <3>2. CASE i = L
      BY <2>1, <2>4, <2>5, <3>1, <3>2, FrameKept
    <3>3. CASE i # L
      BY <2>1, <2>5, <3>1, <3>3, FrameKept
    <3>. QED
      BY <3>2, <3>3
  <2>. QED
    BY <1>0, <2>1, <2>5, <2>6 DEF PInv, PTypeOK
<1>6. CASE Raise
  <2>1. PICK d \in 0..Len(stack) : stack' = [i \in 1..d |-> stack[i]]
    BY <1>6 DEF Raise, Unwind
  <2>. QED
    BY <1>0, <1>6, <2>1, <1>u DEF Raise
<1>7. CASE PublishEnd
  <2>1. stack # <<>> /\ stack' = [i \in 1..Len(stack) - 1 |-> stack[i]]
    BY <1>7 DEF PublishEnd
  <2>2. Len(stack) - 1 \in 0..Len(stack)
    BY <1>0, <2>1, EmptySeq
  <2>. QED
    BY <1>0, <1>7, <2>1, <2>2, <1>u DEF PublishEnd
<1>8. CASE UNCHANGED pvars
  BY <1>0, <1>8 DEF pvars, PInv, PTypeOK, FrameOK, Prefix, Listed
<1>. QED
  BY <1>1, <1>2, <1>3, <1>4, <1>5, <1>6, <1>7, <1>8 DEF PNext

LEMMA PInvHolds == PSpec => []PInv
BY PInitInv, PStep, PTL DEF PSpec

-----------------------------------------------------------------------------
(* The bus keeps its types: each subscriber list is a list of callbacks,  *)
(* each running publish() a frame, whatever callbacks do meanwhile.        *)
THEOREM PTypeCorrect == PSpec => []PTypeOK
<1>1. PInv => PTypeOK
  BY DEF PInv
<1>. QED
  BY <1>1, PInvHolds, PTL

(* Only the step where publish() runs out of list pops a frame whose       *)
(* callback has returned, and at that point its iterator has passed every *)
(* place of the list: it called each callback now subscribed, once each.   *)
LEMMA CompletesStep == PInv /\ [PNext]_pvars => [PublishCompletes]_pvars
<1> SUFFICES ASSUME PInv, [PNext]_pvars,
                    stack # <<>>, ~stack[Len(stack)].inCallback,
                    Len(stack') < Len(stack)
             PROVE  LET top == stack[Len(stack)]
                    IN  /\ top.start \cap Listed(subscribers[top.key]) \subseteq top.called
                        /\ top.idx = Cardinality(top.called)
  BY DEF PublishCompletes
<1> DEFINE L == Len(stack)
           top == stack[L]
           lst == subscribers[top.key]
<1>0. /\ subscribers \in [Keys -> Seq(Fns)] /\ stack \in Seq(Frame)
      /\ L \in 1..Len(stack)
  BY EmptySeq, LenProperties DEF PInv, PTypeOK
<1>1. top \in Frame /\ FrameOK(top) /\ NoDupList(lst)
  <2>1. top \in Frame
    BY <1>0
  <2>2. FrameOK(top)
    BY <1>0 DEF PInv
  <2>3. NoDupList(lst)
    BY <2>1 DEF PInv, Frame
  <2>. QED
    BY <2>1, <2>2, <2>3
<1>2. lst \in Seq(Fns) /\ top.idx \in Nat
  BY <1>0, <1>1 DEF Frame
(* Every step but the end of the loop keeps the stack or makes it longer, *)
(* or needs a running callback.                                            *)
<1>3. PublishEnd
  <2>1. ~\E k \in Keys, f \in Fns : Subscribe(k, f) \/ Unsubscribe(k, f)
    BY <1>0 DEF Subscribe, Unsubscribe, Running
  <2>2. ASSUME NEW k \in Keys, PublishStart(k) PROVE FALSE
    <3> DEFINE fr == [key |-> k, idx |-> 0, inCallback |-> FALSE,
                      start |-> Listed(subscribers[k]), called |-> {}]
    <3>1. stack' = Append(stack, fr)
      BY <2>2 DEF PublishStart
    <3>2. fr \in Frame
      BY <1>0 DEF Frame, Listed
    <3>. QED
      BY <1>0, <3>1, <3>2, AppendProperties
  <2>3. ~CallNext
    <3> SUFFICES ASSUME CallNext PROVE FALSE
      OBVIOUS
    <3>1. stack' = [stack EXCEPT ![L] = Advance(top, lst[top.idx + 1])]
      BY DEF CallNext
    <3>. QED
      BY <1>0, <3>1
  <2>4. ~Return /\ ~Raise
    BY DEF Return, Raise
  <2>5. ~UNCHANGED pvars
    BY DEF pvars
  <2>. QED
    BY <2>1, <2>2, <2>3, <2>4, <2>5 DEF PNext
<1>4. top.idx = Len(lst)
  BY <1>1, <1>2, <1>3 DEF PublishEnd, FrameOK
<1>5. top.called = Listed(lst)
  BY <1>1, <1>2, <1>4 DEF FrameOK, Prefix, Listed
<1>6. Cardinality(top.called) = top.idx
  BY <1>1, <1>2, <1>4, PrefixCard DEF FrameOK
<1>. QED
  BY <1>5, <1>6

(* Delivered, for any keys, callbacks and number of publish() calls.       *)
THEOREM DeliveredHolds == PSpec => Delivered
<1>1. PInv /\ [PNext]_pvars => [PublishCompletes]_pvars
  BY CompletesStep
<1>. QED
  BY <1>1, PInvHolds, PTL DEF PSpec, Delivered

=============================================================================
