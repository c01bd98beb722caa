------------------------------- MODULE PubSub -------------------------------
(***************************************************************************)
(* The event bus PubSubManager (src/hathor/pubsub.py, lines 56-93).       *)
(* self._subscribers maps each key to a list of callbacks; publish() calls *)
(* the callbacks of its key one after the other, synchronously.  A         *)
(* callback runs arbitrary code: it may subscribe or unsubscribe (on the   *)
(* same bus), publish again (a nested publish) or raise.  The list is      *)
(* iterated by index (Python's list iterator), so a change to the list    *)
(* made by a callback is seen by the loop that is running over it.        *)
(*                                                                         *)
(* The running publish() calls form a stack: frames, innermost last.  A    *)
(* frame has the key, the number of callbacks its loop has started (the   *)
(* iterator's index), whether a callback of it is running, the callbacks   *)
(* subscribed when it started and the callbacks it has called.  The last   *)
(* two are history, kept for the properties.  Everything runs in one      *)
(* thread: a step is taken by the main program when the stack is empty,   *)
(* else by the innermost running callback.                                 *)
(***************************************************************************)
EXTENDS Naturals, Sequences, FiniteSets

CONSTANTS
    Keys,           \* the event keys (HathorEvents members)
    Fns,            \* the callbacks
    MaxPublishes    \* bound on the number of publish() calls in a run

ASSUME PubSubAssumption == MaxPublishes \in Nat

VARIABLES
    subscribers,    \* self._subscribers: key -> list of callbacks
    stack,          \* the publish() calls in progress, innermost last
    published,      \* publish() calls made so far (bounded by MaxPublishes)
    unsubscribed    \* history: <<key, fn>> pairs unsubscribed and not
                    \* subscribed again since

pvars == <<subscribers, stack, published, unsubscribed>>

Listed(s) == {s[i] : i \in DOMAIN s}

Frame == [key : Keys, idx : Nat, inCallback : BOOLEAN,
          start : SUBSET Fns, called : SUBSET Fns]

-----------------------------------------------------------------------------
PInit ==
    /\ subscribers = [k \in Keys |-> <<>>]
    /\ stack = <<>>
    /\ published = 0
    /\ unsubscribed = {}

(* The main program or the running callback may act.                       *)
Running == IF stack = <<>> THEN TRUE ELSE stack[Len(stack)].inCallback

(* A raised exception leaves the callbacks down to some depth d of the     *)
(* stack: the one at depth d catches it (d = 0: the main program does).    *)
Unwind == \E d \in 0..Len(stack) : stack' = [i \in 1..d |-> stack[i]]

(* subscribe(key, fn), lines 73-74: append unless already there.           *)
Subscribe(k, f) ==
    /\ Running
    /\ f \notin Listed(subscribers[k])
    /\ subscribers' = [subscribers EXCEPT ![k] = Append(@, f)]
    /\ unsubscribed' = unsubscribed \ {<<k, f>>}
    /\ UNCHANGED <<stack, published>>

(* Mutant: a working unsubscribe, list.remove(fn).                         *)
RemoveFn(s, f) ==
    [i \in 1..Len(s) - 1 |-> IF \E j \in 1..i : s[j] = f THEN s[i + 1] ELSE s[i]]

(* The list after self._subscribers[key].pop(fn) (line 80): list.pop      *)
(* takes an index, so it raises TypeError and leaves the list as it is.   *)
PopFn(s, f) == s

(* unsubscribe(key, fn), lines 79-80.  When fn is subscribed, pop(fn)      *)
(* raises TypeError, which unwinds the running callbacks to whoever        *)
(* catches it.                                                             *)
Unsubscribe(k, f) ==
    /\ Running
    /\ f \in Listed(subscribers[k])
    /\ subscribers' = [subscribers EXCEPT ![k] = PopFn(@, f)]
    /\ unsubscribed' = unsubscribed \cup {<<k, f>>}
    /\ Unwind
    /\ UNCHANGED published

(* publish(key), line 91: a new frame whose loop has not started.          *)
PublishStart(k) ==
    /\ Running
    /\ published < MaxPublishes
    /\ stack' = Append(stack, [key |-> k, idx |-> 0, inCallback |-> FALSE,
                               start |-> Listed(subscribers[k]),
                               called |-> {}])
    /\ published' = published + 1
    /\ UNCHANGED <<subscribers, unsubscribed>>

(* The frame once its loop has taken the next item f and called it.       *)
Advance(fr, f) == [fr EXCEPT !.idx = @ + 1, !.inCallback = TRUE, !.called = @ \cup {f}]

(* Mutant: the loop confuses the index with the item (as pop(fn) does).  *)
CallNextByIndex ==
    /\ stack # <<>>
    /\ LET top == stack[Len(stack)]
           lst == subscribers[top.key]
       IN  /\ ~top.inCallback
           /\ top.idx < Len(lst)
           /\ stack' = [stack EXCEPT ![Len(stack)] = Advance(top, top.idx + 1)]
    /\ UNCHANGED <<subscribers, published, unsubscribed>>

(* Line 92-93: the loop takes the next item of the list and calls it.      *)
CallNext ==
    /\ stack # <<>>
    /\ LET top == stack[Len(stack)]
           lst == subscribers[top.key]
       IN  /\ ~top.inCallback
           /\ top.idx < Len(lst)
           /\ stack' = [stack EXCEPT ![Len(stack)] = Advance(top, lst[top.idx + 1])]
    /\ UNCHANGED <<subscribers, published, unsubscribed>>

(* The running callback returns normally.                                  *)
Return ==
    /\ stack # <<>>
    /\ stack[Len(stack)].inCallback
    /\ stack' = [stack EXCEPT ![Len(stack)].inCallback = FALSE]
    /\ UNCHANGED <<subscribers, published, unsubscribed>>

(* The running callback raises: nothing in publish() catches it.           *)
Raise ==
    /\ stack # <<>>
    /\ stack[Len(stack)].inCallback
    /\ Unwind
    /\ UNCHANGED <<subscribers, published, unsubscribed>>

(* The list iterator is exhausted: publish() returns to its caller.        *)
PublishEnd ==
    /\ stack # <<>>
    /\ LET top == stack[Len(stack)]
       IN  /\ ~top.inCallback
           /\ top.idx >= Len(subscribers[top.key])
    /\ stack' = [i \in 1..Len(stack) - 1 |-> stack[i]]
    /\ UNCHANGED <<subscribers, published, unsubscribed>>

PNext ==
    \/ \E k \in Keys, f \in Fns : Subscribe(k, f) \/ Unsubscribe(k, f)
    \/ \E k \in Keys : PublishStart(k)
    \/ CallNext \/ Return \/ Raise \/ PublishEnd

PSpec == PInit /\ [][PNext]_pvars

-----------------------------------------------------------------------------
(* The variables keep their types.                                        *)
PTypeOK ==
    /\ subscribers \in [Keys -> Seq(Fns)]
    /\ stack \in Seq(Frame)
    /\ published \in 0..MaxPublishes
    /\ unsubscribed \subseteq Keys \X Fns

(* A step in which the innermost publish() returns normally: it has        *)
(* called each callback subscribed at its start and still subscribed, once.*)
PublishCompletes ==
    stack # <<>> /\ ~stack[Len(stack)].inCallback /\ Len(stack') < Len(stack)
        => LET top == stack[Len(stack)]
           IN  /\ top.start \cap Listed(subscribers[top.key]) \subseteq top.called
               /\ top.idx = Cardinality(top.called)

(* A publish() that runs to its end has called, exactly once each, every   *)
(* callback that was subscribed to its key when it started and still is:  *)
(* callbacks that subscribe or unsubscribe others from inside publish()    *)
(* must not make the loop skip or repeat one.                              *)
Delivered == [][PublishCompletes]_pvars

(* The docstring of unsubscribe(): once unsubscribe(key, fn) was called,   *)
(* fn is no longer a subscriber of key (until it subscribes again).        *)
UnsubscribeRemoves == \A kf \in unsubscribed : kf[2] \notin Listed(subscribers[kf[1]])

(* The docstring of subscribe(): fn is "a function to be called when an    *)
(* event with `key` is published".  So every publish() call, however it   *)
(* ends, calls each callback subscribed to its key when it started and     *)
(* still subscribed -- also when an earlier callback raised.               *)
PublishReachesAll ==
    [][ \A i \in (Len(stack') + 1)..Len(stack) :
          stack[i].start \cap Listed(subscribers'[stack[i].key]) \subseteq stack[i].called
      ]_pvars

=============================================================================
