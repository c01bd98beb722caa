----------------------------- MODULE DagRegistry -----------------------------
(***************************************************************************)
(* The node registry and the relationship recorder of the DAG builder      *)
(* (src/hathor/dag_builder/builder.py, lines 68-164): the dict             *)
(* self._nodes of DAGNode, created on first reference by                   *)
(* _get_or_create_node, and the six operations parse_tokens dispatches a  *)
(* token to.  One action per operation; each action is the whole call,     *)
(* including the _get_or_create_node calls it makes, in the code's order. *)
(*                                                                         *)
(* Data abstraction: a name is a model value; an output descriptor         *)
(* DAGOutput(amount, token, attrs) is abstracted to its token (Blank for   *)
(* the placeholder DAGOutput(0, '', {}) and None for an unset slot);       *)
(* free-form attributes (node.attrs) are not kept, since no property reads *)
(* them.  add_blockchain's loop is one step per iteration, with the        *)
(* remaining names in chain and the loop variable prev; no other operation *)
(* can run in between (the builder is single-threaded).                    *)
(***************************************************************************)
EXTENDS Naturals, Sequences, FiniteSets

CONSTANTS
    Names,        \* node names a script may use
    Unknown,      \* DAGNodeType.Unknown
    Block,        \* DAGNodeType.Block
    Token,        \* DAGNodeType.Token
    Kinds,        \* the values DAGNodeType(value) accepts, Unknown excluded
    HTR,          \* the native token 'HTR'
    Blank,        \* the token '' of the placeholder DAGOutput(0, '', {})
    None,         \* Python None: an unset output slot, or no first parent
    Slots,        \* output indexes a script may use (0-based)
    Chains,       \* name lists f'{prefix}{i}' an add_blockchain call may make
    MaxOps        \* bound on the number of tokens in a script

ASSUME RegistryAssumption ==
    /\ IsFiniteSet(Names)
    /\ {Block, Token} \subseteq Kinds
    /\ Unknown \notin Kinds
    /\ HTR \notin Names /\ Blank \notin Names /\ None \notin Names
    /\ None \notin {HTR, Blank}
    /\ Slots \subseteq Nat
    /\ Chains \subseteq Seq(Names)
    /\ MaxOps \in Nat

VARIABLES
    keys,      \* the keys of self._nodes, in insertion order
    nodes,     \* self._nodes: name -> DAGNode (type, parents, inputs, deps, outputs)
    status,    \* "ok", or "assert" once an AssertionError aborted the build
    chain,     \* names add_blockchain has still to create (<<>> when idle)
    prev,      \* add_blockchain's loop variable prev
    ops        \* number of tokens dispatched so far

regVars == <<keys, nodes, status, chain, prev, ops>>

-----------------------------------------------------------------------------
TokenNames == Names \cup {HTR}

OutValues == {None, Blank} \cup TokenNames

DAGNode == [type : Kinds \cup {Unknown}, parents : SUBSET Names,
            inputs : SUBSET (Names \X Slots), deps : SUBSET Names,
            outputs : Seq(OutValues)]

NewNode(t) == [type |-> t, parents |-> {}, inputs |-> {}, deps |-> {},
               outputs |-> <<>>]

Created == {keys[i] : i \in 1..Len(keys)}

-----------------------------------------------------------------------------
(***************************************************************************)
(* _get_or_create_node(name, default_type=dt), lines 97-109, as operators *)
(* on a dict value ns and a key list ks: the node is appended when new,    *)
(* an Unknown node takes dt, and a known node whose type differs from a    *)
(* non-Unknown dt fails the assert of line 108.                            *)
(***************************************************************************)
(* Mutant: _get_or_create_node building a fresh DAGNode whenever the      *)
(* stored one is still Unknown, instead of only setting its type.         *)
GetOrCreateRebuild(ns, name, dt) ==
    IF name \in DOMAIN ns /\ ns[name].type # Unknown
    THEN ns
    ELSE [x \in DOMAIN ns \cup {name} |-> IF x = name THEN NewNode(dt) ELSE ns[x]]

GetOrCreate(ns, name, dt) ==
    IF name \in DOMAIN ns
    THEN IF ns[name].type = Unknown
         THEN [ns EXCEPT ![name].type = dt]
         ELSE ns
    ELSE [x \in DOMAIN ns \cup {name} |-> IF x = name THEN NewNode(dt) ELSE ns[x]]

AppendKey(ks, name) ==
    IF \E i \in 1..Len(ks) : ks[i] = name THEN ks ELSE Append(ks, name)

KindMismatch(ns, name, dt) ==
    /\ name \in DOMAIN ns
    /\ ns[name].type # Unknown
    /\ dt # Unknown
    /\ ns[name].type # dt

(* outputs.extend([None] * (index - len(outputs) + 1)) when too short.     *)
Grow(out, i) ==
    IF Len(out) <= i THEN out \o [k \in 1..(i + 1 - Len(out)) |-> None] ELSE out

-----------------------------------------------------------------------------
Idle ==
    /\ status = "ok"
    /\ chain = <<>>
    /\ ops < MaxOps

Dispatched ==
    /\ ops' = ops + 1
    /\ UNCHANGED <<status, chain, prev>>

(* Mutant: add_parent_edge without the _get_or_create_node(_to) call.      *)
add_parent_edge_dangling(from, to) ==
    LET ns2 == GetOrCreate(nodes, from, Unknown)
    IN  /\ keys' = AppendKey(keys, from)
        /\ nodes' = [ns2 EXCEPT ![from].parents = @ \cup {to}]

(* add_parent_edge(_from, _to), lines 129-134: _to is created first.       *)
add_parent_edge(from, to) ==
    LET ns1 == GetOrCreate(nodes, to, Unknown)
        ns2 == GetOrCreate(ns1, from, Unknown)
    IN  /\ keys' = AppendKey(AppendKey(keys, to), from)
        /\ nodes' = [ns2 EXCEPT ![from].parents = @ \cup {to}]

AddParentEdge(from, to) ==
    /\ Idle
    /\ add_parent_edge(from, to)
    /\ Dispatched

(* add_deps(_from, _to), lines 111-116: here _from is created first.       *)
AddDeps(from, to) ==
    /\ Idle
    /\ LET ns1 == GetOrCreate(nodes, from, Unknown)
           ns2 == GetOrCreate(ns1, to, Unknown)
       IN  /\ keys' = AppendKey(AppendKey(keys, from), to)
           /\ nodes' = [ns2 EXCEPT ![from].deps = @ \cup {to}]
    /\ Dispatched

(* Mutant: the growth test of line 139 off by one.                        *)
AddSpendingEdgeLt(from, to, i) ==
    /\ Idle
    /\ LET ns1 == GetOrCreate(nodes, to, Unknown)
           out == ns1[to].outputs
           ns2 == IF Len(out) < i
                  THEN [ns1 EXCEPT ![to].outputs = [Grow(out, i) EXCEPT ![i + 1] = Blank]]
                  ELSE ns1
           ns3 == GetOrCreate(ns2, from, Unknown)
       IN  /\ keys' = AppendKey(AppendKey(keys, to), from)
           /\ nodes' = [ns3 EXCEPT ![from].inputs = @ \cup {<<to, i>>}]
    /\ Dispatched

(* add_spending_edge(_from, _to, i), lines 136-144: a too short output     *)
(* list of _to is extended with None and slot i set to the placeholder;    *)
(* a slot already in range is left as it is.                               *)
AddSpendingEdge(from, to, i) ==
    /\ Idle
    /\ LET ns1 == GetOrCreate(nodes, to, Unknown)
           out == ns1[to].outputs
           ns2 == IF Len(out) <= i
                  THEN [ns1 EXCEPT ![to].outputs = [Grow(out, i) EXCEPT ![i + 1] = Blank]]
                  ELSE ns1
           ns3 == GetOrCreate(ns2, from, Unknown)
       IN  /\ keys' = AppendKey(AppendKey(keys, to), from)
           /\ nodes' = [ns3 EXCEPT ![from].inputs = @ \cup {<<to, i>>}]
    /\ Dispatched

(* Mutant: set_output without the token != 'HTR' test of line 152.        *)
SetOutputNoHTRCheck(name, i, tok) ==
    /\ Idle
    /\ LET ns1 == GetOrCreate(nodes, name, Unknown)
           ns2 == [ns1 EXCEPT ![name].outputs = [Grow(@, i) EXCEPT ![i + 1] = tok]]
       IN  IF KindMismatch(ns2, tok, Token)
           THEN /\ status' = "assert"
                /\ ops' = ops + 1
                /\ UNCHANGED <<keys, nodes, chain, prev>>
           ELSE /\ nodes' = [GetOrCreate(ns2, tok, Token) EXCEPT ![name].deps = @ \cup {tok}]
                /\ keys' = AppendKey(AppendKey(keys, name), tok)
                /\ Dispatched

(* set_output(name, index, amount, token, attrs), lines 146-155: the slot  *)
(* is overwritten; a token other than HTR is created with default type     *)
(* Token (the assert of line 108 fires if it has another type) and added   *)
(* to the node's deps.                                                     *)
SetOutput(name, i, tok) ==
    /\ Idle
    /\ LET ns1 == GetOrCreate(nodes, name, Unknown)
           ns2 == [ns1 EXCEPT ![name].outputs = [Grow(@, i) EXCEPT ![i + 1] = tok]]
           ks1 == AppendKey(keys, name)
       IN  IF tok = HTR
           THEN /\ nodes' = ns2
                /\ keys' = ks1
                /\ Dispatched
           ELSE IF KindMismatch(ns2, tok, Token)
           THEN /\ status' = "assert"
                /\ ops' = ops + 1
                /\ UNCHANGED <<keys, nodes, chain, prev>>
           ELSE /\ nodes' = [GetOrCreate(ns2, tok, Token) EXCEPT ![name].deps = @ \cup {tok}]
                /\ keys' = AppendKey(ks1, tok)
                /\ Dispatched

(* add_attribute(name, 'type', value), lines 157-161: the type is          *)
(* overwritten by DAGNodeType(value), whatever it was.                     *)
AddTypeAttribute(name, k) ==
    /\ Idle
    /\ nodes' = [GetOrCreate(nodes, name, Unknown) EXCEPT ![name].type = k]
    /\ keys' = AppendKey(keys, name)
    /\ Dispatched

(* add_attribute(name, key, value) for another key, lines 157-163: only    *)
(* the creation of the node is visible (attrs are not kept).               *)
AddOtherAttribute(name) ==
    /\ Idle
    /\ nodes' = GetOrCreate(nodes, name, Unknown)
    /\ keys' = AppendKey(keys, name)
    /\ Dispatched

(* add_blockchain(prefix, first_parent, first, last), lines 118-127: the   *)
(* call itself; its loop runs in BlockchainStep.                           *)
AddBlockchain(names, firstParent) ==
    /\ Idle
    /\ chain' = names
    /\ prev' = firstParent
    /\ ops' = ops + 1
    /\ UNCHANGED <<keys, nodes, status>>

(* One iteration of the loop of lines 121-126.                             *)
BlockchainStep ==
    /\ status = "ok"
    /\ chain # <<>>
    /\ LET name == Head(chain)
       IN  IF KindMismatch(nodes, name, Block)
           THEN /\ status' = "assert"
                /\ chain' = <<>>
                /\ UNCHANGED <<keys, nodes, prev, ops>>
           ELSE LET ns1 == GetOrCreate(nodes, name, Block)
                    ks1 == AppendKey(keys, name)
                IN  /\ IF prev = None
                       THEN nodes' = ns1 /\ keys' = ks1
                       ELSE LET ns2 == GetOrCreate(GetOrCreate(ns1, prev, Unknown), name, Unknown)
                            IN  /\ nodes' = [ns2 EXCEPT ![name].parents = @ \cup {prev}]
                                /\ keys' = AppendKey(AppendKey(ks1, prev), name)
                    /\ prev' = name
                    /\ chain' = Tail(chain)
                    /\ UNCHANGED <<status, ops>>

-----------------------------------------------------------------------------
RegInit ==
    /\ keys = <<>>
    /\ nodes = [x \in {} |-> NewNode(Unknown)]
    /\ status = "ok"
    /\ chain = <<>>
    /\ prev = None
    /\ ops = 0

(* parse_tokens, lines 68-91: one token dispatched per step.  The          *)
(* NotImplementedError branch is unreachable: the tokenizer emits only the *)
(* six token types.                                                        *)
RegNext ==
    \/ \E f, t \in Names : AddParentEdge(f, t)
    \/ \E f, t \in Names, i \in Slots : AddSpendingEdge(f, t, i)
    \/ \E n \in Names, k \in Kinds : AddTypeAttribute(n, k)
    \/ \E n \in Names : AddOtherAttribute(n)
    \/ \E f, t \in Names : AddDeps(f, t)
    \/ \E n \in Names, i \in Slots, tok \in TokenNames : SetOutput(n, i, tok)
    \/ \E c \in Chains, p \in Names \cup {None} : AddBlockchain(c, p)
    \/ BlockchainStep

RegSpec == RegInit /\ [][RegNext]_regVars

-----------------------------------------------------------------------------
RegTypeOK ==
    /\ keys \in Seq(Names)
    /\ DOMAIN nodes = Created
    /\ \A n \in DOMAIN nodes : nodes[n] \in DAGNode
    /\ status \in {"ok", "assert"}
    /\ chain \in Seq(Names)
    /\ prev \in Names \cup {None}
    /\ ops \in 0..MaxOps

(* Every output an input spends exists: add_spending_edge grows the        *)
(* output list of the spent node to the slot, and no later set_output,     *)
(* spend or chain step on any node shrinks it.                             *)
SpentSlotsExist ==
    \A n \in DOMAIN nodes : \A inp \in nodes[n].inputs :
        /\ inp[1] \in DOMAIN nodes
        /\ inp[2] < Len(nodes[inp[1]].outputs)

(* What a script has recorded is never lost: no operation removes a node  *)
(* from self._nodes, drops a parent, input or dependency edge of one, or   *)
(* shortens its output list (_get_or_create_node only sets the type of an *)
(* Unknown node; add_spending_edge and set_output only extend outputs).   *)
RecordsKept ==
    [][\A n \in DOMAIN nodes :
          /\ n \in DOMAIN nodes'
          /\ nodes[n].parents \subseteq nodes'[n].parents
          /\ nodes[n].inputs \subseteq nodes'[n].inputs
          /\ nodes[n].deps \subseteq nodes'[n].deps
          /\ Len(nodes[n].outputs) <= Len(nodes'[n].outputs)]_regVars

(* Spec, 4.2: add_spending_edge fills the spent slot with a zero-value     *)
(* placeholder "if not already set": a spent slot never holds None.        *)
SpentSlotsDefined ==
    \A n \in DOMAIN nodes : \A inp \in nodes[n].inputs :
        nodes[inp[1]].outputs[inp[2] + 1] # None

(* Spec, 3 and 4.1: a node's kind, once resolved to a concrete value, is   *)
(* immutable for the rest of the session (a conflicting declaration is a   *)
(* fatal KindMismatch).                                                    *)
KindImmutable ==
    [][\A n \in DOMAIN nodes :
          nodes[n].type # Unknown => nodes'[n].type = nodes[n].type]_regVars

=============================================================================
