# Formal models of the DAG builder, event bus and key-pair wallet

This directory holds TLA+ models of the code under `src/`, TLC configurations that
model-check them on small instances, and TLAPS proofs. `PROJECT.json` lists the
components, the runs, the mutants, the findings, the hazards, and the source lines
each definition translates (`map`).

## The system and its parts

| Part | Source | Module(s) |
|---|---|---|
| Recorder: `parse_tokens` and `add_parent_edge`, `add_spending_edge`, `add_deps`, `set_output`, `add_attribute`, `add_blockchain`, `_get_or_create_node` | `src/hathor/dag_builder/builder.py` 68-164 | `DagRegistry`, `DagRegistryProofs` |
| Topological sort: the generator `topological_sorting` | builder.py 166-200 | `TopoSort`, `TopoSortProofs`, `SortSpec`, `SortRefinementProofs` |
| Orchestration: `build`, `build_from_str` | builder.py 202-210 | `DagBuilder`, `BuildSpec`, `DagBuilderProofs`, `BuildRefinementProofs` |
| Event bus `PubSubManager` | `src/hathor/pubsub.py` 56-93 | `PubSub`, `PubSubProofs` |
| Key-pair `Wallet` and its keys file | `src/hathor/wallet/wallet.py` | `Wallet`, `WalletProofs` |
| Settings, exceptions, events-simulator data, a resource test | `conf/settings.py`, `transaction/exceptions.py`, `cli/.../only_load_events.py`, `tests/...` | not modelled |

**How they interact.** `build_from_str` first parses a script. Each token calls one
recorder operation, and that operation creates or updates nodes in the dict
`self._nodes`. `build()` then hands the generator `topological_sorting()` to the
exporter. The exporter pulls one node at a time and resolves it into a vertex.

The sort reads the registry lazily, through `node.get_all_dependencies()`. That
method lives in `types.py`, which is not under `src`, so it is modelled from the
spec (`AllDeps`, marked spec_modelled).

The wallet publishes `WALLET_KEYS_GENERATED` through `BaseWallet.publish_update`.
`BaseWallet` is not under `src`, so the two models are not composed. The bus is
modelled on its own, with arbitrary callbacks.

## Modules

- **TopoSort** is the Kahn generator over a registry `(keys, graph)`.
  - `keys` is the insertion order of `self._nodes`; `graph[n]` is the dependency set of node `n`.
  - `SetupStep` is one iteration of the first loop (lines 172-180), including its assert. `SetupDone` starts the main loop.
  - `Emit` is one resumption (lines 191-200): LIFO `pop()`, the assert, `remove()` on each reverse dependency, the release of dependents and `yield`.
  - The iteration order of the set `rev_deps[name]` depends on the string hash seed, so the released dependents are appended in any order (`Orderings`).
  - `Fail` is the `RuntimeError` of line 190. `Finish` is the end of the `for` loop.
  - The initial state may be any duplicate-free registry over `Names` with any dependency graph.
- **SortSpec** is what the generator promises its consumer, with no bookkeeping.
  - State: the registry, the nodes handed out (`out`) and a status (`running`, `done`, `failed`).
  - `Yield(n)` hands out any node whose dependencies were all handed out. `Return` ends once every node was handed out. `Raise` ends when nodes are left and none is ready.
  - Which ready node comes next is left open, so every topological order is allowed.
  - TopoSort instantiates it as `Abs` with `out <- emitted` and `status <- SortStatus` (`setup` and `loop` map to `running`). `ImplementsSortSpec` is `Abs!ASpec`, weak fairness included.
- **DagRegistry** covers the recorder.
  - A node is abstracted to its kind, parents, inputs `(node, slot)`, deps and the list of outputs. An output is `None`, the zero placeholder (`Blank`) or the token it carries. Amounts and attributes are dropped.
  - Each operation is an action. `_get_or_create_node` is the operator `GetOrCreate` plus `AppendKey`, which keeps dict insertion order.
  - The assert of line 108 moves `status` to `"assert"` (`KindMismatch`).
  - `add_blockchain` is a call, `AddBlockchain`, followed by one `BlockchainStep` per loop iteration.
  - `MaxOps` bounds the number of tokens.
- **DagBuilder** extends DagRegistry and instantiates `TopoSort WITH graph <- AllDeps`. `Parse` steps run until the sort starts; then the registry is frozen and `Build` / `SortLoop` drive the sort.
- **BuildSpec** is what `build_from_str` promises as a whole.
  - State: a DAG `graph` (its domain is the set of nodes), `out`, and a status that starts as `recording`.
  - `Record`: the DAG grows. Every node and dependency is kept, and every dependency is a node (`IsGraph`).
  - `Start`: `build()` begins the sort. `Yield`, `Return` and `Raise` then act as in SortSpec, on a DAG that no longer changes.
  - SortSpec cannot describe the builder itself, because parse steps change the registry it keeps fixed.
  - DagBuilder instantiates BuildSpec as `Promise` with `graph <- AllDeps` and `out <- emitted`. The status maps through `BuildStatus`: it reads `recording` until the generator's first step.
  - `ImplementsBuildSpec` is `Promise!BuildSafe`, the safety part only. DagBuilder has no fairness on `build()` or on the set-up loop.
- **PubSub** models the bus.
  - `subscribers` is `self._subscribers`.
  - `stack` holds the publish calls in progress. Callbacks run inside publish and may subscribe, unsubscribe, publish again or raise.
  - `for fn in list` iterates by index, so `CallNext` reads the current list at the frame's index.
  - `unsubscribe`'s `list.pop(fn)` raises `TypeError` (`PopFn`, `Unwind`).
  - `Raise` unwinds to whichever caller catches.
  - `Advance` is the frame after the loop takes its next item and calls it.
- **Wallet** models the wallet.
  - Memory is `order`/`keys`/`unused_keys`/`password`; the keys file is `file`.
  - The actions are `GenerateKeys`, `GetUnusedAddress(mark)`, `WriteKeys`, `TokensReceived`, `Unlock`, `Lock` and `Restart`.
  - `_write_keys_to_file` opens the file with `'w'`, which truncates it, and then writes the JSON (lines 74-75). So a `get_unused_address` that changed anything ends in `pc = "writing"` with an empty `file`. `WriteKeys` then writes the key pairs and returns the address (`pending` moves into `given`). No other call runs in between.
  - `Restart` is `Wallet()` followed by `_manually_initialize()`: memory is lost and the file is reloaded. It may happen at any time, including between the truncation and the write.
  - A restart on a truncated file gets an exception from `json.loads` in `read_keys_from_file`. The wallet keeps `Wallet()`'s empty keys and does not start (`pc = "down"`). The model allows no further call then, only restarts, and they find the same file. `BaseWallet`, which would catch or propagate that exception, is not under `src`.
  - A key pair is its address, its used flag and the password encrypting it.
  - `KeyPair.create` is not under `src`. It raises for `None` and for `b''`, because the encryption refuses them, so `GenerateKeys` is guarded by `~Falsy(password)`.
  - `created`, `given` and `received` are history variables used only by the properties. `given` holds the addresses a call has returned as used.

## Runs

| Run | Checks | Result |
|---|---|---|
| `topo_sort` (`MC_TopoSort`, `TopoSort.cfg`) | TypeOK, DepsBeforeDependents, ExactlyOnce, NoFalseCycle, ImplementsSortSpec | pass, about 20k states |
| `dag_builder` (`MC_DagBuilder`, `DagBuilder.cfg`) | TypeOK, SpentSlotsExist, RecordsKept, NoFalseCycle, ImplementsBuildSpec | pass, about 1.7M states |
| `pubsub` (`MC_PubSub`, `PubSub.cfg`) | PTypeOK, Delivered | pass, about 85k states |
| `wallet` (`MC_Wallet`, `Wallet.cfg`) | WTypeOK, UnusedMatchesFlags, PersistedUnlessTorn, PasswordOpensKeys | pass, about 510k states |
| `wallet_torn_write` | HandedOutPersisted | violated: a crash between the truncation and the write of the keys file loses an address an earlier call returned as used |
| `topo_sort_partial` | NoPartialEmission | violated: a prefix is yielded before the cycle error |
| `registry_spent_slots` | SpentSlotsDefined | violated: a spent slot stays `None` |
| `registry_kind` | KindImmutable | violated: `add_attribute('type')` overwrites a fixed kind |
| `pubsub_unsubscribe` | UnsubscribeRemoves | violated: `pop(fn)` raises and removes nothing |
| `wallet_reuse` | NoAddressReuse | violated: after a restart an address that received tokens is unused again |
| `wallet_empty_password` | UnlockedServes | violated: after `unlock(b'')` on a wallet without keys, `get_unused_address` raises although `is_locked()` is False |
| `pubsub_raise` | PublishReachesAll | violated: a callback that raises (for example through `unsubscribe`) ends `publish`, and later subscribers are not called |

What the passing properties say:

- **DepsBeforeDependents.** Every node yielded comes after all its dependencies.
- **ExactlyOnce.** The sort never trips its asserts or a `KeyError`, yields no node twice, and yields all nodes when it returns.
- **NoFalseCycle.** The cycle error is raised only on a real cycle. In DagBuilder this needs every edge the recorder adds to point at a registered node.
- **SpentSlotsExist.** Every spent slot exists on a registered node.
- **RecordsKept** (action property). No step removes a node, drops one of its parent, input or dependency edges, or shortens its output list. A script may name a node in an edge before it declares its kind; the later `_get_or_create_node` must then only fill in the type of the Unknown node it finds. The mutant `GetOrCreateRebuild` builds a fresh node there instead, and TLC finds the edge lost after two steps.
- **Delivered.** A completed publish called each callback that was subscribed at its start and still is, once each.
- **PersistedUnlessTorn.** Between calls, and unless a restart found a truncated file, every address `get_unused_address` returned as used is in the file, marked used.
- **PasswordOpensKeys.** An unlocked password decrypts every key, although `unlock` tests only the first.
- **ImplementsBuildSpec.** Every run of the builder is a run of BuildSpec. While recording, the DAG only grows and never holds a dependency that is not a node. The exporter then receives a topological order of the DAG as it stands when `build()` starts, or the cycle error. The mutant `add_parent_edge_dangling` (no `_get_or_create_node(_to)`) makes a `Record` step leave a dangling dependency.
- **ImplementsSortSpec.** Every run of the generator is a run of SortSpec: each yield hands out a ready node, the generator returns only after all nodes and raises only when no node left is ready. Under weak fairness it also ends.

The builder's run does not repeat DepsBeforeDependents and ExactlyOnce. Once `build()` starts the registry is frozen, so they are TopoSort's properties on one more registry. ImplementsBuildSpec says the same of the builder.

Caveats on what the passing properties cover:

- **Delivered** passes because `unsubscribe`'s `pop(fn)` never removes anything. A `remove(fn)` during a publish would make the loop skip the next callback; the mutant `RemoveFn` shows this.
- **UnusedMatchesFlags** does not catch the reuse after a restart (`tokens_received` leaves the file stale); `NoAddressReuse` does.
- **SpentSlotsExist** does not catch a spent slot left `None` (`Blank` vs `None` at line 139); `SpentSlotsDefined` does.

Three violation runs state what a docstring or the design says:

- **UnlockedServes** (`get_unused_address`, lines 106-107). An unlocked wallet can always serve an address. It is an invariant over `ENABLED`.
- **PublishReachesAll** (`subscribe`). Every publish call, however it ends, calls each callback subscribed at its start and still subscribed.
- **HandedOutPersisted** (`get_unused_address` writes the file after marking). Once an address was returned as used, the keys file holds it, marked used, whenever no write is in progress. TLC finds it broken in five steps: a call returns `a1` and writes the file, the next call truncates the file, and the process restarts before the write. `read_keys_from_file` then raises, and `a1`'s private key is gone. Writing to a temporary file and renaming it over the old one would close the window.

Every property of a passing run has a mutant, a plausible code bug that TLC catches (`PROJECT.json`, `mutants`). Examples:

- `candidates[-1]` without `pop` breaks ExactlyOnce.
- A `remove()` that works breaks Delivered: the loop skips a callback.
- A `get_unused_address` that does not set `updated` on marking breaks PersistedUnlessTorn.
- A `Fail` that runs one loop iteration too late breaks ImplementsSortSpec.

**Bounds.**

- Three names give every shape of graph with a 1-, 2- and 3-cycle, a diamond-free chain and independent roots. All registries are enumerated, and all rev_deps orders.
- Two output slots reach both the grow branch and the overwrite branch of `add_spending_edge`.
- Three recorder tokens, with blockchain chains of length 1 and 2, reach kind conflicts, dangling-free edges and cycles.
- PubSub uses two keys, two callbacks and three publish calls. That allows a nested publish inside a callback and a subscribe during iteration.
- Wallet uses four addresses, batches of two keys (20 in the code), passwords `p1`, `p2` and `b''`, and two restarts. That allows generating twice, a reload after tokens were received, and a crash inside the second write of the file.

**Fairness.** `TopoSort` has weak fairness on `Next`, and `DagBuilder` on the sort loop only. `build()` passes the generator to the exporter, which consumes it to the end. Nothing forces a script to be built, so parsing and setup are not fair. The generator's loop is a `for` over `range(len(self._nodes))`, so its ending is no question of its own; the fairness serves the liveness part of ImplementsSortSpec (every state that can still yield or end eventually does). PubSub and Wallet state safety only.

## Proofs (TLAPS)

`TopoSortProofs` proves two theorems for every finite `Names`. They assume only `NamesAssumption` (`Names` is finite).

- `TypeCorrect`: `Spec => []TypeOK`.
- `DepsRespected`: `Spec => []DepsBeforeDependents`.

DepsBeforeDependents is not inductive on its own. An `Emit` step appends a candidate, and the step must know that the candidate's dependencies are all yielded. The inductive invariant `SortInv` adds three facts:

- `CandidatesReady`: every candidate waits for nothing unyielded.
- `RemainingDeps`: `direct_deps[d]` is exactly `graph[d]` minus what was yielded.
- `SetupEmitsNothing`.

The step lemma has a case per action. The `Emit` case shows that a released dependent had only `name` left, and that the new candidates are the old ones minus the last plus the released set. The lemmas on `Append`, concatenation and `PopLast` are stated once and cited.

The model avoids `SelectSeq` and `SubSeq`, whose library support the provers lack: the set-up loop is stepwise (`scan`) and `PopLast` is a function literal.

`WalletProofs` proves three theorems for any addresses, passwords, batch size and number of restarts, under `WalletAssumption`:

- `UnusedConsistent`: `WSpec => []UnusedMatchesFlags`.
- `PasswordSound`: `WSpec => []PasswordOpensKeys`.
- `WalletTypeCorrect`: `WSpec => []WTypeOK`.

The inductive invariant `WInv` splits the state in two:

- `MemOK` covers memory. Order and dict agree, every held address was produced before, all key pairs share one encryption, `unused_keys` matches the flags, and an unlocked password opens every key.
- `FileOK` covers the keys file: each address once, one encryption, all produced.

Each operation has a lemma:

- `GenMem` (generate_keys): a fresh batch is disjoint from the held keys, which needs "every held address was produced" (`CreatedCovers`).
- `TakeMem` (marking an address used).
- `FileOfMem` (`_write_keys_to_file` writes a well-formed file).
- `ReloadMem` (`read_keys_from_file` rebuilds a good memory from a good file). It needs the file's addresses to be distinct, so that the `CHOOSE` picks the entry of each address.

PasswordOpensKeys is not inductive alone. `unlock` checks one key only, so the step needs "all keys share one encryption", both in memory and in the file that a restart reloads.

`SortRefinementProofs` (extends TopoSortProofs) proves three more theorems for every finite `Names`:

- `ExactlyOnceHolds`: `Spec => []ExactlyOnce`.
- `NoFalseCycleHolds`: `Spec => []NoFalseCycle`.
- `RefinesSortSpec`: `Spec => Abs!ASafe`, the safety part of the refinement.

They rest on the inductive invariant `RefInv`. It was checked with TLC as an invariant of the topo_sort instance while the proof was written; no run of the project lists it. It adds to SortInv:

- `NoDup(emitted)`.
- `SetupProgress`: during set-up, the dependency table covers exactly the names scanned so far, and the seeds are exactly the scanned names without dependencies.
- `Tracked`: every node still waiting has an entry in `direct_deps`, so `remove()` raises no `KeyError`.
- `CandidatesFresh`: candidates are distinct and not yielded yet, so the `assert name not in seen` holds.
- `ReadyAreCandidates`: in the main loop, every unyielded node whose dependencies are all yielded is a candidate. This makes an empty candidate list mean a cycle (NoFalseCycle), and it makes `Raise` of SortSpec enabled exactly when `Fail` fires.
- `Ended`: `done` means all N nodes were yielded and `failed` means fewer were.

The step lemma again has a case per action. The refinement maps `Emit` to `Yield(name)`, `Fail` to `Raise`, `Finish` to `Return`, and the set-up steps to stutters. The counting arguments, such as "fewer than N yielded means a node is left", use the lemmas `NoDupCard` and `NodesLeft`.

`WalletProofs` also proves `PersistedDurable`: `WSpec => []PersistedUnlessTorn`. With the violation of HandedOutPersisted it shows that a crash inside `_write_keys_to_file` is the only way the wallet loses an address it returned. Its invariant `GivenHeld` has four parts:

- every returned or pending address was produced;
- unless the wallet is down, memory holds every returned address, and the one the call in progress will return, as used;
- between calls, the file lists every returned address as used;
- between calls, nothing is pending.

Marking sets `updated`, so the same call truncates the file and then writes memory into it: `WriteKeys` puts the pending address into the file together with the older ones (`KeysFileHolds`). A restart between calls reloads the used flags from that file (`ReloadEntry`). A restart inside the write leaves the wallet down, where nothing is claimed.

`PubSubProofs` proves two theorems for any keys, callbacks and bound on publish calls:

- `PTypeCorrect`: `PSpec => []PTypeOK`.
- `DeliveredHolds`: `PSpec => Delivered`.

Both rest on the inductive invariant `PInv`, which says three things:

- Each subscriber list has no repetition.
- For every running frame, the index does not pass the end of its list.
- The callbacks it called are exactly the first `idx` entries of that list, and the callbacks subscribed at its start are all still listed.

This needs that a list only grows at its end: `subscribe` appends, and `unsubscribe`'s `pop(fn)` raises before changing anything. At `PublishEnd` the index equals the length, so the called set is the whole list. Because the list has no repetition, that set has `idx` elements (`PrefixCard`).

`DagRegistryProofs` proves three theorems about the recorder for every finite set of names, every set of slots and chains, and every script length, under `RegistryAssumption`:

- `RegTypeCorrect`: `RegSpec => []RegTypeOK`.
- `SpentSlotsHold`: `RegSpec => []SpentSlotsExist`.
- `RecordsKeptHolds`: `RegSpec => RecordsKept`.

SpentSlotsExist is not inductive on its own. A spend of a node created by the same call, or a `set_output` that might shorten a list, could break it. The inductive invariant `RegInv` says that `WellFormed(keys, nodes)` holds. That predicate has four parts:

- the keys are distinct names;
- the dict's names are the keys;
- every node is a `DAGNode`;
- `Closed`: every parent, dependency and spent node is a node, and every spent index is below the length of that node's output list.

The proof follows each operation through the calls it makes, in the code's order. Every call has a lemma:

- `GetOrCreateOK`: `_get_or_create_node` keeps the dict well formed and leaves every output list unchanged.
- `AppendKeyOK`: the key list stays duplicate-free.
- `GrowOK` and `GrowSetOK`: `extend([None] * ...)` followed by the slot assignment leaves a list that reaches the index and is no shorter.
- `UpdateOK`, and its instances `AddParentOK`, `AddDepOK`, `AddInputOK`, `SetTypeOK` and `SetOutputsOK`: replacing one node keeps the dict well formed when the new node's edges end at nodes and its list is no shorter.

For `RecordsKept`, each step lemma also concludes `Kept(nodes, nodes')`. `Kept` is a preorder (`KeptSelf`, `KeptTrans`). Every call keeps what was there:
- `GetOrCreateKept`: `_get_or_create_node`;
- `EdgesKept`: an added edge;
- `TypeKept`: a type set;
- `OutputsKept`: a longer output list.

A step is a chain of such calls, or it leaves `nodes` alone (a failed assert). `RegKeptStep` combines them under `RegInv`, which supplies the node types the lengths need.

The spend of `add_spending_edge` is recorded after the spent node's list has reached the index. The `_get_or_create_node` call between the two leaves that list alone, so the new input spends an existing slot.

`DagBuilderProofs` proves four of the builder's run properties, and `BuildRefinementProofs` (which extends it) proves the fifth. Both hold for every script and every order of the sets `rev_deps[name]`:

- `BuilderTypeCorrect`: `Spec => []TypeOK`.
- `BuilderSpentSlots`: `Spec => []SpentSlotsExist`.
- `BuilderNoFalseCycle`: `Spec => []NoFalseCycle`.
- `BuilderRecordsKept`: `Spec => RecordsKept`. Parse steps are recorder steps (`RegKeptStep`), and the sort never writes `self._nodes`.
- `BuilderImplementsBuildSpec` (in `BuildRefinementProofs`): `Spec => ImplementsBuildSpec`, the refinement, step by step:
  - `PromiseInit`: the initial state maps to BuildSpec's.
  - `PromiseParse`: a parse step is a `Record` step or a stutter. The DAG grows by `Kept`, and `RegistryIsGraph` shows every dependency of the new registry is a node.
  - `PromiseStart`: the generator's first step is `Start`. `Fresh` rules out its crash branch.
  - `AbsToPromise` covers every later step. `SortStepFacts` makes it an `SP!Next` step that leaves the registry alone, and `SP!AbsStep`, the sort's own refinement, maps it to a SortSpec step. `AbsToPromise` reads that step as the same step of BuildSpec.

The module instantiates `SortRefinementProofs WITH graph <- AllDeps`, so the sort's lemmas (`RefStep`, `RefInit`, `RefExactlyOnce`, `RefNoFalseCycle`) are used on the live registry. `SameSetup`, `SameLoop` and `SameProperties` show that DagBuilder's `Sort!` actions and NoFalseCycle are those of the instance.

The inductive invariant `BInv` has three parts:

- `RegInv`.
- `Fresh`: until build() starts, the generator is untouched.
- Either the sort has not started, or the sort's `RefInv` holds.

`RegistryIsSortInput` is what the composition adds. A well-formed registry is an initial state of TopoSort: its keys are a `KeySeqs` member, and `get_all_dependencies()` of each node is a set of nodes. So `SortStartsWell` gives `RefInv` when the first sort step is taken. The registry is frozen from then on, so `AllDeps` does not change and every sort step is a TopoSort step. `BInv` was checked with TLC on the dag_builder instance while the proof was written; no run of the project lists it.

**Left to TLC.**

- Liveness (the fairness part of `ImplementsSortSpec`) and anything with `ENABLED` (`UnlockedServes`).
- What a recursive definition computes for all inputs.
- `NoAddressReuse`, `HandedOutPersisted` and the other violation runs.

## Not modelled

- Tokenizer, filler, exporter and `types.py`: not under `src`.
- Settings: constants and YAML loading. The float-log halving count is a hazard, out of TLC's reach.
- Exception classes, the events-simulator data list and the resource test: data or tests, with no state changes.
- `get_private_key` and `is_locked`: they change nothing.
- Callers that use the wallet before `_manually_initialize`, or that catch its exception on a truncated file: not in `src`.

Simplifications a reader of the code should know of:

- `set_output` on a token name that already has another kind: the code has already created `name` and written the output slot when the assert of line 108 fires. The model leaves the registry unchanged on that branch. The assert ends the script, so nothing reads the registry afterwards.
- The cycle error: line 184 calls `self.log(...)`, and `self.log` is a structlog logger from `logger.new()`. If that object is not callable, the call raises `TypeError` before the `RuntimeError`. Either way the generator raises and ends, which is all `Fail` models.
- `add_deps`' docstring asks that `_to` be created before `_from`, but the code creates `_from` first (line 112). The model follows the code; the key order it produces is what the sort reads.

## Plan

- Add a determinism check across rev_deps orders: the set of orders the generator can produce equals the topological orders allowed by SortSpec.
- Liveness of BuildSpec: it would need fairness on the set-up loop once `build()` has started, which DagBuilder does not assume yet.
- Compose the wallet with the bus once `BaseWallet.publish_update` can be modelled.
