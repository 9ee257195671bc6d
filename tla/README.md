# GPUForge: TLA+ models, checks and proofs

This directory holds TLA+ specifications of the parts of GPUForge that keep
state or that several threads use, TLC configurations that check them on small
instances, and TLAPS proofs, for instances of any size, about the two KV
caches, the scheduler, the compiler's passes and the older graph, the memory
pool with its counters, the layers of the Kama pool below it and their size
classes, the page cache of v2, the lock-free pool of v1, the tuner, the trace
recorder and the metrics.
`PROJECT.json` is the index: which definition models which lines (`map`), what
each run checks (`runs`), which fault each property catches (`mutants`), what
can go wrong where (`hazards`), and where code and documentation disagree
(`findings`).

To check one model: `tlc -config MCKVCaches.cfg MCKVCaches`. To check the
proofs about a module: `tlapm PagedKVProofs.tla`, and so on for each
`*Proofs.tla`.

## 1. The system

| Component | State | Operations | What makes it correct |
|---|---|---|---|
| `PagedKV` (`src/memory.cpp`) | page flags, write offsets and data; page list and byte count per sequence | `acquire`, `release`, `append`, `release_sequence`, `locate`, `read` | a page has one owner; reads return what was appended; a refused append changes nothing, one that throws later loses one page |
| `Scheduler` (`src/scheduler.cpp`) | waiting queue, active list | `submit`, `cancel`, `next`, `complete` | submission order, no decoding before the prompt ran, every request leaves |
| Kama page cache (`v3/src/PageCache.cpp`) | spans, page map, free lists, origins mapped from the system | `allocateSpan`, `deallocateSpan`, `findSpan` | spans in use are disjoint and undisturbed; page map, lists and counters are exact; whole origins go back |
| Kama thread and central caches (`ThreadCache.cpp`, `CentralCache.cpp`) | per-thread free lists; per class a spin lock and a list of spans with free blocks | `allocate`, `deallocate`, `fetchRange`, `returnRange`, `flushAll` | no block is handed out twice or lost, whoever frees it; locks are released |
| Kama size classes (`Common.h`) | compile-time tables | index lookup, batch and span sizes | smallest class that fits, alignment, a span feeds a batch |
| Kama statistics (`MemoryPool.cpp`) | relaxed atomic counters | `recordAllocation`, `recordFree`, `stats` | exact at rest, never wrapped in between |
| `gpuforge::MemoryPool` (`src/memory.cpp`) | table of blocks, bytes used | `allocate`, `release` | the account is exact and within capacity; foreign pointers are left alone |
| Compiler IR and passes (`compiler.cpp`, `shape.cpp`, `pipeline.cpp`) | nodes, outputs; working sets of the passes | builders, `validate`, `constant_fold`, `infer_layout`, `fuse`, `dead_code_eliminate`, `CompilePipeline::run` | passes keep the meaning of a valid module; malformed IR gets no launch plan |
| `TraceRecorder`, `Metrics` (`telemetry.cpp`) | events and open events; summaries | `begin`, `end`, `instant`, `clear`; `observe`, `merge` | a scope ends its own event; summaries are exact; `merge` returns |
| `TuneDatabase`, `GemmAutoTuner` (`tuning.cpp`, `autotune.cpp`) | results per problem size, a file | `record`, `save`, `load`, `run` | `run` answers with the fastest measured configuration, also after a cut-off save |
| `KVCache` (`kv_cache.cpp`, on `Tensor`) | one key and one value tensor per layer and token, valid flags | `append`, `get`, `used`, `reset` | an entry is what `append` was given, whatever the caller does with its tensors |
| `Graph` (`graph.cpp`) | nodes | `add`, `input`, `validate`, `fuse_linear_bias` | a node is fused once; a valid graph stays valid |
| Kernels (`cuda/kernels.cu`, `kernels.cpp`) | shared tiles, accumulators, output | `gemm_cuda`, `gemm_tensorcore`, `attention_cuda` | a call returns, with the sums of the CPU function |
| Kama v1 (`v1/src/MemoryPool.cpp`) | blocks of slots, a lock-free list with a version number | `allocate`, `deallocate` | no slot is handed out twice or lost; slots lie inside their block |
| Kama v2 (`v2/src/*.cpp`) | spans by address, free lists; block lists with span trackers; thread caches | `allocateSpan`, `deallocateSpan`; `fetchRange`, `returnRange`; `allocate`, `deallocate` | spans in use are disjoint; a span goes back when all its blocks are free |
| Tile planner, `Executor`, `AutoTuner`, `Communicator`, precision, benchmark | small tables, formulas | - | not modelled, see section 7 |

How the parts interact. `gpuforge::MemoryPool` takes its blocks from the Kama
pool, which other code uses directly as well; a Kama allocation passes through
the calling thread's cache, a central-cache shard and the page cache, each with
a lock of its own. `CompilePipeline` drives validation and the passes over one
module and reads `TuneDatabase`. `Executor` opens one `ScopedTrace` per launch.
`Scheduler` and `PagedKV` are called by the serving loop and share no state.
v1 and v2 of the Kama pool are kept beside v3 and are not part of the build.

What is hard in this code: the free lists of the Kama pool, moved between
threads in several critical sections; a `findSpan` that runs while
`deallocateSpan` merges; `append`, which takes pages in a loop after having
decided that they suffice; batches that are out at several workers while
requests are cancelled; ids that are positions and are renumbered; `merge` of
two objects in both directions; a file that is truncated before it is written;
counters that are read while they move; a lock-free list whose head may return
to an old value; tiles that are refilled while other threads read them; a
counter of free blocks that two paths keep.

## 2. The modules

**SequenceStore, PagedKV, MCKVCaches, PagedKVProofs.** `SequenceStore` is what
callers may rely on: one byte string per sequence; an accepted append becomes
visible as a whole and with its own bytes, a refused one changes nothing, and
one that throws after it was accepted leaves a beginning of them (`Abandon`).
`PagedKV` is the code. Every member function holds `mu_` and is one action,
except `append`: `AppendBegin` is the preflight, `AppendChunk` one iteration of
the copy loop, `AppendReturn` its end, with the mutex held in between
(`owner`). An iteration can fail in two ways. The `bad_alloc` for a missing page
(line 137) is a branch of `AppendChunk`; that it is never taken is a theorem.
The `bad_alloc` of `push_back` (line 132), which finds no memory for the page
number after the page was marked, is `AppendThrow`; the page it loses goes to
the history variable `lost`. Any `push_back` may throw in the model, in the code
only one at the vector's capacity. `ImplementsStore` maps the page tables to
`SequenceStore`: the content is what `read` returns, the pending payload is what
was copied followed by what is left.

**Selection, SelectionProofs.** The erase-remove idiom, which the scheduler and
both list-keeping layers of the Kama pool use: `Kept(q, S)` are the elements of
`q` at the positions in `S`, in their order. The positions are a set and not a
predicate so that theorems can be stated about it; `SelectionProofs` has them
(what is kept, in which order, what an append, a concatenation or a second
removal does to it), with lemmas on sequences as sets.

**KVCache, MCKVCaches, PagedKVProofs.** A stored tensor is a clone with
contents of its own or an alias of a caller's tensor; callers go on writing to
theirs. `append` replaces the key before it clones the value, so an exception
in between is an action, `AppendThrows`; the entries it leaves half replaced
are in `torn`.

**Scheduler, MCScheduler, MCServing, SchedulerCompilerProofs.** Each member
function is one action under `mu_`. Workers are the callers the tests show: each
asks for a batch and then reports its requests one by one, in any order,
interleaved with everyone else, so two workers may hold overlapping batches.

**SpanPool, PageCache, PageCacheV2, MCPageCache, PageCacheProofs.** `SpanPool`
says what the upper layers assume: runs of pages that nobody else holds.
`PageCache` splits `deallocateSpan` at the critical sections of
`pageMapMutex_`, because `findSpan` takes only that one: the merge with the
next span, the merge with the previous one and the insertion are steps of their
own. `ImplementsSpanPool` is the refinement. `PageCacheV2` is the same layer in
v2, where a call is one critical section, spans are found by address only and
merges cross system allocations; it refines `SpanPool` as well
(`V2ImplementsSpanPool`). `PageCacheProofs` has the proofs about both.

**KamaPool, MCKamaPool, KamaPoolProofs.** Thread caches and central-cache
shards over a page cache that behaves as `SpanPool` says. What a thread does to
its own lists is one step; `fetchRange` and `returnRange` take one step per
loop iteration between lock and unlock. That one iteration may be a step,
although it reads and writes several fields, rests on `ShardExclusive`. Threads
free blocks of other threads, exit (which flushes class by class) and start
again.

**KamaPoolV2, MCKamaPoolV2.** The thread and central caches of v2 on a set of
spans. Every call is one step, since it is one critical section of its class;
what is of interest are the span trackers, which fetches count down and delayed
returns count up. The model follows the memory up to the first span that is
handed back with blocks in use.

**SizeClass.** The loops the compiler runs to build the size-class table and
both index maps, one iteration per step, with the constants of the build, up to
the static assertions, without which there is no program; and the binary search
v2 has instead of the second map. `MemoryPoolProofs` has the proofs.

**SlotPool, MCKernels, SlotPoolProofs.** v1's pool of slots: one step per
load, store and compare-and-swap of `popFreeList` and `pushFreeList`, exchanges
that fail spuriously included, with byte addresses for the slots. A pop that
was overtaken reads the first word of a slot that is in use: it may find
anything there. Steps are sequentially consistent; the weaker orders the code
asks for (`relaxed`, `acquire`, `release`) are not modelled. `BlocksAssumption`
is what `operator new` promises, `BlockSizeAssumption` what the default block
of 4096 bytes gives for every slot size.

**PoolAdapter, KamaStats, MemoryPool, MCMemoryPool, MemoryPoolProofs.**
`PoolAdapter` is `gpuforge::MemoryPool` in `Width`-bit arithmetic; `KamaStats`
the counters of the Kama pool, one atomic operation per step, with the two
loads of `stats()` apart and in either order. `MemoryPool` composes them:
adapter calls, which hold `mu_` until the Kama pool has counted them, and
direct calls. When `allocations_.emplace` finds no memory (`allocate_throws`),
the block that Kama has handed out is in no table; it is in `leaked`.
`MCMemoryPool` adds `SizeClass` as a part of its own.

**Shapes, Compiler, GraphIR, MCCompiler, SchedulerCompilerProofs.** `Shapes` are
the inference functions as operators, with `size_t` wrap-around. `Compiler`
builds arbitrary modules
with the public builders, runs the pipeline (validate, fold node by node,
layout, fuse step by step, plan) and dead-code elimination (mark, then sweep,
which compacts the nodes as `Kept` of `Selection` does and renumbers by `Rank`).
`Module::constant` stores node and data before it compares their sizes and
throws, so `EmitConstant` stores any payload: whoever catches the exception goes
on with the constant in the module. `InferLayout` sets the layouts or leaves
them, since `layout_` may be switched off.
The reference the passes are compared with are `Values` (what a node computes,
by broadcasting) and `Terms` (the expression a node stands for), both recursive
functions over the nodes. `Size`, the reference for the number of elements, is 1
for rank 0, where the code's `elements` says 0.
`GraphIR` is the older `Graph`: any list of nodes,
and `fuse_linear_bias` called any number of times in between.

**Trace, Metrics, MCTelemetry, MCServing, TelemetryProofs.** `Trace` follows `ScopedTrace`
objects on the stacks of several threads, and remembers for each event which
scope began it; `active_` is called `activeEvents`. `Metrics` has the
two critical sections of `merge` as steps.
`MCTelemetry` puts both side by side and `MCServing` adds the scheduler, for one
run. What `Metrics` is compared with is how often each value was observed
(`observed`), from which the exact summary follows.

**Tuning, MCKernels, SlotPoolProofs.** The tuner with its file as a sequence of
lines. The process may stop at any step, in the middle of a save too; opening or writing
may fail. Latencies are rounded when printed.

**Kernels, MCKernels.** `gemm_tiled` thread by thread: each thread loads its
elements of the tiles, waits at the barrier, adds one product per step, waits
again. An element is named by its position and a sum is the sequence of its
products, so that a product taken from the wrong tile, twice or not at all is
visible; rounding is not. `wmma_gemm` and `qkv_attention`, whose threads share
nothing that another one writes, take one step per thread block. The reference
is the CPU code: `gemm`, `softmax` and `attention`, for any tile.

*Runs over several modules.* `MCKVCaches`, `MCPageCache`, `MCMemoryPool`,
`MCCompiler`, `MCServing` and `MCKernels` check modules side by side that
share no state. A variable `part`, chosen in the initial state (in
`MCServing`: the first call), says which one a behaviour uses; the others
keep their initial state, so that each module is checked exactly as it would be
alone. Where actions of two modules have no meaning together, names carry a
prefix (`SchedulerNext`, `CompilerInit`).

Faulty variants (their comments start with "Faulty") stand next to the
definitions they distort. No specification uses them; they are the mutants
that show that each property can fail.

## 3. The runs

| Run | Bounds | What it shows |
|---|---|---|
| `kv_caches` | `PagedKV`: 3 pages of 2 bytes, 2 sequences, payloads of up to 3 bytes over 2 values; `KVCache`: 2 layers, 3 tokens, 2 tensors, 2 values, 4 calls | `PagesExclusive`: one owner per page, none lost except by `AppendThrow`; `SequenceLayout` and `LocateExact`: byte counts, pages and `locate` agree; `PreflightExact`: refused exactly when it does not fit; `FailedAppendBounded`: what an append that throws leaves behind; `ImplementsStore`; `GetExact` |
| `append_atomic` | the same | violation, see section 6 |
| `serving` | scheduler: 3 requests, batch size 2, 2 workers; trace: 2 threads, 3 scopes, 3 events, 2 ticks; metrics: 2 objects, 2 values, 6 calls | `FifoOrder`, `DecodeAfterPrefill`, and `EveryRequestLeaves` under fairness; `NoEventLeftOpen`, `EndsOwnEvent`, `SummaryExact`, and `MergeReturns` under fairness |
| `scheduler_started` | the two requests of `scheduler_phase_test` | violation, see section 6 |
| `page_cache` | 5 pages, spans of up to 3, budget of 2 (v3) | `PageMapExact` and `FreeListsExact` in every intermediate state, merging complete, `WholeOriginsWithinBudget`, `ImplementsSpanPool`; v2: `SpansExact`, `V2ImplementsSpanPool` |
| `page_cache_budget` | 5 pages, spans of up to 4 | violation, see section 6 |
| `kama_pool` | 2 threads, 2 classes, 2 spans of 2 blocks, batches and caches of 2 | `BlocksConserved`, `ListsExact` (counters, partial lists, classes), `NoLeakAfterExit`; `ShardExclusive`: threads inside a shard exclude each other; and `LockReleased` under fairness |
| `pool_v2` | 2 threads, classes of 4 and 2 blocks per span (8 and 16 KiB), 2 spans, the real threshold and delay | violation, see section 6 |
| `memory_pool` | 3 addresses, 3-bit `size_t`, 2 threads, 3 allocations; the real size-class constants, every size up to 256 KiB | `UsedExact`, `BlocksHeldOnce`, `StatsSound`; `IndexMinimal`, `PoliciesFit` |
| `compiler` | all modules of 3 nodes over 18 kinds of node, among them constants with too few or too many data, self references allowed, one output; graphs of 4 nodes with up to 2 inputs | `PassesKeepValid`, `FoldSound`, `FusePartition`, `DceExact`, `DceKeepsOutputs`, `FuseKeepsValid` |
| `compiler_payload` | the same kinds of node, constants with fitting data only | violation, see section 6 |
| `kernels` | 3 problem sizes, up to 3 configurations, 3 latencies, 2 results kept; tiles and fragments of 2, five shapes up to 3x3x3; attention with blocks of 2 threads, up to 4 keys; v1: 2 threads, objects of 17 bytes, 2 blocks of 72 bytes, 5 list operations | `ServedIsBest`, and `KernelsExact` under fairness; `SlotsConserved`, `SlotsFit`: v1's list loses no slot and hands none out twice, and slots lie inside their block |

Why these bounds are enough to be of use. The tail page, a full page and a
refused append all occur with three pages and payloads that cross a boundary.
Two workers suffice for overlapping batches, and three requests for one in the
queue, one prefilling and one decoding. Five pages hold two adjacent origins
and a span between two free neighbours. Two spans of two blocks run out, are
shared by two threads and move from one class to the other through the page
cache; a batch is fetched from two spans and the cache limit is passed. Three
bits hold sizes whose sum wraps. Three nodes hold a chain, an operand with two
users, a node with two operands that could join two groups, and a dead node
between live ones. The results kept per key (2) are fewer than the
configurations measured (3), so the cut of `record` happens. Five operations on
the list of v1 are enough for one thread to pop two slots and push the first
back while another sits between its load and its exchange; 72 bytes make a
block end inside a slot. A 3x3x3 product has two tiles in every direction, the
second of each partial. Seven steps of v2 already hand back a span in use.

## 4. Fairness

Safety properties need no fairness. Four properties do:

* `serving`, scheduler: weak fairness of each worker's next step, that is, workers keep
  running. Nobody is obliged to submit or cancel. `next()` takes the phase of
  the oldest active request, and that is enough to serve everyone.
* `kama_pool`: weak fairness of the steps a thread takes *while it holds* a
  shard lock: the operating system runs it again, and the only locks the code
  waits for in there are the page cache's mutexes inside `createSpan` and
  `deallocateSpan`. Those are held for one bounded call and nobody who holds them
  asks for a shard lock, so no cycle of locks can keep the thread. Nothing is
  assumed about who gets the shard lock, because the spin lock is not fair.
* `serving`, metrics: weak fairness of a thread inside `merge`. A mutex is held for
  one call, and the calls of a behaviour are finitely many, so a thread that
  waits for a free mutex gets it; `std::mutex` promises no more.

* `kernels`: weak fairness of the steps of a launched kernel and of the host
  that waits for it (`cudaDeviceSynchronize`). A thread at a barrier has no step
  of its own: it goes on when all are there.

The two runs of `MCCompiler` and `serving` turn the deadlock check off: a compile
ends, and the call bound of `Metrics` is reached. So does `pool_v2`, where a
thread may have exited with nothing left to do. Everywhere else deadlock is checked.

## 5. What is proved

Eight modules prove what the runs check, for every value of the constants that
satisfies the named assumptions of the modules (`SelectionProofs` has only
lemmas). Each proof rests on an inductive invariant, which is stronger than the
property; the theorems are listed in `PROJECT.json`.

**Paged KV cache** (`PagedKVProofs`; any number of pages, page size, sequences,
payloads). `TypeCorrect`, `Exclusive`, `LayoutCorrect`, `PreflightCorrect`,
`RoomCorrect`, `FailedAppendCorrect`, `LocateCorrect`, `StoreImplemented`. The
assumptions are at least one page, at least one byte per page, a value `NoSeq`
that is no sequence, 0 a byte value, a payload bound that is a natural number.
The constructor establishes the first two for any use that can hold a byte.

`TypeOK` is inductive by itself; it needs that the scan finds a free page if
there is one (`FirstFreeIsFree`, from well-foundedness of the natural numbers)
and that a chunk ends at the page boundary (`ChunkBounds`). `PagesExclusive` is
inductive relative to `TypeOK`: its four parts are needed together, since a new
page is unlisted only because allocated pages are the listed or held ones.
`SequenceLayout` is inductive relative to both: a copy into one sequence's tail
leaves the others alone only because pages are not shared (`LayoutFrame`).
`PreflightExact` follows from arithmetic on ceilings (`CeilFits`).
`RoomReserved` needs `PagesExclusive` (the page just taken leaves the free
pages by exactly one) and holds at the start of a loop by `NeededPagesExact`.
`FailedAppendBounded` follows. Inside the loop with something left to copy,
`RoomReserved` says that there is room in the tail or a free page, so the branch
for a missing page is not taken; and `push_back` is only called when the pages of
the sequence are full to the last byte (`FullPages`), so an append that it ends
has lost one page and leaves whole pages of bytes. `LocateExact` is arithmetic on
the layout.

`StoreImplemented` is the refinement of `SequenceStore`: one iteration of
the loop stutters, because what was copied and what is left are the payload
(`DoneCounted`) and the page it writes is no other sequence's (`ChunkEffect`);
the return makes the whole payload visible, and an iteration that throws makes
visible what was copied (`AppendThrowAbandons`).

**Dense KV cache** (same module). `DenseGetCorrect`, for any number of layers,
tokens, caller tensors and values. The invariant ties each entry to its place
in the flat array, which is a bijection (`PlaceIsEntry`), and says that no
stored tensor is an alias of a caller's; entries are exact except those in
`torn`.

**Adapter and counters** (`MemoryPoolProofs`; any capacity, any width of
`size_t`, any sizes, any number of threads). `PoolUsedExact`,
`PoolBlocksHeldOnce` from `AdapterInv`, in which the sum over the table is the
size of a set of bytes (`BytesOut`), and which has to say that this set and the
blocks are finite (those leaked by a throwing `emplace` included): nothing bounds
the addresses the Kama pool may hand out. The sum that is compared with the
capacity cannot wrap because the check subtracts. `StatsCorrect` from
`StatsInv`: each counter lags behind by the threads that have handed out or taken
back a block and not counted it yet.

**Size classes** (same module; any alignment, largest size, page size and limit
of the small map, with `SizesAssumption`). `SmallestClass`: `SizesInv` says that
the table increases in multiples of the alignment, and that the class the second
and third loop carry along is the smallest for the entry written last. The
binary search of v2 is a recursive function without an induction principle to
apply: the proof takes the shortest interval for which it would be wrong.
`PoliciesSuit` needs `SpacingInv` besides: the distance from a class to the one
before it is a power of two, or a multiple of the largest power looked at, and
divides the class. It is stated for alignments and page sizes
that are powers of two (`PowersAssumption`: `kAlignment` is 8, and the page sizes
of operating systems are powers of two), and says that rounding a size up to an
alignment is enough to get blocks so aligned, that the span of a class serves at
least a batch, and that a batch does not overflow the cache it fills.

**Scheduler** (`SchedulerCompilerProofs`; any number of requests and workers, any batch
size). `ServedInOrder`, `PrefillFirst`, `ActiveBounded`. `FifoOrder` is proved
as `InOrder`, which says that active list and queue together are what is left
of the submission order, in a form to which the lemmas on selections apply.
`DecodeAfterPrefill` is inductive only with `BatchesPrefilled`: a batch that
decodes and is still out at a worker has only prefilled requests left.

**Compiler** (same module; modules of any size over any kinds of node). `PassesValid`,
`MarkingExact`, `FuseOnce`, `SweepKeepsOutputs`, `FoldingSound`. The invariant
has a part per pass. `ValidInv`: the passes begin with a valid module and leave
it valid, since what they change keeps arity and shape, and since compaction and
renumbering turn a backward edge into a backward edge. `MarkInv`: what the
outputs and the marked nodes need is marked or in the worklist, and all of that is
reachable; an empty worklist makes the two equal. `GroupsInv`: the groups
together are as long as the nodes visited are many, and those before the cursor
are visited. For `SweepKeepsOutputs` the terms of the compacted list are shown to
be the terms of the old one, along the order of the nodes.

`FoldInv`, for `FoldingSound`, rests on three facts. A node that depends on no
overfull constant (`Clean`) never has more data than its shape has elements,
because a constant has none otherwise (`ConstantFits`) and every dimension is
positive where data is; its operands are such nodes too (`CleanFacts`).
A reshape cannot make a shape smaller, also when the product of the requested
dimensions wraps around: the wrapped product is at most the true one
(`ReshapeHolds`). And a sum or product takes as many values as its operands have,
which is the size of its shape only if no operand was stretched
(`StretchedSize`); then every element is lined up with itself (`LinedUpSelf`).
Recursive functions over nodes and dimensions (`Values`, `Terms`, `elements`,
`Stride`) are handled by extending what is known one index at a time up to a
bound (`UpTo`, `LoopExists`). The attempt to prove `FoldSound` changed its
reference: it counted elements with the code's `elements`, which says 0 for
rank 0, and would have refuted correct folds of scalars that TLC's shapes did
not reach. `WidthAssumption` adds that `SizeMax` is a natural number, since the
provers know nothing of powers.

**Graph** (same module). `GraphFusedOnce`: a fused node has one bias input more
than it was given, one it did not have before, and every other node has what it
was given (`GraphInv`).

**Thread and central caches** (`KamaPoolProofs`; any number of threads, classes,
spans, blocks per span, any batch and cache limit). `PoolConservesBlocks`,
`PoolListsExact`, `PoolLeavesNothing` from `PoolInv`: types and shapes of the
calls in progress (`ThreadInv`), counters and partial lists (`SpanInv`), and
`Placed`: the places a block can be in partition the blocks cut. A step
moves blocks between the places of one thread and the rest (`Redistribute`), so
each action has only to say which. `NoLeakAfterExit` needs that a thread that
exits has emptied the classes it is done with. `PoolShardExclusive` is
inductive with the owner of each lock (`LockHeld`).

**Page cache** (`PageCacheProofs`; any address space, request limit, granularity
and budget). `FindSpanExact`, `CacheListsExact`, `WholeOriginsBounded` from
`CacheInv`, which describes the page map and the origins by the arithmetic of
page numbers. Merging is complete (`NoNeighbours`) only because
`deallocateSpan` has looked at the side after it (`NextDone`) and before it
(`PrevDone`) when it inserts, and because nobody else frees a span meanwhile.
`SpanPoolImplemented` is the refinement: an allocation, with or without a
split, hands out a run nobody has, the first step of a deallocation gives it
back, and the merges and the insertion stutter.

v2 (`SpansStayExact`, `SpanPoolImplementedV2`) has a simpler invariant,
`StateV2`: spans tile the mapped pages, a span in use has the size that was
asked for, the free lists hold the spans not asked for, and no two of these
touch, across system allocations too. `Half` is what holds while a deallocation
has taken its span back and not inserted it yet, and `RightDone` and `LeftDone`
say which sides it has looked at.

**v1's lock-free list** (`SlotPoolProofs`; any number of threads, object and
block sizes, addresses, list operations). `SlotListCorrect` and
`SlotLayoutCorrect` from `SlotInv`. Its part about blocks puts the slots of a
block on a grid and says that the carved slots are those below `curSlot`. Its
part about the list says that there is a path from the head through free slots
to the end, that the slots on it, those held and those being returned are all
the carved ones, once each, and what a call knows: its copy of the head is not
newer than the head; if it has the same version number, it *is* the head; and
then the successor it read is the head's successor. Without the last two the
exchange of a pop that was overtaken would not be safe: that is the ABA
problem the version number is there for. That the recursive function `ListAt`
of the property follows this path is `ListFollowsPath`.

**Tuner** (same module; any keys, configurations and latencies, any number of
results kept). `BestIsServed` from `TunerInv`. The first line of a key in the file
is the fastest that was measured for it, in any prefix of the file too, which
is why a process that stops in the middle of a save does no harm
(`BestFirst`); what is loaded, saved or measured next continues such a prefix
(`StageInv`), and `best` holds the fastest measurements so far (`BestInv`).

**Trace recorder** (`TelemetryProofs`; any number of threads, names, scopes and
events). `NothingLeftOpen` and `ScopeEndsOwn` from `TraceInv`: `activeEvents` lists
the open events of each name, once each (`ListedInv`), no more of them than
there are scopes of the name (`CountInv`); and for a name that one thread uses
alone they are the events of its innermost scopes, in their order (`Nested`).
The outer scopes may have none, because `clear` may have come in between; that
is why the pairing has to be stated from the inside.

**Metrics** (same module; any objects, threads and finite set of positive
values). `SummaryCorrect` from `MetricsInv`: each object's count, sum, minimum and
maximum are those of what it observed, and so are those of the copy that a
thread carries from the first critical section of `merge` to the second, of what
had been observed when it was taken. The sums over the values are folds, which
take a set apart in an order of their own: `SumExists` and `SumUnique` show that such a
sum exists and is the only one, by way of a smallest set for which it is not.

*Only model-checked.* Liveness, which is out of the prover's reach:
`EveryRequestLeaves`, `LockReleased`, `MergeReturns`, `KernelsExact`. Every other
property of a passing run is stated by a theorem.

## 6. Where the code and its documentation disagree

* `append_atomic`: the comment of the preflight in `PagedKV::append` says that a
  failed append is atomic and leaks no page. The loop marks a page before
  `push_back` enters it; if that throws, the page belongs to nobody and is never
  free again, and the chunks copied before it stay counted. In TLC's trace it is
  the first page of an empty sequence. What does hold is `FailedAppendBounded`.
* `scheduler_started`: `submit` sets every request to Prefill, also one that
  arrives with generated tokens. TLC's trace submits the second request of
  `scheduler_phase_test` alone and gets a Prefill batch with it; with both
  requests, as in the test, they come in one batch, where the test expects one
  request of three tokens.
* `page_cache_budget`: the README gives the page cache a limit of 64 MiB, and a
  unit test asserts it; the code looks at the limit only when a whole origin
  becomes free, and parts of origins accumulate above it. What does hold is
  `WholeOriginsWithinBudget`.
* `compiler_payload`: `constant_fold` compares data sizes, not shapes. The sum of
  two constants of different shapes with two elements each (`[2,1]` with `[1,2]`,
  or with `[2]`) has shape `[2,2]` and becomes a constant with two elements, for
  which `Module::constant` throws. `FoldSound` is stated for folded nodes whose
  payload fits their shape.
* `pool_v2`: `CentralCache.h` says that a span is returned when all its blocks
  are free. `updateSpanFreeCount` adds the listed blocks to a counter that
  already contains those never taken. Three blocks are taken from two spans of
  two, and one of the first span is freed by a thread that exits: the delayed
  return counts the free block of the second span twice and hands that span
  back with its other block in use.

Further observations, which no line of the repository contradicts and for which
there is therefore no run:

* `Module::constant` throws for a payload that does not fit when the node is
  already in the module (`compiler.cpp:83-88`). If the caller goes on,
  `constant_fold` may compute a wrong value that looks right: a `[2]` constant
  with four data added to a `[2,2]` constant gives four sums, taken element by
  element, which fill the shape and are not what broadcasting the first two
  would give. `FoldSound` therefore excepts nodes that depend on a constant with
  more data than elements (`Overfull`); too few data do no such harm.
* `allocations_.emplace` may throw when the Kama pool has handed out the block,
  which nobody gives back then (`leaked` in `PoolAdapter`).
* `KVCache::append` leaves a valid entry with the new key and the old value
  when the second clone throws (`torn` in `KVCache`).
* `fuse_linear_bias` makes a valid graph invalid when a `Gemm` stands before
  its bias input (`BiasFirst` in `GraphIR`).
* In v2, `updateSpanFreeCount` drops the whole block list of a class when its
  first block is not of the span that is returned (`Without` in `KamaPoolV2`),
  and trackers of returned spans stay. A class above 16 KiB has one block per
  span; `fetchFromCentralCache` follows that block's first word, which
  `fetchRange` clears only in longer lists.
* The tile planner sets the Tensor Core tile to 16 after the grid was computed
  for the schedule's tile (`planner.cpp:45`); no kernel reads the plan.
* `fuse` takes a user into the group although another operand of it may be in a
  group that comes later in the list, so launches are not in the order of
  dependencies (`compiler.cpp:231`); nothing executes them.
* CPU attention refuses an empty set of keys, the device returns zeros.

## 7. What is not modelled, and the plan

Not modelled: rounding and other floating-point effects (`layer_norm`,
precision, the conversion to half); generated text (`emit_cuda`, JSON, reports,
`explain`, `dump`); cost estimates and the tile planner, formulas whose results
nothing reads; `AutoTuner`, a memo table of a formula; `Executor`, which runs no
kernel and whose trace scopes are those of `Trace`; `Communicator`, a table of
names; benchmark loops; the debug guards of the Kama pool, compiled out of the
default build, and its C wrappers. Destructors of v2, and v2's classes of one
block per span, are left out too. `constant_fold` is modelled as `run` calls it,
behind `validate`; it is public, and a test calls it alone.

Of what happens when the host has no memory left, the models have the throws in
`PagedKV::append`'s loop, `KVCache::append` and `MemoryPool::allocate`, where
state has changed by then. Not modelled is the one between the two `resize` calls
of `PagedKV::append` (`memory.cpp:100-103`): `sequences_` would be longer than
`sequence_bytes_`, and the next append to that sequence would index past the end.

Contracts of callers that the models assume: `PagedKV::release` gets pages that
`acquire` returned (the code does not check); request ids are not reused;
callers of the Kama pools free what they hold, with the size they asked for;
outputs of a module name nodes of it when `dead_code_eliminate` runs; one
process uses a tuning file at a time; observations of `Metrics` are positive.

The plan, in order:

1. *Done.* `PagedKV` with its abstract specification and first theorems; the
   scheduler; the three layers of the Kama pool; the adapter and the counters;
   compiler passes; telemetry; tuning.
2. *Done.* `KVCache`, `Graph`, the device kernels against the CPU code, and the
   earlier pools v1 and v2.
3. *Done.* Proofs of the invariants, action properties and refinements of
   section 5.
4. *Open.* Composition: `KamaPool` on `PageCache` itself instead of on `SpanPool`'s
   promise; `CompilePipeline` on `TuneDatabase`.
