# A verification project for the SDnvfp2 serving patches

The repository patches sglang so that Qwen3.8-Flash-Next, with its experts quantised to two bits, is
served from one DGX Spark. It replaces some ten files of sglang and flash-attn; `run.sh` mounts them
into a container and starts a server with speculative decoding (NEXTN, 3 steps, 4 draft tokens),
`extra_buffer` mamba tracking every 64 tokens, chunked prefill and the overlap schedule off.

This directory models the parts of it that keep state across calls, share state between threads,
streams or processes, or depend on the order of events. TLC checks small instances
(`tlc -config X.cfg MCM`), TLAPS proves most of the safety properties for every value of the
constants (`tlapm MProofs.tla`). `PROJECT.json` lists components, runs, mutants, the lines behind each definition,
findings, hazards and theorems.

## 1. Inventory

| component | where | state it keeps | operations | what is hard |
|---|---|---|---|---|
| PLE layout and side states | `model/qwen4_exp.py` 161-451, 1405-1524 | one n-gram history and one short-convolution state per pool slot; one candidate of each per draft position during a verify | prepare, layer, commit; verify candidates; track snapshots | padding rows that name a live request; state read at prepare and written at commit; boundary snapshots in another slot; rows of different lengths, zero included |
| PLE device cache | 1035-1097, 1237-1309 | tags and rows of a direct-mapped cache | cached and uncached lookup | two scatters with repeated indices; one cache for all tables |
| PLE prefetch gate | 875-1030 | on/off, warm-probe count, call count, pending observation | attribute, decide | faults visible one call late; probes; failed readings |
| PLE lookahead | 1394-1399, 1540-1622 | prefetch state, eager buffer, second CUDA stream | start_prefetch, consume | host ahead of two streams; memory reuse; an exception that leaves the state set |
| PLE table | 83-158, 1100-1230, 2196-2227, 2296-2600 | parameter, pinned memory, mapped file or packed table; the parts seen | allocate, load a part, switch to fp8, check for quiet | a file that outlives its process; a first part that changes the storage; a kill between parts |
| n-gram hashing | 512-821 | none (pure) | hash, shift | boundaries of histories, modular arithmetic |
| model forward | 1671-2124 | none of its own | prepare, layers, commit | the order of prefetch, layers and commit |
| load-time quantisation | 2633-3000, 3077-3151 | each module's weight, method and fused buffer | convert nvfp4, then fp8; mixers | double rounding; buffers and methods left from before a conversion |
| calibration dump | 2989-3071 | H and n per module, DUMP_NOW, H_DONE, W/*.pt | apply, watch, dump | a thread reading what forwards write; request flag; crash |
| draft head slice | 3155-3242, `model/qwen4_exp_mtp.py` 229-250 | process-wide flag, sliced head | slice, forward | flag around a call |
| MTP draft model | `model/qwen4_exp_mtp.py` | none | forward, sliced forward | shares the target's PLE and head; a forward that raises inside the flag |
| checkpoint prefetch | `flashnext/weight_utils.py` 887-1077 | runner thread, pool, events, error list | submit, reap, cancel, stop | cancel between check and submit; success event against thread death |
| buffered iterator | 1239-1306 | deque of futures | seed, pop, replenish, yield, close | memory bound; failures; order |
| numpy cache | 838-884 | folder of dumps, list of names, file lock | dump, list, read | crash between create and write; readers outside the lock |
| snapshot download | 440-765 | hub cache, file lock | validate, download, list, filter by the index | a folder that looks finished; shards and index fetched apart |
| other iterators, config lookup | rest of the file | none | read files | - |
| QSA backend | `flashnext/qwen_sparse_attn_backend.py` | compressed keys, pending ring (external), write plans, pinned staging halves, captured metadata, one captured selection per pool row | plan, replay, capture, lookup | capacity, ring width under rejection, staging reuse, padding rows, a pool row that changes hands |
| sparse attention, FA forward | `flashnext/sparse_attn.py`, `flash_fwd.py` | descriptor cache | compaction, kernels | prefix assumption of the compaction; barriers |
| ModelOpt config | `sglang_patched/modelopt_quant.py` | per-layer algorithm; padded, reordered weights and scales | parse, pick a method, load, process weights, apply | match order; rows and scales that part ways; weight updates after processing |
| 2-bit MoE | `sglang_patched/fused_moe*.py`, `triton.py` | the caches between two GEMMs, tile configs | dispatch, align, kernels, combine | who zeroes what; rows sorted or not; shared alignment; mutated cached config; K tail |
| launcher, bench | `run.sh`, `stop.sh`, `bench/` | container, view directory | start, stop, measure | - |

How they interact. The model's forward calls *prepare* once, asks the PLE layer that comes next to
prefetch while a layer runs, runs the layers (which read the joined histories and advance the
convolution state) and calls *commit*. The pools, the slot allocator, the radix cache and the scheduler
are sglang's, outside `src/`; the code in `src/` depends on what they pass (request rows, padding, track
slots). A lookup of the PLE layer goes through the lookahead, the device cache when it is enabled, the
gate, and then the gather kernel. Loading runs the iterators in the loader's thread, with pool workers
and the prefetch thread beside it, in one process per rank; ranks share the file system.

The speculative worker (outside `src/`) runs, per iteration, draft steps, a verification and the draft's
extend; the backend captures a selection in the last and looks it up in the next iteration's draft steps.
A start gets the shards, warms the page cache, reads them with one of the iterators, fills the PLE table and
ends with the conversions. The configuration gives each layer a method; the method's loaded weights are what
the mixture's kernels read.

What makes each part correct is stated as the properties of section 3. The hazards that led to them are
in `PROJECT.json` at their lines.

## 2. Modules

| module | models | state and actions against the code |
|---|---|---|
| `PleLayout` | pure layout functions of `_prepare_ple_batch` and `_ple_track_targets` | a forward batch is a record of the `ForwardBatch` fields the code reads; each operator is one tensor expression (`ReqIndex`: division, identity or `searchsorted`; `OwnsState`: the padding masks; `TrackOffset`: the clamp) |
| `TensorOps` | indexed assignment with repeated indices | the set of results PyTorch allows: each destination gets one of the rows that name it |
| `PleHistory` | prepare, short convolution and commit, with the server around them | `Prepare` = `_prepare_ple_batch`, `ShortConv` = `_short_conv`, `Commit` = `_commit_ple_batch`; `PrepareExtend/Decode/Verify` form the batches sglang forms; `Accept`, `Admit*`, `Cache`, `Finish`, `Evict` are the server, the allocator and the radix cache (external) |
| `PleDeviceCache` | `_ple_cache_state`, `_ple_cached_gather`, the paths of `gather` | one action per path; a row is `<<table, id, value>>`, its value the table's or rounded to the cache's fp8 (`ToFp8`); the table is fp8 or bf16 |
| `PlePrefetchGate` | `_ple_prefetch_gate` | `Attribute` and `Want` are its two halves, run together in `SmallGather` and `LargeGather`; the page cache drifts and other faults happen on their own |
| `PleLookahead` | `start_prefetch`, the buffers, `_consume_prefetched_embeddings` | the host appends operations to two streams; `wait_stream` records how many operations of the other stream must have run; `record_stream` restricts which memory may be reused |
| `PleLookup` | the three above behind one selector, `path` | they share no variable, so each is followed on its own |
| `ThreadPool` | `ThreadPoolExecutor` (external) | FIFO queue, running set, ended and raised futures |
| `CheckpointPrefetch` | `_prefetch_all_checkpoints`, the handle | one action per step between two points where another thread can act; `chosen` holds a file between the cancel check and its submission |
| `ShardWindow`, `InOrderLoad` | the buffered iterator and what it promises | `ShardWindow` is the generator and the pool, `InOrderLoad` the abstract specification: tensors in order, ended by completion, the first failure or the consumer |
| `NpCache` | `np_cache_weights_iterator` | a file is absent, cut (opened for writing) or whole; one action per system call that others can observe; crashes free the lock and keep the files |
| `SnapshotDownload` | finding, downloading, listing and filtering shards | a start is a process; `EnterDownload` holds the lock from its check to its end; `Cut` is a kill or a broken connection and leaves what had arrived |
| `PleTable` | storage, sharded load, the switch to fp8, the mapped file | `LoadPart` is one call of the loader; a kill leaves the file to the next process, which may load another checkpoint |
| `DenseConversion` | the conversion stages, the mixers, the draft slice | a module's weight is its format and how often it was rounded; `DraftForward` and `DraftEnds` are the wrapper around the draft's forward, which may raise |
| `Startup` | the six parts of a start behind one selector, `part` | the prefetch and the buffered iterator use one set of pool variables |
| `QuantConfig` | parsing of both descriptions, exclusion, prefix mapping, the method per layer | names are sequences of syllables, patterns texts with a star at either end |
| `DenseWeights` | FP8 and FP4 linear layers: load, pad, swizzle, apply | units of 16 columns; a cell is the place it was loaded from |
| `ExpertWeights` | expert layers on every backend: order of halves, padding, alphas, slices, updates | rows of w13, their block scales and columns of w2 as sequences |
| `WeightLoading` | configuration, then one layer of the method it gave | `PickLinear` and `PickExperts` hand over |
| `MoeKernels` | grouped programs, their tiles, the K loop, the two-bit tile sizes | pure operators over program numbers and indices |
| `MoeForward` | `fused_experts`, `run` and the kernels of one forward | one action per launch; a buffer is a function from cells to what they were computed from; programs of a launch store in any order |
| `QsaWritePlan` | `_qsa_write_plan`, `_qsa_build_write_plan`, the host replay's plan | rows, entries and slots as in the tensors; `OwnerOf` is the `searchsorted`, `WritePlan` the packing, `MemberRow` where an extend finds a block's tokens |
| `QsaCompression` | the indexer's compressed keys and pending ring | `Extend`, `Decode`, `Verify` are the forwards of a batch, each with its whole plan and its stores; `Stride` and `DraftLimit` are `_require_chain_speculation`; the ring's layout, the pages, the tree and the scheduler are external |
| `DraftSelection` | capture and lookup of the shared selection, staging of a replay's lengths | the host appends forwards to a stream that the device runs in order; `StageExtendLens` is the host's half, `RunCopy` the device's; a selection is the request and length it was chosen for |
| `PleHistoryProofs`, `QsaCompressionProofs`, `DraftSelectionProofs`, `ShardWindowProofs` | proofs about the module they are named after | section 5 |
| `PleLookupProofs`, `StartupProofs` | proofs about the parts of the selectors, and that the selectors implement them | section 5; the window's own are in `ShardWindowProofs` |
| `WeightLoadingProofs` | proofs about `QuantConfig`, `DenseWeights` and `ExpertWeights`, as `WeightLoading` runs them | section 5 |
| `MoeForwardProofs` | proofs about `MoeForward` and the tiles of `MoeKernels` | section 5 |
| `MC*` | instances for TLC | constants, symmetry |

Abstractions. A token is a model value. The convolution state is the window of tokens it was computed
from, which is what the code's gather moves; the arithmetic of the convolution is left out. Ghost
variables (`text`, `done`, `tracked`, `snap`; `asked`; `probed`, `slow`; `late`; `used`; `out`) record what
happened and never guard a code action, except that the scheduler's batches are formed from a request's
own text (`text`, `done`), as the real scheduler does. Fault counts are three classes set apart by the two
thresholds of the gate. A pending ring takes only what real rows store: which cell the external code gives a
padding row, which names a live request and position 0, cannot be read from this repository.

## 3. Runs

| run | instance | checks |
|---|---|---|
| `ple_history` | 2 requests (one is row 0), 4 slots and the reserved one, history of 2, window of 3, texts of 4 tokens, chunks of at most 2, boundary every 2, 2 draft tokens, 1 padding row, 2 texts that share a prefix of 2 | after every forward the two states of every live request are those of its consumed text (`StateIsOfConsumedText`); cached snapshots are those of their prefix (`SnapshotIsOfItsPrefix`); layers see the true predecessors of each token (`LayerReadsTrueHistory`); a forward writes only its requests' slots (`ForwardTouchesOnlyItsSlots`) |
| `ple_lookup` | cache: 1 table of 6 rows, fp8 or bf16, 2 slots, lookups of 3; gate: 3 warm probes, every 3rd call a probe, one burst of noise, one failed reading; lookahead: 4 forwards of 0, 1 or 2 tokens | without two different missing rows of one slot in one lookup, every lookup returns the rows asked for, exact from an fp8 table and possibly rounded to fp8 from a bf16 one (`CacheReturnsItsRows`); the gate is off only after three warm unadvised gathers (`OffOnlyWhenWarm`), at most two cold gathers in a row go unadvised, one more per failed reading (`ColdGatherIsNoticed`), it settles off on a warm table and on on a cold one; every layer uses its own forward's rows (`RowsAreItsOwn`) and every forward ends (`LookaheadEnds`) |
| `ple_cache_collisions` | the same cache of an fp8 table, with such misses | finding: `Lossless` is violated |
| `startup` | snapshot: 3 starts, 2 shards, 2 cuts; prefetch and window: 5 shards of 2 tensors, 2 ranks, 2 threads; numpy: 3 processes, 3 tensors, 3 kills; table: 5 rows in 3 parts, one kill, 2 checkpoints; dense: the groups of the launcher, none, or few | a start that may use the hub loads the whole model while nothing was cut, and with an index the whole or none (`StartsAreComplete`); of the prefetch: one submission at most after a cancel, an uncancelled end means read or reported, a failure has an error, a cancel ends the thread, the prefetch ends; of the window: the memory bound of the docstring, no shard skipped, refinement of `InOrderLoad`, termination; of the dumps: a readable list means a whole dump, no file changes under a reader, without a kill every load succeeds, nobody waits for ever; a served table has the checkpoint's rows (`ServedRowsAreTheCheckpoints`); each module is rounded once at most and read by the method for its format (`ForwardReadsTheLoadedWeights`); draft and target read their own rows of the head (`EachReadsItsRows`) |
| `snapshot_short` | 2 starts, 2 shards, 1 cut | finding: `NothingIsDropped` is violated |
| `np_cache_crash` | 3 processes, 3 tensors, 3 kills | finding: `EveryLoadSucceeds` is violated |
| `weights` | 2 decoder layers, experts, head, embedding and draft layer, every kind of description; linear layers of up to 3 projections; 2 ranks of 2 experts | a description parses to what the checkpoint stores, a cache format left open where the class does not know it, or is refused if it contradicts itself (`DescriptionIsUnderstood`); each layer gets the method for its tensors' format (`MethodsReadTheirTensors`); a row is multiplied by its own scales (`RowsUseTheirOwnScales`); gate, up and w2 of a channel meet (`ChannelsStayTogether`); alphas undo the activation's scaling (`ScalesCancel`) |
| `moe_forward` | 2 tokens, 4 expert slots (shared ones included), one to a rank, tiles of 2 by 2, K steps of 32 | the output is the mixture (`OutputIsTheMixture`); no program stores over another's result (`StoresAreOwned`) |
| `moe_zeros` | the same, with the calls left out above | finding: `StoresAreOwned` is violated |
| `draft` | 2 requests, 2 pool rows, window of 2 and one front token, 3 steps, prompts of 2 tokens, 2 verifications each, the host up to 2 forwards ahead | a draft step reads its own request's selection and every position after it (`DraftSeesItsPrefix`); a replay is laid out from its own lengths (`ReplayReadsItsLengths`) |
| `qsa_ring` | 2 request rows, 2 requests, 3 pages of one block of 3, ring of 6, 3 drafts (the widest admitted), requests of up to 9 tokens with drafts, 1 padding row | every block a request can see is of its own tokens (`VisibleBlocksAreOwn`); the tokens of its unfinished block survive rejected drafts (`PendingTailIsIntact`); no forward writes a block of a page in the radix tree (`SharedBlocksStay`) |
| `qsa_ring_stock` | 1 request, blocks of 4, ring of 4, 4 drafts (`run.sh`) | finding: `VisibleBlocksAreOwn` is violated |

`Startup` and `PleLookup` are selectors: their parts share no state (the prefetch and the window share only
the pool module), so following one part at a time loses no behaviour, and one run covers them all.

Why the bounds are enough. In `ple_history` four tokens are more than the history and the window hold, so
both slide; chunks of 0, 1 and 2 tokens put a boundary before, inside and at the end of a chunk; two
requests give a row after a row and padding that names a live request; four slots leave both requests
their working and track slots only while nothing is cached, so caching, eviction and reuse compete; two
texts with a common prefix let a snapshot be reused by the other text. `Stale` marks what a previous owner
left, so reading it shows. In the loaders there are more files than the window holds and fewer threads
than files; two shards are the fewest of which one can be missing; three starts let two meet after a third was
cut. The gate's probe interval is 3 instead of 16: what matters is that a probe can follow the
gather that turned the gate on at once or later. Four forwards let a buffer be reused, outgrown and
reused again. Five table rows in parts of two leave a short last part. In `qsa_ring` a block of three is the smallest of which two tokens can wait (with two, the first
row of a verification always completes the block); nine tokens are three blocks, more than the ring holds,
and a rejection can follow a rejection before the block is complete. `StoreFirst` is TRUE there: a forward
that stores its whole window before it compresses exposes every overwrite the other order does.
`qsa_ring_stock` has it FALSE, the order under which the fewest overwrites show. Cells distinguish a token by
position, request and whether it was kept, all that a wrong block can differ in. In `moe_forward` a
tile of two columns leaves a partial tile of three, a K step of two channels a tail, and a rank
of one expert has routes of its own and remote ones. In `draft` a request can take the pool row another
left, batches come in either order and padded, a window of two can be accepted in part, and the host can
stage the next replay before the device copied the last; two verifications let a capture be read and replaced.
Deadlock is not checked: the loaders and the bounded forwards do stop, and a selector's runs include them.

Calls and layers left out of the passing runs, each named in its MC module as `Mishandled`, because the code
does not handle them: with one route and a routed scaling factor the sum reads a cache that was never
written (`fused_moe.py` 953-981); `TritonRunnerCore.run` does not pass `gate_up_interleaved` on
(`triton.py` 106-146); zeros of remote blocks (run `moe_zeros`); expert
layers whose halves do not reach the kernel in its order (`HalvesInOrder`) or whose two tensor scales meet a kernel
with one alpha (`AlphasSuffice`). In detail:

* Interleaved experts on FlashInfer CUTLASS or CuteDSL v2: these take "[Up, Gate]" (`modelopt_quant.py:2687`, 2179), the
  de-interleaving gives the gate first (2371-2377, whose docstring at 1960-1961 says "the CUTLASS NVFP4 prep expects" that).
* Interleaved experts loaded again, when `_w13_deinterleaved` still stands from the first time (2368-2378).
* FP8 experts on FlashInfer CUTLASS, where the comments disagree. The kernel takes "[Up, Gate]" according to
  1146 and 1179-1189, which name the halves so; the requantization takes "the first intermediate_size_per_partition rows
  are w1", the gate (1094-1095), and the method asks the loader for no order. The model has the kernel take up first, the
  requantization the gate first, and leaves the loader (external) free: `upLoaded`. Loaded gate first, the
  kernel gets the halves the wrong way round; loaded up first with two scales, each half is dequantized by the other's. Kept are
  up first with one scale; elsewhere (Triton) gate first.
* Layers stored apart on TRT-LLM, the default FP4 backend, loaded gate first: the kernel takes up first (1962), and the method does not
  ask for it (2685-2691), so the loader must (external); those it loads up first are in the run.
* Differing gate and up tensor scales on a backend with one alpha: it uses the gate's for up (2114-2115, 2398-2403).

Every property has a mutant in `PROJECT.json`: a plausible bug in the code (a swapped order, a dropped
guard, an off-by-one) under which TLC finds it violated.

## 4. Fairness

The specifications `StartFairSpec` and `LookupFairSpec` state it per part; a step of a part is fair only while
that part is the one followed.

* `CheckpointPrefetch`: weak fairness of the runner thread, of the pool taking a job, and of each worker's
  next read. The operating system schedules threads, and a read returns or fails. The owner's `Cancel`,
  `Stop` and `Joined` are not fair: nobody has to cancel.
* `ShardWindow`: weak fairness of the generator (its consumer keeps asking; `Close` is not fair) and of the
  workers.
* `NpCache`: weak fairness of each process's next step, `Acquire` included. That suffices because every
  process takes the lock once per life and the number of lives is bounded. Kills and restarts are not fair.
* `PlePrefetchGate`: weak fairness of a large gather with a readable counter and accepted advice, that is,
  prefill chunks keep coming. The page cache is not fair; the liveness properties assume that it settles.
* `PleLookahead`: weak fairness of the host and of each stream; an operation whose wait is satisfied runs.
* The other modules state no liveness: what they promise is about what is read, stored or loaded.

## 5. Proofs

The theorems hold for every value of the constants under the named assumptions of each module
(positive sizes, finite request sets, distinct names). Each proof module has an inductive invariant, one lemma
per action that shows the action keeps it, and short theorems that draw the property from it. The invariants were
checked by TLC on the instances of section 3 first; where a quantifier over the naturals cannot be enumerated
(`ContentInv`, `TreeIsClosed`), over a range that holds every number that occurs.

* `StartupProofs`, numpy cache. The invariant: a process in the critical section holds the lock (`LockHeld`); a dumping
  process finds no list and has written every tensor before the one it is at, and a reader has seen a whole
  list (`DumpProgress`). `LockHeld` makes the dumper unique; without it two dumpers could interleave.
  Consequences: `ListMeansWholeDump`, and `ReadersUndisturbed` because a reader excludes every writer. A
  second invariant (`Calm`), relative to the first, says that while nobody was killed a cut list has its
  writer; it gives `CalmLoadsSucceed`.
* `ShardWindowProofs`. The invariant has the queue as a suffix of the submitted shards (`QueueInv`), the
  window's fill (`FillInv`), contiguity (`WindowIsContiguous`), what the current shard's phase says
  (`CurrentInv`) and how the outcome relates to the phase (`OutcomeInv`). The memory bound is proved by
  counting: resident shards lie in an interval of length max_workers + 2. The refinement
  (`LoadsInOrder`) needs the position of `out` in terms of shard and tensor (`OutInv`).
* `PleHistoryProofs`. Type correctness needs that the batch in flight is well formed (`BatchInv`: the rows
  exist, real rows are distinct live requests, track destinations are slots). `PaddingIsHarmless` then
  shows row by row that a padding row's destination is the reserved slot.
* The same module, on top of that invariant, on what the side states mean. What the properties say between forwards is not enough, for a forward
  is three steps and the convolution state advances in the second, the history in the third. So `StateInv` says what each holds at
  each step: every slot has one owner (`OwnersDistinct`), without which one request's store could be another's state; the batch
  in flight holds its requests' next tokens and the history read before the layers (`FlightInv`); the
  history is that of the text consumed (`NgramInv`), the convolution state too (`ConvInv`) except between layer and
  commit, when it is already that of the text the commit will have consumed (`AheadInv`); of a
  verification, each candidate is the state after that many drafts, as far as the drafts are known to be the
  text (`CandidatesInv`). Below it are lemmas on where a ragged batch's rows begin (`RaggedRows`), and on windows: the last
  n cells of a state followed by a chunk are the state after the chunk (`Continues`).
* `PleLookupProofs`. Gate: a cold gather that went unadvised is known to the gate, or its pending reading will make it known
  (`KnowsInv`), so at most two can follow one another, one more per failed reading (`SlowInv`);
  the probes that `lowProbes` counts are a run at the end of the history of probes, less the pending one (`ProbesInv`). Cache:
  a slot with a tag holds that id's row (`SlotsAreTrue`). `CacheKeepsItsRows` has two hypotheses, one table and no lookup that
  misses two different rows of one slot, and `Fp8CacheIsLossless` a third, that tables are fp8; without the second TLC finds the loss (run `ple_cache_collisions`), without
  the first the tags cannot tell the tables apart (a hazard; the checkpoint has one PLE layer). Lookahead: gathers are queued in the
  order of their forwards with ids that are there when each may run (`GatherInv`), and until a layer used its
  buffer no other operation that may run earlier writes it (`UseInv`); the second needs that a dropped buffer is given away only
  after its last use (`HostInv`, `dropped`). `NoForwardIsRefused` says that the RuntimeError of an unconsumed prefetch
  is never raised by forwards that run to their end.
* `StartupProofs`, prefetch. A drawn file is about to be submitted, waited for, read or reported (`TrackedInv`), and the runner
  stops waiting only when the list is exhausted (`DrainInv`): together `EndMeansReadOrReported`. The
  late submission is the one between check and submit, after which the runner sees the event (`LateInv`). The
  success event is set before the thread can be seen dead (`SuccessInv`), which gives `FailuresHaveErrors`.
* `StartupProofs`, the other parts. Snapshot: whoever checks, downloads or fetches the index holds the lock (`HoldsModelLock`), and before the first
  cut a folder with part of the model has its downloader (`NoHalfDownload`). Table: rows of the parts already seen are the
  checkpoint's (`RowsInv`), and no part is seen before the storage has its final size and type (`NothingLoadedYet`); by
  division, parts and rank intervals cover the rows. Dense: a weight that is not bf16 was rounded once and has its
  format's method (`SoundInv`); the fused buffer outlives no view of it (`FusedInv`); the flag is up exactly
  during a draft forward with a slice (`FlagInv`).
* `QsaCompressionProofs`. `PageInv`: a request's pages differ, and a page of two requests is in the tree (`PagesDiffer`); a tree page
  that a request has stands where its key ends and the key is a prefix of the request's text (`KeysArePrefixes`); the tree
  has one key per page and every shorter prefix of a key (`TreeIsClosed`). It needs no hypothesis and gives
  `SharedBlocksAreNeverWritten`, since a plan names only blocks that end after the text its request had.
  `ContentInv`: blocks a request sees, and the tree's blocks, are those of the text (`Content`), and a decoding request's waiting tokens
  are in its ring (`Pending`). That part, and with it `VisibleBlocksAreExact` and `PendingTailStays`, assumes `WindowFits`: there
  is one draft token, or the ring is wider than a block. It is exactly what the width check does not ask
  for: with a ring of one block and several drafts TLC finds the violation (run `qsa_ring_stock`, section 6). With it, the check's own
  limit gives window plus block at most ring plus one (`WidthIs`), so within the reach of one verification no two positions
  share a cell. The chain below: running sums are the sums (`IsSums`), so `OwnerOf` finds the row of an entry; the plan
  has one entry for each completed block and the others write the reserved slot 0 (`Serves`, `Covers`); two blocks
  share a slot only on one page (`SlotAt`); the rows of a batch store distinct cells (`InReach`, `InRing`); hence
  what each entry compresses is its block.
* `DraftSelectionProofs`. The properties speak of the operation the device runs next, so the invariant (`DraftInv`) follows the
  whole stream between host and device. The stream is made of whole forwards (`Chained`); a pool row has one running request
  (`RowsInv`); the operation at the head finds what it reads (`HeadInv`): its lengths are staged, each request accepted 1 to
  Window rows, and the pool row holds the selection of its length; and before every draft step still in the stream, the pool row holds the request's selection
  already or the last operation that concerns the request or the row will store it (`AllReady`). For the staged lengths:
  lengths still to be copied stand in their half of the pinned buffer, and the half of the last copy is not the one
  that is filled next (`PinsInv`). That rests on `OneCopy`: when the host fills a half there are fewer than two forwards left,
  hence at most one copy. Below it are lemmas on `FlattenSeq` as rows in blocks (`FlattenIs`), on the rows of a replay of any
  number of requests with front and tail tokens (`RowsAreLaidOut`, `AnchorIsWithin`), and on a prefill, of which exactly one row is a request's last (`OneLastRow`).
* `WeightLoadingProofs`, experts. The invariant (`OrderInv`) says of a layer in the kernel's hands what the kernel will find: for each
  channel and half, the row it takes (`TakenRow`, by the order, chunks or halves of its backend) is that channel's row, and beyond
  the layer's width padding (`Served`). Each processing action is then a lemma on sequences: two halves as loaded or deinterleaved
  (`TwoHalves`, `Alternating`), padded at the end or each on its own, chunks alternating. `ExpertChannelsStayTogether` assumes
  `OrderIsKept`, `HalvesInOrder` of every layer, which leaves out what the run leaves out (section 3), so
  does `ExpertScalesCancel`, which assumes `OneAlphaSuffices`: no differing gate and up scales on a backend with one alpha. Its invariant (`ScalesInv`) follows the tensor scales from the slot of a
  global expert to its rank's slice.
* The same module, linear layers. A prepared weight (`Prepared`) has its own cells up to the layer's width and zeros behind it, its scales
  swizzled once, and, for the fused activation, the rows where the kernel will look (`ChunksHold`). That interleaving by four undoes
  what the kernel does is arithmetic (`ChunksAreFound`), that every row is in one of the fused projections an argument on sums
  (`RowsHaveParts`). `LinearRowsUseTheirOwnScales` assumes `ProjectionsShareScales`: the FP4 methods take the largest tensor
  scale of the fused projections and requantize nothing; when they differ the weight-only method warns (`modelopt_quant.py:2064-2068`).
* The same module, the configuration. `ConfigurationsAreUnderstood` assumes what an honest description is (`DescriptionsAreTrue`): its
  algorithm, exclusions and cache format are the checkpoint's (a format other than FP8 and NVFP4 may be given by any other name), every block size it gives, wherever it gives it, is the checkpoint's,
  and where the parser finds none the size is the default of 16; a contradictory one is nested and gives two sizes. The lookups of
  the three parsers, each over fields in several places, then agree with what is stored (`Fp4IsUnderstood`, `MixedIsUnderstood`), and renaming
  leaves them alone. The cache format may come out open (`auto` or none) where the checkpoint's is neither FP8 nor NVFP4, or where the
  description gives it in a form its class does not read (`Overlooked`, section 6). The descriptions of the run satisfy the assumption.
* `MoeForwardProofs`. In the grouped order, programs and tiles correspond (`ProgramsAreGrouped`, `OneProgramATile`): a program is the `x`-th of
  its group, and the last group's smaller height, which the kernel takes for both division and remainder, only changes which. Two programs
  therefore differ in columns or in block, and a block's places hold different routes, since a route is where it was sorted to
  (`AlignmentIs`). That the place is in the sorted buffer, which is allocated for `n + min(n, E + 1) * (bm - 1)` rows, is the bound on
  padding (`PaddingIsBounded`): only slots with a route are padded, so there are at most as many as routes. The invariant (`MoeInv`) says
  what each phase has allocated. `CellsHaveOneProgram` assumes `NoRemoteZeros`, that filtered experts meet neither the added
  output nor the sorted buffer: in those two cases zeros do reach other cells (run `moe_zeros`, section 6).
* The same module, the whole forward. A second invariant (`MixInv`) adds to `MoeInv` what each buffer holds after each phase: `cache1`
  the dot products of a route's token with its expert's rows (`UpHolds`), `cache2` the activations (`ActHolds`), `cache3` or the output
  each route's weighted term (`RouteValue`) or their sum (`Mixture`). A step fills every cell of a route because each route has a
  place and each place a program (`AlignmentPlaces`, `RoutesHavePrograms`), and the K loop of that program sums every column once
  (`DotsAreExact`). The sum over a token's routes, in the code's order, is the sum over the routed and the shared experts: an induction on the
  number of routes already added (`SumIsTheMixture`), also where the down GEMM adds to the output itself (`AddedIsTheMixture`).
  `ForwardComputesTheMixture` assumes `Handled`: what `CellsHaveOneProgram` assumes; sizes the kernels' K steps divide
  (`StepsFit`); no remote route without the filter, since the code sets the filter whenever some expert is remote
  (`fused_moe.py:267-270`); one shared expert to a rank behind DeepEP's remapping, which leaves one gap per rank; and not the calls
  section 3 leaves out (a single scaled route without hooks, and interleaved halves that `TritonRunnerCore` does not pass on). It says nothing of rounding: terms are symbols, and sums are bags of them.
* Compositions. `PathsAreIndependent` and `PartsAreIndependent`: the selectors `PleLookup` and `Startup` imply the
  specification of each part, so a theorem about a part holds of the composition. The prefetch and the window use one set of pool
  variables, so each is implied only in behaviours in which it is the part selected.

The type theorems (`TypeCorrect`, `NpCacheTypes`, `GateTypes`, `PrefetchTypes`) are not repeated as properties of the runs. The type predicate
of `QsaCompression` has no theorem of its own: `PageInv` contains the types the proofs need.

Modules with theorems use no RECURSIVE operator. The library's induction theorems take an operator as a parameter and
cannot be used with the installed provers. Where an argument needs induction on a number (sums, the rows of a ragged batch, prefixes
in the tree, tokens appended one by one), it takes the least counterexample: `NatLessThanWellFounded` and `WFMin`, which speak of sets
alone (`LeastElement`, `Climb`), and a recursive function is unfolded once its defining equation has been shown the same way.

Only model-checked:

* liveness (temporal proofs under fairness need ENABLED, which is out of the prover's reach);
* `MethodsReadTheirTensors` (`QuantConfig`): whether a prefix finds its entry depends on how the checkpoint's names and patterns are
  written. A hypothesis that says enough of them for every checkpoint would repeat the search; TLC enumerates checkpoints of
  every kind instead.

## 6. Findings

* The device cache (off unless `SGLANG_PLE_DEVICE_CACHE_GB` is set) calls itself lossless
  (`qwen4_exp.py:1036`). Rows and tags are scattered separately; when two missing rows of one lookup share
  a slot the two scatters may keep different ones, and a later hit returns the wrong row. Of a bf16 table (1166-1167, 1195) it is not
  lossless without a collision either: the cache is fp8 (1050) and rows are converted when they are stored (1084, 1296), so a miss
  returns the table's row and the next hit a rounded one. `CacheReturnsItsRows` states the guarantee that remains.
  `run.sh` packs the table to NVFP4 and uses no cache.
* `np_cache_weights_iterator` takes the existence of `weight_names.json` for a finished dump
  (`weight_utils.py:859`), but creates the file before it writes it (874-875): a process killed in between
  makes every later load fail.
* The backend accepts as many drafts as a block has tokens on a ring of one block, and says they are safe
  (`qwen_sparse_attn_backend.py:341`); `run.sh` runs it so. With cells keyed by position modulo the ring's
  width (350-351), a verification that starts inside a block overwrites the block's waiting tokens, and
  a rejection leaves the next verification to compress the wrong ones. On a widened ring the limit of the
  same check, width less one block, is enough (`qsa_ring`, and for every size `VisibleBlocksAreExact` and `PendingTailStays`). This rests on the ring layout the comment states;
  `build_pending_ring_slots` is outside the repository.

* A download that is killed leaves shards and no index; the check before the next download passes such a folder
  as a model that is not sharded (`weight_utils.py:458`), and a start that cannot fetch the index either
  loads the shards it finds, although line 757 says the check there is made so that shards are not
  "silently dropped". `run.sh` serves a local directory, so its server does not take the hub's path.
* A block of a remote expert writes zeros by the number of the route, whatever the output's rows are
  (`fused_moe_triton_kernels.py:541-556`): with the fused sum or sorted rows they land in rows of others.

What reading showed beside the runs, and no property is about:

* Snapshot: an offline start that lists the folder while another downloads can see some of the shards;
  `StartsAreComplete` speaks of starts that may use the hub.
* PLE table: the mapped file is named by the table's size alone, so two servers, or ranks with equal partitions,
  would share it; the model has one table per file, as `run.sh` (one server, TP 1). Rows
  whose part never came keep what the storage held, though the parameter counts as loaded.
* Dense conversion: `run.sh` gives the same lists to `SGLANG_DENSE_FP8` and `SGLANG_DENSE_NVFP4`; only the check of
  the weight's type keeps a module from being rounded twice.
* Quantisation configuration: the docstring at 342 and the comments at 352-355 and 371-373 take "q_a_proj" for a part of
  "fused_qkv_a_proj_with_mqa". It is no substring of it; of the four fused patterns only "kv_a_proj_with_mqa" is. The test
  compares last parts only, so such a pattern of one layer excludes that projection of every layer; in the run's checkpoints
  one layer has it. "language_model.*" also expands to "*" (327-332), which excludes everything; the model
  does so, and no checkpoint of the run has it.
* The forms of the KV cache's format that a class does not read: FP8 (439-446) a scheme given as text and a 4-bit dictionary; FP4
  (1465-1482) a 4-bit dictionary, "auto"; mixed (780-794) a scheme given as text. The mixed class reads the 4-bit dictionary as "NVFP4".
* The FP4 class accepts the algorithm FP8 (1514) and then quantizes experts alone, while they are loaded; dense FP8 tensors of such a
  checkpoint are given to the unquantized method (1546-1549). The run has only such checkpoints whose dense layers are bf16. A
  `quant_method` of fp8 is handed to `nvfp4_online` (1446-1452), outside `src/`. NVFP4_AWQ's pre-quantization scales are left out.
* The mixed class takes the group size of its first NVFP4 layer for all, and of experts with differing algorithms the first entry
  below the layer (897-902).
* Expert layers: the orders and scales of section 3 on which comments, methods and backends disagree.
* `Fp4Linear` reads its output size again from the padded weight on a reload.
* Mixture: the fp2 docstring counts the per-tensor scale into S, the code applies it in the epilogue; the DeepEP
  remapping leaves one gap per rank.
* Pool row 0: `qwen_sparse_attn_backend.py:1405` calls it reserved, `qwen4_exp.py:304` says it may belong to a real
  request. `PleHistory` takes the second, `DraftSelection` the first; were a live request at row 0 its selection would go to the trash row, and its draft steps read what no capture wrote.
* `qwen4_exp.py` near 3150 justifies the draft slice by greedy verification, which keeps a draft only when it is
  the target's argmax; `run.sh` passes `--speculative-accept-threshold-acc 0.7`.

## 7. Plan

Done: every module of section 2, the runs of section 3, the proofs of section 5.

Left, in order:

1. The calibration's dump thread and its flag; draft-extend rows of differing lengths in the write plan.
2. n-gram hashing and KV compaction as operators against reference definitions.

## 8. Not modelled

The arithmetic of GPU kernels (attention, the mixture, quantisation) and the numeric layers: their
correctness is a matter of numbers that TLC and TLAPS do not handle. The launcher and the benchmark clients, and the sequential
file readers: none keeps state that an interleaving or a failure could corrupt. The calibration's dump thread,
n-gram hashing and the KV compaction are left to the plan; their hazards are listed with a note. The speculative worker,
the scheduler, the allocators, CUDA streams, the thread pool and the ring's layout are outside `src/` and modelled
from how the code uses them.
