# XYG in TLA+

XYG is a charting and graph engine.  A Rust core (`crates/xyg-engine`) holds all
the state that matters; a C ABI (`crates/xyg-core`) and a WebAssembly build
(`crates/xyg-wasm`) expose it; Python (`python/xyg`), Node (`packages/xy-node`)
and browser TypeScript (`js/src`) hosts drive it.  This directory models the
parts of it in which concurrency, failure, ordering or arithmetic edges decide
whether it is correct.  Paths below are relative to `src/`.

## 1. The system

| Component | Where | State it keeps | Operations | What is hard |
|---|---|---|---|---|
| Disk-resident tile store | `crates/xyg-engine/src/tile_store.rs`, `tile_store/paint.rs` | a spill file of count tiles, a partial set of them in RAM, dirty flags, recency, level maxima, a paint generation | `spill`, `compose`, `fetch_into`, `append`, `paint_frame`, `Drop`, `budget_set` | one byte budget over all the stores, eviction of a sibling's tiles, failed reads and half-done writes, a budget that moves under a running call |
| Tile-store registry | the same file, from line 880 | handles, `Arc<Mutex<TileStore>>` | `reg_insert`, `reg_with`, `reg_remove` | several host threads, three kinds of locks |
| Density tile painter | `tile_store/paint.rs`, `js/src/45_lod.ts` | the browser's textures, keyed by tile, with the generation they were painted at | `tiles` request, XYDC reply, upload | replies that arrive late, lost or out of order, across appends |
| Temporal controller | `crates/xyg-engine/src/temporal_controller.rs` | range, cursor, window, selection, playback, revision, one outbound event | the setters, `step`, `tick`, `apply_event`, `dispose` | i64 edges, no-op detection, playback at a bound |
| Linked-view coordination | the same file, `coordination.rs` | a group's controllers, a watermark per peer and source | `controller_insert`, `coordinate_deliver`, `poll_event`, `apply_event`, destroy | lost, repeated and reordered events, all-or-nothing delivery, reuse of identities |
| Geographic tile cache | `crates/xyg-engine/src/geo_tile_cache.rs` | bytes per view under one process budget, frames, read tickets, leases | `begin_frame`, `start_read`, `publish`, `cancel`, `commit_frame`, `drop_view` | late reads of superseded frames, leases that outlive the cache, a lock-free process counter |
| Progressive graph layout (Python) | `python/xyg/graph_layout.py` | revision, cancel event, one worker, an event loop | start, supersede, publish, dispose | callbacks of a superseded run |
| Force scheduler (Node) | `packages/xy-node/src/force_scheduler.js` | a worker, an outcome, a timeout, an abort signal | tick, accept, cancel, done, error, exit | first cause wins, settle once, free the native handle once |
| Chunked columns | `crates/xyg-engine/src/chunked_columns.rs` | resident slabs of an artifact's chunks under one limit, a generation watermark | `read_range`, `read_range_page`, `read_chart`, `set_generation` | threads that wait for one lock while newer requests outdate them, slabs taken out around a read that may fail |
| Streaming columns | `crates/xyg-engine/src/stream.rs` | sealed and open chunks, zone maps | append, seal, query | mutation refused while a reader holds a clone |
| Count pyramid | `crates/xyg-engine/src/tiles.rs` | count grids per level | build, merge, append, compose | saturating counts, bin edges |
| Graph interaction sessions | `graphforge/interaction.rs`, `graphforge/interaction/`, `xyg-core/src/graphforge_session_ffi.rs`, `python/xyg/_graph_session.py`, `js/src/63_graph_controller.ts` | a picture and its revision, positions, pins, a layout in progress, the owner of its state, the last reply | select, pin, move, lay out, disclose, update, render, bind, poll | pictures that are out of date when acted on, replies asked for again, a bind across two locks, an owner that goes |
| Geographic source sessions | `crates/xyg-engine/src/geo_source_session.rs`, `geo_scale_protocol.rs` | a validation, a job, a published result, a read in progress and the reads retired with their loans; one ledger of bytes | create, begin, step, supply, release, cancel, dispose | late supplies, bytes that hosts still hold, successors that fail |
| Geographic allocation receipts | `crates/xyg-engine/src/geo_allocation_recovery.rs`, `python/xyg/_geo_allocation_recovery.py` | sixteen receipts and stamps in the engine; attempts in the host | allocate, confirm, release, forget | requests and replies that are lost and repeated |
| Other geographic sessions | `geo_rows_session.rs`, `geo_membership_session.rs`, `geo_indexed_query_session.rs`, `geo_linked_state.rs`, `js/src/6x_geo_*.ts` | rows, membership, index and build sessions | open, feed, finish, cancel | protocol order |
| Browser chart runtime | `js/src/47_wasm.ts`, `wasm_worker.ts`, `50_chartview.ts`, `57_viewstate.ts` | pending worker requests, view state, GPU resources | request, reply, dispose, context loss | replies after dispose |
| Kernels, scene compilation, rasters, encoders, fonts, layout of axes and legends | `kernels.rs`, `scene*.rs`, `raster.rs`, `pdf.rs`, ... | none (pure functions) | | numeric detail |

How they interact.  A host opens a figure; large point clouds go through the
count pyramid, which is *spilled* into a tile store.  The browser asks the host
for the tiles of a view; the host calls `paint_frame` on the store and sends the
reply as an XYDC control; the painter keeps the textures and says, with the next
request, which it already has and at which generation.  `append` calls on the
same store invalidate them.  Linked views are temporal controllers in one
exchange group; the host moves events between them, in process or over a
transport.  Graph layouts run in a background worker and publish positions into
the host's event loop.  Map views share the tile cache's process budget; their
sources are read chunk by chunk through source sessions, which issue tickets and leave the
reading to the host, and what a host allocates from retained data is journaled in the
receipt bank, so that a host may repeat a request whose reply it never saw.

## 2. Modules and the code

| Module | Models | Built on |
|---|---|---|
| `CountStore` | what a spilled store promises: a table of counts and a paint generation (abstract) | |
| `TileStore` | the tile store, call by call | implements `CountStore` |
| `TileStoreProofs` | theorems about `TileStore` and `TileStoreLocks` | TLAPS |
| `TileStoreLocks` | the locks of the registry | |
| `TilePainter` | browser, host and store of a tiled density trace | extends `CountStore` |
| `TilePainterProofs` | theorems about `TilePainter` | TLAPS |
| `TemporalState` | the record of one controller, its commands as operators, its events | |
| `TemporalController` | one controller under its host | extends `TemporalState` |
| `TemporalProofs` | theorems about `TemporalController` and `CoordinationGroup` | TLAPS |
| `CoordinationGroup` | the registry and the exchange of events | extends `TemporalState` |
| `GeoTileCache` | several tile caches, the hosts' reads and leases, the process counter | |
| `LayoutController` | the Python layout controller: event loop, worker thread, callers | |
| `ForceScheduler` | both threads of a worker layout in Node | |
| `LayoutProofs` | theorems about `LayoutController` and `ForceScheduler` | TLAPS |
| `GeoSession` | the source sessions of a process, their ledger and the hosts that read for them | |
| `ChunkedColumns` | reads of a chunked artifact by several threads | |
| `ChunkedColumnsProofs` | theorems about `ChunkedColumns` | TLAPS |
| `AllocationReceipts` | the receipt bank, the attempts of its hosts and the calls that are lost between them | |
| `GeoProofs` | theorems about `GeoSession`, `AllocationReceipts` and `GeoTileCache` | TLAPS |
| `GraphSession` | one graph session, its host, and the temporal graphs it may be bound to | |
| `GraphSessionProofs` | theorems about `GraphSession` | TLAPS |
| `Sums` | lemmas about sums over finite sets, for the proofs about bytes and counts | TLAPS |
| `MC...` | the constants of the TLC runs | |

Definitions marked *Mutant* are plausible bugs of the definition they stand
before.  No specification uses them: each is put in the place of its original
to see that a property notices.

### 2.1 Tile store (`CountStore`, `TileStore`)

A store's 256 x 256 tiles are abstracted to the few cells the properties tell
apart; `KeyOf`, `LevelOf` and `Children` say which tile and level a cell is in
and which finer cells it sums, and a window is the sequence of cells one
`gather_rect` reads.  Points of a batch are given as the cells they increment.
Two assumptions say what a store is given: a pyramid is built by `reduce_level`, so
that a coarse cell is the saturated sum of the cells under it (`PyramidsAssumption`), and a
point of a batch increments on every level the one cell its halved coordinates fall in
(`BatchesAssumption`).

| Code | TLA+ |
|---|---|
| `resident`, `dirty`, `last_used` of a store | `resident`, `dirty`, `lastUsed` |
| the payload of a resident tile; its slab in the file | `ram`, `disk` |
| `GLOBAL_RESIDENT`, `GLOBAL_TICK`, `RESIDENT_BUDGET`, `PAINT_GENERATION` | `globalResident`, `globalTick`, `budget`, `nextGeneration` |
| `spill`, `Drop`, `budget_set` | `Spill`, `Remove`, `BudgetSet` |
| `compose`, `paint_frame`, `fetch_into`, `append` | `BeginCompose`, `BeginPaint`, `BeginFetchInto`, `BeginAppend`, and the steps under them |
| one pass of the eviction loop | `EvictForAdmission`, `FinishEvict` over `Victims`; `Evict`, `WriteBackFails` |
| `fetch`: hit, admission, failed read | `FetchHit`, `LoopExit`, `Admit`, `ReadFails` |
| `finish_frame` and the return | `FinishFrame`, `Return` |

A call holds the operation lock from start to end, so calls do not overlap;
`budget_set` takes no lock and may fall between any two steps.  Every read and
write of the file may fail, and a failed write leaves `Torn` in the slab.
`CountStore` knows none of this: it has counts that change only inside an
append, and generations that change whenever counts may have.  `TileStore`
implements it with `counts` read from RAM where a tile is resident and from the
file elsewhere.

### 2.2 Registry locks (`TileStoreLocks`)

`TileStore` takes the operation lock as given; this module does not.  Threads
call `reg_insert`, `reg_with` and `reg_remove`; a step is one lock taken or the
work under it: the operation lock, the registry mutex, the store's own, and,
when an eviction looks at siblings, each of theirs in turn, in handle order
(`NextSibling` is the least that is left), while the caller's is held
(`LockSibling`, `Inspect`, `Choose`, `LockForLookup`, `Lookup`).

### 2.3 Density painter (`TilePainter`)

The browser (`js/src/45_lod.ts`, `54_kernel.ts`), the host
(`python/xyg/interaction.py`) and the store meet here.  `Look`, `Expire`,
`Send`, `Receive`, `Rebuild` and `DropTiles` are the browser's; `Serve` is
`paint_frame` seen from the host; `Build`, `StartAppend`, `LandPoint`,
`FinishAppend`, `RefuseAppend`, `FailAppend`, `Restyle` the host's.  `wire` is a
set: messages are delivered in any order.  A texture is what its pixels are
computed from, so "a texture is right" is a comparison of counts and scale.
The order in which `retained` tiles are picked is left open.

### 2.4 Temporal controllers (`TemporalState`, `TemporalController`, `CoordinationGroup`)

A controller is a record with the fields of the Rust struct; a command is an
operator on it that returns the record unchanged when the command is refused or
changes nothing.  `Sat` is i64 saturation over `MinInt..MaxInt`.
`TemporalController` puts one such record under every command, tick and remote
event; `CoordinationGroup` puts several in the registry, with `Insert`,
`MoveCursor`, `Select`, `Discard`, `PollEvent`, `Remove`, `ReceiveEvent` (`apply_event`)
as single steps, since each takes one mutex, and `coordinate_deliver` as
`BeginDelivery`, one `LockMember` per controller in handle order, and `Deliver`.
The wire keeps what it delivers, so events repeat and overtake; `Lose` drops.
`Insert` gives out any identity that no live controller of the group has, so identities
are used again.  The events of two owners of one identity look alike, to the code too; `Posted` adds
the handle an event was polled from, and `cause` and `heard` are history: whose change a controller shows, and
the latest revision it has applied of each handle.  No guard reads them.

### 2.5 Geographic tile cache (`GeoTileCache`)

`cache[c]` is a `GeoTileCache`: `entries` (by key, with their bytes, tick and place in the code's vector),
`pending`, `reads`, `candidate`, `frames`, `charged`, `epoch`.  No key is asked for that is resident, so that
a key names at most one entry.  `PROCESS_CHARGED` is `process`.
`begin_frame` and `reserve_derived` raise the process counter before they can
lower it, so each is two steps (`BeginFrame`/`EnterFrame`,
`ReserveDerived`/`EnterDerived`) and another cache may act in between; so is
`Drop` (`DropCache`, `FinishDrop`), between marking reads detached and letting
go of them.  `StartRead`, the four `Publish...` actions (wrong cache, no longer
pending, refused payload, admitted), `CancelFrame`, `CommitFrame` and `DropView` are
one call each; `DropRead` and `DropLease` are the destructors a host runs from any
thread, also after the cache has gone.

### 2.6 Force scheduler (`ForceScheduler`)

`runForceTicksInWorker` and the worker entry: two event loops and two queues.
`Start`, `Turn`, `WorkerMessage`, `Exit` are the worker's, `OnMessage`,
`OnError`, `OnExit` the parent's; `Kill` is what `terminate` leads to, and
`Abort`, `WallClock`, `GraceOver`, `Crash` come from outside.  `onTick` may return,
throw, or abort the signal.

### 2.7 Layout controller (`LayoutController`)

Three kinds of actors: the event loop, the single worker thread of the executor,
and any thread that cancels or disposes.

| Code | TLA+ |
|---|---|
| `layout()` up to its await; its return | `Layout`; `Resume`, with `Outcome` for what it checks after the await; `Abandon` when the awaiting task is cancelled |
| `cancel()`, `dispose()`, the shutdown of the executor | `Cancel`, `Dispose`, `Shutdown` |
| `_run`: handle, cancel check, tick, blocking delivery, the way out | `Take`, `Create`, `Look`, `Tick`, `Delivered`, `End` |
| `deliver()` on the loop and the `on_update` it calls | `Check`, `OnUpdate`, `UpdateEnds` |

A layout is named by its revision.  A checkpoint's positions are abstracted to how many
there were.  `UpdateEnds` is an action without conditions: an `on_update` ends by
itself.  One that awaits a newer `layout()` of its own controller would not, since
the worker it waits for waits for it.

### 2.8 Source sessions (`GeoSession`)

`sess[s]` is a `GeoSourceSession`; `ledger` is `PROCESSOR_BYTES`; `held[s]` are the
tickets whose buffers the host has not let go of, and `closing` the sessions
their hosts have asked to dispose of.  Every command runs under the registry's mutex
and is one step: `Create`, `Begin`, `StepValidation`, `StepJob`, `Supply`,
`Release`, `Cancel`, `Dispose`.  A read that is superseded, cancelled or failed moves to
the retired list and stays charged until it is released (`RetirePending`).  A
supply may authenticate or not, `Finish` may fail, and a command the ledger refuses
changes nothing, so refusals are not steps of their own.  A closing host begins and
steps nothing more; it repeats `Dispose` and drops what it holds.

Left out: linked selections with their own allowance, the override of the
processor's bytes, row and statistics limits, the style binding of a painted result.
All reads have one size.

### 2.9 Chunked columns (`ChunkedColumns`)

`read_range`, `read_range_page` and `read_chart` are one loop: pages of chunks, each
read under the lock of resident slabs.  A reader goes `Begin`, `Call`, `Lock`, `NextChunk`
(skips a pruned chunk, refuses one that is too large, or ends the page), `Take` (a resident slab is taken out, a
missing one needs room), `Trim` (the oldest slab goes while more than `Room` is held), `ReadFails` or `Emit`,
`Publish`, `Final`; the watermark is checked wherever the code checks it, and `SetGeneration`
raises it without the lock.  The resident slabs are a doubly linked list, as in the code
(`entries`, `oldest`, `newest`, with `Unlink` and `Put`), because that list is part of what
could go wrong.  Opening and writing an artifact, its overview and the handle registry are left
out.

### 2.10 Allocation receipts (`AllocationReceipts`)

The bank in the engine (`receipts`, `stamps`, and `live`, the targets in the phase they
were allocated for) and the attempts of the host (`attempt`, with the slot's `nonce`,
`journal` and `dead` in `slot`).  Every call has a parameter `got`: whether its reply arrived; `NeverSent` is a
request that did not.  `Commit` is the `collect` that ends each command.

| Code | TLA+ |
|---|---|
| `execute`: replay, stale nonce, refusal, allocation | `Replays`, `Stale`, `HasRoom`, `Allocated` |
| `confirm` with action 0, 2, 1 | `Confirms`, `Releases`, `Forgets` |
| `GeoAllocationAttempt.__init__`, `recover` | `BeginAttempt`; `Replay`, `Allocate`, `Refuse`, `NeverSent`, `Confirm` |
| `close()` of an owner, `probe_retirement`, `release`, `forget` | `BeginClose`, `DisposeAttempt`, `ProbeRetirement`, `ReleaseAttempt`, `Forget` |
| the disposal of the issuer | `CloseIssuer` |
| other commands that end a target's phase | `Retire` |

An issuer is asked for one kind of allocation, since the code keeps the kinds apart.
Selected commands, which are authenticated and tracked one by one, the nonjournaled
fallback, and the bytes of a receipt are left out; a refusal for want of bytes is one of the
refusals that may come at any time.

### 2.11 Graph sessions (`GraphSession`)

A session draws pictures of one graph; each has a revision, and a request that acts on the
picture names it.  The session's selection and pins are its own, or, once bound, those of a
temporal graph (`TemporalGraph`), which its holder goes on framing, pinning on and may destroy.
The graph is reduced to one node: where it is, whether it is pinned and collapsed, and whether
the owner's frame shows it.

| Code | TLA+ |
|---|---|
| `GraphSession` (positions, collapse, camera, move, layout in progress, slot, `seen_temporal`, `render_revision`) | `session`; `pinned` for the state in the slot, which is shared with the owner |
| `TemporalGraph`, `NativeTemporalGraph` | `temporal`: `frame` is `applied_revision`, `gone` is `disposed` |
| `WireSession`: `last_sequence`, `last_reply` | `wire`; `Retries`, `Replay` |
| a host: the picture it has, the request it has no reply to | `host` |
| `operate`: `sync_world`, stamp, apply, then `finish` | `Operates`: `Current`, `Finish`, `Publish` |
| selection, highlight, focus, hover, reading | `Style` |
| `pin`, `move_node`, `relayout_step`, `toggle_disclosure`, `update`, `Render` | `Pin`, `MovePreview`/`MoveCommit`/`MoveCancel`, `RelayoutStep` over `ForceState`, `ToggleDisclosure`, `Update`, `Render` |
| `execute` of a bind: same owner; the destination's lock, then the current owner's; leaving | `Rebind`; `Snapshot`, then `Install` or `InstallRefused`; `Unbinds` over `Leaves` |
| `frame_with_output`, `set_pinned_nodes`, destroy, by whoever holds the graph | `NextFrame`, `SetPinned`, `Destroy` |

A command runs under the session's mutex and its owner's lock, so it is one step, except a bind
to another owner: it never holds two owners' locks, and what happens between them is the point.
The parameter `got` of a command says whether its reply arrived.  That it does not is the
usual case and no fault: a host asks with an empty buffer, is told
the length, and sends the same bytes again.  A refused request changes nothing and is no step, but
`InstallRefused`, which ends a bind.

Left out: which elements are selected, linked sessions and the polling of their events
(their gate is that of `CoordinationGroup`), the places a publication gives to nodes that have none yet
(`ensure_positions`: the one node has a place from the start), refusals for budgets, opening, destroying and
the registry of sessions, and the browser's controller above them.

## 3. Runs

| Run | Asks | Bounds |
|---|---|---|
| `tile_store` | Do two stores that share one budget, with every I/O failing or not, keep file and RAM together equal to what was appended, implement `CountStore`, charge what is resident, evict in process-wide LRU order, and return from every call? | five cells in three tiles on two levels; counts saturate at 2, on the coarse level first; tiles of 1 and 3 bytes against budgets of 4, which holds one store of small tiles, and 1, which holds no large one |
| `tile_locks` | Can two threads deadlock, use a dropped store or lose a victim? | two threads, three handles: a caller, its sibling, one more to insert |
| `painter` | Do textures always show the counts of their generation, and does the view settle? | one cell, four tiles on three levels, three windows of which the widest needs a coarser level, two gestures, two generations, two opacities |
| `temporal_inside` | Are range, cursor, window, revision and pending event consistent for a domain strictly inside i64? | an i64 of -5..4 and a domain -2..2, so arguments reach past both ends and sums saturate |
| `group_peers` | Do peers show what their source shows, never older, all or nothing? | three controllers, the third with a narrower domain; the first moves and selects, the third selects; two deliverers, one event on the wire at a time beside those being delivered, revisions to 3, so that a first and a second event of a source can come in either order and again; three identities, used again |
| `geo_cache` | Is every byte charged once, under both ceilings, and is what is on screen whole? | two caches with ceilings of 10 in a process of 13, three tiles, two views, three and one frames, one lease |
| `layout` | Does every layout call end, with the result it may report, and does a superseded one go silent? | three layouts of two chunks, the second without an `on_update`: a supersede of a watched run, by a watched one, and queued work |
| `geo_session` | Is every byte charged that a host may hold, is what is published whole, and does a closed session give everything back? | two sessions of two chunks, two snapshots, sequences to 2, one retired read, room for one session and a half |
| `chunked` | Do bytes and links of the resident slabs agree, do superseded readers leave newer slabs alone and answer nothing, and does every read return? | two readers, four chunks of 1, 1, 2 and 3 bytes, two resident bytes, generations to 3; requests that evict, page, trim and skip |
| `receipts` | Is a request executed once however often it is repeated, is nothing orphaned, and does the bank drain? | two issuers, one asked twice, two slots: one issuer can crowd out the other |
| `graph_session` | Does a revision name one picture, is a request executed once and only on the picture it was made on, do pinned nodes stay, and can a session leave an owner that is gone? | two temporal graphs with two frames each, the first of which hides the node; two places, one camera or none, revisions to 3 with the exhausted one among them |
| `force_scheduler` | Does a run settle once, with its first cause, leaving nothing behind? | three chunks: a first, a middle and a last |

The bounds were chosen for the cases: before a bound was accepted, the cases the
properties are about were seen to be reachable under it (an eviction of a
sibling's tile, of two victims in one frame, a half-done write, a refused frame,
a lease that outlives its cache, a repeated event, a tick that saturates).

What the properties' names stand for: `Consistent` (`GroupConsistent` in `CoordinationGroup`, `ReceiptsConsistent` in `AllocationReceipts`, `CacheConsistent` in `GeoTileCache`, `RunConsistent` in `ForceScheduler`) is a module's type invariant together with
the relations between its variables (its conjuncts are named definitions above it); `ShowsTheCounts` is
`TexturesAreTrue`, `FramesFit` (with the GPU budget) and `QuietMeansFresh`; `TotalsAgree` is `LevelsAgree` and
`ResidentAccounting`; `EvictsWhatItMust` is `ReturnsWithinBudget` and `EvictsGloballyOldest`.

`tile_store` uses a VIEW that replaces recency ticks by their rank and
leaves generation counters out: both only grow and are only compared.  It is sound for the
liveness property too, for the same reason.
`graph_session` has a VIEW with the differences of sequence numbers, which only grow and are only
compared with each other, and without which request is unanswered: while its reply is kept, which `Consistent`
says it is, a repetition only asks for that reply.
`geo_cache` is symmetric in the views and `group_peers` in identities and
deliverers; neither run has a liveness property.

CHECK_DEADLOCK is off where the system may stop: a group whose handles are all
issued and removed, a view that has settled with its gestures spent, a run of
the scheduler or of a layout that has settled, caches and sessions that are all dropped, a watermark and an
issuer's nonces at their bound, a graph session whose revisions are used up or that can no longer be left (5).

### Fairness

* `TileStore`: weak fairness on the steps of the running call (`Running`); a
  thread that runs keeps running.  Nobody has to call, and `budget_set` has to
  happen never.
* `TileStoreLocks`: weak fairness on a thread that holds or can take a lock, strong
  on its return, since it may fault again and again before it does.
* `TilePainter`: weak fairness on answering, sending, receiving, rebuilding and
  ending an append together.  Gestures, appends, restyling and fades are not
  fair.
* `ForceScheduler`: weak fairness on each event loop and on the effect of
  `terminate`.  No timer, abort or crash is needed for a run to settle.
* `LayoutController`: weak fairness on the worker thread, on the deliveries of the event loop, on the
  shutdown that `dispose` has begun and on the return of each awaited call.  Nobody need
  supersede, cancel or dispose.
* `GeoSession`: weak fairness on a closing host's repeated `Dispose` and on letting go of buffers
  it holds.  Nothing is assumed of a host that does not close.
* `ChunkedColumns`: weak fairness on each reader, strong on its taking of the lock, which others take
  in between.
* `GraphSession`: weak fairness on the end of a bind that has begun, and strong fairness, with a reply that
  arrives, on leaving an owner that is gone: a host asks for that between whatever else it tries.
* `AllocationReceipts`: weak fairness on the closing calls with a reply that arrives: a host repeats them,
  and not all replies are lost.  Nobody need close.

## 4. Theorems

TLAPS proves, for every value of the constants the assumptions admit:

* `TileStoreProofs`.  `TypeCorrect` and `FileIntact`: `FileHoldsCleanTiles` is not
  inductive alone; the invariant adds the types and `CallInv`, which says that a
  call in progress runs on a live store, that the tile it admits is still missing, and
  that a store that is gone has nothing in RAM.  One lemma per action.  `TypeCorrect` also takes the
  accounting below: that the byte total is never negative does not follow from its type (`ChargeIsNat`).  `Implementation`: under the
  same invariant every step of `TileStore` is a step of `CountStore` or a
  stutter; an eviction changes where a count is kept, never the count.  `TotalsKept`, for every integer width, pyramid and
  batch: `LevelsAgree` says nothing of a store during an append, where levels do differ, so the invariant `TInv` is about the counts the
  batch will have led to (`Landed`: the count and what is still due, saturated): those are `Reduced` at every step, since
  saturated sums of saturated counts are those of the true ones (`Saturates`).  `EvictionInOrder` needs what is pinned at each
  phase (`PinInv`).
* `TemporalProofs`.  `StaysCanonical` and `PeersAccept`, for every integer width,
  domain and argument, under the assumption `Inside` that no domain ends at
  `MaxInt` (5 says what happens in one that does).  The invariant `IInv`
  holds the types of every field (among them that the domain is one of `Domains` and
  not empty), the range, and the well-formedness of the pending event together:
  an event is queued from a range, and a peer's range is applied over it.
  The lemmas are about saturated and clamped sums and about `WindowAround`.
  `StopsWhenItMust`, also for domains that do not begin at `MinInt` (`Strict`), and `RevisionsCount`, in an exchange
  group, classify the steps (`StepFacts`): a command on what peers share is `Tame` (announced, and at most it
  stops playback), one on settings is `Private`, a tick that could not move the cursor has met a bound, and an event is
  applied without a revision of its own.
* `TemporalProofs`, second part: any number of controllers, groups, couriers and events on the wire.
  `BaseInv` has the types, which registered identities are in use, and `LocksInOrder`: a courier
  that holds a mutex holds those of all smaller handles of its snapshot.  `GroupIsSafe` follows, and with it that deliveries
  cannot wait in a circle (`NoCircle`: of the handles somebody waits for, the largest is held by one that waits for
  none); so does `AllOrNone`.  `GroupAgrees` and `PeersAgree` need `HistoryInv`.  None asks anything of the hosts, who may
  use an identity again.  Call a *fact* an event that travels, one that is pending, or what a controller shows: a handle, one of its
  revisions and a view.  The handle has had that revision (`Sourced`), facts of one revision are
  the same (`OneView`), and what travels is older than what its source has to announce (`MovingIsOld`).  A watermark
  is what was heard of one owner of the identity (`SeenFrom`) and nothing newer was heard of any (`HeardBelowSeen`), so that
  an event which passes it is newer than all of them, and what is shown is the latest heard (`ShownIsHeard`).
  Each step makes one new fact at most, an announcement (`FactsCome`); a new controller is known to nobody (`HistoryInserts`).
* `LayoutProofs`, Node.  `SettlesClean`, `FirstCause` and `InLockStep`, for any number of
  chunks.  The first invariant says when there is no worker yet, when nothing has
  begun, who holds the handle, and what a settled run has left.  The second, `LInv`, is about the two
  ports: a checkpoint under way is the last one and the worker waits for it, an acceptance under way
  answers it, and a cancel follows only once the parent has its outcome.
* `TileStoreProofs`, second part.  `SiblingsAreSafe`, for any threads and handles: the operation lock is not an
  assumption of `Serialized` but part of its proof.  `LocksByPlace` says which locks a thread holds at each
  program point, so that whoever holds the operation lock is alone among stores;
  `WorksOnRegistered`, that what such a thread works on, its sibling list and its victim, stays
  registered; `HandlesLeft`, that handles do not run out below it.
* `LayoutProofs`, Python.  `NoLeakNoStaleResult` and `UpdatesInTime`, for any revisions and
  number of chunks.  `Consistent` is not inductive: the invariant adds where a job may be for each state of its call
  (`Jobs`), that what is not newest can no longer be current (`Cancellable`), how many checkpoints were
  shown at each point of the worker (`Shown`), and that a delivery that was checked is still wanted
  when `on_update` starts (`Checked`), which holds because a callback of the loop runs to its first await.
* `ChunkedColumnsProofs`.  `NewerKept` and `AnswersAreWhole`, for any readers, sizes and requests.
  `Reading` says what a reader knows at each point (the rows it has so far are the selected ones below its
  index; under the lock and past its check nobody newer has used a slab); `Slabs`, that a slab's
  generation is never beyond the watermark.  `SlabsAccounted`: the linked list has a witness, the sequence of the resident
  slabs in link order (`Chained`); taking a slab out removes it from the sequence and putting one back appends it, so
  that the links, the slabs and their bytes stay together whichever way a reader leaves; `PageFits` says what was
  trimmed for the slab in hand.
* `GeoProofs`, first part.  `ResultsAreWhole` and `ResultsSurvive`, for any sessions, chunks,
  limits and sizes.  The invariant follows each session alone: the stage it is in, that its read belongs to
  the work in progress, that what a job folded is what its query selects below its index, and that what is published is older than the job.
  `EveryByteIsCharged`, for finitely many sessions: the second invariant `CInv` says what each session pays for (`Paid`), and
  each command changes the ledger by what it changes of one session's bytes (`Settles`).
* `GeoProofs`, second part.  `ExecutedOnce`, for any issuers, nonces and slots.  `BankSound`: whatever the
  bank knows was born once, and what is live has its stamp.  `HostSound` relates each attempt to the bank: an
  attempt that may have been executed and has not been told keeps its receipt, because its issuer's
  next nonce is not begun before; one that is told holds its own birth; one given up was never executed.
* `GeoProofs`, third part.  `CachesAreConsistent` and `TilesAreFresh`, for any finite sets of caches, views, tiles
  and leases, and any limits.  `CacheInv` has, of each cache, `SoundCache`: what is filed is named and placed as the code does
  (`Filed`), what is pending, and what was read for it, is what the candidate still lacks (`Asking`), tables and windows have room for what was
  asked (`Roomy`), and the charge is that of what is there (`Priced`).  `Underway` says what the second half of a call will find:
  the frame planned in its first half still fits (`Begun`), since nobody else may call that cache and the process was charged for the
  higher of both states.  `Handed` says whose the buffers are: of the reads of their cache, or detached, and then paid for by themselves.
  `Promised` and `Summed` are the sums, of which each call changes the summand of one cache (`OneCache`) or of one lease
  (`OneLease`).  That eviction is possible and evicts enough (`VictimsFit`) rests on the age of entries being an order (`OlderIsOrder`).
* `GraphSessionProofs`.  `OneReplyPerRequest`, `StaleIsRefused` and `PinsHold`, for any owners, places, cameras and bounds.
  The invariant adds the types of a session, that host and session agree on the last request that ran
  (`InStep`), and that a bind between its two locks has a number and a revision left for it (`BindingWaits`).

The theorems about sums rest on `Sums`.  A sum over a finite set is a recursive function on its subsets; that it exists and does not
depend on the order of the elements would be an induction over a parameterised operator, and is instead derived from a
smallest set for which it would fail (`SmallestSet`, by well-foundedness of the naturals).

* `TilePainterProofs`.  `ShowsWhatIsCounted`, for any tiles, levels, windows and budget.  Nothing in `ShowsTheCounts` is inductive
  alone; the invariant `PainterInv` adds what the order of messages rests on.  `Talks`: of the requests and replies under way no two
  have a sequence number in common, and only one that the memo is about can still be listened to, so that a reply that is listened to is the one
  awaited (`CurrentIsLatest`).  `ImagesTrue`: what is painted under the store's generation, on the wire or in a texture, is what the
  store would paint; a generation moves before the first count does, so an append under way has a generation nobody has (`NobodyHasIt`).
  `Inventories`: the awaited request names the textures the browser has, hence the awaited frame keeps no other, unless they were
  deleted after it was asked for.  `UpToDate`: unless an append is under way or its note is on the wire (`Behind`), a view that
  shows tiles shows the store's generation, and either waits for a reply or has what its memo asked for.

Every invariant and every action property of the runs is thus a theorem.  Only model-checked: the liveness properties, which
are beyond this prover: `CallReturns`, `OperationReturns`, `RefinementEnds`, `Settles`, `RunSettles`, `Drains`, `Returns`,
`BankDrains` and `Recovers`.

## 5. Limits met while modelling

The project keeps no run for these:

* In a domain that ends at `i64::MAX`, `window_around` (`temporal_controller.rs:453`) saturates at the end without
  shifting the range back, since its test `end > domain_end` is then false, and `set_cursor` keeps the
  window: it no longer says how long the range is, and the event queued is one `validate_event_shape` of every
  peer refuses, though `spec/design/temporal-controller.md:130` calls `window` canonical.  `PeersAcceptOutbound` fails
  at once in an instance whose `Domains` is `{[start |-> 0, end |-> MaxInt]}`; `temporal_inside` and
  the theorems are about the other domains.
* In a domain that starts at `i64::MIN` reverse playback saturates at the bound instead of passing it;
  the branch that stops playback is not taken; the run's domain lies strictly inside i64.
* `spec/design/temporal-controller.md:118` makes an identity reusable once its controller is disposed of or destroyed.  Peers keep
  the watermark of the first owner, so the second, which starts at revision 1, is stale to those that have heard the first
  until it overtakes it.  `PendingIsNews` excepts exactly them (`~HeardPredecessor(h, k)`); without that conjunct
  `group_peers` fails, and the other properties hold of the same behaviours.
* The comment at `tile_store.rs:890` says that one store's disk fault does not make another's call wait;
  `reg_with` holds the process-wide operation lock over the whole call, so it does.
* An issuer's receipts are forgotten only when its disposal was acknowledged.  `OwnedGeoData.close` has no
  way to ask whether a disposal whose reply was lost has happened, so `BankDrains` is
  about issuers whose disposal was acknowledged.
* An `on_update` that awaits a newer layout of its own controller never returns (2.7), and two source sessions that each
  hold a job and wait for the other's bytes wait until a host cancels one of them.
* A host that does not have a session's last picture when the owner goes cannot get it: `check_live` refuses the kept
  reply (as `spec/design/graph-interaction.md` wants of a disposed owner), every other request is `UNBOUND`, and
  leaving needs the stamp of that picture.  Since hosts ask for the length first, a disposal
  between the two calls is enough.  `Recovers` is about hosts that have it; the others must open a new session.
* Read in the browser's controller, which is not modelled: on a later companion page a step of the layout is two
  calls, the step and a render of the page shown.  If the second is refused, the revision of the
  first has been taken (`63_graph_controller.ts:188`) and `needsRefresh` is not set, so that input on the old picture goes
  out under the new revision, though `spec/design/graph-interaction.md:1237` admits input only on "a nonstale
  accepted publication".  `ActsOnWhatWasSeen` is about hosts whose revision is the one of their picture.
* `reap_reads` looks at every buffer twice (`geo_tile_cache.rs:495` and `:506`).  Hosts call a cache, and let go of its buffers, under the
  registry's mutex (`geo_tile_protocol.rs:194`), so that `Reap` is one step here.  A Rust caller that lets go of a buffer of the
  candidate between the two looks would leave its request pending with its charge given back.
* Binding discards the session's own pins and selection, and leaving starts with none; nothing in the reply says so.

## 6. Not modelled

* Pixels, bytes, floats and text: what paint, quantisation, projection, ticks,
  encoders and fonts compute.  The wire formats (XYDC and the session protocols)
  are records here; their validation is a predicate on the record.
* Memory and thread primitives below a mutex or an atomic: each is one step.
* The components marked `not_modelled` in `PROJECT.json`, until their turn comes.

## 7. Plan

Done, in this order: tile store and its abstract promise, its locks, the temporal
controller and its group, the painter, the tile cache, the force scheduler, the layout controller,
the source sessions, the chunked columns, the allocation receipts, the graph session, and the proofs above.

Next, most important first:

1. The browser's graph controller over `GraphSession` (`63_graph_controller.ts`: replies that arrive
   after the intent has changed), and linked sessions with their poll.
2. The rows, membership and index sessions, over what they share with `GeoSession`; selected
   commands in `AllocationReceipts`.
3. `WasmLane`: requests cancelled while their reply is under way.
4. The observer queue of the Python temporal wrapper, over `TemporalState`; the
   count pyramid and streaming columns as pure operators against references.

Theorems: the invariants of the modules that come with these.
