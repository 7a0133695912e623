----------------------------- MODULE GeoTileCache -----------------------------
(***************************************************************************)
(* The geographic tile cache (crates/xyg-engine/src/geo_tile_cache.rs).    *)
(* Every cache charges what it holds, and what it may come to hold, to its *)
(* own ceiling and to one process-wide counter, before any I/O.  A view is *)
(* shown from its committed frame; a candidate frame is read in behind it, *)
(* one ticket per missing tile, and replaces it whole.  Read buffers and   *)
(* leases on derived memory belong to the hosts: they may be dropped at    *)
(* any moment, from any thread, and may outlive the cache.                 *)
(*                                                                         *)
(* Two caches may be called at once, so a call that touches the process    *)
(* counter twice is two steps here; a cache itself is borrowed for the     *)
(* length of a call.  The code counts a tick along with the epoch, always  *)
(* to the same number: one variable stands for both.                       *)
(***************************************************************************)
EXTENDS Integers, FiniteSets, Functions

CONSTANTS
    Caches, Views, Keys, Leases,
    RasterKeys,     \* the keys of raster sources; the others are vector tiles
    Cameras,        \* the sets of keys a camera may select
    Metadata,       \* METADATA_BYTES
    Payload,        \* payload_limits.max_bytes
    DecodeOverhead,       \* the fixed and per-feature charge of a decode
    ProcessBytes,   \* TILE_CACHE_PROCESS_BYTES
    MaxBytes, MaxEntries, MaxPending, MaxViews,     \* GeoTileLimits
    LeaseBytes,     \* the sizes of derived memory asked for
    MaxEpoch,       \* MaxEpoch[c]: a bound on the frames begun in cache c
    Nothing

ASSUME CacheAssumption ==
    /\ RasterKeys \subseteq Keys /\ Cameras \subseteq SUBSET Keys
    /\ Metadata \in Nat \ {0} /\ Payload \in Nat \ {0} /\ DecodeOverhead \in Nat
    /\ MaxBytes \in Nat /\ ProcessBytes \in Nat
    /\ Metadata <= MaxBytes /\ MaxBytes <= ProcessBytes
    /\ MaxEntries \in Nat \ {0} /\ MaxPending \in Nat \ {0} /\ MaxViews \in Nat \ {0}
    /\ LeaseBytes \subseteq Nat \ {0}
    /\ MaxEpoch \in [Caches -> Nat]

ASSUME FiniteCachesAssumption ==
    IsFiniteSet(Caches) /\ IsFiniteSet(Views) /\ IsFiniteSet(Keys) /\ IsFiniteSet(Leases)

VARIABLES
    process,    \* PROCESS_CHARGED
    stage,      \* stage[c]: "new", "live", "dropping" or "dropped"
    cache,      \* cache[c]: the fields of a GeoTileCache
    derived,    \* derived[c]: the counter its leases share with it
    call,       \* call[c]: the second half of a call under way, or Nothing
    buffers,    \* the tickets of the GeoTileReads hosts hold
    detached,   \* the tickets whose ReadState was detached
    lease       \* lease[l]: the derived memory a host holds, or Nothing

cacheVars == <<process, stage, cache, derived, call, buffers, detached, lease>>
hostVars == <<buffers, detached, lease>>
-----------------------------------------------------------------------------
(* The requests, frames, leases and calls of these caches.                 *)
TileTickets == [cache : Caches, epoch : Nat, key : Keys]
Frames == [epoch : Nat, keys : SUBSET Keys]
Candidates == [epoch : Nat, view : Views, keys : SUBSET Keys]
LeasesHeld == [owner : Caches, bytes : LeaseBytes]
Begins == [op : {"begin"}, view : Views, keys : Cameras, victims : SUBSET Keys, goal : Nat, rise : Nat]
Reserves == [op : {"reserve"}, lease : Leases, bytes : LeaseBytes]
Drops == [op : {"drop"}, held : Nat]

ASSUME NothingAssumption ==
    Nothing \notin Frames \cup Candidates \cup LeasesHeld \cup Begins \cup Reserves \cup Drops

Ticket(c, e, k) == [cache |-> c, epoch |-> e, key |-> k]

Empty == [entries |-> [k \in {} |-> 0], pending |-> {}, reads |-> {}, candidate |-> Nothing,
          frames |-> [v \in Views |-> Nothing], charged |-> Metadata, epoch |-> 0]

(* What a request reserves, and what an admitted payload is charged.  A     *)
(* raster is kept as read; a vector tile is decoded, from up to Payload     *)
(* bytes, beside its input.                                                *)
Reserved(k) == IF k \in RasterKeys THEN 2 * Payload + DecodeOverhead ELSE 4 * Payload + DecodeOverhead
Retained(k) == IF k \in RasterKeys THEN {Payload}
               ELSE {2 * n + DecodeOverhead : n \in 1..Payload}

ReservedFor(tickets) == SumFunctionOnSet([t \in tickets |-> Reserved(t.key)], tickets)

(* process_adjust, when it cannot fail and when it can.                    *)
Released(bytes) == process' = process - bytes
ProcessAdmits(bytes) == process + bytes <= ProcessBytes

Resident(r) == DOMAIN r.entries
Shows(r) == UNION {r.frames[v].keys : v \in {w \in Views : r.frames[w] # Nothing}}
Window(r) == Cardinality({v \in Views : r.frames[v] # Nothing})

(* cancel: in-flight reads keep their charge, unread requests lose theirs.  *)
Cancelled(r) ==
    [r EXCEPT !.charged = @ - ReservedFor(r.pending \ r.reads), !.pending = {}, !.candidate = Nothing]

CancelEpoch(r, e) == IF r.candidate # Nothing /\ r.candidate.epoch = e THEN Cancelled(r) ELSE r

(* reap_reads: a read whose buffer is gone.  If it was of the candidate,    *)
(* the candidate can no longer complete and is cancelled.                  *)
Abandoned(r) == r.reads \ buffers
Reap(r) ==
    LET lost == Abandoned(r)
        s == IF r.candidate # Nothing /\ (\E t \in lost : t.epoch = r.candidate.epoch)
             THEN Cancelled(r) ELSE r
    IN [s EXCEPT !.charged = @ - ReservedFor(lost), !.reads = @ \ lost]
-----------------------------------------------------------------------------
(* begin_frame.  The candidate needs every selected tile that is not       *)
(* resident; unread requests of the old candidate give way.                *)
Requests(c, r, keys) == {Ticket(c, r.epoch + 1, k) : k \in keys \ Resident(r)}

Asked(c, r, keys) ==
    r.charged - ReservedFor(r.pending \ r.reads) + ReservedFor(Requests(c, r, keys))

Evictable(r, keys) == Resident(r) \ (Shows(r) \cup keys)

(* min_by_key(tick): the older entry, or the earlier of two as old.        *)
OlderEntry(r, i, j) ==
    \/ r.entries[i].tick < r.entries[j].tick
    \/ r.entries[i].tick = r.entries[j].tick /\ r.entries[i].place <= r.entries[j].place

EntryBytes(r, ks) == SumFunctionOnSet([k \in ks |-> r.entries[k].bytes], ks)

Makes(c, r, keys, ks) ==
    /\ Asked(c, r, keys) - EntryBytes(r, ks) + derived[c] <= MaxBytes
    /\ Cardinality(Resident(r)) - Cardinality(ks) + Cardinality(Requests(c, r, keys)) <= MaxEntries

(* The eviction loop takes the oldest entries, one by one, until it fits.  *)
Plans(c, r, keys) ==
    LET prefixes == {{}} \cup {{j \in Evictable(r, keys) : OlderEntry(r, j, i)} : i \in Evictable(r, keys)}
    IN {ks \in prefixes : Makes(c, r, keys, ks)}

Victims(c, r, keys) ==
    CHOOSE ks \in Plans(c, r, keys) : \A js \in Plans(c, r, keys) : ks \subseteq js

Idle(c) == stage[c] = "live" /\ call[c] = Nothing

CanBegin(c, r, v, keys) ==
    /\ r.frames[v] = Nothing => Window(r) < MaxViews
    /\ Requests(c, r, keys) # {} => Cardinality(Requests(c, r, keys)) + Cardinality(r.reads) <= MaxPending
    /\ Plans(c, r, keys) # {}

(* The first half: reap, plan, and raise the process counter to the higher *)
(* of the old and the new charge.  A refusal keeps what the reap did.      *)
BeginFrame(c, v, keys) ==
    LET r == Reap(cache[c])
        victims == Victims(c, r, keys)
        goal == Asked(c, r, keys) - EntryBytes(r, victims)
        rise == IF goal > r.charged THEN goal - r.charged ELSE 0
        freed == cache[c].charged - r.charged
    IN /\ Idle(c) /\ cache[c].epoch < MaxEpoch[c]
       /\ cache' = [cache EXCEPT ![c] = r]
       /\ \/ /\ CanBegin(c, r, v, keys) /\ ProcessAdmits(rise - freed)
             /\ process' = process + rise - freed
             /\ call' = [call EXCEPT ![c] = [op |-> "begin", view |-> v, keys |-> keys,
                                             victims |-> victims, goal |-> goal, rise |-> rise]]
          \/ /\ CanBegin(c, r, v, keys) => ~ProcessAdmits(rise - freed)
             /\ Released(freed)
             /\ UNCHANGED call
       /\ UNCHANGED <<stage, derived, hostVars>>

(* The second half: drop the victims, replace the candidate, settle the    *)
(* charge, and touch the selected entries.                                 *)
Survivors(r, ks) ==
    [k \in Resident(r) \ ks |-> [r.entries[k] EXCEPT
        !.place = @ - Cardinality({j \in ks : r.entries[j].place < r.entries[k].place})]]

Touch(entries, keys, tick) ==
    [k \in DOMAIN entries |-> IF k \in keys THEN [entries[k] EXCEPT !.tick = tick] ELSE entries[k]]

EnterFrame(c) ==
    LET r == cache[c]
        p == call[c]
        e == r.epoch + 1
    IN /\ stage[c] = "live" /\ p # Nothing /\ p.op = "begin"
       /\ cache' = [cache EXCEPT ![c] =
            [r EXCEPT !.entries = Touch(Survivors(r, p.victims), p.keys, e),
                      !.pending = Requests(c, r, p.keys),
                      !.candidate = [epoch |-> e, view |-> p.view, keys |-> p.keys],
                      !.charged = p.goal, !.epoch = e]]
       /\ Released(r.charged + p.rise - p.goal)
       /\ call' = [call EXCEPT ![c] = Nothing]
       /\ UNCHANGED <<stage, derived, hostVars>>
-----------------------------------------------------------------------------
(* start_read: one buffer per ticket.                                      *)
StartRead(c, t) ==
    LET r == Reap(cache[c]) IN
    /\ Idle(c) /\ t.cache = c
    /\ IF t \in r.pending \ r.reads
       THEN /\ cache' = [cache EXCEPT ![c] = [r EXCEPT !.reads = @ \cup {t}]]
            /\ buffers' = buffers \cup {t}
       ELSE cache' = [cache EXCEPT ![c] = r] /\ UNCHANGED buffers
    /\ Released(cache[c].charged - r.charged)
    /\ UNCHANGED <<stage, derived, call, detached, lease>>

(* Drop of a GeoTileRead: the last owner of a detached ReadState releases. *)
\* Mutant: a detached buffer releases at once, its cache still holding it.
OrphanEarly(t) == t \in detached

Orphan(t) == t \in detached /\ stage[t.cache] = "dropped"

DropRead(t) ==
    /\ t \in buffers
    /\ buffers' = buffers \ {t}
    /\ Released(IF Orphan(t) THEN Reserved(t.key) ELSE 0)
    /\ UNCHANGED <<stage, cache, derived, call, detached, lease>>

(* publish: of a read this cache does not know, of a superseded one, of    *)
(* bytes the source does not admit, and of a tile.                         *)
PublishForeign(c, t) == Idle(c) /\ t \notin cache[c].reads /\ DropRead(t)

Settle(c, t, r) ==
    /\ Idle(c) /\ t \in buffers \cap cache[c].reads
    /\ cache' = [cache EXCEPT ![c] = r]
    /\ Released(cache[c].charged - r.charged)
    /\ buffers' = buffers \ {t}
    /\ UNCHANGED <<stage, derived, call, detached, lease>>

Unread(c, t) == [cache[c] EXCEPT !.reads = @ \ {t}]

PublishStale(c, t) ==
    /\ t \notin cache[c].pending
    /\ Settle(c, t, [Unread(c, t) EXCEPT !.charged = @ - Reserved(t.key)])

PublishRefused(c, t) ==
    /\ t \in cache[c].pending
    /\ Settle(c, t, CancelEpoch(Unread(c, t), t.epoch))

Pushed(r, key, bytes) ==
    [k \in Resident(r) \cup {key} |->
        IF k = key THEN [bytes |-> bytes, tick |-> r.epoch, place |-> Cardinality(Resident(r)) + 1]
        ELSE r.entries[k]]

\* Mutant: a read answers any request for its tile.
PublishTileByKey(c, t) ==
    \E u \in cache[c].pending, bytes \in Retained(t.key) :
        /\ u.key = t.key
        /\ Settle(c, t, [Unread(c, t) EXCEPT
             !.charged = @ - Reserved(t.key) + bytes,
             !.pending = @ \ {u},
             !.entries = Pushed(cache[c], t.key, bytes)])

PublishTile(c, t) ==
    /\ t \in cache[c].pending
    /\ \E bytes \in Retained(t.key) :
         Settle(c, t, [Unread(c, t) EXCEPT
             !.charged = @ - Reserved(t.key) + bytes,
             !.pending = @ \ {t},
             !.entries = Pushed(cache[c], t.key, bytes)])

(* cancel, commit_frame and drop_view.                                     *)
Change(c, r) ==
    /\ Idle(c)
    /\ cache' = [cache EXCEPT ![c] = r]
    /\ Released(cache[c].charged - r.charged)
    /\ UNCHANGED <<stage, derived, call, hostVars>>

CancelFrame(c, e) == Change(c, CancelEpoch(cache[c], e))

CommitFrame(c) ==
    LET r == cache[c] IN
    /\ r.candidate # Nothing /\ r.pending = {}
    /\ Change(c, [r EXCEPT !.candidate = Nothing, !.frames[r.candidate.view] =
                     [epoch |-> r.candidate.epoch, keys |-> r.candidate.keys]])

DropView(c, v) ==
    LET r == cache[c]
        s == IF r.candidate # Nothing /\ r.candidate.view = v THEN Cancelled(r) ELSE r
    IN Change(c, [s EXCEPT !.frames[v] = Nothing])
-----------------------------------------------------------------------------
(* reserve_derived charges the process first, then the cache's own ceiling, *)
(* and gives back on a refusal.                                            *)
ReserveDerived(c, l, bytes) ==
    /\ Idle(c) /\ lease[l] = Nothing
    /\ \A d \in {d \in Caches : call[d] # Nothing} : call[d].op = "reserve" => call[d].lease # l
    /\ bytes <= MaxBytes /\ ProcessAdmits(bytes)
    /\ process' = process + bytes
    /\ call' = [call EXCEPT ![c] = [op |-> "reserve", lease |-> l, bytes |-> bytes]]
    /\ UNCHANGED <<stage, cache, derived, hostVars>>

EnterDerived(c) ==
    LET p == call[c] IN
    /\ stage[c] = "live" /\ p # Nothing /\ p.op = "reserve"
    /\ IF cache[c].charged + derived[c] + p.bytes <= MaxBytes
       THEN /\ derived' = [derived EXCEPT ![c] = @ + p.bytes]
            /\ lease' = [lease EXCEPT ![p.lease] = [owner |-> c, bytes |-> p.bytes]]
            /\ UNCHANGED process
       ELSE Released(p.bytes) /\ UNCHANGED <<derived, lease>>
    /\ call' = [call EXCEPT ![c] = Nothing]
    /\ UNCHANGED <<stage, cache, buffers, detached>>

(* Drop of a GeoDerivedLease, whether or not its cache is still there.     *)
DropLease(l) ==
    /\ lease[l] # Nothing
    /\ derived' = [derived EXCEPT ![lease[l].owner] = @ - lease[l].bytes]
    /\ Released(lease[l].bytes)
    /\ lease' = [lease EXCEPT ![l] = Nothing]
    /\ UNCHANGED <<stage, cache, call, buffers, detached>>
-----------------------------------------------------------------------------
New(c) ==
    /\ stage[c] = "new" /\ ProcessAdmits(Metadata)
    /\ process' = process + Metadata
    /\ stage' = [stage EXCEPT ![c] = "live"]
    /\ UNCHANGED <<cache, derived, call, hostVars>>

(* Drop of a cache.  It detaches the reads that are still held, so that    *)
(* their buffers release their own charge; a buffer may go between that    *)
(* and the moment the cache lets go of its own reference.                  *)
DropCache(c) ==
    LET inHand == cache[c].reads \cap buffers IN
    /\ Idle(c)
    /\ stage' = [stage EXCEPT ![c] = "dropping"]
    /\ detached' = detached \cup inHand
    /\ call' = [call EXCEPT ![c] = [op |-> "drop", held |-> ReservedFor(inHand)]]
    /\ UNCHANGED <<process, cache, derived, buffers, lease>>

FinishDrop(c) ==
    LET last == {t \in cache[c].reads \ buffers : t \in detached} IN
    /\ stage[c] = "dropping"
    /\ Released(ReservedFor(last) + cache[c].charged - call[c].held)
    /\ stage' = [stage EXCEPT ![c] = "dropped"]
    /\ cache' = [cache EXCEPT ![c] = Empty]
    /\ call' = [call EXCEPT ![c] = Nothing]
    /\ UNCHANGED <<derived, hostVars>>
-----------------------------------------------------------------------------
CacheInit ==
    /\ process = 0
    /\ stage = [c \in Caches |-> "new"]
    /\ cache = [c \in Caches |-> Empty]
    /\ derived = [c \in Caches |-> 0]
    /\ call = [c \in Caches |-> Nothing]
    /\ buffers = {} /\ detached = {}
    /\ lease = [l \in Leases |-> Nothing]

KnownTickets(c) == cache[c].pending \cup cache[c].reads

CacheNext ==
    \/ \E c \in Caches :
        \/ New(c) \/ EnterFrame(c) \/ EnterDerived(c) \/ CommitFrame(c)
        \/ DropCache(c) \/ FinishDrop(c)
        \/ \E v \in Views, keys \in Cameras : BeginFrame(c, v, keys)
        \/ \E v \in Views : DropView(c, v)
        \/ \E e \in 1..cache[c].epoch : CancelFrame(c, e)
        \/ \E t \in KnownTickets(c) : StartRead(c, t)
        \/ \E t \in buffers : \/ PublishForeign(c, t) \/ PublishStale(c, t)
                              \/ PublishRefused(c, t) \/ PublishTile(c, t)
        \/ \E l \in Leases, bytes \in LeaseBytes : ReserveDerived(c, l, bytes)
    \/ \E t \in buffers : DropRead(t)
    \/ \E l \in Leases : DropLease(l)

CacheSpec == CacheInit /\ [][CacheNext]_cacheVars
-----------------------------------------------------------------------------
(* Type invariant: what a GeoTileCache, its calls and its leases hold.     *)
CacheTypeOK ==
    /\ process \in Nat /\ derived \in [Caches -> Nat]
    /\ stage \in [Caches -> {"new", "live", "dropping", "dropped"}]
    /\ \A c \in Caches :
        /\ cache[c].charged \in Nat /\ cache[c].epoch \in 0..MaxEpoch[c]
        /\ \A t \in KnownTickets(c) : t.cache = c /\ t.epoch \in 1..cache[c].epoch /\ t.key \in Keys
        /\ \A k \in Resident(cache[c]) : k \in Keys /\ cache[c].entries[k].tick \in 0..cache[c].epoch
        /\ cache[c].candidate # Nothing => cache[c].candidate.epoch = cache[c].epoch
    /\ \A t \in buffers : t.key \in Keys
    /\ \A l \in Leases : lease[l] # Nothing => lease[l].bytes \in LeaseBytes

(* What is charged, counted from what exists: a live cache pays for its    *)
(* metadata, its resident payloads, its unread requests and its reads; the *)
(* process pays for live caches, for the buffers that survived theirs, for *)
(* derived memory and for the calls under way.  Every buffer a host holds  *)
(* is among the reads of its cache until that cache is gone.               *)
Live == {c \in Caches : stage[c] \in {"live", "dropping"}}
InCall(c) == IF call[c] = Nothing THEN 0
             ELSE IF call[c].op = "begin" THEN call[c].rise
             ELSE IF call[c].op = "reserve" THEN call[c].bytes ELSE 0
CacheBytes == [c \in Caches |-> IF c \in Live THEN cache[c].charged + InCall(c) ELSE 0]
BytesOfLease(l) == IF lease[l] = Nothing THEN 0 ELSE lease[l].bytes
LeasedOf(c) == [l \in Leases |-> IF lease[l] # Nothing /\ lease[l].owner = c THEN lease[l].bytes ELSE 0]
Leased == [l \in Leases |-> BytesOfLease(l)]
Orphans == {t \in buffers : stage[t.cache] = "dropped"}

Accounted ==
    /\ \A c \in Live : cache[c].charged =
         Metadata + EntryBytes(cache[c], Resident(cache[c])) + ReservedFor(KnownTickets(c))
    /\ \A c \in Caches : derived[c] = SumFunctionOnSet(LeasedOf(c), Leases)
    /\ \A t \in buffers : stage[t.cache] # "dropped" => t \in cache[t.cache].reads
    /\ process = SumFunctionOnSet(CacheBytes, Caches) + ReservedFor(Orphans)
                   + SumFunctionOnSet(Leased, Leases)

(* The two ceilings: no cache over its own, payloads and derived memory    *)
(* together, and all of them, with what outlives them, under the process's. *)
WithinBudgets ==
    /\ process <= ProcessBytes
    /\ \A c \in Live : cache[c].charged + derived[c] <= MaxBytes

(* A frame on screen is whole: every tile of a committed frame is resident, *)
(* whatever was evicted, cancelled or superseded since, and so is every    *)
(* tile of a candidate that has nothing pending (prepared_frame).  No tile *)
(* is asked for that is resident, so none is resident twice.               *)
FramesComplete ==
    \A c \in Caches :
        LET r == cache[c] IN
        /\ Shows(r) \subseteq Resident(r)
        /\ r.candidate # Nothing => r.candidate.keys \subseteq Resident(r) \cup {t.key : t \in r.pending}
        /\ \A t \in r.pending : t.key \notin Resident(r)

(* The request window and the entry table never overflow: superseded reads *)
(* count against the window until their buffers are gone, and a request    *)
(* has its entry set aside.                                                *)
WindowFits ==
    \A c \in Caches :
        /\ Cardinality(KnownTickets(c)) <= MaxPending
        /\ Cardinality(Resident(cache[c])) + Cardinality(cache[c].pending) <= MaxEntries
        /\ Window(cache[c]) <= MaxViews

(* Every byte is charged once, every ceiling holds, of the process, of each *)
(* cache, of its tables, and what a view shows is there.                   *)
CacheConsistent == CacheTypeOK /\ Accounted /\ WithinBudgets /\ WindowFits /\ FramesComplete

(* What becomes resident was asked for by the candidate of that moment,    *)
(* with a ticket of its epoch: a late read of an earlier frame publishes   *)
(* nothing, whatever its key.                                              *)
FreshTiles ==
    [][\A c \in Caches : \A k \in Resident(cache'[c]) \ Resident(cache[c]) :
          /\ Ticket(c, cache[c].epoch, k) \in cache[c].reads \cap buffers
          /\ cache[c].candidate # Nothing /\ cache[c].candidate.epoch = cache[c].epoch]_cacheVars
=============================================================================
