# TLA+ models of the emo Kademlia DHT

This directory holds TLA+ specifications of the Go DHT in `src/`. The modules are
checked with TLC. Every definition is translated from the source. `PROJECT.json`
maps each definition to the lines it models. It also lists every run, the mutant
that shows each checked property can fail, the findings, and the hazards of the code.

## The system

The DHT (`src/unnamed/part_003`, the `DHT` type) joins these parts:

| part | source | state | operations |
|---|---|---|---|
| journey | `src/unnamed/part_007` | frontier of at most K routes, visited ids, hop budget, inflight count, outstanding values per responder, seen values, completed | add, next, finish, responseReceived, seenValue, addOutstanding, removeOutstanding |
| request cache | `src/cache.go` | rid hash -> (callback, deadline) in a `sync.Map` | set, callback, cleanup (sweeper goroutine) |
| listener | `src/listener.go` | a UDP socket, the read and write batches, write batch size | process (read loop goroutine), pong, store, findNode, findValue, transferKeys, request, write, flusher (goroutine), flush |
| routing table | `src/unnamed/part_004`, `src/bucket.go` | 256 buckets of K slots, a size and a promotion cache each | insert, seen, remove, closest, closestN, stash, refresh, fillBucket |
| storage | `src/storage.go` (in memory), `src/unnamed/part_003` from line 971 (leveldb) | key -> values with expiry | Get, Set, Iterate, cleanup (goroutine) |
| latency router | `src/latency_router.go` | threshold | GetBestRoutes, measureNodeLatency, periodic update |
| DHT | `src/unnamed/part_003` | the parts above, a listener round-robin counter | New, Store, Find, Close, monitor, refreshPeers, refreshKeys, pingNode, lookup |

How they interact. `Find` and `Store` pick routes from the routing table. They
register a callback for each request in the cache and write the request through a
listener chosen round robin. A listener's read loop inserts or refreshes the sender
in the routing table. For a response it runs the cache callback of the request id,
on the listener's own goroutine. For a request it answers from storage or the
routing table. The cache sweeper runs every expired callback with
`ErrRequestTimeout` and deletes its entry. A callback that returns false stays in
the cache, so it can run again for a later response and then once more for the
sweep. The callbacks of one `Find` share one journey, guarded by the journey mutex.

The hard behaviours are these:
- callbacks of one lookup run concurrently on several listener goroutines and on
  the sweeper;
- UDP datagrams are lost and reordered;
- deadlines race late answers;
- a callback can be invoked more than once;
- periodic loops (monitor, bucket refresh, key refresh, storage cleanup) touch the
  same state as the request path.

## Modules

### Journey (`Journey.tla`, driven by `MCJourney.tla`)

`Journey` has the journey's fields as variables. `frontier` is `j.nodes[0..routes-1]`,
and the distance of a route is the constant `Dist[id]`, which replaces `j.distances`.
Each method takes the journey mutex for its whole body, so each method is one action:
`JAdd` (a fold of `AddRoute` over the list), `JNext`, `JFinish`, `JResponseReceived`,
`JSeenValue`, `JAddOutstanding` and `JRemoveOutstanding`. `sort.Sort` is not stable.
`SortedOrders` is therefore every permutation that `Less` sorts, and `next` may pick
any of them. `MCJourney` lets any caller interleave `add` (lists of one or two routes),
`next(ALPHA)`, `responseReceived` and `finish(false)`. The history variable `batches`
records what each `next` handed out.

### Lookup (`Lookup.tla`, `MCLookup.tla`)

`Lookup` models one `DHT.Find` that misses local storage. It instantiates `Journey`
as `J`. Its goroutines are the caller of `Find`, every listener read loop and the
cache sweeper. The remote peers and the network are the environment.
- `FindStart`, `FindFirstNext` and `FindSend` are `Find`: `closestN`, `newJourney`,
  `add`, `next(3)` and the send loop. Each send is `listener.request`, which does
  `cache.set` and then writes.
- `Serve` is a remote node's `listener.findValue`. A holder streams its values, one
  response per value, each with `found` equal to its count. A node without the key
  answers with `Nbrs[p]`, its `closestN`.
- `Lose` drops a datagram when `Lossy` holds.
- `Tick` passes the deadline of the oldest unexpired request. All requests get the
  same timeout, so they expire in the order they were sent. With `Timely`, a
  deadline never passes while its request or an answer to it is still on the wire.
- `Receive(w)` is `listener.process` for a response: the sender joins the table,
  then `cache.callback` runs. A rid that is no longer cached is ignored.
- `Sweep` is `cache.cleanup` for one expired entry.
- `findValueCallback` is split at each lock it takes (the journey mutex and the
  routing table) and at each user callback. Its steps are `CbResponseReceived`,
  `CbAddOutstanding`, `CbRemoveOutstanding`, `CbDeliver` (seenValue, under the
  journey mutex), `CbUserValue` (the user callback, after it), `CbFinishValues`,
  `CbFinishNotFound`, `CbAdd`, `CbNext` and `CbSend`. Each runs on the goroutine
  that invoked the callback, whose local variables are `thread[w]`. So callbacks on
  different listeners interleave as they do in the code.
- `CbReturn` is the end of `cache.callback`, which deletes the entry when the
  callback returns true. It is also the end of `cleanup`, which always deletes.
- `Over` is the stuttering step of a lookup that has ended.
- A write error of `listener.request` is not modelled. Every request in Find's
  loop and in the callback's send loop is assumed written.

The routing table is the set `table` of known peers. A response inserts its sender
and a timeout removes the node the callback was made for. With at most K - 1 peers,
`closestN(key, K)` returns the whole table plus the local node. The history variables
`delivered` and `errs` record what the user saw.

Fairness. The goroutines of `Find`, every listener read loop and the sweeper are
weakly fair, because the Go scheduler runs runnable goroutines. `Tick` is weakly
fair, because time passes. `Serve` is weakly fair, because live peers answer. `Lose`
has no fairness: the network may drop or deliver.

### Bucket (`Bucket.tla`, `MCBucket.tla`)

`Bucket` models one k-bucket (`src/bucket.go`) and the goroutines that change it.
`slots` is the array `b.nodes` of K slots, `size` is `b.size` and `cache` is the
promotion cache. `remove` shifts the tail left and leaves the last slot as it was, so
slots past `size` keep stale ids or `Nil`. The actions are these:
- `HearSeen(w, id)` and `HearInsert(w)` are a listener's `routing.seen(sender)`
  followed, when that returns false, by `routing.insert(sender)`. These are two
  critical sections, and other goroutines run between them.
- `Timeout(id)` is `routing.remove` after a request timeout.
- `RefreshStart`, `RefreshPing` and `RefreshFill` are `bucket.refresh`. It copies all
  K slots, pings each copied entry without the lock, and removes the ones that did
  not answer. `pingNode` dereferences `n.address`, so pinging a `Nil` slot panics.
  `Crashed` is the stuttering step after a panic.
- `BInsert` keeps all four branches of `insert`. The eviction branch writes
  `b.nodes[b.size]` with `size = K` and panics. It is unreachable, because `pending`
  is never incremented.

Last-seen times are not modelled. The stale test reads the new node's zero time, so
only `pending` decides it.

Fairness is weak fairness on a listener that is between `seen` and `insert`, and on
the refresher once it has started. Contacts, timeouts and the hourly tick are up to
the environment.

### RoutingTable (`RoutingTable.tla`)

`Distance`, `BucketID` and `closestN` are operators over ids of W = 3 bits instead of
256. `Scan` is closestN's recursive alternating walk over buckets. The walk goes
from the key's bucket outwards: above, then below, then above again. It gathers whole
buckets until `count` nodes are gathered or W buckets have been scanned.
`sort.Slice` is unstable, so `ClosestN` is the set of results the sort can produce.
`Init` picks any table containing the local node, any key and any count, and the
state never changes. The properties check what `ClosestN` returns for every input.

`BestOf` is the latency router's `GetBestRoutes` after its `closestN(target,
count*2)`. `FastestFirst` is its unstable sort by latency and the cut at `count`;
the threshold filter follows. The goroutines that measure each node write only
their own slot before `wg.Wait`, so their results are an input: every function
from the nodes to `Lats` = {0, 1, 2}, with the threshold at 2. This gives ties
below the threshold and a node at it.

### Storage (`Storage.tla`, `MCStorage.tla`)

`Storage` models the in-memory storage (`src/storage.go`) with its cleanup goroutine,
together with the two users of `Iterate`: `refreshKeys` (part_003) and
`listener.transferKeys`.
- `items` holds every item ever created. `store` maps a key to the index of its
  item. So a Set that loaded an item still holds it after cleanup deletes the key.
- `SetLoad`, `SetLoadOrStore` and `SetInsert` are `Set`'s `Load`, `LoadOrStore` and
  the `item.insert` under `item.mu`.
- `CleanStart`, `CleanItem` and `CleanDone` are one sweep of `cleanup`, with the
  expiry test as the code has it.
- `IterStart`, `IterVisit` and `IterDone` are `Iterate`. The `transferKeys` visitor
  can return false, when a full batch fails to send. Iterate then returns without
  unlocking the item. `leaked` records that item.
- `RefreshKey` and `RefreshDone` are `refreshKeys`' loop: `Get(key, now)` for each
  key, then `Store` of the first value with its remaining ttl. The `Store` call is
  recorded in `restored`.
- `Get` takes no lock. It is an operator that the properties read.

One tick is a minute. A Set is `listener.store` handling a STORE request. Its
`created` is the time the originator's `DHT.Store` stamped (`StoreCreated`), at
most `MaxDelay` minutes before the request is handled. So values can reach an item
out of created order. Past
`MaxTime`, `Tick` stutters: the clock is no longer counted, but the system does not
stop. Running goroutines are weakly fair, and so is the clock.

### Ping (`Ping.tla`, `MCPing.tla`)

`Ping` models one `DHT.pingNode` call (part_003:829) and the two goroutines that can
run its callback: the listener that reads the pong (`cache.callback`) and the cache
sweeper (`cache.cleanup`). The callback sends on `response`, a channel with one
slot. `pingNode` waits in a select on that channel and on `time.After(Timeout)`.
- `Request` is `cache.set` plus the write. A failed write returns false at once.
- `Expire` is the cache deadline passing. `TimerFires` can only come after it,
  because the timer starts after `cache.set` with the same `Timeout`. `Recv` and
  `TimerFires` are both enabled when both are ready, as in Go's select.
- `Receive` and `Sweep` start the callback. `Send(w)` is `response <- v`. It is
  enabled only while the slot is empty.
- `Return(w)` deletes the entry.
- `Returned` is the stuttering step once `pingNode` has returned. The refresher goes
  on with another node and a new channel.

### LatencyRouter (`LatencyRouter.tla`, `MCLatencyRouter.tla`)

`LatencyRouter` models the router's periodic pass over one bucket, together with
the listener read loop that handles the pongs of its measurements.
- `TickerFires` is `startLatencyUpdates` calling `updateAllNodeLatencies`. That
  calls `bucket.iterate`, which takes `b.mu`. `holder` is the mutex.
- `Request` is the first part of `measureNodeLatency`: `listener.request`
  (`CacheSet`, then the write). A member in `Answering` puts its pong on `wire`.
  When `WriteErrors` holds, a write error returns an hour at once.
- `RouterRecv` and `RouterTimer` are the select on the one-slot `done` channel and
  `time.After(threshold)`. `Record` is `n.latency = latency`, with `failCount`
  reset or incremented as the measurement has it. `RouterUnlock` is the end of
  `iterate`.
- `ListenerRead`, `ListenerSeen` and `ListenerCallback` are `listener.process` for a
  pong. `routing.seen(sender)` runs first and takes the sender's bucket mutex, then
  `cache.callback` sends on the measurement's channel. A channel whose measurement
  has already returned is never read. It has one slot and gets one send, so the
  send does not block.
- One tick is the threshold. Answering and handling a pong take far less time, so
  `Tick` is enabled only when no goroutine can take a step (`Urgent`). A measurement
  therefore times out only if something blocks the pong.
- The history variable `timedOut` holds the members whose last measurement ended by
  the timer.

The sweeper is left out. Its deadline is a minute, far past the threshold, and its
race with the listener is the one `Ping` checks. `GetBestRoutes` is in `RoutingTable`.
Its measurements run in goroutines of their own without the bucket lock, and the
rest of it is a sort and a filter.

### Write (`Write.tla`, `MCWrite.tla`)

`Write` models the listener's outgoing path (`listener.go` 354-429).
- `WriteStart(s)` is `write` taking `l.mu`.
- `WriteFrag(s)` is one turn of its loop. The fragment is copied into
  `writeBatch[writeBatchSize]`, which panics when the size is the batch length.
  A full batch is flushed. A failed flush is returned at once, and the size is not
  reset.
- `FlusherTick` and `FlusherQuit` are the flusher goroutine. A flush that fails with
  `net.ErrClosed` ends it, and any other error panics.
- `Close` is `listener.Close` from `DHT.Close`. It closes the connection without
  `l.mu`, while other goroutines may still be sending.
- `Outcomes` is what `WriteBatch` can return. On a closed connection that is always
  `net.ErrClosed`. On an open one it is success, or an error when `TransientErrors`
  holds.

### Store (`Store.tla`, `MCStore.tla`)

`Store` models one `DHT.Store` (part_003 255-343) and everything its callbacks
depend on: the request cache, the listeners that hand responses to it, the
sweeper, and the remote nodes' `listener.store`.
- `ns` is `closestN(key, K)`. It is chosen at `Init` from `Closest`. The table
  always holds the local node (`New` inserts it), so `ns` is never empty. It is
  either the local node alone, a list that contains it, or K remote nodes.
- `Begin` holds the argument checks. A bad key or value is called back with an
  error at once.
- `StoreStep` is one turn of the loop.
  - The local node stores the value directly. If it is the only node, Store calls
    back with success.
  - Any other node gets `listener.request`: the callback is set in the cache, then
    the datagram is written. A write error is passed to the user, and Store
    returns.
- `RemoteStore` is the remote `listener.store`: `storage.Set`, then a response.
  `Lose` drops a request or a response when `Lossy` holds.
- `ListenerLoad(l)` and `SweepLoad` are the `Load` of `cache.callback` and one
  entry of the sweeper's `Range`. `RunCallback(w)` runs Store's callback and
  deletes the entry. Load and run are separate steps, so the listener and the
  sweeper can both run one request's callback.
- Any listener may read a response. The socket a request leaves from is chosen by
  `d.cl`, a counter that every request of every operation advances, so any
  assignment can occur.
- The callback passes an error straight to the user. A response adds one to `r`
  (`atomic.AddInt32`), and success is reported when `r` becomes `len(ns)-1`.
- `calls` records every call of the user's callback, in order.

### Bootstrap (`Bootstrap.tla`, `MCBootstrap.tla`)

`Bootstrap` models the bootstrap at the end of `New` (part_003 141-171 and
580-697). `findNodes` sends FIND_NODE for the local id to every bootstrap address.
New then reads one result per address from `br`, a channel with one buffer slot per
address (`BrCap`). All the callbacks are `findNodeCallback` on one shared journey,
which is the `Journey` module, instantiated.
- `FindNodes` is one turn of the loop in `findNodes`: `Request` sets the callback
  in the cache (`cache`, ids from `nextRid`) and writes the request. With
  `WriteErrors`, a write error is sent to `br` at once.
- `NewRecv` is one receive from `br`. After `len(Boot)` results, New fails if no
  result was nil and there was more than one address. Otherwise it returns.
- `Answer` is a live peer's findNode handler (listener.go 190-207). It answers with
  `Nbrs[p]`. `Receive` is the read loop. It inserts the sender into `table` and
  starts the callback on the listener if the request id is still in the cache.
- `Tick` expires the next request id, and `Sweep` starts its callback on the sweeper
  with `ErrRequestTimeout`.
- The callback is split at every journey lock and at the channel send:
  `CbResponseReceived`, `CbAdd`, `CbNext`, `CbFinish`, `CbSend`, `CbUser` and
  `CbReturn`. `CbUser` waits while `br` is full. `CbReturn` deletes the cache
  entry when the callback returned true or the sweeper ran it.
- `thread[w]` is the program counter of worker `w`, the listener or the sweeper.

Fairness is weak fairness on every step of New, the listener, the sweeper, the
peers and the clock. All of them are goroutines, or timers that fire. A
channel send (`CbUser`) is enabled only while `br` has room, so a sender that
stays blocked is a real hang, not a missing fairness assumption.

## Runs

| run | cfg | expect | what it shows |
|---|---|---|---|
| journey_dedup | MCJourney.cfg | pass | `TypeOK`, `NoRouteReturnedTwice`: no id is handed out twice, even across evictions that forget a visited id |
| lookup_notfound_then_value | MCLookup_NotFoundMeansNoValue.cfg | violation | `NotFoundMeansNoValue`: on a lossless, timely network, one listener's callback reports "value not found" while the holder's values are between `responseReceived` and `addOutstanding` on the other listener, which then delivers a value |
| lookup_reports_lossy | MCLookup_FindReports.cfg | violation | a timeout while routes remain sends nothing more, so Find never calls back |
| bucket_races | MCBucket.cfg | pass | `TypeOK`, `MembersDistinct`, `NoContactLost`: listeners racing seen/insert with timeouts and the refresher never store a node twice or forget a contact |
| routing_closest | RoutingTable.cfg | pass | `ClosestNReturnsEnough`, `ClosestOneFindsNode`, `BestRoutesAreFastest` over every table, key and count of 3-bit ids, and every latency GetBestRoutes can measure |
| storage_races | MCStorage.cfg | pass | `NoDuplicateValues`: racing Sets, sweeps and iterations, with transferKeys' batch write allowed to fail and leak the item lock, never store a value twice |
| latency_all_timeouts | MCLatencyRouter_AnsweringNodesMeasured.cfg | violation | every member of the walked bucket times out, answering or not: the listener waits for the bucket mutex the router holds |
| write_after_close_panics | MCWrite_NoWriteOutOfRange.cfg | violation | after Close, a write whose flush failed leaves the batch full and the next write panics |
| store_callbacks | MCStore.cfg | pass | `TypeOK`, `SuccessMeansStored`, `SuccessAtMostOnce`, `EventuallyCalledBack`: loss, write errors and timeouts racing responses on two listeners never make Store report success twice, or with fewer than len(ns)-1 remote copies; the caller is always called back |
| ping_callback_blocks | MCPing_CallbacksReturn.cfg | violation | a late pong and the sweep both run pingNode's callback after it gave up; the second send blocks its goroutine forever |
| bootstrap_sweeper_blocks | MCBootstrap_WorkersNeverBlock.cfg | violation | `WorkersNeverBlock`: New reads one result per bootstrap node, but every findNode callback left in the cache errors on its sweep; the second send blocks the sweeper forever |
| bootstrap_new_hangs | MCBootstrap_NewReturns.cfg | violation | `NewReturns`: an empty answer completes the journey; a later answer adds routes, whose timeout then sends nothing, so New waits forever for its second result |

Bounds, and why they are enough:
- `MCJourney` uses five ids, with two of them tied on distance (told apart by
  latency), K = 3, ALPHA = 2 and three hops. A full frontier, an eviction, a re-add
  after eviction and an unstable tie all happen.
- `MCLookup` uses three peers plus the local node, with K = 4 and ALPHA = 2. Peer 3
  is closest to the key, then 1, then 2. Peer 1 knows 2 and 3, and peers 1 and 2
  answer on listener l1, peer 3 on l2. In `lookup_notfound_then_value` the table
  is {1, 3} and peer 3 holds two values. Peer 1's answer adds nothing new (the
  neighbours get its own id, part_003:532), so its callback finds no next route.
  The network neither loses nor delays anything (`Lossy` = FALSE,
  `Timely` = TRUE), so the violation needs only the two listeners.
  In `lookup_reports_lossy` the table is all three peers and peer 2 is dead.
- Every counterexample has at most 30 steps.
- `MCBucket` uses three ids, K = 2 and two listeners. This gives a full bucket, a
  stash, two listeners inserting the same sender, and a refresh racing an insert.
- `RoutingTable` enumerates every table of 3-bit ids that contains local node 0,
  every key and every count in {1, 2, 3}. All 3 bucket offsets and both scan
  directions occur.
- `MCPing` has one ping, one listener and the sweeper. That is every goroutine that
  can touch the channel.
- `MCLatencyRouter` uses a bucket of two answering members, a threshold of one
  tick, two passes and write errors allowed. The first measurement of a pass
  already shows the violation. The same bounds without the mutex in `seen` give 820
  states and no violation, so the timeouts come from the lock.
- `MCWrite` uses two senders, a batch of two messages, one fragment per packet and
  two writes each. Transient errors are off, so the only failing flush is the one
  after `Close`.
- `MCStorage` uses one key, two values, two setters, two Set calls, ttl 2 and a clock
  up to 2 minutes. transferKeys' batch write may fail (`TransferFails`), which
  leaks the item lock. This gives a Load/LoadOrStore race, a sweep before and after
  expiry, and a refresh after a tick. With `MaxDelay` = 1, a later Set can carry an
  older `created`. One key suffices, because every goroutine treats keys
  independently.

- `MCStore` uses the local node, three remote nodes, two listeners and the sweeper.
  `Closest` holds `closestN(key, 3)` over tables holding the local node: {local}
  alone, {local, a}, {local, a, b} with the local node first, in the middle or last,
  and {local, a, b, c} with all three remote nodes closer to the key. So Store sees
  zero to three remote requests. Success is due at once, or after one or two
  responses.
  Two listeners can run callbacks at once, and the sweeper can time out any request.
  The run has 9,197 states.

- `MCBootstrap` uses local node 0 and peers 1, 2 and 3, all alive, with K = 3. Peer 1
  answers with 2 and 3, peer 2 with 1 and 0 (the local node, which `add` skips),
  and peer 3 with nothing. So one bootstrap node gives a second round, and an empty
  answer can finish the journey. `Boot` is `<<1>>` for the sweeper run and
  `<<1, 3>>` for the New run. `Timely` makes a deadline expire only when no
  answer to that request is on the wire or being handled, so neither trace uses a
  late answer. The violations do not need the network to misbehave.

Fairness. `Store` assumes weak fairness for each goroutine's steps: the caller's
loop, the remote handler, each listener and the sweeper. The sweeper wakes every
`refresh`, and the listeners read whenever a datagram is there. `Lose` has no
fairness, because the network need not lose anything.

Each property of a passing run has a mutant in `PROJECT.json`. A mutant is a
plausible bug in the mapped code that TLC shows the property catches.

## Findings

These are listed in `PROJECT.json` with the run that shows each one:
- Find can tell its user "value not found" and then deliver a value. A holder's
  response is counted out of `inflight` by `responseReceived` (part_003:450). Its
  values are registered by `addOutstanding` (481) in a later critical section.
  In between, a non-holder's callback on another listener sees `inflight` and
  `outstanding` at 0, and `finish(false)` reports not found (542). The holder's
  callback then delivers its first value. Its later values are dropped, because
  the journey has completed. Spec 4.6 reports not found only when no response is
  outstanding;
- a timeout can stall Find forever;
- a late pong racing the sweep blocks a listener or the sweeper forever;
- New's bootstrap blocks the cache sweeper forever, because sweeps of findNode
  callbacks send more errors than New reads;
- New can wait forever, because a journey that completed early gets routes whose
  timeouts send nothing;
- the latency router rates every node unreachable, because it measures while
  holding the bucket mutex that the listener needs to deliver the pong;
- a write after `Close`, or after any failed flush, indexes past the write batch
  and panics;

Two findings of earlier versions lost their run slot to the bootstrap runs. Both
fail after one step of a single goroutine, so a unit test reaches them:
- refreshing a bucket that is not full pings a nil slot and panics
  (bucket.go:221). `Bucket` still models the refresh of all K slots;
- storage cleanup deletes live values and keeps expired ones: the expiry test at
  storage.go:243 is inverted. `Storage` still models the test as the code has it.

Other observations while modelling have no run of their own:
- A transferKeys batch whose write fails makes `Iterate` return without unlocking
  the item (storage.go:221). The failure need not end in a panic: after a
  transient write error, the flusher can empty the batch before the next write.
  Every later Set of that key, the cleanup sweep and every later Iterate then wait
  forever. `storage_races` explores this state. A liveness check that every Set
  returns fails under `MCStorage.cfg` in 13 steps. No run slot is free for it.
- `next` sorts only the routes present when it is called
  (part_007:157). Routes added between two calls are ranked among themselves, so
  a later batch can be closer to the key than an earlier one. Spec 8's claim that
  lookups approach the key monotonically overlooks this.
- refreshKeys never re-stores anything. It reads each key with
  `Get(key, time.Now())`, which skips every value created before now (part_003:937).
  `Storage` models this, and a violation run showed it in an earlier version of the
  project. Its slot went to `Store`.
- Store can call its user back more than once (the TODO at part_003:319 says so).
  In `Store`, `Len(calls) <= 1` fails in four steps. A write error calls back and
  returns. The entry that `request` set before the write is still in the cache, and
  the sweeper then times it out with a second error. Further paths: one error per
  failed node, and success reported after an error.
- When the local node is not in `ns` (K remote nodes closer to the key), success
  is reported after K-1 of the K responses, and the last may still fail.
- closestN does not always return the closest nodes, a gap in spec 4.2. The scan
  visits the farther neighbouring bucket before the nearer one and stops at count.
  For example, with local 000, table {000, 001, 100}, key 010 and count 1 it
  returns 100, though 001 is closer. A violation run showed this in an earlier
  version of the project. Its slot went to the latency router and the write path.
- `Get(k, from)` (a Find with `ValuesFrom`, storage.go:145) counts the values
  created before `from` and skips that many from the front. The values are in
  arrival order, and replicas arrive out of created order. Take values stored as
  [created 1, created 0]: `Get(k, 1)` returns the created-0 value and drops the
  created-1 one. An invariant comparing `Get` with the values created at or after
  `from` fails under `MCStorage.cfg`. No run slot is free for it.
- While the router walks a bucket, the listener's read loop waits in
  `routing.seen` for up to one threshold per member. Every other packet on that
  socket waits with it.
- Find with an empty routing table returns without calling back. `closestN` always
  contains the local node, so the "no nodes found" branch never fires.
- The journey evicts the first farther route, not the farthest.
- Errors can reach the user twice (part_003:507).
- The sweep of an entry whose callback returned false removes the node that answered
  (part_003:446). Lookup's `Sweep` and `CbResponseReceived` produce this.
- Cached candidates are never promoted (bucket.go:119).
- The neighbour-id bug of part_003:532 is already in spec 9. Lookup models it.

## Not modelled yet, and the plan

Next sittings, most important first:
1. The monitor: its window test is inverted (part_003:719), and its callback removes
   the node on timeout.
2. The listener's request dispatch (pong, store), and `transferKeys`, which a
   handler error or a response skips. `Bootstrap` models the findNode handler and
   the read loop's insert of the sender. It does not model the key transfer to a
   new sender.

The project is at the limit of 12 runs. A new question needs a run slot freed, or a
passing run shared with a composed module.

Left out, with the reasons:
- the fragmenter, because `packet.go` is not in `src/`;
- the generated flatbuffers protocol, whose events are records here;
- leveldb storage, a thin wrapper over the library;
- socket setup (the batches and goroutines that `listen` starts are `Write`'s `Init`);
- the CLI, config and IPFS leftovers.
