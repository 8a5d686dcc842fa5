# Aloqa: TLA+ models and proofs

Aloqa is a self-hosted collaboration server in Go: chat, calls with a media
server (SFU), recordings, presence and search behind an HTTP API and a
WebSocket, over PostgreSQL, Redis, NATS JetStream and an object store. This
directory holds TLA+ models of its concurrent core, of its sessions, chat,
guests and meetings, TLC configurations that check them and TLAPS proofs.
All paths below are relative to the repository.

    tlc -workers 2 -config MCOutbox.cfg MCOutbox
    tlapm RealtimeOutboxProofs.tla

## 1. Inventory

| Component | State | Operations | Hard because |
|---|---|---|---|
| Realtime outbox: `internal/service/realtime`, `repository/postgres/realtime.go` | tables `realtime_events`, `event_consumer_cursors` | enqueue (in a domain transaction), claim, publish, mark published / failed, reset stuck jobs, replay a room | several workers on one table, leases, lost answers, crashes between publish and mark |
| WebSocket hub and handler: `internal/platform/ws`, `internal/handler/ws` | clients, rooms, send buffers, drop counts; Redis subscriptions and cursors | register, unregister, evict a session, subscribe, unsubscribe, broadcast, restore and replay, typing, signals | five kinds of goroutine, channels closed under a lock and used outside it, at-least-once delivery beside replay |
| Calls: `internal/service/call`, `repository/postgres/call.go` | `calls`, `call_participants`, the local media room | start, join, rejoin, leave, end, admit, reject, remove, role, settings, media, mute, media offer | decisions on rows read in earlier statements; READ COMMITTED transactions; events ordered by sequence |
| Recordings: `internal/service/recording` | `recordings` and artifacts, capture sessions in memory, spool directory, object store | start, stop, auto-stop, process, retry, legal hold, cleanup, tiering | two worker processes, partial failures over three stores, crash of the capturing server |
| Auth and sessions: `internal/service/auth` | session and refresh keys and a set of sessions per user in Redis, deferred touches in memory | login with a cap, refresh, touch, revoke one, others or all, list | read-modify-write over several keys; a record read earlier is written back |
| Presence: `internal/service/presence` | per-session presence, online shards in Redis | set, heartbeat, clear, aggregate | stale aggregation against a concurrent save |
| Media placement and relay: `internal/service/mediaops`, `repository/postgres/media.go` | node snapshots in Redis, placement and relay edge rows, relay observers in memory | heartbeat, place, token, offer at any node, relay, end | every node decides on snapshots and rows read earlier; requests land anywhere; packets outlive the call |
| SFU: `internal/media/sfu` | rooms, peers, routers, simulcast layers, observers | offer, join, publish, relay, subscribe, switch layer, observe, remove, close | pion's goroutines against requests; work that goes on after the lock is released |
| Chat: `internal/service/chat`, `repository/postgres/message.go` | messages, pins, reactions, channels and members, direct messages, idempotency records | send, edit, delete, pin, react, channel and member changes, paging | row, search job and event in one transaction for members, one by one for guests; retries |
| Search: `internal/service/search`, `repository/postgres/search.go` | index rows and a queue of jobs | enqueue, claim, apply, complete, fail, reindex | the queue's row is replaced while somebody works on it; a reindex beside the workers |
| Files: `internal/service/file` | attachments and stored objects | upload, delete | object store and transaction, one before the other |
| Guests: `internal/service/guest` | invites, grants, accounts | create, revoke, redeem | a redemption is several statements and a transaction that others wait for |
| Meetings: `internal/service/meeting` | invite links, guest seats | create and revoke a link, join, admit, leave | check on rows read before, count and insert afterwards |
| Breakout rooms: `internal/service/call/breakout.go` | rooms, the room each participant's row names, SFU rooms | create, join, return, close, close all | no transaction: rows, SFU and participants change one after the other |
| Notification, collaboration, admin, storage replication, observability, extensions, frontend | rows of their own, or none | mostly CRUD | few protocols of several steps |
| Platform: transactions, retry policy, pub/sub, storage, middleware | — | WithinTx, Do, Supervise, Publish, idempotency | lost answers and retries |

How they interact: a domain service writes its rows and an outbox row in one
transaction (or publishes after it); an outbox worker publishes to JetStream;
each node's subscription hands the message to the hub, which fans it out; a
reconnecting client has its rooms restored from Redis and replayed from the
outbox table. Ending a call closes its SFU room, and the closing room stops its
recordings, whose rows workers then process.

For each component, what makes it correct: a committed event is delivered at
least once and its row settles once (outbox); no closed channel is broadcast to,
slow clients go, a restored connection has no gap (hub); a call keeps its host,
ends for good, and its events tell its rows (calls); a ready recording has all
its objects and is not taken back, a stopped one is settled, a hold is respected
(recordings); everybody in a media room is sent what the room has, and no
connection is left open (SFU); a call stays on its node, its presenters meet there and
viewers elsewhere are sent everything once (placement); a user has no more
sessions than the cap and each that is listed can go on (auth); who stays online is
shown online, whoever aggregates beside it, and an eviction finds all there is of a
revoked session (presence); rows, search jobs, events,
index and stored objects agree in the end, and paging shows all there is (chat,
search, files); an invite lets in whom it may and no more, and only while it is
valid (guests, meetings); nobody is left in a room that was emptied and closed
(breakout rooms).

## 2. Modules

| Module | Role |
|---|---|
| `RealtimeOutbox` | the outbox in detail |
| `DurableQueue` | what it promises: an abstract at-least-once queue |
| `WSHub` | hub, handler and Redis state on one node |
| `CallLifecycle` | one call over its rows, transactions and locks |
| `RecordingPipeline` | recordings of one call, from capture to deletion |
| `MediaRoom` | one SFU room with its offers, tracks, relay and observers |
| `MediaCluster` | one call on several media nodes: placement, tokens, relay |
| `Sessions`, `Presence` | login sessions in Redis; presence on top of them |
| `SearchIndex`, `Chat` | the search queue and its workers; the requests that write rows, jobs and events |
| `Timeline` | paging through a channel or a thread |
| `GuestAccess`, `MeetingLinks` | guest invites and grants; guests who join a meeting by a link |
| `Breakouts` | the breakout rooms of a call |
| `RealtimeOutboxProofs`, `WSHubProofs`, `CallLifecycleProofs`, `RecordingProofs`, `MediaRoomProofs`, `PresenceProofs`, `ChatProofs`, `MeetingProofs` | the proofs of section 5; `MeetingProofs` has those of guests, links, breakout rooms and `MediaCluster` |
| `MCOutbox`, `MCHub`, `MCCall`, `MCRecording`, `MCRoom`, `MCCluster`, `MCAccess`, `MCChat`, `MCMeeting` | instances for TLC |

Operators marked `Mutation` in a module are faulty variants of the definition
after them. They are not part of the specification: replacing the definition by
its variant makes one of the properties fail, which shows that the property
depends on that line of the code.

### RealtimeOutbox

A row is `[status, seq, attempts, ready, expired]`: `ready` stands for
`available_at <= NOW()`, `expired` for `locked_at` older than five minutes; each
becomes true by a step (`BackoffElapsed`, `LeaseExpires`). `Enqueue`,
`CommitTx` and `RollbackTx` are the domain transaction: the sequence is drawn by
the INSERT and the row is visible at the commit, so sequences have gaps and
commit out of order. A worker's `pc` says where it is in `ProcessPending`:
`ClaimPending`, then per job, in sequence order, `PublishAcked` or
`PublishFailed`, then `MarkPublished` or `MarkFailed` with the consumer cursor.
Every database call may fail with or without effect, and the retry policy repeats it
after a lost answer: a repeated claim leaves the first batch without a worker, and a
repeated UPDATE (`RepeatPublished`, `RepeatFailed`) names its row by id, whatever has
become of it during the backoff. A worker may crash at any step. `sent` records which
attempt of which event the stream stored. `late` is a history variable: events whose
lease ran out while a worker held them, and those whose failure UPDATE took effect,
which releases the row, and will be run again. For these nothing is promised about
exclusion and finality, and the properties say exactly that.

### WSHub

`pc[c]` is the reader goroutine of a connection, from `Accept` over
`restoreSubscriptions` to `Unregister`. The hub lock makes every hub method one
step; `BroadcastToRoom` is two, since slow clients are removed after the read
lock is released (`toEvict`). The sends of the handler itself (`PushReplayed`,
`SendError`) are outside the lock and may meet a closed channel, which panics and
unwinds into `Unregister`. `stream`, `past` and `marked` follow an event through
JetStream, the node's subscription and the outbox row. `BodySequence` is 0:
`event.Prepare` marshals the body before the INSERT draws the sequence. Signals
between users (`handleSignal`, `SendToUser`) and the hub's per-user signal room
are left out; they drop and evict as `BroadcastToRoom` does.

### CallLifecycle

A request reads the call, its own row and, for some operations, a target row or
the list, each in a statement of its own; it then runs a *plan*, a sequence of
write statements. Join, leave and end run the plan in one READ COMMITTED
transaction: the rows written are kept in `req[r].tx` and locked until `Commit`.
The others commit each statement. An UPDATE by id changes what the row has become
meanwhile; a deleted row is not found. Abstractions: audio and video are one mute; a
presenter is a participant; `MuteOnJoin`, guests, and events about the call itself
(`call.ended` is in End's transaction) are left out; the branches for a nil
transaction manager are too, as `cmd/server` always sets one. A statement may fail;
the answer of a committed End may be lost, which leaves the media room open.

### RecordingPipeline

`row`, `spool`, `objects` and `capture` are the four places a recording lives
in. `StopRecording` and `autoStopOnRoomClose` take the same steps (take the
session, write `state.json`, UPDATE ... WHERE status = 'recording') and race.
Workers list, mark, load, upload one artifact at a time, finalize in one
transaction and remove the spool; on a failure they delete what they uploaded, as far
as the store lets them, and mark the row failed. Cleaners list expired rows and
delete objects, row and spool. A server crash loses captures, waiting goroutines
and requests. Histories: `orphan` (auto-stop lost with a fault), `unsure` (ready
transaction committed, its answer lost), `lateHold` (hold set while a cleaner had
the recording listed); each is an exception the code really has.
Quotas, audit rows, hooks and storage tiers are left out.

### MediaRoom

One action is one critical section of `Room.mu` or of a `SimulcastTrack`; what
runs between them is interleaved. A connection belongs to one media offer, which
takes the user's old peer out, waits until it is closed, adds the new one and
answers or fails (`offer`, `waits`). `closing` holds the connections some
`RemovePeer` or `Close` is about to close, `notice` the state callbacks pion has
still to run. `handler` is the program counter of each `OnTrack` goroutine and of
each first relayed packet, with the object it works on: a `SimulcastTrack` is
named by the track whose handler created it, because the room may have a new one
for the stream while an old handler goes on. `subs` is what a peer's sender for
a media id sends, `sinks` where an observer is attached. The adaptive controller
and the HTTP request are one action that asks for any layer at any time. `here`
never changes: it says which offers, tracks, observers, moves, failures and
whether a close come up in a behaviour, so that one instance checks many
situations without their product. Packets, SDP and RTCP are left out.

### MediaCluster

A request of a participant is a thread at some node (`req[u]`): the steps of
`EnsurePlacement` (`ListNodes`, `PruneMembers`, `GetPlacement`, `UpsertPlacement`
and the two statements of `ReplaceRelayEdges`, whose DELETE waits for the rows
another transaction has deleted), as often as its handler calls it (`then`), and
the answer: a room, a token, a peer, a closed room. `Candidates`, `Selected` and
`RelayNodes` are the selection of the code on a snapshot of loads; nodes are
numbers because equal loads are ordered by node id, and the checksum of the call is
the constant `Hash`. Each node runs `reconcileRelayObservers` as two reads and one
step under `Service.mu`; `sinks` says which relay sinks a track has, `wire` which
packets are on their way. A track is named by its presenter, who has one. Viewers
are counted by no limit, workspaces and the tables' metadata are left out, and the
room itself is that of `MediaRoom` with one step per operation. `busy` counts the
rooms of other calls on each node: `OpenOther` and `CloseOther` change it between any two
steps, so that selections, heartbeats and the check of capacity see a load that moves.
`here` is, as in `MediaRoom`, the situation, with the nodes (`shared`) on which other
calls come and go.

What the code does and no property forbids: `RemoveObserver` leaves the sinks on the
tracks there are, so that a removed relay node is sent their packets still, and twice
once it is a relay node again; a packet that comes late creates the room again
on a relay node after the end of the call; a node that is full, be it with the relay
room of this very call, is no relay node at the next request, and its viewers
get no new tracks; the edges of two requests that see different nodes may add up.

### Sessions and Presence

A Redis command, or one pipelined batch, is a step; a request is several of them and
keeps what it read in `op`. A stored session is the number of its current refresh
token, so that a stale write-back (`Touch`, the touch worker's flush) shows as
an older number. `List`, `Look` and `RevokeRead` are the loops over a
user's sessions of the cap, of the list and of the revocations, one record at a time;
`Skip` is an error such a loop logs and goes on from. `events` are the
SessionRevoked messages, of which a failing publish loses one, and `unchecked`
the users whose last cap check failed.

`Presence` extends `Sessions`: a tab is a session in a workspace, and saving it
writes the record and every index in one batch, after the request was authenticated. The
evictor reads the workspaces of a revoked session once and removes record by record;
a viewer's aggregation reads the index, looks at each record and lets the user join
or leave the online set by what it read. Records and sets lapse. Two histories say
what went behind somebody's back: `strays` are tabs saved while their session was being
evicted, `overtaken` those whose record was stored anew while an aggregation of their
user had read the index and not ended. `here` is the situation.

### SearchIndex, Chat and Timeline

A document is a message, a file or a channel and its text is a version number. There
is one job row per document, which `Enqueued` starts again whoever works on it;
claims take a lease, the settling UPDATE names the row by id, and a reindex empties
both tables in one transaction and then reads and writes kind by kind, row by row.
`raced` are the documents enqueued while somebody held an older copy.

A request of `Chat` is granted by reads of its own (`Begin`, `Step`), then writes its
row, which it keeps locked, and commits row, search job and event at once
(`EnqueueMessage`, `EnqueueChannel`, `EnqueueFile`, `ChangeMember`), or, for
guests and marks, changes the row, enqueues and publishes in three steps
(`GuestEnqueue`, `Mark`, `Publish`). An upload puts its object first, a removed
file's object goes last. `Abandon` is a failing statement or call or a server that
stops; a commit may lose its answer. `told` is what a client shows that applies the
events in order. The event of an edit is the whole message, with the pin the request
read before its transaction (`PinRead`, `Carries`, `Tells`), and the client merges both. The
histories `unsure`, `leaked`, `missed` and `crossed` name what such faults, or two
overlapping requests without a transaction, leave open; a pin overlaps with an edit
that carries an older one. The checks of roles
are left out, those of membership and authorship are in.

`Timeline` is the listing alone: the limit is clamped by handler, service and
repository, each asking for one more; a reader's `had` is what was there when it
began, `given` what it has been given. It shares no state with `Chat`.

### GuestAccess, MeetingLinks and Breakouts

A redemption (`redeem[s]`) reads invite, channels and account, each in a
statement of its own, then inserts account and grant and counts the use in one
transaction: the unique indexes make an INSERT wait for the open transaction with
the same key, the UPDATE of the count checks and locks the invite. The session
comes after the commit and may fail. A grant is the pair of invite and address.

A join by a meeting link (`joining[g]`) has no transaction: the link is checked on the
row read first, the seat is one INSERT whose count and row are two steps because
its snapshot is older than its row, and the use is counted last, by id. The status
a join writes when the call rings is left to `CallLifecycle`.

A request on breakout rooms (`task[d]`) reads call, room and its row, changes the SFU
and writes, each in a step. `left` and `quiet` are histories: rooms emptied, and
then closed, with nobody on the way in.

## 3. Runs

| Run | Instance | Shows |
|---|---|---|
| `outbox` (`MCOutbox.cfg`) | 2 events, 2 workers, batch 2, 2 attempts, 1 fault | `LeaseExclusive`, `SentWasClaimed`, `EventuallySettled`, and that the outbox implements `DurableQueue` (`ImplementsQueue`) |
| `hub` (`MCHub.cfg`) | 1 connection, 1 room, 2 events, buffer 2, 2 drops, replay limit 1, 1 fault | `RoomsAreLive`, `SlowClientEvicted`, `NoGapAfterRestore`, `RemovedConnectionEnds` |
| `replay_gap` (`MCReplayGap.cfg`) | 2 connections one after the other, 2 events | violates `ReplayFillsGap` |
| `call` (`MCCall.cfg`) | 2 members, a webinar (all four roles), open or with waiting room, 3 requests, 2 at a time, one media client, 1 fault | `CreatorHosts`, `OutboxTellsStatus`, `NoLockCycle`, `EndIsFinalForNewRequests` |
| `call_leave` (`MCCallLeave.cfg`) | joins and leaves only, no fault | violates `LastLeaveEndsCall` |
| `recording` (`MCRecording.cfg`) | 1 recording, 1 worker, 2 cleaners, 2 artifacts, 2 attempts, 2 faults | `MediaIsKept`, `HoldKeepsRecording`, `OutcomeIsFinal`, `RoomCloseEndsRecording`, `ProcessingSettles` |
| `recording_two` (`MCRecordingTwo.cfg`) | 2 workers, no fault | violates `MovesForward` |
| `room` (`MCRoom.cfg`) | 2 users, 4 offers, 2 layers, 1 observer, limits of 1, 9 situations | `Fanout`, `RecordedLayerIsSent`, `NoOrphanConnection`, `DeadConnectionEnds` |
| `cluster` (`MCCluster.cfg`) | 2 or 3 nodes, a presenter and a viewer, 2 to 4 requests, 2 rooms per node, 11 situations | `OnlyPlacementRelays`, `PresentersMeet`, `StaysPlaced`, `EdgeIsFed` |
| `access` (`MCAccess.cfg`) | 1 user, 3 session ids, 2 requests, cap 1, 3 tokens, 2 workspaces, 3 tabs, 8 situations | `SessionCap`, `ListedCanRefresh`, `EvictionFindsAll`, `SavedIsShown`, `OnlineIsShown` |
| `chat` (`MCChat.cfg`) | 2 messages and a guest's, 1 file, 2 channels, 2 requests, 2 workers, 2 attempts, 1 reindex, 2 faults, 2 versions, 19 situations; a reader over 4 message ids with limits 0 to 3, default 2, maximum 3 | `JobTellsRow`, `EventsTellRows`, `FilesAgree`, `IndexSettles`, `PagesCoverHistory` |
| `meeting` (`MCMeeting.cfg`) | 2 invites, 3 addresses, 2 redemptions; 2 members, 2 breakout rooms, 2 requests; 1 link of 1 use, 3 guests, 1 seat, 2 joins at a time | `UsesAreGrants`, `AccessNeedsActiveInvite`, `ClosedRoomIsLeft`, `LinkUses`, `SeatsBounded` |

The type invariants are not among the properties of the runs: they are proved
(section 5). Deadlock is not checked: every instance comes to rest when its events are
settled, its requests are used up or its recordings deleted.

### Why these bounds

* outbox: two workers are the least that can share a job; two events make a batch
  with an order and an abandoned rest; two attempts reach 'failed', the retry and
  'dead'. One fault is a crash, an error, a lost answer with the
  repeated claim or UPDATE, or an overrun; the proofs of section 5 lift all these bounds.
* hub: one connection with a buffer of two and two drops fills up, drains and fills
  again, is evicted, or is removed while it replays. Two events are one more than the replay
  limit. `replay_gap` has the second connection, one after the other; the proofs
  lift the bounds for the three invariants.
* call: two requests in flight are the least that interleave, and a third one
  sees what they left. Two members give host against host, host against member and
  a user against itself. `Cap` is 2, so capacity never refuses both; the race
  for a last place is in `MeetingLinks`. The request slots are symmetric; the one
  action property does not depend on which slot acts. All four
  properties are proved without bounds.
* recording: a recording touches no other one but for the check in
  `StartRecording`, so one is enough for the properties, which are about one
  recording each; two attempts give a retry and exhaustion; two faults, a
  failure during the recovery from a failure. With two workers
  `OutcomeIsFinal` and `MediaIsKept` fail as `recording_two` shows, so that the
  passing run has one worker: the deployment with `cmd/recording-worker` only,
  or without it. The proofs lift the other bounds, and for `HoldKeepsRecording`
  this one.
* room: a presenter with two offers and a viewer who then offers as a presenter
  give every kind of replacement, and limits of one every refusal. The
  situations (`Together`) pair what interferes: a plain and a simulcast track
  under the limit of tracks; the microphone, or the camera, published on one
  connection and again on the next; two layers with a subscriber, and with an
  observer; relayed media of one and of two layers; the second offer of the
  viewer. Failures and the close come up in those that stay small: they touch
  the peers and all tracks alike. `Fanout` accepts the dead sender that a
  handler leaves behind when its presenter was removed meanwhile: section 4. The
  three invariants are proved without bounds.
* cluster: two nodes, in one region or in two, give every answer of the selection
  that tells a node from its fellow, and a third one a choice of relay nodes. The
  situations (`Kept`) are a first placement, and placed calls with one kind of
  trouble each; in four of them other calls come and go on a node, and the
  limit of two rooms lets them fill it, or leave it, before, between and after the
  selections, heartbeats and relayed packets of this call. `StaysPlaced` leaves out
  what the code does not promise: a first placement that two requests select, and the
  step in which a read of the row fails (section 4). `PresentersMeet` and
  `OnlyPlacementRelays` need a placement that stays, and the first placement and the failing
  read come without media for that reason. Packets are
  kept as a set: one more of a kind on the wire changes nothing. The proofs lift the
  bounds.
* access: keys belong to one user or one session, so that users do not interfere; one
  more login than the cap, then two sessions whose end is raced. Three
  tokens are two rotations of one session. The tabs are two workspaces of one session, for
  an eviction that is half done, and two sessions of one user, for an aggregate.
  The four invariants are proved without bounds.
* chat: documents are independent of each other but for a file and its
  message, and two messages with one key. Two requests that overlap on a row are what
  a transaction has to survive; pins beside the edits of a member and of a guest carry
  the older pin; two attempts give a retry and a dead job; two
  faults, a failing call and a worker that crashes. Four ids and a limit of two make two full pages
  and a shrinking one; `ChatProofs` lifts these bounds, and those of the other
  invariants.
* meeting: two redemptions, two requests and two joins are the least that race; the
  third guest sees what the two left. All five properties are proved for any number.

### Fairness

* outbox: weak fairness of each worker's start and steps (`reliability.Supervise`
  restarts a stopped worker, the ticker runs a running one) and of the clocks.
  Nothing is assumed of transactions, publishes that succeed, or faults.
* hub: `Hub.Run` serves its channels; a reader whose connection was closed gets
  an error; the steps of a restore go on. Nothing is assumed of the write pump, a
  stalled client.
* recording: the goroutine that waits for a closed room runs on, a worker's ticker
  goes on, and a retry time passes. Users, cleaners and uploads need not do
  anything; a failed upload counts as a step.
* room: the steps of a media offer, the closing of connections, pion's callbacks
  and the rest of `Room.Close` go on. Requests, media and failures need not come.
* cluster: every node's `RunRelayFabric` goes on, a presenter keeps sending, relayed
  packets arrive. Failing reads of the relay fabric are steps while there are
  observers to lose; requests and heartbeats need not go on.
* access: a client that is online sets its presence again before its record lapses
  (the heartbeat), and a save that was begun ends. Nothing is assumed of evictor,
  viewers, events or the touch worker.
* chat: the supervised worker polls and goes on, leases and backoffs run out, a
  reindex that is not stopped goes on, and so does a guest's request that has
  written its row. Requests need not come; faults are bounded.
* call and meeting have no liveness property.

## 4. What the code does not do

The three violations are kept as runs; each shows a sentence of the repository
that the code does not keep.

* `replay_gap`: `docs/realtime-reliability.md` promises that replay fills the
  gap of a reconnecting client. The published body has no sequence (it is
  marshalled first), the replay cursor never moves, each restore replays the
  oldest events of the room, and with more of them than the limit the newer ones
  stay missing.
* `call_leave`: "If the last participant leaves, the call ends." Two who leave at
  once each see the other's uncommitted row as connected.
* `recording_two`: "Recordings move from `recording` to `processing` to
  `ready`." The worker of the server and that of `cmd/recording-worker` list the
  same row; the slower one takes a ready recording back, finds its spool removed,
  and after its attempts leaves it failed.

More disagreements and oddities, which the models have and no run is about:

* A job in two hands. `MarkFailed` runs its UPDATE under the retry policy
  (`service/realtime/service.go:215`). When it took effect and its answer was lost, the row
  may be claimed again, or be published, before the UPDATE by id is repeated; that
  takes it back to 'failed', with no lease overrun. The event is delivered once more.
* A late notice. "The peer's network path is broken. Remove them from the room" (`sfu/peer.go`):
  the callback removes the peer its user has when it runs. After a second media
  offer that is the new connection, and the notice is that of the old one, which
  the offer itself has closed.
* A moved call. "`sticky_edge` means the room stays on one serving edge once
  placed." `EnsurePlacement` takes a placement it could not read for none, since the
  repository's error is no `AppError`, selects again, by the load the nodes have by then, and
  overwrites the row; two first tokens that saw different nodes do the same ("the serving
  node becomes the sticky media edge for that room",
  `docs/media-cluster-architecture.md`). The presenters stay in a room the tokens no
  longer name.
* A full relay node. A node that other calls fill after it was chosen as an edge refuses
  the room (`sfu.go:245`); its viewers get nothing until one of those calls ends or the
  edges are chosen anew.
* A hidden client. An aggregation (`presence/service.go:305`) that found no record takes
  the session out of the index and the user out of the online set, although the record
  was stored anew meanwhile; the client is shown again by its next heartbeat
  (`SavedIsShown`, `OnlineIsShown`).
* An old pin. The event of an edit has the pin as it was before the transaction
  (`service/chat/service.go:860`), and `frontend/src/stores/messages.ts` merges it: a pin
  changed meanwhile is shown wrong until the message is loaded again.
* `UpdateMedia` promises that "Anything the caller didn't send keeps its
  current value" (`service/call/service.go:1090`), but writes all columns from a row
  read earlier: in `CallLifecycle` a mute by the host is lost to a concurrent patch.
* `EndCall` closes "the main SFU room, disconnecting all media peers" (line 1007) of
  the node it runs on; with the peers on another node they stay
  (`EndDisconnectsPeers` of `MediaCluster` fails for a call that ends elsewhere).
* The handler of a removed presenter may still create a stream; a layer published on
  the next connection then takes the place of the first one, and whoever was sent
  that keeps the dead track (`subs` has a feed the layer no longer has).
* One key, two runs. "Repeating the same request with the same key replays the stored response": two
  sends that overlap both run, and so do a send and its retry when the client
  left before the record was written (`KeyRunsOnce` of `Chat`). In the same way two first calls of
  `GetOrCreateDM` make two channels (`OneDM`).
* The last page. A limit of `MaxLimit` is clamped again in the repository, which
  takes away the row the service asked for in addition: the first page says it is
  the last one, and older messages are not shown.
* `AddParticipantIfCapacity` (`repository/postgres/call.go`) says that one statement
  eliminates the race between check and insert. Under READ COMMITTED two such
  statements see the same snapshot, and `SeatsBounded` needs the joins in
  progress in its bound. `LinkUses` does too, for a check on an older row.
* A guest whose session could not be created after the commit has a grant and no way
  in: redeeming again is refused because of the grant.
* A meeting join that read the call as ringing makes a call that has ended since
  active again, as `JoinCall` does.
* A join that has read a breakout room as open puts its participant into a room
  that was closed meanwhile (`ClosedRoomIsLeft` speaks of the others); and the
  media of participants goes to the call's own room whatever their row says,
  although `call/breakout.go:113` speaks of a room of its own.

## 5. Proofs

All theorems hold for every value of the constants under the named assumptions
of the modules: `OutboxAssumption` (positive attempts and batch size, a finite set of
events), `HubAssumption` (each connection has a key, each event a room; positive
buffer, drop limit and replay limit), `CallAssumption` (a finite set of users with
the creator among them; known kinds of request, sensible patches), `GuestAssumption`
(members have accounts, offers have uses), `BreakoutAssumption` (the main room is
none of the breakout rooms), `TimelineAssumption` (finitely many ids, which are
numbers; positive limits), `LinkAssumption` (positive bounds), `RecordingAssumption`
(positive numbers of artifacts and attempts, the server's workers are workers),
`SessionAssumption` (sessions have owners; positive cap and tokens), `PresenceAssumption`
(tabs, viewers and the evictor differ), `SearchAssumption` (messages, files and
channels have no id in common, attachments a message), `ChatAssumption` (messages have
authors and are no marks), `RoomAssumption` (a connection has an owner and a track a
sender, of the kind its origin allows; connections, tracks and track objects are told
apart; positive limits) and `ClusterAssumption` (finitely many nodes, which are numbers;
situations speak of nodes that are there; positive limits). The runs evaluate them.

`RealtimeOutboxProofs` proves `TypeCorrect`, `LeaseExclusiveAlways`,
`PublishedWasSentAlways`, `SentWasClaimedAlways`, `DeadIsExhaustedAlways` and
`SettledIsFinalAlways`. None of the properties is inductive by itself; `IInv`
adds to them:

* `HeldWasClaimed`: a job in hand belongs to a committed row and carries an
  attempt number of one of its claims, so that what a worker sends was claimed;
* `LeaseHolds`: while a worker holds a job that is not `late`, the row is 'processing'
  with that very attempt and an unexpired lease, or it already has the worker's own
  outcome, of an UPDATE whose answer was lost (`Recorded`: published, or dead). This is the
  heart: the claim takes only rows that are queued or expired, hence none in hand, and
  a late write can only come after an overrun or a repeated failure UPDATE;
* `AckedWasSent`: a worker about to mark its head job published has had it stored;
* `OneJobPerEvent`, `BatchEndsIdle`, `SequencesDiffer`: the head of a batch is one
  job, and a busy worker has one.

Each action has a step of its own, with one step per conjunct it can disturb;
actions that leave a conjunct's variables alone share lemmas. `SettledIsFinal` follows
from the invariant and the steps: an action that changes a settled row would hold
it, and `LeaseHolds` says that it is 'processing' or that the outcome is its own.

It also proves the refinement, `OutboxImplementsQueue`: under the mapping in
`RealtimeOutbox` (accepted = committed rows, delivered = events on the stream,
outcome = the settled status, late = late events) each step is one step of
`DurableQueue` on one event, or a stutter.

`WSHubProofs` proves `TypeCorrect`, `RoomsAreLiveAlways`,
`SlowClientEvictedAlways` and `NoGapAfterRestoreAlways`. `RoomsAreLive` is inductive with the shape: rooms gain
only registered members, and every removal clears both. The other two are not, and
`IInv` adds `PushHasRoom` (a reader that replays has a room; without it a restored
room might be none) and `NewIsClean` (before `Register` a connection is no client and
has no drops; without it a connection could be registered at the limit). A
broadcaster counts drops only with an empty `toEvict`, so that its last drop is
never forgotten for a later one. `NoGapAfterRestore` needs `GapInv`, which follows an
event of a restored room from the moment the hub has joined the room: until the reader has read
the rows, what is due was sent to the client or is marked, so that the rows have it
(`Replayable`); afterwards it was sent, is beyond the replay limit or is among what
the reader still pushes (`Delivered`). It holds because `Subscribe` comes before
`ReplayRoom`; the other way round, an event marked in between is in neither.

`CallLifecycleProofs` proves `TypeCorrect`, `CreatorHostsAlways`, `NoLockCycleAlways`,
`EndIsFinalForNewRequestsAlways` and `OutboxTellsStatusAlways`, for any number of members and of requests in
flight. What a step does to the tables was decided when its request made its plan,
so that no property of the tables is inductive. `CallInv` adds `Fits(q)`, what a
request may carry in each of its states: `OpFits` (which operations get there, and that
the creator acts as host), `PlanFits` (the statements by operation and position:
a transaction's row write names the caller's own row and comes before the
calls row, a call is activated only by a request that read it ringing) and `TxFits` (what
is written and not committed). A step of one request is then looked
at without the others. `CreatorHosts` follows since no statement takes the creator's
role or row away; `NoLockCycle` since a request that waits for a participant row
holds nothing; `EndIsFinalForNewRequests` since only `activate` brings a call back.
`OutboxTellsStatus` needs an invariant of its own, `OutboxInv`: the plan of a
transaction and what it has written say the same of the caller's row
(`Story`), a row written and not committed belongs to one transaction
(`RowLocksHeld`), and a transaction that has drawn its sequence has drawn it
above all that were told of its row (`SequencesGrow`). The last is why the row must be
written before the event is inserted: the lock orders the sequences.

`RecordingProofs` proves for any number of workers and cleaners `TypeCorrect`,
`HoldKeepsRecordingAlways` and `CaptureHasRecordingAlways`, and `MediaIsKeptAlways` and
`OutcomeIsFinalAlways` for deployments with one processing worker. The hypothesis
`OneWorker` is needed: `recording_two` shows both fail with two. The proofs rest on what a step
may do to one row (`ByOthers`, `ByWorker`), so that each invariant is looked at by
ten kinds of row change instead of some thirty actions. `CaptureInv` says what may be
listed or stopped: there is no row before the commit that ends a start
(`StartedRow`), a stop that is past `CaptureManager.Stop` has no capture and gets none
(`StoppersFit`), and nothing that is still recorded is listed (`ListedIsOver`).
`HoldIsLate` takes in, besides the deleted recordings on hold, those a cleaner has
listed. `MediaInv` says what the worker's program counter stands for: with `upload`
at artifact n the first n are stored, unless a cleaner was at the expired recording
meanwhile; with `clean` the row is ready; with `fail` it is still
processing, or the lost answer of `FinalizeFails` made it ready (`HandFits`); what it
has listed and not in hand may still be processed (`BatchFits`). Without `BatchFits`
the attempt marked next could be one on a ready row, which is what a second worker does.

`MediaRoomProofs` proves `TypeCorrect`, `NoOrphanConnectionAlways`, `FanoutAlways` and
`RecordedLayerIsSentAlways`, for any number of participants, connections, streams, layers
and observers, and whatever comes up together. Most handlers take the room's lock
several times, and the invariants say what is still to be done between two of them.
`ConnInv` says of an open connection that it is in one place: in the room, about to
be added, taken out and about to be closed, or dying; a closed room has nobody.
`FanoutInv` says whose work a stream is: its object was put there by a handler
that is still working on it or is done (`ObjInv`), and once that one is done, the
object has a layer and everybody in the room a sender (`Given`). So a
peer who joins while layers are added is served either by the handler or by its own offer.
The exception of section 4, a handler that works on an object `RemovePeer` has closed,
is a case of `ObjInv` of its own.

`PresenceProofs` proves `TypeCorrect`, `SessionCapAlways`, `ListedCanRefreshAlways`,
`EvictionFindsAllAlways` and `SavedIsShownAlways` for any number of users, sessions,
tabs and requests.
A session goes through three ages: nobody holds anything of it before its keys are stored
(`StoredOnce`), then the keys are there as long as it is listed (`ListedIsStored`), and a
session that left the list never comes back, whatever stale record is written back. `SessionCap`
is about every state, not only those without a login: a user over the cap has
a login in progress that has still to count, or is looking at all live sessions, or
will revoke all of them that are too many (`Covers`). `EvictionCovers` says that a
tab with a record is in the index of its session and, while that session is
evicted, in what the evictor has still to do, or is one of the `strays`. `ShownKept` adds to
`SavedIsShown` what an aggregation under way may still take away: of a record that is
not `overtaken`, it has still to read the key or has found it (`Sees`), and
so will neither forget the session nor settle its user as offline.

`MeetingProofs` proves, of `GuestAccess`, `UsesAreGrantsAlways`, `AdmittedIsGrantedAlways` and
`AccessNeedsActiveInviteAlways`. `GuestInv` adds what the locks give: two open
transactions never insert the same grant and what one inserts is not there yet
(`Inserted`), and who has counted a use holds the row of an active invite with a use left
(`Held`). Without `Inserted` a use could be counted for a grant that exists.

It proves of `MeetingLinks` `LinkUsesAlways` and `SeatsBoundedAlways`. Both checks
are made on what was read, so `LinkInv` counts with the uses the joins that may
still use the link (`UsesCounted`), and with the guests in a seat those about to sit
down (`SeatsCounted`); `FewJoin` bounds the joins in progress.

It proves of `Breakouts` `ClosedRoomIsLeftAlways`: what a request has emptied stays
empty as long as no join is on its way (`EmptiedStays`), and a closed room lets
nobody begin one (`QuietStays`).

It proves of `MediaCluster`, for any number of nodes, participants and situations,
`ClusterTypeCorrect`, which has no hypothesis, and `OnlyPlacementRelaysAlways` and
`PresentersMeetAlways` for behaviours that satisfy `PlacementKept`: a request, a token or a
round of the relay fabric acts on a placement it read some steps ago, so that neither
invariant survives a placement that moves. `RequestsFitPlacement` says for each step of a
request what the placement in its hand stands for: before the upsert it is the row's
only if it was found there, from the upsert on it is the row's; a presenter who is to be let in
is at the node of the call. `RelayFits` says that edges lead away from that node
and that it alone has read or applied any. A first placement is no exception: before it
nothing of the kind exists (`FirstPlacement`). That the hash always has a node to pick (`RankIs`)
is a pigeonhole argument on the order of the snapshots.

`StaysPlacedAlways` has no hypothesis: a placement that no request is about to overwrite
(`Agreed`) is kept in every step but a failing read, because a request writes back what it
found (`AgreedStep`), however the load has changed since. `PlacedCallsMeet` puts the two
together, by `PlacementStays`: calls that are placed and whose row can be read
(`PlacedAndRead`) satisfy `PlacementKept`, so that their presenters meet and only one node
relays, with moving loads, stores that fail otherwise, late heartbeats, restarts and lost
connections. Both conditions are needed (section 4).

`ChatProofs` proves, of `Chat` with its queue, `TypeCorrect`, `JobTellsRowAlways`,
`EventsTellRowsAlways` and `FilesAgreeAlways`, for any number of requests, workers and
faults. The invariant says what a request that is about to write may count on: who
creates a row finds none and is alone in doing so (`NewRow`, `OwnRow`), who updates
one has it locked, and it is there (`OneHolder`, `HeldRow`); without them a second
commit could enqueue a version the row no longer has. `JobTellsRow` follows, since a
claim, a retry, a completion and a reindex leave a job the version it has. `EventsFit` and `FilesFit` count,
with what was told and stored, what requests under way still have to tell (one request
for each message or mark, with the version of the row) and to delete; `MarksFit` says
that what an event under way carries of a pin is the pin there is, unless they overlapped.

It proves of `Timeline` `PagesCoverHistoryAlways` for all sets of ids and all limits below
`MaxLimit` (at `MaxLimit` it is false, section 4). The
invariant says what a cursor stands for: of the messages there were when the reader
began, those at or after it were given or deleted (`GivenDownTo`). A page that is not
the last keeps that because `Newest` selects a set closed upwards; the last one ends
it because a selection that is not full leaves nothing out.

The library theorems used are those on finite sets and on well-founded relations.

Only model-checked: liveness (`EventuallySettled`, `RemovedConnectionEnds`,
`RoomCloseEndsRecording`, `ProcessingSettles`, `DeadConnectionEnds`, `EdgeIsFed`,
`OnlineIsShown`, `IndexSettles`), which the proof system does not treat under
fairness. Every invariant and every action property of a passing run is proved;
`OnlyPlacementRelays` and `PresentersMeet` under the hypothesis named above; without it neither
holds.

## 6. Not modelled

Parts with the reason are listed in `PROJECT.json`. In short: notification,
collaboration and admin services, which are single statements on rows of their own;
observability, which reads; HTTP decoding, configuration and extension wiring; the
frontend. Of the modelled parts: roles and capabilities beyond membership, authorship
and the roles of a call; contents of tokens, passwords and passcodes; quality
policies and the adaptive controller (any layer at any time in `MediaRoom`); RTP, SDP
and files on disk; storage tiers, quotas and audit rows of recordings; search
queries and ranking; signals between users. Branches for a server
without a transaction manager are left out, as `cmd/server` always sets one.

## 7. Plan

Done, with proofs of all their invariants: outbox (with its abstract queue), hub, calls,
recordings, sessions and presence, chat, search queue and files, paging, guests, meeting links
and breakout rooms, media rooms, media placement and relay.

1. First placements and moved ones with media, and what the participants of a call see
   until everybody has taken a new token.
2. An abstract specification of `RecordingPipeline`, "a ready recording has its media",
   and of `Chat` with its queue, an index that follows the rows, each with its refinement
   proved.
3. Storage tiers, quotas and a second app node in `RecordingPipeline`.
4. The adaptive controller that chooses a layer for `MediaRoom`; the frontend's
   merging of optimistic and received messages.
