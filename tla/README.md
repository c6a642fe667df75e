# A verification development for FreeCraft

TLA+ models of parts of FreeCraft (a voxel game engine, a client and a server in
C++ under `src/src/`), model-checked with TLC; their safety properties and the
refinements of their abstract specifications are proved with TLAPS. The models are
written from the code; where a document or comment says something else than the
code does, the section *Disagreements found* says so.

1. [The system](#1-the-system) – inventory of components, their state, hazards
2. [Plan](#2-plan) – what is modelled, in which order
3. [The reliable channel, split messages](#3-the-reliable-channel-split-messages)
4. [The emerge threads](#4-the-emerge-threads)
5. [The peers of a connection](#5-the-peers-of-a-connection)
6. [Clients and players](#6-clients-and-players)
7. [Sending blocks](#7-sending-blocks)
8. [Runs and bounds](#8-runs-and-bounds)
9. [Proofs](#9-proofs)
10. [Disagreements found](#10-disagreements-found)
11. [What is not covered](#11-what-is-not-covered)

To check a run: `tlc -config ReliableChannel.cfg ReliableChannelFifo.tla`; to check
proofs: `tlapm ReliableChannel_proofs.tla`. `PROJECT.json` lists every run, the
mutant that each property is known to catch, the source lines of each
definition, the hazards and the theorems.

## 1. The system

A server process runs a server thread (`ServerThread`, `AsyncRunStep` and packet
handlers, under `m_env_mutex`), emerge threads, one send and one receive thread
of the network connection, and workers for asynchronous scripts. A client has
the same connection threads, a mesh thread and the main loop.

| component | state | operations | what is hard | what makes it correct |
|---|---|---|---|---|
| **Sequence numbers, packet buffer** (`network/connection.h`, `.cpp`) | `ReliablePacketBuffer::m_list`, 16-bit numbers | `seqnum_higher`, `seqnum_in_window`, `insert`, `popFirst`, `popSeqnum`, `findPacket` | order on numbers that wrap around | a buffer is sorted by age |
| **Reliable channel** (same) | `Channel`: `queued_commands`, `queued_reliables`, `outgoing_reliables_sent`, the next numbers, `window_size`, `incoming_reliables` | commands become numbered packets, are sent, re-sent, acknowledged, reordered, handed over | loss, duplication, delay, reordering; time-outs; numbers used again; a command that finds too few numbers | messages arrive in order, each once, none lost |
| **Split packets** (same) | `IncomingSplitBuffer`, split numbers | split, insert, time out | incomplete messages whose number is used again | a message is put together from its own pieces |
| **Send thread** (same) | `m_outgoing_queue`, `m_command_queue`, the packet quota | `runTimeouts`, `processCommand`, `sendPackets`, `rawSendAsPacket` | unsigned quotas, packets that pass the queue, stopping | everything queued is sent before the thread stops |
| **Peer table and life time** (same) | `m_peers`, `m_peer_ids`, use counts, the event queue | `createPeer`, `lookupPeer`, `deletePeer`, `Drop`, `SET_PEER_ID`, `DISCO` | a repeated first packet, deletion against use in another thread | one peer an address, freed once, when unused |
| **Emerge threads** (`emerge.cpp`) | `m_blocks_enqueued`, `m_peer_queue_count`, one `m_block_queue` and event a thread | `enqueueBlockEmergeEx`, `popBlockEmerge`, `getBlockOrStartGen`, `finishGen`, callbacks, start, stop | three locks, wake-ups, two threads on one chunk | no request lost or served twice, answers are true, clients get the new blocks |
| **Block sending** (`clientiface.cpp`, `server.cpp`) | `RemoteClient`: `m_blocks_sent`, `m_blocks_sending`, `m_blocks_modified` | `GetNextBlocks`, `SentBlock`, `GotBlock`, `SetBlock(s)NotSent` | an acknowledgement of an old version | a client has the current version of each block in the end |
| **Client states** (`clientiface.cpp`, `serverpackethandler.cpp`) | `RemoteClient::m_state`, the player list | `notifyEvent`, `CreateClient`, `DeleteClient`, `TOSERVER_*` handlers | packets before the peer event, a leave during the handshake | active clients have a player, denied ones get nothing |
| **Inventory actions** (`inventorymanager.cpp`, `inventory.cpp`) | `InventoryList` | `IMoveAction`, `IDropAction`, `ICraftAction` | unsigned counts, callbacks that change the lists | items are neither made nor lost |
| **Active and static objects** (`environment.cpp`, `staticobject.h`) | `m_active_objects`, the static lists of blocks | `addActiveObjectRaw`, `activateObjects`, `deactivateFarObjects`, `removeRemovedObjects` | an object and its stored copy | an object is stored once or active once |
| **Map blocks** (`map.cpp`) | sectors, blocks, modified flags | load, save, `timerUpdate` | saving that fails while others unload | nothing modified is dropped unsaved |
| **Request queue, containers** (`util/thread.h`) | `RequestQueue`, `UpdateThread` | `add`, `pop`, `pushResult` | a lock released between test and insertion | a caller gets the result it asked for |
| **Asynchronous scripts** (`s_async.cpp`) | job and result queues | `queueAsyncJob`, `step` | several workers | each job answered once |
| Liquids, server main loop, client, rollback and databases, map generators, path finder, crafting, settings, scripting glue, GUI, sound | | | sequential code on large data, or I/O | not modelled (section 11) |

How they interact. The server thread gives commands to the connection
(`m_command_queue`), the send thread turns them into packets, the receive thread
of the other side hands messages to its user through an event queue. Packet
handlers and `SendBlocks` ask the emerge manager for blocks; emerge threads change
the map under `m_env_mutex`, call scripts, and mark blocks as not sent in the
`RemoteClient`s under the lock of the clients; `SendBlocks` then sends them through
the reliable channels. The hazards at the lines where they bite are listed in
`PROJECT.json`; each names the properties that cover it, or the plan for it.

## 2. Plan

Done, in this order:

1. `SeqNum`, `PacketBuffer` – pure operators, with the theorems on them;
2. `ReliableChannel` with `MessageFifo` (abstract) and `ReliableChannelFifo`
   (refinement, fairness); `ReliableChannelInvariant`, the inductive invariant;
3. the proofs: `PacketBuffer_proofs`, `ReliableChannel_proofs` (with the refinement);
4. `Emerge` with `EmergeArea` (abstract: what a script is promised); `Emerge_proofs`,
   its safety and the refinement;
5. `Peers` with `PeerEvents` (abstract: what the user of a connection is told) –
   the life time of peers in three threads, and the parts of the send thread that
   look at peers: time-outs, the queue of unreliable packets and ACKs, stopping;
   `Peers_proofs` (life time) and `Peers_safety` (addresses, and the refinement);
6. `Sessions` with `PlayerSessions` (abstract: what scripts are told of players) –
   the handshake, joining and leaving; `Sessions_proofs`, its safety and the refinement;
7. `BlockSending` – one client, several blocks, versions; `BlockSending_proofs`, its safety;
8. `SplitBuffer` – messages longer than a packet, reliable and unreliable ones sharing split
   numbers, with `MessageFifo` as their abstract specification again; `SplitBuffer_proofs`, its
   safety and the refinement.

The models stack without being composed into one: `SplitBuffer` takes from `ReliableChannel` that
reliable packets come in order and none is lost (`InOrder`), `BlockSending` and `Sessions`
take from `ReliableChannel` that each channel is in order and loses nothing
(`MessageFifo`), `Sessions` takes from `Peers` the order of the events about a peer
(`PeerEvents`), and `BlockSending` has the emerge threads only as `FinishGen` and
`SetBlocksNotSent`, the two steps of `Emerge` that touch a client.

To come, most important first:

9. `rawSendAsPacket` on channel 0 of `ReliableChannel`, and the size of the quota.
10. `InventoryMove`, `ActiveObjects`, `MapUnload`: conservation of items, of objects
    and of modified blocks.
11. Theorems: the safety of 10.

Modules that theorems speak of declare nothing RECURSIVE; what the code computes
with a loop over a list is a quantified or `CHOOSE`n position (`InsertPosition`).

## 3. The reliable channel, split messages

`SeqNum` has the numbers and the two comparisons, with `SEQNUM_MAX` a constant that
only has to be odd. `PacketBuffer` has the list of packets of
`ReliablePacketBuffer`; `insert` finds the position the loop of the code finds.

`ReliableChannel` is one direction of one channel between two peers. The sender's
variables carry the names of `Channel`'s members, the receiver's too. Three
history variables have no counterpart: `submitted`, `sent` (the packet each number was
given to; a packet's `idx` is its place there) and `delivered`.

| action | code |
|---|---|
| `PutReliableSendCommand(n)` | `UDPPeer::PutReliableSendCommand` with `processReliableSendCommand`: number at once or queue the command |
| `RunCommandQueues` | `UDPPeer::RunCommandQueues`, one command |
| `SendQueued` | the loop over `queued_reliables` of `sendPackets`, one packet, with `sendAsPacketReliable` |
| `Resend` | `runTimeouts`, one packet whose timer ran out |
| `UpdateWindow`, `setNonLegacyPeer` | the window of a legacy peer in `runTimeouts`, `Channel::UpdateTimers`, `UDPPeer::setNonLegacyPeer` |
| `ReceiveAck` | `processPacket` for `CONTROLTYPE_ACK` |
| `Receive`, `Unbuffer`, `ReceiveOther` | `receive()`: `packet_queued` set on entry, buffers emptied, cleared by another datagram |
| `ReceiveNext`, `ReceiveAhead`, `ReceiveOutside` | `processPacket` for `TYPE_RELIABLE`, its three cases |
| `Lose`, and `keep` in the others | the network: a datagram is dropped, or a copy of it stays |

Abstractions. A packet is its number and its `idx`; data, checksums and base
headers are left out. A timer may run out at any time; round-trip times, loss rates
and the step of the window they choose are nondeterministic over the code's steps. A command of
`n` chunks takes `n` numbers: `HaveSequenceNumbers` and `NumberPackets` are
one step although ACKs may remove packets between two
numbers; each ACK only makes later tests easier, so the step as a whole does nothing that it
could not do with the ACK before or after it. ACKs wait in the command queue of the
receiver before they are sent: this is part of their transit. A datagram lives while at most
`Lifetime` further packets are numbered (`Alive`): without some such bound no
protocol with finite numbers works. On channel 0 `rawSendAsPacket` also takes numbers, for
pings, `SET_PEER_ID` and `ENABLE_BIG_SEND_WINDOW`; the model is of a channel
where it does not (plan item 9).

Properties.

* `InOrder`: packets are handed to the user in order, each once, none skipped.
* `NothingForgotten`: a packet the sender no longer keeps has reached the receiver.
* `OutstandingBounded`: how far the numbers run ahead of the oldest packet outstanding.
  The bound `Limit` is two more than the window: the test of
  `getOutgoingSequenceNumber` lets in one number too many before the wrap and
  two after, and a long command passes when nothing is outstanding.
* `ListsSorted`: both buffers are sorted by age, which the window test relies on.
* `ReceiverJudgesRight`: a datagram of a packet already handed over is never taken for new.
* `NumbersUnambiguous`: two packets with one number never meet, so neither an ACK takes the
  wrong packet nor is `IncomingDataCorruption` thrown.
* `ImplementsFifo`: messages (commands, complete with their last packet) come out as they went
  in; refinement of `MessageFifo` under the mapping `accepted <- <<1..submitted>>`,
  `handed <- HandedCommands`.
* `EveryMessageArrives`: with fairness, every message comes out.

Fairness (`ReliableChannelFifo!Fairness`). Send and receive thread loop with a time-out of
50 ms until they are stopped, and each turn of the send thread has a new quota (weak fairness of
`RunCommandQueues`, `SendQueued`). A ping every `PING_TIMEOUT` makes `receive()` run even when the user
sends nothing (`Receive`, `Unbuffer`). `runTimeouts` re-sends each packet at each
time-out (`Resend`). The network does not drop every copy of something sent again and
again (strong fairness of the arrival of each packet and each ACK). Nothing is assumed of `UpdateWindow`.

### Split messages

`SplitBuffer` is what lies above the packets: messages are split into them and put together
again. The sender's next split number, and the incoming number that unreliable messages
take instead of it, are the members of `Channel`; `m_buf` is that of `IncomingSplitBuffer`. A message is
known by its place among the reliable or unreliable ones, its pieces by their places in it.

| action | code |
|---|---|
| `SendReliable(n)` | `processReliableSendCommand` for a message of `n` pieces |
| `FailToSendReliable` | the same when there are too few sequence numbers: the split number is used up |
| `SendUnreliable(n)` | `ConnectionSendThread::send` with `getNextSplitSequenceNumber` |
| `ReceiveFromPeer` | `incNextIncomingSeqNum` of the sender, for packets that come the other way |
| `ReceiveReliable`, `ReceiveUnreliable` | `processPacket` for `TYPE_ORIGINAL` and `TYPE_SPLIT`, with the whole of `IncomingSplitBuffer::insert` |
| `CollectTimedOut`, `RemoveTimedOut` | `removeUnreliableTimedOuts`, one step for each hold of `m_map_mutex` |
| `Lose`, and `keep` | the network, for unreliable packets |

Abstractions. Reliable packets come in the order they were sent (`InOrder` of `ReliableChannel`).
`processReliableSendCommand` splits and queues in one step, as only the send thread does it. An entry may
time out at any moment. Sizes are left out: a missing chunk in `fulldata` is empty, while the code, which
sums up the sizes of the chunks there are, leaves the bytes behind the last one as they are; a message
of no bytes, which the code takes for an incomplete one, is not modelled; nor are the `u16` of the chunk
numbers, whose range no message reaches, and raw commands.

Properties.

* `TypeOK` says, besides types, that an entry with all its chunks never stays in the buffer.
* `WholeOrShared`: what comes out is a message that was put in, with all its pieces, unless a
  message it is made of shares its split number with another one. `insert` counts chunks and
  looks neither at the kind of packet nor at its `chunk_count`; this is what that is worth.
* `FifoWhileShort`: as long as no unreliable message was longer than a packet (`NoneLong`), each step is one of
  `MessageFifo` or changes nothing of it: the reliable messages come out whole, in order and each once. It
  is so although split numbers wrap, are used again after a failure, and jump when an unreliable message
  was sent.
* `UnreliableDiscarded`: no unreliable entry stays for good, also one that a late copy of a packet
  makes when its message is already complete.

Fairness: the send thread calls `removeUnreliableTimedOuts` at each turn for each channel and finishes
it (weak fairness of `RemoveTimedOut`); an entry whose time is over is collected at one of the turns,
though a turn may be busy with others before (strong fairness of `CollectTimedOut` with its number).

## 4. The emerge threads

`Emerge` models the manager, its threads, and what they do to map and clients. A step is what a thread does
under `m_queue_mutex`, or under `m_env_mutex`, or alone between two locks; the test of the
request to stop is joined to the next step of the same thread, with which it commutes.
Block positions are integers, one of the three coordinates, with the arithmetic of
`getContainingChunk` and of the limits; `nthreads` is a variable that only `Init`
chooses, so that one run has one and two threads.

| action | code |
|---|---|
| `Request` | `enqueueBlockEmerge` from `GetNextBlocks`, from the dig handler, from `getBlockOrEmerge` |
| `StartEmergeArea`, `EmergeAreaBlock` | `l_emerge_area`: the shared state, then one block after the other, under `m_env_mutex` |
| `AddToEntry`, `AddEntry`, `WithinLimits` | `pushBlockEmergeData`, `getOptimalThread` |
| `Signal`, `Wait` | `Event::signal`, after the queue lock was released, and `Event::wait` |
| `Pop`, `PopNothing`, `EndRun` | the head of the loop of `EmergeThread::run` |
| `GetFromMemory`, `GetFromDisk`, `StartGen`, `GetNothing` | `getBlockOrStartGen` |
| `FinishGen` | `makeChunk` and `finishGen` with `finishBlockMake` and `blitBackAll` |
| `LoadRefcount`, `StoreRefcount`, `Report`, `DeleteState` | `LuaEmergeAreaCallback` and `on_emerge_area_completion`; the decrement without a lock is a load and a store |
| `SetBlocksNotSent` | `Server::SetBlocksNotSent`, under the lock of the clients |
| `startThreads`, `Shutdown`, `stopThreads` | `AsyncRunStep`, `~Server`, `EmergeManager` |
| `SendBlock`, `Unload` | `SendBlocks`, `Map::timerUpdate`, as far as they matter here |
| `DeleteArea`, `SendMapEdits` | `l_delete_area` with `ServerMap::deleteBlock`; `AsyncRunStep` emptying the queue of map edit events |

`there`, `generated` and `memory` are the blocks that exist, those of them that are generated, and those of
the latter in memory. `delete_area` takes any blocks out of all three, in the server thread or in
a callback in an emerge thread, also while their chunk is generated: `finishBlockMake` writes back
only blocks that are there. `held` and
`stale` are the blocks each client has, and has in an old version or although they were deleted;
`m_unsent_map_edit_queue` has the deleted blocks of the events not yet sent, `deleted` is history. What a block
contains is not modelled. A state that was freed keeps its last values for a thread that still reads
it: one of the outcomes that the build can produce.

Properties.

* `QueuesMatch`: an entry of the manager and a slot in one thread's queue go together.
* `PeerCountsRight`: the counts are of the entries a peer asked for first, and below the limits.
* `ClientsCurrent`: if a client has an old version of a block, some thread is about to mark it
  as not sent, or a map edit event is. Between `finishGen` and `SetBlocksNotSent` no lock is held.
* `CallsCounted`: with one thread, each callback is told how many blocks of the area are unanswered;
  the state they share is freed once when all were answered, and then no entry and no thread has it. It is
  not said that the callbacks come: if a block is over the limit, or the server stops, some do not, and the
  state is never freed (section 10).
* `UnsentUntilGenerated`: with one thread, and unless a block of the chunk was deleted before, no block of
  a chunk being generated has been sent, the reason `finishGen` gives for ignoring map edit events. It
  fails with two threads, because `initBlockMake` does not look whether the chunk is being generated, and
  after `delete_area`, because it does not look whether the rest of the chunk is there.
* `ImplementsPromise`: refinement of `EmergeArea`: a script is answered at most once for a block
  it asked for, and a block said to be there is, or was until it was deleted.
* `EveryCallAnswered`, `ThreadsEnd`: no wake-up is lost, before and during the stop.

Fairness: each step of an emerge thread, of the server thread in the middle of a call, and of
stopping is weakly fair: all locks are released after finitely many steps, and `AsyncRunStep` starts the
threads within two seconds. Nothing is assumed of requests, of sending, of unloading and of deleting.

## 5. The peers of a connection

`Peers` models the table of peers and the objects in it, as the receive thread, the
send thread and the user's thread use them. A peer is the number of its
making; `m_peers` maps ids to peers, so that an id that is used again and a peer that is
erased but not yet freed are told apart. What is under `m_peers_mutex` or under the mutex of a
peer is one step; a thread that holds a `PeerHelper` holds it from one step to another.

| action | code |
|---|---|
| `Receive`, `CreatePeer`, `GetPeer` | the head of `receive()`: the id in the packet, `lookupPeer`, `createPeer`, the peer is got and compared with the address |
| `PeerGone`, `Data`, `PutData`, `Disco`, `Release` | `processPacket()`, which gets the peer again, and the end of the turn |
| `Begin`, `NextPeer`, `TimedOut`, `NotTimedOut`, `NoPeers` | the loops of `runTimeouts()` and `sendPackets()` over a copy of the ids |
| `Command`, `OfferId`, `MarkDisconnect` | `processReliableCommand`, `rawSendAsPacket` of `SET_PEER_ID`, `disconnect_peer` |
| `Quota`, `QuotaOfNone` | the quota of each peer, divided by the number of peers |
| `Outgoing`, `Keep`, `RawSend` | the loop over `m_outgoing_queue`, with the second look-up in `rawSendAsPacket` |
| `DeleteChosen`, `PutRemoved`, `Drop` | `deletePeer`: erase, event, `Peer::Drop`, three steps of the thread that does it |
| `DisconnectPeer`, `GetPeerAddress`, `GotPeerAddress` | the user's calls, with ids that may be out of date |
| `Stop`, `ReceiveEnds`, `SendEnds`, `Destroy` | `~Connection` |

Abstractions. Events go through a queue with one reader; since nothing in the connection depends on
when it is read, an event is told when it is put. The `PeerHelper`s of
`processPacket` and `rawSendAsPacket` begin and end while their caller's exists, and are left
out. A datagram is data or `DISCO`, from an address, with the id that its sender has or with
none; late first packets are datagrams without an id, which a sender that has one may
still have on its way. Split messages, the packets waiting to be put in order and the window are
left to the other modules; `queued_commands` is not looked at when the thread ends.

Properties.

* `NoUseAfterFree`: who has a peer, or can still get it, has one that was not freed; none is freed
  twice; the use count is the number of users. `Drop` and the last `DecUseCount` decide in
  different threads who frees it.
* `NothingLeaked`: a peer out of the table that nobody uses was freed.
* `OnePeerEach`: an address has at most one peer that uses its id and one that does not;
  `lookupPeer` skips the first kind.
* `ImplementsPeerEvents`: refinement of `PeerEvents`: a peer is announced, then has data,
  then is reported removed, whichever threads put the events.
* `AllGoneInTheEnd`: every peer is removed, told of and freed in the end, or the program was stopped
  and that ended, or it failed. It fails in two ways: `rawSend`, the
  run `peers_raw_send`, and `quota`, section 10.

Fairness: both threads loop with time-outs, so their steps are weakly fair, as is the end of
each call of the user and of the destruction. `TimedOut` is strongly fair: a peer that is no longer
heard of has its timer run out at some turn. Nothing is assumed of datagrams and of the user.

## 6. Clients and players

`Sessions` models the server thread with the clients and players, the events of the
connection, and the client program as far as it says what an honest client sends when.

| action | code |
|---|---|
| `ShortStep`, `LongStep` | `AsyncRunStep`: it returns early when no time has passed |
| `handlePeerChanges`, `CreateClient`, `DeleteClient` | the functions of these names, one entry of `m_peer_change_queue` a step |
| `ReceivePeerEvent`, `peerAdded`, `deletingPeer` | `Connection::Receive` goes on after an event about a peer |
| `ReceiveData`, `ProcessData` | `Server::Receive`: a packet, a ban, the handler |
| `HandleInit`, `HandleInitLegacy`, `HandleFirstSrp`, `HandleSrpBytesA`, `HandleSrpBytesM`, `HandleInit2`, `HandleClientReady` | the packet handlers, all their returns |
| `StageTwoClientInit`, `Joins`, `PeerNotFound` | `StageTwoClientInit` with `emergePlayer`, cut where `getPeerAddress` looks at the peer |
| `Kick` | scripts and operators |
| `Connect`, `PeerGone` | the connection; `PeerGone` may be the server's own disconnect |
| `SendInit`, `ClientReceives`, `sendChangePassword` | `Client::step`, its packet handlers, the password form |

Abstractions. Packets of one client reach the server in the order they were sent, also across
channels: the client sends each of them after an answer, except the first one, which is repeated every two
seconds and may come late (`SendInit`, at most one copy on its way at a time). Each id is used for one
connection; `Peers` is about ids used again. Reasons for a denial (version, name, number
of users, a script, a wrong password) are one choice. Of two denials of one client the second's
message is left out. A client is old, of protocol version up to 22, or has version 25 or more: clients of versions 23 and 24,
which send `INIT_LEGACY` first and `CLIENT_READY` in the end, are not modelled. In-game packets are not modelled beyond the test of the state that
`ActiveHasPlayer` is about; nor is what `CS_Invalid` clients send.

Properties.

* `TypeOK` says, besides types, that no honest client makes `notifyEvent` throw
  `ClientStateError`, whatever was denied, kicked or repeated before.
* `ActiveHasPlayer`: an active client has the player of its name, and `on_joinplayer` was called.
* `EveryPlayerHasItsClient`: an allocated player has a client that asked for its name. A player left
  behind would make its name be refused until the server is restarted.
* `HeldUntilGone`: a player is given up only after its own peer is gone.
* `ImplementsPlayerSessions`: refinement of `PlayerSessions`: sessions of a player come one after the other,
  each is announced at most once and only while it lasts. That a session need not be announced is in
  the abstract specification because the code does so, see section 10.
* `SettledInTheEnd`: each connection ends up in the game or gone without a rest.

Fairness: the server thread goes on (weak), steps are long again and again (strong, since
`Server::step` adds to `m_step_dtime` all the time), `DisconnectPeer` commands are carried out, and a
client that stays repeats its first packet and handles its answers. Nothing is assumed of players:
they may stay connected or vanish at any time.

## 7. Sending blocks

`BlockSending` models what the server remembers of the blocks it has sent to one
client (`m_blocks_sent`, `m_blocks_sending`, `m_blocks_modified`) with the queues on
the way there and back. The content of a block is how often it was changed as a whole and
the last value of a node that is edited by itself, as the code has two ways to tell a client of the
two.

| action | code |
|---|---|
| `TransformLiquids`, `ChangeByScript`, `FinishGen` with `SetBlocksNotSent` | changes of whole blocks: set not sent at once, by way of the map edit queue, or later by an emerge thread under another lock |
| `EditNode`, `Dig`, `DigInVain` | changes of one node; the client of the player who digs has the block sent again if it is on its way |
| `SendMapEditEvent` | the loop over `m_unsent_map_edit_queue` in `AsyncRunStep`, with a near or far player |
| `SendBlock` | `GetNextBlocks`, `SendBlocks`, `SendBlockNoLock`, `SentBlock` |
| `GotBlock`, `MarkSent` | `RemoteClient::GotBlock`: the test of `m_blocks_modified`, and what follows |
| `DeletedBlocks` | its handler |
| `ReceiveBlockData`, `ReceiveAddNode` | the client's handlers |
| `DoUpdate`, `sendGotBlocks` | the mesh thread and `Client::step`; a block waits once for its mesh, and once for each mesh for its acknowledgement |
| `sendDeletedBlocks` | the client unloads a block |

Abstractions. The three channels are in order and lose nothing, but pass each
other. The blocks are generated and in sight; in which order `GetNextBlocks` takes blocks is left open.
`GotBlock` runs under `m_env_mutex`; an emerge thread's `SetBlocksNotSent` has the lock of the clients
only. This is a data race on `std::set`s. The model splits `GotBlock` between its test and its
insertion, and `raced` remembers that an emerge thread came between; `SentBlocksCurrent`
exempts such runs, as it fails in them.

Properties.

* `SentBlocksCurrent`: what is taken for sent or on the wire has all changes of the whole block, unless
  somebody is about to say otherwise. An acknowledgement of an old version is not
  taken for one of the new version.
* `SendingIsAnswered`: whatever counts as being sent will be acknowledged, and the acknowledgement heeded;
  otherwise it would take one of `max_simultaneous_block_sends_per_client` slots for good.
* `CurrentInTheEnd`: once changes cease, the client has all changes of whole blocks. Of edits of one
  node this does not hold (`blocks_marked`, section 10).

Fairness: the threads of both sides go on and packets arrive (both from the channel's liveness), and
the player does not look away for good (`SendBlock`). Nothing is assumed of changes and of unloading.

## 8. Runs and bounds

| run | module, cfg | size | what it shows |
|---|---|---|---|
| `channel` | `ReliableChannelFifo`, `ReliableChannel.cfg` | 62,934 states | safety, refinement and liveness |
| `channel_wrap` | `MCReliableChannel`, `ReliableChannelWrap.cfg` | 1,128,868 states | safety while the numbers go all the way round and datagrams are late |
| `channel_max_window` | `ReliableChannel`, `ReliableChannelMaxWindow.cfg` | violation | the window cap of the code is too large |
| `split` | `SplitBuffer`, `Split.cfg` | 23,556 states | safety, refinement and liveness |
| `split_numbers` | `SplitBuffer`, `SplitNumbers.cfg` | violation | an unreliable message gets the split number of an earlier one |
| `emerge` | `Emerge`, `Emerge.cfg` | 222,220 states | safety, refinement and liveness |
| `emerge_calls` | `Emerge`, `EmergeCalls.cfg` | violation | the counter of callbacks with two threads |
| `peers` | `Peers`, `Peers.cfg` | 775,523 states | safety, refinement and liveness |
| `peers_raw_send` | `Peers`, `PeersRawSend.cfg` | violation | a peer deleted between two look-ups |
| `sessions` | `Sessions`, `Sessions.cfg` | 1,130,306 states | safety, refinement and liveness |
| `blocks` | `BlockSending`, `Blocks.cfg` | 470,078 states | safety and liveness |
| `blocks_marked` | `BlockSending`, `BlocksMarked.cfg` | violation | an edit of a node passes its block |

*channel*: 16 numbers starting at 13, so that they wrap after the third packet; a window of one that
may grow to two and shrink; two commands of one or two packets, so that a command finds
no number, one or both, is longer than the window, waits, and might be overtaken; any loss and
duplication; each run of ACKs and re-sends. *channel_wrap*, with the same windows, has 18 packets, one a
command, on the 16 numbers that are the least `WindowFits` admits for them: two numbers are used again.
A datagram may come while up to three later packets are numbered (`Lifetime` is 3, again the most
`WindowFits` admits), so that old packets and old ACKs meet a window that has moved on. `MCReliableChannel`
bounds this run: one command waits, two datagrams are under way. Any datagram may be lost at any
moment, so that the second bound takes away no order of those that arrive, only what needs three at a time;
`channel` has more. With a window test that forgets the wrap (`SeqnumAvailableFlat`) it is the seventeenth
packet that is taken for another.
*channel_max_window* has six numbers and a window of up to three, which is `MAX_RELIABLE_WINDOW_SIZE`
for six numbers as 0x8000 is for 0x10000.

*split*: two messages, which have a split number in common or not, reliable ones of one to three pieces, so that one is
in the buffer without its first, middle or last piece; two split numbers, so that they wrap
and a number is used again. A third message adds nothing to what an entry can be made of but one more
owner of its chunks; the proofs are for any number of them. The number of messages
is the only bound (`MaxMessages`); once they are sent and received the model stops, and deadlock
is not checked.

*emerge*: two blocks of one chunk, which is within the limit, and one that is over it; one or two
threads; a script that asks for one block, for both of the chunk, or for one of it and the one over
the limit; events, which are requests of a client or of the server itself, blocks unloaded
and calls of `delete_area`; shutdown at any moment. With one thread there are two events and areas of two blocks,
with two threads one event and areas of one block (`MaxBlocks` and `MaxEvents` are divided by the number of threads).
It is enough for entries that are merged, two threads on one chunk, all callbacks of a call and only
some of them, a block deleted while its chunk is generated and then generated again, a
request refused because the queue is full, a block asked for again after it was unloaded, an empty queue
at each wake-up. Two threads with an area of two blocks are in *emerge_calls*. A peer's own limit takes two requests of one peer; that it is kept is proved
(`PeersCounted`), and not within this run. The number of calls and events is bounded in the
guards. The run sets `CHECK_DEADLOCK FALSE`: after shutdown the threads end. The channel never does, and
its runs check for deadlock.

*peers*: one address that sends three datagrams of any kind, so that a peer is made, gets its id, is
deleted and made again, with five ids, so that none is given to two peers: with the code's
65535 this takes as many peers between two steps of a deletion. One call of the user; stop at any moment. Three peers in one run are needed for a late first packet next to a peer that is active and
one that is being deleted. The run ends, so deadlock is not checked.

*sessions*: two connections for one name is what it takes for two clients to get through the handshake
for it; one client is of the old protocol, in which the client becomes a player with `INIT2`, not
with `CLIENT_READY`. Two password changes: the second shows what a denied one leaves behind. The server
thread never ends, so deadlock is checked.

*blocks*: two blocks with one slot, so that a slot lost stops the other block; two changes of whole
blocks, so that an acknowledgement may be two versions old; one edit of a node, dig or unloading. It ends once every
block is sent and the changes are used up, and deadlock is not checked.

Each property has a mutant in the modules (`Fault for ...`), a plausible error in
one definition that makes TLC find the property violated.

## 9. Proofs

| theorem | module | statement |
|---|---|---|
| `TypeCorrect` | `ReliableChannel_proofs` | `Spec => []TypeOK` |
| `InvariantHolds` | same | `Spec => []IInv`, given `WindowFits` |
| `MessagesInOrder` | same | `Spec => ImplementsFifo`, the refinement, given `WindowFits` |
| `DeliveryInOrder`, `NoPacketForgotten`, `NumbersBounded`, `BuffersSorted`, `ReceiverIsRight`, `NoNumberReused` | same | `Spec => []` each of the six safety properties, given `WindowFits` |
| `SplitTypesCorrect`, `WholeUnlessShared` | `SplitBuffer_proofs` | `Spec => []TypeOK`, `Spec => []WholeOrShared` |
| `ReliableWhole` | same | `Spec => FifoWhileShort`, the refinement while no unreliable message is longer than a packet |
| `PeersTypeCorrect`, `FreedOnceUnused`, `NoneIsLeaked` | `Peers_proofs` | `Spec => []TypeOK`, `Spec => []NoUseAfterFree`, `Spec => []NothingLeaked` |
| `OnePeerOfAnAddress` | `Peers_safety` | `Spec => []OnePeerEach`, given `IdsSuffice` |
| `ToldInOrder` | same | `Spec => ImplementsPeerEvents`, the refinement, given `IdsSuffice` |
| `SessionsTypesCorrect` | `Sessions_proofs` | `Spec => []TypeOK`: no honest client causes a `ClientStateError` |
| `PlayersHaveClients`, `ActiveClientsHavePlayers` | same | `Spec => []EveryPlayerHasItsClient`, `Spec => []ActiveHasPlayer` |
| `PlayersAreHeld` | same | `Spec => HeldUntilGone` |
| `SessionsImplementPlayerSessions` | same | `Spec => ImplementsPlayerSessions`, the refinement |
| `EmergeTypesCorrect`, `QueuesAlwaysMatch`, `PeersCounted` | `Emerge_proofs` | `Spec => []TypeOK`, `Spec => []QueuesMatch`, `Spec => []PeerCountsRight` |
| `ClientsKeptCurrent`, `NothingSentBefore`, `OneThreadCountsCalls` | same | `Spec => []ClientsCurrent`, `Spec => []UnsentUntilGenerated`, `Spec => []CallsCounted` |
| `PromiseKept` | same | `Spec => ImplementsPromise`, the refinement |
| `BlockTypesCorrect`, `SentBlocksAreCurrent`, `SendingEnds` | `BlockSending_proofs` | `Spec => []TypeOK`, `Spec => []SentBlocksCurrent`, `Spec => []SendingIsAnswered` |

`PacketBuffer_proofs` has the lemmas: what the comparisons say of two
numbers less than half a circle apart, and that `insert` keeps a list sorted, adds the packet
once and nothing else, and that `popSeqnum` removes just one.

**The reliable channel.** `TypeCorrect` needs only the assumptions on the constants. The others need
`WindowFits`: twice `Limit` is at most `MAX_RELIABLE_WINDOW_SIZE`, and `Limit + Lifetime` is
less. With the code's 65536 numbers it holds, for example, for a window that stays below 0x400
(a legacy peer's window starts at 0x40 and is then 5 by default), commands of at most 10000
packets and datagrams that live for fewer than 20000 newly numbered packets. It does *not* hold for the cap the code has, 0x8000: this is no
weakness of the proof, the run `channel_max_window` shows `InOrder` to fail there.

None of the properties is inductive: `InOrder` alone says
nothing of the packets buffered, and the code sees only 16-bit numbers. `IInv`
(`ReliableChannelInvariant`) adds that numbers count the packets of the history
(`NumbersRight`), that queued packets are the last numbered (`QueueIsLast`), how old
datagrams are (`DatagramsRecent`), that an ACK stands for a packet received (`AcksTrue`) and
how far ahead the buffered packets are (`BufferedNear`). From `OutstandingBounded` and `AcksTrue`,
every packet on its way is within half a circle of the next expected one; there
`seqnum_in_window` and `seqnum_higher` agree with the order of the history, which decides each
case of the receiver. `BufferedNear` needs `packet_queued`: after a packet was buffered the buffers are
looked at before the next is read. The proof has one step for each action and one for each conjunct.
TLC has checked that `IInv` is an invariant of the instances of section 8.

`MessagesInOrder` goes from packets to messages. `InOrder` makes the places of `delivered` those of
`sent`, so that what is left is about the history alone: `CommandsFollow` says that commands are numbered
in the order they were submitted, the packets of one before those of the next, and that the queued ones
are the next; `RanksRight`, that the last packet of command *n* completes the *n*-th message. Of all
actions only four kinds of steps touch the history (`HistorySteps`): a command waits, is numbered at
once, is numbered after it waited, or a packet is handed over.

**Split messages.** The theorems need only `SplitAssumption`: any number of messages, pieces and split
numbers, any loss, repetition and removal. `TypeOK` is inductive: `insert` removes an entry at
the moment its count is reached. `WholeOrShared` is not; `WholeInvariant` adds what is in
transit and in the buffer. A packet on its way is one of its message (`PacketFits`). The chunks of an entry
are pieces of long messages with its number, each at its place, and are either all of one message, whose
number of pieces the entry has, or each of a message that shares its number (`EntryFits`): the first piece
of another message that comes to an entry makes the owners of all its chunks share. A complete entry of the first kind is its
message, as as many different places as pieces are all the places (`CompleteFits`).

`ReliableWhole` speaks of the time in which no unreliable message was longer than a packet: after one was, it
is false (`split_numbers`, and the time-out of section 10). On channels 0 and 2 of a server and on all channels on which
a client sends that is always, as no such message is sent there. Until then `FifoInvariant` holds. It says
that the reliable packets on their way follow each other without a gap, from the message after those
handed over to the last one sent (`PacketsInTurn`), and that the buffer holds just the pieces of the first
of them that are before its next packet (`BufferInTurn`). So an entry is gone before the
next message that could have its number begins, and no entry is unreliable: nothing is ever collected.

**The peers.** The theorems of `Peers_proofs` need only `PeersAssumption`: any number of
addresses, ids, datagrams and calls. `Lives` is the invariant of a peer's life: it is in the
table at one place, or one thread is deleting it, or neither (`OnePlace`); at a place it is alive and not
marked for deletion; at none it is marked as long as it is in use, and freed exactly when it is not
(`Lifetimes`); its use count is the number of `PeerHelper`s that have it (`Counted`). Seven kinds of
steps change any of this (`Added`, `Removed`, `Dropped`, `Got`, `LetGo`, `AllDeleted`, or nothing), and one lemma
each shows that `Lives` is kept; `StepKeeps` assigns each action to its kind. For that it
has to know where a thread has a peer (`ThreadsHold`: otherwise `DecUseCount` could be
called for nobody, and `Destroy` could free a peer in use), that there is a datagram for
each peer made (`CreationsCounted`), and that the loop over `m_outgoing_queue` never counts
more packets than there are (`PacketsLeft`).

`Peers_safety` needs `IdsSuffice`: no id is given twice. It is no weakness of the proof: after the wrap
the id 0 is given (section 10), under which `lookupPeer` finds nobody; and a new peer with
the id of one whose removal is not told yet would be announced twice. With the 65535 ids of the code it holds for the first
65533 peers. `AddressInv` says
that a client uses one id, and that while the receive thread goes from `lookupPeer` to `createPeer` nobody makes
a peer that waits under the address; `TellingInv`, that a peer is known to the user from before it can be found until
the event of its removal. Nearly all steps are `Quiet`: they only take peers out of the table.

**Sessions.** The theorems need only `SessionsAssumption`, and hold for any number of
peers, names and password changes. `ActiveHasPlayer` is not inductive for two reasons.
`StageTwoClientInit` gives a client its player in one step and makes it
active in another; `JoiningHolds` says that in between the player is the peer's and
was not announced. And `DeleteClient` takes the player away, which is harmless only
because it also removes the client, and because it is called for peers that are gone:
`RemovedAreGone` follows the removal of a peer through both queues. `JoinedHold` says that the
scripts know only players that belong to a peer. The handlers that have nothing to do with
players share one lemma (`HandlersCalm`): they make no client active and leave
active ones that stay active alone. `HeldUntilGone` and the refinement are then
properties of single steps (`StepHolds`, `StepImplements`).

That no honest client makes `notifyEvent` throw (`TypeOK`) depends on what the client has sent and was
sent before, not on players, and has an invariant of its own, `HonestInv`. A peer is announced once
through both queues, and nothing comes from it before; so a client is created in `CS_Created` and by
nobody else. An `INIT2` packet, or the answer that makes the client send one, exists only while the server
awaits it or ignores it, and then once (`InSequence`): a repeated first packet, a denial between the two
or a password change does not bring forth a second. Old clients never send `CLIENT_READY` and others never stay in
`CS_InitDone`; and `StageTwoClientInit` goes on in the state in which it began (`JoinsFrom`). Each
transition the switch of `notifyEvent` does not have is then one no client asks for.

**Emerge threads.** The theorems need only `EmergeAssumption` (positions are finitely many, as three
16-bit coordinates are) and hold for any number of threads, peers, requests and calls. `IInv` has three
parts. The queues: what a thread's `m_block_queue` holds is entries of the manager, each entry is in one
queue and once (`Matched`), and the counts of peers are those of the entries. This is nearly
inductive; what it lacks is that `getOptimalThread` finds a thread that exists, and that `Pop` takes what is in
the map. The world: what a thread works on fits the place it is at (`ItemsFit`), chunks are generated as a
whole but for what was deleted (`WorldFits`, with `Known` for the blocks that are generated or were), and
`ClientsCurrent`, which holds for any number of threads because the blocks to mark
stay with the thread that generated them until it has the lock of the clients, and the blocks deleted with their
event. The calls: the callback of a
call for a block is at one place only (`OnePlace`): still to be queued, in an entry, with a thread, or run. From this
follow the refinement and that the callbacks are counted: the refcount is never below the
number of callbacks that have not stored it, however the threads race (`RefcountsFit`), and with one
thread it is that number (`OneThreadCounts`). With several it may stay above: the run `emerge_calls`. As each callback of
a call is at one place, none is left in an entry or with a thread once all were run: so the state is freed after its last use.

**Block sending.** The theorems need only `BlockSendingAssumption`. Both properties follow from one
invariant with three parts. `Bounded`: no version is higher than the number of changes. `Heeded`:
what counts as being sent has its packet, its mesh or its answer under way and is not modified, and a block
for which an answer may come is known to the server as sent, being sent or modified. `SentCurrent`: the last
version of the block on its way to the client, or with it, is the server's. `GotBlock` is the step that
needs them together: it takes an acknowledgement of *any* version for one of the current. That is right
because a block that changed meanwhile is in `m_blocks_modified`, from which only the sending of the new
version removes it: then the new version is on its way, and the channel is in order. `MarkSent` after an emerge thread came between (`raced`) is the only step that breaks `SentCurrent`;
`SendingIsAnswered` holds in spite of it.

**Only model-checked**: the liveness properties `EveryMessageArrives`, `EveryCallAnswered`, `ThreadsEnd`,
`AllGoneInTheEnd`, `SettledInTheEnd`, `CurrentInTheEnd` and `UnreliableDiscarded` (TLAPS does not prove liveness under fairness,
nor `ENABLED`). All other properties of the passing runs are theorems. TLAPS has no induction over data
that takes an operator: `HandedCommands` is therefore not a fold over `delivered`, but says which
packet completes the *n*-th message by counting.

## 10. Disagreements found

* **The send window may be too large** (`channel_max_window`, `connection.cpp:774`).
  `connection.h:301-302` promises delivery in order. With a window of `MAX_RELIABLE_WINDOW_SIZE`, half of
  the numbers, and one number more admitted by `getOutgoingSequenceNumber`, a new packet can be
  sorted before the oldest in `outgoing_reliables_sent`; the window is then measured from the wrong
  packet, numbers are given out once around, and a new packet is handed over in the
  place of a lost one with the same number. It takes a window grown to its cap, and one packet all of
  whose copies are lost while thousands after it are acknowledged.
* **`calls_remaining` is wrong with several emerge threads** (`emerge_calls`, `l_env.cpp:140`).
  `lua_api.txt:2095` calls it "the number of callbacks to be expected after this one". The
  counter is decremented without a lock and read again when the script is called: with two threads the
  last two callbacks may both be told 0, and the shared state is then deleted twice.
* **A block may be marked as sent without an edit** (`blocks_marked`, `server.cpp:2116`).
  `clientiface.h:398-401` says that blocks "that are being modified while on the line" are not
  marked as sent. `sendAddNode` sends an edit on channel 0 while the block may be on its way on channel 2,
  and does not touch the `RemoteClient`: the edit arrives first and is ignored or overwritten. Only
  the player who digs has the block sent again.
* **A packet to a peer that is gone ends the program** (`peers_raw_send`, `connection.cpp:1529`).
  `sendPackets` handles a peer that is gone, then calls `rawSendAsPacket`, which looks it up again and
  declares its being gone a `FATAL_ERROR` for unreliable packets. A `DISCO` handled in between does it.
* **Unreliable split messages get a number in use** (`split_numbers`, `connection.cpp:1237`).
  `getNextSplitSequenceNumber` returns the next *incoming* sequence number, and `send` stores the one after it
  as the next split number. A long unreliable message may so get the number of an earlier message on its
  way: of a reliable one, when both counters stand at the same value, as they do at first, or of another
  unreliable one, when no reliable packet came in between. What the user gets is then made of pieces of both,
  where `connection.h:285-289` says that the pieces of one are handed over. The server sends long
  unreliable messages on channel 1 (`server.cpp:1955`), next to reliable ones.

Others, met while modelling, of which no run is made:

* `removeUnreliableTimedOuts` (`connection.cpp:545-569`) collects split numbers under the lock and removes them
  under another hold of it. In between an unreliable entry may be completed and a reliable one begin with the
  same number; this is removed, although "Reliable ones are not removed by timeout" (line 554), and never
  complete. The model has it (`RemoveTimedOut`); it takes two messages with one number.
* The quota is divided by `m_peers.size()` (`connection.cpp:1882`) without the lock; when the
  last peer is deleted while the send thread holds it, the divisor is 0 (`QuotaOfNone`).
* `getPeerAddress` throws in the middle of `StageTwoClientInit` (`server.cpp:1135`) when the peer has gone:
  `on_leaveplayer` is then called for a player for whom `on_joinplayer` was not
  (`lua_api.txt:1890-1893` speaks of a player who joins and one who leaves).
* `DenySudoAccess` (`server.cpp:2556`) leaves `chosen_mech`: after one wrong password, a client's next attempt
  to change its password in the session is refused, with the right one too.
* The test of `max_users` counts the asking client itself (`getClientIDs(CS_Created)`), so that one
  player fewer is let in than `builtin/settingtypes.txt:672` says.
* `createPeer` lets the counter of ids wrap to 0 (`connection.cpp:3012`), contrary to its comment
  "Get a unique peer id (2 or higher)" (`connection.cpp:2978`): a server that has had 65533 peers gives
  the next ones 0 (no id, `connection.h:241`) and 1 (the server).
* `calls_remaining` also counts callbacks that never come: `run` drops a block over the limit with its callbacks
  (`emerge.cpp:674`), and those still queued when the threads stop are never run. The last one that does come
  is then told of more (`lua_api.txt:2095`), and the shared state is never freed.
* `finishGen` ignores map edit events of a chunk "because the block hasn't been sent to anybody"
  (`emerge.cpp:621`). With two threads, or when a script deleted one block of a chunk, it has been. It does no harm:
  what `blitBackAll` writes is marked as not sent anyway. What was in the other blocks is generated anew.
* A block deleted while its chunk is generated is not there afterwards. `finishGen` logs an error and returns
  NULL, but the action stays `EMERGE_GENERATED`, which is what the script is told.
* `connection.h:607-610` says that `deletingPeer` is called before the peer is removed from
  the container; `deletePeer` erases it first (`connection.cpp:2796`, `2806`).

## 11. What is not covered

Components of the plan that have no module yet are `not_modelled` in `PROJECT.json` with what is planned. Not
planned: liquid transformation, map generators, path finding, crafting and settings (sequential
computations on large data, whose properties are about values and not about steps), rollback and databases
(SQL against external libraries), scripting glue, GUI, sound and rendering: most of the lines of the
repository. Of the channel: the bytes of packets, rate estimates, channel 0's control packets. Of the emerge threads: scripts that ask for areas from within an emerge thread, `delete_area` called by an `on_generated` handler
(its event is ignored by `MapEditEventAreaIgnorer`, but its blocks are among those marked by the thread), the content of
blocks (edits made to neighbours of a chunk while it is generated are lost; the hazard is listed), errors while
loading. Of the peers: the client's `connect()`, failing sockets. Of the sessions: what an active
client does in the game, media, protocol versions 23 and 24, versions up to 24 in the change of a password. Of block
sending: several clients (they share nothing but the map), the order of blocks and its timers, node metadata.
