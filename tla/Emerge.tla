------------------------------- MODULE Emerge -------------------------------
(***************************************************************************)
(* The emerge threads (src/src/emerge.cpp).  The server thread queues      *)
(* blocks that clients or scripts ask for; the emerge threads take them    *)
(* from memory or disk or generate the chunk that holds them, tell the     *)
(* scripts and have the blocks sent to the clients again.                  *)
(*                                                                         *)
(* A step is what a thread does under m_queue_mutex, under the environment *)
(* lock or on its own between two of them.  Block positions are integers:  *)
(* one of the three coordinates.                                           *)
(***************************************************************************)
EXTENDS Integers, Sequences, FiniteSets, Functions

CONSTANTS
    Peer, PEER_ID_INEXISTENT,
    MaxThreads,       \* bound: num_emerge_threads
    Pos,              \* bound: block positions looked at
    BlockLimit,       \* map_generation_limit / MAP_BLOCKSIZE
    chunksize,
    m_qlimit_total, m_qlimit_diskonly, m_qlimit_generate,
    Areas,            \* the areas scripts emerge, sets of positions
    MaxCalls,         \* bound: calls of emerge_area()
    MaxBlocks,        \* bound: blocks of an area, times threads
    MaxEvents         \* bound: requests other than those of scripts, blocks
                      \* unloaded and calls of delete_area(), times threads

ASSUME EmergeAssumption ==
    /\ PEER_ID_INEXISTENT \notin Peer
    /\ MaxThreads \in Nat \ {0} /\ chunksize \in Nat \ {0}
    /\ Pos \subseteq Int /\ IsFiniteSet(Pos) /\ Areas \subseteq SUBSET Pos /\ {} \notin Areas
    /\ {m_qlimit_total, m_qlimit_diskonly, m_qlimit_generate} \subseteq Nat \ {0}
    /\ {BlockLimit, MaxCalls, MaxBlocks, MaxEvents} \subseteq Nat

VARIABLES
    \* EmergeManager
    nthreads,             \* how many m_threads there are
    m_blocks_enqueued, m_peer_queue_count,
    \* EmergeThread: m_block_queue, the flag of m_queue_event, the request to
    \* stop, where run() is, what it works on, what it loaded of a refcount
    m_block_queue, notified, stop, pc, item, loaded,
    \* the server thread: threads it has still to signal, blocks emerge_area()
    \* has still to queue, whether the server is being destroyed
    signalling, emerging, shutdown,
    \* the map: the blocks that exist, those that are generated, and those of
    \* the latter in memory
    there, generated, memory,
    \* the clients: the blocks each holds, and those it holds in an old version
    held, stale,
    \* the blocks in the map edit events of delete_area() that are still to be
    \* sent, and the history of the blocks deleted
    m_unsent_map_edit_queue, deleted,
    \* one ScriptCallbackState for each call of emerge_area(), and the history
    \* of the call: what was asked and what each callback was told
    calls,
    events                \* how many requests, unloadings and deletions there were

queues == <<m_blocks_enqueued, m_peer_queue_count, m_block_queue>>
thread == <<notified, pc, item, loaded>>
server == <<stop, signalling, emerging, shutdown>>
world  == <<there, generated, memory, held, stale, m_unsent_map_edit_queue, deleted>>
vars   == <<nthreads, queues, thread, server, world, calls, events>>

Thread == 1 .. MaxThreads
Started == 1 .. nthreads
Flags == {"ALLOW_GEN", "FORCE_QUEUE"}
Action == {"CANCELLED", "FROM_MEMORY", "FROM_DISK", "GENERATED"}

\* Outside the body of its loop run() works on nothing.
NoItem == [pos |-> 0, flags |-> {}, callbacks |-> <<>>, action |-> "CANCELLED",
           modified_blocks |-> {}]

Init ==
    /\ nthreads \in Thread
    /\ m_blocks_enqueued = <<>>
    /\ m_peer_queue_count = [q \in Peer \cup {PEER_ID_INEXISTENT} |-> 0]
    /\ m_block_queue = [t \in Thread |-> <<>>]
    /\ notified = [t \in Thread |-> FALSE]
    /\ stop = [t \in Thread |-> FALSE]
    /\ pc = [t \in Thread |-> "new"]
    /\ item = [t \in Thread |-> NoItem]
    /\ loaded = [t \in Thread |-> 0]
    /\ signalling = {} /\ emerging = {} /\ shutdown = FALSE
    /\ there = {} /\ generated = {} /\ memory = {}
    /\ m_unsent_map_edit_queue = {} /\ deleted = {}
    /\ held = [q \in Peer |-> {}] /\ stale = [q \in Peer |-> {}]
    /\ calls = <<>>
    /\ events = 0

-----------------------------------------------------------------------------
(* Chunks *)

blockpos_over_limit(p) == p < -BlockLimit \/ p > BlockLimit

\* The code rounds towards minus infinity as \div does.
getContainerPos(p, d) == p \div d

\* The first block of the chunk that holds block p.
getContainingChunk(p) ==
    LET coff == chunksize \div 2
    IN  getContainerPos(p + coff, chunksize) * chunksize - coff

ChunkOf(p) == {b \in Pos : getContainingChunk(b) = getContainingChunk(p)}

\* The chunk and the neighbouring blocks.
FullAreaOf(p) ==
    LET min == getContainingChunk(p)
    IN  {b \in Pos : b \in min - 1 .. min + chunksize}

\* initBlockMake() succeeds.
InitBlockMakeWorks(p) ==
    LET min == getContainingChunk(p)
    IN  ~ blockpos_over_limit(min - 1) /\ ~ blockpos_over_limit(min + chunksize)

-----------------------------------------------------------------------------
(* The server thread queues blocks *)

\* Nobody holds m_env_mutex: the server thread does while it queues blocks.
EnvFree == emerging = {} /\ (signalling # {} => shutdown)

\* The server thread is about to lock m_env_mutex.
ServerReady == ~ shutdown /\ signalling = {} /\ emerging = {}

\* pushBlockEmergeData() refuses no request that is forced.
WithinLimits(q, flags) ==
    "FORCE_QUEUE" \notin flags =>
       /\ Cardinality(DOMAIN m_blocks_enqueued) < m_qlimit_total
       /\ q # PEER_ID_INEXISTENT =>
             m_peer_queue_count[q] < IF "ALLOW_GEN" \in flags
                                     THEN m_qlimit_generate ELSE m_qlimit_diskonly

\* getOptimalThread(): the first of those with the shortest queue.
getOptimalThread ==
    CHOOSE t \in Started : \A u \in Started :
       \/ Len(m_block_queue[t]) < Len(m_block_queue[u])
       \/ Len(m_block_queue[t]) = Len(m_block_queue[u]) /\ t =< u

\* Fault for ImplementsPromise: the callback is added twice.
AddToEntryTwice(p, flags, callbacks) ==
    /\ p \in DOMAIN m_blocks_enqueued
    /\ m_blocks_enqueued' =
          [m_blocks_enqueued EXCEPT ![p].flags = @ \cup flags,
                                    ![p].callbacks = @ \o callbacks \o callbacks]
    /\ UNCHANGED <<m_peer_queue_count, m_block_queue, signalling>>

\* Fault for EveryCallAnswered: only a new entry takes the callback.
AddToEntryFlags(p, flags, callbacks) ==
    /\ p \in DOMAIN m_blocks_enqueued
    /\ m_blocks_enqueued' =
          [m_blocks_enqueued EXCEPT ![p].flags = @ \cup flags]
    /\ UNCHANGED <<m_peer_queue_count, m_block_queue, signalling>>

\* p is queued already: its entry takes the flags and the callback.
AddToEntry(p, flags, callbacks) ==
    /\ p \in DOMAIN m_blocks_enqueued
    /\ m_blocks_enqueued' =
          [m_blocks_enqueued EXCEPT ![p].flags = @ \cup flags,
                                    ![p].callbacks = @ \o callbacks]
    /\ UNCHANGED <<m_peer_queue_count, m_block_queue, signalling>>

\* Fault for TypeOK and PeerCountsRight: the peer does not count the entry.
AddEntryUncounted(p, q, flags, callbacks) ==
    /\ p \notin DOMAIN m_blocks_enqueued
    /\ m_blocks_enqueued' =
          [b \in DOMAIN m_blocks_enqueued \cup {p} |->
             IF b = p THEN [peer_requested |-> q, flags |-> flags, callbacks |-> callbacks]
                      ELSE m_blocks_enqueued[b]]
    /\ m_peer_queue_count' = m_peer_queue_count
    /\ m_block_queue' = [m_block_queue EXCEPT ![getOptimalThread] = Append(@, p)]
    /\ signalling' = {getOptimalThread}

\* Fault for QueuesMatch: a block that is queued is queued again.
AddEntryAnyway(p, q, flags, callbacks) ==
    /\ m_blocks_enqueued' =
          [b \in DOMAIN m_blocks_enqueued \cup {p} |->
             IF b = p THEN [peer_requested |-> q, flags |-> flags, callbacks |-> callbacks]
                      ELSE m_blocks_enqueued[b]]
    /\ m_peer_queue_count' = [m_peer_queue_count EXCEPT ![q] = @ + 1]
    /\ m_block_queue' = [m_block_queue EXCEPT ![getOptimalThread] = Append(@, p)]
    /\ signalling' = {getOptimalThread}

\* p is not queued yet.  The thread that gets it is signalled later, when
\* m_queue_mutex was released.
AddEntry(p, q, flags, callbacks) ==
    /\ p \notin DOMAIN m_blocks_enqueued
    /\ m_blocks_enqueued' =
          [b \in DOMAIN m_blocks_enqueued \cup {p} |->
             IF b = p THEN [peer_requested |-> q, flags |-> flags, callbacks |-> callbacks]
                      ELSE m_blocks_enqueued[b]]
    /\ m_peer_queue_count' = [m_peer_queue_count EXCEPT ![q] = @ + 1]
    /\ m_block_queue' = [m_block_queue EXCEPT ![getOptimalThread] = Append(@, p)]
    /\ signalling' = {getOptimalThread}

enqueueBlockEmergeEx(p, q, flags, callbacks) ==
    /\ WithinLimits(q, flags)
    /\ AddToEntry(p, flags, callbacks) \/ AddEntry(p, q, flags, callbacks)

\* A client lacks a block that is not generated or not in memory, digs in a
\* block that is not there, or the server itself looks for it; only the first
\* may generate, and looks at no block over the limit.
Request(q, p, flags) ==
    /\ ServerReady /\ nthreads * events < MaxEvents
    /\ events' = events + 1
    /\ "ALLOW_GEN" \in flags =>
          q \in Peer /\ ~ blockpos_over_limit(p) /\ p \notin held[q] \cup memory
    /\ enqueueBlockEmergeEx(p, q, flags, <<>>)
    /\ UNCHANGED <<nthreads, thread, stop, emerging, shutdown, world, calls>>

\* emerge_area() of a script, called with a callback: the state all the
\* callbacks share ...
StartEmergeArea(area) ==
    /\ ServerReady /\ Len(calls) < MaxCalls /\ nthreads * Cardinality(area) =< MaxBlocks
    /\ calls' = Append(calls, [area |-> area, refcount |-> Cardinality(area),
                               answers |-> <<>>, freed |-> 0])
    /\ emerging' = area
    /\ UNCHANGED <<nthreads, queues, thread, stop, signalling, shutdown, world, events>>

\* ... and one block after the other, in ascending order.
EmergeAreaBlock ==
    /\ signalling = {}
    /\ \E p \in emerging :
          /\ \A b \in emerging : p =< b
          /\ emerging' = emerging \ {p}
          /\ enqueueBlockEmergeEx(p, PEER_ID_INEXISTENT, Flags, <<Len(calls)>>)
    /\ UNCHANGED <<nthreads, thread, stop, shutdown, world, calls, events>>

Signal(t) ==
    /\ t \in signalling
    /\ signalling' = signalling \ {t}
    /\ notified' = [notified EXCEPT ![t] = TRUE]
    /\ UNCHANGED <<nthreads, queues, stop, pc, item, loaded,
                   emerging, shutdown, world, calls, events>>

-----------------------------------------------------------------------------
(* The server thread starts and stops the emerge threads *)

startThreads ==
    /\ ServerReady
    /\ \A t \in Thread : pc[t] = "new"
    /\ pc' = [t \in Thread |-> IF t \in Started THEN "loop" ELSE "new"]
    /\ UNCHANGED <<nthreads, queues, notified, item, loaded,
                   server, world, calls, events>>

\* ~Server(): the server thread has ended.
Shutdown ==
    /\ ServerReady
    /\ shutdown' = TRUE
    /\ UNCHANGED <<nthreads, queues, thread, stop, signalling, emerging, world,
                   calls, events>>

\* Fault for ThreadsEnd: the thread is not signalled.
stopThreadsSilently(t) ==
    /\ shutdown /\ signalling = {}
    /\ pc[t] # "new" /\ ~ stop[t]
    /\ \A u \in Started : u < t => stop[u]
    /\ stop' = [stop EXCEPT ![t] = TRUE]
    /\ UNCHANGED signalling
    /\ UNCHANGED <<nthreads, queues, thread, emerging, shutdown, world, calls, events>>

\* stopThreads() asks one thread after the other to stop, and signals it.
stopThreads(t) ==
    /\ shutdown /\ signalling = {}
    /\ pc[t] # "new" /\ ~ stop[t]
    /\ \A u \in Started : u < t => stop[u]
    /\ stop' = [stop EXCEPT ![t] = TRUE]
    /\ signalling' = {t}
    /\ UNCHANGED <<nthreads, queues, thread, emerging, shutdown, world, calls, events>>

-----------------------------------------------------------------------------
(* The emerge threads: EmergeThread::run() *)

Goes(t, from, to) == pc[t] = from /\ pc' = [pc EXCEPT ![t] = to]

\* while (!stopRequested()).  What others do between this test and the next
\* step of the thread they could as well do after that step, so the two are one.
EndRun(t) ==
    /\ stop[t]
    /\ Goes(t, "loop", "ended")
    /\ UNCHANGED <<nthreads, queues, notified, item, loaded, server, world, calls, events>>

\* popBlockEmerge() finds no block in the queue of the thread.
PopNothing(t) ==
    /\ ~ stop[t] /\ m_block_queue[t] = <<>>
    /\ Goes(t, "loop", "wait")
    /\ UNCHANGED <<nthreads, queues, notified, item, loaded, server, world, calls, events>>

\* m_queue_event.wait()
Wait(t) ==
    /\ notified[t]
    /\ Goes(t, "wait", "loop")
    /\ notified' = [notified EXCEPT ![t] = FALSE]
    /\ UNCHANGED <<nthreads, queues, item, loaded, server, world, calls, events>>

\* The entry of p goes, and the peer that has it counts one less.
popBlockEmergeData(p) ==
    /\ m_peer_queue_count' =
          [m_peer_queue_count EXCEPT ![m_blocks_enqueued[p].peer_requested] = @ - 1]
    /\ m_blocks_enqueued' =
          [b \in DOMAIN m_blocks_enqueued \ {p} |-> m_blocks_enqueued[b]]

\* popBlockEmerge() takes the first block; one over the limit is dropped with
\* its callbacks.
Pop(t) ==
    /\ ~ stop[t] /\ m_block_queue[t] # <<>>
    /\ LET p == Head(m_block_queue[t])
           e == m_blocks_enqueued[p]
       IN  /\ m_block_queue' = [m_block_queue EXCEPT ![t] = Tail(@)]
           /\ popBlockEmergeData(p)
           /\ \/ /\ blockpos_over_limit(p)
                 /\ Goes(t, "loop", "loop")
                 /\ UNCHANGED item
              \/ /\ ~ blockpos_over_limit(p)
                 /\ Goes(t, "loop", "get")
                 /\ item' = [item EXCEPT ![t] =
                       [NoItem EXCEPT !.pos = p, !.flags = e.flags, !.callbacks = e.callbacks]]
    /\ UNCHANGED <<nthreads, notified, loaded, server, world, calls, events>>

\* getBlockOrStartGen() ends with action a.
Gets(t, a, modified_blocks) ==
    /\ EnvFree
    /\ Goes(t, "get", IF a = "GENERATED" THEN "make" ELSE "callback")
    /\ item' = [item EXCEPT ![t].action = a, ![t].modified_blocks = modified_blocks]
    /\ UNCHANGED <<nthreads, queues, notified, loaded, server, generated, held, stale,
                   m_unsent_map_edit_queue, deleted, calls, events>>

GetFromMemory(t) ==
    /\ item[t].pos \in memory
    /\ Gets(t, "FROM_MEMORY", {item[t].pos})
    /\ UNCHANGED <<there, memory>>

GetFromDisk(t) ==
    /\ item[t].pos \in generated \ memory
    /\ Gets(t, "FROM_DISK", {item[t].pos})
    /\ memory' = memory \cup {item[t].pos}
    /\ UNCHANGED there

\* initBlockMake() loads the neighbourhood, creates what is missing of it and
\* copies it.  It looks neither whether another thread is about to generate the
\* same chunk nor whether other blocks of the chunk are generated.
StartGen(t) ==
    /\ item[t].pos \notin generated
    /\ "ALLOW_GEN" \in item[t].flags /\ InitBlockMakeWorks(item[t].pos)
    /\ Gets(t, "GENERATED", {})
    /\ there' = there \cup FullAreaOf(item[t].pos)
    /\ memory' = memory \cup (FullAreaOf(item[t].pos) \cap generated)

\* A block on disk that exists without being generated is marked not sent too.
GetNothing(t) ==
    /\ item[t].pos \notin generated
    /\ "ALLOW_GEN" \notin item[t].flags \/ ~ InitBlockMakeWorks(item[t].pos)
    /\ \E blocks \in SUBSET ({item[t].pos} \cap there) : Gets(t, "CANCELLED", blocks)
    /\ UNCHANGED <<there, memory>>

\* Fault for ClientsCurrent: only the requested block is marked as modified.
FinishGenOne(t) ==
    /\ EnvFree
    /\ Goes(t, "make", "callback")
    /\ LET p == item[t].pos IN
       /\ generated' = generated \cup (ChunkOf(p) \cap there)
       /\ memory' = memory \cup (ChunkOf(p) \cap there) \cup (FullAreaOf(p) \cap generated)
       /\ stale' = [q \in Peer |-> stale[q] \cup (held[q] \cap FullAreaOf(p) \cap there)]
       /\ item' = [item EXCEPT ![t].modified_blocks = {p}]
    /\ UNCHANGED <<nthreads, queues, notified, loaded, server, there, held,
                   m_unsent_map_edit_queue, deleted, calls, events>>

\* makeChunk(), which touches nothing shared, and finishGen(): the copy is
\* written back over the chunk and its neighbours, and these are marked as
\* modified; those unloaded meanwhile are loaded first, those deleted meanwhile
\* stay deleted, be it the one that was asked for.
FinishGen(t) ==
    /\ EnvFree
    /\ Goes(t, "make", "callback")
    /\ LET p == item[t].pos IN
       /\ generated' = generated \cup (ChunkOf(p) \cap there)
       /\ memory' = memory \cup (ChunkOf(p) \cap there) \cup (FullAreaOf(p) \cap generated)
       /\ stale' = [q \in Peer |-> stale[q] \cup (held[q] \cap FullAreaOf(p) \cap there)]
       /\ item' = [item EXCEPT ![t].modified_blocks = FullAreaOf(p) \cap there]
    /\ UNCHANGED <<nthreads, queues, notified, loaded, server, there, held,
                   m_unsent_map_edit_queue, deleted, calls, events>>

\* LuaEmergeAreaCallback(): refcount-- without a lock is a load and a store.
LoadRefcount(t) ==
    /\ item[t].callbacks # <<>>
    /\ Goes(t, "callback", "store")
    /\ loaded' = [loaded EXCEPT ![t] = calls[Head(item[t].callbacks)].refcount]
    /\ UNCHANGED <<nthreads, queues, notified, item, server, world, calls, events>>

StoreRefcount(t) ==
    /\ Goes(t, "store", "report")
    /\ calls' = [calls EXCEPT ![Head(item[t].callbacks)].refcount = loaded[t] - 1]
    /\ loaded' = [loaded EXCEPT ![t] = 0]
    /\ UNCHANGED <<nthreads, queues, notified, item, server, world, events>>

\* on_emerge_area_completion(): the script is told the position, the action
\* and the refcount as it is now.
Report(t) ==
    /\ EnvFree
    /\ Goes(t, "report", "delete")
    /\ LET c == Head(item[t].callbacks) IN
       calls' = [calls EXCEPT ![c].answers = Append(@,
                   [pos |-> item[t].pos, action |-> item[t].action,
                    calls_remaining |-> calls[c].refcount])]
    /\ UNCHANGED <<nthreads, queues, notified, item, loaded, server, world, events>>

\* Fault for CallsCounted: the last callback is taken to be the last but one.
DeleteStateEarly(t) ==
    /\ Goes(t, "delete", "callback")
    /\ LET c == Head(item[t].callbacks) IN
       calls' = [calls EXCEPT ![c].freed = IF calls[c].refcount =< 1 THEN @ + 1 ELSE @]
    /\ item' = [item EXCEPT ![t].callbacks = Tail(@)]
    /\ UNCHANGED <<nthreads, queues, notified, loaded, server, world, events>>

\* Who finds no callback left deletes the state.
DeleteState(t) ==
    /\ Goes(t, "delete", "callback")
    /\ LET c == Head(item[t].callbacks) IN
       calls' = [calls EXCEPT ![c].freed = IF calls[c].refcount = 0 THEN @ + 1 ELSE @]
    /\ item' = [item EXCEPT ![t].callbacks = Tail(@)]
    /\ UNCHANGED <<nthreads, queues, notified, loaded, server, world, events>>

\* SetBlocksNotSent(), under the lock of the clients: what was modified will be
\* sent to them again.
SetBlocksNotSent(t) ==
    /\ item[t].callbacks = <<>>
    /\ Goes(t, "callback", "loop")
    /\ held' = [q \in Peer |-> held[q] \ item[t].modified_blocks]
    /\ stale' = [q \in Peer |-> stale[q] \ item[t].modified_blocks]
    /\ item' = [item EXCEPT ![t] = NoItem]
    /\ UNCHANGED <<nthreads, queues, notified, loaded, server, there, generated, memory,
                   m_unsent_map_edit_queue, deleted, calls, events>>

-----------------------------------------------------------------------------
(* The server thread sends blocks and unloads them, scripts delete them *)

\* Fault for UnsentUntilGenerated: blocks that are not generated are sent.
SendAnyBlock(q, p) ==
    /\ ServerReady
    /\ p \in Pos \ held[q]
    /\ held' = [held EXCEPT ![q] = @ \cup {p}]
    /\ UNCHANGED <<nthreads, queues, thread, server, there, generated, memory, stale,
                   m_unsent_map_edit_queue, deleted, calls, events>>

\* SendBlocks(): a generated block in memory is sent to a client that lacks it.
SendBlock(q, p) ==
    /\ ServerReady
    /\ p \in memory \ held[q]
    /\ held' = [held EXCEPT ![q] = @ \cup {p}]
    /\ UNCHANGED <<nthreads, queues, thread, server, there, generated, memory, stale,
                   m_unsent_map_edit_queue, deleted, calls, events>>

\* The map saves and unloads a block that was not used for a while.
Unload(p) ==
    /\ ServerReady
    /\ p \in memory /\ nthreads * events < MaxEvents
    /\ events' = events + 1
    /\ memory' = memory \ {p}
    /\ UNCHANGED <<nthreads, queues, thread, server, there, generated, held, stale,
                   m_unsent_map_edit_queue, deleted, calls>>

\* delete_area() of a script, which the server thread runs or an emerge thread
\* in a callback: the blocks go from memory and from disk, whatever becomes of
\* the rest of their chunk, and one map edit event names those that went.
DeleteArea(blocks) ==
    /\ EnvFree /\ nthreads * events < MaxEvents
    /\ events' = events + 1
    /\ blocks # {} /\ blocks \subseteq there
    /\ there' = there \ blocks
    /\ generated' = generated \ blocks
    /\ memory' = memory \ blocks
    /\ stale' = [q \in Peer |-> stale[q] \cup (held[q] \cap blocks)]
    /\ m_unsent_map_edit_queue' = m_unsent_map_edit_queue \cup blocks
    /\ deleted' = deleted \cup blocks
    /\ UNCHANGED <<nthreads, queues, thread, server, held, calls>>

\* The server thread, in AsyncRunStep(), empties the queue of map edit events:
\* setBlockNotSent() for what was deleted.
SendMapEdits ==
    /\ ServerReady
    /\ m_unsent_map_edit_queue # {}
    /\ held' = [q \in Peer |-> held[q] \ m_unsent_map_edit_queue]
    /\ stale' = [q \in Peer |-> stale[q] \ m_unsent_map_edit_queue]
    /\ m_unsent_map_edit_queue' = {}
    /\ UNCHANGED <<nthreads, queues, thread, server, there, generated, memory, deleted,
                   calls, events>>

-----------------------------------------------------------------------------
ThreadStep(t) ==
    \/ EndRun(t)
    \/ PopNothing(t)
    \/ Wait(t)
    \/ Pop(t)
    \/ GetFromMemory(t)
    \/ GetFromDisk(t)
    \/ StartGen(t)
    \/ GetNothing(t)
    \/ FinishGen(t)
    \/ LoadRefcount(t)
    \/ StoreRefcount(t)
    \/ Report(t)
    \/ DeleteState(t)
    \/ SetBlocksNotSent(t)

Next ==
    \/ \E q \in Peer \cup {PEER_ID_INEXISTENT}, p \in Pos, flags \in {{}, {"ALLOW_GEN"}} :
          Request(q, p, flags)
    \/ \E area \in Areas : StartEmergeArea(area)
    \/ EmergeAreaBlock
    \/ \E t \in signalling : Signal(t)
    \/ startThreads
    \/ Shutdown
    \/ \E t \in Started : stopThreads(t)
    \/ \E t \in Started : ThreadStep(t)
    \/ \E q \in Peer, p \in Pos : SendBlock(q, p)
    \/ \E p \in Pos : Unload(p)
    \/ \E blocks \in SUBSET there : DeleteArea(blocks)
    \/ SendMapEdits

Spec == Init /\ [][Next]_vars

\* The server thread goes on with what it began, starts the emerge threads
\* (AsyncRunStep does every two seconds) and stops them in the end; they go on
\* whenever they do not wait, the locks are held only for a while.
Fairness ==
    /\ WF_vars(EmergeAreaBlock)
    /\ WF_vars(startThreads)
    /\ \A t \in Thread :
          /\ WF_vars(Signal(t))
          /\ WF_vars(t \in Started /\ stopThreads(t))
          /\ WF_vars(t \in Started /\ ThreadStep(t))

FairSpec == Spec /\ Fairness

-----------------------------------------------------------------------------
(* What the emerge threads are for *)

Entry == [peer_requested : Peer \cup {PEER_ID_INEXISTENT}, flags : SUBSET Flags,
          callbacks : Seq(1 .. MaxCalls)]
Item == [pos : Pos \cup {0}, flags : SUBSET Flags, callbacks : Seq(1 .. MaxCalls),
         action : Action, modified_blocks : SUBSET Pos]
Call == [area : Areas, refcount : Nat, freed : Nat,
         answers : Seq([pos : Pos, action : Action, calls_remaining : Nat])]
Place == {"new", "loop", "wait", "get", "make", "callback", "store", "report",
          "delete", "ended"}

TypeOK ==
    /\ nthreads \in Thread
    /\ DOMAIN m_blocks_enqueued \subseteq Pos
    /\ \A p \in DOMAIN m_blocks_enqueued : m_blocks_enqueued[p] \in Entry
    /\ m_peer_queue_count \in [Peer \cup {PEER_ID_INEXISTENT} -> Nat]
    /\ m_block_queue \in [Thread -> Seq(Pos)]
    /\ notified \in [Thread -> BOOLEAN] /\ stop \in [Thread -> BOOLEAN]
    /\ pc \in [Thread -> Place] /\ item \in [Thread -> Item]
    /\ loaded \in [Thread -> Nat]
    /\ signalling \subseteq Thread /\ emerging \subseteq Pos /\ shutdown \in BOOLEAN
    /\ memory \subseteq generated /\ generated \subseteq there /\ there \subseteq Pos
    /\ m_unsent_map_edit_queue \subseteq deleted /\ deleted \subseteq Pos
    /\ held \in [Peer -> SUBSET Pos] /\ stale \in [Peer -> SUBSET Pos]
    /\ calls \in Seq(Call) /\ Len(calls) =< MaxCalls
    /\ events \in 0 .. MaxEvents

\* The places in the queues of the threads.
Slots == UNION {{<<t, i>> : i \in DOMAIN m_block_queue[t]} : t \in Thread}

\* Every entry of the manager is in the queue of one thread, once, and every
\* block a thread finds in its queue has an entry: a block asked for again and
\* again, while threads take blocks, is neither queued twice nor left behind.
QueuesMatch ==
    /\ \A s \in Slots : m_block_queue[s[1]][s[2]] \in DOMAIN m_blocks_enqueued
    /\ \A p \in DOMAIN m_blocks_enqueued :
          \E s \in Slots : \A r \in Slots :
             m_block_queue[r[1]][r[2]] = p <=> r = s

\* A peer counts the entries it was the first to ask for, whoever asked again,
\* and has never more of them queued than the limit.
PeerCountsRight ==
    /\ \A q \in Peer \cup {PEER_ID_INEXISTENT} : m_peer_queue_count[q] =
          Cardinality({p \in DOMAIN m_blocks_enqueued :
                         m_blocks_enqueued[p].peer_requested = q})
    /\ \A q \in Peer : \/ m_peer_queue_count[q] =< m_qlimit_generate
                        \/ m_peer_queue_count[q] =< m_qlimit_diskonly

\* No client is left with an old version of a block: the thread that wrote the
\* new one will have it sent again, or the map edit event of its deletion will,
\* although others run before.
ClientsCurrent ==
    \A q \in Peer : stale[q] \subseteq m_unsent_map_edit_queue
                                 \cup UNION {item[t].modified_blocks : t \in Started}

\* The callback of call c has been told of a block, its thread has still to look
\* whether that was the last.
LooksAtCount(t, c) == pc[t] = "delete" /\ Head(item[t].callbacks) = c

\* Somebody has still to use the state of call c.
InUse(c) ==
    \/ \E p \in DOMAIN m_blocks_enqueued : c \in Range(m_blocks_enqueued[p].callbacks)
    \/ \E t \in Started : c \in Range(item[t].callbacks)

\* What became of call c: each callback was told how many blocks of the area
\* are unanswered; the state is freed, once, when all were answered, and then
\* nobody has it any more.
CallCounted(c) ==
    /\ \A i \in DOMAIN calls[c].answers :
          calls[c].answers[i].calls_remaining = Cardinality(calls[c].area) - i
    /\ calls[c].freed =
          IF /\ Len(calls[c].answers) = Cardinality(calls[c].area)
             /\ \A t \in Started : ~ LooksAtCount(t, c)
          THEN 1 ELSE 0
    /\ calls[c].freed = 1 => ~ InUse(c)

\* As long as one thread runs, the calls of emerge_area() are counted right,
\* although blocks over the limit are dropped and blocks are asked for again.
CallsCounted ==
    nthreads = 1 => \A c \in DOMAIN calls : CallCounted(c)

\* Whatever the number of threads, each callback is told how many are to come
\* (the same line of lua_api.txt).
CallsRemainingTrue ==
    \A c \in DOMAIN calls : \A i \in DOMAIN calls[c].answers :
       calls[c].answers[i].calls_remaining = Cardinality(calls[c].area) - i

\* finishGen() ignores the map edit events of the chunk it generates "because
\* the block hasn't been sent to anybody".  This is so as long as one thread
\* runs and no block of the chunk was deleted: of two threads that generate the
\* same chunk, the second writes over what may have been sent, and so does one
\* that generates a chunk again for a block that was deleted.
UnsentUntilGenerated ==
    \A t \in Started, q \in Peer :
       (nthreads = 1 /\ pc[t] = "make" /\ ChunkOf(item[t].pos) \cap deleted = {})
          => held[q] \cap ChunkOf(item[t].pos) = {}

Promise == INSTANCE EmergeArea WITH
               Block <- Pos, Area <- Areas, Answer <- Action, Cancelled <- "CANCELLED",
               Remaining <- 0 .. Cardinality(Pos),
               there <- generated, deleted <- deleted,
               asked <- [c \in DOMAIN calls |-> calls[c].area],
               answered <- [c \in DOMAIN calls |-> calls[c].answers]

\* However the requests for a block are merged and whichever thread takes it, a
\* script is answered at most once for it, and no block is said to have been
\* found or generated that is not there, unless it was deleted.
ImplementsPromise == Promise!Spec

\* A script gets an answer for every block of its area within the limits,
\* unless the server stops.
EveryCallAnswered ==
    \A c \in 1 .. MaxCalls, p \in Pos :
       c \in DOMAIN calls /\ p \in calls[c].area /\ ~ blockpos_over_limit(p)
          ~> \/ shutdown
             \/ c \in DOMAIN calls /\ \E i \in DOMAIN calls[c].answers :
                                        calls[c].answers[i].pos = p

\* Stopping the threads does not hang: a thread that waits is woken up.
ThreadsEnd == shutdown ~> \A t \in Started : pc[t] \in {"new", "ended"}
=============================================================================
