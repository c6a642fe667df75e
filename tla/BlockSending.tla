---------------------------- MODULE BlockSending ----------------------------
(***************************************************************************)
(* How the blocks of the map get to a client and how the server keeps      *)
(* track of them (RemoteClient in clientiface.cpp, SendBlocks and the map  *)
(* edit events in server.cpp, the mesh queue in client.cpp).               *)
(*                                                                         *)
(* One client; its blocks are generated and in its sight.  What a block    *)
(* holds is how often it was changed as a whole, and the last value of the *)
(* node that is edited by itself.  The three queues between server and     *)
(* client are reliable channels (ReliableChannel): in order, none lost,    *)
(* but independent of each other.                                          *)
(*                                                                         *)
(* The server's actions run under m_env_mutex, except SetBlocksNotSent of  *)
(* an emerge thread, which has the lock of the clients only; the handler   *)
(* of GOTBLOCKS does not take that one.                                    *)
(***************************************************************************)
EXTENDS Integers, Sequences, FiniteSets

CONSTANTS
    Block,
    NoBlock,         \* no handler is at work
    NotThere,        \* the client does not have the block
    MaxSends,        \* max_simultaneous_block_sends_per_client
    MaxChanges,      \* bound: changes of whole blocks
    MaxInteracts     \* bound: edits of a node, digs in vain, blocks the client unloads

ASSUME BlockSendingAssumption ==
    /\ NoBlock \notin Block
    /\ MaxSends \in Nat \ {0}
    /\ {MaxChanges, MaxInteracts} \subseteq Nat
    /\ NotThere \notin [whole : Nat, node : Nat]

VARIABLES
    \* Server: the map, m_unsent_map_edit_queue, the blocks an emerge thread has
    \* changed and is about to set not sent
    map, m_unsent_map_edit_queue, emerged,
    \* RemoteClient; the block that handleCommand_GotBlocks has found unmodified
    m_blocks_sent, m_blocks_sending, m_blocks_modified, unmodified,
    \* the channels: BLOCKDATA (2), ADDNODE and REMOVENODE (0), GOTBLOCKS and
    \* DELETEDBLOCKS (2)
    blockdata, nodedata, answers,
    \* Client: its map, blocks to acknowledge in the queues in and out of the
    \* mesh thread
    copy, m_queue_in, m_queue_out,
    raced,           \* history: an emerge thread came between test and insertion
    changes, interacts        \* how many there were

server  == <<map, m_unsent_map_edit_queue, emerged>>
tracked == <<m_blocks_sent, m_blocks_sending, m_blocks_modified>>
network == <<blockdata, nodedata, answers>>
client  == <<copy, m_queue_in, m_queue_out>>
vars    == <<server, tracked, unmodified, network, client, raced, changes, interacts>>

Init ==
    /\ map = [p \in Block |-> [whole |-> 0, node |-> 0]]
    /\ m_unsent_map_edit_queue = <<>> /\ emerged = {}
    /\ m_blocks_sent = {} /\ m_blocks_sending = {} /\ m_blocks_modified = {}
    /\ unmodified = NoBlock
    /\ blockdata = <<>> /\ nodedata = <<>> /\ answers = <<>>
    /\ copy = [p \in Block |-> NotThere]
    /\ m_queue_in = {} /\ m_queue_out = [p \in Block |-> 0]
    /\ raced = FALSE /\ changes = 0 /\ interacts = 0

-----------------------------------------------------------------------------
(* RemoteClient *)

\* Fault for SentBlocksCurrent: the block is not remembered as modified.
SetBlockNotSentForgotten(p) ==
    /\ m_blocks_sending' = m_blocks_sending \ {p}
    /\ m_blocks_sent' = m_blocks_sent \ {p}
    /\ UNCHANGED m_blocks_modified

SetBlockNotSent(p) ==
    /\ m_blocks_sending' = m_blocks_sending \ {p}
    /\ m_blocks_sent' = m_blocks_sent \ {p}
    /\ m_blocks_modified' = m_blocks_modified \cup {p}

ResendBlockIfOnWire(p) ==
    IF p \in m_blocks_sending THEN SetBlockNotSent(p) ELSE UNCHANGED tracked

\* Fault for CurrentInTheEnd: the block stays modified.
SentBlockModified(p) ==
    /\ m_blocks_sending' = m_blocks_sending \cup {p}
    /\ UNCHANGED <<m_blocks_sent, m_blocks_modified>>

SentBlock(p) ==
    /\ m_blocks_modified' = m_blocks_modified \ {p}
    /\ m_blocks_sending' = m_blocks_sending \cup {p}
    /\ UNCHANGED m_blocks_sent

\* What GetNextBlocks() selects.
ToSend(p) ==
    /\ Cardinality(m_blocks_sending) < MaxSends
    /\ p \notin m_blocks_sending /\ p \notin m_blocks_sent

-----------------------------------------------------------------------------
(* The server changes blocks and sends them *)

EnvFree == unmodified = NoBlock

Change(p) ==
    /\ changes < MaxChanges
    /\ changes' = changes + 1
    /\ map' = [map EXCEPT ![p].whole = @ + 1]

Edit(p) ==
    /\ interacts < MaxInteracts
    /\ interacts' = interacts + 1
    /\ map' = [map EXCEPT ![p].node = @ + 1]
    /\ m_unsent_map_edit_queue' =
          Append(m_unsent_map_edit_queue, [type |-> "MEET_ADDNODE", p |-> p,
                                           n |-> map[p].node + 1])

\* Liquids flow: the blocks are set not sent under the same lock.
TransformLiquids(p) ==
    /\ EnvFree /\ Change(p) /\ SetBlockNotSent(p)
    /\ UNCHANGED <<m_unsent_map_edit_queue, emerged, unmodified, network, client, raced, interacts>>

\* A script writes a part of the map.
ChangeByScript(p) ==
    /\ EnvFree /\ Change(p)
    /\ m_unsent_map_edit_queue' =
          Append(m_unsent_map_edit_queue, [type |-> "MEET_OTHER", p |-> p, n |-> 0])
    /\ UNCHANGED <<emerged, tracked, unmodified, network, client, raced, interacts>>

\* Another player or a script changes one node.
EditNode(p) ==
    /\ EnvFree /\ Edit(p)
    /\ UNCHANGED <<emerged, tracked, unmodified, network, client, raced, changes>>

\* The player of this client digs the node.
Dig(p) ==
    /\ EnvFree /\ Edit(p) /\ ResendBlockIfOnWire(p)
    /\ UNCHANGED <<emerged, unmodified, network, client, raced, changes>>

\* The node is not removed, which the client has to be told.
DigInVain(p) ==
    /\ EnvFree /\ interacts < MaxInteracts
    /\ interacts' = interacts + 1
    /\ SetBlockNotSent(p)
    /\ UNCHANGED <<server, unmodified, network, client, raced, changes>>

\* AsyncRunStep(), one event.  A node is sent by itself unless the player is far.
SendMapEditEvent ==
    /\ EnvFree /\ m_unsent_map_edit_queue # <<>>
    /\ m_unsent_map_edit_queue' = Tail(m_unsent_map_edit_queue)
    /\ LET event == Head(m_unsent_map_edit_queue)
       IN  \/ SetBlockNotSent(event.p) /\ UNCHANGED nodedata
           \/ /\ event.type = "MEET_ADDNODE"
              /\ nodedata' = Append(nodedata, [p |-> event.p, n |-> event.n])
              /\ UNCHANGED tracked
    /\ UNCHANGED <<map, emerged, unmodified, blockdata, answers, client, raced, changes, interacts>>

\* An emerge thread changes blocks under m_env_mutex and sets them not sent later.
FinishGen(p) ==
    /\ EnvFree /\ Change(p)
    /\ emerged' = emerged \cup {p}
    /\ UNCHANGED <<m_unsent_map_edit_queue, tracked, unmodified, network, client, raced, interacts>>

SetBlocksNotSent(p) ==
    /\ p \in emerged
    /\ emerged' = emerged \ {p}
    /\ SetBlockNotSent(p)
    /\ raced' = (raced \/ unmodified = p)
    /\ UNCHANGED <<map, m_unsent_map_edit_queue, unmodified, network, client, changes, interacts>>

\* SendBlocks(), one block.
SendBlock(p) ==
    /\ EnvFree /\ ToSend(p)
    /\ blockdata' = Append(blockdata, [p |-> p, content |-> map[p]])
    /\ SentBlock(p)
    /\ UNCHANGED <<server, unmodified, nodedata, answers, client, raced, changes, interacts>>

-----------------------------------------------------------------------------
(* The server handles GOTBLOCKS and DELETEDBLOCKS *)

\* GotBlock(), first half: the block was modified, or it was not.
GotBlock ==
    /\ EnvFree /\ answers # <<>> /\ Head(answers).type = "GOTBLOCKS"
    /\ answers' = Tail(answers)
    /\ unmodified' = IF Head(answers).p \in m_blocks_modified THEN NoBlock
                                                             ELSE Head(answers).p
    /\ UNCHANGED <<server, tracked, blockdata, nodedata, client, raced, changes, interacts>>

\* GotBlock(), second half.
MarkSent ==
    /\ unmodified # NoBlock
    /\ m_blocks_sending' = m_blocks_sending \ {unmodified}
    /\ m_blocks_sent' = m_blocks_sent \cup {unmodified}
    /\ unmodified' = NoBlock
    /\ UNCHANGED <<server, m_blocks_modified, network, client, raced, changes, interacts>>

DeletedBlocks ==
    /\ EnvFree /\ answers # <<>> /\ Head(answers).type = "DELETEDBLOCKS"
    /\ answers' = Tail(answers)
    /\ SetBlockNotSent(Head(answers).p)
    /\ UNCHANGED <<server, unmodified, blockdata, nodedata, client, raced, changes, interacts>>

-----------------------------------------------------------------------------
(* The client *)

\* The block is taken over, and acknowledged once it has a mesh.
ReceiveBlockData ==
    /\ blockdata # <<>>
    /\ blockdata' = Tail(blockdata)
    /\ LET data == Head(blockdata)
       IN  /\ copy' = [copy EXCEPT ![data.p] = data.content]
           /\ m_queue_in' = m_queue_in \cup {data.p}
    /\ UNCHANGED <<server, tracked, unmodified, nodedata, answers, m_queue_out, raced, changes, interacts>>

\* A node of a block that is not there is ignored.
ReceiveAddNode ==
    /\ nodedata # <<>>
    /\ nodedata' = Tail(nodedata)
    /\ LET data == Head(nodedata)
       IN  copy' = IF copy[data.p] = NotThere THEN copy
                   ELSE [copy EXCEPT ![data.p].node = data.n]
    /\ UNCHANGED <<server, tracked, unmodified, blockdata, answers, m_queue_in, m_queue_out, raced, changes, interacts>>

\* Fault for SendingIsAnswered: a mesh that is made again loses its acknowledgement.
DoUpdateOnce(p) ==
    /\ p \in m_queue_in
    /\ m_queue_in' = m_queue_in \ {p}
    /\ m_queue_out' = [m_queue_out EXCEPT ![p] = 1 - @]
    /\ UNCHANGED <<server, tracked, unmodified, network, copy, raced, changes, interacts>>

\* MeshUpdateThread::doUpdate().  A block that is already in m_queue_in is not
\* added again, one in m_queue_out is.
DoUpdate(p) ==
    /\ p \in m_queue_in
    /\ m_queue_in' = m_queue_in \ {p}
    /\ m_queue_out' = [m_queue_out EXCEPT ![p] = @ + 1]
    /\ UNCHANGED <<server, tracked, unmodified, network, copy, raced, changes, interacts>>

\* Fault for TypeOK: each mesh is acknowledged, also one made for another reason.
sendGotBlocksAlways(p) ==
    /\ copy[p] # NotThere
    /\ m_queue_out' = [m_queue_out EXCEPT ![p] = @ - 1]
    /\ answers' = Append(answers, [type |-> "GOTBLOCKS", p |-> p])
    /\ UNCHANGED <<server, tracked, unmodified, blockdata, nodedata, copy, m_queue_in, raced, changes, interacts>>

\* Client::step(), of a mesh that is to be acknowledged.
sendGotBlocks(p) ==
    /\ m_queue_out[p] > 0
    /\ m_queue_out' = [m_queue_out EXCEPT ![p] = @ - 1]
    /\ answers' = Append(answers, [type |-> "GOTBLOCKS", p |-> p])
    /\ UNCHANGED <<server, tracked, unmodified, blockdata, nodedata, copy, m_queue_in, raced, changes, interacts>>

\* Map::timerUpdate() of the client unloads a block it has not used for long.
sendDeletedBlocks(p) ==
    /\ interacts < MaxInteracts /\ copy[p] # NotThere
    /\ interacts' = interacts + 1
    /\ copy' = [copy EXCEPT ![p] = NotThere]
    /\ answers' = Append(answers, [type |-> "DELETEDBLOCKS", p |-> p])
    /\ UNCHANGED <<server, tracked, unmodified, blockdata, nodedata, m_queue_in, m_queue_out, raced, changes>>

-----------------------------------------------------------------------------
ServerStep(p) ==
    \/ TransformLiquids(p) \/ ChangeByScript(p) \/ EditNode(p)
    \/ Dig(p) \/ DigInVain(p)
    \/ FinishGen(p) \/ SetBlocksNotSent(p) \/ SendBlock(p)

ClientStep(p) == DoUpdate(p) \/ sendGotBlocks(p) \/ sendDeletedBlocks(p)

Next ==
    \/ \E p \in Block : ServerStep(p) \/ ClientStep(p)
    \/ SendMapEditEvent \/ GotBlock \/ MarkSent \/ DeletedBlocks
    \/ ReceiveBlockData \/ ReceiveAddNode

Spec == Init /\ [][Next]_vars

\* The threads of both sides go on, every packet arrives, and the player does
\* not look away for good.
Fairness ==
    /\ \A p \in Block : /\ WF_vars(SetBlocksNotSent(p)) /\ WF_vars(SendBlock(p))
                        /\ WF_vars(DoUpdate(p)) /\ WF_vars(sendGotBlocks(p))
    /\ WF_vars(SendMapEditEvent) /\ WF_vars(GotBlock) /\ WF_vars(MarkSent)
    /\ WF_vars(DeletedBlocks) /\ WF_vars(ReceiveBlockData) /\ WF_vars(ReceiveAddNode)

FairSpec == Spec /\ Fairness

-----------------------------------------------------------------------------
(* Properties *)

Content == [whole : 0 .. MaxChanges, node : 0 .. MaxInteracts]

\* Every variable has its type.
TypeOK ==
    /\ map \in [Block -> Content]
    /\ m_unsent_map_edit_queue \in
          Seq([type : {"MEET_ADDNODE", "MEET_OTHER"}, p : Block, n : 0 .. MaxInteracts])
    /\ emerged \subseteq Block
    /\ m_blocks_sent \subseteq Block /\ m_blocks_sending \subseteq Block
    /\ m_blocks_modified \subseteq Block /\ unmodified \in Block \cup {NoBlock}
    /\ blockdata \in Seq([p : Block, content : Content])
    /\ nodedata \in Seq([p : Block, n : 0 .. MaxInteracts])
    /\ answers \in Seq([type : {"GOTBLOCKS", "DELETEDBLOCKS"}, p : Block])
    /\ copy \in [Block -> Content \cup {NotThere}]
    /\ m_queue_in \subseteq Block /\ m_queue_out \in [Block -> Nat]
    /\ raced \in BOOLEAN /\ changes \in 0 .. MaxChanges /\ interacts \in 0 .. MaxInteracts

\* What the client has, or has last been sent, of a block.
Newest(p) ==
    LET sent == {i \in DOMAIN blockdata : blockdata[i].p = p}
    IN  IF sent = {} THEN copy[p]
        ELSE blockdata[CHOOSE i \in sent : \A j \in sent : j =< i].content

\* Somebody is yet to tell m_blocks_modified of a change of block p.
ChangePending(p) ==
    \/ p \in emerged
    \/ \E i \in DOMAIN m_unsent_map_edit_queue :
          m_unsent_map_edit_queue[i].type = "MEET_OTHER" /\ m_unsent_map_edit_queue[i].p = p

Answered(type, p) == \E i \in DOMAIN answers : answers[i].type = type /\ answers[i].p = p

\* The server takes a block for sent, or on the wire, only when the client has
\* it, or is about to get it, with all changes of the block as a whole
\* (m_blocks_modified): no acknowledgement of an old version is taken for one
\* of the new version.
SentBlocksCurrent ==
    \A p \in m_blocks_sent \cup m_blocks_sending :
       \/ raced \/ ChangePending(p) \/ Answered("DELETEDBLOCKS", p)
       \/ Newest(p) # NotThere /\ Newest(p).whole = map[p].whole

\* A block counted as being sent is on its way to an acknowledgement that will be
\* heeded: no entry of m_blocks_sending stays and blocks the others for ever.
SendingIsAnswered ==
    \A p \in m_blocks_sending :
       /\ p \notin m_blocks_modified
       /\ \/ \E i \in DOMAIN blockdata : blockdata[i].p = p
          \/ p \in m_queue_in \/ m_queue_out[p] > 0
          \/ Answered("GOTBLOCKS", p) \/ unmodified = p

\* Once the changes cease, the client has each block with all changes of it as a
\* whole, for good: none is lost, and no block waits for ever for a free slot.
CurrentInTheEnd ==
    \A p \in Block :
       <>[](raced \/ (copy[p] # NotThere /\ copy[p].whole = map[p].whole))

\* clientiface.h says that blocks modified while on the line are not marked as
\* sent: once nothing is on its way, a block marked as sent is the server's.
MarkedAsSentIsCurrent ==
    (blockdata = <<>> /\ nodedata = <<>> /\ answers = <<>>
     /\ m_unsent_map_edit_queue = <<>> /\ emerged = {})
    => \A p \in m_blocks_sent : copy[p] = map[p]
=============================================================================
