# FastFileTrans in TLA+

A verification development beside the C sources: TLA+ modules translated from the code,
TLC configurations that check them on small instances, and theorems checked by TLAPS.
References of the form `file.c:line` are to `src/source` and `src/include`.

## The system

FastFileTrans is a library (`libqft`) that cuts a file into pictures, frames and blocks, sends
the blocks as packets and puts the file together again; a STUN server and client with which peers
find each other; and a UDP relay (`udpbase.c`, not among the Makefile's sources and in need of a
`cJSON.h` that is not there) with a session list, a broadcaster and a thread pool.

| component | state | operations | interacts with | what is hard | what makes it correct |
|---|---|---|---|---|---|
| geometry (`call_test` 316-380, `raw2pkt`, `get_picture`) | sizes of picture, frame, block, cache | divisions, offsets | shared by sender and receiver | three functions compute the same sizes separately; short last frame | payloads tile the picture, the receiver visits what is sent, buffers suffice |
| sender (`file_raw2pkt.c`, `file_rtp.c`) | read buffer, packet buffer, ids of group, picture, frame, packet, copy of every block | read a picture, packetise a frame, build start and end packet | hands packets to the receiver | ids that wrap, rewinding buffers, end of the file | indexes without a gap up to the end packet, a copy under the ids of each packet, everything announced is sent |
| receiver (`file_pkt2raw.c`) | slots of pictures of frames of blocks, five kinds of counters | `pkt2cache`, `get_picture`, `free_picture`, `create_vector` | called per packet | retransmitted, late, missing packets; a slot used again | counters agree with the blocks, no full picture is left, no block disappears |
| STUN server (`base_stun.c`, `stun_list.c`) | sessions and the list of the members of each | kReg, kPeers, kHeartBeat, kBye, kExit | datagrams from and to every client | loss, repetition, overtaking, list longer than a datagram, freed lists | members of a session get to know each other, but for later ones with the same `self_session_id` |
| P2P client (`base_stun.c`) | own session, a joined one, the lists of both, pings | receive, ping, heartbeat and main threads | server and other clients | retries crossing late answers, which list an answer is for | one session per client, members in the right list |
| start and stop of both (`api_socket_start`, `api_socket_stop`, `socket_close`) | `status`, the lists, thread handles | create, clear, free, join | the loops of all threads | lists freed before the threads are joined, a thread that starts while others stop, a status set by the thread itself | the stop returns, no thread is left, freed lists are used only by a thread in the middle of a turn |
| thread pool (`udpbase.c` 2058-2262) | list of tasks, counter, shutdown | init, add, delete, destroy, worker | mutex and condition variable | lost wake-ups, spurious wake-ups, calls out of lock | assertions hold, each waiting task is taken, destroy returns |
| relay commands and broadcaster (`udpbase.c` 822-1580) | sessions, list of registered clients, counters of what each was told | 13 commands; walk of the list per session | two threads on one list | nodes freed while used, status read before and used after | the broadcaster keeps off freed nodes, who is told of a life is told of the death |
| relay channels (`udpbase.c` 691-734, 1159-1255, 1398-1439) | free channels and random numbers per session, channels noted in each client's node | ask, confirm, register, give back | sessions that close, nodes that are deleted | notes for all sessions together, late and repeated commands, a write to index -1 | a channel has one holder, a taken one has a holder |
| relay data, queue, stop (`udpbase.c` 368-440, 551-690, 1581-1742, 1807-2057) | list of datagrams, three status words, a session's decoders | push, take all, handle, relay; stop and wait | three threads and two locks | list handed over while it grows, statuses set by two threads and waited for in loops, a send that fails | each datagram in one place and in order, decoders get their channel, the stop returns |
| node lists (`stun_list.c`, `udpbase.c`, and `file_list.c`, `file_frame.c`, `file_pic.c`, `file_group.c`, which are not compiled in) | pointers, tail, count, numbers | create, add, find, delete, free | used by STUN and relay | the tail after a deletion | the pointers lead to the nodes added and not deleted, in order |
| `pkt2file`, `count_bw`, `count_net_delay`, `get_rtx`, `count_lossrate`, `get_picture_all` | statistics, index file | | | no caller, but for `count_bw`, which nothing reads | not modelled |
| `test.py`, build files | | | | | not modelled: drivers and build scripts |

`PROJECT.json` has the same list with its status, and under `hazards` each place in the code where
something hard to test can go wrong, with the properties that would show it.

## Modules

| module | models | composes |
|---|---|---|
| `FileGeometry` | the arithmetic of picture, frame, block and buffer sizes, as operators | |
| `GeometryCheck` | states what it is for, over choices of sizes; instantiated by `MCFileTransfer` | `FileGeometry` |
| `PktCache` | the receiver: one `Receive` step is one call of `pkt2cache` with all it calls | |
| `PktCacheProofs` | its inductive invariant and theorems | `PktCache` |
| `FileSender` | `raw2pkt` and `call_test`'s loops: a step reads a picture or packetises a frame | `FileGeometry` |
| `FileTransfer` | `call_test`: sender and receiver in lock step | `FileSender`, `PktCache` |
| `FileTransferProofs` | the arithmetic of the sizes, sender, transfer and network: invariants and theorems; extends `MCNetTransfer`, to speak of the checked network too | `MCNetTransfer` |
| `FileCopy` | abstract: the pictures come out one by one, whole and in order (`Safety`), and all of them do (`Spec`) | |
| `NetTransfer` | sender and receiver with a network (external) between them | `FileTransfer` |
| `StunServer` | the handlers of `server_recv_run`, with `send_stun_list` | |
| `StunClient` | the threads of a client and the two test programs | |
| `StunNet` | server, clients and the datagrams between them | `StunServer`, `StunClient` |
| `StunNetProofs` | its inductive invariants and theorems; extends `MCStun`, to speak of the casts of the run too | `MCStun` |
| `ThreadPool` | the workers and the owner's calls, one step per critical section | |
| `ThreadPoolProofs` | its inductive invariant and theorems | `ThreadPool` |
| `RelayCmds` | `ProcessCmd` on sessions and on the broadcast list | |
| `Relay` | the same with the broadcaster, `server_broadcast_run`, beside it | `RelayCmds` |
| `RelayProofs` | who is at which node, and who has been told what: inductive invariants and theorems | `Relay` |
| `RelayChans` | kGetChanId, kReg and kBye on the channels, and what other commands do to them | |
| `RelayChansProofs` | the channels and the list of `NodeList`: inductive invariants and theorems; extends `MCRelayChans`, which holds both | `MCRelayChans` |
| `RelayStream` | kReg, kSessionClose and `RelayData` for the decoders of a session | |
| `RelayServer` | receiver, sender and broadcaster thread from start to stop, with the queue between them | `RelayStream` |
| `RelayServerProofs` | its inductive invariant and theorems | `RelayServer` |
| `StunStop` | start and stop of the STUN server and of the client against their threads | |
| `StunStopProofs` | its inductive invariant and theorems | `StunStop` |
| `NodeList` | the linked list, pointer by pointer; implements `NodeSeq` | |
| `NodeSeq` | abstract: a sequence of nodes | |
| `MC...` | values of the constants for TLC | |

How the state corresponds to the code. In `PktCache`, `item[p][f][b]` is the `PktItem` of slot, frame and
block, `frameNum`, `picNum`, `complete`, `completeNum`, `groupNum` and `pktNum` are the fields `num`,
`complete`, `complete_num` and `lrCount.pkt_num`; what a packet carries is the number of its picture
(`src`), so an image is a function from blocks to picture numbers with holes. `Marked` is -2, what the 2
stored in the two-bit signed field reads back as. In `FileSender` every variable is the field or local
variable its comment names; `wire` are the packets that `raw2pkt` made and `pkt2cache` has not got yet;
in `sndCache` a kept item says from which byte of which picture it was copied and how many bytes.
In `StunServer` and `StunClient` a place of `pClientInfo` is a record with a flag for the pointer and a
sequence for the list; the loops of `send_stun_list` and of kPeers in `client_recv_run` are recursive
functions (`Visited`, `Added`) of how far the loop has got. An address stands for a client: the server
fills in the address it sees (`remote_ip`, `remote_port`), `local_ip` is always 0.0.0.0 and the port's
byte order is swapped twice in `ping_loop`. In `ThreadPool` the program counter of a worker says where it
stands between two operations on the mutex or the condition. In `RelayCmds` a command is two steps where
the code calls `findnode` and goes on with the node after the unlock; `wild` records that freed or absent
memory was used, and nothing is claimed of the program after it. In `RelayServer` a datagram is its
number in the order of arrival; `rpc`, `spc` and `bpc` say where the threads stand between two accesses
of `status_lock`, and `overtook` that `StopSend` came before the sender had set its status. In
`RelayChans` the entry -1 of `chanIdList` is membership in `free`; `Overlaid` are the last four channels,
over which `randIdList[-1]` lies, and `BytesFF` which bytes of a random number are 0xFF and so make a
channel free again (`char` signed, the layout of `SessionInfo` without padding in between). In `StunStop`
a thread is within a pass of its loop, or between two. In `NodeList`, `At[i]` is the node that a walk
meets after i steps.

Definitions whose comment begins with "Mutant of" are plausible bugs of a definition; they are not
part of any specification and serve to show that a property can fail.

## Runs

| run | what it shows | bounds and why they are enough |
|---|---|---|
| `PktCache` | counters agree with the blocks (`NumsCount`: num of frame and picture, and the bounds of complete_num); a full picture does not stay; held blocks stay | 2 slots of 2x2 blocks, packets of two groups in any order and number, two start packets, truncated and out-of-range packets; two slots suffice because a step touches one |
| `FileTransfer` | implements `FileCopy`, ends, and keeps ids, copies, slots and buffers in step (`CopiesKept`: under the ids of every packet of the current round of slots is a copy that begins with its payload; the copy is of raw data, see below); `SizesAgree`: payloads tile the picture, `get_picture` visits the blocks `raw2pkt` sends, frames and buffers hold what goes into them (for pictures of whole blocks: one with a short block needs a header more than was reckoned) | all files of up to 72 bytes with pictures of 7 (several groups, several rewinds, a wrap of the ids at 8 instead of 512); pictures of 1-20 bytes with three cache, three block, two header sizes and three frame limits: every relation of divisor and remainder |
| `NetTransfer` | pictures of whole blocks survive any reordering in which no data outruns the start packet (`IntactIfReordered`), and all come out, but at most one if a packet is lost or does outrun the start packet, which pkt2cache then drops (`ArriveIfReordered`); a loss costs at most one picture, a repetition adds at most one, a hole only in the last frame (`FaultsBounded`); the end packet is built when all is packetised, has the next index and arrives last (`EndPacketOfOneFrame`) | three networks: four pictures and a window of 8 packets, so packets of neighbouring pictures mix and a group is used again, with one packet lost or ahead of the start packet (with a window of 9 a packet may be a whole group late and is dropped: a picture is missing then, the others stay intact), and `pic_id` wraps at 6; four pictures in two groups with two losses and two repetitions anywhere; and pictures of one frame, the only ones of which an end packet is built, in order |
| `Stun` | each client its own session, members know each other (a later one with the same `self_session_id` excepted), right list (`Typing...`); asking again makes up for lost answers, answers to pings find their list (`Rounds...`) | two typing users and a host, or host and guest of `api_socket_test` with a heartbeat and a ping each and two rounds; one fault; lists longer than a datagram (2 entries) |
| `StunStop` | the stop returns unless it overtakes the start; no thread survives it; only a thread within a pass uses freed lists | server, or client with all its threads; every order of steps |
| `ThreadPool` | assertions of the workers, one late task at most, every waiting task is taken, destroy returns | 3 workers, 3 tasks, 2 deletions: more workers than tasks and the reverse occur |
| `Relay` | freed nodes are met only after a `kExit`; who was told of a life is told of the death; all are told of a life | one session, two registrations, of two clients or twice of one; 2 instead of 3 announcements |
| `RelayServer` | each datagram is handled, in hand, waiting or dropped, in order; decoders get the stream; all is handled; the stop returns | four datagrams through a list for two, registrations for the data's channel or another, a send that fails, the session's end; two decoders and a drop both occur |
| `RelayChans` | a channel is held by one client, unless another's kBye set it free; and is taken only while held, unless it leaked. `ListIsSequence`: the list implements `NodeSeq` | two clients, two sessions, three channels of which the last is overlaid, two grants; three places for nodes, two keys, six additions, so first, middle and last nodes are deleted and places used again |
| `DocBlockNum` | violation: of a file of whole pictures the last one is cut after its first frame | files of up to 72 bytes |
| `DocLongTail` | violation: with a last packet that is, headers included, as long as a block, no picture comes out | picture of 8 bytes, blocks of 3, header of 1 |
| `DocPing` | violation: the answer to a ping marks the node of the client that pinged | host and guest, no fault |

Where a run has several parts (three networks, two casts, channels and list, call_test and the sizes), a
variable of the MC module says which part a behaviour belongs to, and the other stays as it began.

Deadlock checking is off where the system stops by itself: the file has been sent, all commands and
rounds have been used up, the pool is gone, or the program has used freed memory.

### Fairness

* `FileTransfer`: WF of the next step. `call_test` is one sequential loop.
* `NetTransfer`: WF of sending or delivering. Losses and repetitions are bounded and never owed; the
  properties with a loss need no fairness.
* `StunNet`: WF of the threads and of delivery. Counters are bounded, so no thread keeps another
  from its turn. Users owe no command.
* `ThreadPool`: WF of the end of an owner's call; SF of each worker, since a mutex lets each waiter in
  eventually and a task returns. Spurious wake-ups are free to happen or not.
* `Relay`: WF of the broadcaster and of a handler that has begun. No client owes a datagram; time
  may pass or not.
* `RelayServer`: WF of each thread's next step; nothing of a datagram's arrival, of a failing send or of
  the call to stop is owed.
* `StunStop`: WF of each thread, whose receive times out, and of the owner once it has begun to stop.

## Proofs

Each component has a module of proofs, which begins with the inductive invariant (`IInv`, or the ones named
below), has one lemma per action, and ends with the theorems. Every theorem holds for all values of
the constants that satisfy the ASSUMEs of the model's module; what is assumed beyond them is written
before the theorem as a named formula. A loop that the model writes as a recursive function (`Visited`,
`Added`) is reasoned about by least counterexample: the set of the naturals at which the
claim fails has a least element if it is not empty (`LeastNatural`), and that one does not fail.

### Receiver, `PktCacheProofs`

TypeOK and NumsCount (with its parts FrameNumCounts, PicNumCounts and CompleteNumBounds) are nearly
inductive. What they lack is `FullIsComplete`: a frame that holds all its blocks is marked complete. With
it NoFullPictureHeld follows: were every block of a picture there, all its frames would be marked, so
complete_num would be at least the number of frames, and it is always below it. BlockKept, an action
property, is proved from the same invariant, by the kinds of packets.

`TotalsCorrect`: TotalsAccount, with `NothingBefore` (before the start packet nothing is counted, held or
out) and `HeldInside` (what is held will be visited by get_picture, and so comes out when the picture does).
The latter assumes `PacketsInside`, that no packet carries a block which get_picture does not visit;
raw2pkt makes none, by `PayloadsTile`.

### Sizes, sender, transfer and network, `FileTransferProofs`

* `PayloadsTile`: for all sizes, raw2pkt sends the blocks get_picture visits, and every byte of a picture is
  in one payload at the offset where get_picture puts it.
* `WholeBlocksFit`: out_buf has room for what is packetised between two rewinds, for pictures of whole blocks.
* `SenderInvariant`, `PacketsNumbered`: `SendInv` adds to the types how much has been sent
  at each point of the loops (`SentSoFar`), that nothing is numbered before the first frame
  (`NothingNumbered`, without which raw2pkt might build a second start packet) and what start and end packet say
  and when each is built (`InfoPackets`); `NumInv` adds that pic_id counts the pictures of the first group, so no
  later picture looks like the file's first.
* `CopiesAreKept`: CopiesKept, for every geometry. `Placed` says that all pictures so far have gone to the slots of their
  places in the groups, so that the slot of one of the last `GroupBlks` pictures has not been used again.
* `EndPacketIsLast`: EndPacketLast, which `EndPacketOfOneFrame` checks of one-frame pictures, for every file and geometry.
  `EndInv` says that the end packet, built or taken, means that every byte has been packetised, which happens only to a
  file of whole pictures of one frame (`WholeFrames`), and that nothing is behind it on the wire; `OutInv`, that the
  packets before it have brought all pictures out.
* `CopyInvariant`, `CopiesInOrder`: the transfer implements `Copy!Safety`, the safety half of `FileCopy`: each
  step appends the next picture, whole, or leaves the output alone. `CopyInv` says that either the blocks
  of one frame are still on the wire and the slot holds exactly those before them (`OnItsWay`), or all is
  received (`AllReceived`).
* `CopiesOrNothing`: the same whether or not the last packet of a picture completes its frame; if it does not,
  nothing comes out, over whatever network (`NothingComesOut`, for any that repeats nothing).
* `SlotsAreFree`: SlotsFree, by `InPlace`: pic_id modulo the group's size is the place in the group.
* `TypeCorrect`: TypeOK with the bounds of both buffers, by `BufInv`: both are filled in step, k pictures each.

With a network between them, sender and receiver are tied by `NetInv`. With S pictures and J frames of the next
one sent, every block on its way or held is one of those, at most one of the two, and numbered by its place
in the file (`OnWire`, `InSlots`); a slot's counters are the numbers of its blocks and of its full
frames (`SlotsCount`); nothing has come before the start packet (`Unopened`). It holds whatever is lost
or overtaken, while nothing is repeated and a short last packet, if there is one, keeps its place in the
order. On top of it:

* `NoHoles`: a full frame has all its blocks if no packet passes for a short one, so no image has a hole.
* `IntactInAnyOrder`, and for the checked network `IntactIfReorderedHolds`: without a loss (data that outruns the start
  packet is one) every block sent is on its
  way, held or out, a slot holds blocks of one picture, and a picture that is out has left nothing behind. That needs
  the window: a packet older than a group would meet a younger picture in its slot, which pkt2cache takes for
  the newer group, and be dropped.
* `LossInOneGroup`: in order, what is held came before what is on its way (`HeldBefore`), what came out is of pictures
  before that (`OutBefore`). So the last packet of a picture finds its frame without it, and the frame,
  complete with whatever it has, is the only one with holes.
* `PicturesCounted`: PictureCount for any number of losses and of repetitions, of any packets. A repeated block
  is counted twice and may complete a frame that is not, or come when its picture is out and open the slot again,
  so `InSlots` and `SlotsCount` are lost. `CountInv` makes do with what the wire says (`WireState`), with counters
  that are at least what the blocks in the slot account for (`Tally`), and counts in both directions:
  - not too many (`NoneTwice`): nothing on the wire is of a picture before some s, and the pictures that came out
    or have a slot open are at most s plus the repetitions, or one more while s itself has the slot open and is
    in order there. A picture that opens its slot a second time has a repeated packet to account for it.
  - not too few (`AllSettled`): there is a set of pictures, no larger than the pictures out plus the losses, and
    of every other picture each block sent is on the wire, or its place is taken and the wire is behind it. At the
    end the wire is empty, so every place of such a picture is taken; but then all its frames are full, it would
    have `complete_num` at the limit, and would have been let out. So the set has every picture sent (`AllSent`).

Assumed, beside the sizes being positive and a picture fitting the cache:

| formula | meaning | where it holds |
|---|---|---|
| `FramesNumbered` | a picture has at most 2^9 frames, so frame_id does not wrap within it | always in call_test: a frame of a picture with several has 256 * 1100 bytes, and 100 MB hold 373 at most |
| `PicturesNumbered` | the cache has at most 2^9 slots, so pic_id does not wrap within the first group | pictures from some 205 kB on; the default of 256 * 12 blocks has 32 slots |
| `GroupsWrap` | the number of slots divides 2^9 | the default's 32; not, for instance, 33 slots, where pictures go to other slots than intended |
| `TailCompletes` | the last packet of a picture completes its frame | pictures of one frame or of full frames, as the default; otherwise if the last packet carries less than 1100 - 44 bytes (`DocLongTail` shows the rest) |
| `NoShortTail` | no packet of a picture passes for a short one, which completes its frame whatever is missing | pictures of whole blocks, as the default, or with 1100 - 44 bytes and more in the last block. Not assumed by `LossInOneGroup` and `PicturesCounted` |
| `Window <= PicPkts * (GroupBlks - 1)` | a packet on its way is a group but one picture behind the sender at most | call_test has no window, it delivers at once; of a network it says how late a packet may be. The default's 32 slots of 256 * 12 packets allow some 95000 |
| `~Overtake` | the network keeps the order | assumed by `LossInOneGroup` and `PicturesCounted` alone |
| `OutBufFits` | the packets of the pictures in read_buf fit into out_buf | pictures of whole blocks, as the default, by `WholeBlocksFit` |

### Thread pool, `ThreadPoolProofs`

The invariant adds to TypeOK: `SizeCounts` (the counter is the length of the list plus what
`pool_delete` dropped), `OneHolder` (one worker at most is inside the critical section), `HolderKnows`
(that worker has seen a task, nobody has taken it), `LateIsLast` and `DoneIsOver`. So a worker that
finds the list empty does so because of `pool_delete` (AssertsHold), and only the worker that had passed
the test of `shutdown` can take a late task (OneTaskLate).

### STUN, `StunNetProofs`

Four invariants, each with `IInv`, over any number of clients, sessions, places, entries per datagram
and faults. `MCStun` runs two casts; the theorems `Typing...` state its properties of the first, and `OwnSessions`,
`MembersKnown`, `RightLists`, `AcksFindLists` and `TypeCorrect` the same of every `StunNet`, the second cast's among
them.

* `IInv`, for OwnSession: an answer to kReg is about the client it goes to (`Answers`), and no session is in
  answers to two clients, or in one and taken by another (`OneEach`): an answer may be repeated, come
  late and cross the next request.
* `MInv`, for MutualKnowledge. When all is quiet, a member has those before it in its lists, and those behind it
  that have another `self_session_id`; while datagrams are on their way, each is in its lists or in a datagram to it
  (`MutualSoon`). It is preserved because send_stun_list tells every member with another `self_session_id` of the new
  client and puts every member into what it sends the new client, wherever the datagrams are split: lemmas about
  `Visited`, with `Added` on the receiving side. What the receiver skips as its own by the `self_session_id` is its
  own, because an entry with a session is of the client that has it (`Owned`).
* `RInv`, for RightList: without overtaking, the answer to kReg is before any list of peers of that session
  (`TurnsKept`), and nothing of a session is in the second list whose answer is still to come (`RightNow`).
  It assumes `GivenOut`: nobody asks for session 1, which the server never gives out and whose place
  is that of session MAX_ONLINE_NUM + 1.
* `AInv`, for AckFindsList: who pings has the list, and the ping and its answer are about its sessions.

### Start and stop, `StunStopProofs`

What is left of the owner's plan is its suffix (`Suffix`), so how much is left says how far the stop has got;
`Joined`, that a joined thread is over; `LateTurns`, that after `status` was cleared only those threads are in
a pass that were in one then. From these, NoThreadSurvives and FreedUsedInTurnOnly.

### Relay, `RelayProofs`

* `IInv` for WalkerSafe: the broadcaster is at nodes that are on the list or went with a kExit of their client
  (`Walker`), and has the next one behind the one it deletes. A deletion goes by address and takes the
  first node of the client, which is why "behind" is needed: it never takes the next one.
* `ToldInv` for ClosedIsTold: the list is in the order of registration; a client's first node on it has been told
  of a life if any other was (`FirstHeardOfLife`), and the second hears of the death in the same walk
  (`SecondHearsOfDeath`), or is passed when all before it have (`PassedIsTold`).

### Relay server, `RelayServerProofs`

`IInv`: OnePlaceInOrder; the datagrams in hand are gone between two batches (`HandsEmpty`); each decoder's data is
what has been handled of its channel since its registration, in order, and no more than the decoders before it
got (`DecodersGet`); and `StopLost`, that a stop that overtook the sender leaves it running, with which
the receiver never gets beyond WaitSend (`LostStopStays`, the safety half of StopReturns: that is
why StopReturns makes the exception it makes).

### Relay channels, `RelayChansProofs`

ChansAccounted counts holders by cardinality; `Accounted` says the same by the grants themselves, channel by
channel, and is inductive with the types.

`ListIsSequenceHolds`: NodeList implements NodeSeq. `ListInv` says that there is a sequence of different nodes, the
chain, which the pointers lead through from the head to NULL, and that the tail is its last node and `num` its
length. What a walk meets after i steps (`At`) is the i-th of the chain, by least counterexample; each step
of the list appends to the chain, leaves one node of it out, or empties it, and NodeSeq's sequence, mapped from the
chain, does the same.

### Only model-checked

* Liveness: that pictures come out at all (`Copies`), `ArriveIfReordered`, `RoundsRegister`, `LiveIsTold`, that
  tasks, datagrams and stops get through. The provers here have no ENABLED.
* `SizesAgree` as the run states it, for lists of sizes; its content is `PayloadsTile` and `WholeBlocksFit`.
* `FaultsBounded` as the run states it, which speaks of an instance of NetTransfer with constants of its own. Its
  two halves are proved for every NetTransfer that keeps the order, `LossInOneGroup` and `PicturesCounted`.
* `EndPacketOfOneFrame`, of an instance of NetTransfer with a window; `PacketsNumbered` and `EndPacketIsLast` prove the
  same of call_test, where each packet is received before the next frame is packetised.
* `TypesOK` and `RoundsAckFindsList` of the cast "rounds", which is an instance of StunNet with constants of its own;
  the same formulas are proved for every StunNet (`TypeCorrect`, `AcksFindLists`).
* What a RECURSIVE operator computes could not be proved; no module declares one.

## What the models show besides

Behaviour met while modelling, none of which the properties hide; the hazards name the lines.

* A retransmission to a complete frame counts the frame again; a short packet completes its frame
  whatever is missing. Both let pictures out with holes, and the properties say how far this goes.
* What the sender keeps of a packet cannot be sent again as that packet: raw2pkt copies as many bytes as the packet has
  with its headers, but from the raw data (`file_raw2pkt.c:158-161`). The copy has no headers and runs 44 bytes into
  the next block; behind the last block of what read_buf holds it reads on, which near the end of the buffer is past it.
  The model keeps where a copy begins and how long it is (`CopyOf`) and leaves open what is behind the block. Nothing
  that is called reads the copies.
* The end packet is only built of files of whole pictures of one frame; for any other call_test hands over a `fileTail`
  that was never built.
* Data that arrives before the start packet is dropped (`file_pkt2raw.c:600`), and its picture never comes out. The models
  count it as a loss (`NetEarly`).
* Of the members of a session, send_stun_list leaves out those with the `self_session_id` of the client that joins
  (`base_stun.c:374`), meant for the client itself. Those that join before they have a session, as the guests of
  `api_socket_test` do, all have 0: the later one is told of the earlier, the earlier not of the later unless it joins again.
* Nothing flushes a picture with a lost block: the call to `count_lossrate` is commented out.
* `seq_no` is the same for all packets of a call (`file_raw2pkt.c:99`); `wfp` and `idxfp` are closed
  before they are used, so the received pictures are not written (`RawFpOpen`); `pic_id` wraps at 9 bits
  and names the slot only if the group's size divides 512; `group_size` has 16 bits.
* `pool_destroy` sets `shutdown` and broadcasts without the lock: a worker between its look at
  `shutdown` and `pthread_cond_wait` sleeps through it, and the join never ends. `PoolDestroyReturns`
  excludes exactly that. `pool_delete` of the second waiting task also drops the first, and lets the
  assertions fail later: `AssertsHold` says that nothing else does.
* `kExit` frees a STUN session's list and leaves the pointer; session ids reuse places after 2^20
  registrations (`NoWrap`); `api_socket_test` decides on a command and copies the session in two steps.
* In the relay, `findnode` on an empty list reads behind its end; handlers use a node after the
  unlock; `kExit` frees a node the broadcaster may be at; a second registration adds a second node,
  of which the stale one makes the broadcaster delete the fresh one; a session closed during a walk,
  whose `now_time` is then 0, may be given up without its end being told. `ClosedIsTold` is stated
  for sessions that the broadcaster has seen closed.
* A client with three nodes on the broadcast list can miss the end of a session: the deletion of a silent
  node goes by address and takes the first node of the client, so that one moves up behind the broadcaster
  and is passed over. `ClosedIsTold` therefore speaks of the first two registrations of a client; for
  those it is proved.
* `out_buf` is reckoned with one header per whole block. A picture that ends in a shorter block has a header
  more, and the slack is one block and one header for the whole cache: with many such pictures the
  packets kept do not fit (`OutBufFits` says when they do; `WholeBlocksFit` that whole blocks do).
* Session 1 is never given out, yet has a place, that of session MAX_ONLINE_NUM + 1: a client that names
  session 1 joins that session's list, under the id 1.
* `StopSend` does nothing while `send_status` is still 0, and the sender then sets it to 1: the stop is
  lost. The STUN server's thread does the same with `status`. `RelayData` takes the length of the next
  `sendto` from the result of the last one, so a failure starves the later decoders for good.
* A session that is closed loses its list of decoders, and given up afterwards keeps it NULL: a registration that
  comes late then uses NULL (`wild` in `RelayStream`). Data does not, since RelayData looks at `status` first.
* kBye sets free every channel the client's node ever noted, in whatever session; notes are never
  struck off. Such channels are `strayed` in `RelayChans`, and those that no kBye will return `leaked`.
* `api_socket_stop` frees the lists before it joins the threads: a thread in the middle of a pass may
  use them (`FreedUsedInTurnOnly` says that no other does).
* Searching an empty list reads through NULL; `stun_add_node_by_id` does nothing.

Abstractions. Header formatting, time stamps, statistics and logging are left out. Datagrams between
clients may wait for ever instead of being lost. Heartbeats between clients, to which nobody reacts,
are left out. Freed memory is not reused in the relay. Whether a liveTime is over and whether a client
has been silent for too long may become true at any moment.

## Not modelled

* `count_bw`, the bandwidth estimate, which nothing else reads (above some 268 kB between two estimates
  `sum_size << 3` times 1000 overflows an `int`).
* Code without a caller: `pkt2file`, `count_net_delay`, `count_lossrate` and with it `get_rtx` and
  `get_picture_all`; in `udpbase.c` `PopData`, `SetPause`, `ClearPause`, `WaitPause`, `WaitPause2`,
  `WaitRecv`, `WaitRecv2`, `BroadCastSessInfo`, and what is under `#if 0`.
* kBye1, which only acknowledges; kGetSessionId with status 2; a full session table (the inner `ssinfo`
  of line 1079 hides the outer one, so the entry behind the table is written).
* Failures of `socket`, `bind` and `pthread_create`; a second `api_socket_stop`, and a start after a
  stop, which finds the old handle and does nothing.
* Widths of fields that the runs cannot reach or that nothing depends on: the 16 bits of `group_size`
  (for pictures of one block the slots of a 100 MB cache do not fit), `blk_id` as an index without a
  check against `frame_size` (the model's packets have ids that `raw2pkt` makes).
* Lists in lists (frames in pictures in groups); `test.py` and the build files.

## What is left

Proofs: the two instances above, by instantiating the modules of the proofs with the instances' constants. Then
lists in lists, and the receiver's functions that have no caller, if they get one.
