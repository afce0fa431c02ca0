# A TLA+ development for rust-practices

The repository is a workspace of six Rust programs: four bounded channels built on
ring buffers, a Raft-like replicated log for bank branches, a group chat with three
servers, and a tool that carves JPEG files out of an ext2 image. This directory holds
TLA+ models of their logic, the TLC runs that check them and the TLAPS proofs.

## 1. Inventory

| Component | Source | State it keeps | Operations | Who touches it |
|---|---|---|---|---|
| spsc_bounded | `spsc_bounded/src/lib.rs` | slots, `head`, `tail`, `available` | `push_back`, `pop_front`, drop of either end, drop of the ring | one producer thread, one consumer thread, atomics only |
| spsc_bounded_cached | `spsc_bounded_cached/src/lib.rs` | the same, and in each handle a private index and a private count (`free`, `full`) | `send`, `recv`, drops | the same |
| mpsc_bounded | `mpsc_bounded/src/lib.rs` | slots, `head`, `tail` in a mutex, `len`, `px_count`, `cx_count` | `send`, `recv`, `clone`, drops | many producers under the mutex, one consumer without it |
| mpsc_bounded_cached | `mpsc_bounded_cached/src/lib.rs` | slots of `Option`, `head`, `tail` in a mutex, `readable_till`, `len`, `reserved`, `free`, `filled_slices` in a mutex, the two alive counters; in each producer a local buffer and a slice | `send`, `flush`, `apply`, `merge_with_filled_slices`, `recv`, `clone`, drops | as above; three counters updated by three kinds of threads |
| consensus: RaftNode | `consensus/src/protocol.rs` | the offices accepted so far, role, term, votes, log and `log_entry_success`, `pending_cmds`, `committed`, per peer `pending_entry`, the book of accounts | one handler per message, election, heartbeat, `apply_log` | one thread per office; messages only |
| consensus: network | `consensus/src/network.rs` | a queue and a partition number per office, a log file | `encode`, `decode_timeout`, `append`, `daemon` | senders, the office's thread, the daemon thread |
| consensus: driver | `consensus/src/main.rs` | none | `setup_offices`, the script | main thread |
| groupchat: library | `groupchat/src/lib.rs` | frame buffers and a write cursor | `encode`, `decode`, `flush`, `poll_next`, `poll_flush` | one connection |
| groupchat: servers | `groupchat/src/bin/*_server.rs` | the clients and their names | join, message, leave | threads and a lock; one event loop; tasks and channels |
| groupchat: client | `groupchat/src/bin/client.rs` | none | read, write | two threads on one socket |
| recovery: ext2 | `recovery/src/ext2.rs` | superblock, group descriptors, bitmap of one group | `block_iter`, `next`, `block_is_indirect` | sequential |
| recovery: carving | `recovery/src/main.rs` | the picture being collected | `recover_files` | sequential |
| benches, demo mains | `*/benches`, `*/src/main.rs` | none | drive the channels | — |

What is hard in them:

* **Channels.** Two or more threads share slots that are read and written without a lock
  (`unsafe`); an index read a moment ago is used now; a flag and an index are read one after
  the other; one end disappears while the other is in a call; several counters that should add
  up are changed one at a time. Correct means: a bounded first-in first-out queue, each element
  received, returned or dropped exactly once, no slot read while it is written, end of stream
  only at the end, and no call that spins for ever.
* **Consensus.** The offices run, and stand for election, while they are still told of each
  other; messages of several terms cross, connections fail in the middle of an
  exchange, leaders coexist. Correct means: one winner per term, log files that agree, and
  written entries that stay.
* **Chat.** Frames arrive in pieces and are written in pieces; members come and go while
  messages are passed on; a future that has read part of a frame is dropped. Correct means: frames come out as they went in, and each member gets
  each message of the others once and in order.
* **Recovery.** Index arithmetic: which block follows, which one is an indirect block, where a
  pattern starts relative to what.

`PROJECT.json` lists these hazards one by one with the line where each bites and the
properties aimed at it.

## 2. Modules

| Module | What it is |
|---|---|
| `Channel` | the contract of the channels: a bounded FIFO queue with droppable ends |
| `SpscBounded` | spsc_bounded |
| `SpscCached` | spsc_bounded_cached; extends `SpscBounded`, implements `Channel` |
| `MpscBounded` | mpsc_bounded; implements `Channel` |
| `MpscCached` | mpsc_bounded_cached |
| `SpscProofs`, `MpscBoundedProofs`, `MpscCachedProofs` | theorems about the four channels, for every capacity |
| `Raft`, `MCRaft` | consensus: nodes, network and daemon; the second adds symmetry for TLC |
| `Bank` | consensus: the book of accounts |
| `RaftProofs` | theorems about the types and the elections of `Raft`, for any number of terms, commands and disruptions; the invariant of its logs and what is common to all steps |
| `RaftLogProofs` | lemmas: the steps of followers and candidates keep that invariant |
| `ConsensusProofs` | the steps of leaders, the theorems about the logs of `Raft`, and those about `Bank` |
| `ThreadServer` | groupchat: the server with threads |
| `AsyncServer` | groupchat: the server with tasks, and `AsyncStreamAgent`; extends `ThreadServer` |
| `ChatServers` | either of the two, and what both promise |
| `ChatServersProofs` | theorems about both, for any users, commands and sizes of sockets and lines |
| `EventServer` | groupchat: the server with an event loop, and `StreamAgent` |
| `Ext2` | recovery: the walk over the free blocks, and which blocks of a file hold addresses |
| `Recovery`, `MCRecovery` | recovery: the search for pictures over `Ext2`; the second enumerates devices for TLC |
| `Filter` | what of a sequence lies in a set; used by `MpscCached` and the chat servers |
| `CommonLemmas` | what the proofs share: ring positions, stretches of numbers, induction, filtered sequences, sums |

Each module has its own comments on every variable and action; `PROJECT.json` maps each
definition to the lines it stands for. A definition whose comment begins with "Mutant" is a
plausible mistake in the definition after it; it is used by no specification and is there
to show that a property notices the mistake.

### Channels: the grain of an action

One action is one access to memory that another thread may touch: an atomic load, store or
read-modify-write, taking a mutex, or the plain read or write of a slot. Arithmetic on locals
and on private `Cell`s moves with the access before it, releasing a mutex with the last access
under it. Program counters (`ppc`, `cpc`) say which access comes next; `"idle"` is between
calls. So `Producer::send` of spsc_bounded_cached is `CachedSendCall`, then `CachedSendAvailable` and
`SendLoadHead` as long as the private room is 0, then `CachedSendStore` and `CachedSendPublish`.

The two crates with one producer have the same ring, and `SpscCached` extends `SpscBounded`: it adds the
private `Cell`s (`cells`), takes the steps in which the crates agree (the flag, the drops, the destructor) and
leaves the `Cell`s alone there, and has calls and accesses of its own wherever a cached count or a
private index is used.

The atomics of the channels are acquire loads, release stores and acquire-release updates
on locations that each have one writer or are only updated by read-modify-write, and what is
published through them is written before and read after. The models use interleavings of
sequentially consistent accesses and check separately, in `NoDataRace`, what the orderings
are there to ensure: that no plain write of a slot is enabled together with a read of it. In
`SpscBounded` that does fail, and a read that meets a write returns `Torn`, a value that is no
element.

Elements are numbered by their sender in the order of sending. `out`, `rejected`, `eof` and
`freed` are histories of what the program's callers see. `DropRing` is the destructor behind the
last `Arc`. Positions are natural numbers: they would wrap at 2^64, which no execution reaches.
Every capacity of the code is a power of two (`next_power_of_two`), for which the mask is the
remainder that `Index` uses.

### Channel as abstract specification

`SpscCached` and `MpscBounded` define `Abs == INSTANCE Channel WITH ...`: the queue is what the
ring holds between `head` and `tail` (`MpscBounded`: what `len` counts), so an element enters
when the index or count is published and leaves when the consumer releases its slot.
`ImplementsChannel == Abs!Spec` says every step of the ring is a step of the queue or none.
`SpscBounded` does not implement it, see below. `MpscCached` does not either, and promises
less: its producers keep elements back, so order holds per producer (`PerProducerFifo`): what was
received of p's elements, then those in the ring (`Contents`, from `head` to `tail`, with nothing where a
slice is not written yet) and those in p's local buffer are what p sent less what it was handed back.
One branch of the source has no action: `pop_front` (`lib.rs:88-91`) merges slices itself if something is
reserved when no producer is left. Nothing ever is: `GoneMeansMerged` says so, which is checked and proved.

### Raft

An office's thread takes one message at a time and runs its handler to the end; a handler is
one action, and `Deliver` puts what it sends behind what its addressees have. `inbox` is the
queue of a node; a message to another partition is lost and its sender sees that
(`Reaches`). `Heartbeat` and `Election` need an empty inbox, because `decode_timeout` looks at
the queue before the clock; how long a timeout is, is left open, so any node may be
first. `Client` is the script; `Disrupt` and `Restore` are the daemon. `applied` is the log
file. `Panic` is the index out of bounds in `log_entry_success[self.index]`: the thread ends
and sending to it fails.

`setup_offices` tells the offices of each other one by one (`Tell`), when their threads already
run. `nodes` are those an office has accepted (`Accept`): it sends to them only and counts
majorities of them. An office that is willing to vote for one it has not accepted panics on
`nodes[&self.node_id]` (`UnknownCandidate`), and whoever sends to it over its `Channel` then ends
the program (`TellFails`, `ClientFails`).

What a committed command does to the accounts is `Bank`. Handlers are atomic: the sends of one
broadcast are not interleaved with other nodes' handlers. `elected` and `strayed` are histories.
There are three rules that these handlers do not keep: a leader that learns of a higher term steps
down, a leader commits by counting answers only entries of its own term, and nobody hears from an
office it has not accepted. `strayed` becomes true at the first step that breaks one of them.

### Bank

`apply_log` runs on one office's thread, so one command is one action; a command that fails is
a stuttering step. `book` is a function whose domain are the accounts that exist. `usize` is
`0 .. Width - 1`; additions wrap around (`Credited`), or end the thread in a build that checks
arithmetic (`Overflow`, which leaves a transfer half done). `net` is a history.

### The chat servers

`ThreadServer` has a broker (`main`), one reader thread per connection and the users. The broker's steps
are: take a line and start the loop of `notify_all` (`Notify`), one write per client (`SendLine`,
`SendFails`), start a reader (`Spawn`) and only then put the client into the table (`Insert`),
remove a client (`DropClient`). A reader sets the name (`ReadName`) and announces it
(`Announce`) in two steps, since the broker reads the name when it says that the client has left.
A write waits while the socket holds `Room` lines its user has not read; to a closed socket it may
succeed once more or fail. Frames arrive whole, since the threads' reads block.

`AsyncServer` is the same program with tasks for threads, and extends `ThreadServer`: where
`async_server.rs` does what `thread_server.rs` does, it takes that module's step and leaves its own
variables alone (`AsyncRead`, `AsyncAnnounce`, and `Notify`, `Spawn`, `Insert`, `DropClient` in
`AsyncBroker`). Three things are its own. A frame may arrive in two parts (`WritePart`,
`ArriveRest`); `poll_next` makes a new future for each poll, so that a poll between the two drops
the first part (`PollPart`, `astray`), and the rest is read as tag and length. Three things can come of
that: the length is more than there is, the future is dropped again with all it has read, and the next frame is
read from its start (`DropsAll`); a command that nobody wrote, which ends inside a frame or where one does
(`ReadAstray`); or the end of the task (`ReadPanics`). After the first and, as it may happen, the second the
reader is back in step and carries out what is written from then on. `lost` is a history: the number of the first command of
each user whose frame was read so. A socket may take a line in pieces: `SendPart`, `SendRest`, `SendWaits` and
`SendPanics` are the loop of `poll_flush`, with `from` for its local slice and the cursor counted from the
wrong end. And the stream of a closed connection yields an error for ever, so that the reading task
sends a `Disconnect` again and again and never gives up its thread of the executor (`ReaderFails`,
`Hanging`; section 4 says what that does to the broker). The names of clients and the writers are behind
async mutexes that nobody holds across another await than their own, so that a lock and what is done
under it are one step.

`ChatServers` lets either program run (`kind`) and states of both what they promise. That one
specification holds for both is the point of it: the two sources share no code, and what differs
are `lost` and `resumed` in the properties, which mean nothing with threads, and the threads of the executor.

`EventServer` has one thread and non-blocking, edge-triggered sockets, so what matters is what
happens in pieces: a frame is two units, a read takes the units there are (`ReadEvent`), a write
takes some of them (`FlushWrite`) or none (`FlushBlocks`). `pc`, `ret` and `from` are the control
of `flush` and its local slice. `edge` is what epoll reports once: an event that brings data and
the end of the stream together is not repeated. One read may bring several frames, and `decode` is called until
it fails (`Decoded`, `Emptied`): the commands of all of them are queued. A frame of which only the first half is there
is taken out of the buffer all the same and lost (`astray`). The next read then begins with text, which is read as tag and
length; what comes of that depends on the bytes, and the model allows (`Garbled`) nothing, some garbled commands, some
and behind them the frames that are whole, or a panic. Whatever it was, the buffer is empty afterwards, so that a frame that
begins the read after that is carried out as it should be: a user whose frame is cut in two goes on being heard, with a
gap in what it said. Names are left out. `resumed`, `lost` and `missed` are histories that mark the three places where the
code goes wrong. `lost` is the number of the first command whose frame was cut: up to it the property says that
nothing is missing, from there on only that nothing is repeated or out of order.

In all modules users and their sockets are external: they connect, write, read and hang up at
any time.

### Recovery

`Ext2` is what `ext2.rs` computes: `BlockIter::next`, and `block_is_indirect` as arithmetic on the number
of `Addresses` in a block. `next` is translated with its loop (`Search`): the number given last becomes group, byte and
bit; byte by byte the inverted bits are shifted and tested (`Bits`), at the end of the bitmap the next group's is read, and the place of
the lowest one becomes a number again. `Given` and `Exhausted` are its two results. That no free block is passed over (`PassesNoFreeBlock`) is
stated about the numbers of blocks and the bitmaps of the device, and knows nothing of bytes and bits. `Descriptor` is 0 whatever the group, since `from_file` seeks to byte 2048
for each; that is the first descriptor only with blocks of 1 KiB, which is why `FirstDataBlock` is 1.
`Recovery` is `recover_files`: one action for one block, in the outer loop (`Skip`, `FoundWhole`,
`StartPicture`, `WriteFiles`) or the inner one (`OverMaximum`, `SkipIndirect`, `TakeLast`, `TakeWhole`,
`DropPicture`). Of the bytes of a block only the places of patterns are kept, and a file is the list of
its pieces.

What the code should find is not taken from the code: `Tree` and `HoldsAddresses` lay a file out as
ext2 does, by recursion over the depth of its trees of addresses, and `FileOf` cuts the picture's own
bytes out of that. `RecoversPictures` compares the two for every length a file can have. `Findable`
names the four places where the program does not find a picture:

* The end is searched from the header on but counted from there (`main.rs:23`): a picture that does
  not begin its block is cut off, or the slice ends before it begins and the program panics. Files
  begin their first block, so a well-formed picture is safe; something like a header in the middle of
  one block is enough for the panic.
* An end pattern that straddles two blocks is not seen (`main.rs:36`).
* All groups are read with the bitmap of the first (`ext2.rs:112`).
* The bound of the table under the triply-indirect block (`ext2.rs:205`) leaves out its last row but
  for one block: there blocks of addresses are taken for data. (That of the doubly-indirect one is
  computed the same way and is right, since its last row begins with the only block of addresses in it.)

Without any one of the conditions `RecoversPictures` fails in this model.

## 3. Runs

| Run | Bounds | Shows |
|---|---|---|
| `spsc_cached` | 2 slots, 5 elements | types, no data race, caches on the safe side, exactly once in order, end of stream, implements `Channel`, every element is settled and calls return once the other end is dropped |
| `spsc_bounded` | 2 slots, 6 elements | what does hold: the first lap is exact, end of stream, calls return |
| `spsc_bounded_overrun` | the same | **violated**: elements arrive in order |
| `mpsc_bounded` | 2 producers, 2 slots, 3 elements each | no data race, `len` is the distance of the indices, implements `Channel` (end of stream included), recv returns and sends make progress |
| `mpsc_cached` | 2 producers, 4 slots, slices of 3, 2 elements each | slices tile the ring, no data race, the counters add up, order per producer, nothing unmerged when all are gone, end of stream, every element is settled |
| `raft` | 3 offices, 2 commands, 2 terms (1 before all are connected), 1 disruption | one winner per term; agreement, replication on a majority and finality unless `strayed`; a leader has an entry pending for everyone behind it, except one elected with an empty log and kept commands (`protocol.rs:211`) |
| `raft_conflict` | the same, with `MaxInbox` 2 | **violated**: log files agree |
| `bank` | 3 accounts, usize of 5 values | balances in range; money is conserved modulo the width |
| `chat_servers` | 2 users, 2 names (1 for the tasks), 2 commands, 1 line per socket; tasks: lines of 4 units, 1 connection with frames or lines in pieces (`MaxBroken`), 1 garbled command of a client (`MaxGarbled`), 1 `Disconnect` of a client in the queue, 3 threads of the executor (`Workers`) | each command said once at most and in order, none left out before a frame in parts; everybody connected is told everything since joining; nobody connected is dropped; hang-ups are announced, once, as long as a thread is left for the broker |
| `event_server` | 2 users, 4 units of one user (`MaxUnits`) or 3 of both (`MaxShared`), 1 garbled command (`MaxGarbled`) | the same with frames cut in two and writes in pieces, up to the first write that starts inside the buffer; hang-ups that come without data are noticed |
| `event_server_flush` | the same | **violated**: a flush goes on where the last one stopped |
| `recovery` | blocks of 12 bytes (3 addresses), 4 groups of 24 blocks, 5 sets of bitmaps, 2 pictures, of every length | pictures are recovered exactly if they can be found, no panic otherwise; no free block is passed over; the search ends |

Why these bounds are enough to see the cases that matter:

* Two slots and five or six elements take each ring round more than twice, so positions and
  slots differ, full and empty both happen at every offset, and caches go stale and are
  refreshed. Either end may be dropped between any two calls.
* Two producers suffice for every pairwise race on a mutex or a counter. A handle that was
  dropped is not reused; clones are made at any time while a handle is left.
* Four slots and slices of 3 give a whole slice that is flushed with padding, short ones of one or two slots that are
  filled to the brim, one that wraps around, one filled before an earlier one, and one padded by its
  producer's drop.
* Two terms allow competing candidates, a leader deposed and a former leader that still
  acts; two commands allow a conflict at one index and logs of different length. `MaxInbox` only
  keeps clients and heartbeats from adding to a queue that already has a message: a
  handler's own answers and requests for votes are never held back, so that queues of several messages
  do occur. (With `MaxInbox = 2` the same invariants were checked on 2.7 million states.) One early term is what a node can
  stand for before it is told of the others; the script and the daemon wait until all have accepted all
  (`SetUp`), as they do in practice, since telling takes microseconds and a timeout 150 ms. With one
  disruption one number of a foreign partition is enough, since others would only rename it.

Three offices are what TLC can do with the logs, and one thing does need four: an office that has
accepted one other by the time it stands for election is elected by the two of them, and so may the
other two be. With four offices, one term and no commands (`Nodes = {n1, n2, n3, n4}`,
`MaxDisruptions = 0`) TLC finds `ElectedOncePerTerm` violated in a minute or two. It takes a driver that
is held up for longer than a timeout between two `send`s of `setup_offices`.

`CHECK_DEADLOCK FALSE` is used for `Raft` (with the bounds on terms, commands and disruptions used
up the model may stop), for `Bank` (a thread that panicked is gone) for the servers (when all users
have left nothing happens any more) and for `Recovery`, which ends. The channels end in `Terminated`, so a deadlock there is
reported as an error.

* Accounts and width of `Bank`: three accounts give a transfer with a bystander; with five values
  every sum overflows somewhere. The book itself bounds the run.
* Two commands and the two farewells make up to four lines in `ChatServers`: a change of name, a message
  after it, users writing at once, a socket that is full while the next line comes, a write that
  fails while the reader has commands left, a user who joins after lines were said. A line of four
  units is the shortest in which the wrong cut can skip units, take the rest exactly, or go past the
  end. One connection in pieces at a time is enough, since pieces of one do not touch those of another; the
  other one shows that everybody else still hears. One `Disconnect` of a client in the queue stands for any number of
  them: the task sends the next when that one has been taken, and the second and all later ones find no client and
  change nothing, wherever in the queue they are. That the broker may be busy with them for ever without giving up its thread is part of
  `ReaderRuns`. With three threads of the executor there is one left for the broker and one for a reader whoever hangs up; with
  `Workers = 1` or `2` the run passes too, but then `HangUpsAnnounced` claims less.
* Four units of one user in `EventServer` are two frames: both in one read, the first cut in two and the second whole behind
  it, in the same read as the rest of the first or in one of its own, which leaves a gap in what the user said. Three units of both
  together are a whole frame and half of another, of the same or the other user; with the farewells up to three lines are buffered for one client, so that a write can be cut
  at every place and flushed again by the next line or by an event.

* Three addresses to a block give trees of depth 1, 2 and 3 in which every row and column of
  `block_is_indirect` occurs and a longest file of 69 blocks, so that `recovery` tries *all* lengths. The
  bitmaps have free blocks at both ends of a byte, full bytes, a full group, and groups that differ from the
  first. The second picture begins where the first one's blocks end.

`MCRaft` declares offices and commands interchangeable; no definition singles one out, and
only invariants are checked under the symmetry.

### The three violations

*Overrun.* `RingBuffer::full` of spsc_bounded compares `tail + 1` reduced to a slot with `head`,
which is never reduced. Once `head` has reached the capacity the two can no longer be equal. The
producer then writes over elements that nobody has received, and may write the very slot that is
being read. The tests `elements_arrive_ordered` and `no_elements_lost` send more than one
lap and pass when the consumer keeps up. `FirstLapIsExact` is the part that is right.

*Conflict.* `RequestVote::execute` takes over a higher term before it decides about the vote,
and changes the role only if the vote is given and could be sent. A leader that refuses, because
its log is ahead, or cannot answer goes on as leader of the new term. When the candidate wins that term with the
other votes there are two leaders in it, whose entries nobody can tell apart by term, and
each can collect a majority of answers for its own. In the run's trace two offices end with
different first entries in their files.

*Flush.* `StreamAgent::flush` keeps `buf`, a slice that starts at the cursor, and after a write
cuts it with `&buf[self.writer.cursor..]`, counting from the start of the buffer. The first
write of a buffer is right, since both are 0; the next one, in the same call or in the call that
resumes after `WouldBlock`, skips as many units as had been written before, or cuts past the end and
panics. `EveryoneHearsUnlessResumed` is the part that is right. `AsyncStreamAgent::poll_flush` has the same
line; there `EveryoneHearsUnlessBroken` is.

## 4. Fairness

* Channels: weak fairness of each thread (`Producer`, `Consumer`, or `Producer(p)`) and of the
  destructor. Threads are scheduled by the operating system; an owner goes on using its handle or
  drops it, as the tests and benches do. Nothing stronger is assumed of a mutex: `std::sync::Mutex`
  promises no order, so one producer of `MpscBounded` may be overtaken for ever, and the
  property is that *some* send returns (`CallsReturn`).
* `MpscCached` needs the owners' part in earnest: a handle that holds a slice and is neither used
  nor dropped blocks the consumer and, once the room is gone, every other producer. That is
  how the crate works (`flush` is public for this reason).
* `ChatServers`: weak fairness of each reader, thread or task, and of the broker together with the users it
  may be waiting for: if the broker can take a step or some user can read, one of these happens some time.
  A user who neither reads nor leaves blocks the broker in a write, and with it everybody. For the server with threads this
  holds without condition. Tasks share the threads of the executor, as many as there are processors (`Workers`), and
  give one up only when they return `Pending`. The reading task of a connection that has ended never does:
  `poll_next` (`lib.rs:229-232`) is ready with an error each time, the loop (`async_server.rs:161-197`) goes round, and `send` on an
  unbounded channel never waits. So each hang-up takes a thread for good, and as many hang-ups as threads may leave
  the broker none: no farewell is said and nobody is told anything. On one processor a single hang-up is enough. The fairness
  assumed is therefore conditional. The broker is sure to run while `Hanging < Workers` (`BrokerRuns`), and a reader that has not
  failed yet while there is a thread beyond those and the broker's (`ReaderRuns`), since the broker itself, fed with `Disconnect`s for ever,
  need not give up its own. A failing task that has its thread runs. `HangUpsAnnounced` has the same conditions and claims nothing when they fail.
  Steps of tasks without a thread are left possible, so that the safety properties hold of more than the
  code does: a failing task can after all give way, when the broker is using the other half of its stream at that moment (`split` puts a lock
  around it). The accept loop is not concerned: `block_on` runs it on the main thread. Nobody who has hung up comes back, so
  `HangUpsAnnounced` says of all users together, again and again, what it means of each from some time
  on; `HangUpsNoticed` of `EventServer` has the same form.
* `EventServer`: weak fairness of the loop, which never blocks but in `poll`. Nothing is assumed of
  users and network.
* `Recovery`: weak fairness of its one thread.
* `Raft` and `Bank` are checked for safety only: that a leader is elected at all depends on random
  timeouts, of which fairness says nothing.

## 5. Proofs

Every theorem is about every value of the constants, from the assumptions their modules name and nothing
else: `CapAssumption` (a ring has a positive number of slots), `MaxSendAssumption` (the bound on sent
elements is a natural number; it may be as large as you like), `ProducersAssumption` (finitely many handles, none of them `Nobody`),
`ApplySizeAssumption` (a producer applies for a positive number of slots), `WidthAssumption` (a `usize` has a positive number of
values), `NodesAssumption` (finitely many offices, none of them `None`), `BoundsAssumption` (the bounds on terms and
disruptions are natural numbers, as large as you like; in the chat, finitely many users, any number of commands, sockets
with room for a line), `LineAssumption` (a line has a positive number of units), `NoneAssumption` (`None` is no entry
either: it stands for an `Option` that is empty). The theorems about the elections and
the logs of `Raft` except for the types have one hypothesis beside them, `MajoritiesMeet`: there are at most three offices, or none
stands for election before all are connected (`MaxEarlyTerm = 0`).

| Module | Theorem | Property |
|---|---|---|
| `SpscProofs` | `TypeCorrect`, `FirstLapExact`, `EofIsTheEnd` | of `SpscBounded`: `TypeOK`, `FirstLapIsExact`, `EofOnlyAtEnd` |
| | `CachedTypeCorrect`, `SlotsNeverRace`, `CachesSafe`, `CachedEofIsTheEnd`, `ExactlyOnce` | of `SpscCached`: `CachedTypeOK`, `NoDataRace`, `CachesConservative`, `EofOnlyAtEnd`, `FifoExactlyOnce` |
| | `Refinement` | `ImplementsChannel` |
| `MpscBoundedProofs` | `TypeCorrect`, `SlotsNeverRace`, `LenNeverDrifts` | `TypeOK`, `NoDataRace`, `LenIsDistance` |
| | `Refinement` | `ImplementsChannel` |
| `MpscCachedProofs` | `TypeCorrect`, `SlicesLieEndToEnd`, `SlotsNeverRace`, `CountersAgree`, `NothingLeftBehind`, `EofIsTheEnd` | `TypeOK`, `SlicesTile`, `NoDataRace`, `FreeIsTheRest`, `GoneMeansMerged`, `EofOnlyAtEnd` |
| | `OrderedPerProducer` | `PerProducerFifo` |
| `RaftProofs` | `TypeCorrect`, `OneWinnerPerTerm` | `TypeOK`, `ElectedOncePerTerm` |
| `ConsensusProofs` | `NothingFiledIsLost`, `NobodyIsForgotten` | `SafeUnlessStrayed`, `NobodyForgottenUnlessKept` |
| | `BalancesInRange`, `MoneyConserved` | of `Bank`: `BankTypeOK`, `MoneyIsConserved` |
| `ChatServersProofs` | `ChatTypes`, `ChatHears` | `AsyncTypeOK`, `EveryoneHearsUnlessBroken` |

So every invariant that a run checks of the four channels, of `Raft`, of the bank and of the servers with threads and with
tasks is proved, and both refinements. Each argument but that about the bank begins with an
inductive invariant, a conjunction of named parts (`IndInv` with the theorem `Invariance`; for `SpscCached` `CachedIndInv`, for
the logs `LogIndInv` with `LogInvariance`, for the chat `Safe` with `ChatSafe`), and has a lemma for the step (`StepInd`,
`StepSafe`, `SafeStep`) with one case for each action. Almost none of the
checked invariants is inductive alone; what each argument needs beside them is this.

*SpscCached.* `NoDataRace` needs to know that the positions
in use are less than a ring apart, which comes from the private counts being lower bounds
(`free + (tail - head) <= Cap`, `full <= tail - head`), which in turn needs each private index to
equal the published one. `EofOnlyAtEnd` needs the consumer's reading of the flag: with
`cpc = "tail"` and `seen` false the producer is gone for good and `tail` is final. Exactly-once
needs `Stored`: the slots at positions `head .. tail - 1` hold the elements sent there. Only `CachedSendStore` can disturb
that, and does not because two
positions less than `Cap` apart fall on different slots (`IndexApart`, from `SlotsApart` in
`CommonLemmas`, the only piece of modular arithmetic). The content of the ring is then
`Stretch(head, tail)`, the consecutive numbers, so appending, taking and concatenating are facts
about stretches. In the refinement `CachedSendPublish` maps to `Send`, `CachedRecvPublish` to
`Recv`, the rejecting case of `CachedSendAvailable` to `Reject`, the last case of `RecvLoadTail` to
`EndOfStream`, the drops to the drops, `CachedDropRing` to `Free`, all else to a stutter.

*SpscBounded.* As long as `head < Cap` both sides of the comparison in `full()` mean what they should
(`FullIsExactAtFirst`), and `FirstLap` is an ordinary ring invariant under that condition. The condition can only
become false, so a state in which it holds was reached through states in which it held. What is
left for later laps is `ThreadInv`, enough for the end of the stream.

*MpscBounded.* The mutex (`LockInv`) leaves at most one element that is stored and not counted, and the
consumer at most one that it has taken and not released; up to these `len` is the distance of the indices
(`CountInv`). A producer past the test of `len` still has its room at the store, since only the holder of the lock
raises `len` (`StoreIsApart`). For the refinement the content of the ring is what `len` counts:
`StoreKeepsContent`, `PublishAppends` and `ReleaseTakesHead` say what the three steps that touch it do, and
`StepRefines` maps each action as above, the last `DropProducer` included.

*MpscCached.* `TileInv` is the heart: the slices that are out or wait lie apart and fill the stretch between
`readable_till` and `tail`, without which neither the batch copies nor the counters can be reasoned about. `CountInv`
gives each of `len`, `reserved`, `free` as a difference of indices and of the sizes of slices in the middle of an
update (`SizeAt`). `MergeInv` is the reason that nothing is left behind: if a waiting slice begins where the readable part
ends, somebody is in `merge_with_filled_slices`; so when nobody is left (`AliveInv`) no slice waits.
`PerProducerFifo` needs four more parts (`FifoInv`): the local buffer fits the slice (`BufInv`), an element being sent
has not been handed back (`RejectInv`), p's elements in the ring lie before the slice p fills now (`OrderInv`), and
the ring outlives all handles (`GoneInv`). Then storing a slice appends its elements behind p's others (`StoreTotal`), merging
changes nothing, and receiving moves the first element from one sequence to the next. The rest is `Only`, the filter by
which elements are told apart, of which a section of lemmas says how it meets appending and concatenation.

*Bank.* That balances stay in range is inductive as it stands: crediting wraps into range, debiting
is covered by the test before it, and a transfer is one after the other. Conservation is about a sum that is
defined by recursion over the set of accounts. `SumRecursion` says by induction that such a sum exists and takes its
terms in some order, `SumTerm` that any of its terms can be taken out first, so that an update changes the sum by the difference
(`SumUpdated`) and opening an account adds nothing; modulo `Width`, crediting adds and debiting takes the amount.
A transfer within one account is both on the same one.

*Raft, the elections.* To vote for somebody is to enter that office's term, to stand for election is to enter a new one, and
nobody enters a term twice. But the state keeps no record of that: a `Vote` does not say whose it is, a candidate has
a number and forgets it when it stands again, and a request for a vote may be answered long after its sender went on.
`Explains(v)` says that `v`, which gives for every office and term whom it voted for, agrees with all there is to see:
a vote in `v` means that its giver has reached that term; a request on its way comes from one who voted for itself; and
a candidate's count together with the votes in its inbox (`Arriving`) is at most the number of its voters. The
invariant is that some ballot `v` exists; a history variable would do, but needs a change of the model. `NewVoter` and
`VoteStep` extend the ballot where somebody votes (`Election`, `HandleRequestVote`); in all other steps it may stay
(`SteadyStep`, `QuietStep`), since a vote that is counted leaves the inbox (`CopiesTail`). So a winner has the
votes of a majority of the offices it knows, and two majorities of all offices meet (`MajoritiesOverlap`). A majority
of those an office knows is one of all if it knows all, or if there are three: two of three (`MajorityIsHalf`). This
is `MajoritiesMeet`, and section 3 says what happens to four offices without it. `TypeCorrect` holds for any number of offices. It needs to know of
every message on its way what it carries (`Message`), among other things that an entry has none before it exactly if it is the
first (`Sendable`), so that an entry that fits lies within the log or right behind it (`FitsInside`) and the index of one that does not fit can be counted down.

*Raft, the logs.* The acknowledgements a leader has noted only say what an office once answered; what it held then may be
gone. So the proof keeps two records beside the ballot, again as an existential in the invariant and not in
the model: the book `H[t]`, the longest log the leader of term `t` has had in that term, and `A[x][t]`, how much of it `x` took over while in
that term. Every log is, up to its last entry of a term, the book of that term (`Logs`, `Bound`), and what is filed or
announced as committed is the beginning of an entry that a majority took over in its own term (`Files`, `Settled`,
`Chosen`). What may come of an entry is decided by two majorities having an office in common: either it stays in the log of everybody
who took it over and in that of every later winner, or a majority went on to later terms without it and it can never be
chosen (`Kept`, `Complete`, `Lost`). A winner has it because each of its voters compared logs with it (`Backed`).

That much is as in other accounts of such logs. What is special here is how a log is repaired. A request
writes its entry over whatever is at its index and drops all that is behind, and nothing tells an answer to an old
request from one to a new. A request that is handled late would therefore take away what was acknowledged meanwhile, were
it not for the order of messages. `Chains` says what that order is: between a leader and one
office the requests under way, the entry noted for it and those that the answers under way will make the leader note, in
this order, form one chain. As long as the office has taken over nothing in this term the chain goes down one index
at a time, and no index in it lies below the first that fits; from then on it goes up and never below the last entry taken over
(`Follows`, `Fine`). The first entry that fits is the turning point. A repeated request
is a repeated index, which costs nothing. Since a leader has at the end of that chain the entry it will send next, none
is left without one that lacks something; this is `NobodyIsForgotten`. Its exception is `Untold`, a leader that sent
nothing when it was elected, which ends with the first command after that.

The invariant speaks of states with `strayed` false, in which a step that breaks one of the three rules has not happened
yet; the step that makes it true ends the obligation. The rules are where the proof uses them: a leader
steps down, so that a winner is the leader of its term (`Leaders`); what is committed by counting is of the leader's term
(`Chosen`); and no office panics over a stranger (`NoPanic`), so that all get connected. Majorities are counted among all
the offices because nothing is in the logs before all are connected (`Setting`).

*Chat servers.* The properties are about `said`, the order of lines that the broker gave, and compare it with what one
user wrote and with what another was sent. The proof looks at one user `c` at a time. The commands of `c` that were said,
those in the broker's queue, and the one its reader is about to announce (`note`) make one `Flow(c)`, and only the
reader makes the flow longer: the broker moves a line from the queue to `said` and leaves the flow as it is. `Told(c)` says that
the numbers in the flow go up, that up to `lost[c]` there is no gap in them and the names link up, and, while no frame of `c` was read
in two parts, that it has exactly the commands read so far, which is where `name`, changed in one
step and announced in another, comes in. All that can happen to `c` in the queue is in `Post(c)`: a `Connect` before `c` is in the
table (`Entry`), a `Disconnect` only after a hang-up, one farewell at most (`Leaving`), and, unless `c` was dropped over a failed
write or had a frame read in two parts, nothing behind the farewell (`Orderly`, `Behind`). A step of one reader, one user or the broker leaves
everything of the other users alone (`Aside`), or touches of `c` only what a lemma of its own treats
(`StepNotify`, `StepSpawn`, `StepInsert`, `StepDrop`). What `c` was sent is compared with `said` last: the lines
since `joined[c]` without its own messages and without the one it is about to be told (`ToldAll`, with `Telling`: the loop
over clients tells the line said last to clients that were inserted before). All of this is stated about sequences filtered by sets, so the bulk of
the work is how `Only` meets appending, taking the head, and a set that is part of another. The server with threads is the case in which
no frame or line is in pieces (`Plain`), so that one proof serves both.

`CommonLemmas` states induction over the natural numbers about a set (`SetInduction`) instead of a predicate, as the
library does; it follows from inclusion of finite sets being well founded. `Iterates` is recursion on an interval.
These are what `Only` and the sum rest on.

Only model-checked:

* Liveness everywhere (`EveryElementSettled`, `CallsReturn`, `HangUpsAnnounced`, `HangUpsNoticed`, `Terminates`): the
  prover has no rules for `ENABLED` and fairness.
* The event server (`TypeOK`, `EveryoneHearsUnlessResumed`). What the second says rests on where each half of a
  frame is, between the socket, the buffer and `decode`, and needs an invariant of its own beside that of the other servers.
* `Recovery` and `Ext2` (`TypeOK`, `RecoversPictures`, `PassesNoFreeBlock`). `RecoversPictures` compares the arithmetic
  of `block_is_indirect` with trees that are laid out by recursion, and its devices are data, laid out by the module
  for TLC; the search through the bitmaps is a recursion too.

## 6. Not modelled

* The chat client (`client.rs`): terminal input and output around one socket, no state of its own. It is the
  users of the chat modules, but for one thing it does: at the end of its input it goes on sending empty
  messages.
* The names of clients in `EventServer`: one thread sets and reads them, so no step comes in between.
* Writing a line of the log file (`append`) is not separated from applying the command.
* The scheduling of the daemon by random delays: any order of disruptions is possible in `Raft`.
  When a command that a new leader kept is finally told to the others is a question of time as well. That
  nobody has it pending after an election with an empty log (`protocol.rs:211`) is the one exception that
  `NobodyForgottenUnlessKept` names: without `OnlyKept` in it TLC finds the property violated.
* The bytes of superblock and descriptors (`from_file`, `transmute`), I/O errors, and the test for blocks of
  zeros in `recover_files`, which skips blocks without a header.
* The timing harnesses and demo mains of the channel crates.
* The accessors `len()` of the two spsc crates, which compute `head - tail`: nobody calls them.
* Allocation failure, poisoned mutexes (no code panics under one) and moving a handle between
  threads. A handle is used by one thread at a time, as the crates intend; the handles without a
  `Cell` could be shared by reference, which is not modelled.

## 7. Plan

1. Done: `Channel`, `SpscBounded`, `SpscCached`, `MpscBounded`, `MpscCached`,
   `Raft` — the concurrent and distributed core.
2. Done: `Bank`, `ThreadServer`, `EventServer`.
3. Done: `AsyncServer` and `ChatServers`; `Ext2` and `Recovery`; the set-up of the offices in `Raft`.
4. Open, where a run can be spared for it: one on old entries committed by counting (it needs four terms).
5. Done: proofs of every invariant of the four channels and of `Bank`, and of both refinements; of all
   four invariants of `Raft`; of both invariants of `ChatServers`.
6. Open: proofs about the event server and the search for pictures.

## 8. Running

    tlc -config SpscCached.cfg SpscCached        # likewise SpscBounded, MpscBounded, MpscCached,
                                                 # Bank, ChatServers, EventServer
    tlc -config SpscBoundedOverrun.cfg SpscBounded
    tlc -config EventServerFlush.cfg EventServer
    tlc -config Raft.cfg MCRaft
    tlc -config RaftConflict.cfg MCRaft
    tlc -config Recovery.cfg MCRecovery
    tlapm SpscProofs.tla                         # likewise MpscBoundedProofs, MpscCachedProofs,
                                                 # RaftProofs, RaftLogProofs, ConsensusProofs,
                                                 # ChatServersProofs, CommonLemmas

The proofs of each module of `Raft` take about five minutes on two threads, the others less.
