# H264SendReceiver in TLA+

TLA+ modules for the H.264 parsing code of this repository and for the RTP
library it is built with, TLC runs that check them on small instances, and TLAPS
proofs of what holds for every instance.

## 1. The system

The repository is named for sending and receiving H.264. It has two halves.

* **The parser**, `src/src` and `src/include`: takes an Annex B byte stream
  apart. About a thousand lines of C++, one thread.
* **The RTP library**, `src/3rdPart`: jrtplib 3.11.2 with jthread 1.3.3, which
  `CMakeLists.txt` links for the sender and receiver. The parser does not call
  it yet. It is most of the code of this repository and has two threads, locks,
  timers and a network around it.

```
 main.cpp (FuncTestRbsp)                    application
    | open, readNalu, close                     |  Create, SendPacket, BeginDataAccess,
    v                                           v  Destroy, BYEDestroy
 FileReader --readFromFile--> ifstream      RTPSession -----owns----+--> RTPPacketBuilder (SSRC)
    | fills                                     | starts, stops     |
    v                                           v                   +--> RTPSources
  Nalu -> Ebsp -> Rbsp                      RTPPollThread (JThread) |       | counts, member left
                                                | wait, Poll,       |       v
 NaluStream (ue, se) is a BitStream             | ProcessPolledData +--> RTCPScheduler
                                                |                   +--> RTCPPacketBuilder -> compound packet
                                                +------------------>+--> RTPTransmitter (one of five)
```

| Component | State | Operations | What makes it correct |
|---|---|---|---|
| `FileReader` | `m_file`, `m_buffer` (bytes read and not handed out) | `open`, `close`, `readNalu` (loop of `readFromFile`, head test, scan) | every frame of the stream once, whole, in order; `false` only where no frame starts; every call returns |
| `Nalu`, `Ebsp`, `Rbsp` | the bytes of a unit | `getEbsp`, `getRbsp`, setters | the payload: what the encoder inserted is removed and nothing else |
| `BitStream`, `NaluStream` | `m_pos`, `m_bitOffset` | `readOneBit`, `readNBits`, `getRemainBitSize`, `readUev`, `readSev` | every bit once, in order, nothing past the end; Exp-Golomb codes read back |
| `main.cpp` | the loop of `FuncTestRbsp` | - | prints the whole file and ends |
| `JThread` | `running`, two handshake mutexes | `Start`, `ThreadStarted`, `Kill` | `Start` returns when the thread is in `Thread()`; a thread that ended can be started again |
| `RTPSession`, `RTPPollThread` | own SSRC in the builder, `sentpackets`, `byepackets`, collision list, `stop` | `Create`, `SendPacket`, data access, `Destroy`, `BYEDestroy`, `ProcessPolledData`, `Stop` | the builder's SSRC and the own entry agree; each SSRC is left once and properly; data access is undisturbed; leaving returns |
| `RTPSources` | the source list, own entry, counts of members, senders, active ones | RTP and RTCP packets, five timeouts, own SSRC, clear | counts agree with the table, entries keep their owner, callbacks pair, silent sources leave |
| `RTCPScheduler` | next and previous report time, member counts, BYE state | `IsTime`, `ScheduleBYEPacket`, `AnalyseIncoming`, `AnalyseOutgoing`, `ActiveMemberDecrease` | reports are spaced, never put off for ever, and never delayed by who leaves |
| Transmitters (UDP v4, v6, fake, TCP, external) | sockets, destinations, groups, receive mode and lists, abort pipe, received packets | `Create`, wait, `AbortWait`, `Poll`, `GetNextPacket`, `Destroy`, destinations, groups, lists | sockets accounted for, waits woken, packets in order, lists obeyed |
| RTCP packets | marks on sources and items from packet to packet | build reports, SDES, BYE, APP; parse | fits, is read back as built, everybody has a turn |

Shared state and how it is guarded: `sourcesmutex` (source table, collision
list), `schedmutex`, `buildermutex`, `packsentmutex` of the session; the main
mutex and the wait mutex of a transmitter; `stopmutex` of the poll thread;
`continuemutex` and `continuemutex2` of a `JThread`. The source table calls the
scheduler back when a member leaves, and the application when a source comes or
goes.

### What is hard about it

* `readNalu` keeps the rest of a unit in `m_buffer` from call to call, reads
  another chunk at the start of *every* turn, and decides from "the last read
  brought nothing" that the file has ended. A start code may lie across two
  chunks; the file may be closed, re-opened or fail between any two calls.
* `FindStartCode` is told how many bytes it may look at, checks for three and
  looks at four; `getRbsp` looks back two bytes and ahead one; `readNBits` cuts
  its count once and trusts it afterwards.
* A collision of SSRCs is handled in five steps, each under another lock, while
  the application sends and may be leaving. `Stop` cancels a thread that does
  not end in five seconds, wherever it is.
* `AbortWait` is lost when the thread is not in its wait yet. `Destroy` closes
  the pipe a thread waits on and waits for that thread.
* The source table keeps three counts beside its entries, and every path through
  an operation must keep them. The scheduler computes with them.
* The timer is reconsidered when it expires (members joined) and reversed when
  members leave, with integer edges at both ends.
* RTCP packets are sized by one piece of code and written by another, and take
  turns over more packets than one.

The repository's own tests are the demo video (324487 bytes, 541 units; no start
code of it lies across two chunks, no unit is shorter than three bytes) and
jrtplib's example programs. `PROJECT.json` lists under "hazards" what they do not
reach, each at its line.

## 2. The modules

| Module | Models | Uses |
|---|---|---|
| `StartCodes` | start codes, boundaries, frames, well-formed streams: reference definitions | - |
| `NaluSource` | **abstract specification** of a reader: a stream is fed, and frames are handed out | `StartCodes` |
| `FileReader` | `FileReader.cpp` under a caller that makes any calls | `StartCodes`, instance of `NaluSource` |
| `NalUnit` | `Nalu`, the conversions to Ebsp and Rbsp as operators; the encoder (external) | - |
| `FuncTest` | `FuncTestRbsp`: `FileReader` composed with its caller and `NalUnit` | `FileReader`, `NalUnit` |
| `Ebsp` | the loop of `getRbsp`, one step per turn | `NalUnit` |
| `BitStream`, `NaluStream` | bits, one step per bit of `readNBits` or zero of `readUev`; the Exp-Golomb encoder (external) | - |
| `JThread` | starting, ending and killing a thread | - |
| `RTPSession` | the application and the poll thread of one session | `JThread` |
| `RTPSources` | the source table | - |
| `RTCPScheduler` | the RTCP timer over a table that changes | - |
| `PacketQueue` | **abstract specification** of the receiving side of a transmitter | - |
| `RTPTransmitter` | life, wait, abort pipe and packet list of a transmitter | - |
| `ReceiveFilter` | receive mode with accept and ignore lists | - |
| `RTPUDPv4Transmitter`, `RTPUDPv6Transmitter`, `RTPFakeTransmitter`, `RTPTCPTransmitter`, `RTPExternalTransmitter` | the five transmitters | `RTPTransmitter`, `ReceiveFilter` |
| `RTCPCompoundPacket` | reading a compound packet | - |
| `RTCPCompoundPacketBuilder` | sizing and writing one | `RTCPCompoundPacket` |
| `RTCPPacketBuilder` | what goes into each, from packet to packet | `RTCPCompoundPacketBuilder` |
| `MC...` | constants for TLC; `MCDecoders` and `MCTransmitters` also put modules side by side | the modules they name |
| `Iteration` | lemmas for the proofs: induction, and loops over a list | - |
| `...Proofs` | theorems | the modules they name, `Iteration` |

Variables keep the names of the members and locals they stand for. Each action is
one operation or, where another thread may run or a lock may be taken in between,
one piece of it; the comments name the function. Sequences are 1-based, offsets
are those of the code: the byte at offset `o` of `s` is `s[o + 1]`.

**FileReader.** The variable `pc` says where `readNalu` is. `ReadFromFile` is a
call of `readFromFile`; `HeadFound`/`HeadMissing` the test at the head of
`m_buffer`; `ScanHit`/`ScanMiss` one offset of the scan; `ExtractRest` and
`ReadMore` what follows an unsuccessful scan. `Open`, `Close`, `ClearNalu`,
`CallReadNalu` are the caller. `input` and `taken` are history: the bytes ever
put into `m_buffer`, and how many of them were handed out. `Source` is the
stream as the caller may see it, `input` and what the open file still holds.

* `std::ifstream`: a read returns 1024 bytes or what is left; after a failed
  read (`ReadError`, `bad`) nothing more; opening clears the state. A failed
  read delivers no bytes (`gcount()` is 0).
* The chunk size is the constant `Chunk`. It must be at least 4: a chunk that is
  not the last one must hold a whole start code, or the head test could fail on
  a stream that goes on. 1024 is; TLC uses 4, so that a start code can lie
  across two chunks in every way.
* The byte past the end of `m_buffer` that `FindStartCode` looks at is a member
  of `OverRead`, chosen anew each time. The code cannot rely on any value, so
  the statements come in two forms: for every value, or for `1 \notin OverRead`
  (or a stream without three zeros outside a start code, `WellFormed`).
* Opening an open file and closing a closed one change nothing and have no
  action; a failed `open` has one in `FuncTest`, since the program ends there.
* The reader tells 0, 1 and other bytes apart, `getRbsp` 0 to 3 and others. One
  value (9, or 4 in `MCDecoders`) stands for the others.

**BitStream and NaluStream.** A byte is the function from bit numbers to bits,
an `int` its bit pattern. `ByteBits` and `IntBits` are 8 and 32 in the code, 3
and 4 in the runs: what the code does depends on where in a byte a code starts
and on how its zeros compare with the width of an `int`. A shift by the whole
width (32 zeros) is undefined; `Patterns` holds both results a build can give.
Counts above the width are not modelled.

**JThread and RTPSession.** `app` and `thread` say where each of the two threads
is. A step ends where a lock is taken that the other thread may hold, or where
both touch a field. The locks taken and given up within one step need no
variable; `sourcesmutex`, the wait mutex and the two handshake mutexes are
variables, whose value is the thread that holds them. SSRCs are numbered in the order they
are made: `CreateNewSSRC` draws until no member has the number. `FirstCollision`,
`LeaveSSRC`, `CreateNewSSRC`, `ClearSentPackets` and `ReplaceOwnSSRC` are the five
steps of a collision. `longwait`, chosen at the start, says whether a wait may be
longer than the five seconds of `Stop`. `history` holds the SSRCs a BYE was sent
for. A packet that the source table refuses with an error carries `No` and ends
the poll thread (`ReceiveFails`), as does any other error (`ThreadFails`).

**RTPSources.** The table is one record; the class's functions are operators from
tables to tables, an action is one public function. A time in an entry is the
time since, with `Never` for the time (0,0) a new entry starts with. Of the
sequence numbers there remains whether a packet has the one that probation waits
for. The loops over the CSRCs of a packet, the SSRCs of a BYE, the blocks of a
report and the packets of a compound are recursive functions over the list.
`announced` is history: the sources the application was told of.

**RTCPScheduler.** `wait` and `since` are the distances of `nextrtcptime` and
`prevrtcptime` from now, in ticks. The table around it is `members`, `senders`,
`aresender`, which change by any legal step. The random factor of an interval is
any value between its bounds; the running average of packet sizes is anything
between the old average and the new size. `gap` and `eased` are history.

**Transmitters.** `RTPTransmitter` has what the five share: a waiting thread is
idle, in `select`, or woken and not yet back in possession of the main mutex;
`abort.bytes` is the content of the abort pipe. `RTPUDPv4Transmitter` has
everything a UDP transmitter does, with the operating system's sockets, ports and
memberships as variables, so that a leak shows. `RTPUDPv6Transmitter` and
`RTPFakeTransmitter` instantiate it for what is the same code. In
`RTPTCPTransmitter` frames arrive in any pieces. `ReceiveFilter` is what the two
UDP transmitters and the fake one have in common, with its own small specification.
The loop with which `Poll` takes one datagram after the other and drops what the
list refuses is the recursive function `Polled`.
`MCTransmitters` takes the addresses packets come from as the constant `Source`;
`MaxPort` is the highest port there is (65535), and above 3 by assumption.

**RTCP packets.** A packet is the list of what a writer put at which offset; the
reader finds a header only where there is one. A builder is a value, since a
session makes one for each packet. The marks on sources and items, which outlive
a packet, are the variables.

**Faulty variants.** Next to some definitions stands a faulty variant of it
(`ExtractErasesMore`, `LeaveSSRCLate`, ...). No specification uses them. Put in
the place of the definition behind them they show that a property does notice the
mistake; `PROJECT.json` says which property notices which.

## 3. The runs

All runs explore every reachable state of their instance.

| Run | Question | Bounds |
|---|---|---|
| `reader` | `ReaderInvariant` (no byte lost, and what the proof needs), `OneFramePerNalu`, `FailsOnlyWithoutFrame`, `CallsReturn`, and `FileReader` implements `NaluSource` | every file of at most 5 bytes over {0, 1, 9} and files of at most 4 pieces out of `00 00 01`, `00 00 00 01`, `09`, `09 00` (up to 16 bytes, four chunks); failing reads; two opens; 1 not past the end |
| `program` | on well-formed files the program prints every frame and reads to the end, whatever lies past the end (`WellFormedDelivered`); the payloads are the encoder's (`PayloadsRecovered`); it ends on every file (`Terminates`) | files as above with at most 6 bytes; streams of one or two units of 3- and 4-byte start codes and six payloads |
| `decoders` | `getRbsp`: `UndoesEscape`, `DropsOnlyListed`, `Returns`. Bit streams: `BitsAreThere`, `RemainIsExact`, `FieldsReadBack`, `ReadsForward`, `CallsReturn` | every body of at most 6 bytes over 0..4; every buffer of at most 2 bytes of 3 bits, three calls, counts 0, 3, 4; every pair of fields |
| `sources` | `TableInvariant` (counts, own entry, addresses), `AppKnowsTable`, `EntriesKeepIdentity`, `SilentLeave` | 3 SSRCs, 3 addresses on two hosts, three packets of any of the kinds in `MCRTPSources`, probation that stores, delays of one tick or none |
| `session_threads` | `StartedMeansStarted`, `OwnEntryMatches`, `LeavesProperly`, `FullControl`, `AccessIsStable`, `LeavesInTime` | two addresses, two packets, a session created twice |
| `scheduler` | `NotTwiceAtOnce`, `ReportsAreSpaced`, `LeavingNeverDelays`, `KeepsReporting` | 3 members, 2 BYEs, two sizes, a minimal interval of 4 ticks; 2 members are few, so both sides of each threshold occur |
| `transmitters` | `SocketsInOrder`, `WaitsAreWoken`, `NothingUnasked`, `DeliversInOrder` (each implements `PacketQueue`), `CleanAndFiltered`, `WaitsEnd` | each of the five; 7 ports, 2 attempts, one host with 2 ports in the lists, one group, 2 packets; TCP: two connections, packets of at most 2 bytes, a length byte has two values |
| `reports` | `FitsAndProgresses`, `ReadsBack`, `EveryoneHasATurn`, `ItemsOncePerRound` | three sources that come and go, two items besides CNAME, packets of 600 and 700 bytes, report blocks of 100 bytes and 2 to a report packet |

Why the bounds are enough to meet the cases:

* Six bytes hold a start code, a body, and a second start code cut by the chunk;
  four pieces put every start code at every offset of a chunk. Two opens let
  what was left in `m_buffer` meet the same file again.
* Three calls let any call follow any other in the middle of a byte.
* Three packets can make an entry, collide with it and validate it; the age of an
  entry is bounded by the delays, so every timeout can come at every state.
* Two packets make two collisions in one `ProcessPolledData`, or one each in two
  lives of a session, or one that meets an address already in the list.
* The top port 7 is the odd one the code treats apart, and two attempts make the
  search for a pair of ports succeed at once, later, or give up. A length byte of
  two values makes two bytes of length matter with packets of two bytes.
* A report block is 24 bytes in the code, and 31 go into a report packet. With
  those numbers a packet is full, or needs a second header, only with many sources.
  A packet of the smallest legal size, 600, is full at two or three blocks of 100
  bytes, which leaves some over with three sources; with 2 blocks to a report packet
  the third needs another header.
  `MaxWait` is 3 and tight: with 2 the run fails.

The part of a behaviour in `transmitters` (`kind` and `part`) is chosen at the
start. The parts of one transmitter other than `Create` and `Destroy` share no
state, so running them one at a time loses nothing but size.

**Fairness.** The parser's calls that were made are executed (weak fairness of
the steps of a running call): one thread, no locks, no waiting. The caller need
not call. In `RTPSession` each thread goes on when it can (`AppFinishes`,
`ThreadRuns`: what was begun, and the loop of the poll thread; a wait ends when
its delay has passed). The application need not begin anything, nothing need
arrive or fail, and the five seconds of `Stop` need not pass. Weak fairness
suffices for the locks, because neither thread takes one again and again without
another step between: after `sourcesmutex` is given up the poll thread waits in
the transmitter. The scheduler is asked again and again because every
wait of the poll thread is bounded by `GetTransmissionDelay`, and time passes. In
the source table time passes and the timeouts run, in each `ProcessPolledData`.
In the transmitters a woken thread goes on and `Destroy` gets the mutex nobody
holds; a wait need not time out. Deadlock is checked wherever somebody can always
act, and switched off for what may stop: `FuncTest`, the decoders, a session that
was created as often as the bound allows, and the source table.

### Disagreements between the code and its comments

Each of these runs has one property and fails on it.

| Run | What TLC finds |
|---|---|
| `program_overread` | A chunk or a file that ends in three zeros which begin no start code: `FindStartCode` looks at a fourth byte. If that byte happens to be 1, `readNalu` cuts the unit in front of the zeros; the next call finds no start code at its head, answers `false`, and the program closes the file with the rest unread. |
| `session_leaves` | `Stop` cancels the poll thread after five seconds. The thread is then in the transmitter's wait and holds the wait mutex, which `Destroy` needs: it never returns. It takes a wait longer than five seconds whose `AbortWait` came too early. |
| `sources_active` | A CSRC that was known before from RTCP is validated without being counted, so `GetActiveMemberCount` is too small until the next timeout. |
| `reports_twice` | When blocks and items fit and sources were skipped, the marks of all sources are cleared, also of those in this packet, which may then get a second block while a skipped one gets none. |

Not a contradiction of a comment, but worth knowing:

* `readFromFile` answers `false` both at the end of the file and for a failed
  read. `readNalu` then hands out the part of the unit it has, and returns `true`.
* `close()` keeps `m_buffer`, and `readNalu` on a closed reader returns what is
  in it, also half a unit. `NaluSource` therefore treats a close as the end of
  the stream (`Feed` with nothing behind what was fetched).
* A unit that is only a head: `getRbsp` copies two bytes that the vector does not
  have, and the payload is longer than the body.
* `readSev` of a code with 31 zeros (4-bit ints: 3): the digits fill the `int`,
  `ret >> 1` keeps the sign, and 2^30 is read as -2^30.
* `SendPacket` sets `sentpackets` after it gave up the builder's lock. A collision
  in between gives the new SSRC a BYE although no packet carried it.

## 4. The proofs

From the assumptions named in the modules only, and for all values of the
constants.

**`FileReaderProofs`**, for any set of files, any chunk size of at least four and
any number of opens, in two layers. Of the reader alone:
`InvariantHolds` (`Spec => []ReaderInvariant`), `TypeCorrect`, `BytesAreKept`,
`UnitsHoldOneFrame`, `FailuresAreRight`, and, if `1 \notin OverRead`,
`ReaderImplementsSource` (`Spec => ImplementsNaluSource`).
`OneFramePerNalu` needs to know that the scan has passed every offset before
`idx`, and, since `HeadFound` sets `m_startCodeLen` while the old bytes are still
in the `Nalu`, that a unit is clean from its *third* byte on (`NaluInvariant`).
`FailsOnlyWithoutFrame` needs that at the head test `m_buffer` has four bytes or
all there will be, which is where `Chunk >= 4` is used. The refinement needs that
`isReachEnd` means that the stream is all in `m_buffer`, and that the unit being
scanned really has its start code, the one place where `1 \notin OverRead` is
used. `CallInvariant` is the conjunction of these. The proof goes by lemmas on
sequences and on start codes, one step per action for each conjunct, and for the
refinement one lemma per abstract action (`OpenFeeds`, `LossFeeds`,
`NoFrameAtHead`, `ExtractDelivers`).

Of the program around it: `FramesAreDelivered`
(`DriverSpec => []WellFormedDelivered`), without any assumption on `OverRead`.
Its invariant `DriverInv` adds to `ReaderInvariant` where the program stands
(`DriverAt`), that the reader reads the one file it has open (`ReadsFile`), and,
on a file without trailing zeros, that what is left begins with a start code or
is nothing and that a unit being scanned has its start code in `m_buffer`
(`ScansFrames`). A start code that `FindStartCode` sees with one byte past the end
of `m_buffer` is there on such a file (`SeenIsThere`): the three zeros before that
byte can only be the beginning of a start code. So the unit found ends where a
frame of the file ends (`TakesFrames`), and a failed head test means that nothing
is left. `WellFormed` is a hypothesis, as in the property: the run `program_overread` shows
what happens without it.

And of what it prints: `EncodedIsRecovered` (`DriverSpec => []PayloadsComeBack`). If
the file is what an encoder writes, the payloads printed are those it was given,
all of them and in order, for any number of units with any payload of at least two
bytes that does not end in zero (`Encodable`: a payload ends in the stop bit).
`StreamsAreRecovered` is the property of the run, `PayloadsRecovered`, as a case of
it. The argument has four parts.

* What `Escape` writes holds no start code and does not end in zero, also with the
  head byte in front (`EncodedIsTidy`), and keeps the payload's bytes in order.
* So the file is well formed, and its units are its only frames: units have offsets
  (`Laid`, `EncodeLays`), no start code begins within one (`NothingBeginsInside`),
  and a frame that begins with a unit ends with it (`FrameIsUnit`).
* `getRbsp` undoes `Escape` (`EscapeIsUndone`). Two bytes of payload are needed: for
  less, `getRbsp` copies what lies past the end of the ebsp.
* The invariant `RecoveryInv` adds to `DriverInv` that k units are printed and the
  reader stands behind them, or has the next one in its hand (`PrintsUnits`).

**`DecodersProofs`**, in two parts.

* For every width of bytes and ints, every buffer and every sequence of calls:
  `PositionHolds` (the position names a bit of the buffer or its end, and
  `readNBits` wants no more bits than are left), and from it `BitsAreAlwaysThere`,
  `RemainIsAlwaysExact`, `ReadingIsForward`. The argument is one lemma
  (`AdvanceTakesOne`) and that `EnterReadNBits` cuts the count.
* For every ebsp of any bytes and any length: `EbspInvariance`. The loop of
  `getRbsp` at offset `idx` has in its buffer what the comment of the loop keeps
  of the part it has passed (`Result`); `OnlyListedAreDropped` follows from that
  alone. `EscapeIsUndone` also needs, for a body an encoder can have written, that
  escaping the buffer gives a prefix of the body. How far it goes (`Undone`) is one
  byte less than was passed if the last one was dropped: the encoder inserts that
  byte again only when the one behind it comes.

**`RTPSessionProofs`**, for any number of addresses, packets and lives of a
session, in two layers.

* `ThreadsAreInStep`: `ThreadInvariant` is inductive alone. It says who holds a
  mutex from where the two threads stand (`LocksHeld`), and where the poll thread
  can be from where the application stands (`Handshake`). From it:
  `StartIsRight`, `ControlIsFull` and `AccessIsRight`, the last because only the
  holder of `sourcesmutex` changes the own entry and the collision list.
* `SessionIsConsistent`: `SessionInvariant` adds the data. `Entries` says in which
  of the five steps of a collision the own entry and the builder's SSRC may
  differ, and when a BYE is scheduled. `LeavesOnce` needs that the SSRCs left by a
  BYE are all different (`Distinct`) and below the builder's while that is in use
  (`LeftBehind`). Numbers do not run out because each new SSRC is `Paid` for, by a
  session or by a collided packet, which is deleted only after the SSRC was
  changed. From these: `OwnEntryIsRight`, `LeavingIsProper`.

**`RTCPProofs`**, in two parts.

Of `RTCPScheduler`, for every group, packet size, bandwidth share and minimal
interval of at least two ticks: `NeverTwiceAtOnce`, `ReportsKeepDistance`,
`LeavingOnlyHurries`. None is inductive. `SchedulerInvariant` adds that the time
since the last report, as the scheduler sees it, is not ahead of the real one
(`gap`) unless a member left or a BYE was scheduled (`eased`), and that a scheduled
BYE implies `eased`. It rests on bounds of the intervals (lemmas on products and
quotients) and on the condition that reverse reconsideration scales by at most 1.

Of `RTCPPacketBuilder`, for every finite set of sources, list of SDES items,
choice of intervals and lengths, and for packets from 600 bytes on
(`RTP_MINPACKETSIZE`) with report blocks of at most 300 (`RoomAssumption`; the
code's have 24):

* `BuilderItemsOncePerRound`. `ItemsOncePerRound` speaks of rounds that are over,
  so `BuilderInv` says of one that goes on that it has sent exactly the items it
  marked, but for marks an earlier session left, and that it marks only items that
  are due. Needed of the code: `FillInSDES` adds what is due and unmarked, all of
  it or some (`FillInSDESFacts`), and a packet that ends a round clears the marks.
* `BuilderFitsAndProgresses`. What is counted and what is written are different
  sums: the first has one header for every `MaxCount` blocks, the second is taken
  over the pieces `EndBuild` cuts. Each kind of piece has a lemma that both agree
  (`ReportsWritten` by partial sums over the groups, `APPWritten`, `BYEWritten`).
  That the counted size stays below the maximum goes call by call: what fits with
  one block or item more still fits when it is there (`OneItemMore` and its like),
  the beginning of a packet takes at most 297 bytes, and what is left of 600 has
  room for a BYE, an item or a report block, whatever their lengths.

**`RTPSourcesProofs`**, for every set of identifiers, addresses, packets, delays and
lists of any length, any probation: `TableIsSound`, `AppKnows`, `EntriesKeep`.
`TableInvariant` is not inductive: that `totalcount` and `sendercount` stay right
when an entry goes needs that a sender is always validated (`EntrySound`), that
the own entry stays needs that it is active and has the address of this
transmitter (`OwnSound`), and `activecount` is at most the number of active
entries, not equal to it (run `sources_active`); that inequality is what is
inductive. `Sound` is the conjunction. There is one lemma for each operator on
tables; what a call may do to a table is a relation (`Grows`, `Keeps`), closed
under composition, and a loop over a list keeps whatever one turn keeps
(`IterationStays`). The timeouts count anew, so what has to be shown of them is
that they keep the own entry and the kinds of the entries that stay.

**`TransmittersProofs`**, for any number of ports, attempts, groups, hosts,
connections, packets and bytes, in layers over all five transmitters.

* `WaitsAreAlwaysWoken`: `Life` says what the state of a transmitter can be in
  each stage of waiting and destroying, `Creates`, `Watches` and `Counts` that the
  pipe holds a byte for each connection that the wait does not watch yet, and for
  each that was written and not read.
* `AlwaysCleanAndFiltered` and `NeverUnasked`: `CleanInv` says that everything
  `Create` expects empty is empty whenever there is no session, on every way out
  of `Create` and `Destroy`. That `Poll` lets in only what the list accepts goes by
  induction over the datagrams in the socket. An entry of the list
  lists what was added and not deleted, or less (`AddingLists`, `DeletingLists`):
  it is less when a port is added that was an exception of all ports.
* `AlwaysInOrder`: `PortsInv` says which sockets and ports each of the stages of
  `Create` holds, for each attempt at a pair of automatic ports; `UseInv` that the
  sockets in use are open, with the ports the parameters ask for, and either both
  the transmitter's own or both the caller's;
  `MemberInv` ties the system's memberships to the groups. `FramesInv` is the
  framing of TCP: what a connection has buffered (`FrameOK`) and what is on the
  wire (`StreamOK`).

**`DeliveryProofs`**: `AlwaysDeliversInOrder` (`Spec => DeliversInOrder`), each of
the five transmitters implements `PacketQueue`, for any number of connections,
sources and packets of any length.

* What a channel has pending (`Held`) is what came over it in `rawpacketlist`, then
  what waits in its socket or on its connection. The proof first shows that each
  step of each transmitter is one of eight kinds (`FlowStep`: a packet comes in, is
  sent, is injected, is taken, the sockets are polled, a frame is complete, all is
  lost, nothing), then that each kind is a step of the queue or a stutter
  (`FlowGoesOn`). `Through` and `PollSocket` are loops that select elements of a
  list; the lemmas say that a selection is unique, is a part of the list, and goes
  over lists behind each other (`SelectionUnique`, `SelectionIsPart`,
  `ThroughJoined`).
* That the packet a TCP connection hands out is the next one its peer sent, and
  unchanged, needs `CutInv`: what was read of a frame that is not complete,
  together with what is on the wire, is exactly the frames of the packets that were
  not handed out, in order (`Framed`). It is what `Poll` keeps wherever the bytes
  are cut, within the length field too, because the length was written by the
  peer in the same base (`FirstIsRead`, `ReadsOn`). Deleting a connection within a
  frame breaks it, which is why the model refuses to add that connection again
  (`midframe`).

**`Iteration`** has the induction the others use. The library's induction theorems
take a predicate as parameter, which the provers cannot instantiate; that finite
sets are well founded under inclusion is stated without one. `LeastNumber` follows
from it, then induction for a set (`InductionOnSet`), that a loop has a result
(`IterationExists`), that it keeps what each of its turns keeps
(`IterationStays`), and that the elements of a finite set of numbers can be
numbered (`RankExists`), where one more number above them is the last and leaves the
others their places (`RankOfMore`). The latter gives `SelectSeq` and the folds of the
community modules, which count elements of index sets, one more element at a time.

**Only model-checked:**

* everything about liveness and fairness, which is outside the prover
  (`CallsReturn`, `Returns`, `Terminates`, `KeepsReporting`, `SilentLeave`,
  `LeavesInTime`, `WaitsEnd`);
* `FieldsReadBack`: the values of `readUev` and `readSev` are powers of two;
* `ReadsBack`: the receiving classes walk through packets, chunks and items by
  recursion over the bytes, again induction over data;
* `EveryoneHasATurn`, which does not hold for every instance. The sources that
  send take turns as long as a packet has room for those that leave and come back
  between two packets, since these come back without a mark. With room for only
  one block in a packet, TLC finds two that take the place of the third again and
  again: the third waits longer than any bound.

## 5. Not modelled

* **Sending** of the transmitters: one `sendto` for each destination, no state.
  Header overhead. The fake transmitter's parameters for outgoing data.
* **RTP packets**: the builder's and parser's header fields are copies of data. Of
  the builder the SSRC is part of `RTPSession`.
* **Numbers in a report block** and `RTPSourceStats`: sequence number extension,
  jitter, loss. No decision of the library reads them but the probation, which is
  modelled. The packets that wait in an entry.
* **Private SDES items** when building; received ones only set a time.
* **The secure session**: an external library encrypts each packet.
* **Addresses, hash tables, random numbers, error codes, memory**: values, sets,
  choices. That memory runs out is left out everywhere.
* **Setters and getters of the session** under one lock. The poll thread takes
  `schedmutex` and `sourcesmutex` in both orders (`rtppollthread.cpp:127` and
  `ProcessPolledData`), which is safe as long as the application takes no second
  lock between `BeginDataAccess` and `EndDataAccess`; nothing documents that. In
  the model the application does not.
* **TCP connections that close**: `Poll` finds nothing, nobody is told, and the
  connection stays readable. Nothing documents who should notice.
* **Windows builds**, sessions without a poll thread, the time after which a
  collision is forgotten (any time in the model).
* **`m_buffer`'s growth**: every call reads a chunk even if `m_buffer` holds whole
  units; no documentation bounds it.
* What `readUev` and `readSev` return for a code the buffer cuts off: modelled,
  but nothing says what it should be, so no property speaks of it.
* Names of NALU types, dumps, log lines, build files, the library's tests and
  examples.

## 6. Plan

Done, in this order: the reader and its abstract specification, the program
around it, the payload, the bit streams, with the proofs for reader and position;
the session's threads, the source table, the scheduler, the transmitters with
their abstract queue, RTCP packets; the proofs for session and scheduler, then for
`getRbsp`, the source table, the transmitters and their queue, the frames the
program prints, what goes into RTCP packets, and the payloads the program prints.

Next:

1. `RTPSources` composed with `RTCPScheduler` in the place of `members`.
2. An abstract bit cursor as the specification of `BitStream`, and `NaluStream`
   shown to implement it.
3. When the sender and receiver exist: their packets over the same abstract source
   of frames.

