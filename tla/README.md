# LibAshe in TLA+

LibAshe is a C++11 library: a counting semaphore, a server-side WebSocket, and
filters (base64, message digests), UUIDs, byte-order conversions and buffers,
over OpenSSL libraries that are loaded at run time. This directory holds TLA+
modules that model it, the TLC configurations that check them on small
instances, and proofs that TLAPS checks for every value of the constants.
`PROJECT.json` relates every definition to the lines it models, lists the runs,
the mutants that show that each property can fail, the hazards the properties
are for, and the theorems.

Paths below are relative to the repository's `src/`; "WebSocket.cpp:143" means
line 143 of `src/WebSocket.cpp`.

## 1. Inventory

| Component | Source | State | Operations | What is hard about it |
|---|---|---|---|---|
| Semaphore | Semaphore.cpp, .hpp | `__traffic`, `__mtx`, `__cv` | a Ticket's constructor (`__enter`) and destructor (`__leave`) | threads interleave at every lock, wait and notification; wakeups may be lost, spurious, or overtaken |
| WebSocket: receiving | WebSocket.cpp | `stash[0]`, `remainingRead`, `frameSizeLimit`, the socket's O_NONBLOCK | `receive()`, `Frame(stash, &remaining, limit)`, `setNonBlock()`, `setFrameSizeLimit()` | TCP cuts frames anywhere; errors between two pieces; the peer's close behind complete frames |
| WebSocket: sending | WebSocket.cpp | `stash[1]`, `fd` | `post(frame)`, `post()`, `close()`, `operator=` | short and failing writes, retries, an object that gets another connection |
| WebSocket: handshake | WebSocket.cpp | `handshakeStash`, `handshook`, `wasHandshaking`, `requestedUrl`, `header`, `values`, `headerLimit` | `handshake()`, `close()`, `operator=` | a request in pieces, an answer in pieces, both in one string; limits over several calls; greedy expressions for header lines |
| WebSocket: frames | WebSocket.cpp | `firstBytes`, `mask`, `payload` | setters, copying, `toBinary()`, the parsing constructor | one Frame object is filled many times; three encodings of a length |
| WebSocket: descriptors, settings | WebSocket.cpp | `fd`, `closeOnDelete`, limits | `bind()`, `listen()`, `accept()`, `shutdown*()`, getters and setters | two objects with one descriptor; a duty to close that is set once for good |
| Library life cycle | helper.cpp, \_\_openssl.cpp, \_\_internal.cpp | `__lashe::global`, `regex`, `openssl`, dlopen()'s counts | `init_LAshe()`, `deinit_LAshe()` | failure at every step, rollback, repetition |
| MessageDigest | MessageDigest.cpp | `ctxMD`, `result` | `open()`, `close()`, `feed()`, `finish()`, `clear()`, `payload()` | ownership of contexts on failure, and under a library that is taken down |
| Base64Encoder | Base64Encoder.cpp | `b64`, `bio`, `__type`, `result` | as above | two buffers, one of which each call resets |
| Base64Decoder | Base64Decoder.cpp | as the encoder, `__pushed` | as above | the size of the result, and what OpenSSL's filter keeps between two calls |
| FilterInterface | FilterInterface.cpp | `__pd` | abstract | none: the filters have a `__pd` of their own that hides this one, so `pushed()` is always 0 |
| UUID | UUID.cpp | `__pd`, the private data on the heap; an engine's pool and counter | construction from text and bytes, copying, `version()`; `randomise()`, `generate()` | the validated text is not the parsed one; the pool is filled and not kept |
| Endian | libashe/Endian.hpp | the caller's bytes | `from_endian_*()`, `to_endian_*()`, three inversions | unrolled sizes beside loops, unsigned arithmetic at the edges |
| Buffer | Buffer.cpp | `__pd`, a block of memory | construction, copy, move, swap, `alloc()`, `free()` | who owns a block; an object assigned to itself |
| StringUtils, Regex, Exceptions, Platform | various | none | pure functions, tables, value classes, macros | nothing that a model would show |
| Tests and examples | tests, examples | the process of nonblock_wsechoserver.cpp | two echo servers, a user of Semaphore, tests of initialisation | which exception means what to the caller, on a non-blocking socket |

How they interact. A `Semaphore` is shared by threads and uses nothing else.
A `WebSocket` object has one descriptor. Its three conversations (handshake,
receiving, sending) use separate members, except that `close()` and
`operator=` clear them together, and a server calls them one after the other, as
the example servers do. `post()` does not ask whether the handshake is done.
`Frame` is what `receive()` returns and `post()` takes. The filters and digests
call OpenSSL through the function table that `init_LAshe()` fills and
`deinit_LAshe()` deletes; neither side knows which objects are in use.
`Endian`, `Buffer` and `UUID` stand alone; the UUID engine uses a digest.

What makes each component correct:

- Semaphore: the counter is the number of live Tickets; no thread sleeps for
  ever while there is room or a Ticket whose destruction will notify it.
- Receiving: parsing stays in step with the stream; nothing complete is held
  back; nothing is returned before it has come.
- Sending: the connection carries exactly the frames taken, in order, whole;
  the caller is told what is pending.
- Handshake: the answer is given once, whole, only to a complete and valid
  request; memory stays within `headerLimit`; no state of one connection shows
  in the next.
- One connection: frames come behind the whole answer.
- A server's process: echoes come in order and without a gap; a client that
  waits for its echoes is served; the process ends for a reason.
- Frames: what is written is read back.
- Descriptors: nobody closes the socket of another; what is lost, the program
  lost.
- Life cycle: modules are opened and closed in pairs; a failure leaves nothing.
- Digests: a digest covers what was fed since the last one; contexts have one
  owner.
- Encoder, decoder, Endian: everything comes out once and in order; the number
  stays the number.
- Buffer, UUID: objects behave like values.

## 2. Modules

| Module | Models | Checked by | Proofs |
|---|---|---|---|
| `SemaphoreGate` | the abstract promise of Semaphore | `ImplementsGate` of Semaphore | - |
| `Semaphore` | Semaphore | `Semaphore_room`, `Semaphore_limit` | `SemaphoreProofs` |
| `WsReceive`, `MCWsReceive` | receiving | `WsReceive_stream`, `WsReceive_throws` | `WsReceiveProofs` |
| `WsPost` | sending | `WsConnection` | `WsConnectionProofs` |
| `WsHandshake` | the control of `handshake()` | `WsConnection`, `WsHandshake_reuse` | `WsConnectionProofs` |
| `WsConnection`, `MCWsConnection` | one object on one descriptor: WsHandshake and WsPost together | `WsConnection` | `WsConnectionProofs` |
| `WsHeader` | what `handshake()` makes of the header lines | `Values_exact` | `WireProofs` |
| `WsFrame` | frames | `Values_exact`, `WsFrame_reuse` | `WireProofs` |
| `WsOwner` | descriptors | `Values_exact` | `OwnershipProofs` |
| `WsEcho`, `MCWsEcho` | the process of nonblock_wsechoserver.cpp: WsHandshake, WsReceive and WsPost together | `WsEcho_server` | `WsEchoProofs` |
| `LibAshe` | life cycle | `LibAshe_sessions`, `LibAshe_dlopen` | `MessageDigestProofs` |
| `MessageDigest`, `MCMessageDigest` | MessageDigest, on top of LibAshe | `LibAshe_sessions` | `MessageDigestProofs` |
| `Endian` | Endian | `Values_exact` | `WireProofs` |
| `BufferValue` | what Buffer promises: every object has a value of its own | `ImplementsValue` of Buffer | `OwnershipProofs` |
| `Buffer` | Buffer | `Values_exact` | `OwnershipProofs` |
| `Base64Encoder` | what goes through the encoder | `Values_exact` | `EncodingProofs` |
| `Base64Decoder` | what goes through the decoder | `Values_exact` | `EncodingProofs` |
| `BioPair` | the BIOs that both of them make, chain and free | `Values_exact` | `EncodingProofs` |
| `Bits` | a byte as a set of bits, for WsFrame and Uuid | - | - |
| `Uuid` | UUID objects | `Values_exact` | `WireProofs` |
| `UuidEngine` | the random engine | `Uuid_generate` | - |
| `MCValues` | puts the parts that one thread uses by itself beside each other for one run | `Values_exact` | - |

### Semaphore

`pc[t]` says where thread `t` is in `__enter` or `__leave`, `owner` who holds
`__mtx`, `traffic` is `__traffic`. One action is one step that another thread
can observe: taking the mutex (`EnterLock`, `LeaveLock`, and `WaitReturn` for
the one inside `wait()`), the comparison (`EnterAdmit`, `EnterWait`), the
addition with the unlock (`EnterCount`), and the subtraction, `notify_one()`
and unlock (`LeaveNotify`, which picks any sleeping thread). `SpuriousWake` is
what a condition variable may do at any time. The code tests with `if`, not
`while`, so a thread that wakes does not compare again; the model has no such
step either.

`SemaphoreGate` leaves the mutex and counter out: threads are outside, inside,
asleep on a bench, or called. Called threads go in whatever the number inside,
which is exactly what the code does and what `Semaphore_limit` shows; all
others respect the limit.

### WsReceive

A byte is known by its position in the peer's stream, so `stash[0]` is the
window from `front` to `got`. `Digest` is `receive()` after its `read()`: either
`remainingRead` exceeds the stash and only the number is updated
(`StillShort`), or the Frame constructor parses (`Parse`), with its early throws
in the order of the code (`Parsed`). A frame is described by the fields that
decide the control: how long its extended length is, whether it has a mask,
whether a reserved bit is set, and how long its payload is. The contents are
not modelled. Three actions stand for what `read()` may return: bytes, the end
(0) or an error (-1). A blocking socket without bytes just waits.

### WsPost

`Write(bytes)` is one `write()` and what `post()` makes of its result: -1, some,
or all. `wire` and `accepted` are histories of one connection. The calls come in
any order. On a closed object `write()` fails and the frame stays pending, as in
the code.

### WsHandshake

Bytes are counted. `conn` is what the outside knows of the connection, the other
variables are the members. The reading loop is one action per `read()`, because
`HsClose` and `HsAssign` cannot come in between but the client can send. A read that
exceeds `headerLimit` is thrown away by the code, which leaves a hole in the
request if the caller goes on (`conn.hole`); then what the stash looks like is
arbitrary (`Seen`). What the header lines say is one of three kinds: answered,
without a key, or refused.

### WsConnection

One object whose handshake and frames go to the same socket. It EXTENDS both
modules, so that `close()` (`CloseBoth`) and `operator=` (`AssignBoth`) do to the
members of both what `__clearStash` and `__clearRequest` do. The program may
post at any time between two calls of `handshake()`, even before the first;
`early` remembers that it did, on this connection, without having been told that
the handshake was done. `FramesFollowAnswer` is then a property of the object,
not of the program: a frame that was posted in good faith is behind the answer
of its own connection.

### WsEcho

`forkMain()` of examples/nonblock_wsechoserver.cpp takes each of the three
conversations from its module by INSTANCE, and the setters of the one Frame
`sending` from WsFrame. `pc` says where it is: waiting for the
first `poll()`, in `handshake()`, in its loop, left, or dead of an exception that
nobody catches. Which of them follows depends on the type of what is thrown: a
string or an int from `handshake()` ends the process; a ssize_t is caught; of
what `post()` throws the int is not caught, and of what `receive()` throws the
string is not. POLLOUT is requested in the handlers and overwritten at the top of
the loop, so the process never calls `post()` to flush, and whatever is pending
after a short write stays pending: this is modelled as it is. A close frame of
the client is one of the frames of the stream (`last`), or none is. The client
sends frames only when it has the whole answer, in pieces that may hold several
frames, and may leave at any time.

Every echo is sent from the same Frame, whose length bits are or-ed together and
never cleared. `sending` holds these bits, an echo (`Echo`) has the extended
length that they call for, and `Echoes` is what the client gets for the first k
frames. The echoes are therefore right only as long as the bits of the lengths
so far make up the length that is due: `Readable(k)` says when they do, and the
service of a patient client is promised up to there. In the run the echoes
of the first two frames can be read, that of the third, which is empty, cannot,
and whatever stands behind it is lost to the client too.

### WsHeader

A line is the sequence of its parts between colons. The expressions `(.+):` and
`:(.+)` of the code are greedy, so a line with two colons has a name with a
colon in it, and a text that begins behind the first (`Name`, `Text`). The names
that may not come twice are compared with the text, as the code does
(`Repeats`). `Answered` swaps the maps into the object; when the answer is
written in pieces they are lost (`AnsweredInPieces`). `answered` is a history of
the lines that the object ought to show.

### WsFrame

`firstBytes` with its end mark, reserved bits, opcode, mask and length bits; the
size of the mask and of the payload; the setters, the copy constructor,
`toBinary()`, `getFrameSize()` and what the parsing constructor reads back.
`firstBytes` is the set of the positions of its bits that are one, so that `|=`
is a union and `&=` takes bits away; `BitsOf` and `Number` of module `Bits` go
from numbers to sets of bits and back. The length bits are only ever added, because that is
where the code differs from the RFC; the others are cleared first.

### WsOwner

`table` is the kernel's: which socket each descriptor denotes. The kernel gives
the lowest free number, so a number that was closed soon means another socket,
and a second `close()` of it would be seen. `__construct()` copies `fd`; whether
the object has to close it (`closeOnDelete`) stays as it is, and `close()` sets
it false for good. Histories say what the program has to answer for: a copy of
an object with a descriptor (`shared`), and descriptors that it overwrote
(`excused`). It is assumed that the compiler builds the result of `accept()` in
place, as compilers do, since a copy of the local object would close the
descriptor that it returns.

### LibAshe and MessageDigest

`LibAshe` has one action per step of `init_LAshe()` that can fail, with the
state of the three globals and dlopen()'s reference counts. A HelperException is
undone; a `std::exception` such as `bad_alloc` can leave at any step between the
globals and the last symbol (`StdExceptionLeaves`) and is not, as the handler
catches `ashe::Exception` only. What is half-built then is what a later
`deinit_LAshe()` or call on an object meets (`DeinitDies`, `Callable`).
`MessageDigest`
EXTENDS it, so that a program can take the library down between any two calls
on an object. A context is an address that may be reused after it was freed; a
digest is known by the blocks it covers. `lost` is a history of the contexts that
the code is known to leave: in `open()` when `EVP_MD_size()` fails
(MessageDigest.cpp:64) and in `close()` after `deinit_LAshe()`
(MessageDigest.cpp:83). When a call reaches a null function table, or a context
of a library that was unloaded, the model may die.

### Endian, Buffer, Base64, UUID

`Endian` is one buffer whose bytes are known by their place in the number. The
unrolled swaps of sizes 2, 4, 8 and 16 are tables, the loops of other sizes run
a round per action. -1 stands for a `size_t` that wrapped. The function names
fix the two orders of a conversion; `InvertSpelled`, `InvertRefused` and
`InvertLoops` are the three ways in which the switch statements go.

`Buffer` has pointers: objects point to private parts and these to blocks.
`BufferValue` has only values; `ImplementsValue` says that each call does to the
values what its abstract counterpart does, and therefore implies
`BufferValue!ValueSpec`. `x = x` is an abstract operation of its own, because it
loses the contents.

`Base64Encoder` numbers the bytes as they are fed. The filter of OpenSSL holds
up to two of them, and the memory BIO holds the encoded groups of three. Which
call resets which of the two is the point of the model.

`Base64Decoder` numbers the characters. The filter keeps characters that do not
fill a quad (`partial`) and decoded bytes for which the result had no room
(`backlog`). The result is two things, its size, which is that of the text, and
the bytes that `BIO_read()` wrote into it (`decResult`): `feed()` ignores the
number that `BIO_read()` returns, so the caller gets the size and cannot see where
the bytes end. `EverythingIsDecoded` says both: the bytes that were
written come once and in order, and of whole quads they are three quarters of
what is handed out. A feed for which there was no room at all is not looked
at by the filter, and the next one resets it away; `lost` remembers that this
happened. It takes feeds of one or two characters (`decCuts`).

`BioPair` is `open()` and `close()` of both, which are the same code. The BIOs have
identities, and `open()` has steps: the filter is made, then the memory, then the
object gets them. When there is no memory (`NoMemory`) the handler takes the
filter from its chain and frees it; until `Adopt` the object keeps the pair of an
earlier `open()`. The library may be taken down in between.

`Uuid` spells its texts, since the conversions are what can go wrong:
characters are ASCII codes, and the 36 places of a text are mapped to 16 bytes
and back as the two tables of the code do. `blocks` is the heap: it shows who
shares private data. A text with blanks in front is valid and is read from its
blanks on, so of its bytes only that all copies agree on them is claimed.
`UuidEngine` has the pool's size, the counter and the digest's bits.

## 3. Runs

| Run | Distinct states | What it shows |
|---|---|---|
| `Semaphore_room` | 4,052 | Five threads, concurrency 2, spurious wakeups: room that was seen is kept, the count is exact, no wakeup is lost, the gate is implemented, sleepers are called |
| `Semaphore_limit` | violation | `__traffic` exceeds `__concurrency` |
| `WsReceive_stream` | 101,736 | Seven frames of every form: alignment, nothing early, nothing held back, honest numbers, delivery after the peer's close |
| `WsReceive_throws` | violation | `receive()` ends the program on EAGAIN with a part of a frame in the stash |
| `WsConnection` | 266,030 | The wire carries whole frames in order; answers are exact; the handshake keeps its limits and what it has read, and answers once, whole and deservedly; frames follow the answer; what is pending is flushed, and a call that has a good request answers it |
| `WsHandshake_reuse` | violation | "Handshake already done." on a connection that has got nothing |
| `WsEcho_server` | 27,216 | Echoes in order without a gap, each with the length bits of all before it; reasons for leaving; service of a client that is patient and can read its echoes, and of a whole request |
| `WsFrame_reuse` | violation | A Frame filled twice has a wrong length |
| `LibAshe_sessions` | 1,851,652 | Balanced modules, backed abilities, complete rollbacks, exact digests, owned contexts |
| `LibAshe_dlopen` | violation | A module that cannot be loaded ends the program |
| `Values_exact` | 79,959 | Byte order; ownership and value semantics of Buffer; both base64 filters, and their BIOs; UUIDs; frames read back; header maps; descriptors |
| `Uuid_generate` | violation | The first `generate()` of an engine ends the program |

A violation run checks one statement of the repository and shows where the code
departs from it; `findings` in `PROJECT.json` quotes both. Each property of the
other runs has a mutant: a definition changed in the way of a plausible bug, for
which TLC finds the property violated.

### Bounds, and why they are enough

- Semaphore: the interesting cases need a full semaphore (2), a sleeper, a woken
  thread, and one from outside that overtakes it: five threads have all of them
  at once. The proofs hold for any number. `Semaphore_limit` needs three threads
  and no spurious wakeup, so the excess is not the condition variable's doing.
- WsReceive: the stream has a masked frame, each length of extended length, an
  empty frame, a length not in its shortest form, a frame that breaks the
  protocol and one behind it; the two limits put one frame over the limit while
  the lower is set. Segments of 7 and 40 bytes and reads of at most 50 cut
  headers, masks and payloads, and let one read bring several frames. The
  peer may leave after any segment. Frame sizes, cuts and limits are arbitrary
  in the proofs.
- WsConnection: frames of one, two and three different bytes, three per
  connection, so that a loss, repetition or exchange shows. A limit of 6 with
  requests of 5 and 7 bytes and reads of at most 3: one fits and one does not,
  both need several reads; an answer of 3 bytes has two partial writes. The
  connection may be closed and replaced at any time. Sizes are arbitrary in the
  proofs.
- WsEcho: requests of 4, 6 and 9 bytes with a limit of 7; a masked frame, one
  with an extended length, an empty one, another, and one that is refused;
  segments of 1 to 8 bytes and reads of at most 5 cut every header and bring up
  to three frames at once; echoes of two to five bytes, which `write()` may
  cut: of payloads of 1, 3, 0 and 3 bytes, so that the bits of the third echo
  say 3 where there is nothing. The third frame is a close frame, or none is.
- WsFrame, in `Values_exact` and `WsFrame_reuse`: sizes on both sides of 125 and
  65535, and those that or-ing confuses; the payload is set up to three times.
- LibAshe and MessageDigest: two objects, three contexts (one may be lost while
  both objects have one), two blocks, digests of two blocks, and a program that
  may have loaded libssl itself. Symmetry of objects, contexts and blocks is
  sound: no property or constant tells one from another, and the run has no
  liveness property.
- Values: eleven sizes on a little-endian host, with 0, 1, odd, unrolled and
  loop sizes (the other hosts are covered by the proof); three Buffer objects,
  four private parts (a move makes one more than there are objects) and three
  blocks of sizes 0 to 2; five bytes for the encoder in feeds of 1, 2 and 4,
  which leave every residue of three; twelve characters for the decoder in feeds
  of 1, 3, 4, 5 and 8, which cut quads in every place and fill three of them;
  three UUID objects, of which two could share what a third overwrites, eight
  texts and three arrays of bytes; three header lines of ten kinds, so that a
  name can come three times; two sockets, three descriptors and three sockets
  of the kernel, so that a number is given out again. Of BIOs there are five: two of the object, two
  that `open()` makes, and one that was left when the library was down. The nine
  subjects share no variable, so a behaviour moves one of them. The symmetry is in Buffer's
  private parts only.
- UuidEngine: pools of 1 and 32 numbers, 32 being what the constructor sets; a
  counter of 3 is there for an engine that would keep its pool. The property
  says only that `generate()` returns, as no call of it ever does.

### Deadlock and fairness

Deadlock is checked wherever the system must be able to go on: `Semaphore_room`,
`WsConnection`, and the violations of Semaphore, WsFrame, WsHandshake and
UuidEngine.
It is off where a behaviour really ends: after the program has died
(`LibAshe_sessions`, `LibAshe_dlopen`), after `std::terminate()` and the peer's
close (the WsReceive runs), when the process has left (`WsEcho_server`), or
after a loop that left its buffer (`Values_exact`).

Fairness is assumed for what the code's surroundings guarantee and no more:

- Semaphore: a thread that holds the mutex runs on; a free mutex that is wanted
  in `__leave` or in `wait()` is taken by one of those threads sooner or later,
  not by a given one; Tickets are destroyed sooner or later (part of the same
  condition: they are automatic objects in the examples). No thread has to
  enter, and nothing is assumed of spurious wakeups.
- WsReceive: the loop of examples/echowsserver.cpp, which calls `receive()` again
  after a frame and after a ssize_t, at the end of the stream too, and leaves at
  a string or an int (`GoesOn`). The non-blocking server is not a reason for this
  fairness, since it leaves at POLLRDHUP; its process has its own module. Nothing
  is assumed of the peer: delivery is promised after its close.
- WsConnection: a call of `handshake()` that was made runs to its end. That it is
  called again is not assumed, as both servers call it once; `Served` is about
  the call that finds the whole request. A caller whose `post()` threw calls
  `post()` again, as the loop of examples/echowsserver.cpp:32-45 does, and the
  socket of an open connection drains. Fairness of `post()` is strong, because it
  is not enabled while `handshake()` runs, which need not keep it from being
  called between two of these calls.
- WsEcho: the process runs (weak fairness of all its steps together; it is
  sequential). Nothing is assumed of the client, nor of `write()`, which may
  always take less than it is given: the two liveness properties say what
  happens then.

## 4. Proofs

All proofs are of safety, checked by TLAPS from the named ASSUMEs of the modules
alone: sets of natural numbers where sizes are meant, a finite set of threads, a
positive concurrency (the constructor throws for zero), the positions of the
frames of a stream being their running sums, and null values that are not
addresses.

- `SemaphoreProofs`. `IInv` is the type invariant, `Guarded` (a thread is between
  lock and unlock exactly when it owns the mutex), `RoomKept`, `TicketsCounted`
  and `NoLostWakeup`. None of the last three is inductive without `Guarded`: it
  is the mutex that keeps the counter still between the comparison and the
  addition. `NoLostWakeup` bounds the sum of the counter and the threads on
  their way in, because a woken thread has left the bench and is not yet
  counted. Each action gets a lemma about which of the sets (Tickets, Asleep,
  Woken, Entering) it changes; the cardinality facts follow from these.
  `GateImplemented` is the refinement: every step is one of the gate's or
  changes nothing of what a user sees.
- `WsReceiveProofs`. `CompleteIsDelivered` and `NeedIsLowerBound` speak of the last
  answer only. What carries them over steps is `RemainingIsLowerBound`:
  whenever `remainingRead` is positive, at least two bytes are in the stash and
  it is no more than what the frame lacks. The stash is compared as a whole
  although only new bytes should count, so the number gets too small rather
  than too large, and the parser is asked too early, never too late.
- `WsConnectionProofs`. Of the sender by itself, the invariant is the type invariant
  with the two properties; the lemma is that one `write()`, whatever it takes,
  adds exactly the given bytes to the wire and the stash together. Of the
  handshake, `Phase` says what handshake() may be doing: while it reads, nothing
  of the answer is written and none is pending; an answer that is pending has
  begun, on a connection that is open. Without it a read could complete a
  request twice, and the rest of an answer could be written to a connection that
  has not deserved it. `RequestStaysWhole` comes of it too, and of the fact that
  every way to another connection empties the stash. These theorems assume `~Reassign`: a program that assigns
  over a connected object breaks `AnswerIsWhole`, which is what
  `WsHandshake_reuse` shows. For both together, `HalvesImplemented`: every step of the composition is a
  step, or a stutter, of the handshake by itself and of the sender by itself, so
  everything proved of the two holds of an object that does both.
  `FramesFollowAnswer` needs `Linked`: what is *pending* counts too, since it may
  be written later, and the two halves have one descriptor. It rests on `Phase`,
  by which handshake() says that it is done only while `handshook` is set.
- `WsEchoProofs`. `PartsImplemented`: forkMain() with its client takes only steps
  that receive(), post() and handshake() take by themselves, with the constants
  that it gives them, so the theorems of the three modules hold of it; they are
  cited by INSTANCE. `EchoInv` adds to their invariants what ties the three
  together. `Answering`: what was posted are the echoes of the first frames, of
  all that were received as long as nothing is pending. Without it
  `EchoesInOrder` is not inductive, since the frame that is echoed next need not
  be the one behind the last. It also says which length bits `sending` has: those
  of all frames up to the last that was received. `Shaking`: handshake() is called once, so its
  request has no hole, and the process never closes its socket. From these,
  `LeavesForAReason` is kept by each of the handlers.
- `MessageDigestProofs`. Of the library, `Built` says which of the globals exist at
  each step of `init_LAshe()`; with it the rollback is complete at every step.
  Because `count` stays in Nat, no module is closed more often than opened. Of
  the digests, the library's invariant with those of the sessions, and
  `LostStaysLive`. A step of the library leaves the sessions alone and vice
  versa, which splits the proof.
- `OwnershipProofs`. Of Buffer, `OwnedOnce` is two statements, one for objects and
  private parts and one for private parts and blocks, each an "exists exactly if
  pointed to" and a "never by two". Every call is made of two operations on a
  part (a new block for an old one, `Reallocated`, and deletion with the block);
  both keep the two statements and what the other objects show, which gives the
  invariant and the refinement at once. `BuffersAreValues` is the refinement
  step, `ValuesImplemented` that the specification of BufferValue follows. Of
  WsOwner, `HeldAlone` (without copies no two objects have a descriptor in common,
  and each was given with a socket) is what makes `HeldIsOwn` inductive: a
  `close()` by one object could otherwise free the number that another one has.
  `DutyIsKept` says which objects may have `closeOnDelete` false, which
  `LossIsExcused` needs of the destructor.
- `EncodingProofs`. Bytes and characters are numbered, so what a filter has seen is
  always a run of consecutive numbers, and the lemmas are about cutting and
  joining such runs. The encoder's invariant `Encoded` says that what came out
  are groups that follow one upon another up to a number (`Chained`), and what
  the filter keeps is the run behind it. The decoder's (`Exactly`) also counts:
  four times what waits behind a result that was too small, with three times what
  the filter keeps, is never over nine. That is why a feed of three characters or more is always
  looked at, and why one of less may not be. As long as none was overlooked
  (`~lost`), feeds of any size come out exactly; of whole quads nothing waits, and
  three quarters of every result are written. Of the BIOs (`PairInv`), what the
  object has is the chain that starts at its filter, and what `open()` holds is
  apart from it; so the failing `open()` and the replacing one free each BIO once.
- `WireProofs`. Of Endian, the invariant of the loops has two parts: how `a` and `b`
  move (`Pace`), and that positions already dealt with (`Dealt`) are in the new
  order and the others in the old one. The tables of the unrolled sizes are
  shown to be the same permutations as the loops'. `OrderKept` is for buffers
  of every size on each host. Of WsFrame, `LengthIsThere` says that
  the bits of the payload's length are among those set, and that there are no
  others if it was set once; more bits can only turn a short length into 126 or
  127 and 126 into 127, where the extended length says the size. `HeadIsWanted`
  says that the setters do not disturb each other's bits. Of WsHeader, `Holds` says that a map has, under each name, the values that the lines so far give it, in their
  order. The order is counted: the value in place i is that of
  the i-th line of its name. Of Uuid, `OwnPrivates`
  (no two objects point to the same private data) is why an assignment to one
  object leaves the others what they were; `ShowsGiven` says what the data is.
  Any text makes sixteen bytes (`ParsedIsBytes`), blanks in front or not.
  That a text without blanks in front is read as what
  it denotes is shown of the two tables of places
  (`Layout`, `BytesApart`), of the bits of two digits, which stand side by side
  (`JoinedIs`), and of the first and last characters that are not blank, which
  exist because the natural numbers are well-founded (`Least`, `Greatest`).

The type invariants are proved and not run again, but for that of WsReceive,
which is both, because its history variables make it say more than types.

Only model-checked: liveness (`SleepersAreCalled`, `EverythingIsDelivered`,
`PendingIsFlushed`, `Served`, `PatientClientIsServed`, `WholeRequestIsAnswered`),
which is out of the prover's reach. Every other property of the passing runs is
a theorem. The theorems are of each component's own specification; that `MCValues`
lets one of its subjects move at a time is for TLC alone.

## 5. What was found

Six disagreements between the code and what the repository says are runs of
their own (see `findings`): the semaphore's limit is exceeded by a thread that
overtakes a woken one; `receive()` throws what it does not declare; an assigned
WebSocket keeps `handshook`; a reused Frame has a wrong length; a module that
cannot be loaded ends the program instead of being reported; the random engine
ends the program at its first UUID.

Seen on the way, and modelled as the code has it, without a statement of the
repository to hold against it:

- `Buffer x; x = x;` keeps the size and loses the contents.
- `Base64Encoder::finish()` resets the memory BIO before it flushes, so what
  `feed()` encoded has to be taken with `payload()` first. `encode_base64()`
  does not, and returns the last group.
- `clear()` and then `finish()`, with nothing fed in between, may flush bytes
  from before the `clear()`.
- Little/Big conversion of an empty buffer, and PDP/Big of one byte, run a loop
  from a wrapped `size_t`.
- A frame that the parser refuses stays at the front of the stash.
- When the first `write()` of a handshake's answer fails with EAGAIN, the next
  call waits for a request that has already been read.

- The decoder hands out bytes that it did not decode: `feed()` gives the result
  the number of characters that came in, ignores what `BIO_read()` returns
  (Base64Decoder.cpp:141-143), and `QUJD` comes out as four bytes, the last of
  which `malloc()` left there. A caller who feeds whole quads without padding can
  tell that three quarters are good; any other cannot.
- Text that is fed to the decoder one or two characters at a time loses bytes:
  the result has room for as many bytes as the text has characters, and what the
  filter still holds counts against it. `clear()` leaves characters in the
  filter, which come out with the next text.
- A header line with a second colon gets a name that contains it, so `Host:
  localhost:8080` is not found under `host`. The names that may not come twice
  are compared with a line's value, so that a repeated `sec-websocket-key` is
  joined and not refused.
- When the answer of a handshake is written in pieces, the object never shows a
  header.
- nonblock_wsechoserver.cpp never flushes: after a short write its process
  receives and drops every later frame until the client leaves.
- An object that was closed once, or is the result of `accept()`, never closes
  what it is assigned; `accept()` returns such an object.
- A UUID's private data is never freed. A text with blanks in front is valid, and
  is then parsed with its blanks: `trim()` and `lower()` return what they make
  of their argument, and the constructor does not use it.

## 6. Not modelled, and why

Regular expressions other than the UUID's, the string functions but for
`trim()`, the exception classes, FilterInterface, platform macros and build files
have no state and no control worth a model. `listen()`, `shutdown*()` and the
addresses pass values to the kernel; the limits that setters change are
constants, except `frameSizeLimit` and the non-blocking mode, which WsReceive
changes at any time. What frames contain, and the digest of the key, are
abstracted. Blanks and padding in base64 texts are left out. Sizes near 2^64 and
zero bytes in a request are abstracted and listed as hazards. Two threads that
initialise the library at once are not modelled: nothing in the repository
allows it. The thread-pool examples use classes that the repository no longer
has. WebSocket.cpp is modelled although src/Makefile.am does not list it among the
library's sources: two of the examples use it. The interior of OpenSSL, libdl, pthreads and the sockets is external; it is
described by how the code uses it.

## 7. Plan

1. Done: Semaphore; the WebSocket's receiving, sending, handshake, frames, header
   and descriptors, one connection of one object, and the process of the
   non-blocking echo server; the life cycle and the digests on top of it; the
   classes that work on memory, with both base64 filters and UUIDs; the proofs
   listed above.
2. Left, to prove: what still holds where a violation run shows that more does not:
   how far `__traffic` can exceed `__concurrency`, and which frames of a reused
   Frame have a right length; that what the engine would return is a version 4
   UUID, once its bits are sets as well.
3. Left, to model: lengths with the width of a word in WsReceive, and the encoder
   and decoder on a library that is taken down, as MessageDigest has it.

## 8. Running it

In this directory: `tlc -config Semaphore_room.cfg Semaphore.tla` checks a run
(`PROJECT.json` gives each run's module), `tlapm SemaphoreProofs.tla` checks the
proofs of a module. The longest run is `LibAshe_sessions`, about two minutes.
