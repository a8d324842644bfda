# A verification development of buttorrent

buttorrent is a small BitTorrent client: it reads a torrent file, asks the
tracker for peers, and downloads the pieces in order, from one peer at a time,
into one output file.  The modules here model the client as the code has it,
check it with TLC on small instances and prove what matters most with TLAPS.
Paths below are relative to the repository (`src/downloader.cpp` is the file of
that name in the repository's `src` directory).

## Inventory

| part | code | state | operations | models |
|------|------|-------|------------|--------|
| Download loop | `downloader.cpp/.hpp` | `piece`, `choke`, `requestSent`, `bitField`, `peers`; locals `peer`, `block`, `offset`, `pieceString` | `download`, `downloadPiece`, `verifyPiece`, `savePiece` | `Downloader`, `BlockPlan` |
| Peer connection | `peerConnector.cpp/.hpp` | one socket; `reply`, `bytesToRead` in `receiveData` | `connectToPeer`, `handshake`, `receiveBitField`, `receiveMessage`, `interested`, `requestPiece` | `Downloader`, `PeerStream` |
| Messages | `bitTorrentMessage.*`, `messenger.*` | none | building and taking apart of messages | records in `Downloader`; their bytes in `Wire`, sent and received in `PeerStream` |
| Bits and numbers | `utils.*` | none | `getBit`, `setBit`, `bytesToInt`, `formatTime`, `hexDecode` | `BitField`, `Wire`, `Client`, `Hex` |
| Output file | `fileManager.*` | the file | `createFile`, `writeToFile` | `Downloader` |
| Tracker announces | `peerRetriever.*` | the list of peers, its interval | `retrievePeers`, the loop over the peers | `Tracker`; its outcomes in `Downloader` |
| Torrent file | `decoder.hpp` | `InfoHash.torrent` | `decode`, `parse`, `sha1` | `TorrentFile`; in `Downloader` its result is a constant |
| Progress display | `progressTracker.*` | last count shown | `displayProgress`, `trackProgress` | `Client` |
| Program | `main.cpp` | two threads | start, detach, return | `Client` |
| Bencode, SHA-1 | `bencode.hpp`, `sha1.hpp` (vendored) | decoder stack; block buffer, digest | decode, encode; update, final, transform | `Bencode`, `Sha1`, `Sha1Transform` |
| Options | `cxxopts.hpp` (vendored) | the options by name, `argv` and the place in it, the result | `add_options`, `parse`, `count`, `as` | `Options` |

How they interact.  `main` constructs the downloader (torrent file, empty
output file), starts the progress thread and detaches it, and calls
`download()`.  While pieces are missing, `download()` announces to the tracker
and visits the peers of the reply in order: connect, handshake, bit field, and
`downloadPiece` as long as the peer has the next piece.  Exceptions of type
`runtime_error` end the visit and the next peer is tried; everything else, and
whatever the announce throws, ends the program.  The progress thread reads
`piece` and `startTime` once a second, the former under the lock that
`savePiece` holds while it counts.

What is hard, and which properties it asks for:

* The flags `choke` and `requestSent` and the bit field describe a connection
  and live longer than it does, between messages that arrive in any order:
  `OneRequestUnderWay`, `NoIdleWait`, `BitFieldTracksPeer`, `RequestsInBounds`.
* Every step may fail (announce, connect, handshake, receive, send, open,
  write), and the failures are treated differently: `ThrowsOnlyAtTracker`,
  `NoUncaughtException`, `StoredInOrder`.
* The count of pieces and the file are changed in two steps, of which the
  second may fail: `FileMatchesCount`, `ImplementsAssembly`.
* Blocks may be wrong, repeated or out of order: `HonestPieceVerifies`.
* TCP delivers bytes and not messages: `OverReadsOnly`,
  `MisreadsOnlyGluedParts`, `TerminatesForAReason`.
* Bytes, chars, digits and numbers of the machine are turned into each other at
  every border (peer, tracker, hash): `MessagesKeepMeaning`,
  `VisitsAsAnnounced`, `ThrowsOnlyOnBadReply`.
* The tracker's list is used for a time that is computed from its reply:
  `SkipsOnlyExpired`.
* The download should end, whatever a bad peer does: `Completes`, and with it
  the program: `Ends`.
* Two threads share a count, a time that is set after one of them has started,
  and objects that one of them destroys: `NoRaceOnPiece`,
  `FinishedMeansStored`, `ShownNeverBack`, `OnlyWrongOrLongTimesThrow`,
  `AssemblesWhileWritesSucceed`.
* A decoder written as one loop, an info hash computed from a second encoding,
  padding and conversions of numbers at their limits: `DecodesGrammar`,
  `AcceptsEncodings`, `InfoHashIsOfFile`, `PadsMessage`, `DigestsAsSpecified`,
  `SizesFit`.
* A parser that reads an array and moves what it does not use forward in it:
  `MeansArguments`, `FailsForAReason`, `ClientServed`.

`PROJECT.json` lists the hazards one by one, at their lines.

## Modules

* `BlockPlan`: how `downloadPiece` cuts a piece into blocks.
* `BitField`: `getBit` and `setBit`.  A bit field is its size in bytes and the
  set of its 1 bits; `at()` throws exactly when the byte is beyond the size.
  `ByteBits` stands for the 8 bits of a byte, so that small instances have bit
  fields that end inside a byte and at its end.
* `Downloader`: the download thread, the connection and the peer at its other
  end.  `pc` names the place of the thread: `announce` (the outer loop), `next`
  (the loop over the peers), `handshake` and `bitfield` (waiting for them),
  `select` (`getBit` and `interested`), `request` and `receive` (the loop of
  `downloadPiece`, whose two tests for a request are one action, since nothing
  happens between the one at the bottom and the one at the top), `verify`,
  `write`, and the three ends `returned`, `terminated` (by an exception) and
  `killed` (by a signal).  A byte of the torrent is the pair of its piece and
  offset, so that `Verified` compares real contents; hashes do not collide.
  `inbox` and `outbox` are the two directions of the connection, `link` says
  whether the peer has closed it and whether a reset has come back.  `leaked`
  counts the sockets that nobody will close, against `FdLimit`.
  The peer is external: it answers the handshake, serves requests unless it is
  choking (a choking peer drops them), and, for the events the constant
  `Events` names, chokes, announces pieces, sends keep-alives, other messages
  and unrequested blocks, is slow, closes.  A bad peer sends wrong bytes, but
  blocks of the length asked for.
* `Assembly`: what a download promises, as an abstract specification: pieces
  are counted and stored in turn, each with its own contents, and the download
  is complete only when all are stored.
* `Hex` and `Wire`: bytes and digits (`hexDecode`, the output of `final`), and
  bytes and numbers (`bytesToInt`, the messages of `Messenger`,
  `BitTorrentMessage`).  A character is its code.
* `PeerStream`: `receiveData` on a stream of bytes that TCP cuts anywhere, with
  the real handshake, length prefix, size check, loop and exceptions, and what
  the callers make of a message: `After` is the check of the handshake, the bit
  field, or the fields of a `have` or a `piece`, with the exceptions of
  `getBit` and `setBit` where the field of this peer ends (`LeavesField`).  Which
  piece is downloaded is left open.  What the client sends goes out byte by byte
  as well.  `Downloader` takes messages as whole and as records;
  `PeerStream` says when that is so.
* `Tracker`: `retrievePeers` on the decoded reply, in both forms, and the loop of
  `download` that visits the peers until the interval has passed.  `Outcome` is
  the first thing that goes wrong in reading: an exception, or a key that is
  read although it is not there.  `swarm` is what the tracker meant to say; it
  answers only for the hash it knows.  The overflow of `interval * 1000` is
  undefined, and has either of two results.
* `Client`: the whole program, as two threads.  `main` names the place of the
  main thread, from the options over `savePiece` (lock, count, unlock, write) to
  the exit, `watcher` that of the progress thread (lock, read, unlock, display,
  sleep).  What happens between two pieces is `Downloader`; here it is
  `PieceArrives` or `DownloadThrows`.  A write may fail, unnoticed as in the code:
  a part of the piece gets into the file, or nothing, and `lost` remembers which
  piece it was.  `startTime` holds any of `Garbage` until
  `download()` sets it, which is after the thread has started, and once the
  downloader is gone a read of it brings anything.  `time(nullptr)` is a clock
  that stops at `MaxTime`.  A thrown `formatTime` ends the process.
* `Bencode`: the vendored decoder as the stack machine it is, one action per
  character.  The end of the module says what a text means, by the rules of the
  grammar and without a stack: `Derives` for a value, `Starts` for a list or dict
  that is not closed, over what shorter texts mean.  They are as lenient as the
  code (zeros in front, no digits at all, keys in any order).  The constants
  `Means` and `Begins` stand for relations that have all that the rules give;
  `torrent.cfg` makes them the least ones, `Meaning` and `Beginning` of
  `BencodeText`, which has the encoder as well: both are recursive operators.
* `Sha1Transform` and `Sha1`: the arithmetic of `transform` on words of 32 bits,
  which are sets of positions, beside the algorithm of FIPS 180 as it is
  written there; how `update` cuts a stream into blocks and `final` pads the last
  one and writes the digest.
* `TorrentFile`: `Decoder::getTorrentFile`, which composes the two.  `phase` is
  the place in it.  A field that is missing is undefined behaviour (`find`
  returns `end()`), one of the wrong type throws.  `InfoHash.torrent` is a
  variable that another client may write between the write and the read, and
  that stays as it was when it cannot be opened.  `ToInt` is the conversion of a
  `long` to an `int`.  The encoder is the constant `Encoder`, which
  `MCTorrentFile` makes that of `BencodeText`; there `InfoHashIsOfFile` ties the
  three together.
* `Options`: cxxopts, from `add_options` over the loop of `parse` to the reading
  of the result in `main`.  `pc` is the place in it, `result` collects the value
  and count of each option and the exception.  An argument is taken apart into
  dashes, letters and what follows an equals sign, which is what the regular
  expression `option_matcher` does; `Letters` are those of names and texts, and
  `more` has the words behind delimiters, which only a list tells apart: it gets
  the words of each of its texts, none of an empty one.  Behind the first
  delimiter there are only letters and delimiters.  A default is converted as
  an argument is, and throws as it does.  The
  second half of the module says what a command line means, by the place of each
  argument and without an `argv` that changes.  `Client` has the outcomes as one
  step.
* `MCDownloader`, `MCPeerStream`, `MCTracker`, `MCClient`, `MCTorrentFile`,
  `MCOptions`: the instances the runs use.
* The theorems.  `DownloaderProofs` is about `Downloader`, in four parts: types,
  what is under way on a connection, whatever the peer does, what a peer that
  keeps to the protocol in one point brings, and the file.  `ClientProofs` is
  about `Client`.  `Induction` has induction over numbers and the values of a
  function defined by it, which the others use: `WireProofs` for the
  conversions, `TrackerProofs` and `StreamProofs`, with these, for `Tracker` and
  `PeerStream`, `TorrentProofs` for `TorrentFile` with the decoder and the hash
  under it, and `OptionsProofs` for `Options`.

Definitions called "Mutant of ..." are the plausible bugs against which the
properties were tried; no specification uses them.

## Runs

| run | question | result |
|-----|----------|--------|
| `honest` | Do two peers that together have the torrent, gain pieces meanwhile and choke at any moment bring the whole file, with one request at a time and no exception, although a bad one comes before them? | holds; the download terminates, unless one of four things happens again and again: a wrong piece from the bad peer, a message of no use, a choke with a request under way, a keep-alive |
| `unreliable` | What survives failing announces, refused, reset and slow connections, expiring lists, keep-alives and leaking sockets? | no flag of a connection is left over in the next; the file matches the count and the assembly is implemented as long as the file can be opened |
| `hostile` | What survives peers with wrong bytes, of another torrent, without a bit field, with unrequested blocks, and a disk and descriptors that run out? | the file holds beginnings of pieces, in order; a piece all of whose blocks come from a right peer verifies; requests stay inside the pieces the peer has |
| `stream` | What does `receiveData` return, and what do the two sides understand? | whole messages, with the meaning they had, until one came in parts with the next one behind the last; then that message with extra bytes; only after that, by a message that lacks a field, or where the bit field is missing or ends, the program ends |
| `tracker` | Which peers are visited? | those the tracker named, in its order and in both forms of the reply, until the interval has passed; an exception, or a read of a key that is not there, comes from a reply that is not as it should be |
| `client` | What can the two threads do to each other? | the count is never read while it changes; a progress thread that ends has seen every piece counted, at most one of them not yet written, but for writes that failed; it ends the program early only by a wrong start time or after 100 hours; success means the whole file unless a write has failed; the program ends |
| `torrent` | What does the client make of a torrent file? | what the decoder returns is what the text means, and it takes all that the encoder writes; for a file in canonical form the info hash is that of the bytes in the file, unless another client interferes, and is the digest that FIPS 180 defines; sizes below 2 GiB give a last piece of the right size |
| `options` | What do the options mean? | every value is the one written for its option, or the default, and a list has the words of all its texts; what is left over keeps its order; an exception has a reason on the command line or in a default; the client gets its two options |

Four runs show where the program differs from what its comments say:

| run | property | what happens |
|-----|----------|--------------|
| `full_field` | `NoUncaughtException` | the number of pieces is a multiple of 8: after the last piece `getBit` throws `out_of_range`, and the program ends by it although the file is complete |
| `stranger` | `HandshakeVerified` | the check of the hash compares raw bytes with hexadecimal digits: a peer of another torrent passes |
| `leak` | `FileHoldsCounted` | handshakes that time out leak sockets, the file cannot be opened, and a counted piece is missing in it |
| `overread` | `FramingKept` | `recv` asks for the whole size again and takes bytes of the next message |

### Bounds

Two or three pieces of three bytes, the last one shorter, in blocks of two
bytes: pieces have a full and a short block, and the last piece differs in
size.  `ByteBits = 2` puts the end of the bit field inside a byte for three
pieces and at its end for two (`full_field`).  Two to four peers give each role
(seed, newcomer, stranger, corrupt) one peer and leave the loop another one to
go to.  `MaxFlight` bounds how many messages are under way when a peer chokes or
sends something unasked, not how often it does: three are enough for a choke and
an unchoke around a request, two for a block before and behind the one that is
awaited.
`FdLimit` of 3 to 5 lets sockets leak until the file, and then the next socket,
cannot be opened.  In `PeerStream` four conversations of one to five
messages, with bytes of 256 values and numbers of two bytes, some above 127, are
cut in every possible way; lengths from `IntLimit` on stand for those from 2^31
on, on which `stoi` throws.  There are eight pieces, as many as the byte of the
bit field has bits, so that the piece after the last one lies beyond it.  The
second conversation has a `have` and a `piece` that are too short, the third a
`have` of a piece beyond the field, the fourth a `have` where the field should
be.  In `Tracker` a number has three bytes and an `int` 18 bits, enough
for a port; intervals are
negative, zero, small, too large in milliseconds, and too large themselves, and
connections take no time, almost the interval, or all of it.  In `Client` an hour has
one second, three hours are too long for the display, and the clock runs for
four from time 4; memory that holds 0 is thus a time that is too long ago, as
it is in the program (1970).  Two pieces let the display show none, some and
all of them, before and after the last write.

In `TorrentFile` all texts of up to seven characters are read, over the letters
of the format, the minus, the colon and the digits 0, 1 and 2, which suffice for
empty and nested containers, strings and numbers that overflow: integers have
one digit that fits for sure and go to 10.  Torrent files are longer, so two
dozen of them are given: an unused entry and names of 0, 1, 8 and 9 letters
bring the info dictionary to 55, 56, 63 and 64 bytes, the last length that leaves
room for the padding in a block of SHA-1 and the first that does not, and the
same for the block itself; sizes fill the last piece, do not fill it, or exceed
`int`, here 7.  SHA-1 has its real sizes, and `KnownAnswer` compares the reference
with the published digest of "abc".
Duplicate keys, fields missing or of other types and keys out of order are among
them.

In `Options` all command lines of up to three arguments are read, with an
unknown option, a value, a flag, letters joined behind one dash, an equals sign,
a lone dash, delimiters with and without words between them, an empty text and
`--`; the setups are that of the client, and others with a boolean, a boolean
whose default is none, a list, positional and unrecognised arguments, names
defined twice and names that are no names.

### Fairness

`FairSpec` (run `honest`) has weak fairness of the client's step: its thread is
always scheduled and each of its waits ends, by a message or by a time-out.  A
time-out is only possible where no answer is owed or the peer is a bad one,
unless `slow` is among the events.  The peers' conditions are what the protocol
asks of them: answers are given (`PeerAnswers`) and a choke is lifted again
(`PeerUnchokes`).  Bad peers answer the handshake and owe nothing more.  Nothing
is assumed of the moment of a choke, nor that any peer ever stops choking or
sending messages that are ignored or keep-alives: `Completes` names these three
cases, and as the fourth the bad peer whose wrong pieces are asked for again.
Each of the four is a run the code really has: a piece that does not verify is
asked for at once; every message starts the time-outs anew; a choke drops a
request that the client goes on waiting for, until the time-out; and a
keep-alive is taken for a closed connection, after which the peer is visited
again and sends the next one.  There is no fifth one.

`FairSpec` of `Client` (run `client`) has weak fairness of both threads, of the
clock and of the coming of pieces, which is what `Completes` shows of the
download; `DownloadThrows` is never owed.  A mutex promises no fairness by
itself; that of `LockToSave` is strong because the progress thread holds the lock
for an instant and then sleeps for a second, so that `main` cannot miss it for
ever.

## Proofs

All theorems hold for every value of the constants that the named assumptions
allow, and these are as weak as the code: a torrent whose last piece has 1 to
`PieceLength` bytes, any number of peers, any set of events, any bound
(`TorrentAssumption`, `PeersAssumption`); numbers that fit into `LengthSize`
bytes (`WireAssumption`); replies whose values are those the decoder makes
(`TrackerAssumption`); on the stream (`StreamAssumption`) a handshake that
fits into the receive buffer, messages and requests whose lengths and numbers
are below the limit of `stoi`, and bytes up to 255, which the digest has;
integers of any size that hold every number of `digits10` digits
(`BencodeAssumption`, with `Nines`), hashes of a byte or more and an
`InfoHash.torrent` of bytes (`TorrentFileAssumption`); and options with at most
one default and one implicit value, in any program, and any command line
(`OptionsAssumption`).  A theorem with a further hypothesis states it, and below
is why it is needed.

### Download

* `TypeCorrect` (`TypeOK`).  It is inductive as it stands because it says where
  the client has a socket: a connection is open only to a peer of the list, which
  bounds `peer`, and only while a descriptor is left, which bounds `leaked`.  Its
  parts (control, flags, data, queues) are proved by four lemmas, each by cases
  on the actions.  The lemmas on the block plan (`BlocksCoverPiece`,
  `RequestSizeBounds`) show that requests are for 1 to `BlockSize` bytes and that
  the blocks add up to the piece.
* `RequestsCorrect` (`RequestsInBounds`) and `HonestCorrect`
  (`HonestPieceVerifies`), whatever peers do.  Neither is inductive: a request
  is made from the plan, a block is taken by its place in it, and both outlive
  the state they come from.  `ConnInv` adds what is under way: the queues hold
  only messages this peer can have sent or been sent (`QueuesInv`), the bit
  field at hand belongs to the peer at hand (`FieldInv`), and `offset` and
  `pieceString` are the blocks so far (`PlanInv`).
* `OneRequestCorrect`, if no peer sends a block unasked (`"dup"`): such a block
  takes the place of the one that was asked for, which is then under way with
  the next request.  The invariant needs `IdleInv`: no request is remembered
  from one connection to the next.
* `NoIdleWaitCorrect`, if no peer chokes again after it has unchoked
  (`"choke"`): the code does not ask again for a block lost to a choke.
  `WaitInv` ties the two flags to the queues: a request that is remembered is on
  its way, or its block is, and a peer that the client takes for unchoked
  serves.
* `BitFieldCorrect`, if each peer sends a bit field (`"nobitfield"`): without
  one the first message that follows is taken for it, and lost.  `GreetInv` has
  the order of the greeting and `TellInv` that the bit field, with what is on its
  way, is what the peer has.
* `ThrowsCorrect` (`ThrowsOnlyAtTracker`), if each peer sends a bit field, all
  are peers of this torrent, and the last byte of the field has a bit to spare:
  a stranger's field may be shorter, an empty one has no byte, and `getBit` is
  called once more after the last piece (run `full_field`).
* `FileCorrect` (`FileMatchesCount`).  The invariant is strengthened by
  `PieceAtHand`: between the count and the write, the string about to be written
  is the piece counted last.  That writes can only start to fail, and not
  recover, comes from `leaked` never going down.  `OrderCorrect`
  (`StoredInOrder`) has no such condition: whatever fails, the file is a
  sequence of beginnings of counted pieces, in order.
* `DownloadAssembles` (`AssemblesWhileWritesSucceed`): every step is a step of
  `Assembly` or leaves its variables alone.  The mapping is `saved <- piece`,
  `file <- file`, and `status` from `pc`.  `DownloadImplements`
  (`ImplementsAssembly`): where no peer is slow or closes, the disk does not
  fill and there are two descriptors, writes do succeed, since nothing leaks
  (`NoLeakInv`).

### Program

`TypeOK /\ IInv` is inductive (`ClientCorrect`, `ClientTypeCorrect`).  `IInv`
says which places of the threads hold the lock (`LockInv`), during which the
downloader exists (`LifeInv`), that all pieces counted are in the file but the
one being written and those whose write has failed (`StoredButLost`, `FileInv`), that what was
read of a living downloader stays below the count (`StatsInv`) and that times
read after `download()` has begun are times of this run (`TimeInv`).  From it
follow `RaceFree`, `FinishedCorrect`, `ShownGrows`, `ThrowsExplained` and
`ProgramAssembles`, the refinement of `Assembly` by the two threads.  The last
one, like `DownloadAssembles`, is stated for as long as no write has failed
(`lost`): the code does not look whether one has, and a program that ends with
success may have a file with pieces missing (run `leak`).  `FinishedCorrect`
needs no such condition, but excepts the pieces in `lost`.

### Bytes

* The conversions are loops, and what a loop computes is proved by induction
  over sets: a set of numbers that has 0, and with each number the next one, has
  all of them (`CountUp`, from the well-foundedness of the natural numbers);
  `StepByStep` gives the recursive function of a loop its values.
  `NumberRoundTrip`: `bytesToInt` reads back every number that `htonl` has
  written; `HexRoundTrip`: `hexDecode` gives back the bytes whose digits
  `final` wrote.
* `Tracker`: `VisitsCorrect`, `TrackerThrowsCorrect`, `SkipsCorrect` and
  `TrackerTypeCorrect`.  The invariant says that the list and the interval at
  hand are those that the tracker meant (`SwarmInv`) and what was visited is the
  beginning of the list (`ListInv`).  Its first step is the reading of a reply,
  for which the lemmas show that six characters of the compact form, or a
  dictionary of the other one, give back address and port, and that the hash in
  the request is the digest.
* `PeerStream`: `StreamTypeCorrect` (`TypeOK`), `OverReadsCorrect`
  (`OverReadsOnly`) and `MisreadsCorrect` (`MisreadsOnlyGluedParts`).  They rest
  on `StreamInv`: as long as results are whole, there is a tape of all that the
  peer has sent, message by message, and a place on it, such that `reply` is
  what is before the place in the message at hand, and the socket's buffer and
  the wire are what is behind it.  The tape and the place are bound by the
  invariant; the specification has no history variables.  Every send makes
  the tape longer, every `recv` moves the place on.
* `Terminations` (`TerminatesForAReason`), for any conversations: the lemma
  `WholeMessage` shows that a complete message is understood as it was meant,
  so that reading it throws nothing.  What is left is `at()` of the bit field,
  which nothing catches: a field that is missing or too short, a `have` of a
  piece beyond it, and the piece after the one that a block completes.
* `MeaningKept` (`MessagesKeepMeaning`) joins them, in both directions.  For
  what the client sends there is a tape as well (`ClientTape`), and the protocol,
  which finds each message by the length in front of it, ends each where the
  client ended it (`EndsAreStarts`).

### Torrent file

* `TransformCorrect`: `transform` computes the compression of FIPS 180.  The
  library keeps sixteen words of the schedule and writes each new one over the
  oldest, and instead of moving the five working variables it passes them in
  another order from call to call.  The invariant of its 80 steps (`InPlace`) says
  which place holds which word, and which variable has which role.  Words are
  sets of positions and addition is by carries, so the order in which the library
  adds must be proved not to matter: `AddAssociates`, from the number of carries
  at each position.
* `DigestsCorrect` (`DigestsAsSpecified`) and `PaddedAsSpecified` (`PadsMessage`):
  the blocks that have been hashed, the buffer and the stream are together the
  contents of the file (`Splits`), every block is whole, and `final` adds the one
  or two blocks of the padding.  The hypothesis of the second is that the encoder
  writes bytes for a value of the four types: what it writes is a recursion over
  the value.  `ValuesInv`, that the decoder makes only such values, is proved.
* `TypesCorrect` (`TypeOK`).  `NumbersInv` bounds the number being read by the
  count of its digits (`Nines`): below `digits10` of them the next one cannot
  overflow, and the one after is checked.  The bytes of a string that came and
  those that are missing are its length.
* `DecodesAsMeant` (`DecodesGrammar`).  The hypothesis, `GrammarRules`, is that
  `Means` and `Begins` have all that the rules give.  Those of `torrent.cfg` do by
  their definition; the theorem is about these, the least ones, because it is
  about all that do.  `GrammarInv` divides the text that has been read: for each
  open list or dict there is a text in front of it, that of the outer one up to
  and with its key (`Fronts`, `Link`), and what follows begins it (`IsBegun`);
  behind that is the text of a key (`KeyOf`) and of a number or string that is
  half read (`HalfRead`).  `ElementRead` and `ContainerOpened` say how the stack
  grows with it.  That the key is new (`Free`) is part of the invariant: the code
  checks it and stores a container when it is opened, where nothing reads it until
  it is closed; the model inserts it then.  The rest
  is `NumberOfMore`, a digit more makes ten times the number and the digit, and
  `Slices`, a text that was put together comes apart at the same place.
* `SizesFitTogether` (`SizesFit`): between 1 and the limit of `int` the
  conversion is the identity (`ToInt` of the code, a remainder), `Chunks` has one
  string for each hash, and the rest is the division with remainder.

### Options

All four theorems follow from `Understood`, that `OptionsInv` is an invariant,
for any options, any number of arguments and any texts.

* `Settings`, `LeftOver` and `IsFaulty` say what the arguments mean by their
  place in the command line as it was given.  The parser has `argv`, which it
  changes: `Kept` says that what was left over up to the place that is read is at
  the start of it, and that everything from there on is untouched, since what is
  kept never overtakes what is read.
* After every argument the result agrees with the settings up to its place
  (`Matches`): the uses in their order, the counts, the values, and the positional
  options that are passed, which can take no text any more.  `ParseLetters` is a
  loop over the letters, so it has an invariant of its own (`LettersUpTo`).  That
  a list has the words of its texts in their order (`AllWords`) goes by the step
  of one text more.
* The loop over the defaults meets an option once for each of its names, and
  stops at a default its option does not take.  `FilledOrFailed` says that it
  fills in all that is missing if there is none of these (`DefaultsFit`), and else
  throws.
* An exception comes with the argument that has no meaning: `ReadBefore` says
  that the arguments before were fine, and the lemmas on each kind of argument
  that the step throws exactly if this one is not.  Behind the last argument only a
  default can fail, and `HasWrongDefault` says of which options.
* While options are defined, each name leads to the option that has it
  (`Named`); an option whose name is taken throws, and then two of them have the
  same name.  The client's own options are in order (`ClientNames`), hence
  `ClientAlwaysServed`.

### Only model-checked

* Liveness (`Completes`, `Ends`) and the fairness it needs.
* `AcceptsEncodings` and `InfoHashIsOfFile`: the encoder is recursive over the
  values, and what it writes for every value needs induction over data.

## Plan

`PeerStream` below `Downloader`: messages with bytes of the next ones behind
them as a further event of the peer.

## Not modelled

* cxxopts beyond what `Options` says: values of integer options, which the client
  does not have, and the layout of the help text, which it never prints.
* The HTTP client, a library: an announce succeeds or fails.
* The views, the string input and the Boost variant of the bencode library, which
  are templates the client does not instantiate.
* `connectToPeer` byte by byte (`fcntl`, `select`, `getsockopt`): it returns a
  socket or throws.
* Real time, except for the interval of the tracker: time-outs are choices.
* The layout of what is printed.
