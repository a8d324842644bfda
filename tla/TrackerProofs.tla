------------------------------ MODULE TrackerProofs ------------------------------
(***************************************************************************)
(* What the tracker says arrives: both forms of the reply, and the hash in *)
(* the request, are taken apart the way they were put together, for every  *)
(* torrent and every list of peers; and the loop over the peers keeps to   *)
(* that list and to its interval.                                          *)
(***************************************************************************)
EXTENDS Tracker, WireProofs

(* A char holds every byte, and gives it back when it is taken as unsigned. *)
LEMMA CharKeepsByte ==
  ASSUME NEW byte \in 0 .. Base - 1
  PROVE  UnsignedChar(Char(byte)) = byte
<1>1. CASE 2 * byte >= Base
  BY <1>1, WireAssumption DEF UnsignedChar, Char
<1>2. CASE 2 * byte < Base
  BY <1>2, WireAssumption DEF UnsignedChar, Char
<1> QED
  BY <1>1, <1>2, WireAssumption

(* A port is read back from its two bytes: bytesToInt. *)
LEMMA TwoBytesToInt ==
  ASSUME NEW digits \in Seq(Int), Len(digits) = 2,
         digits[1] \in 0 .. Base - 1, digits[2] \in 0 .. Base - 1
  PROVE  BytesToInt(digits) = digits[1] * Base + digits[2]
<1>3. digits \in Seq(Nat) /\ Len(digits) = 2
  <2>1. \A k \in 1 .. 2 : digits[k] \in Nat
    <3> SUFFICES ASSUME NEW k \in 1 .. 2
                 PROVE  digits[k] \in Nat
      OBVIOUS
    <3>1. k = 1 \/ k = 2
      OBVIOUS
    <3> QED
      BY <3>1
  <2>2. digits = [k \in 1 .. 2 |-> digits[k]]
    OBVIOUS
  <2> QED
    BY <2>1, <2>2
<1>4. PICK number \in [0 .. 2 -> 0 .. IntLimit] :
           /\ number[0] = 0
           /\ \A k \in 1 .. 2 : number[k] = Capped(number[k - 1] * Base + digits[k])
           /\ BytesToInt(digits) = number[2]
  BY <1>3, BytesToIntSteps
<1>5. digits[1] < IntLimit /\ digits[1] * Base + digits[2] < IntLimit
  <2> DEFINE square == Base * Base
             high == digits[1] * Base
  <2>1. square \in Int /\ high \in Int /\ square >= Base
    BY WireAssumption
  <2>2. high <= square - Base
    <3>1. digits[1] <= Base - 1 /\ Base - 1 \in Nat
      BY WireAssumption
    <3>2. digits[1] * Base <= (Base - 1) * Base
      BY <3>1, WireAssumption, TimesGrows
    <3> QED
      BY <3>2, WireAssumption
  <2>3. square <= IntLimit
    BY TrackerAssumption
  <2> HIDE DEF square, high
  <2>4. digits[1] < IntLimit /\ high + digits[2] < IntLimit
    BY <2>1, <2>2, <2>3, WireAssumption
  <2> QED
    BY <2>4 DEF high
<1>6. number[1] = Capped(digits[1]) /\ number[2] = Capped(number[1] * Base + digits[2])
  <2>1. number[1] = Capped(number[0] * Base + digits[1]) /\ number[2] = Capped(number[1] * Base + digits[2])
    BY <1>4
  <2> QED
    BY <1>4, <2>1, WireAssumption
<1>7. number[1] = digits[1]
  BY <1>5, <1>6 DEF Capped
<1> QED
  BY <1>4, <1>5, <1>6, <1>7 DEF Capped

\* The addresses that six bytes can hold.
Peers == [ip : [1 .. 4 -> 0 .. Base - 1], port : 0 .. Base * Base - 1]

LEMMA CompactPeerChars ==
  ASSUME NEW p \in Peers
  PROVE  /\ CompactPeer(p) \in Seq(Int) /\ Len(CompactPeer(p)) = 6
         /\ \A k \in 1 .. 4 : CompactPeer(p)[k] = Char(p.ip[k])
         /\ CompactPeer(p)[5] = Char(p.port \div Base)
         /\ CompactPeer(p)[6] = Char(p.port % Base)
<1> DEFINE address == [k \in 1 .. 4 |-> Char(p.ip[k])]
           port == <<Char(p.port \div Base), Char(p.port % Base)>>
<1>1. \A k \in 1 .. 4 : p.ip[k] \in 0 .. Base - 1
  BY DEF Peers
<1>2. p.port \in Nat /\ p.port \div Base \in Int /\ p.port % Base \in Int
  BY WireAssumption DEF Peers
<1>3. \A byte \in Int : Char(byte) \in Int
  BY WireAssumption DEF Char
<1>4. address \in Seq(Int) /\ Len(address) = 4
  BY <1>1, <1>3, WireAssumption
<1>5. port \in Seq(Int) /\ Len(port) = 2
  BY <1>2, <1>3
<1>6. /\ \A k \in 1 .. 4 : address[k] = Char(p.ip[k])
      /\ port[1] = Char(p.port \div Base) /\ port[2] = Char(p.port % Base)
  OBVIOUS
<1>7. CompactPeer(p) = address \o port
  BY DEF CompactPeer
<1> HIDE DEF address, port
<1>8. /\ address \o port \in Seq(Int) /\ Len(address \o port) = 6
      /\ \A k \in 1 .. 4 : (address \o port)[k] = address[k]
      /\ (address \o port)[5] = port[1] /\ (address \o port)[6] = port[2]
  <2>1. /\ 5 = Len(address) + 1 /\ 6 = Len(address) + 2
        /\ 1 \in 1 .. Len(port) /\ 2 \in 1 .. Len(port)
    BY <1>4, <1>5
  <2>2. /\ address \o port \in Seq(Int)
        /\ Len(address \o port) = Len(address) + Len(port)
        /\ \A k \in 1 .. Len(address) : (address \o port)[k] = address[k]
        /\ \A k \in 1 .. Len(port) : (address \o port)[Len(address) + k] = port[k]
    BY <1>4, <1>5, Concatenation
  <2> QED
    BY <1>4, <1>5, <2>1, <2>2
<1> QED
  BY <1>6, <1>7, <1>8

LEMMA PortBytes ==
  ASSUME NEW port \in 0 .. Base * Base - 1
  PROVE  /\ port \div Base \in 0 .. Base - 1 /\ port % Base \in 0 .. Base - 1
         /\ port = (port \div Base) * Base + (port % Base)
  BY WireAssumption

(* Six chars of the compact form are read as the peer that they were made of. *)
LEMMA ChunkIsPeer ==
  ASSUME NEW p \in Peers
  PROVE  ChunkPeer(CompactPeer(p)) = p /\ ~ChunkThrows(CompactPeer(p))
<1> DEFINE chunk == CompactPeer(p)
           digits == [k \in 1 .. Len(chunk) - 4 |-> UnsignedChar(chunk[k + 4])]
<1>1. /\ Len(chunk) = 6 /\ \A k \in 1 .. 4 : chunk[k] = Char(p.ip[k])
      /\ chunk[5] = Char(p.port \div Base) /\ chunk[6] = Char(p.port % Base)
  BY CompactPeerChars
<1> HIDE DEF chunk
<1>2. ~ChunkThrows(chunk)
  BY <1>1 DEF ChunkThrows
<1>3. [k \in 1 .. 4 |-> UnsignedChar(chunk[k])] = p.ip
  <2>1. p.ip \in [1 .. 4 -> 0 .. Base - 1]
    BY DEF Peers
  <2>2. \A k \in 1 .. 4 : UnsignedChar(chunk[k]) = p.ip[k]
    BY <1>1, <2>1, CharKeepsByte
  <2> QED
    BY <2>1, <2>2
<1>4. /\ p.port \div Base \in 0 .. Base - 1 /\ p.port % Base \in 0 .. Base - 1
      /\ p.port = (p.port \div Base) * Base + (p.port % Base)
  BY PortBytes DEF Peers
<1>5. /\ digits = [k \in 1 .. 2 |-> UnsignedChar(chunk[k + 4])]
      /\ digits[1] = p.port \div Base /\ digits[2] = p.port % Base
  BY <1>1, <1>4, CharKeepsByte
<1>6. digits \in Seq(Int) /\ Len(digits) = 2
  <2>1. digits[1] \in Int /\ digits[2] \in Int
    BY <1>4, <1>5
  <2>2. DOMAIN digits = 1 .. 2
    BY <1>5
  <2>3. digits = [k \in 1 .. 2 |-> digits[k]]
    BY <1>5
  <2> HIDE DEF digits
  <2>4. \A k \in 1 .. 2 : digits[k] \in Int
    <3> SUFFICES ASSUME NEW k \in 1 .. 2
                 PROVE  digits[k] \in Int
      OBVIOUS
    <3>1. k = 1 \/ k = 2
      OBVIOUS
    <3> QED
      BY <2>1, <3>1
  <2> QED
    BY <2>3, <2>4
<1>7. Port(chunk) = p.port
  <2>1. Port(chunk) = BytesToInt(digits)
    BY DEF Port
  <2> HIDE DEF digits
  <2>2. BytesToInt(digits) = digits[1] * Base + digits[2]
    BY <1>4, <1>5, <1>6, TwoBytesToInt
  <2> QED
    BY <1>4, <1>5, <2>1, <2>2
<1>8. p = [ip |-> p.ip, port |-> p.port]
  BY DEF Peers
<1> QED
  BY <1>2, <1>3, <1>7, <1>8 DEF chunk, ChunkPeer
-----------------------------------------------------------------------------
(* The reply.                                                              *)

SwarmsTyped == \A s \in Swarms : s.interval \in Int /\ s.form \in {"compact", "list"} /\ s.peers \in Seq(Peers)

LEMMA SwarmsAreTyped == SwarmsTyped
  BY TrackerAssumption DEF SwarmsTyped, Peers

\* The text of the compact form.
Compact(list) ==
    [n \in 1 .. 6 * Len(list) |-> CompactPeer(list[(n - 1) \div 6 + 1])[((n - 1) % 6) + 1]]

(* Cutting the text every six chars finds the peers again.                   *)
LEMMA ChunksArePeers ==
  ASSUME NEW list \in Seq(Peers)
  PROVE  /\ Compact(list) \in Seq(Int)
         /\ DOMAIN Chunks(Compact(list)) = 1 .. Len(list)
         /\ \A k \in 1 .. Len(list) : Chunks(Compact(list))[k] = CompactPeer(list[k])
<1> DEFINE str == Compact(list)
<1>0. \A k \in 1 .. Len(list) : list[k] \in Peers
  BY Elements
<1>1. str \in Seq(Int) /\ Len(str) = 6 * Len(list)
  <2>1. ASSUME NEW n \in 1 .. 6 * Len(list)
        PROVE  CompactPeer(list[(n - 1) \div 6 + 1])[((n - 1) % 6) + 1] \in Int
    <3> DEFINE k == (n - 1) \div 6 + 1
               j == ((n - 1) % 6) + 1
    <3>1. k \in 1 .. Len(list) /\ j \in 1 .. 6
      OBVIOUS
    <3> HIDE DEF k, j
    <3>2. CompactPeer(list[k]) \in Seq(Int) /\ Len(CompactPeer(list[k])) = 6
      BY <1>0, <3>1, CompactPeerChars
    <3>3. CompactPeer(list[k])[j] \in Int
      BY <3>1, <3>2, Elements
    <3> QED
      BY <3>3 DEF k, j
  <2>2. 6 * Len(list) \in Nat
    OBVIOUS
  <2> QED
    BY <2>1, <2>2 DEF Compact
<1>2. (Len(str) + 5) \div 6 = Len(list)
  BY <1>1
<1>3. ASSUME NEW k \in 1 .. Len(list)
      PROVE  Chunks(str)[k] = CompactPeer(list[k])
  <2> DEFINE chunk == SubSeq(str, 6 * k - 5, 6 * k)
  <2>1. 6 * k - 5 \in 1 .. Len(str) /\ 6 * k \in 1 .. Len(str) /\ ~(6 * k > Len(str))
    BY <1>1
  <2>2. Chunks(str)[k] = chunk
    BY <1>2, <2>1 DEF Chunks
  <2>3. /\ chunk = [j \in 1 .. 6 |-> str[6 * k - 6 + j]]
    BY <1>1, <2>1
  <2>4. ASSUME NEW j \in 1 .. 6
        PROVE  str[6 * k - 6 + j] = CompactPeer(list[k])[j]
    <3>1. /\ 6 * k - 6 + j \in 1 .. 6 * Len(list)
          /\ ((6 * k - 6 + j) - 1) \div 6 + 1 = k /\ (((6 * k - 6 + j) - 1) % 6) + 1 = j
      OBVIOUS
    <3> QED
      BY <3>1 DEF Compact
  <2>5. CompactPeer(list[k]) = [j \in 1 .. 6 |-> CompactPeer(list[k])[j]]
    <3>1. CompactPeer(list[k]) \in Seq(Int) /\ Len(CompactPeer(list[k])) = 6
      BY <1>0, CompactPeerChars
    <3> DEFINE text == CompactPeer(list[k])
    <3> HIDE DEF text
    <3>2. text \in Seq(Int) /\ Len(text) = 6
      BY <3>1 DEF text
    <3>3. text = [j \in 1 .. 6 |-> text[j]]
      BY <3>2
    <3> QED
      BY <3>3 DEF text
  <2> HIDE DEF chunk, str
  <2> QED
    BY <2>2, <2>3, <2>4, <2>5
<1> QED
  BY <1>1, <1>2, <1>3 DEF Chunks
LEMMA CompactIsRead ==
  ASSUME NEW list \in Seq(Peers)
  PROVE  /\ PeersOutcome([str |-> Compact(list)]) = "visit"
         /\ PeersOf([str |-> Compact(list)]) = list
<1> DEFINE value == [str |-> Compact(list)]
<1>1. Is("str", value) /\ ~Is("list", value) /\ value.str = Compact(list)
  BY DEF Is
<1> HIDE DEF value
<1>2. \A k \in 1 .. Len(list) : /\ Chunks(value.str)[k] = CompactPeer(list[k])
                                /\ list[k] \in Peers
  BY <1>1, ChunksArePeers, Elements
<1>3. DOMAIN Chunks(value.str) = 1 .. Len(list)
  BY <1>1, ChunksArePeers
<1>4. ~\E chunk \in Range(Chunks(value.str)) : ChunkThrows(chunk)
  <2>1. SUFFICES ASSUME NEW k \in DOMAIN Chunks(value.str)
                 PROVE  ~ChunkThrows(Chunks(value.str)[k])
    BY DEF Range
  <2> QED
    BY <1>2, <1>3, ChunkIsPeer
<1>5. PeersOutcome(value) = "visit"
  BY <1>1, <1>4 DEF PeersOutcome
<1>6. PeersOf(value) = [k \in 1 .. Len(list) |-> ChunkPeer(Chunks(value.str)[k])]
  BY <1>1, <1>3 DEF PeersOf
<1>7. \A k \in 1 .. Len(list) : ChunkPeer(Chunks(value.str)[k]) = list[k]
  BY <1>2, ChunkIsPeer
<1>8. PeersOf(value) = list
  BY <1>6, <1>7
<1> QED
  BY <1>5, <1>8 DEF value

LEMMA ToIntTyped == \A n \in Int : ToInt(n) \in Int /\ ToInt(1000 * n) \in Int
  BY WireAssumption DEF ToInt

(* What fits into an int is left as it is.                                   *)
LEMMA ToIntKeeps ==
  ASSUME NEW n \in Int, 0 - IntLimit <= n, n < IntLimit
  PROVE  ToInt(n) = n
<1>1. n + IntLimit \in 0 .. 2 * IntLimit - 1
  BY WireAssumption
<1>2. \A m \in Nat : \A k \in 0 .. m - 1 : k % m = k
  OBVIOUS
<1>3. (n + IntLimit) % (2 * IntLimit) = n + IntLimit
  BY <1>1, <1>2, WireAssumption
<1> QED
  BY <1>3, WireAssumption DEF ToInt

Entry(p) == [dict |-> [ip |-> [str |-> p.ip], port |-> [int |-> p.port]]]

LEMMA EntryIsPeer ==
  ASSUME NEW p \in Peers
  PROVE  EntryOutcome(Entry(p)) = "visit" /\ EntryPeer(Entry(p)) = p
<1>1. /\ Is("dict", Entry(p)) /\ Has(Entry(p), "ip") /\ Has(Entry(p), "port")
      /\ Is("str", Entry(p).dict.ip) /\ Is("int", Entry(p).dict.port)
      /\ Entry(p).dict.ip.str = p.ip /\ Entry(p).dict.port.int = p.port
  BY DEF Entry, Is, Has
<1>2. EntryOutcome(Entry(p)) = "visit"
  BY <1>1 DEF EntryOutcome
<1>3. ToInt(p.port) = p.port
  <2>1. p.port \in Nat /\ p.port < IntLimit
    BY WireAssumption, TrackerAssumption DEF Peers
  <2> QED
    BY <2>1, ToIntKeeps, WireAssumption
<1>4. p = [ip |-> p.ip, port |-> p.port]
  BY DEF Peers
<1> QED
  BY <1>1, <1>2, <1>3, <1>4 DEF EntryPeer

LEMMA ListIsRead ==
  ASSUME NEW list \in Seq(Peers)
  PROVE  LET value == [list |-> [k \in DOMAIN list |-> Entry(list[k])]]
         IN  PeersOutcome(value) = "visit" /\ PeersOf(value) = list
<1> DEFINE value == [list |-> [k \in DOMAIN list |-> Entry(list[k])]]
<1>1. /\ Is("list", value) /\ ~Is("str", value)
      /\ value.list = [k \in 1 .. Len(list) |-> Entry(list[k])]
  BY DEF Is
<1> HIDE DEF value
<1>2. \A k \in 1 .. Len(list) : list[k] \in Peers
  BY Elements
<1>3. {k \in DOMAIN value.list : EntryOutcome(value.list[k]) # "visit"} = {}
  BY <1>1, <1>2, EntryIsPeer
<1>4. PeersOutcome(value) = "visit"
  BY <1>1, <1>3 DEF PeersOutcome
<1>5. PeersOf(value) = list
  <2>1. PeersOf(value) = [k \in 1 .. Len(list) |-> EntryPeer(Entry(list[k]))]
    BY <1>1 DEF PeersOf
  <2>2. \A k \in 1 .. Len(list) : EntryPeer(Entry(list[k])) = list[k]
    BY <1>2, EntryIsPeer
  <2> QED
    BY <2>1, <2>2
<1> QED
  BY <1>4, <1>5 DEF value

(* The client reads an answer of the tracker as it was meant, in either form. *)
LEMMA AnswerIsRead ==
  ASSUME NEW s \in Swarms
  PROVE  /\ Outcome(Encoded(s)) = "visit"
         /\ PeersOf(Encoded(s).text.dict.peers) = s.peers
         /\ Encoded(s).text.dict.interval.int = s.interval
<1>1. s.form \in {"compact", "list"} /\ s.peers \in Seq(Peers)
  BY SwarmsAreTyped DEF SwarmsTyped
<1> DEFINE res == Encoded(s)
<1>2. PeersOutcome(res.text.dict.peers) = "visit" /\ PeersOf(res.text.dict.peers) = s.peers
  <2>1. CASE s.form = "compact"
    <3>1. res.text.dict.peers = [str |-> Compact(s.peers)]
      BY <2>1 DEF Encoded, Compact
    <3> QED
      BY <1>1, <3>1, CompactIsRead
  <2>2. CASE s.form = "list"
    <3>1. res.text.dict.peers = [list |-> [k \in DOMAIN s.peers |-> Entry(s.peers[k])]]
      BY <2>2 DEF Encoded, Entry
    <3> HIDE DEF res
    <3> QED
      BY <1>1, <3>1, ListIsRead
  <2> QED
    BY <1>1, <2>1, <2>2
<1>3. /\ res.status = 200 /\ Is("dict", res.text)
      /\ Has(res.text, "interval") /\ Has(res.text, "peers")
      /\ Is("int", res.text.dict.interval) /\ res.text.dict.interval.int = s.interval
  BY DEF Encoded, Is, Has
<1> HIDE DEF res
<1>4. Outcome(res) = "visit"
  BY <1>2, <1>3 DEF Outcome
<1> QED
  BY <1>2, <1>3, <1>4 DEF res
-----------------------------------------------------------------------------
(* The loop over the peers.                                                *)

\* The list at hand is a list, and what has been visited is its beginning.
ListInv ==
    pc \in {"visit", "returned"} =>
        /\ peers \in Seq(Range(peers))
        /\ peer \in Nat /\ visited = SubSeq(peers, 1, peer)

\* The list and its interval are those that the tracker meant to say.
SwarmInv ==
    /\ pc \in {"visit", "returned"} /\ swarm # Nothing =>
         /\ peers = swarm.peers
         /\ retrieveInterval \in Milliseconds(ToInt(swarm.interval))
    /\ pc \in {"thrown", "undefined"} => swarm = Nothing

IInv == ListInv /\ SwarmInv
Readable(res) ==
    Outcome(res) = "visit" =>
        /\ res.text.dict.interval.int \in Int
        /\ PeersOf(res.text.dict.peers) \in Seq(Range(PeersOf(res.text.dict.peers)))

LEMMA FunctionIsSeqOfRange ==
  ASSUME NEW n \in Nat, NEW f, DOMAIN f = 1 .. n, f = [k \in DOMAIN f |-> f[k]]
  PROVE  f \in Seq(Range(f))
<1>1. \A k \in 1 .. n : f[k] \in Range(f)
  BY DEF Range
<1>2. f \in [1 .. n -> Range(f)]
  BY <1>1
<1>3. f \in Seq(Range(f))
  BY <1>2, FunctionIsSeq
<1> QED
  BY <1>3

LEMMA ElementsMake ==
  ASSUME NEW S, NEW s \in Seq(S)
  PROVE  s \in Seq(Range(s))
<1>1. Len(s) \in Nat /\ DOMAIN s = 1 .. Len(s) /\ s = [k \in DOMAIN s |-> s[k]]
  OBVIOUS
<1> QED
  BY <1>1, FunctionIsSeqOfRange

LEMMA OutcomeKinds ==
  \A res : Outcome(res) \in {"visit", "thrown", "undefined"}
<1>1. \A entry : EntryOutcome(entry) \in {"visit", "thrown", "undefined"}
  BY DEF EntryOutcome
<1>2. \A value : PeersOutcome(value) \in {"visit", "thrown", "undefined"}
  <2> TAKE value
  <2>1. CASE Is("str", value)
    <3>1. ~Is("list", value)
      BY <2>1 DEF Is
    <3> QED
      BY <2>1, <3>1 DEF PeersOutcome
  <2>2. CASE Is("list", value)
    <3>1. ~Is("str", value)
      BY <2>2 DEF Is
    <3> QED
      BY <1>1, <2>2, <3>1 DEF PeersOutcome
  <2>3. CASE ~Is("str", value) /\ ~Is("list", value)
    BY <2>3 DEF PeersOutcome
  <2> QED
    BY <2>1, <2>2, <2>3
<1> QED
  BY <1>2 DEF Outcome

LEMMA PeersOfSeq ==
  ASSUME NEW value, Decoded(value), PeersOutcome(value) = "visit"
  PROVE  PeersOf(value) \in Seq(Range(PeersOf(value)))
<1> DEFINE list == PeersOf(value)
<1>1. CASE Is("str", value)
  <2>1. Len(value.str) \in Nat
    BY <1>1 DEF Decoded
  <2>2. (Len(value.str) + 5) \div 6 \in Nat
    <3>1. \A n \in Nat : (n + 5) \div 6 \in Nat
      OBVIOUS
    <3> QED
      BY <2>1, <3>1
  <2>3. list = [k \in 1 .. (Len(value.str) + 5) \div 6 |-> ChunkPeer(Chunks(value.str)[k])]
    BY <1>1 DEF PeersOf, Chunks
  <2> HIDE DEF list
  <2>4. /\ DOMAIN list = 1 .. (Len(value.str) + 5) \div 6
        /\ list = [k \in DOMAIN list |-> list[k]]
    BY <2>3
  <2> QED
    BY <2>2, <2>4, FunctionIsSeqOfRange DEF list
<1>2. CASE ~Is("str", value)
  <2>1. Is("list", value)
    BY <1>2 DEF PeersOutcome
  <2>2. Len(value.list) \in Nat /\ DOMAIN value.list = 1 .. Len(value.list)
    BY <2>1 DEF Decoded
  <2>3. list = [k \in 1 .. Len(value.list) |-> EntryPeer(value.list[k])]
    BY <1>2, <2>2 DEF PeersOf
  <2> HIDE DEF list
  <2>4. DOMAIN list = 1 .. Len(value.list) /\ list = [k \in DOMAIN list |-> list[k]]
    BY <2>3
  <2> QED
    BY <2>2, <2>4, FunctionIsSeqOfRange DEF list
<1> QED
  BY <1>1, <1>2

LEMMA RepliesReadable ==
  /\ \A s \in Swarms : Readable(Encoded(s))
  /\ \A res \in Malformed : Readable(res)
<1>1. ASSUME NEW s \in Swarms
      PROVE  Readable(Encoded(s))
  <2>1. s.interval \in Int /\ s.peers \in Seq(Peers)
    BY SwarmsAreTyped DEF SwarmsTyped
  <2>2. s.peers \in Seq(Range(s.peers))
    BY <2>1, ElementsMake
  <2> QED
    BY <2>1, <2>2, AnswerIsRead DEF Readable
<1>2. ASSUME NEW res \in Malformed, Outcome(res) = "visit"
      PROVE  Readable(res)
  <2>1. /\ Is("dict", res.text) /\ Has(res.text, "interval") /\ Has(res.text, "peers")
        /\ Is("int", res.text.dict.interval)
        /\ PeersOutcome(res.text.dict.peers) = "visit"
    BY <1>2 DEF Outcome
  <2>2. Decoded(res.text.dict.interval) /\ Decoded(res.text.dict.peers)
    <3>1. /\ "interval" \in DOMAIN res.text.dict /\ "peers" \in DOMAIN res.text.dict
          /\ \A key \in DOMAIN res.text.dict : Decoded(res.text.dict[key])
      BY <2>1, TrackerAssumption DEF Has
    <3>2. /\ res.text.dict["interval"] = res.text.dict.interval
          /\ res.text.dict["peers"] = res.text.dict.peers
      OBVIOUS
    <3> QED
      BY <3>1, <3>2
  <2> QED
    BY <2>1, <2>2, PeersOfSeq DEF Readable, Decoded
<1> QED
  BY <1>1, <1>2 DEF Readable

(* An announce ends in an answer for this torrent, or in a bad reply: the hash
   in the request is the one the tracker knows. *)
LEMMA Announced ==
  ASSUME Announce
  PROVE  \/ \E s \in Swarms : swarm' = s /\ Retrieved(Encoded(s))
         \/ \E res \in Malformed : swarm' = Nothing /\ Retrieved(res)
<1>1. HexDecode(InfoHash) = Digest
  BY HexRoundTrip, TrackerAssumption DEF InfoHash
<1>2. PICK reply \in Replies : swarm' = reply[1] /\ Retrieved(reply[2])
  BY DEF Announce
<1>3. \/ \E s \in Swarms : reply = <<s, Encoded(s)>>
      \/ \E res \in Malformed : reply = <<Nothing, res>>
  BY <1>1 DEF Replies, Answer
<1> QED
  BY <1>2, <1>3
LEMMA PrefixGrows ==
  ASSUME NEW S, NEW s \in Seq(S), NEW n \in Nat, n < Len(s)
  PROVE  /\ Append(SubSeq(s, 1, n), s[n + 1]) = SubSeq(s, 1, n + 1)
         /\ Len(SubSeq(s, 1, n)) = n
<1>1. /\ Len(s) \in Nat /\ s \in [1 .. Len(s) -> S]
  OBVIOUS
<1>2. /\ SubSeq(s, 1, n) = [k \in 1 .. n |-> s[k]]
      /\ SubSeq(s, 1, n + 1) = [k \in 1 .. n + 1 |-> s[k]]
  BY <1>1
<1>3. [k \in 1 .. n |-> s[k]] \in Seq(S) /\ Len([k \in 1 .. n |-> s[k]]) = n
  BY <1>1
<1>4. Append([k \in 1 .. n |-> s[k]], s[n + 1]) = [k \in 1 .. n + 1 |-> s[k]]
  <2> DEFINE t == [k \in 1 .. n |-> s[k]]
  <2>1. Append(t, s[n + 1]) = [k \in 1 .. Len(t) + 1 |-> IF k <= Len(t) THEN t[k] ELSE s[n + 1]]
    BY <1>3
  <2>2. \A k \in 1 .. n + 1 : (IF k <= n THEN t[k] ELSE s[n + 1]) = s[k]
    OBVIOUS
  <2> QED
    BY <1>3, <2>1, <2>2
<1> QED
  BY <1>2, <1>3, <1>4

LEMMA ReadInit == Init => TypeOK /\ IInv
<1> SUFFICES ASSUME Init
             PROVE  TypeOK /\ IInv
  OBVIOUS
<1> QED
  BY TrackerAssumption DEF Init, TypeOK, IInv, ListInv, SwarmInv

LEMMA ReadNext == TypeOK /\ IInv /\ [Next]_vars => (TypeOK /\ IInv)'
<1> SUFFICES ASSUME TypeOK, IInv, [Next]_vars
             PROVE  (TypeOK /\ IInv)'
  OBVIOUS
<1>1. CASE Announce
  <2>1. PICK res : /\ Retrieved(res) /\ Readable(res)
                   /\ \/ res \in Malformed /\ swarm' = Nothing
                      \/ swarm' \in Swarms /\ res = Encoded(swarm')
    BY <1>1, Announced, RepliesReadable
  <2>2. /\ pc' = Outcome(res) /\ visited' = <<>> /\ peer' = 0
        /\ announces' = announces + 1 /\ announces < MaxAnnounces
    BY <1>1, <2>1 DEF Announce, Retrieved
  <2>3. pc' \in {"visit", "thrown", "undefined"}
    BY <2>2, OutcomeKinds
  <2>4. CASE pc' = "visit"
    <3>1. /\ peers' = PeersOf(res.text.dict.peers) /\ elapsed' = 0
          /\ retrieveInterval' \in Milliseconds(ToInt(res.text.dict.interval.int))
      BY <2>1, <2>2, <2>4 DEF Retrieved
    <3>2. res.text.dict.interval.int \in Int /\ peers' \in Seq(Range(peers'))
      BY <2>1, <2>2, <2>4, <3>1 DEF Readable
    <3>3. ToInt(res.text.dict.interval.int) \in Int
      BY <3>2, ToIntTyped
    <3>4. retrieveInterval' \in Int
      BY <3>1, <3>3, ToIntTyped DEF Milliseconds
    <3>5. Len(peers') \in Nat /\ visited' = SubSeq(peers', 1, peer')
      BY <2>2, <3>2
    <3>6. TypeOK'
      BY <2>1, <2>2, <2>3, <3>1, <3>4, <3>5, TrackerAssumption DEF TypeOK
    <3>7. swarm' # Nothing => peers' = swarm'.peers
                              /\ retrieveInterval' \in Milliseconds(ToInt(swarm'.interval))
      BY <2>1, <3>1, AnswerIsRead
    <3> QED
      BY <2>2, <2>4, <3>2, <3>5, <3>6, <3>7 DEF IInv, ListInv, SwarmInv
  <2>5. CASE pc' # "visit"
    <3>1. UNCHANGED <<peers, retrieveInterval, elapsed>>
      BY <2>1, <2>2, <2>5 DEF Retrieved
    <3>2. TypeOK'
      BY <2>1, <2>2, <2>3, <2>5, <3>1, TrackerAssumption DEF TypeOK
    <3>3. swarm' = Nothing
      BY <2>1, <2>2, <2>5, AnswerIsRead
    <3> QED
      BY <2>3, <2>5, <3>2, <3>3 DEF IInv, ListInv, SwarmInv
  <2> QED
    BY <2>4, <2>5
<1>2. CASE Visit
  <2>1. /\ pc = "visit" /\ peer < Len(peers) /\ peer' = peer + 1
        /\ visited' = Append(visited, peers[peer + 1])
        /\ UNCHANGED <<pc, swarm, peers, retrieveInterval, announces>>
    BY <1>2 DEF Visit, MorePeers
  <2>2. elapsed' \in Nat
    BY <1>2, TrackerAssumption DEF Visit, TypeOK
  <2>3. /\ peers \in Seq(Range(peers)) /\ visited = SubSeq(peers, 1, peer)
        /\ peer \in Nat
    BY <2>1 DEF IInv, ListInv
  <2>4. visited' = SubSeq(peers, 1, peer + 1) /\ peer + 1 <= Len(peers)
    BY <2>1, <2>3, PrefixGrows
  <2>5. Len(visited') = peer + 1
    BY <2>1, <2>3, <2>4
  <2>6. TypeOK'
    BY <2>1, <2>2, <2>4, <2>5 DEF TypeOK
  <2> QED
    BY <2>1, <2>3, <2>4, <2>6 DEF IInv, ListInv, SwarmInv
<1>3. CASE EndOfList
  BY <1>3 DEF EndOfList, TypeOK, IInv, ListInv, SwarmInv
<1>4. CASE UNCHANGED vars
  BY <1>4 DEF vars, TypeOK, IInv, ListInv, SwarmInv
<1> QED
  BY <1>1, <1>2, <1>3, <1>4 DEF Next
LEMMA ReadCorrect == Spec => [](TypeOK /\ IInv)
  BY ReadInit, ReadNext, PTL DEF Spec

-----------------------------------------------------------------------------
(* Every variable keeps its type, and the index of download() stays within the
   list at hand, whatever replies come and however often. *)
THEOREM TrackerTypeCorrect == Spec => []TypeOK
  BY ReadCorrect, PTL

(* download() connects to the peers the tracker named, in its order: both forms
   of the reply are cut and converted to the same addresses and ports. *)
THEOREM VisitsCorrect == Spec => []VisitsAsAnnounced
<1>1. TypeOK /\ IInv => VisitsAsAnnounced
  <2> SUFFICES ASSUME TypeOK, IInv, pc \in {"visit", "returned"}, swarm # Nothing
               PROVE  Len(peers) = Len(swarm.peers) /\ IsPrefix(visited, swarm.peers)
    BY DEF VisitsAsAnnounced
  <2>1. /\ peers = swarm.peers /\ peers \in Seq(Range(peers))
        /\ peer \in Nat /\ visited = SubSeq(peers, 1, peer)
        /\ peer = Len(visited) /\ peer <= Len(peers)
    BY DEF TypeOK, IInv, ListInv, SwarmInv
  <2>2. SubSeq(visited, 1, peer) = visited
    <3>1. visited \in Seq(Range(peers))
      BY <2>1
    <3> QED
      BY <2>1, <3>1
  <2>3. Len(visited) <= Len(swarm.peers)
    BY <2>1
  <2>4. SubSeq(visited, 1, Len(visited)) = SubSeq(swarm.peers, 1, Len(visited))
    BY <2>1, <2>2
  <2> QED
    BY <2>1, <2>3, <2>4 DEF IsPrefix
<1> QED
  BY <1>1, ReadCorrect, PTL

(* retrievePeers throws, or reads what is not there, only when the tracker did
   not answer as it should: the tracker knows the hash in the request, for any
   digest, and every proper answer can be read. *)
THEOREM TrackerThrowsCorrect == Spec => []ThrowsOnlyOnBadReply
<1>1. IInv => ThrowsOnlyOnBadReply
  BY DEF IInv, SwarmInv, ThrowsOnlyOnBadReply
<1> QED
  BY <1>1, ReadCorrect, PTL

(* A peer of the list is passed over only when the interval of the tracker has
   passed, as long as its milliseconds are an int. *)
THEOREM SkipsCorrect == Spec => SkipsOnlyExpired
<1>1. ASSUME TypeOK, IInv, EndOfList, Len(visited) < Len(swarm.peers),
             swarm.interval > 0, 1000 * swarm.interval < IntLimit
      PROVE  elapsed >= 1000 * swarm.interval
  <2>1. /\ pc = "visit" /\ (elapsed >= retrieveInterval \/ peer >= Len(peers))
        /\ peer = Len(visited)
    <3>1. retrieveInterval \in Int /\ elapsed \in Nat /\ pc = "visit"
      BY <1>1 DEF EndOfList, TypeOK
    <3>2. peer \in Nat /\ Len(peers) \in Nat /\ peer = Len(visited)
      BY <1>1, <3>1 DEF IInv, ListInv, TypeOK
    <3> QED
      BY <1>1, <3>1, <3>2 DEF EndOfList, MorePeers
  <2>2. swarm # Nothing
    <3>1. peer \in Nat /\ Len(Nothing.peers) = 0
      BY <1>1, <2>1 DEF IInv, ListInv, Nothing
    <3> QED
      BY <1>1, <2>1, <3>1
  <2>3. swarm.interval \in Int
    BY <1>1, <2>2, SwarmsAreTyped DEF TypeOK, SwarmsTyped
  <2>4. /\ peers = swarm.peers
        /\ retrieveInterval \in Milliseconds(ToInt(swarm.interval))
        /\ peer \in Nat /\ Len(peers) \in Nat
    BY <1>1, <2>1, <2>2 DEF IInv, SwarmInv, ListInv
  <2>5. ToInt(swarm.interval) = swarm.interval
    BY <1>1, <2>3, ToIntKeeps, WireAssumption
  <2>6. ToInt(1000 * swarm.interval) = 1000 * swarm.interval
    <3> DEFINE n == 1000 * swarm.interval
    <3>1. n \in Int /\ 0 - IntLimit <= n /\ n < IntLimit
      BY <1>1, <2>3, WireAssumption
    <3> HIDE DEF n
    <3>2. ToInt(n) = n
      BY <3>1, ToIntKeeps
    <3> QED
      BY <3>2 DEF n
  <2>7. retrieveInterval = 1000 * swarm.interval
    BY <2>4, <2>5, <2>6 DEF Milliseconds
  <2> QED
    BY <1>1, <2>1, <2>4, <2>7
<1>2. TypeOK /\ IInv => [EndOfList /\ Len(visited) < Len(swarm.peers)
                         /\ swarm.interval > 0 /\ 1000 * swarm.interval < IntLimit
                         => elapsed >= 1000 * swarm.interval]_vars
  BY <1>1
<1> QED
  BY <1>2, ReadCorrect, PTL DEF SkipsOnlyExpired
===============================================================================
