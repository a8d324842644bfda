-------------------------------- MODULE Tracker --------------------------------
(***************************************************************************)
(* PeerRetriever::retrievePeers and the loop over the peers it returns: an *)
(* announce, its reply in one of two forms, and the connections that are   *)
(* tried until the list is done or the interval of the tracker has passed. *)
(* A value of the reply is [int |-> n], [str |-> chars], [list |-> values] *)
(* or [dict |-> values by key]; an address is its four numbers, and a char *)
(* is signed.                                                              *)
(***************************************************************************)
EXTENDS Wire

CONSTANTS
    Digest,        \* the bytes of the info-hash
    Swarms,        \* what the tracker may have to say: interval, peers, form
    Malformed,     \* replies of another kind
    Durations,     \* milliseconds that a peer takes
    MaxAnnounces   \* bound

\* std::get<T>; of a key that is not there the program reads beyond the map.
Is(type, value) == DOMAIN value = {type}
Has(value, key) == key \in DOMAIN value.dict

\* What is decoded as a number, a string or a list is one.
Decoded(value) ==
    /\ Is("int", value) => value.int \in Int
    /\ Is("str", value) => value.str \in Seq(Range(value.str))
    /\ Is("list", value) => value.list \in Seq(Range(value.list))

\* A byte has two hexadecimal digits, an address four bytes and a port two; an
\* int holds a port.
ASSUME TrackerAssumption ==
    /\ Digest \in Seq(0 .. 255)
    /\ Base * Base <= IntLimit
    /\ Swarms \subseteq
         [interval : Int, form : {"compact", "list"},
          peers : Seq([ip : [1 .. 4 -> 0 .. Base - 1], port : 0 .. Base * Base - 1])]
    /\ \A res \in Malformed :
         Is("dict", res.text) => \A key \in DOMAIN res.text.dict : Decoded(res.text.dict[key])
    /\ Durations \subseteq Nat /\ MaxAnnounces \in Nat

VARIABLES
    pc,               \* "announce", "visit", "returned", "thrown" or "undefined"
    swarm,            \* what the tracker wanted to say, or Nothing
    peers,            \* TorrentDownloader::peers
    retrieveInterval, \* download: milliseconds
    elapsed,          \* milliseconds since lastRetrieved
    peer,             \* download: index of the next peer
    visited,          \* peers of this list a connection was tried to
    announces         \* bounded by MaxAnnounces

vars == <<pc, swarm, peers, retrieveInterval, elapsed, peer, visited, announces>>

Nothing == [interval |-> 0, peers |-> <<>>, form |-> "none"]

InfoHash == HexText(Digest)

\* Conversions: to char, to unsigned char, and to int, which keeps the low bits.
Char(byte) == IF 2 * byte >= Base THEN byte - Base ELSE byte
UnsignedChar(char) == char % Base
ToInt(n) == ((n + IntLimit) % (2 * IntLimit)) - IntLimit

-----------------------------------------------------------------------------
(* The tracker.                                                            *)

CompactPeer(p) == [k \in 1 .. 4 |-> Char(p.ip[k])]
                  \o <<Char(p.port \div Base), Char(p.port % Base)>>

\* The two forms of a reply.
Encoded(s) ==
    LET list == [k \in DOMAIN s.peers |->
                    [dict |-> [ip |-> [str |-> s.peers[k].ip], port |-> [int |-> s.peers[k].port]]]]
        value == IF s.form = "compact"
                 THEN [str |-> [n \in 1 .. 6 * Len(s.peers) |->
                                   CompactPeer(s.peers[(n - 1) \div 6 + 1])[((n - 1) % 6) + 1]]]
                 ELSE [list |-> list]
    IN  [status |-> 200, text |-> [dict |-> [interval |-> [int |-> s.interval], peers |-> value]]]

Unknown == [status |-> 200, text |-> [dict |-> [failure |-> [str |-> <<>>]]]]

\* It answers for the torrent it is asked for.
Answer(infoHash, s) == IF infoHash = Digest THEN Encoded(s) ELSE Unknown

-----------------------------------------------------------------------------
(* retrievePeers.                                                          *)

Chunks(s) ==
    [k \in 1 .. (Len(s) + 5) \div 6 |-> SubSeq(s, 6 * k - 5, IF 6 * k > Len(s) THEN Len(s) ELSE 6 * k)]

Port(chunk) == BytesToInt([k \in 1 .. Len(chunk) - 4 |-> UnsignedChar(chunk[k + 4])])

\* Mutant of ChunkPeer: the casts to unsigned char are left out.
ChunkPeerSigned(chunk) == [ip |-> SubSeq(chunk, 1, 4), port |-> Port(chunk)]

ChunkPeer(chunk) == [ip |-> [k \in 1 .. 4 |-> UnsignedChar(chunk[k])], port |-> Port(chunk)]

\* substr(4, 2) throws, or bytesToInt, for which there is nothing to read.
ChunkThrows(chunk) == Len(chunk) < 5

\* What reading one dictionary of the list comes to.
EntryOutcome(entry) ==
    IF ~Is("dict", entry) THEN "thrown"
    ELSE IF ~Has(entry, "ip") THEN "undefined"
    ELSE IF ~Is("str", entry.dict.ip) THEN "thrown"
    ELSE IF ~Has(entry, "port") THEN "undefined"
    ELSE IF ~Is("int", entry.dict.port) THEN "thrown" ELSE "visit"

EntryPeer(entry) == [ip |-> entry.dict.ip.str, port |-> ToInt(entry.dict.port.int)]

\* A string is cut into peers; anything else has to be a list of them.
PeersOutcome(value) ==
    CASE Is("str", value) ->
           IF \E chunk \in Range(Chunks(value.str)) : ChunkThrows(chunk) THEN "thrown" ELSE "visit"
      [] Is("list", value) ->
           LET bad == {k \in DOMAIN value.list : EntryOutcome(value.list[k]) # "visit"}
           IN  IF bad = {} THEN "visit" ELSE EntryOutcome(value.list[Min(bad)])
      [] OTHER -> "thrown"

PeersOf(value) ==
    IF Is("str", value) THEN [k \in DOMAIN Chunks(value.str) |-> ChunkPeer(Chunks(value.str)[k])]
    ELSE [k \in DOMAIN value.list |-> EntryPeer(value.list[k])]

Outcome(res) ==
    IF res.status # 200 \/ ~Is("dict", res.text) THEN "thrown"
    ELSE IF ~Has(res.text, "interval") THEN "undefined"
    ELSE IF ~Is("int", res.text.dict.interval) THEN "thrown"
    ELSE IF ~Has(res.text, "peers") THEN "undefined"
    ELSE PeersOutcome(res.text.dict.peers)

\* Mutant of Milliseconds: the seconds are taken for milliseconds.
MillisecondsUnscaled(interval) == {interval}

\* peers.interval * 1000, whose overflow is undefined: the build may keep the
\* low bits, or the product for the comparison with a wider number.
Milliseconds(interval) == {1000 * interval, ToInt(1000 * interval)}

-----------------------------------------------------------------------------
Init ==
    /\ pc = "announce"
    /\ swarm = Nothing
    /\ peers = <<>>
    /\ retrieveInterval = 0
    /\ elapsed = 0
    /\ peer = 0
    /\ visited = <<>>
    /\ announces = 0

\* The tracker answers, well or not, with what it knows.
Replies ==
    {<<s, Answer(HexDecode(InfoHash), s)>> : s \in Swarms} \cup {<<Nothing, res>> : res \in Malformed}

\* What download makes of a reply, or retrievePeers throws.
Retrieved(res) ==
    /\ pc' = Outcome(res)
    /\ visited' = <<>>
    /\ announces' = announces + 1
    /\ IF Outcome(res) = "visit"
         THEN /\ peers' = PeersOf(res.text.dict.peers)
              /\ retrieveInterval' \in Milliseconds(ToInt(res.text.dict.interval.int))
              /\ elapsed' = 0
         ELSE UNCHANGED <<peers, retrieveInterval, elapsed>>

\* Mutant of Announce: the index goes on where the last list ended.
AnnounceKeepsIndex ==
    /\ pc = "announce"
    /\ announces < MaxAnnounces
    /\ \E reply \in Replies : swarm' = reply[1] /\ Retrieved(reply[2])
    /\ UNCHANGED peer

\* An announce; the loop over its peers starts with the first one.
Announce ==
    /\ pc = "announce"
    /\ announces < MaxAnnounces
    /\ \E reply \in Replies : swarm' = reply[1] /\ Retrieved(reply[2])
    /\ peer' = 0

MorePeers == elapsed < retrieveInterval /\ peer < Len(peers)

\* A connection, whatever becomes of it.
Visit ==
    /\ pc = "visit"
    /\ MorePeers
    /\ visited' = Append(visited, peers[peer + 1])
    /\ peer' = peer + 1
    /\ \E ms \in Durations : elapsed' = elapsed + ms
    /\ UNCHANGED <<pc, swarm, peers, retrieveInterval, announces>>

\* The inner loop is done: all pieces are there, or the tracker is asked again.
EndOfList ==
    /\ pc = "visit"
    /\ ~MorePeers
    /\ pc' \in {"announce", "returned"}
    /\ UNCHANGED <<swarm, peers, retrieveInterval, elapsed, peer, visited, announces>>

Next == Announce \/ Visit \/ EndOfList

Spec == Init /\ [][Next]_vars

-----------------------------------------------------------------------------
(* Properties                                                              *)

\* Every variable keeps its type; the index counts the peers visited of the
\* list at hand, and is nowhere beyond it.
TypeOK ==
    /\ pc \in {"announce", "visit", "returned", "thrown", "undefined"}
    /\ swarm \in Swarms \cup {Nothing}
    /\ retrieveInterval \in Int /\ elapsed \in Nat
    /\ announces \in 0 .. MaxAnnounces
    /\ pc \in {"visit", "returned"} => peer = Len(visited) /\ peer <= Len(peers)

\* The client connects to the peers the tracker has named, in its order: both
\* forms of the reply give the same addresses and ports.
VisitsAsAnnounced ==
    pc \in {"visit", "returned"} /\ swarm # Nothing =>
        /\ Len(peers) = Len(swarm.peers)
        /\ IsPrefix(visited, swarm.peers)

\* retrievePeers throws, or reads what is not there, only when the tracker did
\* not answer as it should: the request names the torrent so that the tracker
\* knows it, and every proper answer can be read.
ThrowsOnlyOnBadReply == pc \in {"thrown", "undefined"} => swarm = Nothing

\* A peer of the list is passed over only when the interval of the tracker has
\* passed, as long as its milliseconds are an int.
SkipsOnlyExpired ==
    [][/\ EndOfList /\ Len(visited) < Len(swarm.peers)
       /\ swarm.interval > 0 /\ 1000 * swarm.interval < IntLimit
       => elapsed >= 1000 * swarm.interval]_vars

================================================================================
