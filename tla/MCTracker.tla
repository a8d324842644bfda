------------------------------- MODULE MCTracker -------------------------------
(* Three peers; an int has 18 bits, enough for a port and for a minute.      *)
EXTENDS Tracker

TwoBytes == <<172, 9>>

A == [ip |-> <<10, 0, 200, 1>>, port |-> 6881]
B == [ip |-> <<255, 0, 0, 128>>, port |-> 200]
C == [ip |-> <<1, 2, 3, 4>>, port |-> 65535]

\* An interval whose milliseconds are beyond an int (132), one that is itself
\* (262145), and no interval at all.
ManySwarms ==
    [interval : {-1, 0, 1, 2, 132, 262145},
     peers : {<<>>, <<A>>, <<A, B>>, <<B, C, A>>},
     form : {"compact", "list"}]

Reply(peersValue) == [status |-> 200, text |-> [dict |-> [interval |-> [int |-> 1], peers |-> peersValue]]]

\* Another status, a text that is not bencoded, other types, missing keys, and a
\* string that is no multiple of 6 bytes: 1 or 4 too many, or a port of one byte.
BadReplies ==
    { [status |-> 404, text |-> [str |-> <<>>]],
      [status |-> 200, text |-> [none |-> <<>>]], [status |-> 200, text |-> [list |-> <<>>]],
      [status |-> 200, text |-> [dict |-> [interval |-> [str |-> <<>>]]]],
      [status |-> 200, text |-> [dict |-> [interval |-> [int |-> 1]]]],
      Unknown, Reply([int |-> 1]) }
    \cup {Reply([str |-> [k \in 1 .. n |-> 1]]) : n \in {1, 10, 11}}
    \cup {Reply([list |-> <<entry>>]) :
             entry \in {[int |-> 1], [dict |-> [port |-> [int |-> 1]]],
                        [dict |-> [ip |-> [int |-> 1]]], [dict |-> [ip |-> [str |-> <<1>>]]],
                        [dict |-> [ip |-> [str |-> <<1>>], port |-> [str |-> <<1>>]]]}}
================================================================================
