------------------------------ MODULE MCCodecs ------------------------------
(* The inputs that TLC puts to Codecs.                                     *)
EXTENDS Codecs

MCLocalHosts == {"localhost", "[::1]"}
MCPrivateHosts == {"192.168.1.20"}

\* Addresses with paths of up to three segments
MCOrigins ==
    [scheme : {"", "http", "https", "ws", "wss", "ftp"}, user : BOOLEAN,
     host : {"chat.example", "192.168.1.20", "localhost", "[::1]", ""},
     path : BoundedSeq({"lattix", "api", "ws", ""}, 3)]

\* Ten modules at three places in a line of version 1 and, twice as wide, in
\* one of version 2
MCLines ==
    LET Words == [1..10 -> BOOLEAN]
        Around(w, before, after, c) == [i \in 1..before |-> c] \o w \o [i \in 1..after |-> c]
    IN  {Around(w, o, 11 - o, c) : w \in Words, o \in {0, 5, 11}, c \in BOOLEAN}
        \cup {Around([i \in 1..20 |-> w[(i + 1) \div 2]], o, 5 - o, FALSE) : w \in Words, o \in {0, 5}}

\* Texts of one block, of two, and of four of two lengths; of the largest
\* length a version takes, and one more
MCTexts ==
    LET Text(n, a) == [k \in 1..n |-> BitsOf((a * k + n) % 256)]
    IN  {[bytes |-> Text(n, a), level |-> l] : n \in {0, 1, 7, 8}, a \in {1, 77}, l \in Levels}
        \cup {[bytes |-> Text(33, 29), level |-> "QUARTILE"], [bytes |-> Text(47, 29), level |-> "QUARTILE"]}
=============================================================================
