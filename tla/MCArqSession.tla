---------------------------- MODULE MCArqSession ----------------------------
(* ArqSession for TLC, and the reliable FIFO it implements. *)
EXTENDS ArqSession

\* The packets numbered for a stream's data, and how many of them precede n.
DataOf(s) == {n \in Sent : pkts[n].stream = s}
Rank(s, n) == Cardinality({m \in DataOf(s) : m < n})

\* The same in the order they were numbered.
SentOn(s) ==
    [i \in 1..Cardinality(DataOf(s)) |-> CHOOSE n \in DataOf(s) : Rank(s, n) = i - 1]

Fifo == INSTANCE FifoStreams WITH
    Payloads <- PktNums,
    sent <- [s \in Streams |-> SentOn(s)]

\* Over a network that loses, duplicates and reorders, each stream is the
\* reliable FIFO its users (udpStream, the server's relay) take it for.
ImplementsFifo == Fifo!Spec

=============================================================================
