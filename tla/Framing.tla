------------------------------- MODULE Framing -------------------------------
(***************************************************************************)
(* One direction of a connection: packets are serialised (dnet/general.c), *)
(* queued, written to the socket in pieces (sfull_write, cfull_write),     *)
(* read in pieces (nbep_read, cfull_read), collected in an accumulator and *)
(* cut into packets again (epoll_serve, run_client).                       *)
(*                                                                         *)
(* The stream consists of cells: cell i of a packet.  The first HeaderSize *)
(* cells are its header, whose last cell holds the size of the payload.  A *)
(* cell that is read as a size and is not one yields `noise'.              *)
(* Queues hand out every block once here: their races are in Relay and     *)
(* Session.                                                                *)
(***************************************************************************)
EXTENDS Naturals, Sequences

CONSTANTS
    Packets,    \* the packets that may be sent, each at most once
    Payload,    \* the cells of payload of each
    HeaderSize, \* packet_general_ofs()
    BufferSize, \* MAX_BUFFER_SIZE: the cells one call of read asks for
    Room,       \* the cells the socket buffers hold
    MaxNoise,   \* bound: the largest size read from a cell that is no size
    MaxFailures \* bound: the reallocations of the reader that fail

ASSUME SizesAssumption == /\ Payload \in [Packets -> Nat]
                          /\ HeaderSize \in Nat \ {0}
                          /\ BufferSize \in Nat \ {0}
                          /\ Room \in Nat /\ MaxNoise \in Nat
                          /\ MaxFailures \in Nat

VARIABLES
    dir,        \* "up": client to server; "down": server to client
    noise,      \* the size a cell yields that is no size
    sent,       \* history: the packets queued, in order
    writeq,     \* the write queue, of serialised packets
    wire,       \* written and not yet read
    eof,        \* the writer has closed the connection
    reader,     \* where the reading thread is
    got,        \* what the calls of read have returned so far
    acc,        \* the accumulator: cli->acc, run_client's acc
    delivered,  \* the packets handed out, deserialised
    written,    \* history: the cells written, but those the reader has lost
    taken,      \* history: all cells cut off the accumulator
    cutAt,      \* history: the number of the first packet with cells missing
                \* from the stream, or 0
    failures    \* how many reallocations have failed

output == <<sent, writeq, eof>>
stream == <<written, cutAt, failures>>
vars == <<dir, noise, output, wire, reader, got, acc, delivered, stream, taken>>

Cell == [pkt : Packets, i : Nat]

-----------------------------------------------------------------------------
(* Packets and blocks. *)

(* packet_serial. *)
Block(p) == [i \in 1..HeaderSize + Payload[p] |-> [pkt |-> p, i |-> i]]

(* The last field of the header of a block, or of what is taken for one.    *)
SizeField(b) == LET c == b[HeaderSize]
                IN IF c.i = HeaderSize THEN Payload[c.pkt] ELSE noise


(* packet_deserial: refuses a block that is not as long as it says.         *)
Deserial(b) ==
    IF Len(b) < HeaderSize \/ Len(b) # HeaderSize + SizeField(b)
    THEN <<>>
    ELSE <<[header |-> SubSeq(b, 1, HeaderSize),
            data   |-> SubSeq(b, HeaderSize + 1, Len(b))]>>

(* The length of the packet at the head of the accumulator.                 *)
HeadLen(s) == HeaderSize + SizeField(s)

HoldsPacket(s) == Len(s) >= HeaderSize /\ Len(s) >= HeadLen(s)

First(s, n) == SubSeq(s, 1, n)
Drop(s, n)  == SubSeq(s, n + 1, Len(s))
Least(m, n) == IF m < n THEN m ELSE n

Init == /\ dir \in {"up", "down"}
        /\ noise \in 0..MaxNoise
        /\ sent = <<>> /\ writeq = <<>> /\ wire = <<>> /\ eof = FALSE
        /\ reader = "poll" /\ got = <<>> /\ acc = <<>> /\ delivered = <<>>
        /\ written = <<>> /\ taken = <<>> /\ cutAt = 0 /\ failures = 0

-----------------------------------------------------------------------------
(* The writing end. *)

Push(p) == /\ ~eof /\ \A i \in DOMAIN sent : sent[i] # p
           /\ sent' = Append(sent, p)
           /\ writeq' = Append(writeq, Block(p))
           /\ UNCHANGED <<dir, noise, eof, wire, reader, got, acc, delivered,
                          stream, taken>>

(* Faulty variant: as if the socket took every block whole. *)
AcceptedWhole(b) == Len(b)

(* How much of a block write takes. *)
Accepted(b) == Least(Len(b), Room - Len(wire))

(* sfull_write and cfull_write return 0 whatever write has taken: the block *)
(* is popped and alr_written starts from 0 again.  No room is EAGAIN.       *)
WriteBlock ==
    /\ ~eof /\ writeq # <<>> /\ Len(wire) < Room
    /\ LET b == Head(writeq)
           n == Accepted(b)
       IN /\ wire' = wire \o First(b, n)
          /\ written' = written \o First(b, n)
          /\ cutAt' = IF cutAt = 0 /\ n < Len(b)
                      THEN Len(sent) - Len(writeq) + 1 ELSE cutAt
    /\ writeq' = Tail(writeq)
    /\ UNCHANGED <<dir, noise, sent, eof, reader, got, acc, delivered, taken,
                   failures>>

Close == /\ ~eof /\ eof' = TRUE
         /\ UNCHANGED <<dir, noise, sent, writeq, wire, reader, got, acc,
                        delivered, stream, taken>>

-----------------------------------------------------------------------------
(* The reading end: an event on the socket, then one call of read after     *)
(* another.                                                                 *)

(* After a call that returned n cells nbep_read calls again, cfull_read     *)
(* only if the buffer was filled.                                           *)
ReadsOn(n) == dir = "up" \/ n = BufferSize

(* What the next call of read returns. *)
Chunk == First(wire, Least(BufferSize, Len(wire)))

ReadSome == /\ reader \in {"poll", "read"} /\ wire # <<>>
            /\ got' = got \o Chunk
            /\ wire' = Drop(wire, Len(Chunk))
            /\ reader' = IF ReadsOn(Len(Chunk)) THEN "read" ELSE "append"
            /\ UNCHANGED <<dir, noise, output, acc, delivered, stream, taken>>

(* EAGAIN: what was read so far is kept. *)
ReadNoMore == /\ reader = "read" /\ wire = <<>> /\ ~eof
              /\ reader' = "append"
              /\ UNCHANGED <<dir, noise, output, wire, got, acc, delivered,
                             stream, taken>>

(* read returns 0: -4 or 2, the connection is given up with what the calls  *)
(* before have returned.                                                    *)
ReadEnd == /\ reader \in {"poll", "read"} /\ wire = <<>> /\ eof
           /\ reader' = "closed" /\ got' = <<>>
           /\ UNCHANGED <<dir, noise, output, wire, acc, delivered, stream, taken>>

(* The reader loses s, the cells of the stream after the first k: from the  *)
(* packet of the first of them on the stream is cut.                        *)
Lose(k, s) ==
    /\ written' = First(written, k) \o Drop(written, k + Len(s))
    /\ \/ s = <<>> /\ cutAt' = cutAt
       \/ \E i \in DOMAIN sent :
             /\ s # <<>> /\ sent[i] = s[1].pkt
             /\ cutAt' = IF cutAt = 0 \/ i < cutAt THEN i ELSE cutAt

(* A reallocation of nbep_read or cfull_read fails: -2, which their callers *)
(* do not treat as an error.  The last chunk is lost, the rest is kept, and *)
(* so is the connection.                                                    *)
ReadDropped == /\ reader \in {"poll", "read"} /\ wire # <<>>
               /\ failures < MaxFailures /\ failures' = failures + 1
               /\ wire' = Drop(wire, Len(Chunk))
               /\ Lose(Len(taken \o (acc \o got)), Chunk)
               /\ reader' = "append"
               /\ UNCHANGED <<dir, noise, output, got, acc, delivered, taken>>

(* The server: EPOLLHUP, EPOLLERR, or -3 from nbep_read.  Nothing more is   *)
(* read, and what the calls before have returned is given up.               *)
Reset == /\ dir = "up" /\ reader \in {"poll", "read"} /\ eof
         /\ reader' = "closed" /\ wire' = <<>> /\ got' = <<>>
         /\ UNCHANGED <<dir, noise, output, acc, delivered, stream, taken>>

(* The client: cfull_read returns -1, and run_client goes on with what was  *)
(* read before.                                                             *)
ResetKept == /\ dir = "down" /\ reader \in {"poll", "read"} /\ eof
             /\ got # <<>> \/ wire # <<>>
             /\ reader' = "append" /\ wire' = <<>>
             /\ Lose(Len(taken \o (acc \o got)), wire)
             /\ UNCHANGED <<dir, noise, output, got, acc, delivered, taken, failures>>

(* Faulty variant: the new cells replace those that wait for the rest. *)
AppendOver == /\ reader = "append"
              /\ reader' = "extract" /\ acc' = got /\ got' = <<>>
              /\ UNCHANGED <<dir, noise, output, wire, delivered, stream, taken>>

AppendRead == /\ reader = "append"
              /\ reader' = "extract" /\ acc' = acc \o got /\ got' = <<>>
              /\ UNCHANGED <<dir, noise, output, wire, delivered, stream, taken>>

(* newbuf is NULL: what was read is lost, and the connection goes on.       *)
AppendDropped == /\ reader = "append" /\ got # <<>>
                 /\ failures < MaxFailures /\ failures' = failures + 1
                 /\ reader' = "extract" /\ got' = <<>>
                 /\ Lose(Len(taken \o acc), got)
                 /\ UNCHANGED <<dir, noise, output, wire, acc, delivered, taken>>

(* Faulty variant: one packet for each read. *)
ExtractOne == /\ reader = "extract" /\ HoldsPacket(acc)
              /\ delivered' = delivered \o Deserial(First(acc, HeadLen(acc)))
              /\ taken' = taken \o First(acc, HeadLen(acc))
              /\ acc' = Drop(acc, HeadLen(acc))
              /\ reader' = "poll"
              /\ UNCHANGED <<dir, noise, output, wire, got, stream>>

(* Faulty variant: the header is not counted when a packet is cut off. *)
ExtractShort == /\ reader = "extract" /\ HoldsPacket(acc)
                /\ delivered' = delivered \o Deserial(First(acc, HeadLen(acc)))
                /\ taken' = taken \o First(acc, SizeField(acc))
                /\ acc' = Drop(acc, SizeField(acc))
                /\ UNCHANGED <<dir, noise, output, wire, reader, got, stream>>

(* The packet at the head of the accumulator is complete: push it to the    *)
(* read queue, with a task that deserialises it, and move the rest up.      *)
Extract == /\ reader = "extract" /\ HoldsPacket(acc)
           /\ delivered' = delivered \o Deserial(First(acc, HeadLen(acc)))
           /\ taken' = taken \o First(acc, HeadLen(acc))
           /\ acc' = Drop(acc, HeadLen(acc))
           /\ UNCHANGED <<dir, noise, output, wire, reader, got, stream>>

ExtractDone == /\ reader = "extract" /\ ~HoldsPacket(acc)
               /\ reader' = "poll"
               /\ UNCHANGED <<dir, noise, output, wire, got, acc, delivered,
                              stream, taken>>

-----------------------------------------------------------------------------
Writer == (\E p \in Packets : Push(p)) \/ WriteBlock \/ Close
Reader == \/ ReadSome \/ ReadNoMore \/ ReadEnd \/ ReadDropped \/ Reset
          \/ ResetKept \/ AppendRead \/ AppendDropped \/ Extract \/ ExtractDone

Next == Writer \/ Reader

Spec == Init /\ [][Next]_vars

(* The loops write and read as long as there is room and something to read. *)
FairSpec == Spec /\ WF_vars(WriteBlock) /\ WF_vars(Reader)

-----------------------------------------------------------------------------
Message == [header : Seq(Cell), data : Seq(Cell)]

(* The message the sender of a packet means. *)
Meant(p) == [header |-> First(Block(p), HeaderSize),
             data   |-> Drop(Block(p), HeaderSize)]

TypeOK == /\ dir \in {"up", "down"} /\ noise \in Nat
          /\ sent \in Seq(Packets) /\ writeq \in Seq(Seq(Cell))
          /\ wire \in Seq(Cell) /\ eof \in BOOLEAN
          /\ reader \in {"poll", "read", "append", "extract", "closed"}
          /\ got \in Seq(Cell) /\ acc \in Seq(Cell)
          /\ delivered \in Seq(Message)
          /\ written \in Seq(Cell) /\ taken \in Seq(Cell)
          /\ cutAt \in Nat /\ Len(wire) <= Room /\ failures \in 0..MaxFailures

(* No cell that was written is lost, repeated or moved between the socket   *)
(* and the handlers, in whatever pieces it is read, until the connection    *)
(* ends, but those a failed reallocation or a reset drops: not even after   *)
(* such a drop or a short write, so a stream that has lost its frame never  *)
(* finds it again.                                                          *)
StreamKept == reader # "closed" =>
                  written = taken \o (acc \o (got \o wire))

(* A packet that has arrived completely is not kept back until more comes:  *)
(* when the reading thread waits, the accumulator holds less than a packet. *)
NothingKeptBack == reader = "poll" => ~HoldsPacket(acc)

(* Reading and framing implement a FIFO of packets up to the first packet   *)
(* that sfull_write or cfull_write cut short or of which the reader has     *)
(* lost a cell.                                                             *)
Fifo == INSTANCE PacketFifo
            WITH sent <- [i \in DOMAIN sent |-> Meant(sent[i])]
ImplementsFifo == Fifo!Spec

=============================================================================
