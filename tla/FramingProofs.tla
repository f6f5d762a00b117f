---------------------------- MODULE FramingProofs ----------------------------
(***************************************************************************)
(* Proofs about Framing for any packets, sizes and amount of room.         *)
(***************************************************************************)
EXTENDS Framing, SequenceTheorems, TLAPS

USE DEF output, stream

(* What one step of Next is, named action by action. *)
LEMMA NextCases ==
    ASSUME Next
    PROVE  \/ \E p \in Packets : Push(p)
           \/ WriteBlock \/ Close \/ ReadSome \/ ReadNoMore \/ ReadEnd
           \/ ReadDropped \/ Reset \/ ResetKept \/ AppendRead
           \/ AppendDropped \/ Extract \/ ExtractDone
BY DEF Next, Writer, Reader

(* The two parts of a sequence cut in front of cell n + 1. *)
LEMMA Parts ==
    ASSUME NEW S, NEW s \in Seq(S), NEW n \in 0..Len(s)
    PROVE  /\ First(s, n) \in Seq(S) /\ Len(First(s, n)) = n
           /\ Drop(s, n) \in Seq(S) /\ Len(Drop(s, n)) = Len(s) - n
           /\ First(s, n) \o Drop(s, n) = s
<1>1. Len(s) \in Nat /\ \A i \in 1..Len(s) : s[i] \in S
    BY LenProperties, ElementOfSeq
<1>2. \A i \in 1..n : s[i] \in S
    BY <1>1
<1>3. First(s, n) \in Seq(S) /\ Len(First(s, n)) = n
    BY <1>1, <1>2, SubSeqProperties DEF First
<1>4. \A i \in n + 1..Len(s) : s[i] \in S
    BY <1>1
<1>5. Drop(s, n) \in Seq(S) /\ Len(Drop(s, n)) = Len(s) - n
    BY <1>1, <1>4, SubSeqProperties DEF Drop
<1>6. SubSeq(s, 1, n) \o SubSeq(s, n + 1, Len(s)) = SubSeq(s, 1, Len(s))
    <2>1. 1 \in 1..Len(s) + 1 /\ n \in 1 - 1..Len(s) /\ Len(s) \in n..Len(s)
        BY <1>1
    <2> QED
        BY ONLY <2>1, s \in Seq(S), ConcatAdjacentSubSeq, Zenon
<1>7. SubSeq(s, 1, Len(s)) = s
    BY SubSeqFull
<1> QED
    BY <1>3, <1>5, <1>6, <1>7 DEF First, Drop

LEMMA BlockType == \A p \in Packets : Block(p) \in Seq(Cell)
<1> SUFFICES ASSUME NEW p \in Packets PROVE Block(p) \in Seq(Cell)
    OBVIOUS
<1>1. HeaderSize + Payload[p] \in Nat
    BY SizesAssumption
<1>2. Block(p) \in [1..HeaderSize + Payload[p] -> Cell]
    BY <1>1 DEF Block, Cell
<1> QED
    BY <1>1, <1>2, SeqDef

(* A size read out of a header, or of anything else, is a number. *)
LEMMA SizeType ==
    ASSUME NEW b \in Seq(Cell), Len(b) >= HeaderSize, noise \in Nat
    PROVE  SizeField(b) \in Nat
<1>1. HeaderSize \in 1..Len(b)
    BY SizesAssumption, LenProperties
<1>2. b[HeaderSize] \in Cell
    BY <1>1, ElementOfSeq
<1> QED
    BY <1>2, SizesAssumption DEF SizeField, Cell

(* The packet at the head of an accumulator that holds one is in it. *)
LEMMA HeadLenType ==
    ASSUME NEW s \in Seq(Cell), HoldsPacket(s), noise \in Nat
    PROVE  HeadLen(s) \in 0..Len(s)
<1>1. SizeField(s) \in Nat
    BY SizeType DEF HoldsPacket
<1> QED
    BY <1>1, SizesAssumption, LenProperties DEF HoldsPacket, HeadLen

LEMMA DeserialType ==
    ASSUME NEW b \in Seq(Cell)
    PROVE  Deserial(b) \in Seq(Message)
<1>1. <<>> \in Seq(Message)
    BY EmptySeq
<1>2. ASSUME Len(b) >= HeaderSize
      PROVE  <<[header |-> SubSeq(b, 1, HeaderSize),
                data |-> SubSeq(b, HeaderSize + 1, Len(b))]>> \in Seq(Message)
    <2>1. HeaderSize \in 0..Len(b)
        BY <1>2, SizesAssumption, LenProperties
    <2>2. First(b, HeaderSize) \in Seq(Cell) /\ Drop(b, HeaderSize) \in Seq(Cell)
        BY <2>1, Parts
    <2>3. [header |-> SubSeq(b, 1, HeaderSize),
           data |-> SubSeq(b, HeaderSize + 1, Len(b))] \in Message
        BY <2>2 DEF First, Drop, Message
    <2> QED
        BY <2>3
<1>3. CASE Len(b) < HeaderSize \/ Len(b) # HeaderSize + SizeField(b)
    BY <1>1, <1>3 DEF Deserial
<1>4. CASE ~(Len(b) < HeaderSize \/ Len(b) # HeaderSize + SizeField(b))
    <2>1. Len(b) >= HeaderSize
        BY <1>4, SizesAssumption, LenProperties
    <2> QED
        BY <2>1, <1>2, <1>4 DEF Deserial
<1> QED
    BY <1>3, <1>4

-----------------------------------------------------------------------------
(* Type correctness. *)

(* How much write takes, and how much read returns. *)
LEMMA AcceptedType ==
    ASSUME TypeOK, NEW b \in Seq(Cell), Len(wire) < Room
    PROVE  /\ Accepted(b) \in 0..Len(b)
           /\ Accepted(b) + Len(wire) <= Room
<1>1. Len(b) \in Nat /\ Len(wire) \in Nat
    BY LenProperties DEF TypeOK
<1> QED
    BY <1>1, SizesAssumption DEF Accepted, Least

LEMMA ReadType ==
    ASSUME TypeOK
    PROVE  /\ Chunk \in Seq(Cell) /\ Len(Chunk) \in 0..Len(wire)
           /\ Drop(wire, Len(Chunk)) \in Seq(Cell)
           /\ Len(Drop(wire, Len(Chunk))) = Len(wire) - Len(Chunk)
           /\ Chunk \o Drop(wire, Len(Chunk)) = wire
<1> DEFINE n == Least(BufferSize, Len(wire))
<1>1. Len(wire) \in Nat /\ wire \in Seq(Cell)
    BY LenProperties DEF TypeOK
<1>2. n \in 0..Len(wire)
    BY <1>1, SizesAssumption DEF Least
<1> HIDE DEF n
<1>3. /\ First(wire, n) \in Seq(Cell) /\ Len(First(wire, n)) = n
      /\ Drop(wire, n) \in Seq(Cell) /\ Len(Drop(wire, n)) = Len(wire) - n
      /\ First(wire, n) \o Drop(wire, n) = wire
    BY <1>1, <1>2, Parts
<1>4. Chunk = First(wire, n)
    BY DEF Chunk, n
<1> QED
    BY <1>2, <1>3, <1>4

(* Cells 1 to n, and those from n + 1 on, of a sequence joined from a part  *)
(* of n cells and the rest.                                                 *)
LEMMA Joint ==
    ASSUME NEW S, NEW a \in Seq(S), NEW b \in Seq(S)
    PROVE  First(a \o b, Len(a)) = a /\ Drop(a \o b, Len(a)) = b
<1> DEFINE t == a \o b
           x == First(t, Len(a))
           y == Drop(t, Len(a))
<1>1. /\ Len(a) \in Nat /\ Len(b) \in Nat /\ t \in Seq(S) /\ Len(t) = Len(a) + Len(b)
      /\ \A i \in 1..Len(a) : t[i] = a[i]
      /\ \A i \in 1..Len(b) : t[Len(a) + i] = b[i]
    BY ConcatProperties, LenProperties
<1> HIDE DEF t
<1>2. Len(a) \in 0..Len(t)
    BY <1>1
<1>3. x \in Seq(S) /\ Len(x) = Len(a) /\ y \in Seq(S) /\ Len(y) = Len(b)
    BY <1>1, <1>2, Parts
<1>4. \A i \in 1..Len(t) : t[i] \in S
    BY <1>1, ElementOfSeq
<1>5. \A i \in 1..Len(a) : x[i] = t[i]
    BY <1>1, <1>2, <1>4, SubSeqProperties DEF First
<1>6. \A i \in 1..Len(b) : y[i] = t[Len(a) + i]
    BY <1>1, <1>2, <1>4, SubSeqProperties DEF Drop
<1> HIDE DEF x, y
<1>7. x = a
    BY <1>1, <1>3, <1>5, SeqEqual
<1>8. y = b
    BY <1>1, <1>3, <1>6, SeqEqual
<1> QED
    BY <1>7, <1>8 DEF x, y, t

(* What Lose leaves of a stream of three parts.                             *)
LEMMA LoseIs ==
    ASSUME NEW a \in Seq(Cell), NEW s \in Seq(Cell), NEW b \in Seq(Cell),
           written = a \o (s \o b), Lose(Len(a), s)
    PROVE  written' = a \o b
<1>1. s \o b \in Seq(Cell)
    BY ConcatProperties
<1>2. First(written, Len(a)) = a
    BY <1>1, Joint
<1>3. /\ a \o s \in Seq(Cell) /\ Len(a \o s) = Len(a) + Len(s)
      /\ written = (a \o s) \o b
    BY ConcatProperties, ConcatAssociative
<1>4. Drop(written, Len(a) + Len(s)) = b
    BY <1>3, Joint
<1> QED
    BY <1>2, <1>4 DEF Lose

(* The new number of the first packet cut.                                  *)
LEMMA LoseType ==
    ASSUME NEW k, NEW s, Lose(k, s), sent \in Seq(Packets), cutAt \in Nat
    PROVE  cutAt' \in Nat
<1>1. DOMAIN sent \subseteq Nat
    BY LenProperties
<1> QED
    BY <1>1 DEF Lose

(* The number of the packet cut short is counted back from the end of the   *)
(* write queue: it is one because nothing is queued that was not sent.      *)
QueuedIsSent == Len(writeq) <= Len(sent)

LEMMA TypeInit == Init => TypeOK /\ QueuedIsSent
<1> SUFFICES ASSUME Init PROVE TypeOK /\ QueuedIsSent
    OBVIOUS
<1>1. Len(<<>>) = 0
    BY EmptySeq
<1>2. /\ <<>> \in Seq(Packets) /\ <<>> \in Seq(Seq(Cell))
      /\ <<>> \in Seq(Cell) /\ <<>> \in Seq(Message)
    BY EmptySeq
<1>3. /\ sent \in Seq(Packets) /\ writeq \in Seq(Seq(Cell))
      /\ delivered \in Seq(Message)
      /\ wire \in Seq(Cell) /\ got \in Seq(Cell) /\ acc \in Seq(Cell)
      /\ written \in Seq(Cell) /\ taken \in Seq(Cell)
    BY <1>2, Zenon DEF Init
<1>4. /\ noise \in Nat /\ cutAt \in Nat /\ Len(wire) <= Room /\ QueuedIsSent
      /\ failures \in 0..MaxFailures
    BY <1>1, SizesAssumption DEF Init, QueuedIsSent
<1>5. /\ dir \in {"up", "down"} /\ eof \in BOOLEAN
      /\ reader \in {"poll", "read", "append", "extract", "closed"}
    BY DEF Init
<1> QED
    BY <1>3, <1>4, <1>5 DEF TypeOK

LEMMA QueuedStep == TypeOK /\ QueuedIsSent /\ [Next]_vars => QueuedIsSent'
<1> SUFFICES ASSUME TypeOK, QueuedIsSent, [Next]_vars PROVE QueuedIsSent'
    OBVIOUS
<1>1. Len(sent) \in Nat /\ Len(writeq) \in Nat
    BY LenProperties DEF TypeOK
<1>2. CASE UNCHANGED <<sent, writeq>>
    BY <1>2 DEF QueuedIsSent
<1>3. ASSUME NEW p \in Packets, Push(p) PROVE QueuedIsSent'
    <2>1. Len(sent') = Len(sent) + 1 /\ Len(writeq') = Len(writeq) + 1
        BY <1>3, BlockType DEF Push, TypeOK
    <2> QED
        BY <1>1, <2>1 DEF QueuedIsSent
<1>4. ASSUME WriteBlock PROVE QueuedIsSent'
    <2>1. Len(writeq') = Len(writeq) - 1 /\ sent' = sent
        BY <1>4, HeadTailProperties DEF WriteBlock, TypeOK
    <2> QED
        BY <1>1, <2>1 DEF QueuedIsSent
<1>5. ASSUME \/ Close \/ ReadSome \/ ReadNoMore \/ ReadEnd \/ ReadDropped
             \/ Reset \/ ResetKept \/ AppendRead \/ AppendDropped
             \/ Extract \/ ExtractDone
      PROVE  UNCHANGED <<sent, writeq>>
    BY <1>5 DEF Close, ReadSome, ReadNoMore, ReadEnd, ReadDropped, Reset,
                ResetKept, AppendRead, AppendDropped, Extract, ExtractDone
<1> QED
    BY <1>2, <1>3, <1>4, <1>5, NextCases DEF vars

(* The stream between socket and handlers. *)
LEMMA KeptInit == Init => StreamKept
<1> SUFFICES ASSUME Init PROVE StreamKept
    OBVIOUS
<1>1. <<>> \o <<>> = <<>>
    BY EmptySeq, ConcatEmptySeq
<1> QED
    BY <1>1 DEF Init, StreamKept

LEMMA Brackets ==
    \A a, b, c \in Seq(Cell) : (a \o b) \o c = a \o (b \o c)
BY ConcatAssociative

LEMMA Joined == \A a, b \in Seq(Cell) : a \o b \in Seq(Cell)
BY ConcatProperties

(* Brackets in a stream of five parts: what is written is appended to the   *)
(* last part.                                                               *)
LEMMA AppendedAtEnd ==
    \A a, b, c, d, e \in Seq(Cell) :
        (a \o (b \o (c \o d))) \o e = a \o (b \o (c \o (d \o e)))
<1> SUFFICES ASSUME NEW a \in Seq(Cell), NEW b \in Seq(Cell), NEW c \in Seq(Cell),
                    NEW d \in Seq(Cell), NEW e \in Seq(Cell)
             PROVE  (a \o (b \o (c \o d))) \o e = a \o (b \o (c \o (d \o e)))
    OBVIOUS
<1> DEFINE cd == c \o d
           bcd == b \o cd
<1>1. cd \in Seq(Cell)
    BY Joined, Zenon
<1> HIDE DEF cd
<1>2. bcd \in Seq(Cell)
    BY <1>1, Joined, Zenon
<1>3. (b \o cd) \o e = b \o (cd \o e)
    BY <1>1, Brackets, ZenonT(60)
<1> HIDE DEF bcd
<1>4. (a \o bcd) \o e = a \o (bcd \o e)
    <2>1. \A f \in Seq(Cell) : (a \o f) \o e = a \o (f \o e)
        BY Brackets, ZenonT(60)
    <2> QED
        BY <1>2, <2>1, Zenon
<1>5. (c \o d) \o e = c \o (d \o e)
    BY Brackets, Zenon
<1> QED
    BY <1>3, <1>4, <1>5, Zenon DEF bcd, cd

LEMMA StreamOf ==
    ASSUME TypeOK, StreamKept, reader # "closed"
    PROVE  /\ written = (taken \o (acc \o got)) \o wire
           /\ written = (taken \o acc) \o (got \o wire)
<1>1. /\ taken \in Seq(Cell) /\ acc \in Seq(Cell) /\ got \in Seq(Cell)
      /\ wire \in Seq(Cell) /\ written = taken \o (acc \o (got \o wire))
    BY DEF TypeOK, StreamKept
<1>2. acc \o got \in Seq(Cell) /\ got \o wire \in Seq(Cell)
    BY <1>1, Joined, Zenon
<1>3. (acc \o got) \o wire = acc \o (got \o wire)
    BY <1>1, Brackets, Zenon
<1>4. (taken \o (acc \o got)) \o wire = taken \o ((acc \o got) \o wire)
    <2>1. \A x, y \in Seq(Cell) : (taken \o x) \o y = taken \o (x \o y)
        BY <1>1, Brackets, ZenonT(60)
    <2> QED BY <1>1, <1>2, <2>1, Zenon
<1>5. (taken \o acc) \o (got \o wire) = taken \o (acc \o (got \o wire))
    <2>1. \A x, y \in Seq(Cell) : (taken \o x) \o y = taken \o (x \o y)
        BY <1>1, Brackets, ZenonT(60)
    <2> QED BY <1>1, <1>2, <2>1, Zenon
<1> QED
    BY <1>1, <1>3, <1>4, <1>5

LEMMA TypeStep == TypeOK /\ QueuedIsSent /\ StreamKept /\ [Next]_vars => TypeOK'
<1> SUFFICES ASSUME TypeOK, QueuedIsSent, StreamKept, [Next]_vars PROVE TypeOK'
    OBVIOUS
<1>1. CASE UNCHANGED vars
    BY <1>1 DEF vars, TypeOK
<1>2. ASSUME NEW p \in Packets, Push(p) PROVE TypeOK'
    <2>1. Block(p) \in Seq(Cell)
        BY BlockType
    <2> QED
        BY <2>1, <1>2 DEF Push, TypeOK
<1>3. ASSUME WriteBlock PROVE TypeOK'
    <2> DEFINE b == Head(writeq)
               n == Accepted(b)
    <2>1. b \in Seq(Cell) /\ writeq' \in Seq(Seq(Cell))
        BY <1>3, HeadTailProperties DEF WriteBlock, TypeOK
    <2>2. n \in 0..Len(b) /\ n + Len(wire) <= Room
        BY <1>3, <2>1, AcceptedType DEF WriteBlock
    <2>3. First(b, n) \in Seq(Cell) /\ Len(First(b, n)) = n
        BY <2>1, <2>2, Parts
    <2> HIDE DEF b, n
    <2>4. wire' = wire \o First(b, n) /\ written' = written \o First(b, n)
        BY <1>3 DEF WriteBlock, b, n
    <2>5. wire' \in Seq(Cell) /\ written' \in Seq(Cell)
        BY <2>3, <2>4, ConcatProperties DEF TypeOK
    <2>6. Len(wire') <= Room
        <3>1. Len(wire') = Len(wire) + n
            BY <2>3, <2>4, ConcatProperties DEF TypeOK
        <3> QED
            BY <2>2, <3>1, LenProperties DEF TypeOK
    <2>7. cutAt' \in Nat
        <3>1. Len(sent) \in Nat /\ Len(writeq) \in Nat
            BY LenProperties DEF TypeOK
        <3>2. cutAt' = cutAt \/ cutAt' = Len(sent) - Len(writeq) + 1
            BY <1>3 DEF WriteBlock
        <3>3. Len(sent) - Len(writeq) + 1 \in Nat
            BY <3>1 DEF QueuedIsSent
        <3> QED
            BY <3>2, <3>3 DEF TypeOK
    <2> QED
        BY <1>3, <2>1, <2>5, <2>6, <2>7 DEF WriteBlock, TypeOK
<1>4. ASSUME Close PROVE TypeOK'
    BY <1>4 DEF Close, TypeOK
<1>5. ASSUME ReadSome PROVE TypeOK'
    <2>1. got \o Chunk \in Seq(Cell)
        BY ReadType, ConcatProperties DEF TypeOK
    <2>2. Len(wire') <= Room
        BY <1>5, ReadType, SizesAssumption, LenProperties DEF ReadSome, TypeOK
    <2> QED
        BY <1>5, <2>1, <2>2, ReadType DEF ReadSome, TypeOK
<1>6. ASSUME ReadNoMore PROVE TypeOK'
    BY <1>6 DEF ReadNoMore, TypeOK
<1>7. ASSUME ReadEnd PROVE TypeOK'
    BY <1>7 DEF ReadEnd, TypeOK
<1>8. ASSUME Reset PROVE TypeOK'
    BY <1>8, SizesAssumption DEF Reset, TypeOK
<1>9. ASSUME AppendRead PROVE TypeOK'
    <2>1. acc \o got \in Seq(Cell)
        BY ConcatProperties DEF TypeOK
    <2> QED
        BY <1>9, <2>1 DEF AppendRead, TypeOK
<1>10. ASSUME Extract PROVE TypeOK'
    <2> DEFINE n == HeadLen(acc)
               b == First(acc, n)
    <2>1. n \in 0..Len(acc)
        BY <1>10, HeadLenType DEF Extract, TypeOK
    <2>2. b \in Seq(Cell) /\ Drop(acc, n) \in Seq(Cell)
        BY <2>1, Parts DEF TypeOK
    <2>3. Deserial(b) \in Seq(Message)
        BY <2>2, DeserialType
    <2> HIDE DEF b, n
    <2>4. /\ delivered' = delivered \o Deserial(b)
          /\ taken' = taken \o b /\ acc' = Drop(acc, n)
        BY <1>10 DEF Extract, b, n
    <2>5. delivered' \in Seq(Message) /\ taken' \in Seq(Cell) /\ acc' \in Seq(Cell)
        BY <2>2, <2>3, <2>4, ConcatProperties DEF TypeOK
    <2> QED
        BY <1>10, <2>5 DEF Extract, TypeOK
<1>11. ASSUME ExtractDone PROVE TypeOK'
    BY <1>11 DEF ExtractDone, TypeOK
<1>12. ASSUME ReadDropped PROVE TypeOK'
    <2> DEFINE a == taken \o (acc \o got)
    <2>1. a \in Seq(Cell) /\ Lose(Len(a), Chunk)
        BY <1>12, ConcatProperties DEF ReadDropped, TypeOK
    <2>2. written = a \o (Chunk \o Drop(wire, Len(Chunk)))
        BY <1>12, ReadType, StreamOf DEF ReadDropped, TypeOK
    <2> HIDE DEF a
    <2>3. written' = a \o Drop(wire, Len(Chunk)) /\ cutAt' \in Nat
        BY <2>1, <2>2, LoseIs, LoseType, ReadType DEF TypeOK
    <2>4. written' \in Seq(Cell)
        BY <2>1, <2>3, ReadType, ConcatProperties
    <2>5. Len(wire') <= Room /\ failures' \in 0..MaxFailures
        BY <1>12, ReadType, SizesAssumption, LenProperties DEF ReadDropped, TypeOK
    <2> QED
        BY <1>12, <2>3, <2>4, <2>5, ReadType DEF ReadDropped, TypeOK
<1>13. ASSUME ResetKept PROVE TypeOK'
    <2> DEFINE a == taken \o (acc \o got)
    <2>1. a \in Seq(Cell) /\ Lose(Len(a), wire)
        BY <1>13, ConcatProperties DEF ResetKept, TypeOK
    <2>2. written = a \o (wire \o <<>>) /\ <<>> \in Seq(Cell)
        <3>1. wire \in Seq(Cell) /\ reader # "closed"
            BY <1>13 DEF ResetKept, TypeOK
        <3>2. written = a \o wire
            BY <3>1, StreamOf
        <3> QED
            BY <3>1, <3>2, ConcatEmptySeq
    <2> HIDE DEF a
    <2>3. written' = a \o <<>> /\ cutAt' \in Nat
        BY <2>1, <2>2, LoseIs, LoseType DEF TypeOK
    <2>4. written' \in Seq(Cell)
        BY <2>1, <2>2, <2>3, ConcatProperties
    <2> QED
        BY <1>13, <2>3, <2>4, SizesAssumption DEF ResetKept, TypeOK
<1>14. ASSUME AppendDropped PROVE TypeOK'
    <2> DEFINE a == taken \o acc
    <2>1. a \in Seq(Cell) /\ Lose(Len(a), got)
        BY <1>14, ConcatProperties DEF AppendDropped, TypeOK
    <2>2. written = a \o (got \o wire)
        BY <1>14, StreamOf DEF AppendDropped, TypeOK
    <2> HIDE DEF a
    <2>3. written' = a \o wire /\ cutAt' \in Nat
        BY <2>1, <2>2, LoseIs, LoseType DEF TypeOK
    <2>4. written' \in Seq(Cell)
        BY <2>1, <2>3, ConcatProperties DEF TypeOK
    <2>5. failures' \in 0..MaxFailures
        BY <1>14, SizesAssumption DEF AppendDropped, TypeOK
    <2> QED
        BY <1>14, <2>3, <2>4, <2>5 DEF AppendDropped, TypeOK
<1> QED
    BY <1>1, <1>2, <1>3, <1>4, <1>5, <1>6, <1>7, <1>8, <1>9, <1>10, <1>11,
       <1>12, <1>13, <1>14, NextCases

LEMMA KeptStep == TypeOK /\ StreamKept /\ [Next]_vars => StreamKept'
<1> SUFFICES ASSUME TypeOK, StreamKept, [Next]_vars, reader' # "closed"
             PROVE  written' = taken' \o (acc' \o (got' \o wire'))
    BY DEF StreamKept
<1> DEFINE Goal == written' = taken' \o (acc' \o (got' \o wire'))
<1>a. /\ wire \in Seq(Cell) /\ got \in Seq(Cell) /\ acc \in Seq(Cell)
      /\ taken \in Seq(Cell) /\ got \o wire \in Seq(Cell)
    BY ConcatProperties DEF TypeOK
<1>b. reader # "closed" => written = taken \o (acc \o (got \o wire))
    BY DEF StreamKept
<1>1. CASE UNCHANGED <<wire, reader, got, acc, written, taken>>
    BY <1>1, <1>b
<1>2. ASSUME WriteBlock PROVE Goal
    <2> DEFINE b == Head(writeq)
               x == First(b, Accepted(b))
    <2>1. b \in Seq(Cell)
        BY <1>2, HeadTailProperties DEF WriteBlock, TypeOK
    <2>2. Accepted(b) \in 0..Len(b)
        BY <1>2, <2>1, AcceptedType DEF WriteBlock
    <2>3. x \in Seq(Cell)
        BY <2>1, <2>2, Parts
    <2>4. /\ wire' = wire \o x /\ written' = written \o x
          /\ UNCHANGED <<reader, got, acc, taken>>
        BY <1>2 DEF WriteBlock
    <2> HIDE DEF x
    <2>5. (taken \o (acc \o (got \o wire))) \o x = taken \o (acc \o (got \o (wire \o x)))
        <3>1. \A c, d, e \in Seq(Cell) :
                  (taken \o (acc \o (c \o d))) \o e = taken \o (acc \o (c \o (d \o e)))
            BY <1>a, AppendedAtEnd, Zenon
        <3>2. \A e \in Seq(Cell) :
                  (taken \o (acc \o (got \o wire))) \o e
                      = taken \o (acc \o (got \o (wire \o e)))
            BY <1>a, <3>1, Zenon
        <3> QED
            BY <2>3, <3>2, Zenon
    <2> QED
        BY <1>b, <2>4, <2>5
<1>3. ASSUME ReadSome PROVE Goal
    <2> DEFINE x == Chunk
               y == Drop(wire, Len(Chunk))
    <2>1. x \in Seq(Cell) /\ y \in Seq(Cell) /\ x \o y = wire
        BY ReadType
    <2>2. /\ got' = got \o x /\ wire' = y
          /\ UNCHANGED <<acc, written, taken>> /\ reader # "closed"
        BY <1>3 DEF ReadSome
    <2> HIDE DEF x, y
    <2>3. (got \o x) \o y = got \o (x \o y)
        <3>1. \A u, v \in Seq(Cell) : (got \o u) \o v = got \o (u \o v)
            BY <1>a, Brackets, ZenonT(60)
        <3> QED BY <2>1, <3>1, Zenon
    <2>4. got' \o wire' = got \o wire
        BY <2>1, <2>2, <2>3, Zenon
    <2> QED
        BY <1>b, <2>2, <2>4, Zenon
<1>4. ASSUME ReadNoMore PROVE Goal
    BY <1>4, <1>b DEF ReadNoMore
<1>5. ASSUME ReadEnd \/ Reset PROVE Goal
    BY <1>5 DEF ReadEnd, Reset
<1>6. ASSUME AppendRead PROVE Goal
    <2>1. /\ acc' = acc \o got /\ got' = <<>> /\ reader # "closed"
          /\ UNCHANGED <<wire, written, taken>>
        BY <1>6 DEF AppendRead
    <2>2. got' \o wire' = wire
        BY <1>a, <2>1, ConcatEmptySeq
    <2>3. (acc \o got) \o wire = acc \o (got \o wire)
        BY <1>a, Brackets, Zenon
    <2> QED
        BY <1>b, <2>1, <2>2, <2>3
<1>7. ASSUME Extract PROVE Goal
    <2> DEFINE n == HeadLen(acc)
    <2>1. n \in 0..Len(acc)
        BY <1>7, HeadLenType DEF Extract, TypeOK
    <2>2. /\ First(acc, n) \in Seq(Cell) /\ Drop(acc, n) \in Seq(Cell)
          /\ First(acc, n) \o Drop(acc, n) = acc
        BY <1>a, <2>1, Parts
    <2>3. /\ taken' = taken \o First(acc, n) /\ acc' = Drop(acc, n)
          /\ UNCHANGED <<wire, got, written, reader>> /\ reader # "closed"
        BY <1>7 DEF Extract
    <2> HIDE DEF n
    <2> DEFINE r == got \o wire
    <2>4. Drop(acc, n) \o r \in Seq(Cell)
        BY <1>a, <2>2, Joined, Zenon
    <2>5. (taken \o First(acc, n)) \o (Drop(acc, n) \o r)
            = taken \o (First(acc, n) \o (Drop(acc, n) \o r))
        BY <1>a, <2>2, <2>4, Brackets, ZenonT(60)
    <2>6. First(acc, n) \o (Drop(acc, n) \o r) = acc \o r
        <3>1. (First(acc, n) \o Drop(acc, n)) \o r = First(acc, n) \o (Drop(acc, n) \o r)
            BY <1>a, <2>2, Brackets, ZenonT(60)
        <3> QED
            BY <2>2, <3>1
    <2> QED
        BY <1>b, <2>3, <2>5, <2>6
<1>8. ASSUME ExtractDone PROVE Goal
    BY <1>8, <1>b DEF ExtractDone
<1>9. ASSUME Close \/ \E p \in Packets : Push(p) PROVE Goal
    BY <1>9, <1>1 DEF Close, Push
<1>c. <<>> \in Seq(Cell) /\ acc \o got \in Seq(Cell)
    BY ConcatProperties DEF TypeOK
<1>10. ASSUME ReadDropped PROVE Goal
    <2> DEFINE a == taken \o (acc \o got)
               y == Drop(wire, Len(Chunk))
    <2>1. /\ a \in Seq(Cell) /\ Lose(Len(a), Chunk) /\ reader # "closed"
          /\ wire' = y /\ UNCHANGED <<got, acc, taken>>
        BY <1>10, <1>a, <1>c, Joined DEF ReadDropped
    <2>2. Chunk \in Seq(Cell) /\ y \in Seq(Cell) /\ written = a \o (Chunk \o y)
        BY <2>1, ReadType, StreamOf
    <2> HIDE DEF y
    <2>3. written' = a \o y
        <3> HIDE DEF a
        <3> QED BY <2>1, <2>2, LoseIs
    <2>4. (acc \o got) \o y = acc \o (got \o y)
        BY <1>a, <2>2, Brackets, ZenonT(60)
    <2>5. a \o y = taken \o ((acc \o got) \o y)
        <3>1. \A u, v \in Seq(Cell) : (taken \o u) \o v = taken \o (u \o v)
            BY <1>a, Brackets, ZenonT(60)
        <3> QED BY <1>c, <2>2, <3>1, Zenon
    <2> QED
        BY <2>1, <2>3, <2>4, <2>5, Zenon
<1>11. ASSUME ResetKept PROVE Goal
    <2> DEFINE a == taken \o (acc \o got)
    <2>1. /\ a \in Seq(Cell) /\ Lose(Len(a), wire) /\ reader # "closed"
          /\ wire' = <<>> /\ UNCHANGED <<got, acc, taken>>
        BY <1>11, <1>a, <1>c, Joined DEF ResetKept
    <2>2. wire \o <<>> = wire /\ got \o <<>> = got
        BY <1>a, ConcatEmptySeq
    <2>3. written = a \o (wire \o <<>>)
        BY <2>1, <2>2, StreamOf
    <2>4. written' = a \o <<>>
        <3> HIDE DEF a
        <3> QED BY <1>a, <1>c, <2>1, <2>3, LoseIs
    <2>5. a \o <<>> = a
        <3> HIDE DEF a
        <3> QED BY <2>1, ConcatEmptySeq
    <2> QED
        BY <2>1, <2>2, <2>4, <2>5
<1>12. ASSUME AppendDropped PROVE Goal
    <2> DEFINE a == taken \o acc
    <2>1. /\ a \in Seq(Cell) /\ Lose(Len(a), got) /\ reader # "closed"
          /\ got' = <<>> /\ UNCHANGED <<wire, acc, taken>>
        BY <1>12, <1>a, Joined DEF AppendDropped
    <2>2. written = a \o (got \o wire)
        BY <2>1, StreamOf
    <2>3. written' = a \o wire
        <3> HIDE DEF a
        <3> QED BY <1>a, <2>1, <2>2, LoseIs
    <2>4. a \o wire = taken \o (acc \o wire)
        BY <1>a, Brackets, ZenonT(60)
    <2>5. <<>> \o wire = wire
        BY <1>a, ConcatEmptySeq
    <2> QED
        BY <2>1, <2>3, <2>4, <2>5
<1> QED
    BY <1>1, <1>2, <1>3, <1>4, <1>5, <1>6, <1>7, <1>8, <1>9, <1>10, <1>11,
       <1>12, NextCases DEF vars

(* Every variable keeps its type, and the socket never holds more than it   *)
(* has room for, whatever the sizes of the packets and the buffers.         *)
THEOREM FramingTypes == Spec => []TypeOK
<1> QED
    BY TypeInit, TypeStep, QueuedStep, KeptInit, KeptStep, PTL DEF Spec

(* No cell is lost, repeated or moved between the socket and the handlers,  *)
(* for any sizes of header, payloads, reads and socket buffers, with any    *)
(* writes that take part of a block: the stream closes up behind cells that *)
(* a failed reallocation or a reset of the client's socket drops.           *)
THEOREM StreamIsKept == Spec => []StreamKept
<1> QED
    BY FramingTypes, KeptInit, KeptStep, PTL DEF Spec

-----------------------------------------------------------------------------
LEMMA BackInit == Init => NothingKeptBack
<1> SUFFICES ASSUME Init PROVE ~HoldsPacket(acc)
    BY DEF NothingKeptBack
<1>1. acc = <<>> /\ Len(acc) = 0
    BY EmptySeq DEF Init
<1> QED
    BY <1>1, SizesAssumption DEF HoldsPacket

LEMMA BackStep == NothingKeptBack /\ [Next]_vars => NothingKeptBack'
<1> SUFFICES ASSUME NothingKeptBack, [Next]_vars, reader' = "poll"
             PROVE  ~HoldsPacket(acc)'
    BY DEF NothingKeptBack
<1>1. CASE UNCHANGED <<reader, noise, acc>>
    BY <1>1 DEF NothingKeptBack, HoldsPacket, HeadLen, SizeField
<1>2. ASSUME ExtractDone PROVE ~HoldsPacket(acc)'
    BY <1>2 DEF ExtractDone, HoldsPacket, HeadLen, SizeField
<1>3. ASSUME \/ WriteBlock \/ Close \/ \E p \in Packets : Push(p)
      PROVE  UNCHANGED <<reader, noise, acc>>
    BY <1>3 DEF WriteBlock, Close, Push
<1>4. ASSUME \/ ReadSome \/ ReadNoMore \/ ReadEnd \/ ReadDropped \/ Reset
             \/ ResetKept \/ AppendRead \/ AppendDropped \/ Extract
      PROVE  FALSE
    BY <1>4 DEF ReadSome, ReadNoMore, ReadEnd, ReadDropped, Reset, ResetKept,
                AppendRead, AppendDropped, Extract
<1> QED
    BY <1>1, <1>2, <1>3, <1>4, NextCases DEF vars

(* The reading thread never goes back to epoll_wait or its next read with a *)
(* complete packet in the accumulator, for any sizes.                       *)
THEOREM NeverKeptBack == Spec => []NothingKeptBack
<1> QED
    BY BackInit, BackStep, PTL DEF Spec

-----------------------------------------------------------------------------
(* Framing implements PacketFifo.  The cells of the stream are the blocks   *)
(* of the packets sent, one behind the other, up to the first one that was  *)
(* cut short or of which a cell was lost; f says where each block ends.     *)

Size(p) == HeaderSize + Payload[p]

(* The packets that have been taken out of writeq ... *)
Out == Len(sent) - Len(writeq)

(* ... and those in front of the first that is cut. *)
Whole == IF cutAt = 0 THEN Out ELSE cutAt - 1

QueueKept == /\ QueuedIsSent /\ cutAt <= Out
             /\ \A i \in 1..Len(writeq) : writeq[i] = Block(sent[Out + i])
             /\ \A i, j \in 1..Len(sent) : sent[i] = sent[j] => i = j

(* Block i lies in what was written between f[i - 1] and f[i]. *)
LiesAt(f, i) == /\ f[i] = f[i - 1] + Size(sent[i]) /\ f[i] <= Len(written)
                /\ \A j \in 1..Size(sent[i]) : written[f[i - 1] + j] = Block(sent[i])[j]

(* Cell q of the stream is of packet n: all blocks before that end in front *)
(* of it, and no other block that is whole does.                            *)
CellOf(f, q, n) == /\ sent[n] = written[q].pkt
                   /\ \A i \in 0..Whole : f[i] < q <=> i < n

LaidOut(f) == /\ f[0] = 0 /\ \A i \in 1..Whole : LiesAt(f, i)
              /\ Len(delivered) <= Whole => Len(taken) = f[Len(delivered)]
              /\ Len(delivered) > Whole => Len(taken) >= f[Whole]
              /\ cutAt = 0 => Len(delivered) <= Whole /\ Len(written) = f[Whole]
              /\ \A q \in 1..Len(written) : \E n \in 1..Out : CellOf(f, q, n)

FrameInv == QueueKept /\ \E f \in [Nat -> Nat] : LaidOut(f)

LEMMA BlockIs ==
    ASSUME NEW p \in Packets
    PROVE  /\ Size(p) \in Nat /\ Size(p) >= HeaderSize /\ Len(Block(p)) = Size(p)
           /\ Block(p) \in Seq(Cell)
           /\ \A j \in 1..Size(p) : Block(p)[j] = [pkt |-> p, i |-> j]
<1>1. Size(p) \in Nat /\ Size(p) >= HeaderSize
    BY SizesAssumption DEF Size
<1>2. DOMAIN Block(p) = 1..Size(p) /\ \A j \in 1..Size(p) : Block(p)[j] = [pkt |-> p, i |-> j]
    BY DEF Block, Size
<1>3. Block(p) \in Seq(Cell)
    BY BlockType
<1>4. Len(Block(p)) = Size(p)
    BY <1>1, <1>2, <1>3, LenProperties
<1> QED
    BY <1>1, <1>2, <1>3, <1>4

(* The numbers of packets and cells. *)
LEMMA Counts ==
    ASSUME TypeOK, FrameInv
    PROVE  /\ Len(sent) \in Nat /\ Len(writeq) \in Nat /\ Out \in Nat /\ Out <= Len(sent)
           /\ Whole \in Nat /\ Whole <= Out /\ cutAt \in Nat
           /\ Len(delivered) \in Nat /\ Len(taken) \in Nat /\ Len(written) \in Nat
           /\ \A i \in 1..Len(sent) : sent[i] \in Packets /\ Size(sent[i]) \in Nat
<1>1. Len(sent) \in Nat /\ Len(writeq) \in Nat /\ Len(writeq) <= Len(sent) /\ cutAt \in Nat
      /\ cutAt <= Out
    BY LenProperties DEF TypeOK, FrameInv, QueueKept, QueuedIsSent
<1>2. Len(delivered) \in Nat /\ Len(taken) \in Nat /\ Len(written) \in Nat
    BY LenProperties DEF TypeOK
<1>3. \A i \in 1..Len(sent) : sent[i] \in Packets
    BY ElementOfSeq DEF TypeOK
<1>4. \A i \in 1..Len(sent) : Size(sent[i]) \in Nat
    BY <1>3, BlockIs
<1> QED
    BY <1>1, <1>2, <1>3, <1>4 DEF Out, Whole

(* Steps that neither queue, write nor extract. *)
LEMMA FrameSame ==
    ASSUME FrameInv, UNCHANGED <<sent, writeq, cutAt, written, taken, delivered>>
    PROVE  FrameInv'
<1>1. Out' = Out /\ Whole' = Whole /\ QueuedIsSent' = QueuedIsSent
    BY DEF Out, Whole, QueuedIsSent
<1>2. QueueKept'
    BY <1>1 DEF FrameInv, QueueKept
<1>3. ASSUME NEW f \in [Nat -> Nat], LaidOut(f) PROVE LaidOut(f)'
    BY <1>1, <1>3 DEF LaidOut, LiesAt, CellOf
<1> QED
    BY <1>2, <1>3 DEF FrameInv

LEMMA FramePush ==
    ASSUME TypeOK, FrameInv, NEW p \in Packets, Push(p)
    PROVE  FrameInv'
<1>1. /\ sent' = Append(sent, p) /\ writeq' = Append(writeq, Block(p))
      /\ UNCHANGED <<cutAt, written, taken, delivered>>
    BY DEF Push
<1>2. sent \in Seq(Packets) /\ writeq \in Seq(Seq(Cell)) /\ Block(p) \in Seq(Cell)
    BY BlockType DEF TypeOK
<1> DEFINE b == Block(p)
<1> HIDE DEF b
<1>3. /\ Len(sent') = Len(sent) + 1 /\ sent'[Len(sent) + 1] = p
      /\ \A i \in 1..Len(sent) : sent'[i] = sent[i]
    BY <1>1, <1>2
<1>4. /\ Len(writeq') = Len(writeq) + 1 /\ writeq'[Len(writeq) + 1] = b
      /\ \A i \in 1..Len(writeq) : writeq'[i] = writeq[i]
    BY <1>1, <1>2 DEF b
<1>5. Out' = Out /\ Whole' = Whole /\ Out \in Nat /\ Whole \in Nat /\ Whole <= Len(sent)
      /\ Out + Len(writeq) = Len(sent)
    BY <1>1, <1>3, <1>4, Counts DEF Out, Whole
<1>6. QueueKept'
    <2>1. QueuedIsSent' /\ cutAt' <= Out'
        BY <1>1, <1>3, <1>4, <1>5, Counts DEF FrameInv, QueueKept, QueuedIsSent
    <2>2. ASSUME NEW i \in 1..Len(writeq') PROVE writeq'[i] = Block(sent'[Out + i])
        <3>1. CASE i = Len(writeq) + 1
            <4>1. sent'[Out + i] = p
                BY <1>3, <1>5, <3>1, Counts
            <4> QED BY <1>4, <3>1, <4>1 DEF b
        <3>2. CASE i # Len(writeq) + 1
            <4>1. i \in 1..Len(writeq) /\ Out + i \in 1..Len(sent)
                BY <1>4, <1>5, <3>2, Counts
            <4>2. writeq'[i] = writeq[i] /\ sent'[Out + i] = sent[Out + i]
                BY <1>3, <1>4, <4>1
            <4> QED BY <4>1, <4>2 DEF FrameInv, QueueKept
        <3> QED BY <3>1, <3>2
    <2>3. ASSUME NEW i \in 1..Len(sent'), NEW j \in 1..Len(sent'), sent'[i] = sent'[j]
          PROVE  i = j
        <3>1. \A k \in 1..Len(sent') : \/ (k = Len(sent) + 1 /\ sent'[k] = p)
                                       \/ (k \in 1..Len(sent) /\ sent'[k] = sent[k])
            BY <1>3, Counts
        <3>2. \A k \in 1..Len(sent) : sent[k] # p
            BY <1>2 DEF Push
        <3>3. \A k, l \in 1..Len(sent) : sent[k] = sent[l] => k = l
            BY DEF FrameInv, QueueKept
        <3> QED BY <2>3, <3>1, <3>2, <3>3
    <2> QED BY <1>5, <2>1, <2>2, <2>3 DEF QueueKept
<1>7. ASSUME NEW f \in [Nat -> Nat], LaidOut(f) PROVE LaidOut(f)'
    <2>1. \A i \in 1..Whole : sent'[i] = sent[i]
        <3>1. \A i \in 1..Whole : i \in 1..Len(sent)
            BY <1>5, Counts
        <3> QED BY <1>3, <3>1
    <2>2. ASSUME NEW i \in 1..Whole PROVE LiesAt(f, i)'
        <3>1. LiesAt(f, i) /\ sent'[i] = sent[i] /\ written' = written
            BY <1>1, <1>7, <2>1 DEF LaidOut
        <3> QED BY <3>1 DEF LiesAt
    <2>3. ASSUME NEW q \in 1..Len(written) PROVE \E n \in 1..Out : CellOf(f, q, n)'
        <3>1. PICK n \in 1..Out : CellOf(f, q, n)
            BY <1>7 DEF LaidOut
        <3>2. n \in 1..Len(sent)
            <4> DEFINE l == Len(sent)
                       o == Out
            <4>1. l \in Nat /\ o \in Nat /\ o <= l
                BY Counts
            <4> HIDE DEF l, o
            <4>2. 1..o \subseteq 1..l
                BY ONLY <4>1
            <4> QED BY <4>2 DEF l, o
        <3>3. sent'[n] = sent[n]
            BY <1>3, <3>2
        <3> QED BY <1>1, <1>5, <3>1, <3>3 DEF CellOf
    <2> QED BY <1>1, <1>5, <1>7, <2>2, <2>3 DEF LaidOut
<1> QED
    BY <1>6, <1>7 DEF FrameInv

(* What was laid out stays where it is. *)
LEMMA LiesStill ==
    ASSUME NEW f \in [Nat -> Nat], NEW i \in Nat, i >= 1, LiesAt(f, i),
           sent[i] \in Packets, sent'[i] = sent[i],
           NEW n \in Nat, f[i] <= n, Len(written') \in Nat, Len(written') >= n,
           \A j \in 1..n : written'[j] = written[j]
    PROVE  LiesAt(f, i)'
<1>1. Size(sent[i]) \in Nat /\ f[i] \in Nat /\ f[i - 1] \in Nat
    <2>1. Size(sent[i]) \in Nat
        BY BlockIs
    <2>2. i - 1 \in Nat
        BY ONLY i \in Nat, i >= 1
    <2> QED BY <2>1, <2>2
<1>2. f[i] = f[i - 1] + Size(sent[i])
    BY DEF LiesAt
<1>3. \A j \in 1..Size(sent[i]) : f[i - 1] + j \in 1..n
    <2> DEFINE s == Size(sent[i])
               d == f[i - 1]
               e == f[i]
    <2>1. s \in Nat /\ d \in Nat /\ n \in Nat /\ e \in Nat /\ e = d + s /\ e <= n
        BY <1>1, <1>2
    <2> HIDE DEF s, d, e
    <2>2. \A j \in 1..s : d + j \in 1..n
        BY ONLY <2>1
    <2> QED BY <2>2 DEF s, d
<1>4. \A j \in 1..Size(sent[i]) : written'[f[i - 1] + j] = Block(sent[i])[j]
    BY <1>3 DEF LiesAt
<1>5. f[i] <= Len(written')
    <2> DEFINE k == Len(written')
    <2>1. n \in Nat /\ k \in Nat /\ k >= n /\ f[i] <= n
        OBVIOUS
    <2> HIDE DEF k
    <2>2. f[i] <= k
        BY <1>1, <2>1
    <2> QED BY <2>2 DEF k
<1> QED
    BY <1>2, <1>4, <1>5 DEF LiesAt

(* What WriteBlock does with block b of packet p, of which n cells are      *)
(* taken; o packets have been taken out of writeq before.                   *)
LEMMA WriteIs ==
    ASSUME TypeOK, FrameInv, WriteBlock, NEW o, o = Out
    PROVE  /\ o \in Nat /\ o + Len(writeq) = Len(sent) /\ Len(writeq) \in Nat \ {0}
           /\ Out' = o + 1 /\ UNCHANGED <<sent, delivered, taken>> /\ writeq' = Tail(writeq)
           /\ sent[o + 1] \in Packets
           /\ \E n \in 0..Size(sent[o + 1]) :
                 /\ Len(written') = Len(written) + n
                 /\ \A j \in 1..Len(written) : written'[j] = written[j]
                 /\ \A j \in 1..n : written'[Len(written) + j] = Block(sent[o + 1])[j]
                 /\ cutAt' = IF cutAt = 0 /\ n < Size(sent[o + 1]) THEN o + 1 ELSE cutAt
<1> DEFINE b == Head(writeq)
           n == Accepted(b)
           x == First(b, n)
           p == sent[o + 1]
<1>1. /\ writeq # <<>> /\ Len(wire) < Room
      /\ written' = written \o x /\ writeq' = Tail(writeq)
      /\ cutAt' = IF cutAt = 0 /\ n < Len(b) THEN Len(sent) - Len(writeq) + 1 ELSE cutAt
      /\ UNCHANGED <<sent, delivered, taken>>
    BY DEF WriteBlock
<1>2. /\ Len(sent) \in Nat /\ Len(writeq) \in Nat /\ o \in Nat /\ o = Len(sent) - Len(writeq)
      /\ Len(written) \in Nat
    BY Counts DEF Out
<1>3. b \in Seq(Cell) /\ Len(writeq) > 0 /\ b = writeq[1] /\ Len(writeq') = Len(writeq) - 1
    <2>1. writeq \in Seq(Seq(Cell))
        BY DEF TypeOK
    <2> QED BY <1>1, <2>1, HeadTailProperties
<1>4. p \in Packets /\ b = Block(p)
    <2>1. o + 1 \in 1..Len(sent) /\ 1 \in 1..Len(writeq)
        BY <1>2, <1>3
    <2> QED BY <1>3, <2>1, Counts DEF FrameInv, QueueKept
<1>5. Size(p) \in Nat /\ Len(b) = Size(p) /\ n \in 0..Size(p)
    BY <1>1, <1>3, <1>4, BlockIs, AcceptedType
<1> HIDE DEF b, n
<1>6. /\ x \in Seq(Cell) /\ Len(x) = n /\ \A j \in 1..n : x[j] = b[j]
    <2>1. x \in Seq(Cell) /\ Len(x) = n
        BY <1>3, <1>5, Parts
    <2>2. \A j \in 1..n : b[j] \in Cell
        BY <1>3, <1>5, ElementOfSeq
    <2>3. \A j \in 1..n : x[j] = b[j]
        BY <1>5, <2>2, SubSeqProperties DEF First
    <2> QED BY <2>1, <2>3
<1> HIDE DEF x, p
<1>7. /\ Len(written') = Len(written) + n
      /\ \A j \in 1..Len(written) : written'[j] = written[j]
      /\ \A j \in 1..n : written'[Len(written) + j] = b[j]
    <2>1. written \in Seq(Cell)
        BY DEF TypeOK
    <2>2. \A j \in 1..n : written'[Len(written) + j] = x[j]
        BY <1>1, <1>2, <1>5, <1>6, <2>1, ConcatProperties
    <2>3. \A j \in 1..n : written'[Len(written) + j] = b[j]
        BY <1>6, <2>2
    <2>4. Len(written') = Len(written) + n
        BY <1>1, <1>6, <2>1, ConcatProperties
    <2>5. \A j \in 1..Len(written) : written'[j] = written[j]
        BY <1>1, <1>2, <1>5, <1>6, <2>1, ConcatProperties
    <2> QED BY <2>3, <2>4, <2>5
<1>8. Out' = o + 1
    BY <1>1, <1>2, <1>3 DEF Out
<1>9. cutAt' = IF cutAt = 0 /\ n < Size(p) THEN o + 1 ELSE cutAt
    BY <1>1, <1>2, <1>5
<1>10. \A j \in 1..n : written'[Len(written) + j] = Block(p)[j]
    BY <1>4, <1>7
<1>11. o + Len(writeq) = Len(sent) /\ Len(writeq) \in Nat \ {0}
    BY <1>2, <1>3
<1> QED
    BY <1>1, <1>2, <1>4, <1>5, <1>7, <1>8, <1>9, <1>10, <1>11 DEF p

(* A block that is written whole is laid out behind the others; one that is *)
(* cut short is the last that counts.                                       *)
LEMMA FrameWrite ==
    ASSUME TypeOK, FrameInv, WriteBlock
    PROVE  FrameInv'
<1> SUFFICES ASSUME NEW o, o = Out, NEW w, w = Whole, NEW p, p = sent[o + 1]
             PROVE  FrameInv'
    OBVIOUS
<1>1. /\ o \in Nat /\ o + Len(writeq) = Len(sent) /\ Len(writeq) \in Nat \ {0} /\ p \in Packets
      /\ Out' = o + 1 /\ UNCHANGED <<sent, delivered, taken>> /\ writeq' = Tail(writeq)
    BY WriteIs
<1>2. PICK n \in 0..Size(p) :
          /\ Len(written') = Len(written) + n
          /\ \A j \in 1..Len(written) : written'[j] = written[j]
          /\ \A j \in 1..n : written'[Len(written) + j] = Block(p)[j]
          /\ cutAt' = IF cutAt = 0 /\ n < Size(p) THEN o + 1 ELSE cutAt
    BY WriteIs
<1>3. /\ Len(sent) \in Nat /\ Len(delivered) \in Nat /\ Len(written) \in Nat
      /\ w \in Nat /\ w <= o /\ cutAt \in Nat
    BY Counts
<1>8. Size(p) \in Nat
    BY <1>1, BlockIs
<1>9. n \in Nat /\ n <= Size(p)
    BY <1>8
<1>10. cutAt <= o /\ (cutAt = 0 => w = o)
    BY DEF FrameInv, QueueKept, Whole
<1>11. \A i \in 1..w : i \in Nat /\ i >= 1 /\ sent[i] \in Packets
    <2>1. \A i \in 1..w : i \in Nat /\ i >= 1 /\ i \in 1..Len(sent)
        BY <1>1, <1>3
    <2> QED BY <2>1, Counts
<1>4. QueueKept'
    <2>1. /\ Len(writeq') = Len(writeq) - 1
          /\ \A i \in 1..Len(writeq') : writeq'[i] = writeq[i + 1]
        <3>1. writeq \in Seq(Seq(Cell)) /\ writeq # <<>>
            BY DEF TypeOK, WriteBlock
        <3> QED BY <1>1, <3>1, HeadTailProperties
    <2>2. QueuedIsSent'
        BY <1>1, <2>1 DEF QueuedIsSent
    <2>3. cutAt' <= o + 1
        <3>1. cutAt' = o + 1 \/ cutAt' = cutAt
            BY <1>2
        <3> QED BY <1>1, <1>3, <1>10, <3>1
    <2>4. ASSUME NEW i \in 1..Len(writeq') PROVE writeq'[i] = Block(sent'[o + 1 + i])
        <3>1. i + 1 \in 1..Len(writeq) /\ o + (i + 1) = o + 1 + i
            BY <1>1, <2>1
        <3>2. writeq[i + 1] = Block(sent[o + (i + 1)])
            BY <3>1 DEF FrameInv, QueueKept
        <3> QED BY <1>1, <2>1, <3>1, <3>2
    <2>5. \A i, j \in 1..Len(sent') : sent'[i] = sent'[j] => i = j
        BY <1>1 DEF FrameInv, QueueKept
    <2> QED BY <1>1, <2>2, <2>3, <2>4, <2>5 DEF QueueKept
<1>5. Len(written') \in Nat /\ Len(written') >= Len(written)
    BY <1>2, <1>3
<1>6. ASSUME NEW f \in [Nat -> Nat], NEW i \in 1..w, LiesAt(f, i) PROVE LiesAt(f, i)'
    <2>1. f[i] <= Len(written)
        BY <1>6 DEF LiesAt
    <2> QED BY <1>1, <1>2, <1>3, <1>5, <1>6, <1>11, <2>1, LiesStill
<1>12. ASSUME NEW q \in 1..Len(written'), ~(q \in 1..Len(written))
       PROVE  written'[q].pkt = p /\ q > Len(written)
    <2> DEFINE l == Len(written)
    <2>1. l \in Nat /\ q \in 1..l + n /\ ~(q \in 1..l)
        BY <1>2, <1>3, <1>12
    <2> HIDE DEF l
    <2>2. PICK j \in 1..n : q = l + j /\ q > l
        <3>1. q - l \in 1..n /\ q = l + (q - l) /\ q > l
            BY ONLY <1>9, <2>1
        <3> QED BY <3>1
    <2>3. written'[q] = Block(p)[j]
        BY <1>2, <2>2 DEF l
    <2>4. Block(p)[j] = [pkt |-> p, i |-> j]
        BY <1>1, <1>9, <2>2, BlockIs
    <2> QED BY <2>2, <2>3, <2>4 DEF l
<1>7. ASSUME NEW f \in [Nat -> Nat], LaidOut(f) PROVE \E g \in [Nat -> Nat] : LaidOut(g)'
    <2>1. CASE cutAt # 0 \/ n < Size(p)
        <3>1. Whole' = w /\ cutAt' # 0
            <4>1. CASE cutAt = 0
                <5>1. cutAt' = o + 1 /\ w = o
                    BY <1>2, <1>10, <2>1, <4>1
                <5>2. o \in Nat
                    BY <1>1
                <5>3. o + 1 # 0 /\ o + 1 - 1 = o
                    BY ONLY <5>2
                <5>4. cutAt' # 0 /\ cutAt' - 1 = w
                    BY ONLY <5>1, <5>2, <5>3
                <5> QED BY ONLY <5>4 DEF Whole
            <4>2. CASE cutAt # 0
                <5>1. cutAt' = cutAt /\ w = cutAt - 1
                    BY <1>2, <4>2 DEF Whole
                <5> QED BY <4>2, <5>1 DEF Whole
            <4> QED BY <4>1, <4>2
        <3>2. \A i \in 1..w : LiesAt(f, i)'
            BY <1>6, <1>7 DEF LaidOut
        <3>3. /\ Len(delivered) <= w => Len(taken) = f[Len(delivered)]
              /\ Len(delivered) > w => Len(taken) >= f[w]
            BY <1>7 DEF LaidOut
        <3>5. ASSUME NEW i \in 0..w PROVE f[i] <= Len(written)
            <4>1. CASE i = 0
                BY <1>3, <1>7, <4>1 DEF LaidOut
            <4>2. CASE i \in 1..w
                BY <1>7, <4>2 DEF LaidOut, LiesAt
            <4> QED BY <1>3, <4>1, <4>2
        <3>6. ASSUME NEW q \in 1..Len(written') PROVE \E k \in 1..o + 1 : CellOf(f, q, k)'
            <4>1. CASE q \in 1..Len(written)
                <5>1. PICK k \in 1..o : CellOf(f, q, k)
                    BY <1>7, <4>1 DEF LaidOut
                <5>2. CellOf(f, q, k)'
                    BY <1>1, <1>2, <3>1, <4>1, <5>1 DEF CellOf
                <5>3. k \in 1..o + 1
                    BY <1>1
                <5> QED BY <5>2, <5>3
            <4>2. CASE ~(q \in 1..Len(written))
                <5>1. written'[q].pkt = sent[o + 1] /\ q > Len(written)
                    BY <1>12, <4>2
                <5>2. \A i \in 0..w : f[i] < q /\ i < o + 1
                    <6> TAKE i \in 0..w
                    <6>1. f[i] <= Len(written) /\ f[i] \in Nat
                        <7>1. i \in Nat
                            BY ONLY <1>3
                        <7> QED BY <3>5, <7>1
                    <6>2. f[i] < q
                        <7> DEFINE l == Len(written)
                                   e == f[i]
                        <7>1. l \in Nat /\ e \in Nat /\ e <= l /\ q > l /\ q \in Nat
                            BY <1>3, <1>5, <5>1, <6>1
                        <7> HIDE DEF l, e
                        <7>2. e < q
                            BY ONLY <7>1
                        <7> QED BY <7>2 DEF e
                    <6> QED BY <1>1, <1>3, <6>2
                <5>3. o + 1 \in 1..o + 1
                    BY <1>1
                <5> QED BY <1>1, <3>1, <5>1, <5>2, <5>3 DEF CellOf
            <4> QED BY <4>1, <4>2
        <3>4. LaidOut(f)'
            BY <1>1, <1>7, <3>1, <3>2, <3>3, <3>6 DEF LaidOut
        <3> QED BY <3>4
    <2>2. CASE cutAt = 0 /\ n = Size(p)
        <3>1. w = o /\ Whole' = o + 1 /\ cutAt' = 0
            BY <1>1, <1>2, <1>10, <2>2 DEF Whole
        <3>2. PICK g \in [Nat -> Nat] : /\ g[o + 1] = f[o] + Size(p)
                                        /\ \A i \in 0..o : g[i] = f[i]
            <4> DEFINE s == f[o] + Size(p)
                       h == [i \in Nat |-> IF i = o + 1 THEN s ELSE f[i]]
            <4>2. o \in Nat /\ s \in Nat
                <5>1. o \in Nat
                    BY <1>1
                <5> QED BY ONLY <1>8, <5>1, f \in [Nat -> Nat]
            <4> HIDE DEF s
            <4>3. h \in [Nat -> Nat] /\ h[o + 1] = s /\ \A i \in 0..o : h[i] = f[i]
                BY ONLY <4>2, f \in [Nat -> Nat]
            <4>1. h \in [Nat -> Nat] /\ h[o + 1] = f[o] + Size(p) /\ \A i \in 0..o : h[i] = f[i]
                BY <4>3 DEF s
            <4> QED BY <4>1
        <3>3. /\ Len(written) = f[o] /\ Len(delivered) <= o /\ Len(taken) = f[Len(delivered)]
              /\ f[0] = 0
            BY <1>7, <2>2, <3>1 DEF LaidOut
        <3>4. ASSUME NEW i \in 1..o PROVE LiesAt(g, i)'
            <4>1. LiesAt(f, i)'
                BY <1>6, <1>7, <3>1 DEF LaidOut
            <4>2. i \in 0..o /\ i - 1 \in 0..o
                BY ONLY <1>1
            <4>3. g[i] = f[i] /\ g[i - 1] = f[i - 1]
                BY <3>2, <4>2
            <4> QED BY <4>1, <4>3 DEF LiesAt
        <3>5. LiesAt(g, o + 1)'
            <4>1. g[o + 1] = g[o] + Size(p) /\ g[o] = Len(written) /\ o + 1 - 1 = o
                BY <1>1, <3>2, <3>3
            <4>2. g[o + 1] <= Len(written')
                BY <1>2, <1>3, <1>8, <2>2, <4>1
            <4>3. \A j \in 1..Size(p) : written'[g[o] + j] = Block(p)[j]
                BY <1>2, <2>2, <4>1
            <4>4. sent'[o + 1] = p
                BY <1>1
            <4> SUFFICES ASSUME NEW k, k = o + 1 PROVE LiesAt(g, k)'
                OBVIOUS
            <4>5. k - 1 = o /\ sent'[k] = p
                <5>1. o \in Nat
                    BY <1>1
                <5> QED BY <4>4, <5>1
            <4>6. g[k] = g[k - 1] + Size(sent'[k]) /\ g[k] <= Len(written')
                BY <4>1, <4>2, <4>5
            <4>7. \A j \in 1..Size(sent'[k]) : written'[g[k - 1] + j] = Block(sent'[k])[j]
                BY <4>3, <4>5
            <4> QED BY <4>6, <4>7 DEF LiesAt
        <3>6. \A i \in 1..o + 1 : LiesAt(g, i)'
            <4>1. \A i \in 1..o + 1 : i \in 1..o \/ i = o + 1
                BY ONLY <1>1
            <4> QED BY <3>4, <3>5, <4>1
        <3>7. Len(written') = g[o + 1]
            BY <1>2, <1>3, <1>8, <2>2, <3>2, <3>3
        <3>8. Len(taken) = g[Len(delivered)] /\ Len(delivered) <= o + 1 /\ g[0] = 0
            BY <1>1, <1>3, <3>2, <3>3
        <3>10. ASSUME NEW q \in 1..Len(written') PROVE \E k \in 1..o + 1 : CellOf(g, q, k)'
            <4>1. q \in Nat /\ q <= g[o + 1] /\ ~(g[o + 1] < q)
                <5>1. o + 1 \in Nat
                    BY ONLY <1>1
                <5>2. g[o + 1] \in Nat
                    BY <5>1
                <5>3. q \in 1..g[o + 1]
                    BY <3>7
                <5> DEFINE u == g[o + 1]
                <5>4. u \in Nat /\ q \in 1..u
                    BY <5>2, <5>3
                <5> HIDE DEF u
                <5>5. q \in Nat /\ q <= u /\ ~(u < q)
                    BY ONLY <5>4
                <5> QED BY <5>5 DEF u
            <4>4. o \in Nat
                BY <1>1
            <4>2. CASE q \in 1..Len(written)
                <5>1. PICK k \in 1..o : CellOf(f, q, k)
                    BY <1>7, <4>2 DEF LaidOut
                <5>2. ASSUME NEW i \in 0..o + 1 PROVE g[i] < q <=> i < k
                    <6>1. CASE i = o + 1
                        <7>1. ~(i < k)
                            BY ONLY <4>4, <6>1, k \in 1..o
                        <7> QED BY <4>1, <6>1, <7>1
                    <6>2. CASE i \in 0..o
                        BY <3>1, <3>2, <5>1, <6>2 DEF CellOf
                    <6> QED BY <1>1, <6>1, <6>2
                <5>3. sent'[k] = written'[q].pkt
                    BY <1>1, <1>2, <4>2, <5>1 DEF CellOf
                <5>4. k \in 1..o + 1
                    BY <1>1
                <5> QED BY <3>1, <5>2, <5>3, <5>4 DEF CellOf
            <4>3. CASE ~(q \in 1..Len(written))
                <5>1. written'[q].pkt = p /\ q > Len(written)
                    BY <1>12, <4>3
                <5>2. ASSUME NEW i \in 0..o + 1 PROVE g[i] < q <=> i < o + 1
                    <6>1. CASE i = o + 1
                        <7>1. ~(i < o + 1)
                            BY ONLY <4>4, <6>1
                        <7> QED BY <4>1, <6>1, <7>1
                    <6>2. CASE i \in 0..o
                        <7>1. f[i] <= Len(written)
                            <8>1. CASE i = 0
                                <9>1. f[i] = 0
                                    BY <3>3, <8>1
                                <9>2. 0 <= Len(written)
                                    BY <1>3
                                <9> QED BY <9>1, <9>2
                            <8>2. CASE i \in 1..o
                                BY <1>7, <3>1, <8>2 DEF LaidOut, LiesAt
                            <8> QED BY <1>1, <6>2, <8>1, <8>2
                        <7> DEFINE l == Len(written)
                                   e == g[i]
                        <7>4. i \in Nat
                            BY ONLY <4>4, <6>2
                        <7>2. l \in Nat /\ e \in Nat /\ e <= l /\ q > l
                            BY <1>3, <3>2, <5>1, <6>2, <7>1, <7>4
                        <7> HIDE DEF l, e
                        <7>3. e < q
                            BY ONLY <4>1, <7>2
                        <7> QED BY <1>1, <6>2, <7>3 DEF e
                    <6> QED BY <1>1, <6>1, <6>2
                <5>3. sent'[o + 1] = p /\ o + 1 \in 1..o + 1
                    BY <1>1
                <5> QED BY <3>1, <5>1, <5>2, <5>3 DEF CellOf
            <4> QED BY <4>2, <4>3
        <3>9. LaidOut(g)'
            <4>1. ~(Len(delivered) > o + 1)
                BY <1>1, <1>3, <3>8
            <4> QED BY <1>1, <3>1, <3>6, <3>7, <3>8, <3>10, <4>1 DEF LaidOut
        <3> QED BY <3>9
    <2> QED BY <1>8, <1>9, <2>1, <2>2
<1> QED
    BY <1>4, <1>7 DEF FrameInv

(* The message of a block that has the length it says. *)
LEMMA DeserialOne ==
    ASSUME NEW b \in Seq(Cell), Len(b) = HeadLen(b), Len(b) >= HeaderSize
    PROVE  Deserial(b) = <<[header |-> First(b, HeaderSize), data |-> Drop(b, HeaderSize)]>>
<1>1. ~(Len(b) < HeaderSize) /\ Len(b) = HeaderSize + SizeField(b)
    BY SizesAssumption, LenProperties DEF HeadLen
<1> QED
    BY <1>1 DEF Deserial, First, Drop

(* What Extract takes from the head of the accumulator is one message.      *)
LEMMA ExtractIs ==
    ASSUME TypeOK, Extract, NEW n, n = HeadLen(acc)
    PROVE  /\ n \in 1..Len(acc) /\ n >= HeaderSize
           /\ taken' = taken \o First(acc, n) /\ First(acc, n) \in Seq(Cell)
           /\ Len(First(acc, n)) = n /\ \A j \in 1..n : First(acc, n)[j] = acc[j]
           /\ delivered' = Append(delivered, [header |-> First(First(acc, n), HeaderSize),
                                              data |-> Drop(First(acc, n), HeaderSize)])
           /\ UNCHANGED <<sent, writeq, cutAt, written>>
<1> DEFINE b == First(acc, n)
<1>1. /\ HoldsPacket(acc) /\ delivered' = delivered \o Deserial(b) /\ taken' = taken \o b
      /\ UNCHANGED <<sent, writeq, cutAt, written>>
    BY DEF Extract
<1>2. acc \in Seq(Cell) /\ Len(acc) \in Nat /\ noise \in Nat /\ delivered \in Seq(Message)
    BY LenProperties DEF TypeOK
<1>3. n \in 0..Len(acc) /\ SizeField(acc) \in Nat
    BY <1>1, <1>2, HeadLenType, SizeType DEF HoldsPacket
<1>4. n = HeaderSize + SizeField(acc) /\ HeaderSize \in Nat /\ HeaderSize >= 1
    BY SizesAssumption DEF HeadLen
<1>5. n \in 1..Len(acc) /\ n >= HeaderSize
    BY <1>3, <1>4
<1>6. b \in Seq(Cell) /\ Len(b) = n /\ \A j \in 1..n : b[j] = acc[j]
    <2>1. b \in Seq(Cell) /\ Len(b) = n
        BY <1>2, <1>3, Parts
    <2>2. \A j \in 1..n : acc[j] \in Cell
        BY <1>2, <1>3, ElementOfSeq
    <2>3. \A j \in 1..n : b[j] = acc[j]
        BY <1>3, <2>2, SubSeqProperties DEF First
    <2> QED BY <2>1, <2>3
<1> HIDE DEF b
<1>7. b[HeaderSize] = acc[HeaderSize]
    BY <1>4, <1>5, <1>6
<1>8. HeadLen(b) = n
    BY <1>4, <1>7 DEF HeadLen, SizeField
<1> DEFINE e == [header |-> First(b, HeaderSize), data |-> Drop(b, HeaderSize)]
<1>9. Deserial(b) = <<e>>
    BY <1>5, <1>6, <1>8, DeserialOne
<1>10. e \in Message
    <2>1. HeaderSize \in 0..Len(b)
        BY <1>4, <1>5, <1>6
    <2>2. First(b, HeaderSize) \in Seq(Cell) /\ Drop(b, HeaderSize) \in Seq(Cell)
        BY <1>6, <2>1, Parts
    <2> QED BY <2>2 DEF Message
<1> HIDE DEF e
<1>11. delivered' = Append(delivered, e)
    BY <1>1, <1>2, <1>9, <1>10
<1> QED
    BY <1>1, <1>5, <1>6, <1>11 DEF b, e

(* The accumulator holds the part of the stream behind what was taken.      *)
LEMMA AccumulatorIs ==
    ASSUME TypeOK, StreamKept, reader # "closed"
    PROVE  /\ Len(taken) \in Nat /\ Len(acc) \in Nat /\ Len(written) \in Nat
           /\ Len(taken) + Len(acc) <= Len(written)
           /\ \A j \in 1..Len(acc) : acc[j] = written[Len(taken) + j]
<1> DEFINE r == got \o wire
           t == acc \o r
<1>1. /\ taken \in Seq(Cell) /\ acc \in Seq(Cell) /\ written \in Seq(Cell)
      /\ r \in Seq(Cell) /\ written = taken \o t
    BY Joined DEF TypeOK, StreamKept
<1> HIDE DEF r
<1>2. /\ t \in Seq(Cell) /\ Len(t) = Len(acc) + Len(r)
      /\ \A j \in 1..Len(acc) + Len(r) : t[j] = IF j <= Len(acc) THEN acc[j]
                                                                 ELSE r[j - Len(acc)]
    BY <1>1, ConcatProperties
<1> HIDE DEF t
<1>3. /\ Len(written) = Len(taken) + Len(t)
      /\ \A j \in 1..Len(taken) + Len(t) : written[j] = IF j <= Len(taken) THEN taken[j]
                                                        ELSE t[j - Len(taken)]
    BY <1>1, <1>2, ConcatProperties
<1>4. Len(taken) \in Nat /\ Len(acc) \in Nat /\ Len(r) \in Nat
    BY <1>1, LenProperties
<1>5. Len(written) \in Nat /\ Len(taken) + Len(acc) <= Len(written)
    BY <1>2, <1>3, <1>4
<1>6. \A j \in 1..Len(acc) : acc[j] = written[Len(taken) + j]
    BY <1>2, <1>3, <1>4
<1> QED
    BY <1>4, <1>5, <1>6

(* While no packet cut short is next, Extract hands out the next message.   *)
LEMMA ExtractsNext ==
    ASSUME TypeOK, StreamKept, FrameInv, Extract,
           NEW d, d = Len(delivered), NEW w, w = Whole, d < w,
           NEW f \in [Nat -> Nat], LaidOut(f), NEW p, p = sent[d + 1]
    PROVE  /\ d + 1 \in 1..Len(sent) /\ delivered' = Append(delivered, Meant(p))
           /\ Len(taken') = f[d + 1]
<1>1. d \in Nat /\ w \in Nat /\ d + 1 \in 1..w /\ d + 1 \in 1..Len(sent)
    <2>1. d \in Nat /\ w \in Nat /\ w <= Out /\ Out \in Nat /\ Len(sent) \in Nat
          /\ Out <= Len(sent)
        BY Counts
    <2> DEFINE l == Len(sent)
    <2>2. w <= l /\ l \in Nat
        BY <2>1
    <2> HIDE DEF l
    <2>3. d + 1 \in 1..w /\ d + 1 \in 1..l
        BY ONLY <2>1, <2>2, d < w
    <2> QED BY <2>1, <2>3 DEF l
<1>2. p \in Packets
    BY <1>1, Counts
<1>3. /\ Size(p) \in Nat /\ Size(p) >= HeaderSize /\ Len(Block(p)) = Size(p)
      /\ Block(p) \in Seq(Cell) /\ HeaderSize \in Nat /\ HeaderSize >= 1
      /\ \A j \in 1..Size(p) : Block(p)[j] = [pkt |-> p, i |-> j]
    <2>1. HeaderSize \in Nat /\ HeaderSize >= 1
        BY SizesAssumption
    <2> QED BY <1>2, <2>1, BlockIs
<1>4. /\ f[d + 1] = f[d] + Size(p) /\ Len(taken) = f[d]
      /\ \A j \in 1..Size(p) : written[f[d] + j] = Block(p)[j]
    <2>1. LiesAt(f, d + 1)
        BY <1>1 DEF LaidOut
    <2>2. ASSUME NEW k, k = d + 1
          PROVE  /\ f[k] = f[d] + Size(p)
                 /\ \A j \in 1..Size(p) : written[f[d] + j] = Block(p)[j]
        <3>1. LiesAt(f, k) /\ sent[k] = p
            BY <2>1, <2>2
        <3>2. k - 1 = d
            BY ONLY <1>1, <2>2
        <3> QED BY <3>1, <3>2 DEF LiesAt
    <2>3. Len(taken) = f[d]
        BY <1>1 DEF LaidOut
    <2> QED BY <2>2, <2>3
<1>5. /\ Len(acc) \in Nat /\ \A j \in 1..Len(acc) : acc[j] = written[f[d] + j]
    BY <1>4, AccumulatorIs DEF Extract
<1> DEFINE n == HeadLen(acc)
           b == First(acc, n)
<1>6. /\ n \in 1..Len(acc) /\ n >= HeaderSize /\ b \in Seq(Cell) /\ Len(b) = n
      /\ taken' = taken \o b /\ \A j \in 1..n : b[j] = acc[j]
      /\ delivered' = Append(delivered, [header |-> First(b, HeaderSize),
                                         data |-> Drop(b, HeaderSize)])
    BY ExtractIs
<1>7. n = Size(p)
    <2>1. HeaderSize \in 1..Len(acc) /\ HeaderSize \in 1..Size(p)
        BY <1>3, <1>5, <1>6
    <2>2. acc[HeaderSize] = [pkt |-> p, i |-> HeaderSize]
        BY <1>3, <1>4, <1>5, <2>1
    <2>3. SizeField(acc) = Payload[p]
        BY <2>2 DEF SizeField
    <2> QED BY <2>3 DEF HeadLen, Size
<1> HIDE DEF n
<1> HIDE DEF b
<1>8. b = Block(p)
    <2>1. ASSUME NEW j \in 1..n PROVE b[j] = Block(p)[j]
        <3>1. j \in 1..Len(acc) /\ j \in 1..Size(p)
            BY <1>5, <1>6, <1>7
        <3>2. b[j] = acc[j] /\ acc[j] = written[f[d] + j]
            BY <1>5, <1>6, <3>1
        <3> QED BY <1>4, <3>1, <3>2
    <2> QED BY <1>3, <1>6, <1>7, <2>1, SeqEqual
<1>9. delivered' = Append(delivered, Meant(p))
    BY <1>6, <1>8 DEF Meant
<1>10. Len(taken') = f[d + 1]
    <2>1. taken \in Seq(Cell)
        BY DEF TypeOK
    <2>2. Len(taken') = Len(taken) + n
        BY <1>6, <2>1, ConcatProperties
    <2> QED BY <1>4, <1>7, <2>2
<1> QED
    BY <1>1, <1>9, <1>10

(* Behind the last whole block there is a packet cut short, or nothing.     *)
LEMMA ExtractsLast ==
    ASSUME TypeOK, StreamKept, FrameInv, Extract,
           NEW d, d = Len(delivered), NEW w, w = Whole, ~(d < w)
    PROVE  /\ cutAt # 0 /\ \E e \in Message : delivered' = Append(delivered, e)
<1>1. d \in Nat /\ w \in Nat
    BY Counts
<1> DEFINE n == HeadLen(acc)
           b == First(acc, n)
           e == [header |-> First(b, HeaderSize), data |-> Drop(b, HeaderSize)]
<1>2. /\ n \in 1..Len(acc) /\ n >= HeaderSize /\ b \in Seq(Cell) /\ Len(b) = n
      /\ delivered' = Append(delivered, e)
    BY ExtractIs
<1> HIDE DEF b, n
<1>3. e \in Message
    <2>1. HeaderSize \in 0..Len(b)
        BY <1>2, SizesAssumption
    <2>2. First(b, HeaderSize) \in Seq(Cell) /\ Drop(b, HeaderSize) \in Seq(Cell)
        BY <1>2, <2>1, Parts
    <2> QED BY <2>2 DEF Message
<1>4. cutAt # 0
    <2> SUFFICES ASSUME cutAt = 0 PROVE FALSE
        OBVIOUS
    <2>1. PICK f \in [Nat -> Nat] : LaidOut(f)
        BY DEF FrameInv
    <2>2. d <= w /\ Len(taken) = f[d] /\ Len(written) = f[w]
        BY <2>1 DEF LaidOut
    <2>3. d = w
        BY <1>1, <2>2
    <2>4. /\ Len(taken) \in Nat /\ Len(acc) \in Nat /\ Len(written) \in Nat
          /\ Len(taken) + Len(acc) <= Len(written)
        BY AccumulatorIs DEF Extract
    <2>5. Len(acc) = 0
        BY <2>2, <2>3, <2>4
    <2> QED BY <1>2, <2>5
<1> QED
    BY <1>2, <1>3, <1>4

LEMMA MeantType == \A p \in Packets : Meant(p) \in Message
<1> SUFFICES ASSUME NEW p \in Packets PROVE Meant(p) \in Message
    OBVIOUS
<1>1. Block(p) \in Seq(Cell) /\ HeaderSize \in 0..Len(Block(p))
    BY BlockIs, SizesAssumption
<1>2. First(Block(p), HeaderSize) \in Seq(Cell) /\ Drop(Block(p), HeaderSize) \in Seq(Cell)
    BY <1>1, Parts
<1> QED
    BY <1>2 DEF Meant, Message

LEMMA FrameExtract ==
    ASSUME TypeOK, StreamKept, FrameInv, Extract
    PROVE  FrameInv'
<1> SUFFICES ASSUME NEW d, d = Len(delivered), NEW w, w = Whole PROVE FrameInv'
    OBVIOUS
<1>1. UNCHANGED <<sent, writeq, cutAt, written>>
    BY DEF Extract
<1>2. Out' = Out /\ Whole' = w /\ QueuedIsSent' = QueuedIsSent
    BY <1>1 DEF Out, Whole, QueuedIsSent
<1>3. QueueKept'
    BY <1>1, <1>2 DEF FrameInv, QueueKept
<1>4. d \in Nat /\ w \in Nat /\ delivered \in Seq(Message)
    BY Counts DEF TypeOK
<1>5. PICK f \in [Nat -> Nat] : LaidOut(f)
    BY DEF FrameInv
<1>6. f[0] = 0 /\ (\A i \in 1..w : LiesAt(f, i)) /\ (cutAt = 0 => Len(written) = f[w])
    BY <1>5 DEF LaidOut
<1>7. \A i \in 1..w : LiesAt(f, i)'
    BY <1>1, <1>6 DEF LiesAt
<1>10. (\A q \in 1..Len(written) : \E n \in 1..Out : CellOf(f, q, n))'
    <2>1. \A q \in 1..Len(written) : \E n \in 1..Out : CellOf(f, q, n)
        BY <1>5 DEF LaidOut
    <2> QED BY <1>1, <1>2, <2>1 DEF CellOf
<1>8. CASE d < w
    <2> DEFINE e == Meant(sent[d + 1])
    <2>1. delivered' = Append(delivered, e) /\ Len(taken') = f[d + 1]
        BY <1>5, <1>8, ExtractsNext
    <2>2. d + 1 \in 1..Len(sent)
        BY <1>5, <1>8, ExtractsNext
    <2>3. e \in Message
        <3>1. sent[d + 1] \in Packets
            BY <2>2, Counts
        <3> QED BY <3>1, MeantType
    <2> HIDE DEF e
    <2>4. Len(delivered') = d + 1
        BY <1>4, <2>1, <2>3
    <2>5. d + 1 <= w /\ ~(d + 1 > w)
        BY ONLY <1>4, <1>8
    <2>6. LaidOut(f)'
        BY <1>1, <1>2, <1>6, <1>7, <1>10, <2>1, <2>4, <2>5 DEF LaidOut
    <2> QED BY <1>3, <2>6 DEF FrameInv
<1>9. CASE ~(d < w)
    <2>1. cutAt # 0
        BY <1>9, ExtractsLast
    <2>2. PICK e \in Message : delivered' = Append(delivered, e)
        BY <1>9, ExtractsLast
    <2>3. Len(delivered') = d + 1
        BY <1>4, <2>2
    <2>4. ~(d + 1 <= w)
        BY ONLY <1>4, <1>9
    <2>6. Len(taken') >= f[w]
        <3>1. d = w \/ d > w
            BY ONLY <1>4, <1>9
        <3>2. Len(taken) >= f[w] /\ f[w] \in Nat /\ Len(taken) \in Nat
            <4>1. Len(taken) \in Nat /\ f[w] \in Nat
                BY <1>4, Counts
            <4>2. CASE d = w
                <5>1. Len(taken) = f[w]
                    BY <1>4, <1>5, <4>2 DEF LaidOut
                <5> QED BY <4>1, <5>1
            <4>3. CASE d > w
                BY <1>5, <4>1, <4>3 DEF LaidOut
            <4> QED BY <3>1, <4>2, <4>3
        <3>3. PICK n \in Nat : Len(taken') = Len(taken) + n
            <4> SUFFICES ASSUME NEW n, n = HeadLen(acc)
                         PROVE  \E k \in Nat : Len(taken') = Len(taken) + k
                OBVIOUS
            <4>1. /\ taken' = taken \o First(acc, n) /\ First(acc, n) \in Seq(Cell)
                  /\ Len(First(acc, n)) = n
                BY ExtractIs
            <4>2. taken \in Seq(Cell)
                BY DEF TypeOK
            <4> DEFINE b == First(acc, n)
            <4> HIDE DEF b
            <4>3. Len(taken') = Len(taken) + Len(b) /\ Len(b) \in Nat
                BY <4>1, <4>2, ConcatProperties, LenProperties DEF b
            <4> QED BY <4>3
        <3> DEFINE t == Len(taken)
                   c == f[w]
        <3>4. t \in Nat /\ c \in Nat /\ t >= c /\ n \in Nat
            BY <3>2
        <3> HIDE DEF t, c
        <3>5. t + n >= c
            BY ONLY <3>4
        <3> QED BY <3>3, <3>5 DEF t, c
    <2>5. LaidOut(f)'
        BY <1>1, <1>2, <1>6, <1>7, <1>10, <2>1, <2>3, <2>4, <2>6 DEF LaidOut
    <2> QED BY <1>3, <2>5 DEF FrameInv
<1> QED
    BY <1>8, <1>9

(* The stream loses s, l cells after the first k, and closes up.            *)
Closes(k, l, s) == /\ k \in Nat /\ l \in Nat /\ Len(written') \in Nat /\ Len(written') >= k
                   /\ Len(written) = Len(written') + l
                   /\ \A q \in 1..k : written'[q] = written[q]
                   /\ \A q \in k + 1..Len(written') : written'[q] = written[q + l]
                   /\ s # <<>> => l >= 1 /\ written[k + 1] = s[1]
                   /\ s = <<>> => written' = written

LEMMA LoseCells ==
    ASSUME NEW a \in Seq(Cell), NEW s \in Seq(Cell), NEW b \in Seq(Cell),
           written = a \o (s \o b), Lose(Len(a), s)
    PROVE  Closes(Len(a), Len(s), s)
<1> SUFFICES ASSUME NEW k, k = Len(a), NEW l, l = Len(s) PROVE Closes(k, l, s)
    OBVIOUS
<1> DEFINE t == s \o b
           m == Len(b)
           u == a \o b
<1>1. k \in Nat /\ l \in Nat /\ m \in Nat
    BY LenProperties
<1>2. /\ t \in Seq(Cell) /\ Len(t) = l + m
      /\ \A q \in 1..l + m : t[q] = IF q <= l THEN s[q] ELSE b[q - l]
    BY ConcatProperties
<1>3. /\ u \in Seq(Cell) /\ Len(u) = k + m
      /\ \A q \in 1..k + m : u[q] = IF q <= k THEN a[q] ELSE b[q - k]
    BY ConcatProperties
<1>4. written = a \o t /\ written' = u
    BY LoseIs
<1>5. s = <<>> => t = b
    BY ConcatEmptySeq
<1> HIDE DEF t, u
<1> HIDE DEF m
<1>6. /\ Len(written) = k + (l + m)
      /\ \A q \in 1..k + (l + m) : written[q] = IF q <= k THEN a[q] ELSE t[q - k]
    <2>1. /\ Len(a \o t) = Len(a) + Len(t)
          /\ \A q \in 1..Len(a) + Len(t) :
                (a \o t)[q] = IF q <= Len(a) THEN a[q] ELSE t[q - Len(a)]
        BY <1>2, ConcatProperties
    <2>2. Len(a) + Len(t) = k + (l + m)
        BY <1>2
    <2> QED BY <1>4, <2>1, <2>2, Zenon
<1>7. ASSUME NEW q \in 1..k PROVE written'[q] = written[q]
    <2>1. q \in 1..k + m /\ q \in 1..k + (l + m) /\ q <= k
        BY ONLY <1>1
    <2> QED BY <1>3, <1>4, <1>6, <2>1
<1>8. ASSUME NEW q \in k + 1..k + m PROVE written'[q] = written[q + l]
    <2>1. /\ q \in 1..k + m /\ q + l \in 1..k + (l + m) /\ ~(q <= k) /\ ~(q + l <= k)
          /\ q + l - k \in 1..l + m /\ ~(q + l - k <= l) /\ (q + l - k) - l = q - k
        BY ONLY <1>1
    <2>2. written'[q] = b[q - k]
        BY <1>3, <1>4, <2>1
    <2>3. written[q + l] = t[q + l - k]
        BY <1>6, <2>1
    <2>4. t[q + l - k] = b[(q + l - k) - l]
        BY <1>2, <2>1
    <2> QED BY <2>1, <2>2, <2>3, <2>4
<1>9. ASSUME s # <<>> PROVE l >= 1 /\ written[k + 1] = s[1]
    <2>1. l >= 1
        BY <1>1, <1>9, EmptySeq
    <2>2. /\ k + 1 \in 1..k + (l + m) /\ ~(k + 1 <= k) /\ (k + 1) - k = 1
          /\ 1 \in 1..l + m /\ 1 <= l
        BY ONLY <1>1, <2>1
    <2> QED BY <1>2, <1>6, <2>1, <2>2
<1>10. ASSUME s = <<>> PROVE written' = written
    BY <1>4, <1>5, <1>10 DEF u, t
<1>11. Len(written') = k + m
    BY <1>3, <1>4
<1>12. /\ k + m \in Nat /\ k + m >= k /\ k + (l + m) = k + m + l
    BY ONLY <1>1
<1> QED
    BY <1>1, <1>6, <1>7, <1>8, <1>9, <1>10, <1>11, <1>12 DEF Closes

(* A cell of packet n is lost from a stream with o packets, the first w of  *)
(* them whole, of which d have been handed out; c was the first cut, x is.  *)
LosesOne(d, w, o, n, c, x) ==
    /\ d \in Nat /\ w \in Nat /\ o \in Nat /\ n \in Nat /\ c \in Nat
    /\ x = IF c = 0 \/ n < c THEN n ELSE c
    /\ n \in 1..o /\ w <= o /\ c <= o
    /\ d <= w => d < n
    /\ d > w => w < n
    /\ c = 0 => w = o /\ d <= w
    /\ c # 0 => w = c - 1

CutBefore(d, w, o, n, c, x) ==
    /\ x \in 1..o
    /\ x = c \/ (x \in d + 1..o /\ (c = 0 \/ x < c))
    /\ x - 1 \in Nat /\ x - 1 <= w /\ x # 0 /\ (d > x - 1 => x - 1 = w)
    /\ \A i \in 0..x - 1 : i \in Nat /\ i \in 0..w /\ i < n

LEMMA CutNumbers ==
    ASSUME NEW d, NEW w, NEW o, NEW n, NEW c, NEW x, LosesOne(d, w, o, n, c, x)
    PROVE  CutBefore(d, w, o, n, c, x)
<1> USE DEF LosesOne, CutBefore
<1>1. CASE c = 0 \/ n < c
    <2>1. x = n
        BY <1>1
    <2>2. d < n /\ n - 1 <= w
        BY <1>1
    <2> QED BY <1>1, <2>1, <2>2
<1>2. CASE ~(c = 0 \/ n < c)
    <2>1. x = c
        BY <1>2
    <2>2. w = c - 1 /\ w < n
        BY <1>2
    <2> QED BY <1>2, <2>1, <2>2
<1> QED
    BY <1>1, <1>2

(* Cells that are lost cut the stream in front of the packet of the first,  *)
(* which has not been handed out: the packets before it stay where they are.*)
LEMMA FrameLose ==
    ASSUME TypeOK, FrameInv, NEW a \in Seq(Cell), NEW s \in Seq(Cell), NEW b \in Seq(Cell),
           written = a \o (s \o b), Lose(Len(a), s), Len(taken) <= Len(a),
           UNCHANGED <<sent, writeq, delivered, taken>>
    PROVE  /\ FrameInv'
           /\ \/ cutAt' = cutAt
              \/ cutAt' \in Len(delivered) + 1..Out /\ (cutAt = 0 \/ cutAt' < cutAt)
<1> SUFFICES ASSUME NEW k, k = Len(a), NEW l, l = Len(s), NEW d, d = Len(delivered),
                    NEW w, w = Whole, NEW o, o = Out, NEW e, e = Len(taken)
             PROVE  /\ FrameInv'
                    /\ \/ cutAt' = cutAt
                       \/ cutAt' \in d + 1..o /\ (cutAt = 0 \/ cutAt' < cutAt)
    OBVIOUS
<1>1. /\ k \in Nat /\ l \in Nat /\ Len(written') \in Nat /\ Len(written') >= k
      /\ Len(written) = Len(written') + l
      /\ \A q \in 1..k : written'[q] = written[q]
      /\ \A q \in k + 1..Len(written') : written'[q] = written[q + l]
      /\ s # <<>> => l >= 1 /\ written[k + 1] = s[1]
      /\ s = <<>> => written' = written
    <2>1. Closes(Len(a), Len(s), s)
        BY LoseCells
    <2>2. Closes(k, l, s)
        BY <2>1
    <2> QED BY ONLY <2>2, Zenon DEF Closes
<1>2. /\ d \in Nat /\ w \in Nat /\ o \in Nat /\ w <= o /\ e \in Nat /\ cutAt \in Nat
      /\ e <= k /\ Len(sent) \in Nat /\ o <= Len(sent)
    BY Counts
<1>5. /\ k \in Nat /\ l \in Nat /\ d \in Nat /\ w \in Nat /\ o \in Nat /\ e \in Nat
      /\ cutAt \in Nat /\ w <= o /\ e <= k
    BY <1>1, <1>2
<1>6. \A c, q \in Nat : c <= k /\ ~(q <= k) => c < q /\ c < q + l
    BY ONLY <1>5
<1>3. CASE s = <<>>
    <2>1. written' = written /\ cutAt' = cutAt
        BY <1>1, <1>3 DEF Lose
    <2> QED BY <2>1, FrameSame
<1>4. CASE s # <<>>
    <2>1. PICK f \in [Nat -> Nat] : LaidOut(f)
        BY DEF FrameInv
    <2>2. PICK n \in DOMAIN sent : /\ sent[n] = s[1].pkt
                                   /\ cutAt' = IF cutAt = 0 \/ n < cutAt THEN n ELSE cutAt
        BY <1>4 DEF Lose
    <2>3. n \in Nat /\ n \in 1..o /\ CellOf(f, k + 1, n)
        <3>1. k + 1 \in 1..Len(written)
            <4> DEFINE h == Len(written')
            <4>1. h \in Nat /\ h >= k /\ Len(written) = h + l /\ l >= 1
                BY <1>1, <1>4
            <4> HIDE DEF h
            <4>2. k + 1 \in 1..h + l
                BY ONLY <1>5, <4>1
            <4> QED BY <4>1, <4>2
        <3>2. PICK j \in 1..o : CellOf(f, k + 1, j)
            BY <2>1, <3>1 DEF LaidOut
        <3>3. sent[j] = sent[n]
            BY <1>1, <1>4, <2>2, <3>2 DEF CellOf
        <3>4. n \in 1..Len(sent)
            BY <2>2, LenProperties DEF TypeOK
        <3>5. j \in 1..Len(sent)
            <4> DEFINE h == Len(sent)
            <4>1. h \in Nat /\ o <= h
                BY <1>2
            <4> HIDE DEF h
            <4>2. j \in 1..h
                BY ONLY <1>2, <4>1, j \in 1..o
            <4> QED BY <4>2 DEF h
        <3>6. j = n
            BY <3>3, <3>4, <3>5 DEF FrameInv, QueueKept
        <3> QED BY <1>2, <3>2, <3>6
    <2>4. \A i \in 0..w : f[i] < k + 1 <=> i < n
        BY <2>3 DEF CellOf
    <2>5. \A i \in 0..w : f[i] \in Nat
        BY ONLY <1>5, f \in [Nat -> Nat]
    <2>6. d <= w => d < n
        <3> SUFFICES ASSUME d <= w PROVE d < n
            OBVIOUS
        <3>1. e = f[d] /\ d \in 0..w
            BY <1>2, <2>1 DEF LaidOut
        <3>2. e < k + 1
            BY ONLY <1>5
        <3> QED BY <2>4, <3>1, <3>2
    <2>7. d > w => w < n
        <3> SUFFICES ASSUME d > w PROVE w < n
            OBVIOUS
        <3>1. e >= f[w] /\ w \in 0..w /\ f[w] \in Nat
            BY <1>2, <2>1 DEF LaidOut
        <3> DEFINE c == f[w]
        <3>2. c \in Nat /\ e >= c
            BY <3>1
        <3> HIDE DEF c
        <3>3. c < k + 1
            BY ONLY <1>5, <3>2
        <3> QED BY <2>4, <3>1, <3>3 DEF c
    <2>8. /\ cutAt = 0 => w = o /\ d <= w
          /\ cutAt # 0 => w = cutAt - 1
          /\ cutAt <= o
        BY <1>2, <2>1 DEF Whole, LaidOut, FrameInv, QueueKept
    <2> DEFINE v == cutAt' - 1
    <2>9. /\ cutAt' \in 1..o
          /\ cutAt' = cutAt \/ (cutAt' \in d + 1..o /\ (cutAt = 0 \/ cutAt' < cutAt))
          /\ v \in Nat /\ v <= w /\ cutAt' # 0 /\ (d > v => v = w)
          /\ \A i \in 0..v : i \in Nat /\ i \in 0..w /\ i < n
        <3>1. cutAt' = IF cutAt = 0 \/ n < cutAt THEN n ELSE cutAt
            BY <2>2
        <3>2. n \in Nat /\ n \in 1..o
            BY <2>3
        <3>3. LosesOne(d, w, o, n, cutAt, cutAt')
            BY ONLY <1>5, <2>6, <2>7, <2>8, <3>1, <3>2, Zenon DEF LosesOne
        <3>4. CutBefore(d, w, o, n, cutAt, cutAt')
            BY ONLY <3>3, CutNumbers, Zenon
        <3> QED BY ONLY <3>4, Zenon DEF CutBefore
    <2>11. Whole' = v /\ Out' = o
        BY <2>9 DEF Whole, Out
    <2> HIDE DEF v
    <2>12. QueueKept'
        <3>1. cutAt' <= o
            BY <1>2, <2>9
        <3> QED BY <2>11, <3>1 DEF FrameInv, QueueKept, QueuedIsSent
    <2>13. ASSUME NEW i \in 0..v PROVE i \in 0..w /\ i \in Nat /\ f[i] \in Nat /\ f[i] <= k /\ i < n
        <3>1. i \in 0..w /\ i < n /\ i \in Nat
            BY <2>9
        <3> DEFINE c == f[i]
        <3>2. c \in Nat /\ c < k + 1
            BY <2>4, <2>5, <3>1
        <3> HIDE DEF c
        <3>3. c <= k
            BY ONLY <1>1, <3>2
        <3> QED BY <3>1, <3>2, <3>3 DEF c
    <2>14. ASSUME NEW i \in 1..v PROVE LiesAt(f, i)'
        <3>1. i \in 0..v /\ i \in 1..w /\ i >= 1 /\ i \in Nat /\ i \in 1..o
            BY ONLY <1>5, <2>9
        <3>2. f[i] <= k /\ LiesAt(f, i)
            BY <2>1, <2>13, <3>1 DEF LaidOut
        <3>3. sent[i] \in Packets
            <4>1. i \in 1..Len(sent)
                <5> DEFINE h == Len(sent)
                <5>1. h \in Nat /\ o <= h
                    BY <1>2
                <5> HIDE DEF h
                <5>2. i \in 1..h
                    BY ONLY <1>2, <3>1, <5>1
                <5> QED BY <5>2 DEF h
            <4> QED BY <4>1, Counts
        <3> QED BY <1>1, <3>1, <3>2, <3>3, LiesStill
    <2>15. ASSUME NEW q \in 1..Len(written') PROVE \E j \in 1..o : CellOf(f, q, j)'
        <3> DEFINE h == Len(written')
        <3>1. h \in Nat /\ Len(written) = h + l /\ q \in 1..h
            BY <1>1
        <3> HIDE DEF h
        <3>2. CASE q <= k
            <4>1. q \in 1..Len(written) /\ q \in 1..k
                BY <1>1, <3>1, <3>2
            <4>2. PICK j \in 1..o : CellOf(f, q, j)
                BY <2>1, <4>1 DEF LaidOut
            <4>3. CellOf(f, q, j)'
                BY <1>1, <2>11, <2>13, <4>1, <4>2 DEF CellOf
            <4> QED BY <4>3
        <3>3. CASE ~(q <= k)
            <4>1. q + l \in 1..Len(written) /\ q \in k + 1..h /\ q \in Nat
                <5>1. q + l \in 1..h + l /\ q \in k + 1..h /\ q \in Nat
                    <6>1. h \in Nat /\ q \in 1..h
                        BY <3>1
                    <6> QED BY ONLY <1>5, <3>3, <6>1
                <5> QED BY <3>1, <5>1
            <4>2. PICK j \in 1..o : CellOf(f, q + l, j)
                BY <2>1, <4>1 DEF LaidOut
            <4>3. sent'[j] = written'[q].pkt
                BY <1>1, <4>1, <4>2 DEF CellOf, h
            <4>4. ASSUME NEW i \in 0..v PROVE f[i] < q /\ i < j
                <5>1. f[i] < q + l <=> i < j
                    BY <2>13, <4>2 DEF CellOf
                <5> DEFINE c == f[i]
                <5>2. c \in Nat /\ c <= k
                    BY <2>13
                <5> HIDE DEF c
                <5>3. c < q /\ c < q + l
                    BY <1>6, <3>3, <4>1, <5>2
                <5> QED BY <5>1, <5>3 DEF c
            <4> QED BY <2>11, <4>3, <4>4 DEF CellOf
        <3> QED BY <3>2, <3>3
    <2>16. /\ d <= v => e = f[d]
           /\ d > v => e >= f[v]
        <3>1. d <= v => d <= w
            BY ONLY <1>5, <2>9
        <3>2. d > v => d > w /\ v = w
            BY <2>9
        <3> QED BY <2>1, <3>1, <3>2 DEF LaidOut
    <2>17. LaidOut(f)'
        BY <2>1, <2>9, <2>11, <2>14, <2>15, <2>16 DEF LaidOut
    <2> QED BY <2>9, <2>12, <2>17 DEF FrameInv
<1> QED
    BY <1>3, <1>4

(* What each step that loses cells loses, and what it keeps in front.       *)
LEMMA LosesIs ==
    ASSUME TypeOK, StreamKept, ReadDropped \/ ResetKept \/ AppendDropped
    PROVE  /\ UNCHANGED <<sent, writeq, delivered, taken>>
           /\ \E a, s, b \in Seq(Cell) :
                 /\ written = a \o (s \o b) /\ Lose(Len(a), s)
                 /\ Len(taken) <= Len(a)
<1>1. /\ UNCHANGED <<sent, writeq, delivered, taken>> /\ reader # "closed"
    BY DEF ReadDropped, ResetKept, AppendDropped
<1>2. /\ taken \in Seq(Cell) /\ acc \in Seq(Cell) /\ got \in Seq(Cell) /\ wire \in Seq(Cell)
      /\ <<>> \in Seq(Cell) /\ acc \o got \in Seq(Cell)
    BY ConcatProperties DEF TypeOK
<1>3. \A x \in Seq(Cell) : taken \o x \in Seq(Cell) /\ Len(taken) <= Len(taken \o x)
    BY <1>2, ConcatProperties, LenProperties
<1>4. CASE ReadDropped
    <2>1. Lose(Len(taken \o (acc \o got)), Chunk)
        BY <1>4 DEF ReadDropped
    <2>2. /\ Chunk \in Seq(Cell) /\ Drop(wire, Len(Chunk)) \in Seq(Cell)
          /\ written = (taken \o (acc \o got)) \o (Chunk \o Drop(wire, Len(Chunk)))
        BY <1>1, ReadType, StreamOf
    <2> QED BY <1>1, <1>2, <1>3, <2>1, <2>2
<1>5. CASE ResetKept
    <2>1. Lose(Len(taken \o (acc \o got)), wire)
        BY <1>5 DEF ResetKept
    <2>2. written = (taken \o (acc \o got)) \o (wire \o <<>>)
        BY <1>1, <1>2, StreamOf, ConcatEmptySeq
    <2> QED BY <1>1, <1>2, <1>3, <2>1, <2>2
<1>6. CASE AppendDropped
    <2>1. Lose(Len(taken \o acc), got)
        BY <1>6 DEF AppendDropped
    <2>2. written = (taken \o acc) \o (got \o wire)
        BY <1>1, StreamOf
    <2> QED BY <1>1, <1>2, <1>3, <2>1, <2>2
<1> QED
    BY <1>4, <1>5, <1>6

LEMMA FrameInit == Init => FrameInv
<1> SUFFICES ASSUME Init PROVE FrameInv
    OBVIOUS
<1>1. /\ sent = <<>> /\ writeq = <<>> /\ delivered = <<>> /\ taken = <<>> /\ written = <<>>
      /\ cutAt = 0 /\ Len(<<>>) = 0
    BY EmptySeq DEF Init
<1>7. 1..0 = {}
    OBVIOUS
<1>2. Len(sent) = 0 /\ Len(writeq) = 0 /\ Len(delivered) = 0 /\ Len(taken) = 0
      /\ Len(written) = 0
    BY <1>1
<1>3. Out = 0 /\ Whole = 0
    BY <1>1, <1>2 DEF Out, Whole
<1>4. QueueKept
    BY <1>1, <1>2, <1>3, <1>7 DEF QueueKept, QueuedIsSent
<1> DEFINE f == [i \in Nat |-> 0]
<1>5. f \in [Nat -> Nat] /\ f[0] = 0
    OBVIOUS
<1> HIDE DEF f
<1>6. LaidOut(f)
    BY <1>1, <1>2, <1>3, <1>5, <1>7 DEF LaidOut
<1> QED
    BY <1>4, <1>5, <1>6 DEF FrameInv

LEMMA FrameStep == TypeOK /\ StreamKept /\ FrameInv /\ [Next]_vars => FrameInv'
<1> SUFFICES ASSUME TypeOK, StreamKept, FrameInv, [Next]_vars PROVE FrameInv'
    OBVIOUS
<1>1. ASSUME NEW p \in Packets, Push(p) PROVE FrameInv'
    BY <1>1, FramePush
<1>2. CASE WriteBlock
    BY <1>2, FrameWrite
<1>3. CASE Extract
    BY <1>3, FrameExtract
<1>5. CASE ReadDropped \/ ResetKept \/ AppendDropped
    <2>1. UNCHANGED <<sent, writeq, delivered, taken>>
        BY <1>5, LosesIs
    <2>2. PICK a \in Seq(Cell), s \in Seq(Cell), b \in Seq(Cell) :
              /\ written = a \o (s \o b) /\ Lose(Len(a), s)
              /\ Len(taken) <= Len(a)
        BY <1>5, LosesIs
    <2> QED BY <2>1, <2>2, FrameLose
<1>4. CASE \/ Close \/ ReadSome \/ ReadNoMore \/ ReadEnd \/ Reset \/ AppendRead
           \/ ExtractDone \/ UNCHANGED vars
    <2>1. UNCHANGED <<sent, writeq, cutAt, written, taken, delivered>>
        BY <1>4 DEF Close, ReadSome, ReadNoMore, ReadEnd, Reset, AppendRead, ExtractDone, vars
    <2> QED BY <2>1, FrameSame
<1> QED
    BY <1>1, <1>2, <1>3, <1>4, <1>5, NextCases

LEMMA FrameInvariant == Spec => []FrameInv
BY FramingTypes, StreamIsKept, FrameInit, FrameStep, PTL DEF Spec

-----------------------------------------------------------------------------
(* The messages of the packets sent: what PacketFifo calls sent. *)
Meanings == [i \in DOMAIN sent |-> Meant(sent[i])]

LEMMA MeaningsType ==
    ASSUME NEW s \in Seq(Packets)
    PROVE  LET m == [i \in DOMAIN s |-> Meant(s[i])]
           IN /\ m \in Seq(Message) /\ Len(m) = Len(s) /\ DOMAIN m = 1..Len(s)
              /\ \A i \in 1..Len(s) : m[i] = Meant(s[i])
<1> DEFINE m == [i \in DOMAIN s |-> Meant(s[i])]
<1>1. Len(s) \in Nat /\ DOMAIN s = 1..Len(s) /\ \A i \in 1..Len(s) : s[i] \in Packets
    BY LenProperties, ElementOfSeq
<1>2. m \in [1..Len(s) -> Message]
    BY <1>1, MeantType
<1>3. m \in Seq(Message)
    BY <1>1, <1>2, SeqDef
<1>4. DOMAIN m = 1..Len(s) /\ \A i \in 1..Len(s) : m[i] = Meant(s[i])
    BY <1>1
<1> HIDE DEF m
<1>5. Len(m) = Len(s)
    BY <1>1, <1>3, <1>4, LenProperties
<1> QED
    BY <1>3, <1>4, <1>5 DEF m

LEMMA Longer ==
    ASSUME NEW S, NEW s \in Seq(S), NEW e \in S
    PROVE  /\ Len(Append(s, e)) = Len(s) + 1
           /\ SubSeq(Append(s, e), 1, Len(s)) = s
<1> DEFINE t == Append(s, e)
           u == SubSeq(t, 1, Len(s))
<1>1. /\ Len(s) \in Nat /\ t \in Seq(S) /\ Len(t) = Len(s) + 1
      /\ \A i \in 1..Len(s) : t[i] = s[i]
    BY LenProperties
<1> HIDE DEF t
<1>2. \A i \in 1..Len(s) : t[i] \in S
    BY <1>1, ElementOfSeq
<1>3. u \in Seq(S) /\ Len(u) = Len(s) /\ \A i \in 1..Len(s) : u[i] = t[i]
    BY <1>1, <1>2, SubSeqProperties
<1> HIDE DEF u
<1>4. u = s
    BY <1>1, <1>3, SeqEqual
<1> QED
    BY <1>1, <1>4 DEF t, u

LEMMA FifoInit == Init => Fifo!Init
<1> SUFFICES ASSUME Init PROVE Meanings = <<>> /\ delivered = <<>> /\ cutAt = 0
    BY DEF Fifo!Init, Meanings
<1>1. sent = <<>> /\ delivered = <<>> /\ cutAt = 0 /\ Len(sent) = 0 /\ sent \in Seq(Packets)
    BY EmptySeq DEF Init
<1>2. Meanings \in Seq(Message) /\ Len(Meanings) = 0
    BY <1>1, MeaningsType DEF Meanings
<1>3. Meanings = <<>>
    BY <1>2, EmptySeq
<1> QED
    BY <1>1, <1>3

LEMMA FifoNext ==
    TypeOK /\ StreamKept /\ FrameInv /\ [Next]_vars => [Fifo!Next]_(Fifo!vars)
<1> SUFFICES ASSUME TypeOK, StreamKept, FrameInv, [Next]_vars
             PROVE  Fifo!Next \/ UNCHANGED <<Meanings, delivered, cutAt>>
    BY DEF Fifo!vars, Meanings
<1> SUFFICES ASSUME NEW m, m = Meanings, NEW d, d = Len(delivered), NEW w, w = Whole
             PROVE  Fifo!Next \/ UNCHANGED <<Meanings, delivered, cutAt>>
    OBVIOUS
<1>1. sent \in Seq(Packets) /\ delivered \in Seq(Message)
    BY DEF TypeOK
<1>2. /\ m \in Seq(Message) /\ Len(m) = Len(sent) /\ DOMAIN m = 1..Len(sent)
      /\ \A i \in 1..Len(sent) : m[i] = Meant(sent[i])
    BY <1>1, MeaningsType DEF Meanings
<1>3. d \in Nat /\ w \in Nat /\ cutAt \in Nat /\ Len(sent) \in Nat
    BY Counts
<1>4. CASE UNCHANGED <<sent, delivered, cutAt>>
    BY <1>4 DEF Meanings
<1>5. ASSUME NEW p \in Packets, Push(p) PROVE Fifo!Next
    <2>1. sent' = Append(sent, p) /\ UNCHANGED <<delivered, cutAt>>
        BY <1>5 DEF Push
    <2>2. /\ sent' \in Seq(Packets) /\ Len(sent') = Len(sent) + 1 /\ sent'[Len(sent) + 1] = p
          /\ \A i \in 1..Len(sent) : sent'[i] = sent[i]
        BY <1>1, <2>1
    <2>3. /\ Meanings' \in Seq(Message) /\ Len(Meanings') = Len(sent) + 1
          /\ \A i \in 1..Len(sent) + 1 : Meanings'[i] = Meant(sent'[i])
        BY <2>2, MeaningsType DEF Meanings
    <2> DEFINE e == Meant(p)
               t == Append(m, e)
    <2>4. e \in Message
        BY MeantType
    <2> HIDE DEF e
    <2>5. t \in Seq(Message) /\ Len(t) = Len(sent) + 1 /\ t[Len(sent) + 1] = e
          /\ \A i \in 1..Len(sent) : t[i] = m[i]
        BY <1>2, <2>4
    <2>6. Len(t) = Len(m) + 1 /\ SubSeq(t, 1, Len(m)) = m
        BY <1>2, <2>4, Longer
    <2> HIDE DEF t
    <2>7. \A i \in 1..Len(sent) + 1 : Meanings'[i] = t[i]
        <3> TAKE i \in 1..Len(sent) + 1
        <3>1. CASE i = Len(sent) + 1
            <4>1. Meanings'[i] = Meant(p)
                BY <2>2, <2>3, <3>1
            <4> QED BY <2>5, <3>1, <4>1 DEF e
        <3>2. CASE i # Len(sent) + 1
            <4>1. i \in 1..Len(sent)
                BY <1>3, <3>2
            <4>2. sent'[i] = sent[i]
                BY <2>2, <4>1
            <4> QED BY <1>2, <2>3, <2>5, <4>1, <4>2
        <3> QED BY <3>1, <3>2
    <2>8. Meanings' = t
        BY <2>3, <2>5, <2>7, SeqEqual
    <2>9. /\ Len(Meanings') = Len(Meanings) + 1
          /\ SubSeq(Meanings', 1, Len(Meanings)) = Meanings
        BY <2>6, <2>8
    <2>10. Fifo!Send
        BY <2>1, <2>9 DEF Fifo!Send, Meanings
    <2> QED BY <2>10 DEF Fifo!Next
<1>6. ASSUME WriteBlock, cutAt' # cutAt PROVE Fifo!Next
    <2>1. UNCHANGED <<sent, delivered>>
        BY <1>6 DEF WriteBlock
    <2>2. /\ Out \in Nat /\ Out + 1 <= Len(sent) /\ cutAt = 0 /\ cutAt' = Out + 1
        <3> SUFFICES ASSUME NEW o, o = Out
                     PROVE  o \in Nat /\ o + 1 <= Len(sent) /\ cutAt = 0 /\ cutAt' = o + 1
            OBVIOUS
        <3>1. o \in Nat /\ o + Len(writeq) = Len(sent) /\ Len(writeq) \in Nat \ {0}
            BY <1>6, WriteIs
        <3>2. \E n \in 0..Size(sent[o + 1]) :
                 cutAt' = IF cutAt = 0 /\ n < Size(sent[o + 1]) THEN o + 1 ELSE cutAt
            BY <1>6, WriteIs
        <3>3. cutAt = 0 /\ cutAt' = o + 1
            BY <1>6, <3>2
        <3> QED BY <3>1, <3>3
    <2>3. w = Out
        BY <2>2 DEF Whole
    <2>4. d <= w
        BY <2>2 DEF FrameInv, LaidOut
    <2>5. cutAt' \in d + 1..Len(Meanings)
        BY <1>2, <1>3, <2>2, <2>3, <2>4
    <2>6. Meanings' = Meanings
        BY <2>1 DEF Meanings
    <2>7. Fifo!Cut
        BY <2>1, <2>2, <2>5, <2>6 DEF Fifo!Cut, Meanings
    <2> QED BY <2>7 DEF Fifo!Next
<1>7. ASSUME Extract PROVE Fifo!Next
    <2>1. UNCHANGED <<sent, cutAt>> /\ Meanings' = Meanings
        BY <1>7 DEF Extract, Meanings
    <2>2. CASE d < w
        <3>1. PICK f \in [Nat -> Nat] : LaidOut(f)
            BY DEF FrameInv
        <3>2. d + 1 \in 1..Len(sent) /\ delivered' = Append(delivered, Meant(sent[d + 1]))
            BY <1>7, <2>2, <3>1, ExtractsNext
        <3>3. d + 1 \in DOMAIN m /\ m[d + 1] = Meant(sent[d + 1])
            BY <1>2, <3>2
        <3>4. cutAt = 0 \/ d + 1 < cutAt
            <4>1. cutAt # 0 => w = cutAt - 1
                BY DEF Whole
            <4> QED BY ONLY <1>3, <2>2, <4>1
        <3>5. Fifo!Deliver
            BY <2>1, <3>2, <3>3, <3>4 DEF Fifo!Deliver, Meanings
        <3> QED BY <3>5 DEF Fifo!Next
    <2>3. CASE ~(d < w)
        <3>1. cutAt # 0
            BY <1>7, <2>3, ExtractsLast
        <3>2. PICK e \in Message : delivered' = Append(delivered, e)
            BY <1>7, <2>3, ExtractsLast
        <3>3. Len(delivered') = Len(delivered) + 1
              /\ SubSeq(delivered', 1, Len(delivered)) = delivered
            BY <1>1, <3>2, Longer
        <3>4. d + 1 >= cutAt
            <4>1. w = cutAt - 1
                BY <3>1 DEF Whole
            <4> QED BY ONLY <1>3, <2>3, <4>1
        <3>5. Fifo!DeliverAny
            BY <2>1, <3>1, <3>3, <3>4 DEF Fifo!DeliverAny, Meanings
        <3> QED BY <3>5 DEF Fifo!Next
    <2> QED BY <2>2, <2>3
<1>9. CASE ReadDropped \/ ResetKept \/ AppendDropped
    <2>1. UNCHANGED <<sent, writeq, delivered, taken>> /\ Meanings' = Meanings
        BY <1>9, LosesIs DEF Meanings
    <2>2. PICK a \in Seq(Cell), s \in Seq(Cell), b \in Seq(Cell) :
              /\ written = a \o (s \o b) /\ Lose(Len(a), s)
              /\ Len(taken) <= Len(a)
        BY <1>9, LosesIs
    <2>3. \/ cutAt' = cutAt
          \/ cutAt' \in d + 1..Out /\ (cutAt = 0 \/ cutAt' < cutAt)
        BY <2>1, <2>2, FrameLose
    <2>4. CASE cutAt' = cutAt
        BY <1>4, <2>1, <2>4
    <2>5. CASE cutAt' \in d + 1..Out /\ (cutAt = 0 \/ cutAt' < cutAt)
        <3>1. cutAt' \in d + 1..Len(Meanings)
            <4> DEFINE l == Len(Meanings)
                       o == Out
            <4>1. l \in Nat /\ o \in Nat /\ o <= l
                BY <1>2, Counts
            <4> HIDE DEF l, o
            <4>2. d + 1..o \subseteq d + 1..l
                BY ONLY <1>3, <4>1
            <4> QED BY <2>5, <4>2 DEF l, o
        <3>2. Fifo!Cut
            BY <2>1, <2>5, <3>1 DEF Fifo!Cut, Meanings
        <3> QED BY <3>2 DEF Fifo!Next
    <2> QED BY <2>3, <2>4, <2>5
<1>8. CASE \/ Close \/ ReadSome \/ ReadNoMore \/ ReadEnd \/ Reset \/ AppendRead
           \/ ExtractDone \/ UNCHANGED vars \/ (WriteBlock /\ cutAt' = cutAt)
    <2>1. UNCHANGED <<sent, delivered, cutAt>>
        BY <1>8 DEF Close, ReadSome, ReadNoMore, ReadEnd, Reset, AppendRead, ExtractDone,
                    WriteBlock, vars
    <2> QED BY <1>4, <2>1
<1> QED
    BY <1>5, <1>6, <1>7, <1>8, <1>9, NextCases

(* Packets come out whole, once and in the order in which they were queued, *)
(* up to the first that write took only in part or of which the reader has  *)
(* dropped a cell, for any sizes of payloads, buffers and reads: what       *)
(* epoll_serve and run_client cut off the accumulator is what packet_serial *)
(* has made.                                                                *)
THEOREM FramingIsFifo == Spec => ImplementsFifo
BY FramingTypes, StreamIsKept, FrameInvariant, FifoInit, FifoNext, PTL
   DEF Spec, ImplementsFifo, Fifo!Spec
=============================================================================
