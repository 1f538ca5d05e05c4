-------------------------- MODULE ConnectionProofs --------------------------
(***************************************************************************)
(* Theorems about Connection for every set of packets, every length and    *)
(* any number of packets sent and of connections that break.               *)
(***************************************************************************)
EXTENDS Connection, SequenceTheorems, TLAPS

Byte == Packets \X Nat

-----------------------------------------------------------------------------
(* The sender *)

\* What makes the types of the sender inductive: a write that moves bytes moves
\* what is left of outgoingPacket, and one that has moved some is not over.
Writing ==
    /\ writes = 0 => written = 0
    /\ writes = 1 =>
        /\ outgoingPacket \in Packets
        /\ written <= bytesOut /\ bytesOut <= Length[outgoingPacket]

SenderType ==
    /\ sent \in Seq(Packets) /\ outPackets \in Seq(Packets)
    /\ outgoingPacket \in Packets \cup {None} /\ bytesOut \in Nat
    /\ {sendInProgress, starting, readEnded} \subseteq BOOLEAN
    /\ writes \in Nat /\ written \in Nat
    /\ socket \in {"open", "shut", "closed"} /\ {failing, oldWrite, oldRead, stale, up} \subseteq BOOLEAN
    /\ breaks \in 0 .. MaxBreaks
    /\ Writing

\* While the connection lasts, who says that a write is in progress, or is about
\* to say so, has one, so a packet that waits for it is taken from the queue.
Attended == (sendInProgress \/ starting => writes > 0 \/ ~up \/ socket # "open") /\ NoneStranded

\* sendPacket and the keep-alive
LEMMA QueueKeeps ==
    ASSUME SenderType, Attended, NEW p \in Packets, Queue(p),
           UNCHANGED <<written, up, socket>>
    PROVE  /\ Attended'
           /\ outPackets' \in Seq(Packets)
           /\ outgoingPacket' \in Packets \cup {None} /\ bytesOut' \in Nat
           /\ {sendInProgress', starting'} \subseteq BOOLEAN /\ writes' \in Nat
           /\ Writing'
<1> USE DEF SenderType, Attended
<1>1. CASE sendInProgress
    <2>1. /\ outPackets' = Append(outPackets, p)
          /\ UNCHANGED <<outgoingPacket, bytesOut, writes, starting, sendInProgress>>
        BY <1>1 DEF Queue
    <2> QED BY <1>1, <2>1 DEF Writing, NoneStranded
<1>2. CASE ~sendInProgress
    <2>1. Length[p] \in Nat
        BY LengthAssumption
    <2>2. /\ outgoingPacket' = p /\ bytesOut' = Length[p]
          /\ writes' = writes + 1 /\ starting' = TRUE /\ UNCHANGED <<outPackets, sendInProgress>>
        BY <1>2 DEF Queue, Begin
    <2>3. Writing'
        BY <2>1, <2>2 DEF Writing
    <2>4. Attended'
        BY <2>2 DEF NoneStranded
    <2> QED BY <2>1, <2>2, <2>3, <2>4
<1> QED BY <1>1, <1>2

\* A step that leaves all this alone.
LEMMA SenderRests ==
    ASSUME SenderType, Attended, UNCHANGED <<sender, link>>
    PROVE  SenderType' /\ Attended'
BY DEF SenderType, Attended, Writing, NoneStranded, sender, link

\* Every step of the sender.
LEMMA SenderKeeps ==
    ASSUME SenderType, Attended, [Next]_vars
    PROVE  SenderType' /\ Attended'
<1> USE DEF link
<1>1. ASSUME NEW p \in Packets, SendPacket(p) PROVE SenderType' /\ Attended'
    <2>1. Append(sent, p) \in Seq(Packets)
        BY DEF SenderType
    <2> QED BY <1>1, <2>1, QueueKeeps DEF SendPacket, SenderType
<1>2. CASE WriteSome
    <2>1. PICK n \in 1 .. bytesOut : written' = n
        BY <1>2 DEF WriteSome
    <2> QED BY <1>2, <2>1 DEF WriteSome, Alone, SenderType, Attended, Writing, NoneStranded
<1>3. CASE WriteRest
    <2>1. Writing'
        <3>1. outgoingPacket \in Packets => Length[outgoingPacket] \in Nat
            BY LengthAssumption
        <3> QED BY <1>3, <3>1 DEF WriteRest, Written, Alone, SenderType, Writing
    <2>2. Attended'
        BY <1>3 DEF WriteRest, Written, Alone, Attended, NoneStranded
    <2>3. bytesOut' \in Nat /\ writes' \in Nat /\ written' \in Nat /\ breaks' \in 0 .. MaxBreaks
        BY <1>3 DEF WriteRest, Written, Alone, SenderType, Writing
    <2> QED BY <1>3, <2>1, <2>2, <2>3 DEF WriteRest, Written, Alone, SenderType
<1>4. CASE WriteNext
    <2>1. Head(outPackets) \in Packets /\ Tail(outPackets) \in Seq(Packets)
        BY <1>4 DEF WriteNext, SenderType
    <2>2. Length[Head(outPackets)] \in Nat
        BY <2>1, LengthAssumption
    <2> QED BY <1>4, <2>1, <2>2 DEF WriteNext, Written, Alone, SenderType, Attended, Writing, NoneStranded
<1>5. CASE WriteDone
    <2>1. Writing'
        BY <1>5 DEF WriteDone, Written, Alone, SenderType, Writing
    <2>2. Attended'
        BY <1>5 DEF WriteDone, Written, Alone, Attended, NoneStranded
    <2>3. bytesOut' \in Nat /\ writes' \in Nat /\ written' \in Nat /\ breaks' \in 0 .. MaxBreaks
        BY <1>5 DEF WriteDone, Written, Alone, SenderType, Writing
    <2> QED BY <1>5, <2>1, <2>2, <2>3 DEF WriteDone, Written, Alone, SenderType
<1>6. CASE ReadError
    BY <1>6 DEF ReadError, SenderType, Attended, Writing, NoneStranded
<1>7. CASE WriteFails
    <2>1. Writing'
        BY <1>7 DEF WriteFails, SenderType, Writing
    <2>2. Attended'
        BY <1>7 DEF WriteFails, Attended, NoneStranded
    <2>3. bytesOut' \in Nat /\ writes' \in Nat /\ written' \in Nat /\ breaks' \in 0 .. MaxBreaks
        BY <1>7 DEF WriteFails, SenderType, Writing
    <2> QED BY <1>7, <2>1, <2>2, <2>3 DEF WriteFails, SenderType
<1>8. CASE WriteFailed
    <2>1. Writing'
        BY <1>8 DEF WriteFailed, SenderType, Writing
    <2>2. Attended'
        BY <1>8 DEF WriteFailed, Attended, NoneStranded
    <2>3. bytesOut' \in Nat /\ writes' \in Nat /\ written' \in Nat /\ breaks' \in 0 .. MaxBreaks
        BY <1>8 DEF WriteFailed, SenderType, Writing
    <2>4. <<>> \in Seq(Packets) /\ socket' \in {"open", "shut", "closed"}
        BY <1>8 DEF WriteFailed
    <2> QED BY <1>8, <2>1, <2>2, <2>3, <2>4 DEF WriteFailed, SenderType
<1>9. CASE Break
    <2>1. Writing'
        BY <1>9 DEF Break, sender, SenderType, Writing
    <2>2. Attended'
        BY <1>9 DEF Break, sender, Attended, NoneStranded
    <2>3. bytesOut' \in Nat /\ writes' \in Nat /\ written' \in Nat /\ breaks' \in 0 .. MaxBreaks
        BY <1>9, BoundAssumption DEF Break, sender, SenderType, Writing
    <2> QED BY <1>9, <2>1, <2>2, <2>3 DEF Break, sender, SenderType
<1>10. CASE KeepAlive
    <2>1. PICK p \in Packets : Queue(p)
        BY <1>10 DEF KeepAlive
    <2> QED BY <1>10, <2>1, QueueKeeps DEF KeepAlive, SenderType
<1>11. CASE Connect
    <2>1. Writing'
        BY <1>11 DEF Connect, SenderType, Writing
    <2>2. Attended'
        BY <1>11 DEF Connect, Attended, NoneStranded
    <2>3. bytesOut' \in Nat /\ writes' \in Nat /\ written' \in Nat /\ breaks' \in 0 .. MaxBreaks
        BY <1>11 DEF Connect, SenderType, Writing
    <2>4. <<>> \in Seq(Packets) /\ socket' \in {"open", "shut", "closed"}
        BY <1>11 DEF Connect
    <2> QED BY <1>11, <2>1, <2>2, <2>3, <2>4 DEF Connect, SenderType
<1>12. CASE Reader
    BY <1>12, SenderRests DEF Reader, ReadSome, ReadExtend, ReadPacket, Complete
<1>13. CASE Started
    BY <1>13 DEF Started, SenderType, Attended, Writing, NoneStranded
<1>14. CASE UNCHANGED vars
    BY <1>14, SenderRests DEF vars
<1> QED BY <1>1, <1>2, <1>3, <1>4, <1>5, <1>6, <1>7, <1>8, <1>9, <1>10, <1>11, <1>12, <1>13, <1>14
    DEF Next, Writer

\* The initial states.
LEMMA SenderStarts == Init => SenderType /\ Attended
<1> SUFFICES ASSUME Init PROVE SenderType /\ Attended
    OBVIOUS
<1>1. breaks \in 0 .. MaxBreaks /\ Writing /\ Attended
    BY BoundAssumption DEF Init, Writing, Attended, NoneStranded
<1>2. <<>> \in Seq(Packets)
    OBVIOUS
<1> QED BY <1>1, <1>2 DEF Init, SenderType

\* However sends, completions, failures and new connections interleave, and whatever
\* comes between the two halves of sendPacket, no packet of a connection that lasts
\* waits in the queue without a write whose completion takes it from there.
THEOREM NoPacketStranded == Spec => []NoneStranded
<1>1. SenderType /\ Attended /\ [Next]_vars => (SenderType /\ Attended)'
    BY SenderKeeps
<1>2. Attended => NoneStranded
    BY DEF Attended
<1> QED BY SenderStarts, <1>1, <1>2, PTL DEF Spec

-----------------------------------------------------------------------------
(* The receiver *)

\* A read asks for a header, or for what the header says is missing.
ReceiverType ==
    /\ wire \in Seq(Byte) /\ incoming \in Seq(Byte)
    /\ received \in Seq(Packets)
    /\ size \in Nat /\ inBytes \in 1 .. size
    /\ Len(incoming) = size - inBytes
    /\ incoming = <<>> => size = Header
    /\ incoming # <<>> => size \in {Header, LengthOf(incoming)}

\* The bytes that were sent and whose packet has not been processed yet: those
\* in the buffer, then those on the wire.
LineLen == Len(incoming) + Len(wire)
At(i) == IF i <= Len(incoming) THEN incoming[i] ELSE wire[i - Len(incoming)]

\* What a read of n bytes leaves of the buffer and the wire.
LEMMA ReadMoves ==
    ASSUME ReceiverType, NEW n \in 1 .. Len(wire)
    PROVE  LET all  == incoming \o SubSeq(wire, 1, n)
               rest == SubSeq(wire, n + 1, Len(wire))
           IN /\ all \in Seq(Byte) /\ rest \in Seq(Byte)
              /\ Len(all) = Len(incoming) + n /\ Len(rest) = Len(wire) - n
              /\ \A i \in 1 .. Len(all) : all[i] = At(i)
              /\ \A i \in 1 .. Len(rest) : rest[i] = At(i + Len(all))
<1> DEFINE first == SubSeq(wire, 1, n)
           rest == SubSeq(wire, n + 1, Len(wire))
           all == incoming \o first
<1>1. wire \in Seq(Byte) /\ incoming \in Seq(Byte) /\ n \in Nat /\ Len(wire) \in Nat /\ Len(incoming) \in Nat
    BY DEF ReceiverType
<1>2. first \in Seq(Byte) /\ Len(first) = n /\ \A i \in 1 .. n : first[i] = wire[i]
    BY <1>1
<1>3. rest \in Seq(Byte) /\ Len(rest) = Len(wire) - n /\ \A i \in 1 .. Len(wire) - n : rest[i] = wire[n + i]
    BY <1>1
<1> HIDE DEF first, rest
<1>4. /\ all \in Seq(Byte) /\ Len(all) = Len(incoming) + n
      /\ \A i \in 1 .. Len(all) : all[i] = IF i <= Len(incoming) THEN incoming[i] ELSE first[i - Len(incoming)]
    BY <1>1, <1>2, SMTT(30)
<1> HIDE DEF all
<1>5. \A i \in 1 .. Len(all) : all[i] = At(i)
    BY <1>1, <1>2, <1>4 DEF At
<1>6. \A i \in 1 .. Len(rest) : rest[i] = At(i + Len(all))
    <2> TAKE i \in 1 .. Len(rest)
    <2>1. ~(i + Len(all) <= Len(incoming)) /\ i + Len(all) - Len(incoming) = n + i
        BY <1>1, <1>3, <1>4
    <2>2. ASSUME NEW k, ~(k <= Len(incoming)) PROVE At(k) = wire[k - Len(incoming)]
        BY <2>2 DEF At
    <2>3. At(i + Len(all)) = wire[n + i]
        BY <2>1, <2>2
    <2>4. rest[i] = wire[n + i]
        BY <1>3
    <2> QED BY <2>3, <2>4
<1> QED BY <1>2, <1>3, <1>4, <1>5, <1>6 DEF all, first, rest

LineStays == LineLen' = LineLen /\ \A i \in 1 .. LineLen : At(i)' = At(i)
LineMoves(n) ==
    /\ n \in 1 .. LineLen
    /\ LineLen' = LineLen - n /\ \A i \in 1 .. LineLen - n : At(i)' = At(i + n)

\* A read that leaves the packet incomplete, and one that completes it.
LEMMA ReaderMoves ==
    ASSUME ReceiverType
    PROVE  /\ ReadSome \/ ReadExtend => ReceiverType' /\ LineStays
           /\ ReadPacket => /\ ReceiverType' /\ LineMoves(Length[At(1)[1]]) /\ incoming' = <<>>
                            /\ received' = Append(received, At(1)[1])
<1>1. /\ Len(incoming) \in Nat /\ Len(wire) \in Nat /\ size \in Nat /\ inBytes \in Nat
      /\ Len(incoming) = size - inBytes /\ inBytes >= 1 /\ inBytes <= size
    BY DEF ReceiverType
<1>2. \A i \in 1 .. Len(incoming) : At(i) = incoming[i]
    BY DEF At
<1>3. ASSUME NEW n \in 1 .. Len(wire), NEW all, NEW rest,
             all = incoming \o SubSeq(wire, 1, n), rest = SubSeq(wire, n + 1, Len(wire))
      PROVE  /\ all \in Seq(Byte) /\ rest \in Seq(Byte)
             /\ Len(all) = Len(incoming) + n /\ Len(rest) = Len(wire) - n
             /\ all[1] = At(1) /\ all[1] \in Byte /\ all # <<>>
             /\ incoming # <<>> => LengthOf(all) = LengthOf(incoming)
             /\ LengthOf(all) = Length[At(1)[1]] /\ LengthOf(all) \in Nat /\ LengthOf(all) >= Header
             /\ incoming' = all /\ wire' = rest => LineStays
             /\ incoming' = <<>> /\ wire' = rest => LineMoves(Len(all))
    <2>1. /\ all \in Seq(Byte) /\ rest \in Seq(Byte)
          /\ Len(all) = Len(incoming) + n /\ Len(rest) = Len(wire) - n
          /\ \A i \in 1 .. Len(all) : all[i] = At(i)
          /\ \A i \in 1 .. Len(rest) : rest[i] = At(i + Len(all))
        BY <1>3, ReadMoves
    <2>2. all[1] = At(1) /\ all[1] \in Byte /\ all # <<>>
        BY <1>1, <2>1
    <2>3. incoming # <<>> => LengthOf(all) = LengthOf(incoming)
        <3>1. incoming # <<>> => 1 \in 1 .. Len(incoming)
            BY DEF ReceiverType
        <3> QED BY <1>2, <2>2, <3>1 DEF LengthOf
    <2>4. all[1][1] \in Packets
        BY <2>2 DEF Byte
    <2>5. LengthOf(all) = Length[At(1)[1]] /\ LengthOf(all) \in Nat /\ LengthOf(all) >= Header
        BY <2>2, <2>4, LengthAssumption DEF LengthOf
    <2>6. /\ Len(all) = Len(incoming) + n /\ Len(rest) = Len(wire) - n
          /\ n \in Nat /\ Len(all) \in Nat /\ Len(rest) \in Nat
        BY <1>1, <2>1
    <2>7. ASSUME incoming' = all, wire' = rest PROVE LineStays
        <3>1. LineLen' = LineLen
            <4>1. LineLen' = Len(all) + Len(rest)
                BY <2>7 DEF LineLen
            <4> QED BY <1>1, <2>6, <4>1 DEF LineLen
        <3>2. ASSUME NEW i \in 1 .. LineLen PROVE At(i)' = At(i)
            <4>1. CASE i <= Len(all)
                BY <1>1, <2>1, <2>7, <4>1 DEF At, LineLen
            <4>2. CASE ~(i <= Len(all))
                <5>1. At(i)' = rest[i - Len(all)]
                    BY <2>7, <4>2 DEF At
                <5>2. i - Len(all) \in 1 .. Len(rest) /\ i - Len(all) + Len(all) = i
                    BY <1>1, <2>6, <4>2 DEF LineLen
                <5>3. rest[i - Len(all)] = At(i - Len(all) + Len(all))
                    BY <2>1, <5>2
                <5> QED BY <5>1, <5>2, <5>3
            <4> QED BY <4>1, <4>2
        <3> QED BY <3>1, <3>2 DEF LineStays
    <2>8. ASSUME incoming' = <<>>, wire' = rest PROVE LineMoves(Len(all))
        <3>1. LineLen' = LineLen - Len(all) /\ Len(all) \in 1 .. LineLen /\ LineLen - Len(all) = Len(rest)
            BY <1>1, <2>1, <2>8 DEF LineLen
        <3>2. ASSUME NEW i \in 1 .. LineLen - Len(all) PROVE At(i)' = At(i + Len(all))
            <4>1. i \in 1 .. Len(rest) /\ ~(i <= 0) /\ i - 0 = i
                BY <1>1, <2>1, <3>1
            <4>2. At(i)' = rest[i - 0]
                BY <2>8, <4>1 DEF At
            <4> QED BY <2>1, <4>1, <4>2
        <3> QED BY <3>1, <3>2 DEF LineMoves
    <2> QED BY <2>1, <2>2, <2>3, <2>5, <2>7, <2>8
<1>4. ASSUME ReadSome PROVE ReceiverType' /\ LineStays
    <2>1. PICK n \in 1 .. inBytes - 1 :
              /\ n <= Len(wire)
              /\ incoming' = incoming \o SubSeq(wire, 1, n)
              /\ wire' = SubSeq(wire, n + 1, Len(wire))
              /\ inBytes' = inBytes - n /\ UNCHANGED <<size, received>>
        BY <1>4 DEF ReadSome
    <2>2. n \in 1 .. Len(wire)
        BY <1>1, <2>1
    <2>3. /\ incoming' \in Seq(Byte) /\ wire' \in Seq(Byte) /\ Len(incoming') = Len(incoming) + n
          /\ incoming' # <<>> /\ (incoming # <<>> => LengthOf(incoming') = LengthOf(incoming))
          /\ LineStays
        BY <1>3, <2>1, <2>2
    <2>4. inBytes' \in 1 .. size /\ Len(incoming') = size - inBytes'
        BY <1>1, <2>1, <2>3
    <2> QED BY <2>1, <2>3, <2>4 DEF ReceiverType, LengthOf
<1>5. ASSUME ReadExtend PROVE ReceiverType' /\ LineStays
    <2> DEFINE all == incoming \o SubSeq(wire, 1, inBytes)
    <2>1. /\ inBytes <= Len(wire) /\ wire' = SubSeq(wire, inBytes + 1, Len(wire))
          /\ size # LengthOf(all) /\ inBytes' = LengthOf(all) - size /\ size' = LengthOf(all)
          /\ incoming' = all /\ received' = received
        BY <1>5 DEF ReadExtend, Complete
    <2>2. inBytes \in 1 .. Len(wire)
        BY <1>1, <2>1
    <2>3. /\ all \in Seq(Byte) /\ wire' \in Seq(Byte) /\ Len(all) = Len(incoming) + inBytes
          /\ all # <<>> /\ (incoming # <<>> => LengthOf(all) = LengthOf(incoming))
          /\ LengthOf(all) \in Nat /\ LengthOf(all) >= Header
          /\ LineStays
        BY <1>3, <2>1, <2>2
    <2> HIDE DEF all
    <2>4. size < LengthOf(all)
        BY <1>1, <2>1, <2>3, LengthAssumption DEF ReceiverType
    <2>5. inBytes' \in 1 .. size' /\ Len(incoming') = size' - inBytes' /\ size' \in Nat
        BY <1>1, <2>1, <2>3, <2>4
    <2>6. size' = LengthOf(incoming')
        BY <2>1
    <2> QED BY <2>1, <2>3, <2>5, <2>6 DEF ReceiverType, LengthOf
<1>6. ASSUME ReadPacket
      PROVE  /\ ReceiverType' /\ LineMoves(Length[At(1)[1]]) /\ incoming' = <<>>
             /\ received' = Append(received, At(1)[1])
    <2> DEFINE all == incoming \o SubSeq(wire, 1, inBytes)
    <2>1. /\ inBytes <= Len(wire) /\ wire' = SubSeq(wire, inBytes + 1, Len(wire))
          /\ size = LengthOf(all) /\ received' = Append(received, all[1][1])
          /\ incoming' = <<>> /\ size' = Header /\ inBytes' = Header
        BY <1>6 DEF ReadPacket, Complete
    <2>2. inBytes \in 1 .. Len(wire)
        BY <1>1, <2>1
    <2>3. /\ wire' \in Seq(Byte) /\ Len(all) = Len(incoming) + inBytes
          /\ all[1] = At(1) /\ all[1] \in Byte /\ LengthOf(all) = Length[At(1)[1]]
          /\ LineMoves(Len(all))
        BY <1>3, <2>1, <2>2
    <2> HIDE DEF all
    <2>4. Len(all) = Length[At(1)[1]]
        BY <1>1, <2>1, <2>3
    <2>5. Append(received, all[1][1]) \in Seq(Packets)
        BY <2>3 DEF Byte, ReceiverType
    <2>6. <<>> \in Seq(Byte) /\ Len(<<>>) = 0 /\ Header \in 1 .. Header /\ Header \in Nat /\ 0 = Header - Header
        BY LengthAssumption
    <2> QED BY <2>1, <2>3, <2>4, <2>5, <2>6 DEF ReceiverType
<1> QED BY <1>4, <1>5, <1>6

\* A write that moves bytes puts the next ones of outgoingPacket on the wire.
LEMMA WireGrows ==
    ASSUME SenderType, ReceiverType, WriteSome
    PROVE  \E n \in 1 .. bytesOut :
             LET first == Length[outgoingPacket] - bytesOut
             IN /\ written' = n /\ wire' \in Seq(Byte) /\ Len(wire') = Len(wire) + n
                /\ \A i \in 1 .. Len(wire) : wire'[i] = wire[i]
                /\ \A k \in 1 .. n : wire'[Len(wire) + k] = <<outgoingPacket, first + k>>
<1> DEFINE p == outgoingPacket
           first == Length[p] - bytesOut
<1>1. PICK n \in 1 .. bytesOut :
          wire' = wire \o SubSeq(Bytes(p), first + 1, first + n) /\ written' = n
    BY DEF WriteSome
<1>2. p \in Packets /\ bytesOut <= Length[p] /\ bytesOut \in Nat /\ Length[p] \in Nat
    BY LengthAssumption DEF WriteSome, Alone, SenderType, Writing
<1>3. first \in Nat /\ n \in Nat /\ first + n <= Length[p] /\ n >= 1
    BY <1>2
<1> HIDE DEF first, p
<1>4. Bytes(p) \in Seq(Byte) /\ Len(Bytes(p)) = Length[p]
    <2>1. \A i \in 1 .. Length[p] : <<p, i>> \in Byte
        BY <1>2 DEF Byte
    <2> QED BY <1>2, <2>1 DEF Bytes
<1>5. \A i \in 1 .. Length[p] : Bytes(p)[i] = <<p, i>>
    BY DEF Bytes
<1> DEFINE part == SubSeq(Bytes(p), first + 1, first + n)
<1>6. part \in Seq(Byte) /\ Len(part) = n /\ \A k \in 1 .. n : part[k] = Bytes(p)[first + k]
    <2>1. ASSUME NEW s \in Seq(Byte), NEW a \in Nat, NEW b \in Nat, a + b <= Len(s)
          PROVE  LET t == SubSeq(s, a + 1, a + b)
                 IN t \in Seq(Byte) /\ Len(t) = b /\ \A k \in 1 .. b : t[k] = s[a + k]
        BY <2>1, SMTT(30)
    <2>2. first + n <= Len(Bytes(p))
        BY <1>3, <1>4
    <2> QED BY <1>3, <1>4, <2>1, <2>2
<1> HIDE DEF part
<1>7. \A k \in 1 .. n : part[k] = <<p, first + k>>
    <2>1. \A k \in 1 .. n : first + k \in 1 .. Length[p]
        BY <1>2, <1>3
    <2> QED BY <1>5, <1>6, <2>1
<1>8. wire \in Seq(Byte) /\ Len(wire) \in Nat
    BY DEF ReceiverType
<1>9. /\ wire \o part \in Seq(Byte) /\ Len(wire \o part) = Len(wire) + n
      /\ \A i \in 1 .. Len(wire) : (wire \o part)[i] = wire[i]
      /\ \A k \in 1 .. n : (wire \o part)[Len(wire) + k] = part[k]
    <2>1. ASSUME NEW s \in Seq(Byte), NEW t \in Seq(Byte)
          PROVE  /\ s \o t \in Seq(Byte) /\ Len(s \o t) = Len(s) + Len(t)
                 /\ \A i \in 1 .. Len(s) : (s \o t)[i] = s[i]
                 /\ \A k \in 1 .. Len(t) : (s \o t)[Len(s) + k] = t[k]
        BY <2>1
    <2> QED BY <1>6, <1>8, <2>1
<1> QED BY <1>1, <1>7, <1>9 DEF part, first, p

\* Every step.
LEMMA ReceiverKeeps ==
    ASSUME SenderType, ReceiverType, [Next]_vars
    PROVE  ReceiverType'
<1>1. CASE Reader
    BY <1>1, ReaderMoves DEF Reader
<1>2. CASE WriteSome
    BY <1>2, WireGrows DEF WriteSome, receiver, ReceiverType, LengthOf
<1>3. CASE Break
    BY <1>3, <<>> \in Seq(Byte) DEF Break, receiver, ReceiverType, LengthOf
<1>4. CASE Connect
    <2>1. Header \in Nat /\ Header \in 1 .. Header /\ Header - Header = 0
        BY LengthAssumption
    <2> QED BY <1>4, <2>1, <<>> \in Seq(Byte), <<>> \in Seq(Packets) DEF Connect, ReceiverType, LengthOf
<1>5. CASE UNCHANGED <<wire, receiver>>
    BY <1>5 DEF receiver, ReceiverType, LengthOf
<1> QED BY <1>1, <1>2, <1>3, <1>4, <1>5
    DEF Next, Writer, SendPacket, WriteRest, WriteNext, WriteDone, WriteFails, WriteFailed,
        ReadError, KeepAlive, Started, vars

\* The initial states.
LEMMA ReceiverStarts == Init => ReceiverType
<1> SUFFICES ASSUME Init PROVE ReceiverType
    OBVIOUS
<1>1. Header \in Nat /\ Header \in 1 .. Header /\ Header - Header = 0
    BY LengthAssumption
<1> QED BY <1>1, <<>> \in Seq(Byte), <<>> \in Seq(Packets) DEF Init, ReceiverType

\* Every variable has its type; a read always asks for something, and never for
\* more than its packet has.
THEOREM ConnectionTypes == Spec => []TypeOK
<1>1. SenderType /\ Attended /\ ReceiverType /\ [Next]_vars => (SenderType /\ Attended /\ ReceiverType)'
    BY SenderKeeps, ReceiverKeeps
<1>2. SenderType /\ ReceiverType => TypeOK
    BY DEF SenderType, ReceiverType, TypeOK
<1> QED BY SenderStarts, ReceiverStarts, <1>1, <1>2, PTL DEF Spec

-----------------------------------------------------------------------------
(* Packets that lie one behind the other in a line A of N bytes: m packets P,  *)
(* from the places pos, of which the last need not be there to its end.        *)

Laid(A, N, m, P, pos) ==
    /\ pos[1] = 1 /\ N < pos[m + 1]
    /\ \A k \in 1 .. m : pos[k + 1] = pos[k] + Length[P[k]]
    /\ \A k, l \in 1 .. m + 1 : k <= l => pos[k] <= pos[l]
    /\ \A k \in 1 .. m : \A j \in 1 .. Length[P[k]] :
        pos[k] + j - 1 <= N => A[pos[k] + j - 1] = <<P[k], j>>

\* The last one is p, and there up to its byte f; or all are there to their end.
Part(N, m, P, pos, p, f) == m > 0 /\ P[m] = p /\ pos[m] + f = N + 1
Ends(N, m, P, pos, p, f) ==
    IF f = 0 \/ f = Length[p] THEN pos[m + 1] = N + 1 ELSE Part(N, m, P, pos, p, f)

\* The first M of B are those of A behind the first n.
Shifted(B, M, A, n) == \A i \in 1 .. M : B[i] = A[i + n]

\* A packet takes some room.
LEMMA Lengths == \A p \in Packets : Length[p] \in Nat /\ Length[p] > 0
<1> TAKE p \in Packets
<1>1. Length[p] \in Nat /\ Length[p] >= Header /\ Header \in Nat /\ Header > 0
    BY LengthAssumption
<1> QED BY <1>1

\* The places of the m packets and of what is behind them, without the first and
\* its n bytes.
Back(rest, m, pos, n) == \A k \in 1 .. m : rest[k] >= 1 /\ pos[k + 1] = rest[k] + n

\* There are such places.
LEMMA BackExists ==
    ASSUME NEW N, NEW A, NEW m \in Nat \ {0}, NEW P, NEW pos \in [1 .. m + 1 -> Nat], Laid(A, N, m, P, pos),
           NEW n \in Nat, n = Length[P[1]]
    PROVE  \E rest \in [1 .. m -> Nat] : Back(rest, m, pos, n)
<1> DEFINE rest == [k \in 1 .. m |-> pos[k + 1] - n]
<1>1. 1 \in 1 .. m /\ 2 \in 1 .. m + 1 /\ \A k \in 1 .. m + 1 : pos[k] \in Nat
    OBVIOUS
<1>2. pos[1] = 1 /\ pos[2] = 1 + n
    BY <1>1 DEF Laid
<1>3. ASSUME NEW k \in 1 .. m PROVE rest[k] \in Nat /\ rest[k] >= 1 /\ pos[k + 1] = rest[k] + n
    <2>1. pos[2] <= pos[k + 1] /\ pos[k + 1] \in Nat
        <3>1. 2 \in 1 .. m + 1 /\ k + 1 \in 1 .. m + 1 /\ 2 <= k + 1
            OBVIOUS
        <3> QED BY <1>1, <3>1 DEF Laid
    <2> DEFINE a == pos[k + 1]
    <2>2. a \in Nat /\ 1 + n <= a
        BY <1>2, <2>1
    <2> HIDE DEF a
    <2>3. a - n \in Nat /\ a - n >= 1 /\ a = (a - n) + n
        BY ONLY <2>2, n \in Nat
    <2>4. rest[k] = a - n
        BY DEF a
    <2> HIDE DEF rest
    <2> QED BY <2>3, <2>4 DEF a
<1> QED BY <1>3 DEF Back

\* Without the first of them, what is left of m packets P on a line A of N bytes.
Rest(B, M, c, Q, rest, A, N, m, P, pos, n) ==
    /\ {N, m, c, n, M} \subseteq Nat /\ m = c + 1 /\ N = M + n
    /\ P \in [1 .. m -> Packets] /\ Q \in [1 .. c -> Packets] /\ n = Length[P[1]]
    /\ pos \in [1 .. m + 1 -> Nat] /\ rest \in [1 .. m -> Nat]
    /\ Shifted(B, M, A, n) /\ Shifted(Q, c, P, 1) /\ Back(rest, m, pos, n)
    /\ Laid(A, N, m, P, pos)

\* They lie as they did.
LEMMA LaidShift ==
    ASSUME NEW B, NEW M, NEW c, NEW Q, NEW rest, NEW A, NEW N, NEW m, NEW P, NEW pos, NEW n,
           Rest(B, M, c, Q, rest, A, N, m, P, pos, n)
    PROVE  Laid(B, M, c, Q, rest)
<1> /\ N \in Nat /\ m \in Nat /\ c \in Nat /\ n \in Nat /\ M \in Nat /\ m = c + 1 /\ N = M + n
    /\ P \in [1 .. m -> Packets] /\ Q \in [1 .. c -> Packets] /\ n = Length[P[1]]
    /\ pos \in [1 .. m + 1 -> Nat] /\ rest \in [1 .. m -> Nat]
    /\ Shifted(B, M, A, n) /\ Shifted(Q, c, P, 1) /\ Back(rest, m, pos, n)
    /\ Laid(A, N, m, P, pos)
    BY DEF Rest
<1>1. /\ 1 \in 1 .. m /\ 2 \in 1 .. m + 1
      /\ \A k \in 1 .. m : k \in 1 .. m + 1 /\ k + 1 \in 1 .. m + 1
      /\ \A k \in 1 .. c : k \in 1 .. m /\ k + 1 \in 1 .. m
    OBVIOUS
<1>2. \A k \in 1 .. m + 1 : pos[k] \in Nat
    OBVIOUS
<1>3. pos[1] = 1 /\ pos[2] = 1 + n
    BY <1>1 DEF Laid
<1>4. \A k \in 1 .. m : rest[k] \in Nat /\ rest[k] >= 1 /\ pos[k + 1] = rest[k] + n
    BY DEF Back
<1>5. \A k \in 1 .. c : Q[k] = P[k + 1] /\ Length[Q[k]] \in Nat
    BY Lengths DEF Shifted
<1>6. rest[1] = 1
    <2> DEFINE a == rest[1]
    <2>1. a \in Nat /\ 1 + n = a + n
        BY <1>1, <1>3, <1>4
    <2> HIDE DEF a
    <2>2. a = 1
        BY ONLY <2>1, n \in Nat
    <2> QED BY <2>2 DEF a
<1>7. M < rest[c + 1]
    <2> DEFINE a == rest[c + 1]
    <2>1. a \in Nat /\ pos[m + 1] = a + n
        <3>1. c + 1 \in 1 .. m
            OBVIOUS
        <3> QED BY <1>4, <3>1
    <2> HIDE DEF a
    <2>2. M + n < a + n
        BY <2>1 DEF Laid
    <2>3. M < a
        BY ONLY <2>1, <2>2, n \in Nat, M \in Nat
    <2> QED BY <2>3 DEF a
<1>8. ASSUME NEW k \in 1 .. c PROVE rest[k + 1] = rest[k] + Length[Q[k]]
    <2>1. pos[(k + 1) + 1] = pos[k + 1] + Length[P[k + 1]]
        BY <1>1 DEF Laid
    <2> DEFINE a == rest[k]
               b == rest[k + 1]
               d == Length[Q[k]]
    <2>2. a \in Nat /\ b \in Nat /\ d \in Nat /\ pos[k + 1] = a + n /\ pos[(k + 1) + 1] = b + n
        BY <1>1, <1>4, <1>5
    <2>3. b + n = (a + n) + d
        BY <1>5, <2>1, <2>2
    <2> HIDE DEF a, b, d
    <2>4. b = a + d
        BY ONLY <2>2, <2>3, n \in Nat
    <2> QED BY <2>4 DEF a, b, d
<1>9. ASSUME NEW k \in 1 .. c + 1, NEW l \in 1 .. c + 1, k <= l
      PROVE  rest[k] <= rest[l]
    <2>1. pos[k + 1] <= pos[l + 1]
        <3>1. k + 1 \in 1 .. m + 1 /\ l + 1 \in 1 .. m + 1 /\ k + 1 <= l + 1
            BY <1>9
        <3> QED BY <3>1 DEF Laid
    <2> DEFINE a == rest[k]
               b == rest[l]
    <2>2. a \in Nat /\ b \in Nat /\ pos[k + 1] = a + n /\ pos[l + 1] = b + n
        BY <1>4
    <2> HIDE DEF a, b
    <2>3. a + n <= b + n
        BY <2>1, <2>2
    <2>4. a <= b
        BY ONLY <2>2, <2>3, n \in Nat
    <2> QED BY <2>4 DEF a, b
<1>10. ASSUME NEW k \in 1 .. c, NEW j \in 1 .. Length[Q[k]], rest[k] + j - 1 <= M
      PROVE  B[rest[k] + j - 1] = <<Q[k], j>>
    <2> DEFINE a == rest[k]
    <2>1. a \in Nat /\ a >= 1 /\ pos[k + 1] = a + n
        BY <1>1, <1>4
    <2>2. j \in Nat /\ j >= 1 /\ a >= 1 /\ a + j - 1 <= M
        BY <1>5, <1>10, <2>1
    <2> HIDE DEF a
    <2>3. a + j - 1 \in 1 .. M /\ (a + j - 1) + n = (a + n) + j - 1 /\ (a + n) + j - 1 <= M + n
        BY ONLY <2>1, <2>2, n \in Nat, M \in Nat
    <2>4. A[pos[k + 1] + j - 1] = <<P[k + 1], j>>
        <3>1. k + 1 \in 1 .. m /\ j \in 1 .. Length[P[k + 1]] /\ pos[k + 1] + j - 1 <= N
            BY <1>1, <1>5, <2>1, <2>3
        <3> QED BY <3>1 DEF Laid
    <2>5. B[a + j - 1] = A[(a + j - 1) + n]
        BY <2>3 DEF Shifted
    <2> QED BY <1>5, <2>1, <2>3, <2>4, <2>5 DEF a
<1> QED BY <1>6, <1>7, <1>8, <1>9, <1>10 DEF Laid

\* What is behind them ends where it did.
LEMMA EndsShift ==
    ASSUME NEW B, NEW M, NEW c, NEW Q, NEW rest, NEW A, NEW N, NEW m, NEW P, NEW pos, NEW n,
           Rest(B, M, c, Q, rest, A, N, m, P, pos, n)
    PROVE  \A p \in Packets : \A f \in 0 .. Length[p] :
               Ends(N, m, P, pos, p, f) => Ends(M, c, Q, rest, p, f)
<1> SUFFICES ASSUME NEW p \in Packets, NEW f \in 0 .. Length[p], Ends(N, m, P, pos, p, f)
             PROVE  Ends(M, c, Q, rest, p, f)
    OBVIOUS
<1> /\ N \in Nat /\ m \in Nat /\ c \in Nat /\ n \in Nat /\ M \in Nat /\ m = c + 1 /\ N = M + n
    /\ P \in [1 .. m -> Packets] /\ Q \in [1 .. c -> Packets] /\ n = Length[P[1]]
    /\ pos \in [1 .. m + 1 -> Nat] /\ rest \in [1 .. m -> Nat]
    /\ Shifted(B, M, A, n) /\ Shifted(Q, c, P, 1) /\ Back(rest, m, pos, n)
    /\ Laid(A, N, m, P, pos)
    /\ pos[1] = 1
    BY DEF Rest, Laid
<1>1. ASSUME NEW k \in 1 .. m, NEW g \in Nat, pos[k + 1] + g = N + 1 PROVE rest[k] + g = M + 1
    <2> DEFINE a == rest[k]
    <2>1. a \in Nat /\ pos[k + 1] = a + n
        BY DEF Back
    <2> HIDE DEF a
    <2>2. (a + n) + g = (M + n) + 1
        BY <1>1, <2>1
    <2>3. a + g = M + 1
        BY ONLY <2>1, <2>2, n \in Nat, g \in Nat, M \in Nat
    <2> QED BY <2>3 DEF a
<1>2. CASE f = 0 \/ f = Length[p]
    <2>1. pos[m + 1] = N + 1 /\ m \in 1 .. m
        BY <1>2 DEF Ends
    <2>2. rest[m] \in Nat /\ pos[m + 1] + 0 = N + 1
        BY <2>1
    <2>3. rest[m] + 0 = M + 1
        BY <1>1, <2>1, <2>2
    <2>4. rest[c + 1] = M + 1
        BY <2>2, <2>3
    <2> QED BY <1>2, <2>4 DEF Ends
<1>3. CASE ~(f = 0 \/ f = Length[p])
    <2>1. P[m] = p /\ pos[m] + f = N + 1
        BY <1>3 DEF Ends, Part
    <2>2. f \in Nat /\ Length[p] \in Nat /\ f < Length[p]
        <3>1. Length[p] \in Nat /\ f \in 0 .. Length[p] /\ f # Length[p]
            BY <1>3, Lengths
        <3> QED BY ONLY <3>1
    <2>3. c # 0
        <3> SUFFICES ASSUME c = 0 PROVE FALSE
            OBVIOUS
        <3>1. 1 + f = (M + n) + 1 /\ n = Length[p]
            BY <2>1 DEF Laid
        <3> QED BY <2>2, <3>1
    <2>4. c \in 1 .. c /\ c \in 1 .. m
        BY <2>3
    <2>5. Q[c] = p
        BY <2>1, <2>4 DEF Shifted
    <2>6. rest[c] + f = M + 1
        BY <1>1, <2>1, <2>4
    <2> QED BY <1>3, <2>3, <2>5, <2>6 DEF Ends, Part
<1> QED BY <1>2, <1>3

\* The end of the line is lost.
LEMMA LaidCut ==
    ASSUME NEW N \in Nat, NEW A, NEW m \in Nat, NEW P \in [1 .. m -> Packets],
           NEW pos \in [1 .. m + 1 -> Nat], Laid(A, N, m, P, pos),
           NEW M \in 0 .. N, NEW B, \A i \in 1 .. M : B[i] = A[i]
    PROVE  Laid(B, M, m, P, pos)
<1>1. M < pos[m + 1]
    BY DEF Laid
<1>2. ASSUME NEW k \in 1 .. m, NEW j \in 1 .. Length[P[k]], pos[k] + j - 1 <= M
      PROVE  B[pos[k] + j - 1] = <<P[k], j>>
    <2>1. 1 \in 1 .. m + 1 /\ k \in 1 .. m + 1 /\ pos[k] \in Nat /\ Length[P[k]] \in Nat
        BY Lengths
    <2>2. pos[k] >= 1
        BY <2>1 DEF Laid
    <2>3. pos[k] + j - 1 \in 1 .. M /\ pos[k] + j - 1 <= N
        BY <1>2, <2>1, <2>2
    <2> QED BY <2>3 DEF Laid
<1> QED BY <1>1, <1>2 DEF Laid

\* A packet is added, of which no byte is there yet.
LEMMA LaidBegin ==
    ASSUME NEW N \in Nat, NEW A, NEW m \in Nat, NEW P \in [1 .. m -> Packets],
           NEW pos \in [1 .. m + 1 -> Nat], Laid(A, N, m, P, pos),
           NEW p \in Packets, pos[m + 1] = N + 1,
           NEW Q, Q = [k \in 1 .. m + 1 |-> IF k = m + 1 THEN p ELSE P[k]],
           NEW next, next = [k \in 1 .. m + 2 |-> IF k = m + 2 THEN N + 1 + Length[p] ELSE pos[k]]
    PROVE  /\ next \in [1 .. (m + 1) + 1 -> Nat] /\ Laid(A, N, m + 1, Q, next)
           /\ Part(N, m + 1, Q, next, p, 0)
<1>1. /\ Length[p] \in Nat /\ Length[p] > 0 /\ (m + 1) + 1 = m + 2
      /\ \A k \in 1 .. m : k \in 1 .. m + 1 /\ Q[k] = P[k] /\ Length[P[k]] \in Nat
      /\ Q[m + 1] = p
    BY Lengths
<1>2. /\ \A k \in 1 .. m + 1 : next[k] = pos[k] /\ pos[k] \in Nat
      /\ next[m + 2] = N + 1 + Length[p] /\ next[m + 1] = N + 1
    OBVIOUS
<1>3. next \in [1 .. (m + 1) + 1 -> Nat]
    BY <1>1
<1> HIDE DEF Laid
<1>4. \A k \in 1 .. m + 1 : next[k + 1] = next[k] + Length[Q[k]]
    <2> TAKE k \in 1 .. m + 1
    <2>1. CASE k = m + 1
        BY <1>1, <1>2, <2>1
    <2>2. CASE k # m + 1
        <3>1. k \in 1 .. m /\ k + 1 \in 1 .. m + 1
            BY <2>2
        <3>2. pos[k + 1] = pos[k] + Length[P[k]]
            BY <3>1 DEF Laid
        <3> QED BY <1>1, <1>2, <3>1, <3>2
    <2> QED BY <2>1, <2>2
<1>5. \A k, l \in 1 .. (m + 1) + 1 : k <= l => next[k] <= next[l]
    <2> SUFFICES ASSUME NEW k \in 1 .. (m + 1) + 1, NEW l \in 1 .. (m + 1) + 1, k <= l
                 PROVE  next[k] <= next[l]
        OBVIOUS
    <2>1. CASE l \in 1 .. m + 1
        <3>1. k \in 1 .. m + 1
            BY <2>1
        <3> QED BY <1>2, <2>1, <3>1 DEF Laid
    <2>2. CASE l = m + 2 /\ k \in 1 .. m + 1
        <3>1. m + 1 \in 1 .. m + 1 /\ k <= m + 1
            BY <2>2
        <3>2. pos[k] <= pos[m + 1]
            BY <2>2, <3>1 DEF Laid
        <3> QED BY <1>1, <1>2, <2>2, <3>2
    <2>3. CASE l = m + 2 /\ k = m + 2
        BY <1>1, <1>2, <2>3
    <2> QED BY <2>1, <2>2, <2>3
<1>6. ASSUME NEW k \in 1 .. m + 1, NEW j \in 1 .. Length[Q[k]], next[k] + j - 1 <= N
      PROVE  A[next[k] + j - 1] = <<Q[k], j>>
    <2>1. k # m + 1
        BY <1>1, <1>2, <1>6
    <2>2. k \in 1 .. m /\ next[k] = pos[k] /\ Q[k] = P[k]
        BY <1>1, <1>2, <2>1
    <2> QED BY <1>6, <2>2 DEF Laid
<1>7. next[1] = 1 /\ N < next[(m + 1) + 1]
    BY <1>1, <1>2 DEF Laid
<1>8. Part(N, m + 1, Q, next, p, 0)
    BY <1>1, <1>2 DEF Part
<1> QED BY <1>3, <1>4, <1>5, <1>6, <1>7, <1>8 DEF Laid

\* The next n bytes of the last packet come.
LEMMA LaidGrow ==
    ASSUME NEW N \in Nat, NEW A, NEW m \in Nat, NEW P \in [1 .. m -> Packets],
           NEW pos \in [1 .. m + 1 -> Nat], Laid(A, N, m, P, pos),
           NEW p \in Packets, NEW f \in Nat, Part(N, m, P, pos, p, f),
           NEW n \in Nat \ {0}, f + n <= Length[p],
           NEW B, \A i \in 1 .. N : B[i] = A[i], \A k \in 1 .. n : B[N + k] = <<p, f + k>>
    PROVE  /\ Laid(B, N + n, m, P, pos) /\ Part(N + n, m, P, pos, p, f + n)
           /\ Ends(N + n, m, P, pos, p, f + n)
<1>1. m \in 1 .. m /\ P[m] = p /\ pos[m] \in Nat /\ pos[m] + f = N + 1 /\ Length[p] \in Nat
    BY Lengths DEF Part
<1>2. pos[m + 1] = pos[m] + Length[p]
    BY <1>1 DEF Laid
<1>3. N + n < pos[m + 1]
    BY <1>1, <1>2
<1>4. ASSUME NEW k \in 1 .. m, NEW j \in 1 .. Length[P[k]], pos[k] + j - 1 <= N + n
      PROVE  B[pos[k] + j - 1] = <<P[k], j>>
    <2>1. k \in 1 .. m + 1 /\ 1 \in 1 .. m + 1 /\ pos[k] \in Nat /\ Length[P[k]] \in Nat
        BY Lengths
    <2>2. pos[k] >= 1
        BY <2>1 DEF Laid
    <2>3. CASE pos[k] + j - 1 <= N
        <3>1. pos[k] + j - 1 \in 1 .. N
            BY <2>1, <2>2, <2>3
        <3> QED BY <2>3, <3>1 DEF Laid
    <2>4. CASE ~(pos[k] + j - 1 <= N)
        <3>1. k = m
            <4> SUFFICES ASSUME k # m PROVE FALSE
                OBVIOUS
            <4>1. k + 1 \in 1 .. m + 1 /\ k + 1 <= m /\ m \in 1 .. m + 1
                OBVIOUS
            <4>2. pos[k + 1] <= pos[m] /\ pos[k + 1] = pos[k] + Length[P[k]]
                BY <4>1 DEF Laid
            <4>3. PICK a \in Nat, b \in Nat, c \in Nat, d \in Nat :
                      a = pos[k] /\ b = pos[k + 1] /\ c = pos[m] /\ d = Length[P[k]]
                BY <1>1, <2>1, <4>1
            <4>4. b <= c /\ b = a + d /\ c + f = N + 1 /\ ~(a + j - 1 <= N) /\ j <= d /\ j \in Nat
                BY <1>1, <2>4, <4>2, <4>3
            <4> QED BY <4>4
        <3>2. PICK a \in Nat : a = pos[m]
            BY <1>1
        <3>3. /\ pos[m] + j - 1 = N + (j - f) /\ j - f \in 1 .. n /\ f + (j - f) = j
            <4>1. a + f = N + 1 /\ a + j - 1 <= N + n /\ ~(a + j - 1 <= N) /\ j \in Nat
                BY <1>1, <1>4, <2>1, <2>4, <3>2, <3>1
            <4>2. a + j - 1 = N + (j - f) /\ j - f \in 1 .. n /\ f + (j - f) = j
                BY <4>1
            <4> QED BY <3>2, <4>2
        <3>4. B[N + (j - f)] = <<p, f + (j - f)>>
            BY <3>3
        <3> QED BY <1>1, <3>1, <3>3, <3>4
    <2> QED BY <2>3, <2>4
<1>5. Laid(B, N + n, m, P, pos)
    <2>1. /\ pos[1] = 1
          /\ \A k \in 1 .. m : pos[k + 1] = pos[k] + Length[P[k]]
          /\ \A k, l \in 1 .. m + 1 : k <= l => pos[k] <= pos[l]
        BY DEF Laid
    <2> QED BY <1>3, <1>4, <2>1 DEF Laid
<1>6. Part(N + n, m, P, pos, p, f + n)
    <2>1. PICK a \in Nat : a = pos[m]
        BY <1>1
    <2>2. a + f = N + 1
        BY <1>1, <2>1
    <2>3. a + (f + n) = (N + n) + 1
        BY ONLY <2>2, N \in Nat, n \in Nat, f \in Nat, a \in Nat
    <2> QED BY <1>1, <2>1, <2>3 DEF Part
<1>7. f + n = Length[p] => pos[m + 1] = (N + n) + 1
    BY <1>2, <1>6 DEF Part
<1> QED BY <1>5, <1>6, <1>7 DEF Ends

-----------------------------------------------------------------------------
(* What was sent and has not been processed, against the bytes that are there. *)

Line == [i \in 1 .. LineLen |-> At(i)]
Moved == Length[outgoingPacket] - bytesOut + written

\* The packets sent after those that were processed, and the rest of them.
OnLine(m) == [k \in 1 .. m |-> sent[Len(received) + k]]
Queued(b) ==
    /\ b + Len(outPackets) = Len(sent)
    /\ \A k \in 1 .. Len(outPackets) : sent[b + k] = outPackets[k]

\* The connection lasts, and no handler of the one before has written.
Live == up /\ socket = "open" /\ ~stale

\* While it does the line ends where the write in progress is, and
\* what is not on it yet is in the queue.
Pending(m, pos) ==
    /\ writes = 0 => pos[m + 1] = LineLen + 1 /\ Len(received) + m = Len(sent) /\ outPackets = <<>>
    /\ writes = 1 =>
        /\ Ends(LineLen, m, OnLine(m), pos, outgoingPacket, Moved)
        /\ IF Moved = 0 THEN Queued(Len(received) + m + 1) /\ sent[Len(received) + m + 1] = outgoingPacket
                        ELSE Queued(Len(received) + m)

\* However the connection ends, the line is the next m packets that were sent.
Account(m, pos) ==
    /\ m \in Nat /\ pos \in [1 .. m + 1 -> Nat]
    /\ Len(received) + m <= Len(sent)
    /\ Laid(Line, LineLen, m, OnLine(m), pos)
    /\ Live => Pending(m, pos)
Ledger == \E m, pos : Account(m, pos)

\* The line has the bytes of its two parts.
LEMMA LineBytes ==
    ASSUME ReceiverType
    PROVE  /\ LineLen \in Nat /\ Line \in [1 .. LineLen -> Byte]
           /\ \A i \in 1 .. LineLen : Line[i] = At(i)
           /\ Len(incoming) \in 0 .. LineLen
           /\ \A i \in 1 .. Len(incoming) : Line[i] = incoming[i]
<1>1. Len(incoming) \in Nat /\ Len(wire) \in Nat /\ incoming \in Seq(Byte) /\ wire \in Seq(Byte)
    BY DEF ReceiverType
<1>2. LineLen \in Nat /\ Len(incoming) \in 0 .. LineLen
    BY <1>1 DEF LineLen
<1>3. ASSUME NEW i \in 1 .. LineLen PROVE At(i) \in Byte
    <2>1. CASE i <= Len(incoming)
        <3>1. incoming[i] \in Byte
            BY <1>1, <1>2, <2>1
        <3> QED BY <2>1, <3>1 DEF At
    <2>2. CASE ~(i <= Len(incoming))
        <3>1. i - Len(incoming) \in 1 .. Len(wire)
            BY <1>1, <2>2 DEF LineLen
        <3>2. wire[i - Len(incoming)] \in Byte
            BY <1>1, <3>1
        <3> QED BY <2>2, <3>2 DEF At
    <2> QED BY <2>1, <2>2
<1>4. \A i \in 1 .. Len(incoming) : i \in 1 .. LineLen /\ At(i) = incoming[i]
    BY <1>1, <1>2 DEF At
<1> QED BY <1>2, <1>3, <1>4 DEF Line

\* What lies between the two ends, byte by byte
LineJoined ==
    /\ Line \in [1 .. LineLen -> Byte]
    /\ \A i \in 1 .. LineLen :
        Line[i] = IF i <= Len(incoming) THEN incoming[i] ELSE wire[i - Len(incoming)]
\* After a step it is made of the same two parts.
LEMMA LineBytesNext == ReceiverType' => LineJoined'
<1>1. ReceiverType => LineJoined
    <2> SUFFICES ASSUME ReceiverType PROVE LineJoined
        OBVIOUS
    <2>1. Line \in [1 .. LineLen -> Byte] /\ \A i \in 1 .. LineLen : Line[i] = At(i)
        BY LineBytes
    <2> QED BY <2>1 DEF At, LineJoined
<1> QED BY <1>1, PTL

\* The types of what the account counts.
LEMMA Counts ==
    ASSUME SenderType, ReceiverType
    PROVE  /\ Len(sent) \in Nat /\ Len(received) \in Nat /\ Len(outPackets) \in Nat /\ LineLen \in Nat
           /\ \A m \in Nat : Len(received) + m <= Len(sent) => OnLine(m) \in [1 .. m -> Packets]
           /\ writes = 1 =>
                /\ outgoingPacket \in Packets /\ Length[outgoingPacket] \in Nat
                /\ bytesOut \in Nat /\ written \in Nat
                /\ written <= bytesOut /\ bytesOut <= Length[outgoingPacket]
                /\ Moved \in 0 .. Length[outgoingPacket]
<1>1. Len(sent) \in Nat /\ Len(received) \in Nat /\ Len(outPackets) \in Nat /\ LineLen \in Nat
    BY LineBytes DEF SenderType, ReceiverType
<1>2. ASSUME NEW m \in Nat, Len(received) + m <= Len(sent) PROVE OnLine(m) \in [1 .. m -> Packets]
    <2>1. ASSUME NEW k \in 1 .. m PROVE sent[Len(received) + k] \in Packets
        <3>1. Len(received) + k \in 1 .. Len(sent)
            BY <1>1, <1>2
        <3> QED BY <3>1 DEF SenderType
    <2> QED BY <2>1 DEF OnLine
<1>3. ASSUME writes = 1
      PROVE  /\ outgoingPacket \in Packets /\ Length[outgoingPacket] \in Nat
             /\ bytesOut \in Nat /\ written \in Nat
             /\ written <= bytesOut /\ bytesOut <= Length[outgoingPacket]
             /\ Moved \in 0 .. Length[outgoingPacket]
    BY <1>3, LengthAssumption DEF SenderType, Writing, Moved
<1> QED BY <1>1, <1>2, <1>3

\* An account after a step.
LEMMA LedgerNext ==
    ASSUME NEW m \in Nat, NEW pos \in [1 .. m + 1 -> Nat],
           Len(received') + m <= Len(sent'),
           Laid(Line', LineLen', m, OnLine(m)', pos),
           Live' => Pending(m, pos)'
    PROVE  Ledger'
BY DEF Ledger, Account, Laid

\* A step that leaves the line alone and does not go on to write.
LEMMA LedgerRests ==
    ASSUME Ledger, Line' = Line, LineLen' = LineLen, UNCHANGED <<sent, received>>,
           Live' => Live /\ UNCHANGED <<outPackets, outgoingPacket, bytesOut, writes, written>>
    PROVE  Ledger'
<1>1. PICK m, pos : Account(m, pos)
    BY DEF Ledger
<1>2. OnLine(m)' = OnLine(m)
    BY DEF OnLine
<1>3. Laid(Line', LineLen', m, OnLine(m)', pos) /\ Len(received') + m <= Len(sent')
    BY <1>1, <1>2 DEF Account
<1>4. m \in Nat /\ pos \in [1 .. m + 1 -> Nat]
    BY <1>1 DEF Account
<1>5. ASSUME Live' PROVE Pending(m, pos)'
    <2>1. Pending(m, pos) /\ UNCHANGED <<outPackets, outgoingPacket, bytesOut, writes, written>>
        BY <1>1, <1>5 DEF Account
    <2> QED BY <1>2, <2>1 DEF Pending, Ends, Part, Queued, Moved
<1> QED BY <1>3, <1>4, <1>5, LedgerNext

\* sendPacket: behind all that was sent before.
LEMMA LedgerSend ==
    ASSUME SenderType, ReceiverType, Attended, Ledger, NEW p \in Packets, SendPacket(p)
    PROVE  Ledger'
<1>1. PICK m, pos : Account(m, pos)
    BY DEF Ledger
<1>2. m \in Nat /\ pos \in [1 .. m + 1 -> Nat] /\ Len(received) + m <= Len(sent)
    BY <1>1 DEF Account
<1>3. /\ Len(sent) \in Nat /\ Len(received) \in Nat /\ Len(outPackets) \in Nat
      /\ sent \in Seq(Packets) /\ outPackets \in Seq(Packets)
    BY Counts DEF SenderType
<1>4. /\ Queue(p) /\ UNCHANGED <<written, up, socket, stale, wire, incoming, received>>
      /\ Len(sent') = Len(sent) + 1 /\ sent'[Len(sent) + 1] = p
      /\ \A i \in 1 .. Len(sent) : sent'[i] = sent[i]
    <2>1. sent' = Append(sent, p) /\ Queue(p) /\ UNCHANGED <<written, up, socket, stale, wire, incoming, received>>
        BY DEF SendPacket, link, receiver
    <2> QED BY <1>3, <2>1
<1>5. Line' = Line /\ LineLen' = LineLen
    BY <1>4 DEF Line, LineLen, At
<1>6. OnLine(m)' = OnLine(m)
    <2>1. \A k \in 1 .. m : Len(received) + k \in 1 .. Len(sent)
        BY <1>2, <1>3
    <2> QED BY <1>4, <2>1 DEF OnLine
<1>7. Laid(Line', LineLen', m, OnLine(m)', pos) /\ Len(received') + m <= Len(sent')
    BY <1>1, <1>2, <1>3, <1>4, <1>5, <1>6 DEF Account
<1>8. ASSUME Live' PROVE Pending(m, pos)'
    <2>1. Pending(m, pos)
        BY <1>1, <1>4, <1>8 DEF Account, Live
    <2>2. CASE sendInProgress
        <3>1. /\ outPackets' = Append(outPackets, p) /\ writes > 0
              /\ UNCHANGED <<outgoingPacket, bytesOut, writes>>
            BY <1>4, <1>8, <2>2 DEF Live, Queue, Attended, SendPacket
        <3>2. /\ Len(outPackets') = Len(outPackets) + 1 /\ outPackets'[Len(outPackets) + 1] = p
              /\ \A k \in 1 .. Len(outPackets) : outPackets'[k] = outPackets[k]
            BY <1>3, <3>1
        <3>3. ASSUME NEW b \in Nat, Queued(b) PROVE Queued(b)'
            <4>1. b + Len(outPackets) = Len(sent)
                BY <3>3 DEF Queued
            <4>2. b + Len(outPackets') = Len(sent')
                <5>1. Len(outPackets') = Len(outPackets) + 1 /\ Len(sent') = Len(sent) + 1
                    BY <1>4, <3>2
                <5>2. Len(outPackets) \in Nat /\ Len(sent) \in Nat
                    BY <1>3
                <5>3. ASSUME NEW c \in Nat, NEW d \in Nat, b + c = d PROVE b + (c + 1) = d + 1
                    BY <5>3
                <5> QED BY <4>1, <5>1, <5>2, <5>3
            <4>3. ASSUME NEW k \in 1 .. Len(outPackets') PROVE sent'[b + k] = outPackets'[k]
                <5>1. CASE k = Len(outPackets) + 1
                    BY <1>3, <1>4, <3>2, <4>1, <5>1
                <5>2. CASE k # Len(outPackets) + 1
                    <6>1. k \in 1 .. Len(outPackets) /\ b + k \in 1 .. Len(sent)
                        BY <1>3, <3>2, <4>1, <5>2
                    <6> QED BY <1>4, <3>2, <3>3, <6>1 DEF Queued
                <5> QED BY <5>1, <5>2
            <4> QED BY <4>2, <4>3 DEF Queued
        <3>4. Moved' = Moved /\ Len(received) + m \in Nat /\ Len(received) + m + 1 \in Nat
            BY <1>2, <1>3, <1>4, <3>1 DEF Moved
        <3>5. Queued(Len(received) + m + 1) => Len(received) + m + 1 \in 1 .. Len(sent)
            BY <1>2, <1>3 DEF Queued
        <3>6. Queued(Len(received) + m + 1) =>
                  Queued(Len(received) + m + 1)' /\ sent'[Len(received) + m + 1] = sent[Len(received) + m + 1]
            BY <1>4, <3>3, <3>4, <3>5 DEF Queued
        <3>7. Queued(Len(received) + m) => Queued(Len(received) + m)'
            BY <1>4, <3>3, <3>4 DEF Queued
        <3>8. writes' = writes /\ writes # 0 /\ received' = received
            BY <1>4, <3>1 DEF SenderType
        <3> QED BY <1>5, <1>6, <2>1, <3>1, <3>4, <3>6, <3>7, <3>8 DEF Pending, Ends, Part
    <2>3. CASE ~sendInProgress
        <3>1. /\ outgoingPacket' = p /\ bytesOut' = Length[p] /\ writes' = writes + 1
              /\ outPackets' = outPackets /\ writes \in Nat /\ Length[p] \in Nat
              /\ (writes = 0 => written = 0)
            BY <1>4, <2>3, LengthAssumption DEF Queue, Begin, SenderType, Writing
        <3>2. ASSUME writes' = 1
              PROVE  /\ Moved' = 0 /\ pos[m + 1] = LineLen' + 1
                     /\ Queued(Len(received) + m + 1)' /\ sent'[Len(received) + m + 1] = p
            <4>1. writes = 0 /\ written = 0
                BY <3>1, <3>2
            <4>2. pos[m + 1] = LineLen + 1 /\ Len(received) + m = Len(sent) /\ outPackets' = <<>>
                BY <2>1, <3>1, <4>1 DEF Pending
            <4>3. Moved' = 0
                BY <1>4, <3>1, <4>1 DEF Moved
            <4> QED BY <1>3, <1>4, <1>5, <4>2, <4>3 DEF Queued
        <3>3. writes' # 0
            BY <3>1
        <3> QED BY <1>4, <3>1, <3>2, <3>3 DEF Pending, Ends
    <2> QED BY <2>2, <2>3
<1> QED BY <1>2, <1>7, <1>8, LedgerNext

\* A write moves bytes of the packet behind those on the line, or of the last of them.
LEMMA LedgerWrite ==
    ASSUME SenderType, ReceiverType, Ledger, WriteSome, ReceiverType'
    PROVE  Ledger'
<1>1. PICK m, pos : Account(m, pos)
    BY DEF Ledger
<1>2. m \in Nat /\ pos \in [1 .. m + 1 -> Nat] /\ Len(received) + m <= Len(sent)
    BY <1>1 DEF Account
<1>3. PICK n \in 1 .. bytesOut :
          LET first == Length[outgoingPacket] - bytesOut
          IN /\ written' = n /\ wire' \in Seq(Byte) /\ Len(wire') = Len(wire) + n
             /\ \A i \in 1 .. Len(wire) : wire'[i] = wire[i]
             /\ \A k \in 1 .. n : wire'[Len(wire) + k] = <<outgoingPacket, first + k>>
    BY WireGrows
<1> DEFINE p == outgoingPacket
           f == Length[p] - bytesOut
           N == LineLen
<1>4. /\ writes = 1 /\ written = 0 /\ Live /\ incoming' = incoming
      /\ UNCHANGED <<sent, received, outPackets, outgoingPacket, bytesOut, writes, up, socket, stale>>
    BY DEF WriteSome, Alone, Live, link, receiver
<1>5. p \in Packets /\ bytesOut <= Length[p] /\ bytesOut \in Nat /\ Length[p] \in Nat
    BY <1>4, LengthAssumption DEF SenderType, Writing
<1>6. f \in Nat /\ n \in Nat \ {0} /\ f + n <= Length[p] /\ f # Length[p] /\ f + n # 0
    BY <1>5
<1>7. Moved = f /\ Moved' = f + n
    BY <1>3, <1>4, <1>5 DEF Moved
<1>8. Len(incoming) \in Nat /\ Len(wire) \in Nat
    BY DEF ReceiverType
<1>9. LineLen' = N + n
    <2>1. LineLen' = Len(incoming) + Len(wire')
        BY <1>4 DEF LineLen
    <2> QED BY <1>3, <1>6, <1>8, <2>1 DEF LineLen
<1>10. /\ N \in Nat /\ Line \in [1 .. N -> Byte] /\ Line' \in [1 .. N + n -> Byte]
       /\ \A i \in 1 .. N : Line[i] = At(i)
       /\ \A i \in 1 .. N + n : Line'[i] = IF i <= Len(incoming) THEN incoming[i] ELSE wire'[i - Len(incoming)]
    <2>1. /\ LineLen \in Nat /\ Line \in [1 .. LineLen -> Byte]
          /\ \A i \in 1 .. LineLen : Line[i] = At(i)
        BY LineBytes
    <2> QED BY <1>4, <1>9, <2>1, LineBytesNext DEF LineJoined
<1>11. \A i \in 1 .. N : Line'[i] = Line[i]
    <2> TAKE i \in 1 .. N
    <2>1. i \in 1 .. N + n
        BY <1>6, <1>10
    <2>2. CASE i <= Len(incoming)
        BY <1>4, <1>10, <2>1, <2>2 DEF At
    <2>3. CASE ~(i <= Len(incoming))
        <3>1. i - Len(incoming) \in 1 .. Len(wire)
            BY <1>8, <2>3 DEF LineLen
        <3>2. Line'[i] = wire'[i - Len(incoming)] /\ Line[i] = wire[i - Len(incoming)]
            BY <1>10, <2>1, <2>3 DEF At
        <3> QED BY <1>3, <3>1, <3>2
    <2> QED BY <2>2, <2>3
<1>12. \A k \in 1 .. n : Line'[N + k] = <<p, f + k>>
    <2> TAKE k \in 1 .. n
    <2>1. N + k \in 1 .. N + n /\ ~(N + k <= Len(incoming)) /\ N + k - Len(incoming) = Len(wire) + k
        BY <1>6, <1>8 DEF LineLen
    <2>2. Line'[N + k] = wire'[N + k - Len(incoming)]
        BY <1>10, <2>1
    <2> QED BY <1>3, <2>1, <2>2
<1>13. /\ Laid(Line, N, m, OnLine(m), pos) /\ Ends(N, m, OnLine(m), pos, p, f)
       /\ IF f = 0 THEN Queued(Len(received) + m + 1) /\ sent[Len(received) + m + 1] = p
                   ELSE Queued(Len(received) + m)
    BY <1>1, <1>4, <1>7 DEF Account, Pending
<1>14. OnLine(m) \in [1 .. m -> Packets] /\ Len(received) \in Nat /\ Len(sent) \in Nat /\ Len(outPackets) \in Nat
    BY <1>2, Counts
<1>15. /\ \A k : OnLine(k)' = OnLine(k) /\ (Queued(k) => Queued(k)')
       /\ Len(received') = Len(received) /\ Len(sent') = Len(sent)
    BY <1>4 DEF OnLine, Queued
<1>16. N \in Nat /\ f \in Nat /\ p \in Packets /\ n \in Nat \ {0} /\ f + n <= Length[p]
    BY <1>5, <1>6, <1>10
<1> HIDE DEF p, f, N
<1>17. ASSUME NEW k \in Nat, NEW P \in [1 .. k -> Packets], NEW r \in [1 .. k + 1 -> Nat],
              Laid(Line, N, k, P, r), Part(N, k, P, r, p, f)
       PROVE  Laid(Line', N + n, k, P, r) /\ Ends(N + n, k, P, r, p, f + n)
    BY <1>11, <1>12, <1>16, <1>17, LaidGrow, ZenonT(60)
<1>18. ASSUME NEW k \in Nat, NEW r \in [1 .. k + 1 -> Nat],
              Laid(Line', N + n, k, OnLine(k), r), Ends(N + n, k, OnLine(k), r, p, f + n),
              Queued(Len(received) + k), Len(received) + k <= Len(sent)
       PROVE  Ledger'
    <2>1. Laid(Line', LineLen', k, OnLine(k)', r) /\ Ends(LineLen', k, OnLine(k)', r, p, Moved')
        BY <1>7, <1>9, <1>15, <1>18
    <2>2. Moved' # 0 /\ writes' = 1 /\ outgoingPacket' = p /\ Queued(Len(received) + k)'
        BY <1>4, <1>6, <1>7, <1>15, <1>18 DEF p
    <2>3. Pending(k, r)'
        BY <1>4, <2>1, <2>2 DEF Pending, Ends, Part
    <2> QED BY <1>15, <1>18, <2>1, <2>3, LedgerNext
<1>19. CASE f = 0
    <2> DEFINE Q == [k \in 1 .. m + 1 |-> IF k = m + 1 THEN p ELSE OnLine(m)[k]]
               next == [k \in 1 .. m + 2 |-> IF k = m + 2 THEN N + 1 + Length[p] ELSE pos[k]]
    <2>1. pos[m + 1] = N + 1
        BY <1>13, <1>19 DEF Ends
    <2>2. /\ next \in [1 .. (m + 1) + 1 -> Nat] /\ Laid(Line, N, m + 1, Q, next)
          /\ Part(N, m + 1, Q, next, p, 0)
        BY <1>2, <1>5, <1>10, <1>13, <1>14, <2>1, LaidBegin
    <2>3. Q = OnLine(m + 1)
        <3>1. \A k \in 1 .. m + 1 : Q[k] = sent[Len(received) + k]
            BY <1>2, <1>13, <1>14, <1>19 DEF OnLine
        <3> QED BY <3>1 DEF OnLine
    <2>4. Q \in [1 .. m + 1 -> Packets] /\ m + 1 \in Nat
        BY <1>2, <1>5, <1>14
    <2> HIDE DEF Q, next
    <2>5. /\ Laid(Line', N + n, m + 1, Q, next)
          /\ Ends(N + n, m + 1, Q, next, p, f + n)
        BY <1>17, <1>19, <2>2, <2>4
    <2>6. Len(received) + m + 1 = Len(received) + (m + 1) /\ Len(received) + (m + 1) \in Nat
        BY <1>2, <1>14
    <2>7. Queued(Len(received) + (m + 1))
        BY <1>13, <1>19, <2>6
    <2>8. Len(received) + (m + 1) <= Len(sent)
        <3>1. PICK b \in Nat : b = Len(received) + (m + 1)
            BY <2>6
        <3>2. b + Len(outPackets) = Len(sent)
            BY <2>7, <3>1 DEF Queued
        <3> QED BY <1>14, <3>1, <3>2
    <2> QED BY <1>18, <2>2, <2>3, <2>4, <2>5, <2>7, <2>8
<1>20. CASE f # 0
    <2>1. Part(N, m, OnLine(m), pos, p, f)
        BY <1>6, <1>13, <1>20 DEF Ends
    <2>2. /\ Laid(Line', N + n, m, OnLine(m), pos)
          /\ Ends(N + n, m, OnLine(m), pos, p, f + n)
        BY <1>2, <1>13, <1>14, <1>17, <2>1
    <2> QED BY <1>2, <1>13, <1>18, <1>20, <2>2
<1> QED BY <1>19, <1>20

\* A completion goes on with the packet, takes the next one, or ends.
LEMMA LedgerWritten ==
    ASSUME SenderType, ReceiverType, Ledger, WriteRest \/ WriteNext \/ WriteDone
    PROVE  Ledger'
<1>1. PICK m, pos : Account(m, pos)
    BY DEF Ledger
<1>2. m \in Nat /\ pos \in [1 .. m + 1 -> Nat] /\ Len(received) + m <= Len(sent)
    BY <1>1 DEF Account
<1>3. /\ writes = 1 /\ written > 0
      /\ UNCHANGED <<sent, received, up, socket, stale, wire, incoming>>
    BY DEF WriteRest, WriteNext, WriteDone, Written, Alone, link, receiver
<1>4. /\ outgoingPacket \in Packets /\ Length[outgoingPacket] \in Nat /\ bytesOut \in Nat /\ written \in Nat
      /\ written <= bytesOut /\ Len(received) \in Nat /\ Len(sent) \in Nat /\ Len(outPackets) \in Nat
      /\ Len(received) + m \in Nat
    BY <1>2, <1>3, Counts
<1>5. Line' = Line /\ LineLen' = LineLen
    BY <1>3 DEF Line, LineLen, At
<1>6. OnLine(m)' = OnLine(m) /\ Len(received') = Len(received) /\ Len(sent') = Len(sent)
    BY <1>3 DEF OnLine
<1>7. Laid(Line', LineLen', m, OnLine(m)', pos)
    BY <1>1, <1>5, <1>6 DEF Account
<1>8. ASSUME Live' PROVE Pending(m, pos)'
    <2>1. /\ Ends(LineLen, m, OnLine(m), pos, outgoingPacket, Moved)
          /\ IF Moved = 0 THEN Queued(Len(received) + m + 1) /\ sent[Len(received) + m + 1] = outgoingPacket
                          ELSE Queued(Len(received) + m)
        BY <1>1, <1>3, <1>8 DEF Account, Live, Pending
    <2>2. ASSUME written = bytesOut PROVE pos[m + 1] = LineLen + 1 /\ Queued(Len(received) + m)
        <3>1. Moved = Length[outgoingPacket]
            BY <1>4, <2>2 DEF Moved
        <3>2. Moved # 0
            BY <1>4, <3>1, Lengths
        <3> QED BY <2>1, <3>1, <3>2 DEF Ends
    <2>3. CASE WriteRest
        <3>1. Moved' = Moved /\ UNCHANGED <<outgoingPacket, outPackets, writes>>
            BY <1>4, <2>3 DEF WriteRest, Moved
        <3> QED BY <1>3, <1>5, <1>6, <2>1, <3>1 DEF Pending, Ends, Part, Queued
    <2>4. CASE WriteNext
        <3>1. /\ written = bytesOut /\ written' = 0 /\ bytesOut' = Length[outgoingPacket'] /\ writes' = 1
              /\ outPackets # <<>> /\ outgoingPacket' = Head(outPackets) /\ outPackets' = Tail(outPackets)
              /\ outPackets \in Seq(Packets)
            BY <1>3, <2>4 DEF WriteNext, Written, Alone, SenderType
        <3>2. /\ Head(outPackets) = outPackets[1] /\ Head(outPackets) \in Packets
              /\ Len(outPackets') = Len(outPackets) - 1 /\ Len(outPackets) >= 1
              /\ \A k \in 1 .. Len(outPackets) - 1 : outPackets'[k] = outPackets[k + 1]
            BY <3>1
        <3>3. Moved' = 0
            <4>1. Length[outgoingPacket'] \in Nat
                BY <3>1, <3>2, LengthAssumption
            <4> QED BY <3>1, <4>1 DEF Moved
        <3>4. pos[m + 1] = LineLen + 1 /\ Queued(Len(received) + m)
            BY <2>2, <3>1
        <3>5. PICK b \in Nat : b = Len(received) + m
            BY <1>4
        <3>6. b + Len(outPackets) = Len(sent) /\ \A k \in 1 .. Len(outPackets) : sent[b + k] = outPackets[k]
            BY <3>4, <3>5 DEF Queued
        <3>7. sent[b + 1] = outgoingPacket'
            BY <3>1, <3>2, <3>6, <1>4
        <3>8. b + 1 + Len(outPackets') = Len(sent)
            <4>1. PICK c \in Nat : c = Len(outPackets)
                BY <1>4
            <4>2. c >= 1 /\ b + c = Len(sent) /\ Len(outPackets') = c - 1
                BY <3>2, <3>6, <4>1
            <4>3. b + 1 + (c - 1) = b + c
                BY ONLY b \in Nat, c \in Nat
            <4> QED BY <4>2, <4>3
        <3>9. ASSUME NEW k \in 1 .. Len(outPackets') PROVE sent[b + 1 + k] = outPackets'[k]
            <4>1. k \in 1 .. Len(outPackets) - 1 /\ k + 1 \in 1 .. Len(outPackets) /\ b + 1 + k = b + (k + 1)
                BY <1>4, <3>2
            <4> QED BY <3>2, <3>6, <4>1
        <3>10. Queued(b + 1)'
            BY <1>3, <3>8, <3>9 DEF Queued
        <3> QED BY <1>3, <1>5, <3>1, <3>3, <3>4, <3>5, <3>7, <3>10 DEF Pending, Ends, Part
    <2>5. CASE WriteDone
        <3>1. written = bytesOut /\ writes' = 0 /\ outPackets' = <<>> /\ outPackets = <<>>
            BY <1>3, <2>5 DEF WriteDone, Written, Alone
        <3>2. pos[m + 1] = LineLen + 1 /\ Queued(Len(received) + m)
            BY <2>2, <3>1
        <3>3. Len(received) + m = Len(sent)
            BY <1>4, <3>1, <3>2 DEF Queued
        <3> QED BY <1>5, <1>6, <3>1, <3>2, <3>3 DEF Pending
    <2> QED BY <2>3, <2>4, <2>5
<1> QED BY <1>2, <1>6, <1>7, <1>8, LedgerNext

\* What is read and not processed yet begins with the packet after those processed.
LEMMA FirstOnLine ==
    ASSUME SenderType, ReceiverType, NEW m, NEW pos, Account(m, pos), LineLen > 0
    PROVE  /\ m \in Nat \ {0} /\ Len(received) < Len(sent)
           /\ OnLine(m) \in [1 .. m -> Packets] /\ OnLine(m)[1] = sent[Len(received) + 1]
           /\ \A i \in 1 .. Length[OnLine(m)[1]] : i <= LineLen => At(i) = <<OnLine(m)[1], i>>
<1>1. m \in Nat /\ pos \in [1 .. m + 1 -> Nat] /\ Len(received) + m <= Len(sent)
    BY DEF Account
<1>2. Len(received) \in Nat /\ Len(sent) \in Nat /\ LineLen \in Nat /\ OnLine(m) \in [1 .. m -> Packets]
    BY <1>1, Counts
<1>3. pos[1] = 1 /\ LineLen < pos[m + 1]
    BY DEF Account, Laid
<1>4. m # 0
    <2> SUFFICES ASSUME m = 0 PROVE FALSE
        OBVIOUS
    <2>1. LineLen < 1
        BY <1>3
    <2> QED BY <1>2, <2>1
<1>5. m \in Nat \ {0} /\ 1 \in 1 .. m /\ Len(received) < Len(sent)
    BY <1>1, <1>2, <1>4
<1>6. OnLine(m)[1] = sent[Len(received) + 1]
    BY <1>5 DEF OnLine
<1>7. ASSUME NEW i \in 1 .. Length[OnLine(m)[1]], i <= LineLen PROVE At(i) = <<OnLine(m)[1], i>>
    <2>1. Length[OnLine(m)[1]] \in Nat
        BY <1>2, <1>5, Lengths
    <2>2. pos[1] + i - 1 = i /\ i \in 1 .. LineLen
        BY <1>2, <1>3, <1>7, <2>1
    <2>3. Line[pos[1] + i - 1] = <<OnLine(m)[1], i>>
        BY <1>5, <1>7, <2>2 DEF Account, Laid
    <2>4. Line[i] = At(i)
        BY <2>2, LineBytes
    <2> QED BY <2>2, <2>3, <2>4
<1> QED BY <1>2, <1>5, <1>6, <1>7

\* A read that completes a packet takes it from the front, and gives on what was
\* sent after the packets processed before.
LEMMA LedgerRead ==
    ASSUME SenderType, ReceiverType, Ledger, ReadPacket, ReceiverType'
    PROVE  Ledger' /\ Len(received) < Len(sent) /\ received' = Append(received, sent[Len(received) + 1])
<1>1. PICK m, pos : Account(m, pos)
    BY DEF Ledger
<1>2. m \in Nat /\ pos \in [1 .. m + 1 -> Nat] /\ Len(received) + m <= Len(sent)
    BY <1>1 DEF Account
<1> DEFINE N == LineLen
           n == Length[At(1)[1]]
           P == OnLine(m)
<1>3. LineMoves(n) /\ received' = Append(received, At(1)[1])
    BY ReaderMoves
<1>4. n \in 1 .. N /\ LineLen' = N - n /\ \A i \in 1 .. N - n : At(i)' = At(i + n)
    BY <1>3 DEF LineMoves
<1>5. N \in Nat /\ \A i \in 1 .. N : Line[i] = At(i)
    BY LineBytes
<1>6. /\ m \in Nat \ {0} /\ Len(received) < Len(sent)
      /\ P \in [1 .. m -> Packets] /\ P[1] = sent[Len(received) + 1]
      /\ \A i \in 1 .. Length[P[1]] : i <= N => At(i) = <<P[1], i>>
    <2>1. LineLen > 0
        BY <1>4, <1>5
    <2> QED BY <1>1, <2>1, FirstOnLine
<1>7. At(1) = <<P[1], 1>> /\ n = Length[P[1]]
    <2>1. 1 \in 1 .. m /\ 1 <= N
        BY <1>4, <1>5, <1>6
    <2>2. Length[P[1]] \in Nat /\ Length[P[1]] > 0
        BY <1>6, <2>1, Lengths
    <2>3. At(1) = <<P[1], 1>>
        BY <1>6, <2>1, <2>2
    <2> QED BY <2>3
<1>8. received' = Append(received, sent[Len(received) + 1])
    BY <1>3, <1>6, <1>7
<1>9. /\ Len(received) \in Nat /\ Len(sent) \in Nat /\ Len(received') = Len(received) + 1
      /\ UNCHANGED <<sent, outPackets, outgoingPacket, bytesOut, writes, written, up, socket, stale>>
    <2>1. received \in Seq(Packets)
        BY DEF ReceiverType
    <2> QED BY <1>8, <2>1, Counts DEF ReadPacket, Complete, sender, link
<1>10. PICK c \in Nat : c = m - 1
    BY <1>6
<1>11. /\ m = c + 1 /\ Len(received') + c = Len(received) + m /\ Len(received) + m \in Nat
       /\ Len(received) + m <= Len(sent) /\ Len(received) \in Nat /\ Len(received') = Len(received) + 1
    <2>1. PICK a \in Nat, d \in Nat : a = Len(received) /\ d = Len(received') /\ d = a + 1
        BY <1>9
    <2>2. m \in Nat /\ m = c + 1
        BY <1>6, <1>10
    <2>3. d + c = a + m /\ a + m \in Nat
        BY ONLY <2>1, <2>2, a \in Nat, d \in Nat, c \in Nat
    <2> QED BY <1>2, <2>1, <2>2, <2>3
<1>12. PICK M \in Nat : M = LineLen' /\ N = M + n /\ n \in Nat
    <2>1. n \in Nat /\ n <= N /\ LineLen' = N - n
        BY <1>4, <1>5
    <2> HIDE DEF n, N
    <2>2. N - n \in Nat /\ N = (N - n) + n
        BY ONLY <2>1, <1>5
    <2> QED BY <2>1, <2>2
<1>13. Shifted(Line', M, Line, n)
    <2>1. \A i \in 1 .. M : Line'[i] = At(i)' /\ i \in 1 .. N - n
        BY <1>4, <1>12 DEF Line
    <2>2. \A i \in 1 .. M : i + n \in 1 .. N
        BY <1>12
    <2> QED BY <1>4, <1>5, <2>1, <2>2 DEF Shifted
<1> HIDE DEF N, n
<1>14. OnLine(c)' \in [1 .. c -> Packets] /\ Shifted(OnLine(c)', c, P, 1)
    <2>1. ASSUME NEW k \in 1 .. c PROVE sent'[Len(received') + k] = P[k + 1] /\ P[k + 1] \in Packets
        <3>1. k + 1 \in 1 .. m /\ Len(received') + k = Len(received) + (k + 1)
            BY <1>11
        <3> QED BY <1>6, <1>9, <3>1 DEF OnLine
    <2> QED BY <2>1 DEF OnLine, Shifted
<1>15. Laid(Line, N, m, P, pos)
    BY <1>1 DEF Account, N
<1> HIDE DEF P
<1>16. N \in Nat /\ P \in [1 .. m -> Packets] /\ n = Length[P[1]] /\ pos \in [1 .. m + 1 -> Nat] /\ m \in Nat
    BY <1>2, <1>5, <1>6, <1>7
<1>17. PICK rest \in [1 .. m -> Nat] : Back(rest, m, pos, n)
    BY <1>6, <1>12, <1>15, <1>16, BackExists
<1>18. Rest(Line', M, c, OnLine(c)', rest, Line, N, m, P, pos, n)
    <2>1. {N, m, c, n, M} \subseteq Nat /\ m = c + 1 /\ N = M + n
        BY <1>10, <1>11, <1>12, <1>16
    <2> QED BY <1>13, <1>14, <1>15, <1>16, <1>17, <2>1 DEF Rest
<1>19. /\ Laid(Line', M, c, OnLine(c)', rest)
       /\ \A p \in Packets : \A f \in 0 .. Length[p] :
              Ends(N, m, P, pos, p, f) => Ends(M, c, OnLine(c)', rest, p, f)
    <2> DEFINE B == Line'
               Q == OnLine(c)'
    <2>1. Rest(B, M, c, Q, rest, Line, N, m, P, pos, n)
        BY <1>18
    <2> HIDE DEF B, Q
    <2>2. Laid(B, M, c, Q, rest)
        BY <2>1, LaidShift
    <2>3. \A p \in Packets : \A f \in 0 .. Length[p] :
              Ends(N, m, P, pos, p, f) => Ends(M, c, Q, rest, p, f)
        BY <2>1, EndsShift
    <2> QED BY <2>2, <2>3 DEF B, Q
<1>20. ASSUME Live' PROVE Pending(c, rest)'
    <2>1. Pending(m, pos)
        BY <1>1, <1>9, <1>20 DEF Account, Live
    <2>2. ASSUME writes' = 0
          PROVE  rest[c + 1] = LineLen' + 1 /\ Len(received') + c = Len(sent') /\ outPackets' = <<>>
        <3>1. pos[m + 1] = N + 1 /\ Len(received) + m = Len(sent) /\ outPackets = <<>>
            BY <1>9, <2>1, <2>2 DEF Pending, N
        <3>2. P[1] \in Packets /\ 0 \in 0 .. Length[P[1]]
            BY <1>6, Lengths
        <3>3. Ends(M, c, OnLine(c)', rest, P[1], 0)
            BY <1>19, <3>1, <3>2 DEF Ends
        <3>4. rest[c + 1] = LineLen' + 1
            BY <1>12, <3>3 DEF Ends
        <3> QED BY <1>9, <1>11, <3>1, <3>4
    <2>3. ASSUME writes' = 1
          PROVE  /\ Ends(LineLen', c, OnLine(c)', rest, outgoingPacket', Moved')
                 /\ IF Moved' = 0
                    THEN /\ Queued(Len(received) + c + 1)'
                         /\ sent'[Len(received') + c + 1] = outgoingPacket'
                    ELSE Queued(Len(received) + c)'
        <3>1. /\ Ends(N, m, P, pos, outgoingPacket, Moved)
              /\ IF Moved = 0
                 THEN Queued(Len(received) + m + 1) /\ sent[Len(received) + m + 1] = outgoingPacket
                 ELSE Queued(Len(received) + m)
            BY <1>9, <2>1, <2>3 DEF Pending, N, P
        <3>2. outgoingPacket \in Packets /\ Moved \in 0 .. Length[outgoingPacket]
            BY <1>9, <2>3, Counts
        <3>3. Ends(LineLen', c, OnLine(c)', rest, outgoingPacket, Moved)
            BY <1>12, <1>19, <3>1, <3>2
        <3>4. Moved' = Moved
            BY <1>9 DEF Moved
        <3>5. ASSUME Queued(Len(received) + m + 1) PROVE Queued(Len(received) + c + 1)'
            BY <1>9, <1>11, <3>5 DEF Queued
        <3>6. ASSUME Queued(Len(received) + m) PROVE Queued(Len(received) + c)'
            BY <1>9, <1>11, <3>6 DEF Queued
        <3> QED BY <1>9, <1>11, <3>1, <3>3, <3>4, <3>5, <3>6
    <2> QED BY <2>2, <2>3 DEF Pending, Ends, Part
<1>21. Len(received') + c <= Len(sent')
    BY <1>9, <1>11
<1>22. Laid(Line', LineLen', c, OnLine(c)', rest)
    BY <1>12, <1>19
<1>23. Ledger'
    BY <1>11, <1>17, <1>20, <1>21, <1>22, LedgerNext
<1> QED BY <1>6, <1>8, <1>23

\* A connection that breaks loses what is on the wire.
LEMMA LedgerBreak ==
    ASSUME SenderType, ReceiverType, Ledger, Break, ReceiverType'
    PROVE  Ledger'
<1>1. PICK m, pos : Account(m, pos)
    BY DEF Ledger
<1>2. m \in Nat /\ pos \in [1 .. m + 1 -> Nat] /\ Len(received) + m <= Len(sent)
    BY <1>1 DEF Account
<1>3. ~up' /\ wire' = <<>> /\ UNCHANGED <<sent, incoming, received>>
    BY DEF Break, sender, receiver
<1>4. OnLine(m)' = OnLine(m) /\ OnLine(m) \in [1 .. m -> Packets]
    BY <1>2, <1>3, Counts DEF OnLine
<1>5. LineLen \in Nat /\ Len(incoming) \in 0 .. LineLen /\ \A i \in 1 .. Len(incoming) : Line[i] = incoming[i]
    BY LineBytes
<1>6. LineLen' = Len(incoming)
    BY <1>3, <1>5 DEF LineLen
<1>7. \A i \in 1 .. Len(incoming) : Line'[i] = Line[i]
    BY <1>3, <1>5, <1>6, LineBytesNext DEF LineJoined
<1> DEFINE B == Line'
           M == Len(incoming)
           P == OnLine(m)
<1>8. Laid(Line, LineLen, m, P, pos) /\ M \in 0 .. LineLen /\ \A i \in 1 .. M : B[i] = Line[i]
    BY <1>1, <1>5, <1>7 DEF Account
<1>9. P \in [1 .. m -> Packets]
    BY <1>4
<1> HIDE DEF B, M, P
<1>10. Laid(B, M, m, P, pos)
    BY <1>2, <1>5, <1>8, <1>9, LaidCut
<1>11. Laid(Line', LineLen', m, OnLine(m)', pos)
    BY <1>4, <1>6, <1>10 DEF B, M, P
<1> QED BY <1>2, <1>3, <1>11, LedgerNext DEF Live

\* Nothing is sent, processed, on the wire or in the queue.
Nothing ==
    /\ sent = <<>> /\ received = <<>> /\ outPackets = <<>>
    /\ wire = <<>> /\ incoming = <<>> /\ (~stale => writes = 0)

\* Then the account is empty.
LEMMA LedgerEmpty == Nothing => Ledger
<1> SUFFICES ASSUME Nothing PROVE Ledger
    OBVIOUS
<1> USE DEF Nothing
<1> DEFINE pos == [k \in 1 .. 1 |-> 1]
<1>1. Len(sent) = 0 /\ Len(received) = 0 /\ LineLen = 0
    BY DEF LineLen
<1>2. 0 \in Nat /\ pos \in [1 .. 0 + 1 -> Nat] /\ Len(received) + 0 <= Len(sent)
    BY <1>1
<1>3. Laid(Line, LineLen, 0, OnLine(0), pos)
    BY <1>1 DEF Laid
<1>4. Live => Pending(0, pos)
    BY <1>1 DEF Pending, Live
<1> QED BY <1>2, <1>3, <1>4 DEF Ledger, Account

\* The initial states, and a new connection.
LEMMA LedgerStarts == (Init => Ledger) /\ (Connect => Ledger')
<1>1. Nothing' => Ledger'
    BY LedgerEmpty, PTL
<1>2. Init => Nothing
    BY DEF Init, Nothing
<1>3. Connect => Nothing'
    BY DEF Connect, Nothing
<1> QED BY <1>1, <1>2, <1>3, LedgerEmpty

\* Every step.
LEMMA LedgerKeeps ==
    ASSUME SenderType, ReceiverType, Attended, Ledger, ReceiverType', [Next]_vars
    PROVE  Ledger'
<1>1. UNCHANGED <<wire, incoming>> => Line' = Line /\ LineLen' = LineLen
    BY DEF Line, LineLen, At
<1>2. ASSUME LineStays PROVE Line' = Line /\ LineLen' = LineLen
    BY <1>2 DEF LineStays, Line
<1>3. CASE ReadSome \/ ReadExtend
    <2>1. Line' = Line /\ LineLen' = LineLen
        BY <1>2, <1>3, ReaderMoves
    <2>2. UNCHANGED <<sender, link, received>>
        BY <1>3 DEF ReadSome, ReadExtend, Complete
    <2> QED BY <2>1, <2>2, LedgerRests DEF sender, link, Live
<1>4. CASE ReadPacket
    BY <1>4, LedgerRead
<1>5. ASSUME NEW p \in Packets, SendPacket(p) PROVE Ledger'
    BY <1>5, LedgerSend
<1>6. CASE WriteSome
    BY <1>6, LedgerWrite
<1>7. CASE WriteRest \/ WriteNext \/ WriteDone
    BY <1>7, LedgerWritten
<1>8. CASE ReadError
    BY <1>1, <1>8, LedgerRests DEF ReadError, receiver, Live
<1>9. CASE WriteFails
    <2>1. Live => UNCHANGED writes
        BY <1>9 DEF WriteFails, Live
    <2> QED BY <1>1, <1>9, <2>1, LedgerRests DEF WriteFails, receiver, Live
<1>10. CASE WriteFailed
    BY <1>1, <1>10, LedgerRests DEF WriteFailed, receiver, Live
<1>11. CASE Break
    BY <1>11, LedgerBreak
<1>12. CASE KeepAlive
    <2>1. UNCHANGED <<sent, link, wire, receiver>> /\ (~up \/ socket = "shut")
        BY <1>12 DEF KeepAlive
    <2> QED BY <1>1, <2>1, LedgerRests DEF link, receiver, Live
<1>13. CASE Connect
    BY <1>13, LedgerStarts
<1>14. CASE UNCHANGED vars
    BY <1>1, <1>14, LedgerRests DEF vars, sender, link, receiver, Live
<1>15. CASE Started
    BY <1>1, <1>15, LedgerRests DEF Started, link, receiver, Live
<1> QED BY <1>3, <1>4, <1>5, <1>6, <1>7, <1>8, <1>9, <1>10, <1>11, <1>12, <1>13, <1>14, <1>15
    DEF Next, Writer, Reader

\* What the theorems below rest on.
Accounted == SenderType /\ Attended /\ ReceiverType /\ Ledger

\* It holds always.
LEMMA AlwaysAccounted == Spec => []Accounted
<1>1. Init => Accounted
    BY SenderStarts, ReceiverStarts, LedgerStarts DEF Accounted
<1>2. ASSUME Accounted, [Next]_vars PROVE Accounted'
    <2>1. SenderType' /\ Attended' /\ ReceiverType'
        BY <1>2, SenderKeeps, ReceiverKeeps DEF Accounted
    <2> QED BY <1>2, <2>1, LedgerKeeps DEF Accounted
<1> QED BY <1>1, <1>2, PTL DEF Spec

\* The buffer is the beginning of one packet, wherever packetWrite and packetRead
\* find the bytes cut, and whichever connections have broken before.
THEOREM PacketsFramed == Spec => []Framed
<1>1. ASSUME Accounted PROVE Framed
    <2>1. Len(incoming) = size - inBytes /\ (incoming # <<>> => size \in {Header, LengthOf(incoming)})
        BY <1>1 DEF Accounted, ReceiverType
    <2>2. ASSUME incoming # <<>> PROVE \A i \in 1 .. Len(incoming) : incoming[i] = <<incoming[1][1], i>>
        <3>1. /\ Len(incoming) \in Nat /\ Len(incoming) >= 1 /\ Len(wire) \in Nat
              /\ incoming[1] \in Byte /\ Len(incoming) < size
            <4>1. incoming \in Seq(Byte) /\ wire \in Seq(Byte) /\ size \in Nat /\ inBytes \in 1 .. size
                BY <1>1 DEF Accounted, ReceiverType
            <4>2. Len(incoming) \in Nat /\ Len(incoming) >= 1 /\ Len(wire) \in Nat /\ incoming[1] \in Byte
                BY <2>2, <4>1
            <4> QED BY <2>1, <4>1, <4>2
        <3>2. LineLen \in Nat /\ LineLen > 0 /\ Len(incoming) <= LineLen
            BY <3>1 DEF LineLen
        <3>3. PICK m, pos : Account(m, pos)
            BY <1>1 DEF Accounted, Ledger
        <3>4. /\ m \in Nat \ {0} /\ OnLine(m) \in [1 .. m -> Packets]
              /\ \A i \in 1 .. Length[OnLine(m)[1]] : i <= LineLen => At(i) = <<OnLine(m)[1], i>>
            BY <1>1, <3>2, <3>3, FirstOnLine DEF Accounted
        <3> DEFINE p == OnLine(m)[1]
        <3>5. p \in Packets /\ Length[p] \in Nat /\ Length[p] >= Header /\ Length[p] > 0
            <4>1. p \in Packets
                BY <3>4
            <4> QED BY <4>1, Lengths, LengthAssumption
        <3>6. \A i \in 1 .. Length[p] : i <= LineLen => At(i) = <<p, i>>
            BY <3>4
        <3> HIDE DEF p
        <3>7. \A i \in 1 .. Len(incoming) : At(i) = incoming[i]
            BY DEF At
        <3>8. incoming[1][1] = p
            <4>1. 1 \in 1 .. Length[p] /\ 1 <= LineLen /\ 1 \in 1 .. Len(incoming)
                BY <3>1, <3>2, <3>5
            <4>2. incoming[1] = <<p, 1>>
                BY <3>6, <3>7, <4>1
            <4> QED BY <4>2
        <3>9. Len(incoming) <= Length[p]
            <4>1. size \in {Header, Length[p]}
                BY <2>1, <2>2, <3>8 DEF LengthOf
            <4>2. PICK a \in Nat, b \in Nat, d \in Nat : a = Len(incoming) /\ b = size /\ d = Length[p]
                BY <3>1, <3>5, <4>1, LengthAssumption
            <4>3. a < b /\ b <= d
                BY <3>1, <3>5, <4>1, <4>2
            <4>4. a <= d
                BY ONLY <4>3, a \in Nat, b \in Nat, d \in Nat
            <4> QED BY <4>2, <4>4
        <3>10. \A i \in 1 .. Len(incoming) : i \in 1 .. Length[p] /\ i <= LineLen
            BY <3>1, <3>2, <3>5, <3>9
        <3> QED BY <3>6, <3>7, <3>8, <3>10
    <2>3. incoming = <<>> => 1 .. Len(incoming) = {}
        OBVIOUS
    <2> QED BY <2>1, <2>2, <2>3 DEF Framed
<1> QED BY <1>1, AlwaysAccounted, PTL

\* What sendPacket is given arrives at processPacket whole and in order, nothing
\* twice and nothing left out, for any packets and as long as connections last.
THEOREM ConnectionDelivers == Spec => Delivers
<1>1. Init => Stream!Init
    BY DEF Init, Stream!Init
<1>2. ASSUME Accounted, Accounted', [Next]_vars PROVE [Stream!Next]_<<sent, received>>
    <2>1. CASE ReadPacket
        <3>1. Len(received) < Len(sent) /\ received' = Append(received, sent[Len(received) + 1])
            BY <1>2, <2>1, LedgerRead DEF Accounted
        <3> QED BY <2>1, <3>1 DEF ReadPacket, Complete, sender, Stream!Next, Stream!Deliver
    <2>2. ASSUME NEW p \in Packets, SendPacket(p) PROVE Stream!Next
        BY <2>2 DEF SendPacket, receiver, Stream!Next, Stream!Send
    <2>3. CASE Connect
        BY <2>3 DEF Connect, Stream!Next, Stream!Connect
    <2>4. CASE UNCHANGED <<sent, received>>
        BY <2>4
    <2> QED BY <1>2, <2>1, <2>2, <2>3, <2>4
        DEF Next, Writer, Reader, WriteSome, WriteRest, WriteNext, WriteDone, WriteFails, WriteFailed,
            ReadSome, ReadExtend, Complete, ReadError, Break, KeepAlive, Started, vars, sender, receiver
<1> QED BY <1>1, <1>2, AlwaysAccounted, PTL DEF Spec, Delivers, Stream!Spec

=============================================================================
