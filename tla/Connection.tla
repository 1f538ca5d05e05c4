----------------------------- MODULE Connection -----------------------------
(***************************************************************************)
(* network/client.cpp: one direction of a connection between two Clients.  *)
(* Any thread calls sendPacket; the io thread of the sender completes      *)
(* writes, that of the receiver reads.  A write or a read moves some of    *)
(* the bytes it was given, so packets are cut anywhere; the receiver reads *)
(* a header and then, by its length field, the rest.  The connection may   *)
(* break; the sender is a client, which then connects again, to a new      *)
(* receiver.                                                               *)
(***************************************************************************)
EXTENDS Naturals, Sequences

CONSTANTS
    Packets,    \* the packets one may send
    None,       \* no packet yet
    Length,     \* for each of them its length in bytes, header included
    Header,     \* the size of a Packet without data
    MaxSent,    \* bound: packets sent on a connection
    MaxBreaks,  \* bound: connections that break
    ReadErrors  \* TRUE: the read of the sender itself may fail

ASSUME NoneAssumption == None \notin Packets
ASSUME LengthAssumption == Header \in Nat \ {0} /\ Length \in [Packets -> Nat]
                           /\ \A p \in Packets : Length[p] >= Header
ASSUME BoundAssumption == {MaxSent, MaxBreaks} \subseteq Nat /\ ReadErrors \in BOOLEAN

VARIABLES
    sent,           \* history: what sendPacket was given on this connection
    outPackets,     \* the queue of packets behind the one being written
    outgoingPacket, bytesOut,   \* that one, and its bytes not yet written
    sendInProgress,
    starting,       \* a thread has begun a write, not yet set sendInProgress, and
                    \* holds outAccess
    writes,         \* async_write_some operations not yet completed
    written,        \* what the one completed and not yet handled has moved
    readEnded,      \* the sender's own read has failed
    socket,         \* netSocket: "open", "shut" down, or "closed"
    failing,        \* packetWrite is in its error path
    oldWrite, oldRead,  \* handlers of the socket before that are still to fail
    stale,          \* one that is still to run has written
    up, breaks,     \* the network carries bytes; history: how often it did not
    wire,           \* bytes on their way: <<packet, position>>
    incoming,       \* the bytes of the receiver's incomingPacket
    size, inBytes,  \* its size, and what the read in progress was asked for
    received        \* packets given to processPacket of this connection

link == <<socket, failing, oldWrite, oldRead, stale, up, breaks>>
sender == <<sent, outPackets, outgoingPacket, bytesOut, sendInProgress, starting, writes, written, readEnded>>
receiver == <<incoming, size, inBytes, received>>
vars == <<sender, link, wire, receiver>>

Bytes(p) == [i \in 1 .. Length[p] |-> <<p, i>>]

\* Every variable has its type; in particular a read always asks for something,
\* and for no more than the buffer holds.
TypeOK ==
    /\ sent \in Seq(Packets) /\ outPackets \in Seq(Packets)
    /\ outgoingPacket \in Packets \cup {None} /\ bytesOut \in Nat
    /\ {sendInProgress, starting, readEnded} \subseteq BOOLEAN
    /\ writes \in Nat /\ written \in Nat
    /\ socket \in {"open", "shut", "closed"} /\ {failing, oldWrite, oldRead, stale, up} \subseteq BOOLEAN
    /\ breaks \in 0 .. MaxBreaks
    /\ size \in Nat /\ inBytes \in 1 .. size
    /\ received \in Seq(Packets)

Init ==
    /\ sent = <<>> /\ outPackets = <<>> /\ outgoingPacket = None /\ bytesOut = 0
    /\ sendInProgress = FALSE /\ starting = FALSE /\ writes = 0 /\ written = 0 /\ readEnded = FALSE
    /\ socket = "open" /\ failing = FALSE /\ oldWrite = FALSE /\ oldRead = FALSE /\ stale = FALSE
    /\ up = TRUE /\ breaks = 0
    /\ wire = <<>> /\ incoming = <<>> /\ size = Header /\ inBytes = Header
    /\ received = <<>>

-----------------------------------------------------------------------------
(* The sender. *)

\* outgoingPacket = p, and a write of all of it begins ...
Begin(p) ==
    /\ outgoingPacket' = p /\ bytesOut' = Length[p]
    /\ writes' = writes + 1 /\ starting' = TRUE

\* sendPacket, under outAccess: whatever the socket has come to
Queue(p) ==
    /\ ~starting
    /\ IF sendInProgress
       THEN /\ outPackets' = Append(outPackets, p)
            /\ UNCHANGED <<outgoingPacket, bytesOut, writes, starting>>
       ELSE Begin(p) /\ UNCHANGED outPackets
    /\ UNCHANGED sendInProgress
SendPacket(p) ==
    /\ Len(sent) < MaxSent
    /\ sent' = Append(sent, p)
    /\ Queue(p)
    /\ UNCHANGED <<written, readEnded, link, wire, receiver>>

\* ... and sendInProgress says so, whatever has become of that write.
Started ==
    /\ starting
    /\ starting' = FALSE /\ sendInProgress' = TRUE
    /\ UNCHANGED <<sent, outPackets, outgoingPacket, bytesOut, writes, written, readEnded, link, wire, receiver>>

\* Two writes at once share outgoingPacket and bytesOut, and so does one with the
\* handler of a write to the socket before: what they do is not pursued.
Alone == writes = 1 /\ ~stale
Written == Alone /\ written > 0 /\ ~failing

\* The write in progress moves some bytes.
WriteSome ==
    /\ Alone /\ written = 0 /\ up /\ socket = "open"
    /\ \E n \in 1 .. bytesOut :
        LET first == Length[outgoingPacket] - bytesOut
        IN /\ wire' = wire \o SubSeq(Bytes(outgoingPacket), first + 1, first + n)
           /\ written' = n
    /\ UNCHANGED <<sent, outPackets, outgoingPacket, bytesOut, sendInProgress, starting, writes, readEnded, link, receiver>>

\* packetWrite: some of the packet is left
WriteRest ==
    /\ Written /\ written # bytesOut
    /\ bytesOut' = bytesOut - written /\ written' = 0
    /\ UNCHANGED <<sent, outPackets, outgoingPacket, sendInProgress, starting, writes, readEnded, link, wire, receiver>>

\* Mutant: the newest packet goes first.
WriteNewest ==
    /\ Written /\ ~starting /\ written = bytesOut /\ outPackets # <<>>
    /\ outgoingPacket' = outPackets[Len(outPackets)] /\ bytesOut' = Length[outPackets[Len(outPackets)]]
    /\ outPackets' = SubSeq(outPackets, 1, Len(outPackets) - 1) /\ sendInProgress' = TRUE
    /\ written' = 0
    /\ UNCHANGED <<sent, starting, writes, readEnded, link, wire, receiver>>

\* packetWrite, under outAccess: the packet is out, the next in the queue begins
WriteNext ==
    /\ Written /\ ~starting /\ written = bytesOut /\ outPackets # <<>>
    /\ outgoingPacket' = Head(outPackets) /\ bytesOut' = Length[Head(outPackets)]
    /\ outPackets' = Tail(outPackets) /\ sendInProgress' = TRUE
    /\ written' = 0
    /\ UNCHANGED <<sent, starting, writes, readEnded, link, wire, receiver>>

\* Mutant: the queue is not looked at.
WriteDoneBlind ==
    /\ Written /\ ~starting /\ written = bytesOut
    /\ sendInProgress' = FALSE /\ writes' = writes - 1
    /\ written' = 0
    /\ UNCHANGED <<sent, outPackets, outgoingPacket, bytesOut, starting, readEnded, link, wire, receiver>>

\* packetWrite, under outAccess: the packet is out and the queue is empty
WriteDone ==
    /\ Written /\ ~starting /\ written = bytesOut /\ outPackets = <<>>
    /\ sendInProgress' = FALSE /\ writes' = writes - 1
    /\ written' = 0
    /\ UNCHANGED <<sent, outPackets, outgoingPacket, bytesOut, starting, readEnded, link, wire, receiver>>

\* packetRead with an error, on the sender: nothing is closed or cleared, but
\* sendInProgress is, whether or not a write is in progress.  The read of the
\* socket before comes to this too.
ReadError ==
    /\ ~failing
    /\ \/ /\ ~readEnded /\ (ReadErrors \/ ~up \/ socket # "open")
          /\ readEnded' = TRUE /\ UNCHANGED oldRead
       \/ /\ oldRead
          /\ oldRead' = FALSE /\ UNCHANGED readEnded
    /\ sendInProgress' = FALSE
    /\ UNCHANGED <<sent, outPackets, outgoingPacket, bytesOut, starting, writes, written,
                   socket, failing, oldWrite, stale, up, breaks, wire, receiver>>

\* packetWrite with an error: sendInProgress without the lock, which another
\* thread may hold between the beginning of this very write and its Started ...
WriteFails ==
    /\ ~failing
    /\ \/ /\ writes = 1 /\ written = 0 /\ (~up \/ socket # "open")
          /\ writes' = 0 /\ UNCHANGED oldWrite
       \/ /\ oldWrite
          /\ oldWrite' = FALSE /\ UNCHANGED writes
    /\ failing' = TRUE /\ sendInProgress' = FALSE
    /\ UNCHANGED <<sent, outPackets, outgoingPacket, bytesOut, starting, written, readEnded,
                   socket, oldRead, stale, up, breaks, wire, receiver>>

\* Mutant: the socket is never more than shut down.
WriteFailedShut ==
    /\ failing /\ ~starting
    /\ failing' = FALSE /\ outPackets' = <<>>
    /\ socket' = IF socket = "open" THEN "shut" ELSE socket
    /\ UNCHANGED <<sent, outgoingPacket, bytesOut, sendInProgress, starting, writes, written, readEnded,
                   oldWrite, oldRead, stale, up, breaks, wire, receiver>>

\* ... and the queue, with it; then a shutdown, or a close when there is none to shut
\* down any more, whichever socket it is by now.
WriteFailed ==
    /\ failing /\ ~starting
    /\ failing' = FALSE /\ outPackets' = <<>>
    /\ socket' \in IF socket = "open" THEN {"shut", "closed"} ELSE {"closed"}
    /\ UNCHANGED <<sent, outgoingPacket, bytesOut, sendInProgress, starting, writes, written, readEnded,
                   oldWrite, oldRead, stale, up, breaks, wire, receiver>>

\* The network gives the connection up; what was on its way is lost.
Break ==
    /\ up /\ breaks < MaxBreaks
    /\ up' = FALSE /\ breaks' = breaks + 1 /\ wire' = <<>>
    /\ UNCHANGED <<sender, socket, failing, oldWrite, oldRead, stale, receiver>>

\* The main loop of the client: a packet when nothing has come for minutes.  Bound:
\* one more waits in the queue, and none behind it.
KeepAlive ==
    /\ socket # "closed" /\ (~up \/ socket = "shut")
    /\ outPackets = <<>> \/ ~sendInProgress
    /\ \E p \in Packets : Length[p] = Header /\ Queue(p)
    /\ UNCHANGED <<sent, written, readEnded, link, wire, receiver>>

\* clearSendBuffer, connect and initialRead of a client whose socket is closed, on
\* the thread that sends; the handlers of the old socket need not have run.
Connect ==
    /\ socket = "closed" /\ writes <= 1 /\ ~starting
    /\ socket' = "open" /\ up' = TRUE
    /\ outPackets' = <<>> /\ sendInProgress' = FALSE
    /\ IF written > 0 THEN stale' = TRUE /\ UNCHANGED <<oldWrite, writes>>
       ELSE oldWrite' = (oldWrite \/ writes = 1) /\ writes' = 0 /\ UNCHANGED stale
    /\ oldRead' = (oldRead \/ ~readEnded) /\ readEnded' = FALSE
    /\ sent' = <<>> /\ received' = <<>> /\ wire' = <<>>
    /\ incoming' = <<>> /\ size' = Header /\ inBytes' = Header
    /\ UNCHANGED <<outgoingPacket, bytesOut, starting, written, failing, breaks>>

-----------------------------------------------------------------------------
(* The receiver: packetRead. *)

\* Mutant: all that was asked for counts as a part of it.
ReadSomeOrAll ==
    \E n \in 1 .. inBytes :
        /\ n <= Len(wire)
        /\ incoming' = incoming \o SubSeq(wire, 1, n)
        /\ wire' = SubSeq(wire, n + 1, Len(wire))
        /\ inBytes' = inBytes - n
        /\ UNCHANGED <<sender, link, size, received>>

\* The bytes of the read in progress that have come; the rest is asked for.
ReadSome ==
    \E n \in 1 .. inBytes - 1 :
        /\ n <= Len(wire)
        /\ incoming' = incoming \o SubSeq(wire, 1, n)
        /\ wire' = SubSeq(wire, n + 1, Len(wire))
        /\ inBytes' = inBytes - n
        /\ UNCHANGED <<sender, link, size, received>>

\* All that was asked for is here.
Complete(all) ==
    /\ inBytes <= Len(wire)
    /\ all = incoming \o SubSeq(wire, 1, inBytes)
    /\ wire' = SubSeq(wire, inBytes + 1, Len(wire))
    /\ UNCHANGED <<sender, link>>

\* The length field of the packet whose first bytes these are.
LengthOf(bytes) == Length[bytes[1][1]]

\* Mutant: the whole length is asked for after the header.
ReadExtendWhole ==
    LET all == incoming \o SubSeq(wire, 1, inBytes)
    IN /\ Complete(all)
       /\ size # LengthOf(all)
       /\ inBytes' = LengthOf(all)
       /\ size' = LengthOf(all)
       /\ incoming' = all
       /\ UNCHANGED received

\* The header says there is more to the packet.
ReadExtend ==
    LET all == incoming \o SubSeq(wire, 1, inBytes)
    IN /\ Complete(all)
       /\ size # LengthOf(all)
       /\ inBytes' = LengthOf(all) - size
       /\ size' = LengthOf(all)
       /\ incoming' = all
       /\ UNCHANGED received

\* The packet is whole: it is processed and the next header is read.
ReadPacket ==
    LET all == incoming \o SubSeq(wire, 1, inBytes)
    IN /\ Complete(all)
       /\ size = LengthOf(all)
       /\ received' = Append(received, all[1][1])
       /\ incoming' = <<>> /\ size' = Header /\ inBytes' = Header

Writer == WriteSome \/ WriteRest \/ WriteNext \/ WriteDone \/ WriteFails \/ WriteFailed
Reader == ReadSome \/ ReadExtend \/ ReadPacket
Next ==
    \/ Writer \/ Started \/ Reader \/ ReadError \/ \E p \in Packets : SendPacket(p)
    \/ Break \/ KeepAlive \/ Connect

\* The io threads, the thread that sends and the client's loop run, the network
\* carries what it is given and the read of a socket that is not open ends.
Spec ==
    /\ Init /\ [][Next]_vars
    /\ WF_vars(Writer) /\ WF_vars(Started) /\ WF_vars(Reader) /\ WF_vars(KeepAlive)
    /\ WF_vars(ReadError /\ socket # "open")

-----------------------------------------------------------------------------
\* The receiver's buffer always is the beginning of one packet: no read runs
\* into the next one, wherever the bytes were cut.
Framed ==
    /\ Len(incoming) = size - inBytes
    /\ \A i \in 1 .. Len(incoming) : incoming[i] = <<incoming[1][1], i>>
    /\ incoming # <<>> => size \in {Header, LengthOf(incoming)}

\* While the connection lasts, no packet waits in the queue without a write whose
\* completion takes it from there: sendPacket, packetWrite, a failed read, the
\* error of a write to the socket before and a new connection agree on who is last.
\* Where it has ended, the queue may be stuck: see Stuck.
NoneStranded == outPackets # <<>> => writes > 0 \/ ~up \/ socket # "open"

\* What sendPacket is given arrives at processPacket whole and in order, nothing
\* twice and nothing left out, wherever packetWrite and packetRead find it cut.
Stream == INSTANCE PacketStream
Delivers == Stream!Spec

\* And it does arrive, read errors of the sender or not, unless the connection
\* ends or two writes meet.
NotPursued == writes > 1 \/ stale
Ended == ~up \/ socket # "open" \/ NotPursued
Arrives == \A n \in 1 .. MaxSent : Len(sent) >= n ~> (Len(received) >= n \/ Ended)

\* sendInProgress is set for good and nothing is being written: packets queue up.
Stuck == sendInProgress /\ writes = 0 /\ readEnded

\* A client whose connection has broken closes its socket in the end, and can
\* connect again, though a failed read closes nothing: a keep-alive finds out,
\* unless the read is over and the error of the keep-alive before came between its
\* beginning and Started.
Notices == ~up ~> (socket = "closed" \/ Stuck \/ NotPursued)

-----------------------------------------------------------------------------
(* What a comment says and the code does not do. *)

\* basic_stream_socket.hpp, async_write_some: the buffer of a write stays valid
\* until its handler is called; a second write would assign outgoingPacket.
OneWrite == writes <= 1
=============================================================================
