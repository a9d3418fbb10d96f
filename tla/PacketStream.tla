---------------------------- MODULE PacketStream ----------------------------
(***************************************************************************)
(* UDP over a simplesocks or trojan connection: the header asks for an     *)
(* association, then one side writes packets into the stream, the network  *)
(* may cut it at any byte, and the other side reads them into a buffer.    *)
(***************************************************************************)
EXTENDS WireFormat

CONSTANTS PacketAddrs, Payloads,  \* what packets are made of
          MaxPackets            \* bound: packets written

\* Addresses as parsed from a header or a request: a name has at most 253 bytes,
\* the longest a resolver accepts.  A datagram has fewer than 2^16 bytes.
ASSUME PacketAssumption ==
    /\ \A a \in PacketAddrs :
          /\ a \in [type : {IPv4, DomainName, IPv6}, host : Seq(Nat), port : Nat]
          /\ a.port < 65536
          /\ a.type = IPv4 => Len(a.host) = 4
          /\ a.type = IPv6 => Len(a.host) = 16
          /\ a.type = DomainName => Len(a.host) <= 253
    /\ \A p \in Payloads : p \in Seq(Nat) /\ Len(p) < 65536

VARIABLES
    stream,     \* bytes written and not read
    opened,     \* the header has been read
    written,    \* the packets, in order
    got,        \* outcomes of the reads, in order
    cut         \* the connection ended

pvars == <<stream, opened, written, got, cut>>

\* DialPacket writes the header of an association to the address UDP_CONN.
Associate == 3
AssociateHeader == MarshalMetadata([command |-> Associate, addr |-> [type |-> DomainName, host |-> <<85>>, port |-> 0]])

PktInit ==
    /\ stream = AssociateHeader
    /\ opened = FALSE
    /\ written = <<>> /\ got = <<>>
    /\ cut = FALSE

SendPacket(a, p) ==
    /\ ~cut /\ Len(written) < MaxPackets
    /\ written' = Append(written, [addr |-> a, payload |-> p])
    /\ stream' = stream \o WritePacket(a, p)
    /\ UNCHANGED <<opened, got, cut>>

\* The connection ends, and the last bytes may be missing.
CutStream(n) ==
    /\ ~cut /\ n <= Len(stream)
    /\ cut' = TRUE
    /\ stream' = SubSeq(stream, 1, n)
    /\ UNCHANGED <<opened, written, got>>

\* The accept loop of the server reads the header and drops a connection without.
ReadHeader ==
    LET r == UnmarshalMetadata(stream) IN
    /\ ~opened
    /\ opened' = r.ok
    /\ stream' = IF r.ok /\ stream[1] = Associate THEN r.rest ELSE <<>>
    /\ UNCHANGED <<written, got, cut>>

\* A read; it waits for more bytes unless the connection has ended.
ReceivePacket(room) ==
    LET r == ReadPacket(stream, room) IN
    /\ opened /\ stream # <<>>
    /\ cut \/ Len(got) < Len(written)
    /\ stream' = r.rest
    /\ got' = Append(got, IF r.ok THEN [ok |-> TRUE, addr |-> r.addr, payload |-> r.payload] ELSE [ok |-> FALSE])
    /\ UNCHANGED <<opened, written, cut>>

PktNext ==
    \/ \E a \in PacketAddrs, p \in Payloads : SendPacket(a, p)
    \/ ReadHeader \/ \E n \in 0 .. Len(stream) : CutStream(n)
    \/ \E room \in {1, MaxPacketSize} : ReceivePacket(room)

\* A name that is an IP address arrives as that address.
Canonical(a) ==
    IF a.type = DomainName /\ ParseIP(a.host) # <<>>
    THEN [type |-> TypeOfIP(ParseIP(a.host)), host |-> ParseIP(a.host), port |-> a.port] ELSE a

\* The n-th read is the n-th packet as it was written, or an error: a packet that
\* is refused for its size or cut short never shifts the ones behind it, for
\* names of every length up to 253.
PacketsStayAligned ==
    \A i \in DOMAIN got :
        /\ i <= Len(written)
        /\ got[i].ok => got[i] = [ok |-> TRUE, addr |-> Canonical(written[i].addr), payload |-> written[i].payload]
=============================================================================
