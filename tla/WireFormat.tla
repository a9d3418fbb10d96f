----------------------------- MODULE WireFormat -----------------------------
(***************************************************************************)
(* Addresses and UDP packets on the wire: tunnel.Address and the framing   *)
(* of trojan's PacketConn.  A stream is a sequence of bytes; a reader      *)
(* takes from its front and returns what it made of it and the rest.       *)
(***************************************************************************)
EXTENDS Naturals, Sequences

CONSTANTS MaxPacketSize,    \* of tunnel/trojan
          ParseIP(_)        \* external: net.ParseIP of a host; <<>> when it is a name

IPv4 == 1
DomainName == 3
IPv6 == 4

Failed(rest) == [ok |-> FALSE, panic |-> FALSE, rest |-> rest]
Panics == [ok |-> FALSE, panic |-> TRUE, rest |-> <<>>]

Drop(b, n) == SubSeq(b, n + 1, Len(b))
Uint16(b, i) == b[i] * 256 + b[i + 1]
PutUint16(n) == <<(n % 65536) \div 256, n % 256>>

\* Address.Marshal: the length of a name is one byte, the port two.
MarshalAddress(a) ==
    CASE a.type = DomainName -> <<a.type, Len(a.host) % 256>> \o a.host \o PutUint16(a.port)
      [] a.type \in {IPv4, IPv6} -> <<a.type>> \o a.host \o PutUint16(a.port)
      [] OTHER -> <<a.type>>

TypeOfIP(ip) == IF Len(ip) = 4 THEN IPv4 ELSE IPv6

Received(type, host, port, rest) ==
    [ok |-> TRUE, panic |-> FALSE, addr |-> [type |-> type, host |-> host, port |-> port], rest |-> rest]

UnmarshalIP(type, b, n) ==
    IF Len(b) < n + 2 THEN Failed(<<>>)
    ELSE Received(type, SubSeq(b, 1, n), Uint16(b, n + 1), Drop(b, n + 2))

\* The buffer has length + 2 bytes, in the arithmetic of one byte; slicing it past
\* its end panics.  A name that is an IP address becomes one.
UnmarshalDomain(b) ==
    LET length == b[1]
        size == (length + 2) % 256
        buf == SubSeq(b, 2, size + 1)
        host == SubSeq(buf, 1, length)
        port == Uint16(buf, length + 1)
        rest == Drop(b, size + 1)
    IN IF b = <<>> \/ Len(b) < size + 1 THEN Failed(<<>>)
       ELSE IF size < length THEN Panics
       ELSE IF ParseIP(host) # <<>> THEN Received(TypeOfIP(ParseIP(host)), ParseIP(host), port, rest)
       ELSE Received(DomainName, host, port, rest)

UnmarshalAddress(b) ==
    IF b = <<>> THEN Failed(<<>>)
    ELSE CASE b[1] = IPv4 -> UnmarshalIP(IPv4, Tail(b), 4)
           [] b[1] = IPv6 -> UnmarshalIP(IPv6, Tail(b), 16)
           [] b[1] = DomainName -> UnmarshalDomain(Tail(b))
           [] OTHER -> Failed(Tail(b))

\* Metadata: the command, then the address.
MarshalMetadata(m) == <<m.command>> \o MarshalAddress(m.addr)
UnmarshalMetadata(b) == IF b = <<>> THEN Failed(<<>>) ELSE UnmarshalAddress(Tail(b))

CRLF == <<13, 10>>

\* PacketConn.WriteWithMetadata
WritePacket(a, payload) == MarshalAddress(a) \o PutUint16(Len(payload)) \o CRLF \o payload

\* Mutant: an oversized packet is left in the stream.
ReadPacketNoDrain(b, room) ==
    LET r == UnmarshalAddress(b)
        length == Uint16(r.rest, 1)
    IN IF ~r.ok THEN r
       ELSE IF Len(r.rest) < 4 THEN Failed(<<>>)
       ELSE IF room < length \/ length > MaxPacketSize THEN Failed(Drop(r.rest, 4))
       ELSE IF Len(r.rest) < 4 + length THEN Failed(<<>>)
       ELSE [ok |-> TRUE, panic |-> FALSE, addr |-> r.addr, payload |-> SubSeq(r.rest, 5, 4 + length),
             rest |-> Drop(r.rest, 4 + length)]

\* PacketConn.ReadWithMetadata into a buffer of the given size: a packet that is
\* too large is drained.
ReadPacket(b, room) ==
    LET r == UnmarshalAddress(b)
        length == Uint16(r.rest, 1)
    IN IF ~r.ok THEN r
       ELSE IF Len(r.rest) < 4 THEN Failed(<<>>)
       ELSE IF room < length \/ length > MaxPacketSize THEN Failed(Drop(r.rest, 4 + length))
       ELSE IF Len(r.rest) < 4 + length THEN Failed(<<>>)
       ELSE [ok |-> TRUE, panic |-> FALSE, addr |-> r.addr, payload |-> SubSeq(r.rest, 5, 4 + length),
             rest |-> Drop(r.rest, 4 + length)]
=============================================================================
