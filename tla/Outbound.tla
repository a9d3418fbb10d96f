------------------------------ MODULE Outbound ------------------------------
(***************************************************************************)
(* Dialling out: the client stack is dialled from the bottom layer up, and *)
(* the trojan or simplesocks header goes out with the first payload.       *)
(***************************************************************************)
EXTENDS Naturals, Sequences

CONSTANT MaxWrites      \* bound: payloads the relay writes

VARIABLES
    layers,     \* the client stack, bottom first
    packet,     \* DialPacket, not DialConn
    dial,       \* how far the dial is, and what became of the socket
    writers,    \* the relay's Write and the 100 ms flusher
    once,       \* headerWrittenOnce (headerWritten of simplesocks)
    payload,    \* payloads whose Write has begun
    wire,       \* what the peer has been sent: payload numbers, 0 for the header
    counted,    \* AddSentTraffic
    broken      \* the connection fails every write from now on

ovars == <<layers, packet, dial, writers, once, payload, wire, counted, broken>>

GenerateClientTree(plugin, mux, ws, ss, rt) ==
    <<"transport">> \o (IF plugin THEN <<>> ELSE <<"tls">>)
                    \o (IF ws THEN <<"websocket">> ELSE <<>>)
                    \o (IF ss THEN <<"shadowsocks">> ELSE <<>>)
                    \o <<"trojan">>
                    \o (IF mux THEN <<"mux", "simplesocks">> ELSE <<>>)
                    \o (IF rt THEN <<"router">> ELSE <<>>)

OutInit ==
    /\ \E plugin, mux, ws, ss, rt \in BOOLEAN : layers = GenerateClientTree(plugin, mux, ws, ss, rt)
    /\ packet \in BOOLEAN
    /\ dial = [at |-> 0, sock |-> "none"]
    /\ writers = [relay |-> "idle", flusher |-> "none"]
    /\ once = "no"
    /\ payload = 0
    /\ wire = <<>>
    /\ counted = {}
    /\ broken = FALSE

Header == 0
Dialled == dial.at = Len(layers)
Muxed == \E i \in DOMAIN layers : layers[i] = "simplesocks"
-----------------------------------------------------------------------------
(***************************************************************************)
(* The dial.  A step is what one layer does once the one below succeeded.  *)
(***************************************************************************)

Layer(l) == dial.sock # "failed" /\ ~Dialled /\ layers[dial.at + 1] = l

Up == dial' = [dial EXCEPT !.at = @ + 1]

\* transport: freedom dials the server, directly or through the forward proxy,
\* within the dial timeout.
TransportDial ==
    /\ Layer("transport")
    /\ dial' \in {[at |-> 1, sock |-> "open"], [at |-> 0, sock |-> "failed"]}
    /\ UNCHANGED <<layers, packet, writers, once, payload, wire, counted, broken>>

\* tls closes the socket when the client hello or the handshake fails.
TLSDial ==
    /\ Layer("tls")
    /\ Up \/ dial' = [dial EXCEPT !.sock = "failed"]
    /\ UNCHANGED <<layers, packet, writers, once, payload, wire, counted, broken>>

\* websocket returns an error and leaves the socket open.
WebsocketDial ==
    /\ Layer("websocket")
    /\ Up \/ dial' = [dial EXCEPT !.at = Len(layers), !.sock = "left open"]
    /\ UNCHANGED <<layers, packet, writers, once, payload, wire, counted, broken>>

ShadowsocksDial ==
    /\ Layer("shadowsocks")
    /\ Up
    /\ UNCHANGED <<layers, packet, writers, once, payload, wire, counted, broken>>

\* Mutant: nobody flushes the header.
TrojanDialNoFlusher ==
    /\ Layer("trojan")
    /\ Up
    /\ UNCHANGED <<layers, packet, writers, once, payload, wire, counted, broken>>

\* DialConn starts the flusher, DialPacket does not.  Under mux the header is the
\* session's (MuxClient), and writers here are those of one stream.
TrojanDial ==
    /\ Layer("trojan")
    /\ Up
    /\ writers' = [writers EXCEPT !.flusher = IF packet \/ Muxed THEN "none" ELSE "sleep"]
    /\ UNCHANGED <<layers, packet, once, payload, wire, counted, broken>>

MuxDial ==
    /\ Layer("mux")
    /\ Up
    /\ UNCHANGED <<layers, packet, writers, once, payload, wire, counted, broken>>

\* simplesocks: DialConn leaves the header to the first Write; DialPacket writes
\* it at once, and leaves the stream open when that fails.
SimpleSocksDial ==
    /\ Layer("simplesocks")
    /\ IF packet
       THEN \/ Up /\ once' = "done" /\ wire' = <<Header>>
            \/ dial' = [dial EXCEPT !.at = Len(layers), !.sock = "left open"] /\ UNCHANGED <<once, wire>>
       ELSE Up /\ UNCHANGED <<once, wire>>
    /\ UNCHANGED <<layers, packet, writers, payload, counted, broken>>

\* The router passes on what its underlay dialled for an address it sends to the
\* proxy (RouterRules has the choice).
RouterDial ==
    /\ Layer("router")
    /\ Up
    /\ UNCHANGED <<layers, packet, writers, once, payload, wire, counted, broken>>
-----------------------------------------------------------------------------
(***************************************************************************)
(* The header and the payloads of a dialled connection                     *)
(***************************************************************************)

Usable == Dialled /\ dial.sock = "open"

\* OutboundConn.Write, or the flusher's WriteHeader(nil): sync.Once runs one of
\* them and makes the other wait.
EnterOnce(w) ==
    /\ Usable /\ ~Muxed
    /\ \/ w = "relay" /\ writers[w] = "idle" /\ payload < MaxWrites /\ payload' = payload + 1
       \/ w = "flusher" /\ writers[w] = "sleep" /\ UNCHANGED payload
    /\ writers' = [writers EXCEPT ![w] = IF once = "no" THEN "header" ELSE "wait"]
    /\ once' = IF once = "no" THEN "busy" ELSE once
    /\ UNCHANGED <<layers, packet, dial, wire, counted, broken>>

After(w) == IF w = "relay" THEN "idle" ELSE "none"

\* What a conn.Write puts on the wire: all of it, or an error from now on.
Sends(s) ==
    \/ ~broken /\ wire' = wire \o s /\ UNCHANGED broken
    \/ broken' = TRUE /\ UNCHANGED wire

\* The function of the Once: the header, and with it the payload of a Write.  The
\* Once is used up also when the write fails.
WriteHeader(w) ==
    /\ writers[w] = "header"
    /\ Sends(<<Header>> \o IF w = "relay" THEN <<payload>> ELSE <<>>)
    /\ once' = "done"
    /\ writers' = [writers EXCEPT ![w] = After(w)]
    /\ UNCHANGED <<layers, packet, dial, payload, counted>>

\* The Once is done: the flusher returns, Write sends its payload on its own and
\* counts what was sent.
WriteAfterHeader(w) ==
    /\ writers[w] = "wait"
    /\ once = "done"
    /\ writers' = [writers EXCEPT ![w] = After(w)]
    /\ IF w = "relay" THEN Sends(<<payload>>) ELSE UNCHANGED <<wire, broken>>
    /\ counted' = IF w = "relay" /\ wire' # wire THEN counted \cup {payload} ELSE counted
    /\ UNCHANGED <<layers, packet, dial, once, payload>>

\* simplesocks Conn.Write: one writer, and a failed header is sent again.
SimpleSocksWrite ==
    /\ Usable /\ Muxed /\ payload < MaxWrites
    /\ payload' = payload + 1
    /\ Sends(IF once = "done" THEN <<payload'>> ELSE <<Header, payload'>>)
    /\ once' = IF broken' THEN once ELSE "done"
    /\ UNCHANGED <<layers, packet, dial, writers, counted>>

OutNext ==
    \/ TransportDial \/ TLSDial \/ WebsocketDial \/ ShadowsocksDial \/ TrojanDial \/ MuxDial \/ SimpleSocksDial \/ RouterDial
    \/ \E w \in {"relay", "flusher"} : EnterOnce(w) \/ WriteHeader(w) \/ WriteAfterHeader(w)
    \/ SimpleSocksWrite

-----------------------------------------------------------------------------
(***************************************************************************)
(* Properties                                                              *)
(***************************************************************************)

\* The peer is sent the header first and once, then the payloads in order and
\* each once, however the relay's writes and the flusher meet and whichever of
\* them fails.
HeaderOnce == \A i \in DOMAIN wire : wire[i] = i - 1

\* That, and the header of a dialled trojan connection goes out although the relay
\* has nothing to write (the server speaks first), unless the connection breaks.
HeaderFirst ==
    /\ []HeaderOnce
    /\ (Usable /\ ~packet /\ ~Muxed) ~> (wire # <<>> \/ broken)
=============================================================================
