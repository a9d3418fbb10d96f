---------------------------- MODULE TrojanServer ----------------------------
(***************************************************************************)
(* The trojan server (tunnel/trojan/server.go) with the user objects of    *)
(* the memory authenticator it admits connections against.                 *)
(*                                                                         *)
(* Every inbound connection is served by a goroutine that authenticates    *)
(* it (Auth), installs a watcher of the user's cutoff signal and hands the *)
(* connection to one of three bounded accept queues.  The consumer of the  *)
(* queue relays it.  InboundConn.Close runs once, whoever calls it first:  *)
(* the dispatcher that drops the connection, the watcher, or the relay.    *)
(* The operator adds, removes and changes the user at the same time.       *)
(*                                                                         *)
(* One user hash is modelled.  UserObj are the allocations made for it.    *)
(* Connection and object identities are recycled once nothing refers to    *)
(* them, so that behaviours are unbounded.                                 *)
(***************************************************************************)
EXTENDS UserLimits, Sequences

CONSTANTS
    Conn,        \* inbound connections
    Nil,         \* no user, no address
    Commands,    \* the commands clients send
    QueueSize,   \* capacity of each accept queue
    IPLimits,    \* values the operator gives to the IP limit
    Quotas,      \* values the operator gives to the quota
    MaxTraffic,  \* bound on the bytes counted for one user object
    MayStop,     \* whether the server is shut down in this instance
    MaxRetags    \* bound on the changes between limit and no limit under open connections

ASSUME NilAssumption == Nil \notin UserObj \cup IP
ASSUME ConnAssumption == IsFiniteSet(Conn)
ASSUME CommandsAssumption == Commands \subseteq {"connect", "mux", "associate", "unknown"}
ASSUME QueueSizeAssumption == QueueSize \in Nat
ASSUME LimitsAssumption == IPLimits \subseteq Int /\ Quotas \subseteq Int
ASSUME BoundsAssumption == MayStop \in BOOLEAN /\ MaxTraffic \in Nat /\ MaxRetags \in Nat

VARIABLES
    \* the authenticator
    user,        \* the object stored in the users map, or Nil
    removing,    \* the object DelUser has closed and not yet deleted
    cutoff,      \* the cutoff channel of an object is closed
    quota,       \* the quota of an object
    traffic,     \* Sent + Recv of an object
    retags,      \* history: how often the IP limit crossed zero under open connections
    \* the connections
    pc,          \* where the goroutine that owns the connection is
    owner,       \* InboundConn.user
    ip,          \* InboundConn.ip
    cmd,         \* metadata.Command (Connect to MUX_CONN counts as mux)
    closing,     \* progress of the body of InboundConn.Close
    watcher,     \* the waitForUserCutoff goroutine
    \* the server
    queue,       \* connChan, muxChan and packetChan
    serving,     \* the queues whose consumer is still accepting
    active,      \* metrics: active connections
    ctx          \* "live", "cancelled" (s.cancel ran), "closed" (underlay closed too)

authVars == <<user, removing, cutoff, quota, traffic, retags>>
connVars == <<pc, owner, ip, cmd, closing, watcher>>
serverVars == <<queue, serving, active, ctx>>
vars == <<limits, authVars, connVars, serverVars>>

\* connChan, muxChan and packetChan are named after the command they serve.
Queues == Commands \ {"unknown"}
PC == {"idle", "hash", "header", "addip", "watch", "dispatch", "queued", "relay", "closing"}

\* Past Auth: the connection owns a slot until Close has released it.
Admitted(c) == pc[c] \in {"watch", "dispatch", "queued", "relay", "closing"}
Holding(c) == Admitted(c) /\ closing[c] \in {"open", "signalled"}
Holders(u) == {c \in Conn : Holding(c) /\ owner[c] = u}
HoldersAt(u, a) == {c \in Holders(u) : ip[c] = a}

TypeOK ==
    /\ LimitsTypeOK
    /\ user \in UserObj \cup {Nil}
    /\ removing \in UserObj \cup {Nil}
    /\ cutoff \in [UserObj -> BOOLEAN]
    /\ quota \in [UserObj -> Int]
    /\ traffic \in [UserObj -> Nat]
    /\ retags \in [UserObj -> Nat]
    /\ pc \in [Conn -> PC]
    /\ owner \in [Conn -> UserObj \cup {Nil}]
    /\ ip \in [Conn -> IP \cup {Nil}]
    /\ cmd \in [Conn -> Queues \cup {"unknown"}]
    /\ closing \in [Conn -> {"open", "signalled", "released", "closed"}]
    /\ watcher \in [Conn -> {"none", "waiting", "closing", "exited"}]
    /\ queue \in [Queues -> Seq(Conn)]
    /\ serving \subseteq Queues
    /\ active \in Int
    /\ ctx \in {"live", "cancelled", "closed"}

Init ==
    /\ LimitsInit
    /\ user = Nil
    /\ removing = Nil
    /\ cutoff = [u \in UserObj |-> FALSE]
    /\ quota = [u \in UserObj |-> -1]
    /\ traffic = [u \in UserObj |-> 0]
    /\ retags = [u \in UserObj |-> 0]
    /\ pc = [c \in Conn |-> "idle"]
    /\ owner = [c \in Conn |-> Nil]
    /\ ip = [c \in Conn |-> Nil]
    /\ cmd = [c \in Conn |-> "unknown"]
    /\ closing = [c \in Conn |-> "open"]
    /\ watcher = [c \in Conn |-> "none"]
    /\ queue = [q \in Queues |-> <<>>]
    /\ serving = Queues
    /\ active = 0
    /\ ctx = "live"
-----------------------------------------------------------------------------
(***************************************************************************)
(* The operator (API, configuration, database refresh).                    *)
(***************************************************************************)

Forgotten(u) ==
    /\ user # u
    /\ removing # u
    /\ \A c \in Conn : owner[c] # u

\* AddUser: a new object with no IP limit and quota -1.
AddUser(u) ==
    /\ user = Nil
    /\ Forgotten(u)
    /\ user' = u
    /\ FreshLimits(u)
    /\ cutoff' = [cutoff EXCEPT ![u] = FALSE]
    /\ quota' = [quota EXCEPT ![u] = -1]
    /\ traffic' = [traffic EXCEPT ![u] = 0]
    /\ retags' = [retags EXCEPT ![u] = 0]
    /\ UNCHANGED <<removing, connVars, serverVars>>

\* DelUser, first half: User.Close resets the traffic and fires the cutoff.
DelUserClose ==
    /\ user # Nil
    /\ removing = Nil
    /\ removing' = user
    /\ traffic' = [traffic EXCEPT ![user] = 0]
    /\ cutoff' = [cutoff EXCEPT ![user] = TRUE]
    /\ UNCHANGED <<limits, user, quota, retags, connVars, serverVars>>

\* DelUser, second half: users.Delete.
DelUserDelete ==
    /\ removing # Nil
    /\ user' = Nil
    /\ removing' = Nil
    /\ UNCHANGED <<limits, cutoff, quota, traffic, retags, connVars, serverVars>>

CrossesZero(u, n) == (MaxIPNum[u] > 0) # (n > 0)

SetUserIPLimit(n) ==
    /\ user # Nil
    /\ setIPLimit(user, n)
    /\ IF CrossesZero(user, n) /\ Holders(user) # {}
         THEN /\ retags[user] < MaxRetags
              /\ retags' = [retags EXCEPT ![user] = @ + 1]
         ELSE UNCHANGED retags
    /\ UNCHANGED <<user, removing, cutoff, quota, traffic, connVars, serverVars>>

SetUserQuota(q) ==
    /\ user # Nil
    /\ quota' = [quota EXCEPT ![user] = q]
    /\ UNCHANGED <<limits, user, removing, cutoff, traffic, retags, connVars, serverVars>>
-----------------------------------------------------------------------------
(***************************************************************************)
(* InboundConn.Auth.                                                       *)
(***************************************************************************)

Accept(c, a) ==
    /\ ctx # "closed"
    /\ pc[c] = "idle"
    /\ pc' = [pc EXCEPT ![c] = "hash"]
    /\ ip' = [ip EXCEPT ![c] = a]
    /\ UNCHANGED <<limits, authVars, owner, cmd, closing, watcher, serverVars>>

\* The server keeps nothing of the connection.
Discard(c) ==
    /\ pc' = [pc EXCEPT ![c] = "idle"]
    /\ owner' = [owner EXCEPT ![c] = Nil]
    /\ ip' = [ip EXCEPT ![c] = Nil]
    /\ cmd' = [cmd EXCEPT ![c] = "unknown"]

\* Auth returns an error (short read, deadline, unknown hash, malformed
\* header): the connection is rewound and goes to the redirector.
AuthFails(c) ==
    /\ pc[c] \in {"hash", "header"}
    /\ Discard(c)
    /\ UNCHANGED <<limits, authVars, closing, watcher, serverVars>>

\* The hash is read and the users map has it.
AuthUser(c) ==
    /\ pc[c] = "hash"
    /\ user # Nil
    /\ pc' = [pc EXCEPT ![c] = "header"]
    /\ owner' = [owner EXCEPT ![c] = user]
    /\ UNCHANGED <<limits, authVars, ip, cmd, closing, watcher, serverVars>>

ReadMetadata(c, m) ==
    /\ pc[c] = "header"
    /\ pc' = [pc EXCEPT ![c] = "addip"]
    /\ cmd' = [cmd EXCEPT ![c] = m]
    /\ UNCHANGED <<limits, authVars, owner, ip, closing, watcher, serverVars>>

\* AddIP succeeds; the gauge of active connections goes up.
Admit(c) ==
    /\ pc[c] = "addip"
    /\ AddIP(owner[c], ip[c])
    /\ active' = active + 1
    /\ pc' = [pc EXCEPT ![c] = "watch"]
    /\ UNCHANGED <<authVars, owner, ip, cmd, closing, watcher, queue, serving, ctx>>

\* "ip limit reached": Auth fails after the header was parsed.
Refuse(c) ==
    /\ pc[c] = "addip"
    /\ AddIPRefuses(owner[c], ip[c])
    /\ Discard(c)
    /\ UNCHANGED <<limits, authVars, closing, watcher, serverVars>>
-----------------------------------------------------------------------------
(***************************************************************************)
(* The rest of the accept goroutine: watcher, then dispatch.               *)
(***************************************************************************)

\* Mutant: the cases of the select are swapped.
InstallWatcherInverted(c) ==
    /\ pc[c] = "watch"
    /\ pc' = [pc EXCEPT ![c] = "dispatch"]
    /\ watcher' = [watcher EXCEPT ![c] = IF cutoff[owner[c]] THEN "waiting" ELSE "none"]
    /\ UNCHANGED <<limits, authVars, owner, ip, cmd, closing, serverVars>>

InstallWatcher(c) ==
    /\ pc[c] = "watch"
    /\ pc' = [pc EXCEPT ![c] = "dispatch"]
    /\ watcher' = [watcher EXCEPT ![c] = IF cutoff[owner[c]] THEN "none" ELSE "waiting"]
    /\ UNCHANGED <<limits, authVars, owner, ip, cmd, closing, serverVars>>

HasRoom(c) == Len(queue[cmd[c]]) < QueueSize

\* deliver / offerPacket: the queue takes the connection.
Deliver(c) ==
    /\ pc[c] = "dispatch"
    /\ cmd[c] \in Queues
    /\ HasRoom(c)
    /\ queue' = [queue EXCEPT ![cmd[c]] = Append(@, c)]
    /\ pc' = [pc EXCEPT ![c] = "queued"]
    /\ UNCHANGED <<limits, authVars, owner, ip, cmd, closing, watcher, serving, active, ctx>>

\* The queue is full, the server is stopping, or the command is unknown:
\* the dispatcher goes on to Close.
Drop(c) ==
    /\ pc[c] = "dispatch"
    /\ cmd[c] \in Queues => (ctx # "live" \/ ~HasRoom(c))
    /\ pc' = [pc EXCEPT ![c] = "closing"]
    /\ UNCHANGED <<limits, authVars, owner, ip, cmd, closing, watcher, serverVars>>
-----------------------------------------------------------------------------
(***************************************************************************)
(* The consumers of the queues and the relay of a connection.              *)
(***************************************************************************)

AcceptConn(q) ==
    /\ q \in serving
    /\ queue[q] # <<>>
    /\ queue' = [queue EXCEPT ![q] = Tail(@)]
    /\ pc' = [pc EXCEPT ![Head(queue[q])] = "relay"]
    /\ UNCHANGED <<limits, authVars, owner, ip, cmd, closing, watcher, serving, active, ctx>>

\* AcceptConn returns an error because the context is done; the loop exits.
ConsumerExits(q) ==
    /\ q \in serving
    /\ ctx # "live"
    /\ serving' = serving \ {q}
    /\ UNCHANGED <<limits, authVars, connVars, queue, active, ctx>>

\* Read or Write moves a byte and counts it; checkQuota may fire the cutoff.
Traffic(c) ==
    LET u == owner[c]
        total == traffic[u] + 1
    IN  /\ pc[c] = "relay"
        /\ closing[c] # "closed"
        /\ total <= MaxTraffic
        /\ traffic' = [traffic EXCEPT ![u] = total]
        /\ cutoff' = [cutoff EXCEPT ![u] = @ \/ (quota[u] > 0 /\ total >= quota[u])]
        /\ UNCHANGED <<limits, user, removing, quota, retags, connVars, serverVars>>

RelayReturns(c) ==
    /\ pc' = [pc EXCEPT ![c] = "closing"]
    /\ UNCHANGED <<limits, authVars, owner, ip, cmd, closing, watcher, serverVars>>

\* The peer or the remote hangs up, or the dial fails.
PeerHangsUp(c) ==
    /\ pc[c] = "relay"
    /\ RelayReturns(c)

\* The relay sees its transport closed, or the context done.  A mux session
\* only looks at the context when a stream arrives.
RelayInterrupted(c) ==
    /\ pc[c] = "relay"
    /\ closing[c] = "closed" \/ (ctx # "live" /\ cmd[c] # "mux")
    /\ RelayReturns(c)
-----------------------------------------------------------------------------
(***************************************************************************)
(* InboundConn.Close and the watcher.                                      *)
(***************************************************************************)

\* closeOnce: the first caller signals c.closed ...
CloseSignal(c) ==
    /\ pc[c] = "closing" \/ watcher[c] = "closing"
    /\ closing[c] = "open"
    /\ closing' = [closing EXCEPT ![c] = "signalled"]
    /\ UNCHANGED <<limits, authVars, pc, owner, ip, cmd, watcher, serverVars>>

\* ... releases the slot and the gauge ...
CloseRelease(c) ==
    /\ closing[c] = "signalled"
    /\ DelIP(owner[c], ip[c])
    /\ active' = active - 1
    /\ closing' = [closing EXCEPT ![c] = "released"]
    /\ UNCHANGED <<authVars, pc, owner, ip, cmd, watcher, queue, serving, ctx>>

\* ... and closes the transport.
CloseTransport(c) ==
    /\ closing[c] = "released"
    /\ closing' = [closing EXCEPT ![c] = "closed"]
    /\ UNCHANGED <<limits, authVars, pc, owner, ip, cmd, watcher, serverVars>>

\* Mutant: the watcher returns on cutoff without closing the tunnel.
WatcherOnlyReturns(c) ==
    /\ watcher[c] = "waiting"
    /\ cutoff[owner[c]] \/ closing[c] # "open" \/ ctx # "live"
    /\ watcher' = [watcher EXCEPT ![c] = "exited"]
    /\ UNCHANGED <<limits, authVars, pc, owner, ip, cmd, closing, serverVars>>

\* The select of waitForUserCutoff: any ready case may be taken.
WatcherWakes(c) ==
    /\ watcher[c] = "waiting"
    /\ \/ /\ cutoff[owner[c]]
          /\ watcher' = [watcher EXCEPT ![c] = "closing"]
       \/ /\ closing[c] # "open" \/ ctx # "live"
          /\ watcher' = [watcher EXCEPT ![c] = "exited"]
    /\ UNCHANGED <<limits, authVars, pc, owner, ip, cmd, closing, serverVars>>

\* The watcher's call of Close returns.
WatcherReturns(c) ==
    /\ watcher[c] = "closing"
    /\ closing[c] = "closed"
    /\ watcher' = [watcher EXCEPT ![c] = "exited"]
    /\ UNCHANGED <<limits, authVars, pc, owner, ip, cmd, closing, serverVars>>

\* Nothing refers to the connection any more: its identity is free again.
Forget(c) ==
    /\ pc[c] = "closing"
    /\ closing[c] = "closed"
    /\ watcher[c] \in {"none", "exited"}
    /\ Discard(c)
    /\ closing' = [closing EXCEPT ![c] = "open"]
    /\ watcher' = [watcher EXCEPT ![c] = "none"]
    /\ UNCHANGED <<limits, authVars, serverVars>>

\* Proxy.Close: cancel the context all components share, then close the
\* servers and their underlays.
Cancel ==
    /\ MayStop
    /\ ctx = "live"
    /\ ctx' = "cancelled"
    /\ UNCHANGED <<limits, authVars, connVars, queue, serving, active>>

CloseUnderlay ==
    /\ ctx = "cancelled"
    /\ ctx' = "closed"
    /\ UNCHANGED <<limits, authVars, connVars, queue, serving, active>>
-----------------------------------------------------------------------------
Operator ==
    \/ \E u \in UserObj : AddUser(u)
    \/ DelUserClose
    \/ DelUserDelete
    \/ \E n \in IPLimits : SetUserIPLimit(n)
    \/ \E q \in Quotas : SetUserQuota(q)

Handshake(c) ==
    \/ \E a \in IP : Accept(c, a)
    \/ AuthFails(c)
    \/ AuthUser(c)
    \/ \E m \in Commands : ReadMetadata(c, m)
    \/ Admit(c)
    \/ Refuse(c)

CloseBody(c) == CloseSignal(c) \/ CloseRelease(c) \/ CloseTransport(c)

Next ==
    \/ Operator
    \/ Cancel
    \/ CloseUnderlay
    \/ \E q \in Queues : AcceptConn(q) \/ ConsumerExits(q)
    \/ \E c \in Conn :
          \/ Handshake(c)
          \/ InstallWatcher(c)
          \/ Deliver(c)
          \/ Drop(c)
          \/ Traffic(c)
          \/ PeerHangsUp(c)
          \/ RelayInterrupted(c)
          \/ CloseBody(c)
          \/ WatcherWakes(c)
          \/ WatcherReturns(c)
          \/ Forget(c)

Spec == Init /\ [][Next]_vars

(***************************************************************************)
(* Fairness: the Go scheduler runs every goroutine of the server that can  *)
(* run, and the read deadline of Auth expires.  Clients, remotes and the   *)
(* operator owe nothing.                                                   *)
(***************************************************************************)
Fairness ==
    /\ \A q \in Queues : WF_vars(AcceptConn(q) \/ ConsumerExits(q))
    /\ \A c \in Conn :
          /\ WF_vars(AuthFails(c))
          /\ WF_vars(Admit(c) \/ Refuse(c))
          /\ WF_vars(InstallWatcher(c))
          /\ WF_vars(Deliver(c) \/ Drop(c))
          /\ WF_vars(RelayInterrupted(c))
          /\ WF_vars(CloseBody(c))
          /\ WF_vars(WatcherWakes(c) \/ WatcherReturns(c))
          /\ WF_vars(Forget(c))

FairSpec == Spec /\ Fairness
-----------------------------------------------------------------------------
(***************************************************************************)
(* Safety.                                                                 *)
(***************************************************************************)

\* While the IP limit has not crossed zero under open connections, the
\* counters AddIP and DelIP maintain are exactly the connections that were
\* admitted and whose Close has not yet released them, whoever closed them.
SlotsExact ==
    \A u \in UserObj : retags[u] = 0 =>
        /\ connNum[u] = Cardinality(Holders(u))
        /\ \A a \in IP : ipTable[u][a] =
               IF MaxIPNum[u] > 0 THEN Cardinality(HoldersAt(u, a)) ELSE 0
        /\ ipNum[u] = Cardinality({a \in IP : ipTable[u][a] > 0})

\* max_conn_per_user: a user object never has more open tunnels than the
\* cap, whatever the operator does to the IP limit meanwhile.
ConnCapRespected ==
    MaxConnNum > 0 => \A u \in UserObj : Cardinality(Holders(u)) <= MaxConnNum

\* The gauge of active connections counts the admitted, unreleased ones: it
\* neither drifts nor goes negative when watcher, relay and dispatcher race
\* to Close.
GaugeExact ==
    active = Cardinality({c \in Conn : Holding(c)})

\* An open tunnel that nobody watches belongs to a user who is already cut
\* off, or to a server that is stopping: as long as the signal has not fired,
\* its firing will be seen (the select in acceptLoop).
UncutTunnelsWatched ==
    \A c \in Conn :
        (pc[c] \in {"dispatch", "queued", "relay"} /\ closing[c] = "open") =>
            \/ watcher[c] \in {"waiting", "closing"}
            \/ cutoff[owner[c]]
            \/ ctx # "live"

\* A connection is in an accept queue exactly once while it waits there and
\* in none otherwise: no tunnel is relayed twice or lost between the two
\* sides of the channel, and no queue exceeds its capacity.
QueuedOnce ==
    \A q \in Queues :
        /\ Len(queue[q]) <= QueueSize
        /\ \A i, j \in DOMAIN queue[q] : queue[q][i] = queue[q][j] => i = j
        /\ \A c \in Conn :
              (\E i \in DOMAIN queue[q] : queue[q][i] = c)
                  <=> (pc[c] = "queued" /\ cmd[c] = q)

AddressesOf(S) == {ip[c] : c \in S}

\* AddIP lets a connection from a new address in only below the IP limit:
\* admission never raises the number of distinct addresses above it.
IPCapOnAdmission ==
    [][\A u \in UserObj :
          (Holders(u)' \ Holders(u) # {} /\ MaxIPNum[u] > 0 /\ retags[u] = 0) =>
              \/ AddressesOf(Holders(u))' = AddressesOf(Holders(u))
              \/ Cardinality(AddressesOf(Holders(u))') <= MaxIPNum[u]]_vars
-----------------------------------------------------------------------------
(***************************************************************************)
(* Liveness, under FairSpec.                                               *)
(***************************************************************************)

\* A watched tunnel of a user who is cut off is closed (waitForUserCutoff).
WatchedCutoffCloses ==
    \A c \in Conn :
        (watcher[c] = "waiting" /\ cutoff[owner[c]])
            ~> (closing[c] = "closed" \/ ctx # "live")

-----------------------------------------------------------------------------
(***************************************************************************)
(* What documentation and comments say, and the code does not do.          *)
(***************************************************************************)

\* offer: the counters Auth incremented are released by Close.
SlotsReleased ==
    \A u \in UserObj : Holders(u) = {} => connNum[u] = 0

=============================================================================
