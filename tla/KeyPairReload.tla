--------------------------- MODULE KeyPairReload ---------------------------
(***************************************************************************)
(* checkKeyPairLoop of the tls server: key and certificate are replaced on *)
(* disk one after the other, and the loop must end up serving the new      *)
(* pair.  A file is the version it holds, or Missing while it is replaced. *)
(***************************************************************************)
EXTENDS Naturals

CONSTANTS Missing,      \* a file that cannot be read
          MaxVersion    \* bound: renewals

VARIABLES
    disk,       \* the files
    watch,      \* the loop: pc, the bytes it read, the bytes it remembers
    password,   \* the key file has a password
    keyPair,    \* the version being served
    kctx        \* s.ctx is done

kvars == <<disk, watch, password, keyPair, kctx>>

\* NewServer has loaded the pair; the loop remembers nothing yet.
KeyInit ==
    /\ disk = [key |-> 0, cert |-> 0, latest |-> 0]
    /\ watch = [pc |-> "key", key |-> 0, cert |-> 0, lastKey |-> Missing, lastCert |-> Missing, other |-> 0]
    /\ password \in BOOLEAN
    /\ keyPair = 0
    /\ kctx = FALSE

\* The operator begins a renewal, and writes or removes either file.
Renew ==
    /\ disk.latest < MaxVersion
    /\ disk' = [disk EXCEPT !.latest = @ + 1]
    /\ UNCHANGED <<watch, password, keyPair, kctx>>
WriteFile(f) ==
    /\ disk[f] # disk.latest
    /\ disk' = [disk EXCEPT ![f] = disk.latest]
    /\ UNCHANGED <<watch, password, keyPair, kctx>>
RemoveFile(f) ==
    /\ disk.latest < MaxVersion
    /\ disk[f] # Missing
    /\ disk' = [disk EXCEPT ![f] = Missing]
    /\ UNCHANGED <<watch, password, keyPair, kctx>>

\* The loop reads the key, then the certificate; an error starts the round again
\* at once.
CheckKey ==
    /\ watch.pc = "key"
    /\ watch' = [watch EXCEPT !.pc = IF disk.key = Missing THEN "key" ELSE "cert", !.key = disk.key]
    /\ UNCHANGED <<disk, password, keyPair, kctx>>
CheckCert ==
    LET changed == watch.key # watch.lastKey \/ disk.cert # watch.lastCert IN
    /\ watch.pc = "cert"
    /\ watch' = [watch EXCEPT !.cert = disk.cert,
                              !.pc = IF disk.cert = Missing THEN "key" ELSE IF changed THEN "load" ELSE "wait"]
    /\ UNCHANGED <<disk, password, keyPair, kctx>>

\* loadKeyPair reads both files again: the certificate first, or with a password
\* the key first.
LoadFirst ==
    LET f == IF password THEN "key" ELSE "cert" IN
    /\ watch.pc = "load"
    /\ watch' = [watch EXCEPT !.pc = IF disk[f] = Missing THEN "key" ELSE "load second", !.other = disk[f]]
    /\ UNCHANGED <<disk, password, keyPair, kctx>>

LoadedFile == IF password THEN disk.cert ELSE disk.key

\* Mutant: the bytes are remembered before the pair is known to load.
LoadSecondRemembersFirst ==
    /\ watch.pc = "load second"
    /\ watch' = [watch EXCEPT !.pc = "wait", !.lastKey = watch.key, !.lastCert = watch.cert]
    /\ keyPair' = IF LoadedFile = watch.other THEN watch.other ELSE keyPair
    /\ UNCHANGED <<disk, password, kctx>>

\* X509KeyPair refuses a key and a certificate that do not belong together.  On
\* success the pair is served and the bytes read before are remembered.
LoadSecond ==
    LET matches == LoadedFile = watch.other IN
    /\ watch.pc = "load second"
    /\ watch' = IF matches
                THEN [watch EXCEPT !.pc = "wait", !.lastKey = watch.key, !.lastCert = watch.cert]
                ELSE [watch EXCEPT !.pc = "key"]
    /\ keyPair' = IF matches THEN watch.other ELSE keyPair
    /\ UNCHANGED <<disk, password, kctx>>

\* The ticker, or the end of the context.
WatchWait ==
    /\ watch.pc = "wait"
    /\ \/ watch' = [watch EXCEPT !.pc = "key"]
       \/ kctx /\ watch' = [watch EXCEPT !.pc = "ended"]
    /\ UNCHANGED <<disk, password, keyPair, kctx>>

KeyClose ==
    /\ ~kctx
    /\ kctx' = TRUE
    /\ UNCHANGED <<disk, watch, password, keyPair>>

WatchStep == CheckKey \/ CheckCert \/ LoadFirst \/ LoadSecond \/ WatchWait

KeyNext == WatchStep \/ Renew \/ KeyClose \/ \E f \in {"key", "cert"} : WriteFile(f) \/ RemoveFile(f)

\* Whatever the loop met half way (a missing file, a key without its certificate,
\* files that changed between its two reads), once both files hold the same
\* renewal and stay, that pair is served, unless the server is closed.
RenewedPairServed ==
    \A v \in 0 .. MaxVersion :
        (disk.latest = MaxVersion /\ disk.key = v /\ disk.cert = v) ~> (keyPair = v \/ kctx \/ disk.key # v \/ disk.cert # v)
=============================================================================
