----------------------------- MODULE Connection -----------------------------
(***************************************************************************)
(* STREAMConnect: a connection to a host (Socket.c), directly or through a *)
(* chain of proxies (ConnectionChain.c), each of which is asked, over the  *)
(* connection there is so far, for a connection to the next.               *)
(*                                                                         *)
(* Of the network we keep who is at the other end: `at' is 0 for nobody, i *)
(* for the i-th host of the chain, the last of which is the destination.   *)
(* Hosts can be down, refuse, or (for a direct connection) take their time.*)
(***************************************************************************)
EXTENDS Integers, Sequences, FiniteSets, SequencesExt

CONSTANTS
    Chains,         \* sequences of hosts: see Host
    Settings,       \* how the direct connections are asked for: see Setting
    MaxDepth        \* a bound on how deep STREAMConnect calls itself

HopTypes == {"none", "tcp", "https", "ssh", "sshtunnel", "sshproxy", "socks4", "socks5"}

(* up: it can be connected to; takes: it accepts what it is asked (the     *)
(* password, the connection); ip4: the URL has its address, not its name;  *)
(* tls: what it does when TLS is begun with it.                            *)
Handshakes == {"shakes", "fails", "silent"}
Host == [type : HopTypes \cup {"udp", "ssl"}, up : BOOLEAN, takes : BOOLEAN, ip4 : BOOLEAN,
         tls : Handshakes]

(* n: the flag for nonblocking sockets; timeout: the option.               *)
Setting == [n : BOOLEAN, timeout : BOOLEAN]

ConnectionAssumption ==
    /\ \A c \in Chains : c \in Seq(Host) /\ c # << >>
    /\ Settings \subseteq Setting

VARIABLES
    chain, setting,
    global,         \* SetGlobalConnectionChain: the chain but its last host is global
    pc,
    count,          \* hops that were processed
    at,             \* who is at the other end
    through,        \* the hosts that pass on what is sent there
    fd,             \* the socket: "none", "closed", "connecting", "connected"
    nonblock,       \* the socket does not block, and SF_NONBLOCK
    state,          \* flags of S->State
    junk,           \* the destination was sent bytes that the program did not write
    helpers,        \* ssh processes that are left running, for all that the program connects
    depth,          \* the calls of STREAMConnect that are in progress
    result          \* of STREAMProcessConnectHops or STREAMNetConnect

vars == <<chain, setting, global, pc, count, at, through, fd, nonblock, state, junk, helpers,
          depth, result>>

N == Len(chain)
Hop == chain[count + 1]
Const == UNCHANGED <<chain, setting, global>>

(* A tcp host passes on all that it gets to the next.                      *)
Reach(i) ==
    LET stop == {j \in i .. N : j = N \/ chain[j].type # "tcp" \/ ~chain[j].up}
        j == CHOOSE j \in stop : \A k \in stop : j <= k
    IN IF chain[j].up THEN j ELSE 0

Init ==
    /\ chain \in Chains
    /\ setting \in Settings
    /\ global \in {g \in BOOLEAN : g => Len(chain) > 1}
    /\ pc = "idle"
    /\ count = 0 /\ at = 0 /\ through = {}
    /\ fd = "none" /\ nonblock = FALSE /\ state = {} /\ junk = FALSE
    /\ helpers = {} /\ depth = 0 /\ result = FALSE

-----------------------------------------------------------------------------
(* STREAMConnect: a chain in the URL, or set for all connections, or none. *)
STREAMConnect ==
    /\ pc = "idle"
    /\ pc' = IF N > 1 THEN "hop" ELSE "net"
    /\ depth' = 1
    /\ Const /\ UNCHANGED <<count, at, through, fd, nonblock, state, junk, helpers, result>>

(* NetConnectWithSettings and IPReconnect: bind, then connect(), which may *)
(* be done, refused, or in progress.  A timeout makes the socket one that  *)
(* does not block, in the settings that the caller goes on with.  For udp  *)
(* nothing is sent, so that connect() succeeds whoever is there.           *)
NonBlocking == setting.n \/ setting.timeout
Connects == /\ fd' = "connected" /\ at' = Reach(1)
            /\ Hop.up \/ Hop.type = "udp"
IPReconnect ==
    /\ pc = "net"
    /\ \/ /\ Connects
          /\ pc' = "wait" /\ UNCHANGED result
       \/ /\ Hop.type # "udp" /\ NonBlocking
          /\ fd' = "connecting" /\ pc' = "wait" /\ UNCHANGED <<at, result>>
       \/ /\ ~Hop.up /\ Hop.type # "udp"
          /\ fd' = "none" /\ pc' = "done" /\ result' = FALSE /\ UNCHANGED at
    /\ nonblock' = (NonBlocking /\ fd' # "none")
    /\ state' = IF nonblock' THEN {"CONNECTING"} ELSE {}
    /\ Const /\ UNCHANGED <<count, through, junk, helpers, depth>>

(* The network: a connection in progress is made, or refused.              *)
NetworkAnswers ==
    /\ pc = "wait" /\ fd = "connecting"
    /\ IF Hop.up THEN fd' = "connected" /\ at' = 1 ELSE fd' = "closed" /\ UNCHANGED at
    /\ Const /\ UNCHANGED <<pc, count, through, nonblock, state, junk, helpers, depth, result>>

(* STREAMWaitConnect: select() for the answer, or for as long as the       *)
(* stream's timeout, which may be not at all; then STREAMIsConnected asks  *)
(* the kernel.  What has not answered by then has failed.                  *)
FaultWaitConnect ==
    /\ pc = "wait" /\ pc' = "post"
    /\ state' = state \ {"CONNECTING"} /\ UNCHANGED result
    /\ Const /\ UNCHANGED <<count, at, through, fd, nonblock, junk, helpers, depth>>

STREAMWaitConnect ==
    /\ pc = "wait"
    /\ IF fd = "connected" \/ Hop.type = "udp"
       THEN /\ pc' = "post"
            /\ state' = IF "CONNECTING" \in state THEN {"CONNECTED"} ELSE state
            /\ UNCHANGED result
       ELSE pc' = "done" /\ result' = FALSE /\ UNCHANGED state
    /\ Const /\ UNCHANGED <<count, at, through, fd, nonblock, junk, helpers, depth>>

(* DoSSLClientNegotiation, with whoever is at the other end, on a socket   *)
(* that blocks: SSL_connect waits for ever for who says nothing, and       *)
(* nobody looks at whether the handshake has failed.  A proxy that did not *)
(* make the connection does not speak TLS.                                 *)
Outcomes ==
    IF at = N /\ fd = "connected" THEN {chain[N].tls}
    ELSE {"fails"} \cup {o \in {"silent"} : fd = "connected"}
DoSSLClientNegotiation(flags) ==
    \E o \in IF Hop.type = "ssl" THEN Outcomes ELSE {"none"} :
        /\ pc' = IF o = "silent" THEN "handshake" ELSE "done"
        /\ state' = flags \cup {s \in {"SSL"} : o = "shakes"}

(* STREAMDoPostConnect: blocking again unless CONNECT_NONBLOCK is set.     *)
STREAMDoPostConnect ==
    /\ pc = "post"
    /\ nonblock' = (nonblock /\ NonBlocking /\ Hop.type # "ssl")
    /\ DoSSLClientNegotiation(state \cup {"CONNECTED"})
    /\ result' = TRUE
    /\ Const /\ UNCHANGED <<count, at, through, fd, junk, helpers, depth>>

-----------------------------------------------------------------------------
(* STREAMProcessConnectHops, a hop a step.  A hop that fails does not end  *)
(* it: the next is tried, and the result is that of the last.              *)

First == "INITIAL" \notin state
Ssh == {"ssh", "sshtunnel", "sshproxy"}

HopDone(ok) ==
    /\ result' = ok
    /\ count' = count + 1
    /\ state' = {"INITIAL"}
    /\ pc' = IF count' = N - 1 THEN "last" ELSE "hop"
    /\ Const /\ UNCHANGED <<nonblock, depth>>

(* TCPConnect to the proxy, for the first hop.                             *)
Peer == IF First THEN Reach(1) ELSE at
Socket == IF ~First THEN fd ELSE IF Reach(1) = 0 THEN "none" ELSE "connected"

(* The proxy that is asked does what it is asked, if it is the one that    *)
(* the hop is about.  Another, to which the connection still leads when a  *)
(* hop has failed, may have kept it open, and takes what it is asked for   *)
(* its own next request if it speaks the same protocol.                    *)
Asked(understands) ==
    LET speaks(i) == i # 0 /\ chain[i].takes
                     /\ IF i = count + 1 THEN understands ELSE chain[i].type = Hop.type
    IN  {IF speaks(Peer) THEN Reach(count + 2) ELSE 0}
            \cup {j \in {0} : Peer # count + 1}
Passes(i, j) == {i} \cup count + 2 .. j - 1
Proxied(understands) ==
    \E next \in Asked(understands) :
        /\ at' = IF next # 0 THEN next ELSE Peer
        /\ through' = IF next # 0 THEN through \cup Passes(Peer, next) ELSE through
        /\ fd' = Socket
        /\ HopDone(next # 0)

(* A tcp hop is connected to if it is the first, and nothing has to be done*)
(* for another.  With a global chain the first begins the chain again.     *)
ConnectHopTCP ==
    /\ pc = "hop" /\ Hop.type = "tcp"
    /\ count = 0 => ~global
    /\ at' = Peer /\ fd' = Socket
    /\ through' = IF First THEN 1 .. Peer - 1 ELSE through
    /\ HopDone(count > 0 \/ Peer # 0)
    /\ UNCHANGED <<junk, helpers>>

ConnectHopTCPAgain ==
    /\ pc = "hop" /\ Hop.type = "tcp" /\ count = 0 /\ global
    /\ depth < MaxDepth
    /\ depth' = depth + 1
    /\ Const /\ UNCHANGED <<pc, count, at, through, fd, nonblock, state, junk, helpers, result>>

ConnectHopHTTPSProxy ==
    /\ pc = "hop" /\ Hop.type = "https"
    /\ Proxied(TRUE)
    /\ UNCHANGED <<junk, helpers>>

(* A socks5 proxy is told of the methods (ConnectHopSocks5Auth) only as    *)
(* the first hop.  After an address for a socks4 proxy the user is written *)
(* twice, and the address once more: what is left over goes on to the host.*)
ConnectHopSocks ==
    /\ pc = "hop" /\ Hop.type \in {"socks4", "socks5"}
    /\ Proxied(Hop.type = "socks5" => First)
    /\ junk' = (junk \/ (Hop.type = "socks4" /\ chain[count + 2].ip4 /\ result'))
    /\ UNCHANGED helpers

(* ssh and sshtunnel start a process for this connection (up to 10 times), *)
(* sshproxy one for all: a socks5 proxy.  All must come first.             *)
ConnectHopSSH ==
    /\ pc = "hop" /\ Hop.type \in Ssh
    /\ LET next == IF count = 0 /\ Hop.up /\ Hop.takes THEN Reach(2) ELSE 0 IN
       /\ at' = IF next # 0 THEN next ELSE at
       /\ fd' = IF next # 0 THEN "connected" ELSE fd
       /\ through' = IF next # 0 THEN Passes(1, next) ELSE through
       /\ helpers' = helpers \cup {h \in {1} : Hop.type = "sshproxy" /\ next # 0}
       /\ HopDone(next # 0)
    /\ UNCHANGED junk

(* A type that is not known leaves the result of the hop before it.        *)
ConnectHopUnknown ==
    /\ pc = "hop" /\ Hop.type \in {"none", "udp", "ssl"}
    /\ HopDone(result)
    /\ UNCHANGED <<at, through, fd, junk, helpers>>

(* TLS with the destination, over what there is.                           *)
LastHop ==
    /\ pc = "last"
    /\ DoSSLClientNegotiation(state)
    /\ Const /\ UNCHANGED <<count, at, through, fd, nonblock, junk, helpers, depth, result>>

(* STREAMSocketOpen closes the stream if it could not be connected.        *)
STREAMSocketOpen ==
    /\ pc = "done" /\ pc' = "returned"
    /\ fd' = IF result THEN fd ELSE "none"
    /\ state' = IF result THEN state ELSE {}
    /\ depth' = 0
    /\ Const /\ UNCHANGED <<count, at, through, nonblock, junk, helpers, result>>

(* ConnectionHopCloseAll, when the program ends.                           *)
ProgramExits ==
    /\ pc = "returned" /\ pc' = "exited"
    /\ helpers' = {}
    /\ Const /\ UNCHANGED <<count, at, through, fd, nonblock, state, junk, depth, result>>

Library ==
    \/ STREAMConnect \/ IPReconnect \/ STREAMWaitConnect \/ STREAMDoPostConnect
    \/ ConnectHopTCP \/ ConnectHopTCPAgain \/ ConnectHopHTTPSProxy \/ ConnectHopSocks
    \/ ConnectHopSSH \/ ConnectHopUnknown \/ LastHop \/ STREAMSocketOpen \/ ProgramExits
Next == Library \/ NetworkAnswers
Spec == Init /\ [][Next]_vars /\ WF_vars(Library)

-----------------------------------------------------------------------------
(* What the chains are to be like for the next property to hold: a hop     *)
(* that needs no answer (tcp, or a type that is not known) is not behind   *)
(* one that can fail, socks5 comes first, socks4 is given names, ssh comes *)
(* first, and a tcp hop is not first in a global chain.                    *)
Supported ==
    \A i \in 1 .. N - 1 :
        /\ chain[i].type \in {"tcp"} \cup Ssh \cup {"socks5"} => i = 1
        /\ chain[i].type \in HopTypes \ {"none"}
        /\ chain[i].type = "tcp" => ~global
        /\ chain[i].type = "socks4" => ~chain[i + 1].ip4

(* A stream that was opened reaches its destination (which with udp nobody *)
(* knows), and the destination has not been sent anything yet; it is       *)
(* connected, and not still being connected, and under TLS if that is      *)
(* asked for and the destination agrees to it.  What is sent goes through  *)
(* each of the hosts of the chain, unless two of them are proxies of the   *)
(* same kind: then one that failed may have been skipped.                  *)
AllDiffer == \A i, j \in 1 .. N - 1 : chain[i].type = chain[j].type => i = j
OpenIsConnected ==
    pc = "returned" /\ result /\ Supported =>
        /\ chain[N].type = "udp" \/ at = N
        /\ fd = "connected" /\ ~junk
        /\ "CONNECTING" \notin state
        /\ chain[N].type = "ssl" /\ chain[N].tls = "shakes" => "SSL" \in state
        /\ AllDiffer => through = 1 .. N - 1

(* If every host is up and does what it is asked it is opened, or there was*)
(* no time to wait for the answer of one that is connected to directly.    *)
GoodChainOpens ==
    pc = "done" /\ Supported /\ (\A i \in 1 .. N : chain[i].up /\ chain[i].takes) =>
        result \/ fd = "connecting"

(* STREAMSocketOpen returns, whatever the hosts do, but for one that says  *)
(* nothing when TLS is begun with it: then it waits for ever, whatever     *)
(* timeout was asked for.                                                  *)
WaitsForTLS ==
    /\ pc = "handshake" /\ chain[N].type = "ssl" /\ fd = "connected"
    /\ at = N => chain[N].tls = "silent"
OpenReturns ==
    pc = "idle" ~> pc = "exited" \/ WaitsForTLS \/ (global /\ chain[1].type = "tcp")

(* Not checked.  "if we don't really want the stream to be non blocking,   *)
(* we unset that here" (Socket.c:992), but the timeout has set what is     *)
(* asked; a stream that was asked to be under TLS may not be.              *)
OpenIsSecure == pc = "returned" /\ result /\ chain[N].type = "ssl" => "SSL" \in state
BlocksAsAsked == pc = "returned" /\ result /\ ~setting.n => ~nonblock
=============================================================================
