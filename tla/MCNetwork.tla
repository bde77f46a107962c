------------------------------ MODULE MCNetwork ------------------------------
(* Network for TLC: what servers, peers and proxies do in each part.  Of   *)
(* three streams all are watched with epoll, fewer with poll.              *)
EXTENDS Network, MCHttpTransaction

(* The programs are of the kind that SentWhole of NetworkProofs is about.  *)
ASSUME PlainCallsAssumption == PlainCalls

-----------------------------------------------------------------------------
(* Sizes of chunks have two binary digits, and the output two bytes: a     *)
(* chunk of three is handed on in two steps.                               *)
Sent(sizes, padded, ending, early, timeouts) ==
    [sizes |-> sizes, padded |-> padded, ending |-> ending,
     early |-> early, timeouts |-> timeouts]
Proper == <<"CR", "LF", "CR", "LF">>
SomeBodies == {
    Sent(<<2, 1>>, FALSE, Proper, FALSE, {}),
    Sent(<<3>>, TRUE, Proper, FALSE, {"data"}),
    Sent(<<1, 3>>, FALSE, <<"CR">>, FALSE, {}),
    Sent(<< >>, TRUE, << >>, FALSE, {"size"}),
    Sent(<<2, 1>>, FALSE, Proper, TRUE, {})}

(* Chains of up to two proxies of all types.                               *)
Host(type, up, takes, ip4) ==
    [type |-> type, up |-> up, takes |-> takes, ip4 |-> ip4, tls |-> "shakes"]
Good(type) == Host(type, TRUE, TRUE, FALSE)
Proxies ==
    {Good(type) : type \in {"none", "tcp", "https", "ssh", "sshtunnel", "sshproxy",
                            "socks4", "socks5"}}
    \cup {Host(type, TRUE, FALSE, FALSE) : type \in {"https", "socks4", "socks5", "ssh"}}
    \cup {Host(type, FALSE, TRUE, FALSE) : type \in {"https", "tcp", "socks4"}}
Secure(handshake) == [Good("ssl") EXCEPT !.tls = handshake]
Address == Host("tcp", TRUE, TRUE, TRUE)
Down == Host("tcp", FALSE, TRUE, FALSE)
SomeChains ==
    {<<Host(type, up, TRUE, FALSE)>> : type \in {"tcp", "ssl", "udp"}, up \in BOOLEAN}
    \cup {<<Address>>, <<Secure("fails")>>, <<Secure("silent")>>}
    \cup {<<h, last>> : h \in Proxies,
                        last \in {Good("ssl"), Secure("fails"), Secure("silent"), Address, Down}}
    \cup {<<h, g, Good("tcp")>> : h \in Proxies, g \in Proxies}
AllConnectSettings == [n : BOOLEAN, timeout : BOOLEAN]

(* Lengths on both sides of those where the header grows: 1 and 2 for 125  *)
(* and 126, and data too big for a frame; and what is not understood.      *)
Whole(n) == [op |-> "data", fin |-> TRUE, len |-> n, masked |-> FALSE]
Control(op) == [Whole(0) EXCEPT !.op = op]
Part(op, fin) == [op |-> op, fin |-> fin, len |-> 1, masked |-> FALSE]
SomeTalks == {
    <<Whole(1), Control("ping"), Whole(3), Whole(0), Whole(1)>>,
    <<Whole(6), Control("pong"), Whole(2), Control("close"), Whole(1)>>,
    <<Whole(1), Whole(2), Whole(9), Whole(1)>>,
    <<Part("data", FALSE), Part("continue", TRUE)>>,
    <<Part("ping", TRUE), [Whole(2) EXCEPT !.masked = TRUE], Whole(1)>>}

(* Replies of one line and of several, with and without abilities.         *)
Line(code, last, abilities) == [code |-> code, last |-> last, caps |-> abilities]
SomeReplies == {
    <<Line(250, TRUE, {})>>, <<Line(334, TRUE, {})>>, <<Line(550, TRUE, {})>>,
    <<Line(550, FALSE, {}), Line(550, TRUE, {})>>,
    <<Line(250, FALSE, {}), Line(250, FALSE, {"LOGIN"}), Line(250, TRUE, {"PLAIN"})>>,
    <<Line(250, FALSE, {"PLAIN"}), Line(250, TRUE, {})>>}
MailTo(flags, secure, login) == [flags |-> flags, tls |-> secure, login |-> login]
SomeMailSettings == {
    MailTo({}, FALSE, TRUE), MailTo({"NOSSL"}, FALSE, TRUE),
    MailTo({"STARTTLS"}, FALSE, FALSE), MailTo({}, TRUE, TRUE)}

(* Servers of all protocols, and three clients: one without TLS, two with  *)
(* certificates, of whom one names itself twice.                           *)
Service(proto, opts, methods, two) ==
    [proto |-> proto, opts |-> opts, auth |-> methods, two |-> two]
ByAddress == <<"ip", {"ip1"}>>
ByPassword == <<"password-file", {"joe"}>>
ByCertificate == <<"cert", "bill">>
SomeServices ==
    {Service(proto, opts, methods, two) :
        proto \in {"tcp", "tls", "http", "ws"}, opts \in {{}, {"A"}}, two \in BOOLEAN,
        methods \in {<< >>, <<ByAddress, ByCertificate>>, <<ByPassword, ByAddress>>}}
    \cup {Service("unix", {}, << >>, FALSE), Service("wss", {"N"}, <<ByPassword>>, TRUE)}
Visitor(secure, ip, subject, lines) ==
    [tls |-> secure, shakes |-> TRUE, ip |-> ip, subject |-> subject, issuer |-> "ca",
     verified |-> TRUE, request |-> lines]
SomeVisitors == {
    Visitor(FALSE, "ip1", "", <<"GET", <<"Method", "PUT">>>>),
    Visitor(TRUE, "ip2", "bill", <<"GET", <<"Authorization", "joe">>,
                                   <<"Upgrade", "websocket">>, <<"Authorization", "jim">>>>),
    Visitor(TRUE, "ip2", "jim", <<"PUT", <<"Upgrade", "websocket">>, <<"Cookie", "x">>,
                                  <<"Authorization", "joe">>>>)}
=============================================================================
