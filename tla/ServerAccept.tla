----------------------------- MODULE ServerAccept -----------------------------
(***************************************************************************)
(* Server.c, StreamAuth.c, HttpServer.c and the accepting side of          *)
(* WebSocket.c: a server accepts connections one after the other, starts   *)
(* TLS on them, reads the request of those of http, authenticates them and *)
(* gives them to the program, which may ask to have the connection first   *)
(* and the rest later (2StepAccept).                                       *)
(*                                                                         *)
(* A server is [proto, opts, auth, two]: opts are the letters of its       *)
(* configuration, auth a sequence of <<method, accepted>>.  A client is    *)
(* [tls, shakes, ip, subject, issuer, verified, request].                  *)
(***************************************************************************)
EXTENDS Integers, Sequences, FiniteSets, SequencesExt

CONSTANTS Servers, Clients

(* Methods and the lines of requests are sequences, a request has a first  *)
(* line, and PasswordFileCheck refuses who does not give a name.           *)
NotSet == ""
ServerAssumption ==
    /\ \A s \in Servers :
          /\ Len(s.auth) \in Nat /\ DOMAIN s.auth = 1 .. Len(s.auth)
          /\ \A i \in 1 .. Len(s.auth) :
                s.auth[i][1] = "password-file" => NotSet \notin s.auth[i][2]
    /\ \A c \in Clients : Len(c.request) \in Nat \ {0}

VARIABLES
    server,
    queue,          \* clients that connected, as the kernel keeps them
    spoken,         \* clients that sent what they have to send
    busy,           \* {} or the client whose connection the program works on
    stream          \* of each client: what the program has of it

vars == <<server, queue, spoken, busy, stream>>

NewStream == [state |-> "none", type |-> NotSet, ssl |-> FALSE, isauth |-> FALSE,
              method |-> NotSet, user |-> NotSet, upgrade |-> FALSE, cookie |-> FALSE, sent |-> <<>>]

Init ==
    /\ server \in Servers
    /\ queue = <<>> /\ spoken = {} /\ busy = {}
    /\ stream = [c \in Clients |-> NewStream]

Connect(c) ==
    /\ stream[c].state = "none"
    /\ stream' = [stream EXCEPT ![c].state = "queued"]
    /\ queue' = Append(queue, c)
    /\ UNCHANGED <<server, spoken, busy>>

Speak(c) ==
    /\ stream[c].state # "none" /\ c \notin spoken
    /\ spoken' = spoken \cup {c}
    /\ UNCHANGED <<server, queue, busy, stream>>

-----------------------------------------------------------------------------
(* STREAMServerNew: the flag for TCP_NODELAY is the one for TLS.           *)
Flags ==
    {x \in {"auto"} : "A" \in server.opts}
        \cup {x \in {"tls"} : server.proto \in {"tls", "https", "wss"} \/ "N" \in server.opts}

AcceptType ==
    CASE server.proto \in {"tcp", "tls"} -> "tcp"
      [] server.proto \in {"http", "https"} -> "http"
      [] server.proto \in {"ws", "wss"} -> "ws"
      [] OTHER -> "unix"

(* What DoSSLServerNegotiation and OpenSSLAutoDetect come to.  That the    *)
(* handshake failed is not looked at.                                      *)
Negotiates(c) == IF "auto" \in Flags THEN c.tls ELSE "tls" \in Flags
SSL(c) == Negotiates(c) /\ c.tls /\ c.shakes

-----------------------------------------------------------------------------
(* STREAMAuthProcess: a certificate, an issuer and a password file say yes *)
(* or no, an address and a cookie only yes.  Nobody sets Auth:Basic, and a *)
(* cookie is looked up as "cookie" and kept as "cookie:" and its name.     *)
Certificate(c, s, name, accepted) == s.ssl /\ c.verified /\ name = accepted

STREAMAuthMethod(c, s, m, sofar) ==
    CASE m[1] \in {"cert", "certificate"} -> Certificate(c, s, c.subject, m[2])
      [] m[1] = "issuer" -> Certificate(c, s, c.issuer, m[2])
      [] m[1] = "password-file" -> s.user \in m[2]
      [] m[1] = "ip" -> sofar \/ c.ip \in m[2]
      [] OTHER -> sofar

STREAMAuthProcess(c, s) ==
    LET f[i \in 0..Len(server.auth)] ==
            IF i = 0 THEN FALSE ELSE STREAMAuthMethod(c, s, server.auth[i], f[i - 1]) IN
    f[Len(server.auth)]

(* STREAMAuth: without methods it succeeds, and the stream is not marked.  *)
STREAMAuth(c, s) == server.auth = <<>> \/ STREAMAuthProcess(c, s)
Marked(c, s) == [s EXCEPT !.isauth = @ \/ (server.auth # <<>> /\ STREAMAuthProcess(c, s))]

-----------------------------------------------------------------------------
(* HTTPServerParseClientHeaders: the request line, then the headers.       *)
(* HTTPServerSetValue leaves the method as it is, whatever a header says.  *)
FaultParseHeader(s, h) ==
    CASE h[1] = "Authorization" -> [s EXCEPT !.user = h[2]]
      [] h[1] = "Cookie" -> [s EXCEPT !.cookie = TRUE]
      [] h[1] = "Upgrade" -> [s EXCEPT !.upgrade = (h[2] = "websocket")]
      [] h[1] = "Method" -> [s EXCEPT !.method = h[2]]
      [] OTHER -> s
ParseHeader(s, h) ==
    CASE h[1] = "Authorization" -> [s EXCEPT !.user = h[2]]
      [] h[1] = "Cookie" -> [s EXCEPT !.cookie = TRUE]
      [] h[1] = "Upgrade" -> [s EXCEPT !.upgrade = (h[2] = "websocket")]
      [] OTHER -> s

HTTPServerParseClientHeaders(c, s) ==
    LET f[i \in 0..(Len(c.request) - 1)] ==
            IF i = 0 THEN [s EXCEPT !.method = c.request[1]]
            ELSE ParseHeader(f[i - 1], c.request[i + 1]) IN
    f[Len(c.request) - 1]

(* HTTPServerAccept leaves it to the program to look at the mark.          *)
HTTPServerAccept(c, s) ==
    LET parsed == HTTPServerParseClientHeaders(c, s) IN Marked(c, parsed)

WebSocketAccept(c, s) ==
    LET got == HTTPServerAccept(c, s) IN
    CASE ~got.upgrade -> [got EXCEPT !.sent = Append(@, 400)]
      [] got.upgrade /\ ~STREAMAuth(c, got) -> [got EXCEPT !.sent = Append(@, 401)]
      [] OTHER -> [Marked(c, got) EXCEPT !.sent = Append(@, 101), !.type = "service"]

-----------------------------------------------------------------------------
(* STREAMServerAccept: what blocks for the client comes after, unless the  *)
(* program asked for two steps.  A unix socket has no more to do.          *)
Blocks == ~server.two /\ AcceptType # "unix"

STREAMServerAccept ==
    /\ busy = {} /\ queue # <<>>
    /\ LET next == Head(queue) IN
       /\ queue' = Tail(queue)
       /\ busy' = IF Blocks THEN {next} ELSE {}
       /\ stream' = [stream EXCEPT ![next].state = IF Blocks THEN "accepting"
                                                   ELSE IF server.two THEN "accepted" ELSE "given",
                                   ![next].type = AcceptType]
    /\ UNCHANGED <<server, spoken>>

(* After an accept in two steps the program goes on with a connection when *)
(* it likes, or has a process of its own do so (Server.h:106).             *)
GoOn(c, handedOff) ==
    /\ busy = {} /\ stream[c].state = "accepted"
    /\ stream' = [stream EXCEPT ![c].state = "accepting"]
    /\ busy' = IF handedOff THEN {} ELSE {c}
    /\ UNCHANGED <<server, queue, spoken>>

(* STREAMServerPostAccept, by STREAMServerAccept or by the program.  It    *)
(* waits for what the client sends, if it reads of it.                     *)
Waits == Flags # {} \/ AcceptType \in {"http", "ws"}

STREAMServerPostAccept(c) ==
    /\ stream[c].state = "accepting"
    /\ Waits => c \in spoken
    /\ LET s == [stream[c] EXCEPT !.ssl = SSL(c), !.state = "given"]
           done == CASE s.type = "tcp" -> [Marked(c, s) EXCEPT !.state =
                                                IF STREAMAuth(c, s) THEN "given" ELSE "closed"]
                     [] s.type = "http" -> HTTPServerAccept(c, s)
                     [] s.type = "ws" -> WebSocketAccept(c, s)
                     [] OTHER -> [s EXCEPT !.ssl = FALSE] IN
       stream' = [stream EXCEPT ![c] = done]
    /\ busy' = busy \ {c}
    /\ UNCHANGED <<server, queue, spoken>>

(* HTTPServerSendHeaders and what the program sends with it: a document to *)
(* who is authenticated, if it asks for that.                              *)
HTTPServerSendResponse(c) ==
    /\ stream[c].state = "given" /\ stream[c].type = "http" /\ stream[c].sent = <<>>
    /\ LET code == IF server.auth = <<>> \/ stream[c].isauth THEN 200 ELSE 401 IN
       stream' = [stream EXCEPT ![c].sent = Append(@, code)]
    /\ UNCHANGED <<server, queue, spoken, busy>>

Next ==
    \/ STREAMServerAccept
    \/ \E c \in Clients : \/ Connect(c) \/ Speak(c) \/ HTTPServerSendResponse(c)
                          \/ STREAMServerPostAccept(c)
                          \/ \E handedOff \in BOOLEAN : GoOn(c, handedOff)
Library == STREAMServerAccept \/ \E c \in busy : STREAMServerPostAccept(c)
Spec == Init /\ [][Next]_vars /\ WF_vars(Library)

-----------------------------------------------------------------------------
(* Whether a method of the server accepts who has spoken.                  *)
LastOf(c, header) ==
    LET at == {i \in 2..Len(c.request) : c.request[i][1] = header} IN
    IF at = {} THEN NotSet ELSE c.request[CHOOSE i \in at : \A j \in at : i >= j][2]

AcceptedBy(c, m) ==
    \/ m[1] \in {"cert", "certificate"} /\ c.tls /\ c.verified /\ c.subject = m[2]
    \/ m[1] = "issuer" /\ c.tls /\ c.verified /\ c.issuer = m[2]
    \/ m[1] = "ip" /\ c.ip \in m[2]
    \/ m[1] = "password-file" /\ LastOf(c, "Authorization") \in m[2]

(* The program is given only who a method accepts, over TCP, and a client  *)
(* is marked as authenticated, switched to a websocket or answered with a  *)
(* document only if a method accepts it; the method of the request is the  *)
(* one that the client sent first, whatever it sent later.                 *)
OnlyTheAccepted ==
    \A c \in Clients :
        LET s == stream[c]
            accepted == \E i \in DOMAIN server.auth : AcceptedBy(c, server.auth[i]) IN
        /\ s.isauth => accepted
        /\ \/ s.type = "tcp" /\ s.state = "given"
           \/ \E i \in DOMAIN s.sent : s.sent[i] \in {101, 200}
           => server.auth = <<>> \/ accepted
        /\ s.method # NotSet => s.method = c.request[1]

(* Who connects is accepted, unless the program itself works on another    *)
(* client, which says nothing: the only one that can hold up the others,   *)
(* and not if it was handed off after an accept in two steps.              *)
HeldUp == \E c \in busy : c \notin spoken
AllAreAccepted ==
    \A c \in Clients : (stream[c].state = "queued") ~> (stream[c].state # "queued" \/ HeldUp)

(* Not checked, for they do not hold: any of the methods is enough, a      *)
(* server of tcp speaks plainly and one of tls does not, and clients are   *)
(* accepted while the program works on one that is silent.                 *)
AnyMethodIsEnough ==
    \A c \in Clients :
        stream[c].state = "closed" =>
            \A i \in DOMAIN server.auth : ~AcceptedBy(c, server.auth[i])
SpeaksAsTold ==
    \A c \in Clients :
        /\ stream[c].state = "given" /\ server.proto = "tls" => stream[c].ssl
        /\ server.proto = "tcp" /\ "A" \notin server.opts => ~stream[c].ssl
NobodyIsLeft ==
    \A c \in Clients : (stream[c].state = "queued") ~> (stream[c].state # "queued")
===============================================================================
