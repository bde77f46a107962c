------------------------------- MODULE Network -------------------------------
(***************************************************************************)
(* What goes over the network: one of seven components at a time, chosen   *)
(* by `part'.  The variables of the others are held at values with which   *)
(* their liveness properties hold.  The module of HTTP transactions is     *)
(* extended; the others are instances, whose variables and constants have  *)
(* the names they have there unless two clash.                             *)
(***************************************************************************)
EXTENDS HttpTransaction, Integers, Sequences

Parts == {"Http", "Chunked", "Connection", "Select", "WebSocket", "Smtp", "Server"}
Off == "off"

CONSTANTS
    Base, OutSize, Bodies,                      \* ChunkedTransfer
    ProxyChains, ConnectSettings, MaxDepth,     \* Connection
    Watched, EpollOver, MaxData, MaxOpens,      \* IOPoll
    Basic, Bit, Wide, MaxFrameSize, WriteSizes, MaxWrites, Talks,   \* WebSocket
    MailReplies, MailSettings, Recipients,      \* Smtp
    Services, Visitors                          \* ServerAccept

VARIABLES
    part,
    (* ChunkedTransfer *)
    bodyConfig, unsent, net, eof, Buffer, ChunkSize, wrapped, InputBuff, consumed, closed,
    (* Connection *)
    chain, setting, global, connectPc, count, at, through, fd, nonblock, state, junk,
    helpers, depth, result,
    (* IOPoll *)
    list, added, buffered, waiting, pollset, selectPc, set, current, opens, drains,
    (* WebSocket *)
    script, bytes, sent, gone, frameWire, Size, msgRead, got, readResult, pongs, lost, out,
    (* Smtp *)
    mailSetting, stage, tls, caps, rcpts, accepted, replyWire, agreed, body, mailResult,
    (* ServerAccept *)
    server, queue, spoken, busy, stream

chunkedVars == <<bodyConfig, unsent, net, eof, Buffer, ChunkSize, wrapped, InputBuff,
                 consumed, closed>>
connectionVars == <<chain, setting, global, connectPc, count, at, through, fd, nonblock,
                    state, junk, helpers, depth, result>>
selectVars == <<list, added, buffered, waiting, pollset, selectPc, set, current, opens, drains>>
webSocketVars == <<script, bytes, sent, gone, frameWire, Size, msgRead, got, readResult,
                   pongs, lost, out>>
smtpVars == <<mailSetting, stage, tls, caps, rcpts, accepted, replyWire, agreed, body,
              mailResult>>
serverVars == <<server, queue, spoken, busy, stream>>

-----------------------------------------------------------------------------
Ch == INSTANCE ChunkedTransfer WITH Configs <- Bodies, config <- bodyConfig
Co == INSTANCE Connection WITH
        Chains <- ProxyChains, Settings <- ConnectSettings, pc <- connectPc
Se == INSTANCE IOPoll WITH Fds <- Watched, pc <- selectPc
We == INSTANCE WebSocket WITH
        Torn <- FALSE, Conversations <- Talks, wire <- frameWire, result <- readResult
Sm == INSTANCE Smtp WITH
        Replies <- MailReplies, Settings <- MailSettings,
        setting <- mailSetting, wire <- replyWire, result <- mailResult
Sa == INSTANCE ServerAccept WITH Servers <- Services, Clients <- Visitors

ASSUME NetworkAssumption ==
    /\ Ch!ChunkedAssumption
    /\ Co!ConnectionAssumption
    /\ Se!SelectAssumption
    /\ We!WebSocketAssumption
    /\ Sm!RepliesAreMarked
    /\ Sa!ServerAssumption

-----------------------------------------------------------------------------
HttpOff ==
    /\ config = Off /\ Info = Off /\ S = Off /\ request = Off /\ answer = Off /\ pc = "idle"
    /\ call = Off /\ copied = Off /\ calls = Off
ChunkedOff ==
    /\ bodyConfig = Off /\ unsent = Off /\ net = Off /\ eof = Off /\ Buffer = Off
    /\ ChunkSize = Off /\ wrapped = Off /\ InputBuff = Off /\ consumed = Off /\ closed = TRUE
ConnectionOff ==
    /\ chain = Off /\ setting = Off /\ global = FALSE /\ connectPc = Off /\ count = Off
    /\ at = Off /\ through = Off /\ fd = Off /\ nonblock = Off /\ state = Off /\ junk = Off /\ helpers = Off
    /\ depth = Off /\ result = Off
SelectOff ==
    /\ list = << >> /\ added = Off /\ buffered = Off /\ waiting = [s \in Watched |-> 0]
    /\ pollset = Off /\ selectPc = Off /\ set = Off /\ current = Off /\ opens = Off /\ drains = FALSE
WebSocketOff ==
    /\ script = Off /\ bytes = Off /\ sent = Off /\ gone = Off /\ frameWire = Off /\ Size = Off
    /\ msgRead = Off /\ got = Off /\ readResult = -1 /\ pongs = Off /\ lost = Off /\ out = Off
SmtpOff ==
    /\ mailSetting = Off /\ stage = Off /\ tls = Off /\ caps = Off /\ rcpts = Off
    /\ accepted = Off /\ replyWire = Off /\ agreed = Off /\ body = Off /\ mailResult = Off
ServerOff ==
    /\ server = Off /\ queue = Off /\ spoken = {} /\ busy = {}
    /\ stream = [v \in Visitors |-> [state |-> "none"]]

NetworkInit ==
    /\ part \in Parts
    /\ IF part = "Http" THEN Init ELSE HttpOff
    /\ IF part = "Chunked" THEN Ch!Init ELSE ChunkedOff
    /\ IF part = "Connection" THEN Co!Init ELSE ConnectionOff
    /\ IF part = "Select" THEN Se!Init ELSE SelectOff
    /\ IF part = "WebSocket" THEN We!Init ELSE WebSocketOff
    /\ IF part = "Smtp" THEN Sm!Init ELSE SmtpOff
    /\ IF part = "Server" THEN Sa!Init ELSE ServerOff

HttpNext ==
    /\ part = "Http" /\ Next
    /\ UNCHANGED <<part, chunkedVars, connectionVars, selectVars, webSocketVars, smtpVars, serverVars>>
ChunkedNext ==
    /\ part = "Chunked" /\ Ch!Next
    /\ UNCHANGED <<part, vars, connectionVars, selectVars, webSocketVars, smtpVars, serverVars>>
ConnectionNext ==
    /\ part = "Connection" /\ Co!Next
    /\ UNCHANGED <<part, vars, chunkedVars, selectVars, webSocketVars, smtpVars, serverVars>>
SelectNext ==
    /\ part = "Select" /\ Se!Next
    /\ UNCHANGED <<part, vars, chunkedVars, connectionVars, webSocketVars, smtpVars, serverVars>>
WebSocketNext ==
    /\ part = "WebSocket" /\ We!Next
    /\ UNCHANGED <<part, vars, chunkedVars, connectionVars, selectVars, smtpVars, serverVars>>
SmtpNext ==
    /\ part = "Smtp" /\ Sm!Next
    /\ UNCHANGED <<part, vars, chunkedVars, connectionVars, selectVars, webSocketVars, serverVars>>
ServerNext ==
    /\ part = "Server" /\ Sa!Next
    /\ UNCHANGED <<part, vars, chunkedVars, connectionVars, selectVars, webSocketVars, smtpVars>>
NetworkNext ==
    \/ HttpNext \/ ChunkedNext \/ ConnectionNext \/ SelectNext \/ WebSocketNext
    \/ SmtpNext \/ ServerNext

networkVars == <<part, vars, chunkedVars, connectionVars, selectVars, webSocketVars,
                 smtpVars, serverVars>>

(* The fairness of each component.                                         *)
NetworkFairness ==
    /\ WF_vars(part = "Http" /\ Transaction)
    /\ WF_chunkedVars(part = "Chunked" /\ Ch!Library)
    /\ WF_chunkedVars(part = "Chunked" /\ Ch!Server)
    /\ WF_connectionVars(part = "Connection" /\ Co!Library)
    /\ WF_selectVars(part = "Select" /\ Se!Library)
    /\ WF_selectVars(part = "Select" /\ Se!ProgramReads)
    /\ WF_webSocketVars(part = "WebSocket" /\ We!PeerSends)
    /\ WF_webSocketVars(part = "WebSocket" /\ We!WebSocketReadBytes)
    /\ WF_serverVars(part = "Server" /\ Sa!Library)
NetworkSpec == NetworkInit /\ [][NetworkNext]_networkVars /\ NetworkFairness

-----------------------------------------------------------------------------
(* What a program reads is what was sent: the bytes of a chunked body, all *)
(* of them if it ends as it should; a document as the site has it, if the  *)
(* site's lengths are right; the data of websocket messages, whose ends    *)
(* are where the peer has put them.                                        *)
ReadIsWhole ==
    /\ part = "Chunked" => Ch!TypeOK /\ Ch!ClosedIsFinal
    /\ part = "Http" => TypeOK /\ DownloadIsWhole
    /\ part = "WebSocket" => We!MessagesAreWhole

(* What a program sends arrives as it was meant: a request with its data,  *)
(* after each redirection and each time it is asked to authenticate;       *)
(* websocket frames with headers that tell their length, up to one that is *)
(* cut; and a commit returns TRUE only when there is an answer.            *)
SentIsWhole ==
    /\ part = "Http" => RequestIsWhole /\ CommitIsAnswered
    /\ part = "WebSocket" => We!SentDecodes

(* A stream that was opened through a chain of proxies reaches its         *)
(* destination, through all of them if no two are of a kind, and nothing   *)
(* was sent there yet; and it is opened if all do what they are asked.     *)
OpenReachesHost == part = "Connection" => Co!OpenIsConnected /\ Co!GoodChainOpens

(* Only who a method of the server accepts is given to the program.        *)
OnlyTheAccepted == part = "Server" => Sa!OnlyTheAccepted

(* A mail is sent only to a server that has agreed to each part of it.     *)
MailIsAgreed == part = "Smtp" => Sm!MailIsAgreed

(* Chunked bodies come out as bytes go through a pipe.                     *)
ImplementsPipe ==
    /\ part = "Chunked" => Ch!Pipe!Init
    /\ [][part = "Chunked" => Ch!PipeStep]_chunkedVars

(* STREAMSelect returns a stream with data, and none only if none has any. *)
NoneOnlyIfNone == [][part = "Select" => Se!ReturnsReady]_selectVars

(* What was begun comes to an end: an HTTP transaction, a chunked body, a  *)
(* connection, but for TLS with a host that says nothing; a stream with    *)
(* data is selected, a websocket is read up to where its peer has closed,  *)
(* and who connects to a server is accepted, but for one that is held up   *)
(* by a client that says nothing.                                          *)
AllIsAnswered ==
    /\ CallReturns
    /\ Ch!Ends
    /\ Co!OpenReturns
    /\ Se!NotLockedOut
    /\ We!AllIsRead
    /\ Sa!AllAreAccepted
=============================================================================
