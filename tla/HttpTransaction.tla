--------------------------- MODULE HttpTransaction ---------------------------
(***************************************************************************)
(* An HTTP client's transaction (Http.c): HTTPTransact connects, sends a   *)
(* request, reads the headers of the answer, and goes round again when it  *)
(* was redirected or asked to authenticate; what it knows is carried from  *)
(* one round to the next in an HTTPInfoStruct and a STREAM.  A program     *)
(* calls it, writes its data and calls STREAMCommit if the method sends    *)
(* any, copies the document with HTTPCopyToSTREAM, and may start again.    *)
(*                                                                         *)
(* Attempts with and without TLS are one connect, which succeeds or fails. *)
(* A body is the number of its bytes once it is decoded.                   *)
(*                                                                         *)
(* A definition named Fault... is the definition after it with a mistake   *)
(* in it, which the properties are shown to catch; nothing else uses it.   *)
(***************************************************************************)
EXTENDS Naturals, FiniteSets

CONSTANTS
    URLs,
    Configs,    \* programs, and the sites they visit: see Config
    None

Codes == {"200", "404", "303", "307"}
AuthFlags == {"HTTP_AUTH_BASIC", "HTTP_AUTH_OAUTH", "HTTP_AUTH_RETURN"}

(* What a site has at a URL, and to whom it is given: to all, to those who *)
(* send a password it accepts, or to none.                                 *)
Page == [code : Codes, Location : URLs \union {None}, Length : Nat \union {None},
         coded : SUBSET {"chunked", "gzip"}, body : Nat,
         auth : {"open", "password", "closed"}]

(* The method, whether its data is known beforehand (PostData), where the  *)
(* program starts; whether it has a password, or OAuth; what the proxy     *)
(* asks for; whether connects and answers may fail; how often it calls.    *)
Config == [site : [URLs -> Page], Method : {"GET", "POST"}, PostData : BOOLEAN,
           start : URLs, password : BOOLEAN, oauth : BOOLEAN,
           proxy : {"none", "password", "closed"}, fails : BOOLEAN, calls : Nat]

(* What a server gets, and what it answers.                                *)
Request == [URL : URLs, Method : {"GET", "POST"}, data : BOOLEAN, sends : BOOLEAN,
            auth : BOOLEAN, proxy : BOOLEAN]
Answer == [code : Codes \union {"401", "407"}, Location : URLs \union {None},
           Length : Nat \union {None}, coded : SUBSET {"chunked", "gzip"}, body : Nat]

ASSUME HttpAssumption ==
    Configs \subseteq Config /\ None \notin Request \union Answer

VARIABLES
    config,     \* the program and the site
    Info,       \* the HTTPInfoStruct
    S,          \* the STREAM: connected, Content-Length value, modules
    request,    \* the request the server has, or None
    answer,     \* the answer that was read since the last connect, or None
    pc,         \* where HTTPTransact is, or "idle"
    call,       \* the last call of the program, and what it returned
    copied,     \* what HTTPCopyToSTREAM copied, or None
    calls       \* bound: transactions of the program

vars == <<config, Info, S, request, answer, pc, call, copied, calls>>

Init ==
    /\ config \in Configs
    /\ Info = [Method |-> config.Method, URL |-> config.start, PostData |-> config.PostData,
               sends |-> config.Method = "POST", State |-> {}, Flags |-> {},
               AuthFlags |-> {IF config.oauth THEN "HTTP_AUTH_OAUTH" ELSE "HTTP_AUTH_BASIC"},
               Authorization |-> FALSE, ProxyAuthorization |-> FALSE,
               RedirectPath |-> None, PreviousRedirect |-> None]
    /\ S = [connected |-> FALSE, Length |-> None, modules |-> {}]
    /\ request = None /\ answer = None
    /\ pc = "idle" /\ call = <<"none", FALSE>>
    /\ copied = None /\ calls = 0

-----------------------------------------------------------------------------
(* The server.                                                             *)

Asks(code) == [code |-> code, Location |-> None, Length |-> None, coded |-> {}, body |-> 1]

Response(r) ==
    LET page == config.site[r.URL] IN
    IF config.proxy # "none" /\ ~(r.proxy /\ config.proxy = "password") THEN Asks("407")
    ELSE IF page.auth # "open" /\ ~(r.auth /\ page.auth = "password") THEN Asks("401")
    ELSE [code |-> page.code, Location |-> page.Location, Length |-> page.Length,
          coded |-> page.coded, body |-> page.body]

-----------------------------------------------------------------------------
(* HTTPTransact.                                                           *)

(* It returns the stream, with the modules that the flags call for, or     *)
(* NULL.                                                                   *)
HTTPTransactSetupDataProcessors(s) ==
    [s EXCEPT !.modules = @ \union Info'.Flags]
Return(s) ==
    /\ pc' = "idle" /\ call' = <<call[1], TRUE>>
    /\ S' = HTTPTransactSetupDataProcessors(s)
ReturnNULL ==
    /\ pc' = "idle" /\ call' = <<call[1], FALSE>>
    /\ UNCHANGED <<Info, S, request, answer>>

(* HTTPSendHeaders.  With OAuth it is the bearer's token that is sent as a *)
(* password, and to a proxy the name of its realm.                         *)
FaultKeepsModules(s) == s
STREAMClearDataProcessors(s) == [s EXCEPT !.modules = {}]
HTTPSendHeaders(info, s) ==
    /\ Info' = [info EXCEPT !.State = @ \union {"HTTP_HEADERS_SENT"},
                            !.Authorization = @ \/ config.oauth]
    /\ S' = STREAMClearDataProcessors(s)
    /\ request' = [URL |-> info.URL, Method |-> info.Method, data |-> FALSE,
                   sends |-> info.sends,
                   auth |-> config.password,
                   proxy |-> info.ProxyAuthorization /\ config.password /\ ~config.oauth]

HTTPSetupConnection(s) == [s EXCEPT !.connected = TRUE]
HTTPConnect ==
    /\ pc = "connect"
    /\ \/ /\ S.connected \/ Info.URL # None
          /\ IF "HTTP_HEADERS_SENT" \in Info.State
             THEN /\ S' = HTTPSetupConnection(S)
                  /\ request' = IF S.connected THEN request ELSE None
                  /\ UNCHANGED <<Info, answer>>
             ELSE HTTPSendHeaders(Info, HTTPSetupConnection(S)) /\ answer' = None
          /\ pc' = "send" /\ UNCHANGED call
       \/ /\ ~S.connected /\ (config.fails \/ Info.URL = None)
          /\ ReturnNULL
    /\ UNCHANGED <<config, copied, calls>>

(* What there is to send is sent once; a program that has it yet to write  *)
(* gets the stream now.                                                    *)
ClientData ==
    /\ pc = "send"
    /\ Info' = [Info EXCEPT !.State = @ \union {"HTTP_CLIENTDATA_SENT"}]
    /\ IF "HTTP_CLIENTDATA_SENT" \in Info.State \/ (~Info.PostData /\ Info.Method = "GET")
       THEN pc' = "read" /\ UNCHANGED <<S, request, call>>
       ELSE IF Info.PostData
       THEN pc' = "read" /\ request' = [request EXCEPT !.data = TRUE] /\ UNCHANGED <<S, call>>
       ELSE Return(S) /\ UNCHANGED request
    /\ UNCHANGED <<config, answer, copied, calls>>

(* HTTPReadHeaders: what r says, over what an earlier answer left.  The    *)
(* values of the stream stay until a header of that name replaces them.    *)
HTTPReadHeaders(info, r) ==
    [info EXCEPT !.Flags = r.coded, !.RedirectPath = r.Location,
                 !.Authorization = @ \/ r.code = "401",
                 !.ProxyAuthorization = @ \/ r.code = "407"]
Values(s, r) == [s EXCEPT !.Length = IF r.Length # None THEN r.Length ELSE @]

(* HTTPProcessResponse of a redirection.                                   *)
Circular(info) ==
    info.PreviousRedirect # None /\ info.RedirectPath = info.PreviousRedirect
Redirected(info, r) ==
    LET moved == [info EXCEPT !.PreviousRedirect = info.RedirectPath,
                              !.URL = info.RedirectPath]
    IN  IF r.code # "303" THEN moved
        ELSE [moved EXCEPT !.Method = "GET", !.PostData = FALSE, !.sends = FALSE]

(* HTTPTransactHandleAuthRequest: whether to try again.                    *)
TriesAgain(info, code) ==
    IF code = "407" THEN info.ProxyAuthorization
    ELSE info.Authorization /\ "HTTP_AUTH_RETURN" \notin info.AuthFlags

FreshState(info) == [info EXCEPT !.State = {}]

Again(info, s) ==
    /\ Info' = info
    /\ S' = [s EXCEPT !.connected = FALSE]
    /\ pc' = "connect" /\ request' = None /\ UNCHANGED call

(* The headers were read.                                                  *)
Process(r) ==
    LET info == HTTPReadHeaders(FreshState(Info), r)
        s == Values(S, r)
        redirect == r.code \in {"303", "307"}
        asked == r.code \in {"401", "407"}
    IN  \/ /\ redirect /\ ~Circular(info)
           /\ Again(Redirected(info, r), s)
        \/ /\ asked /\ TriesAgain(info, r.code)
           /\ Again([info EXCEPT !.AuthFlags = @ \union {"HTTP_AUTH_RETURN"}], s)
        \/ /\ (redirect => Circular(info)) /\ (asked => ~TriesAgain(info, r.code))
           /\ Info' = info /\ Return(s) /\ request' = None

ReadResponse ==
    /\ pc = "read" /\ request # None
    /\ answer' = Response(request) /\ Process(answer')
    /\ UNCHANGED <<config, copied, calls>>

(* The server closed, or waits for a request that it was not sent:         *)
(* HTTPReadHeaders gets no line, and the code is "".                       *)
NoResponse ==
    /\ pc = "read" /\ (config.fails \/ request = None)
    /\ Info' = [FreshState(Info) EXCEPT !.Flags = {}, !.RedirectPath = None]
    /\ Return(S)
    /\ request' = None
    /\ UNCHANGED <<config, answer, copied, calls>>

-----------------------------------------------------------------------------
(* The program.                                                            *)
Idle == pc = "idle" /\ UNCHANGED <<config, Info, S>>

(* Not the first time: over the connection that was kept, when the whole   *)
(* document was read.                                                      *)
HTTPTransact ==
    /\ Idle /\ calls < config.calls
    /\ request = None /\ (calls > 0 => answer # None /\ copied = answer.body)
    /\ pc' = "connect" /\ call' = <<"HTTPTransact", FALSE>> /\ calls' = calls + 1
    /\ copied' = None
    /\ UNCHANGED <<request, answer>>

STREAMWriteBytes ==
    /\ Idle /\ request # None /\ S.connected /\ ~request.data
    /\ request' = [request EXCEPT !.data = TRUE]
    /\ UNCHANGED <<answer, pc, call, copied, calls>>

STREAMCommit ==
    /\ Idle /\ call[2] /\ request # None /\ request.data
    /\ pc' = "connect" /\ call' = <<"STREAMCommit", FALSE>>
    /\ UNCHANGED <<request, answer, copied, calls>>

(* The server closes before the upload is committed.                       *)
ConnectionLost ==
    /\ pc = "idle" /\ config.fails /\ request # None /\ S.connected
    /\ S' = [S EXCEPT !.connected = FALSE]
    /\ UNCHANGED <<config, Info, request, answer, pc, call, copied, calls>>

(* The body is copied as far as the Content-Length value says, if there is *)
(* one.                                                                    *)
HTTPCopyToSTREAM ==
    /\ Idle /\ call[2] /\ answer # None /\ copied = None
    /\ copied' = IF S.modules # answer.coded THEN 0
                 ELSE IF S.Length = None \/ S.Length > answer.body THEN answer.body
                 ELSE S.Length
    /\ UNCHANGED <<request, answer, pc, call, calls>>

Transaction == HTTPConnect \/ ClientData \/ ReadResponse \/ NoResponse
Program == HTTPTransact \/ STREAMWriteBytes \/ STREAMCommit \/ HTTPCopyToSTREAM
Next == Transaction \/ Program \/ ConnectionLost
Spec == Init /\ [][Next]_vars

(* A call that was made goes on: servers answer or close, and connects and *)
(* reads time out.                                                         *)
FairSpec == Spec /\ WF_vars(Transaction)

-----------------------------------------------------------------------------
(* Types; while it sends and reads, HTTPTransact has a connection.         *)
TypeOK ==
    /\ config \in Configs
    /\ Info.URL \in URLs \union {None} /\ Info.AuthFlags \subseteq AuthFlags
    /\ pc \in {"idle", "connect", "send", "read"}
    /\ pc \in {"send", "read"} => S.connected

(* A program that writes its data after HTTPTransact has returned, and     *)
(* would have to write it again for a second round: to another place, or   *)
(* with a password for the site or for the proxy.                          *)
Uploads == config.Method = "POST" /\ ~config.PostData
Repeats ==
    /\ Uploads
    /\ \/ config.proxy # "none"
       \/ \E url \in URLs : config.site[url].code = "307" \/ config.site[url].auth # "open"

(* Data that is known beforehand goes with a method that sends data, as    *)
(* HTTPPost has it, and a program that writes its data does so once: else  *)
(* the headers do not tell of the data, or the modules that the first      *)
(* answer called for read the headers of the second.                       *)
PlainCalls ==
    \A plan \in Configs :
        /\ plan.PostData => plan.Method = "POST"
        /\ plan.Method = "POST" /\ ~plan.PostData => plan.calls <= 1

(* When the headers of an answer are read, the server has the request that *)
(* is meant, with all of its data; and the headers are read as they are,   *)
(* by no processing module of a body that was read before.  Uploads that   *)
(* are lost, or have to be repeated, are another matter.                   *)
RequestIsWhole ==
    pc = "read" =>
        \/ /\ request # None
           /\ request.URL = Info.URL /\ request.Method = Info.Method
           /\ request.data = request.sends
           /\ S.modules = {}
        \/ Uploads /\ config.fails /\ request = None
        \/ Repeats

(* Stream.h: STREAMCommit is to declare that all uploaded data has been    *)
(* written and that the server should process it and send a reply.  When   *)
(* it returns TRUE the reply is there, unless data had to be sent again or *)
(* the server closed.                                                      *)
CommitIsAnswered ==
    pc = "idle" /\ call = <<"STREAMCommit", TRUE>> =>
        Repeats \/ config.fails \/ (request = None /\ answer # None)

(* Http.h: HTTPDownload is to "Copy the document at URL".  So it does, if  *)
(* the only lengths that servers give are those of documents that are not  *)
(* encoded.                                                                *)
LengthsAreBodies ==
    \A url \in URLs : LET page == config.site[url] IN
        page.Length \in IF page.code = "200" /\ page.coded = {} THEN {page.body} ELSE {None}
Downloaded == copied # None => copied = answer.body
DownloadIsWhole == LengthsAreBodies => Downloaded

(* A call returns, whatever it is redirected to and asked for; but for a   *)
(* proxy that asks for ever, and sites that redirect in circles other than *)
(* to the same place again.                                                *)
AsksForEver == config.proxy # "none" /\ (config.oauth \/ ~config.password)
Circles ==
    \E url \in URLs, to \in URLs :
        /\ url # to
        /\ config.site[url].Location = to /\ config.site[to].Location = url
CallReturns ==
    pc # "idle" ~> (pc = "idle" \/ AsksForEver \/ Circles)
=============================================================================
