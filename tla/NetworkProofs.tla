---------------------------- MODULE NetworkProofs ----------------------------
(***************************************************************************)
(* Safety of what goes over the network, for every value of the constants  *)
(* that NetworkAssumption allows.  Each theorem is about one component; in *)
(* the steps of the others its variables do not matter.                    *)
(***************************************************************************)
EXTENDS Network, SeqLemmas, TLAPS

-----------------------------------------------------------------------------
(* MAIL.                                                                   *)

(* What a stage of the conversation says of the server: it agreed to what  *)
(* comes before.                                                           *)
MailAgreedTo ==
    /\ stage \in {"RCPT", "DATA", "body", "QUIT"} => "MAIL" \in agreed
    /\ accepted => "RCPT" \in agreed
    /\ stage \in {"DATA", "body", "QUIT"} => accepted
    /\ stage \in {"body", "QUIT"} => "DATA" \in agreed
    /\ stage = "user" => "AUTH" \in agreed
    /\ stage = "password" => {"AUTH", "user"} \subseteq agreed
    /\ stage = "QUIT" => body
    /\ mailResult = "yes" => stage = "done"

(* Between two commands nothing is left of a reply.                        *)
MailInv == replyWire = << >> /\ MailAgreedTo /\ Sm!MailIsAgreed

(* The lines of a reply are read to the last, so its own code is looked at *)
(* and nothing is left for the next command.                               *)
LEMMA ReplyIsRead ==
    ASSUME replyWire = << >>, NEW reply \in MailReplies, NEW cmd,
           Sm!SMTPInteract(cmd, reply)
    PROVE  /\ replyWire' = << >>
           /\ Sm!Code(reply) # 0 => agreed' = agreed \cup {cmd}
           /\ agreed \subseteq agreed'
           /\ cmd # "password" /\ "password" \notin agreed => "password" \notin agreed'
<1>1. /\ reply \in Seq(Sm!ReplyLine) /\ Len(reply) \in Nat \ {0}
      /\ \A i \in 1 .. Len(reply) : reply[i].last <=> i = Len(reply)
  BY NetworkAssumption DEF Sm!RepliesAreMarked, Sm!ReplyLine
<1>2. replyWire \o reply = reply
  BY <1>1
<1>3. Sm!SMTPRead(reply) = Len(reply)
  <2>1. {i \in DOMAIN reply : reply[i].last} = {Len(reply)}
    BY <1>1
  <2>2. QED
    BY <2>1, <1>1 DEF Sm!SMTPRead
<1>4. SubSeq(reply, Len(reply) + 1, Len(reply)) = << >>
  BY <1>1
<1>5. agreed' = IF Sm!Yes(reply[1].code) THEN agreed \cup {cmd} ELSE agreed
  BY DEF Sm!SMTPInteract
<1>6. replyWire' = << >>
  BY <1>2, <1>3, <1>4 DEF Sm!SMTPInteract
<1>7. Sm!Code(reply) # 0 => Sm!Yes(reply[1].code)
  BY <1>2 DEF Sm!Code
<1>8. QED
  BY <1>5, <1>6, <1>7

LEMMA MailInit == NetworkInit /\ part = "Smtp" => MailInv
BY DEF NetworkInit, Sm!Init, MailInv, MailAgreedTo, Sm!MailIsAgreed

(* The greetings decide only what to try next, or that there is no use.    *)
LEMMA AfterHeloGoesOn ==
    ASSUME NEW found, Sm!AfterHelo(found)
    PROVE  \/ stage' = "done" /\ mailResult' = "no"
           \/ stage' \in {"STARTTLS", "AUTH", "MAIL"} /\ mailResult' = mailResult
BY DEF Sm!AfterHelo, Sm!Fail, Sm!Goto

(* Each step reads one reply, and goes on as its code has it.              *)
LEMMA MailNext ==
    ASSUME MailInv, Sm!Next
    PROVE  MailInv'
<1> USE ReplyIsRead DEF MailInv, MailAgreedTo, Sm!MailIsAgreed, Sm!Dialogue, Sm!Goto, Sm!Fail
<1>1. CASE Sm!Greeting
  BY <1>1 DEF Sm!Greeting
<1>2. CASE Sm!SMTPHelo
  <2>1. \/ stage' = "done" /\ mailResult' = "no"
        \/ stage' \in {"HELO", "STARTTLS", "AUTH", "MAIL"} /\ mailResult' = mailResult
    BY <1>2, AfterHeloGoesOn DEF Sm!SMTPHelo
  <2>2. \E reply \in MailReplies, cmd \in {"EHLO", "HELO"} : Sm!SMTPInteract(cmd, reply)
    BY <1>2 DEF Sm!SMTPHelo
  <2>3. stage \in {"EHLO", "HELO"} /\ UNCHANGED <<accepted, body>>
    BY <1>2 DEF Sm!SMTPHelo
  <2>4. QED
    BY <2>1, <2>2, <2>3
<1>3. CASE Sm!StartTLS
  BY <1>3 DEF Sm!StartTLS
<1>4. CASE Sm!SMTPLogin
  BY <1>4 DEF Sm!SMTPLogin
<1>5. CASE Sm!MailFrom
  BY <1>5 DEF Sm!MailFrom
<1>6. CASE Sm!SmtpSendRecipients
  BY <1>6 DEF Sm!SmtpSendRecipients
<1>7. CASE Sm!Data
  BY <1>7 DEF Sm!Data
<1>8. CASE Sm!SendMail
  BY <1>8 DEF Sm!SendMail
<1>9. QED
  BY <1>1, <1>2, <1>3, <1>4, <1>5, <1>6, <1>7, <1>8 DEF Sm!Next

(* A mail is sent only to a server that agreed to the sender, to one of the*)
(* recipients and to the mail, by the replies to these commands.           *)
THEOREM MailAgreed == NetworkSpec => []MailIsAgreed
<1> DEFINE Inv == part = "Smtp" => MailInv
<1>1. NetworkInit => Inv
  BY MailInit
<1>2. Inv /\ [NetworkNext]_networkVars => Inv'
  <2> SUFFICES ASSUME Inv, [NetworkNext]_networkVars, part' = "Smtp"
               PROVE  MailInv'
    OBVIOUS
  <2>1. CASE UNCHANGED networkVars
    BY <2>1 DEF networkVars, smtpVars, MailInv, MailAgreedTo, Sm!MailIsAgreed
  <2>2. CASE SmtpNext
    BY <2>2, MailNext DEF SmtpNext
  <2>3. QED
    BY <2>1, <2>2 DEF NetworkNext, HttpNext, ChunkedNext, ConnectionNext, SelectNext,
       WebSocketNext, ServerNext
<1>3. Inv => MailIsAgreed
  BY DEF MailInv, MailIsAgreed
<1>4. QED
  BY <1>1, <1>2, <1>3, PTL DEF NetworkSpec

-----------------------------------------------------------------------------
(* THE SERVER.                                                             *)

Named(v) == {v.request[i][2] : i \in 2..Len(v.request)}
Streams(v) == [state : {"none", "queued", "accepting", "accepted", "given", "closed"},
               type : {Sa!NotSet, "tcp", "http", "ws", "unix", "service"},
               ssl : BOOLEAN, isauth : BOOLEAN,
               method : {Sa!NotSet, v.request[1]}, user : {Sa!NotSet} \union Named(v),
               upgrade : BOOLEAN, cookie : BOOLEAN, sent : Seq({101, 200, 400, 401})]

Accepts(v) == \E i \in DOMAIN server.auth : Sa!AcceptedBy(v, server.auth[i])

(* The user of a request is the one that its last Authorization names.     *)
IsLast(v, n, user) ==
    \/ user = Sa!NotSet /\ \A i \in 2..n : v.request[i][1] # "Authorization"
    \/ \E i \in 2..n :
          /\ v.request[i][1] = "Authorization" /\ user = v.request[i][2]
          /\ \A j \in (i + 1)..n : v.request[j][1] # "Authorization"

LEMMA LastIsLast ==
    ASSUME NEW v, Len(v.request) \in Nat, NEW user, IsLast(v, Len(v.request), user)
    PROVE  user = Sa!LastOf(v, "Authorization")
<1> DEFINE found == {i \in 2..Len(v.request) : v.request[i][1] = "Authorization"}
<1>0. Sa!LastOf(v, "Authorization") =
        IF found = {} THEN Sa!NotSet
        ELSE v.request[CHOOSE k \in found : \A j \in found : k >= j][2]
  BY DEF Sa!LastOf
<1>1. CASE user = Sa!NotSet /\ \A i \in 2..Len(v.request) : v.request[i][1] # "Authorization"
  <2>1. found = {}
    BY <1>1
  <2>2. QED
    BY <1>0, <1>1, <2>1
<1>2. ASSUME NEW i \in 2..Len(v.request), v.request[i][1] = "Authorization",
             user = v.request[i][2],
             \A j \in (i + 1)..Len(v.request) : v.request[j][1] # "Authorization"
      PROVE  user = Sa!LastOf(v, "Authorization")
  <2>1. i \in found /\ \A j \in found : i >= j
    BY <1>2
  <2>2. \A k \in found : (\A j \in found : k >= j) => k = i
    BY <2>1
  <2>3. (CHOOSE k \in found : \A j \in found : k >= j) = i
    BY <2>1, <2>2
  <2> HIDE DEF found
  <2>4. found # {}
    BY <2>1
  <2>5. QED
    BY <1>0, <1>2, <2>3, <2>4
<1>3. QED
  BY <1>1, <1>2 DEF IsLast

(* What parsing a header leaves alone, and what it gives.                  *)
Like(r, s) ==
    /\ r.method = s.method /\ r.state = s.state /\ r.type = s.type
    /\ r.ssl = s.ssl /\ r.isauth = s.isauth /\ r.sent = s.sent

LEMMA ParsedHeader ==
    ASSUME NEW v, NEW r \in Streams(v), NEW h, h[2] \in Named(v)
    PROVE  /\ Sa!ParseHeader(r, h) \in Streams(v)
           /\ Like(Sa!ParseHeader(r, h), r)
           /\ Sa!ParseHeader(r, h).user = IF h[1] = "Authorization" THEN h[2] ELSE r.user
<1>1. CASE h[1] = "Authorization"
  <2>1. Sa!ParseHeader(r, h) = [r EXCEPT !.user = h[2]]
    BY <1>1 DEF Sa!ParseHeader
  <2>2. [r EXCEPT !.user = h[2]] \in Streams(v)
    BY DEF Streams
  <2>3. Like([r EXCEPT !.user = h[2]], r)
    BY DEF Streams, Like
  <2>4. [r EXCEPT !.user = h[2]].user = h[2]
    BY DEF Streams
  <2>5. QED
    BY <1>1, <2>1, <2>2, <2>3, <2>4
<1>2. CASE h[1] = "Cookie"
  <2>1. Sa!ParseHeader(r, h) = [r EXCEPT !.cookie = TRUE]
    BY <1>2 DEF Sa!ParseHeader
  <2>2. [r EXCEPT !.cookie = TRUE] \in Streams(v)
    BY DEF Streams
  <2>3. Like([r EXCEPT !.cookie = TRUE], r)
    BY DEF Streams, Like
  <2>4. [r EXCEPT !.cookie = TRUE].user = r.user
    BY DEF Streams
  <2>5. QED
    BY <1>2, <2>1, <2>2, <2>3, <2>4
<1>3. CASE h[1] = "Upgrade"
  <2> DEFINE up == (h[2] = "websocket")
  <2>1. Sa!ParseHeader(r, h) = [r EXCEPT !.upgrade = up]
    BY <1>3 DEF Sa!ParseHeader
  <2>2. up \in BOOLEAN
    OBVIOUS
  <2> HIDE DEF up
  <2>3. [r EXCEPT !.upgrade = up] \in Streams(v)
    BY <2>2 DEF Streams
  <2>4. Like([r EXCEPT !.upgrade = up], r)
    BY <2>2 DEF Streams, Like
  <2>5. [r EXCEPT !.upgrade = up].user = r.user
    BY DEF Streams
  <2>6. QED
    BY <1>3, <2>1, <2>3, <2>4, <2>5
<1>4. CASE h[1] \notin {"Authorization", "Cookie", "Upgrade"}
  <2>1. Sa!ParseHeader(r, h) = r
    BY <1>4 DEF Sa!ParseHeader
  <2>2. QED
    BY <1>4, <2>1 DEF Like
<1>5. QED
  BY <1>1, <1>2, <1>3, <1>4

(* HTTPServerParseClientHeaders takes the method from the first line, and  *)
(* the user from the last line that names one.                             *)
LEMMA ParsedHeaders ==
    ASSUME NEW v \in Visitors, NEW s \in Streams(v), s.user = Sa!NotSet
    PROVE  /\ Sa!HTTPServerParseClientHeaders(v, s) \in Streams(v)
           /\ Like(Sa!HTTPServerParseClientHeaders(v, s), [s EXCEPT !.method = v.request[1]])
           /\ Sa!HTTPServerParseClientHeaders(v, s).user = Sa!LastOf(v, "Authorization")
<1> DEFINE n == Len(v.request) - 1
           base == [s EXCEPT !.method = v.request[1]]
           R == {r \in Streams(v) : Like(r, base)}
           step == [x \in (1..n) \X R |-> Sa!ParseHeader(x[2], v.request[x[1] + 1])]
<1>1. n \in Nat /\ Len(v.request) = n + 1
  BY NetworkAssumption DEF Sa!ServerAssumption
<1>2. base \in R /\ base.user = Sa!NotSet
  <2>1. base \in Streams(v)
    BY DEF Streams
  <2>2. base.user = s.user
    BY DEF Streams
  <2>3. QED
    BY <2>1, <2>2 DEF Like
<1> HIDE DEF base
<1>3. ASSUME NEW r \in R, NEW i \in 1..n
      PROVE  /\ Sa!ParseHeader(r, v.request[i + 1]) \in R
             /\ Sa!ParseHeader(r, v.request[i + 1]).user =
                    IF v.request[i + 1][1] = "Authorization" THEN v.request[i + 1][2] ELSE r.user
  <2> DEFINE h == v.request[i + 1]
  <2>1. h[2] \in Named(v)
    BY <1>1 DEF Named
  <2> HIDE DEF h
  <2>2. /\ Sa!ParseHeader(r, h) \in Streams(v)
        /\ Like(Sa!ParseHeader(r, h), r)
        /\ Sa!ParseHeader(r, h).user = IF h[1] = "Authorization" THEN h[2] ELSE r.user
    BY <2>1, ParsedHeader
  <2>3. Like(Sa!ParseHeader(r, h), base)
    BY <2>2 DEF Like
  <2>4. QED
    BY <2>2, <2>3 DEF h
<1> HIDE DEF n, R
<1>4. /\ step \in [(1..n) \X R -> R]
      /\ \A i \in 1..n, r \in R : step[<<i, r>>] = Sa!ParseHeader(r, v.request[i + 1])
  BY <1>3
<1> HIDE DEF step
<1>5. PICK f \in [0..n -> R] : Stepwise(f, n, base, step)
  <2>1. n \in Nat
    BY <1>1
  <2>2. base \in R
    BY <1>2
  <2>3. step \in [(1..n) \X R -> R]
    BY <1>4
  <2>4. QED
    BY <2>1, <2>2, <2>3, StepsExist
<1>6. \A i \in 1..n : f[i - 1] \in R
  BY <1>1
<1> DEFINE F(g) == g = [i \in 0..n |-> IF i = 0 THEN base
                                       ELSE Sa!ParseHeader(g[i - 1], v.request[i + 1])]
           e == CHOOSE g : F(g)
<1>7. F(f)
  <2>1. \A i \in 1..n : step[<<i, f[i - 1]>>] = Sa!ParseHeader(f[i - 1], v.request[i + 1])
    BY <1>4, <1>6
  <2>2. \A i \in 0..n : i = 0 \/ i \in 1..n
    BY <1>1
  <2>3. QED
    BY <1>5, <2>1, <2>2 DEF Stepwise
<1>8. F(e)
  BY <1>7
<1>9. Sa!HTTPServerParseClientHeaders(v, s) = e[n]
  BY DEF Sa!HTTPServerParseClientHeaders, n, base
<1> HIDE DEF e
<1>10. e[0] = base
  BY <1>1, <1>8
<1>11. \A i \in 0..n : i # 0 => e[i] = Sa!ParseHeader(e[i - 1], v.request[i + 1])
  BY <1>8
<1> HIDE DEF F
<1> DEFINE T == {i \in Nat : i <= n => e[i] \in R /\ IsLast(v, i + 1, e[i].user)}
<1>12. 0 \in T
  BY <1>2, <1>10 DEF IsLast
<1>13. ASSUME NEW i \in Nat, i \in T PROVE i + 1 \in T
  <2> SUFFICES ASSUME i + 1 <= n PROVE e[i + 1] \in R /\ IsLast(v, i + 2, e[i + 1].user)
    BY <1>1
  <2>1. e[i] \in R /\ IsLast(v, i + 1, e[i].user)
    BY <1>1, <1>13
  <2>2. i + 1 \in 1..n /\ i + 1 \in 0..n /\ i + 1 # 0 /\ i + 1 - 1 = i /\ i + 1 + 1 = i + 2
    BY <1>1
  <2>3. e[i + 1] = Sa!ParseHeader(e[i], v.request[i + 2])
    BY <1>11, <2>2
  <2>4. e[i + 1] \in R /\ e[i + 1].user = IF v.request[i + 2][1] = "Authorization"
                                        THEN v.request[i + 2][2] ELSE e[i].user
    BY <1>3, <2>1, <2>2, <2>3
  <2>5. IsLast(v, i + 2, e[i + 1].user)
    <3>1. CASE v.request[i + 2][1] = "Authorization"
      BY <2>4, <3>1 DEF IsLast
    <3>2. CASE v.request[i + 2][1] # "Authorization"
      <4>1. e[i + 1].user = e[i].user
        BY <2>4, <3>2
      <4>2. \A k \in Nat : \A j \in k..(i + 2) : j \in k..(i + 1) \/ j = i + 2
        OBVIOUS
      <4>3. 2..(i + 1) \subseteq 2..(i + 2)
        OBVIOUS
      <4>4. QED
        BY <2>1, <3>2, <4>1, <4>2, <4>3 DEF IsLast
    <3>3. QED
      BY <3>1, <3>2
  <2>6. QED
    BY <2>4, <2>5
<1>14. n \in T
  <2> HIDE DEF T
  <2>1. QED
    BY <1>1, <1>12, <1>13, SetInduction
<1>15. e[n] \in R /\ IsLast(v, n + 1, e[n].user)
  BY <1>1, <1>14
<1>16. e[n].user = Sa!LastOf(v, "Authorization")
  <2>1. IsLast(v, Len(v.request), e[n].user) /\ Len(v.request) \in Nat
    BY <1>1, <1>15
  <2>2. QED
    BY <2>1, LastIsLast
<1>17. QED
  BY <1>9, <1>15, <1>16 DEF R, base

(* STREAMAuthProcess says yes only to who a method accepts.                *)
LEMMA AuthProcess ==
    ASSUME server \in Services, NEW v, NEW s, s.ssl => v.tls,
           s.user = Sa!NotSet \/ s.user = Sa!LastOf(v, "Authorization")
    PROVE  Sa!STREAMAuthProcess(v, s) \in BOOLEAN /\ (Sa!STREAMAuthProcess(v, s) => Accepts(v))
<1> DEFINE n == Len(server.auth)
           step == [x \in (1..n) \X BOOLEAN |-> Sa!STREAMAuthMethod(v, s, server.auth[x[1]], x[2])]
<1>1. /\ n \in Nat /\ DOMAIN server.auth = 1..n
      /\ \A i \in 1..n : server.auth[i][1] = "password-file" => Sa!NotSet \notin server.auth[i][2]
  BY NetworkAssumption DEF Sa!ServerAssumption
<1>2. ASSUME NEW m, NEW x \in BOOLEAN
      PROVE  Sa!STREAMAuthMethod(v, s, m, x) \in BOOLEAN
  <2>1. CASE m[1] \in {"cert", "certificate"}
    BY <2>1 DEF Sa!STREAMAuthMethod, Sa!Certificate
  <2>2. CASE m[1] = "issuer"
    BY <2>2 DEF Sa!STREAMAuthMethod, Sa!Certificate
  <2>3. CASE m[1] = "password-file"
    BY <2>3 DEF Sa!STREAMAuthMethod
  <2>4. CASE m[1] = "ip"
    BY <2>4 DEF Sa!STREAMAuthMethod
  <2>5. CASE m[1] \notin {"cert", "certificate", "issuer", "password-file", "ip"}
    BY <2>5 DEF Sa!STREAMAuthMethod
  <2>6. QED
    BY <2>1, <2>2, <2>3, <2>4, <2>5
<1>3. ASSUME NEW i \in 1..n, NEW x \in BOOLEAN, Sa!STREAMAuthMethod(v, s, server.auth[i], x)
      PROVE  x \/ Sa!AcceptedBy(v, server.auth[i])
  BY <1>1, <1>3 DEF Sa!STREAMAuthMethod, Sa!Certificate, Sa!AcceptedBy
<1>4. /\ step \in [(1..n) \X BOOLEAN -> BOOLEAN]
      /\ \A i \in 1..n, x \in BOOLEAN :
            step[<<i, x>>] = Sa!STREAMAuthMethod(v, s, server.auth[i], x)
  <2> HIDE DEF n
  <2>1. QED
    BY <1>2
<1> HIDE DEF n, step
<1>5. PICK f \in [0..n -> BOOLEAN] : Stepwise(f, n, FALSE, step)
  <2>1. n \in Nat
    BY <1>1
  <2>2. FALSE \in BOOLEAN
    OBVIOUS
  <2>3. step \in [(1..n) \X BOOLEAN -> BOOLEAN]
    BY <1>4
  <2>4. QED
    BY <2>1, <2>2, <2>3, StepsExist
<1>6. \A i \in 1..n : f[i - 1] \in BOOLEAN
  BY <1>1
<1> DEFINE F(g) == g = [i \in 0..n |-> IF i = 0 THEN FALSE
                            ELSE Sa!STREAMAuthMethod(v, s, server.auth[i], g[i - 1])]
           e == CHOOSE g : F(g)
<1>7. F(f)
  <2>1. \A i \in 1..n : step[<<i, f[i - 1]>>] = Sa!STREAMAuthMethod(v, s, server.auth[i], f[i - 1])
    BY <1>4, <1>6
  <2>2. \A i \in 0..n : i = 0 \/ i \in 1..n
    BY <1>1
  <2>3. QED
    BY <1>5, <2>1, <2>2 DEF Stepwise
<1>8. F(e)
  BY <1>7
<1>9. Sa!STREAMAuthProcess(v, s) = e[n]
  BY DEF Sa!STREAMAuthProcess, n
<1> HIDE DEF e
<1>10. e[0] = FALSE
  BY <1>1, <1>8
<1>11. \A i \in 0..n : i # 0 => e[i] = Sa!STREAMAuthMethod(v, s, server.auth[i], e[i - 1])
  BY <1>8
<1> HIDE DEF F
<1> DEFINE T == {i \in Nat : i <= n => e[i] \in BOOLEAN /\ (e[i] => Accepts(v))}
<1>12. 0 \in T
  BY <1>10
<1>13. ASSUME NEW i \in Nat, i \in T PROVE i + 1 \in T
  <2> SUFFICES ASSUME i + 1 <= n PROVE e[i + 1] \in BOOLEAN /\ (e[i + 1] => Accepts(v))
    BY <1>1
  <2>1. e[i] \in BOOLEAN /\ (e[i] => Accepts(v))
    BY <1>1, <1>13
  <2>2. i + 1 \in 1..n /\ i + 1 \in 0..n /\ i + 1 # 0 /\ i + 1 - 1 = i
    BY <1>1
  <2>3. e[i + 1] = Sa!STREAMAuthMethod(v, s, server.auth[i + 1], e[i])
    BY <1>11, <2>2
  <2>4. e[i + 1] \in BOOLEAN
    BY <1>2, <2>1, <2>3
  <2>5. ASSUME e[i + 1] PROVE Accepts(v)
    <3>1. e[i] \/ Sa!AcceptedBy(v, server.auth[i + 1])
      BY <1>3, <2>1, <2>2, <2>3, <2>5
    <3>2. QED
      BY <1>1, <2>1, <2>2, <3>1 DEF Accepts
  <2>6. QED
    BY <2>4, <2>5
<1>14. n \in T
  <2> HIDE DEF T
  <2>1. QED
    BY <1>1, <1>12, <1>13, SetInduction
<1>15. QED
  BY <1>1, <1>9, <1>14

Rightly(v) == server.auth = << >> \/ Accepts(v)
Grants(s) == \E i \in DOMAIN s.sent : s.sent[i] \in {101, 200}

(* What a visitor's stream is at any time: nothing is known of who is not  *)
(* dealt with yet, and what was granted was granted to the accepted.       *)
Served(v, s) ==
    /\ s \in Streams(v)
    /\ s.state \notin {"given", "closed"} =>
          s.user = Sa!NotSet /\ s.method = Sa!NotSet /\ ~s.isauth /\ s.sent = << >>
    /\ s.isauth => Accepts(v)
    /\ s.type = "tcp" /\ s.state = "given" => Rightly(v)
    /\ Grants(s) => Rightly(v)

ServerInv ==
    /\ server \in Services
    /\ queue \in Seq(Visitors)
    /\ \A i \in 1..Len(queue) : stream[queue[i]].state = "queued"
    /\ \A i, j \in 1..Len(queue) : queue[i] = queue[j] => i = j
    /\ DOMAIN stream = Visitors /\ stream = [v \in Visitors |-> stream[v]]
    /\ \A v \in Visitors : Served(v, stream[v])

LEMMA ServerInit == NetworkInit /\ part = "Server" => ServerInv
<1> SUFFICES ASSUME NetworkInit, part = "Server" PROVE ServerInv
  OBVIOUS
<1>1. Sa!Init
  BY DEF NetworkInit
<1>2. ASSUME NEW v \in Visitors PROVE Served(v, Sa!NewStream)
  <2>1. << >> \in Seq({101, 200, 400, 401})
    OBVIOUS
  <2>2. Sa!NewStream \in Streams(v)
    BY <2>1 DEF Sa!NewStream, Streams
  <2>3. QED
    BY <2>2 DEF Sa!NewStream, Served, Grants
<1>3. QED
  BY <1>1, <1>2 DEF Sa!Init, ServerInv

(* STREAMAuth marks a stream only if a method accepts its client.          *)
LEMMA MarkedStream ==
    ASSUME server \in Services, NEW v, NEW s \in Streams(v), s.ssl => v.tls,
           s.user = Sa!NotSet \/ s.user = Sa!LastOf(v, "Authorization")
    PROVE  /\ Sa!Marked(v, s) \in Streams(v)
           /\ Sa!Marked(v, s).state = s.state /\ Sa!Marked(v, s).type = s.type
           /\ Sa!Marked(v, s).sent = s.sent /\ Sa!Marked(v, s).user = s.user
           /\ Sa!Marked(v, s).ssl = s.ssl /\ Sa!Marked(v, s).upgrade = s.upgrade
           /\ Sa!Marked(v, s).isauth => s.isauth \/ Accepts(v)
<1> DEFINE mark == s.isauth \/ (server.auth # << >> /\ Sa!STREAMAuthProcess(v, s))
<1>1. mark \in BOOLEAN /\ (mark => s.isauth \/ Accepts(v))
  BY AuthProcess DEF Streams
<1>2. Sa!Marked(v, s) = [s EXCEPT !.isauth = mark]
  BY DEF Sa!Marked
<1> HIDE DEF mark
<1>3. [s EXCEPT !.isauth = mark] \in Streams(v)
  BY <1>1 DEF Streams
<1>4. LET r == [s EXCEPT !.isauth = mark] IN
      /\ r.state = s.state /\ r.type = s.type /\ r.sent = s.sent /\ r.user = s.user
      /\ r.isauth = mark
  BY DEF Streams
<1>5. [s EXCEPT !.isauth = mark].ssl = s.ssl
  BY DEF Streams
<1>6. [s EXCEPT !.isauth = mark].upgrade = s.upgrade
  BY DEF Streams
<1>7. QED
  BY <1>1, <1>2, <1>3, <1>4, <1>5, <1>6

(* HTTPServerAccept gives the program a request, and says who sent it only *)
(* if a method accepts that.                                               *)
LEMMA HttpAccepted ==
    ASSUME server \in Services, NEW v \in Visitors, NEW s \in Streams(v), s.ssl => v.tls,
           s.user = Sa!NotSet, ~s.isauth
    PROVE  LET r == Sa!HTTPServerAccept(v, s) IN
           /\ r \in Streams(v) /\ r.state = s.state /\ r.type = s.type /\ r.sent = s.sent
           /\ r.ssl => v.tls
           /\ r.user = Sa!LastOf(v, "Authorization")
           /\ r.isauth => Accepts(v)
<1> DEFINE parsed == Sa!HTTPServerParseClientHeaders(v, s)
           first == [s EXCEPT !.method = v.request[1]]
<1>1. parsed \in Streams(v) /\ Like(parsed, first) /\ parsed.user = Sa!LastOf(v, "Authorization")
  BY ParsedHeaders
<1>2. first.state = s.state /\ first.type = s.type /\ first.sent = s.sent
  BY DEF Streams
<1>3. first.ssl = s.ssl
  BY DEF Streams
<1>4. first.isauth = s.isauth
  BY DEF Streams
<1> HIDE DEF parsed, first
<1>5. /\ parsed.state = s.state /\ parsed.type = s.type /\ parsed.sent = s.sent
      /\ (parsed.ssl => v.tls) /\ ~parsed.isauth
  BY <1>1, <1>2, <1>3, <1>4 DEF Like
<1>6. Sa!HTTPServerAccept(v, s) = Sa!Marked(v, parsed)
  BY DEF Sa!HTTPServerAccept, parsed
<1>7. QED
  BY <1>1, <1>5, <1>6, MarkedStream

Answering(s, code) == [s EXCEPT !.sent = Append(@, code)]

(* An answer that says nothing is granted, or grants it to the accepted.   *)
LEMMA Answered ==
    ASSUME NEW v, NEW s \in Streams(v), NEW code \in {101, 200, 400, 401},
           code \in {101, 200} => Rightly(v),
           Grants(s) => Rightly(v),
           s.isauth => Accepts(v), s.type # "tcp", s.state = "given"
    PROVE  Served(v, Answering(s, code))
<1> DEFINE codes == Append(s.sent, code)
           r == [s EXCEPT !.sent = codes]
<1>1. s.sent \in Seq({101, 200, 400, 401})
  BY DEF Streams
<1>2. /\ codes \in Seq({101, 200, 400, 401})
      /\ DOMAIN codes = 1..(Len(s.sent) + 1) /\ DOMAIN s.sent = 1..Len(s.sent)
      /\ \A i \in 1..(Len(s.sent) + 1) :
            codes[i] = IF i = Len(s.sent) + 1 THEN code ELSE s.sent[i]
  BY <1>1
<1>3. (\E i \in DOMAIN codes : codes[i] \in {101, 200}) => Rightly(v)
  BY <1>1, <1>2 DEF Grants
<1> HIDE DEF codes
<1>4. r \in Streams(v)
  BY <1>2 DEF Streams
<1>5. r.sent = codes /\ r.type = s.type /\ r.state = s.state
  BY DEF Streams
<1>6. r.isauth = s.isauth
  BY DEF Streams
<1>7. Served(v, r)
  BY <1>3, <1>4, <1>5, <1>6 DEF Served, Grants
<1>8. QED
  BY <1>7 DEF codes, Answering

(* The rest of accepting, for each kind of stream.                         *)
LEMMA PostAccepted ==
    ASSUME server \in Services, NEW v \in Visitors, NEW s \in Streams(v), s.ssl => v.tls,
           s.user = Sa!NotSet, ~s.isauth, s.sent = << >>, s.state = "given"
    PROVE  /\ s.type = "tcp" => Served(v, [Sa!Marked(v, s) EXCEPT !.state =
                                    IF Sa!STREAMAuth(v, s) THEN "given" ELSE "closed"])
           /\ s.type # "tcp" => Served(v, Sa!HTTPServerAccept(v, s))
           /\ s.type # "tcp" => Served(v, Sa!WebSocketAccept(v, s))
           /\ s.type # "tcp" => Served(v, [s EXCEPT !.ssl = FALSE])
<1>1. ASSUME s.type = "tcp"
      PROVE  Served(v, [Sa!Marked(v, s) EXCEPT !.state =
                            IF Sa!STREAMAuth(v, s) THEN "given" ELSE "closed"])
  <2> DEFINE m == Sa!Marked(v, s)
             state1 == IF Sa!STREAMAuth(v, s) THEN "given" ELSE "closed"
             r == [m EXCEPT !.state = state1]
  <2>1. m \in Streams(v) /\ m.sent = s.sent /\ m.type = "tcp" /\ (m.isauth => Accepts(v))
    BY <1>1, MarkedStream
  <2>2. state1 \in {"given", "closed"} /\ (state1 = "given" => Rightly(v))
    BY AuthProcess DEF Sa!STREAMAuth, Rightly
  <2> HIDE DEF m, state1
  <2>3. r \in Streams(v)
    BY <2>1, <2>2 DEF Streams
  <2>4. r.state = state1 /\ r.sent = m.sent /\ r.type = m.type
    BY <2>1 DEF Streams
  <2>5. r.isauth = m.isauth
    BY <2>1 DEF Streams
  <2>6. ~Grants(r)
    BY <2>1, <2>4 DEF Grants
  <2>7. Served(v, r)
    BY <2>1, <2>2, <2>3, <2>4, <2>5, <2>6 DEF Served
  <2>8. QED
    BY <2>7 DEF m, state1
<1>2. ASSUME s.type # "tcp"
      PROVE  Served(v, Sa!HTTPServerAccept(v, s))
  <2>1. LET r == Sa!HTTPServerAccept(v, s) IN
        /\ r \in Streams(v) /\ r.state = s.state /\ r.type = s.type /\ r.sent = s.sent
        /\ r.isauth => Accepts(v)
    BY HttpAccepted
  <2>2. ~Grants(Sa!HTTPServerAccept(v, s))
    BY <2>1 DEF Grants
  <2>3. QED
    BY <1>2, <2>1, <2>2 DEF Served
<1>3. ASSUME s.type # "tcp"
      PROVE  Served(v, Sa!WebSocketAccept(v, s))
  <2> DEFINE got1 == Sa!HTTPServerAccept(v, s)
             m == Sa!Marked(v, got1)
             ws == [m EXCEPT !.type = "service"]
  <2>1. /\ got1 \in Streams(v) /\ got1.state = s.state /\ got1.type = s.type
        /\ got1.sent = s.sent /\ (got1.ssl => v.tls)
        /\ got1.user = Sa!LastOf(v, "Authorization")
        /\ got1.isauth => Accepts(v)
    BY HttpAccepted
  <2>2. Sa!WebSocketAccept(v, s) =
          CASE ~got1.upgrade -> [got1 EXCEPT !.sent = Append(@, 400)]
            [] got1.upgrade /\ ~Sa!STREAMAuth(v, got1) -> [got1 EXCEPT !.sent = Append(@, 401)]
            [] OTHER -> [m EXCEPT !.sent = Append(@, 101), !.type = "service"]
    BY DEF Sa!WebSocketAccept
  <2> HIDE DEF got1
  <2>3. ~Grants(got1)
    BY <2>1 DEF Grants
  <2>4. Served(v, Answering(got1, 400))
    <3>1. 400 \in {101, 200, 400, 401} /\ 400 \notin {101, 200}
      OBVIOUS
    <3>2. got1.type # "tcp" /\ got1.state = "given"
      BY <1>3, <2>1
    <3>3. QED
      BY <2>1, <2>3, <3>1, <3>2, Answered
  <2>5. Served(v, Answering(got1, 401))
    <3>1. 401 \in {101, 200, 400, 401} /\ 401 \notin {101, 200}
      OBVIOUS
    <3>2. got1.type # "tcp" /\ got1.state = "given"
      BY <1>3, <2>1
    <3>3. QED
      BY <2>1, <2>3, <3>1, <3>2, Answered
  <2>6. ASSUME Sa!STREAMAuth(v, got1)
        PROVE  Served(v, [m EXCEPT !.sent = Append(@, 101), !.type = "service"])
    <3>1. m \in Streams(v) /\ m.sent = << >> /\ m.state = "given" /\ (m.isauth => Accepts(v))
      BY <2>1, MarkedStream
    <3>2. Rightly(v)
      BY <2>1, <2>6, AuthProcess DEF Sa!STREAMAuth, Rightly
    <3> HIDE DEF m
    <3>3. ws \in Streams(v)
      BY <3>1 DEF Streams
    <3>4. ws.sent = m.sent /\ ws.state = m.state /\ ws.type = "service"
      BY <3>1 DEF Streams
    <3>5. ws.isauth = m.isauth
      BY <3>1 DEF Streams
    <3>6. [m EXCEPT !.sent = Append(@, 101), !.type = "service"]
            = [ws EXCEPT !.sent = Append(@, 101)]
      BY <3>1 DEF Streams
    <3>7. ~Grants(ws)
      BY <3>1, <3>4 DEF Grants
    <3> HIDE DEF ws
    <3>8. 101 \in {101, 200, 400, 401} /\ ws.type # "tcp" /\ ws.state = "given"
      BY <3>1, <3>4
    <3>9. ws.isauth => Accepts(v)
      BY <3>1, <3>5
    <3>10. Served(v, Answering(ws, 101))
      BY <3>2, <3>3, <3>7, <3>8, <3>9, Answered
    <3>11. QED
      BY <3>6, <3>10 DEF Answering
  <2>7. QED
    BY <2>2, <2>4, <2>5, <2>6 DEF Answering
<1>4. ASSUME s.type # "tcp"
      PROVE  Served(v, [s EXCEPT !.ssl = FALSE])
  <2> DEFINE r == [s EXCEPT !.ssl = FALSE]
  <2>1. r \in Streams(v)
    BY ONLY s \in Streams(v) DEF Streams
  <2>2. r.state = s.state /\ r.sent = s.sent /\ r.type = s.type
    BY DEF Streams
  <2>3. r.isauth = s.isauth
    BY DEF Streams
  <2>4. ~Grants(r)
    BY <2>2 DEF Grants
  <2> HIDE DEF r
  <2>5. Served(v, r)
    BY <1>4, <2>1, <2>2, <2>3, <2>4 DEF Served
  <2>6. QED
    BY <2>5 DEF r
<1>5. QED
  BY <1>1, <1>2, <1>3, <1>4

-----------------------------------------------------------------------------
(* One visitor's stream changes, and nobody's who waits.                   *)
LEMMA OneServed ==
    ASSUME ServerInv, NEW v \in Visitors, NEW r, Served(v, r), r.state # "queued",
           stream' = [stream EXCEPT ![v] = r], server' = server, queue' = queue,
           stream[v].state # "queued"
    PROVE  ServerInv'
<1>1. \A w \in Visitors : stream'[w] = IF w = v THEN r ELSE stream[w]
  BY DEF ServerInv
<1>2. ASSUME NEW w \in Visitors PROVE Served(w, stream[w])'
  <2>1. Served(w, stream'[w])
    BY <1>1 DEF ServerInv
  <2>2. QED
    BY <2>1 DEF Served, Rightly, Accepts
<1>3. DOMAIN stream' = Visitors /\ stream' = [w \in Visitors |-> stream'[w]]
  BY DEF ServerInv
<1>4. \A i \in 1..Len(queue) : queue[i] \in Visitors /\ stream'[queue[i]].state = "queued"
  BY <1>1 DEF ServerInv
<1>5. QED
  BY <1>2, <1>3, <1>4 DEF ServerInv

LEMMA ServerAccepts == ASSUME ServerInv, Sa!STREAMServerAccept PROVE ServerInv'
<1> DEFINE v == Head(queue)
           st == IF Sa!Blocks THEN "accepting" ELSE IF server.two THEN "accepted" ELSE "given"
           r == [stream[v] EXCEPT !.state = st, !.type = Sa!AcceptType]
<1>1. queue \in Seq(Visitors) /\ queue # << >>
  BY DEF ServerInv, Sa!STREAMServerAccept
<1>2. /\ v \in Visitors /\ v = queue[1] /\ Len(queue) \in Nat /\ Len(queue) >= 1
      /\ Tail(queue) \in Seq(Visitors) /\ Len(Tail(queue)) = Len(queue) - 1
      /\ \A i \in 1..(Len(queue) - 1) : Tail(queue)[i] = queue[i + 1]
  BY <1>1
<1>3. stream[v].state = "queued" /\ Served(v, stream[v])
  <2>1. 1 \in 1..Len(queue)
    BY <1>2
  <2>2. stream[queue[1]].state = "queued"
    BY <2>1 DEF ServerInv
  <2> HIDE DEF v
  <2>3. QED
    BY <1>2, <2>2 DEF ServerInv
<1>4. Sa!AcceptType \in {"tcp", "http", "ws", "unix"}
  BY DEF Sa!AcceptType
<1>5. st \in {"accepting", "accepted", "given"} /\ (st = "given" => Sa!AcceptType = "unix")
  BY DEF Sa!Blocks
<1> HIDE DEF st
<1>6. stream[v] \in Streams(v)
  BY <1>3 DEF Served
<1>7. r \in Streams(v)
  BY <1>4, <1>5, <1>6 DEF Streams
<1>8. /\ r.state = st /\ r.type = Sa!AcceptType /\ r.sent = stream[v].sent
      /\ r.user = stream[v].user /\ r.method = stream[v].method
  BY <1>6 DEF Streams
<1>9. r.isauth = stream[v].isauth
  BY <1>6 DEF Streams
<1>10. stream' = [stream EXCEPT ![v] = r]
  <2>1. stream' = [stream EXCEPT ![v].state = st, ![v].type = Sa!AcceptType]
    BY DEF Sa!STREAMServerAccept, st
  <2>2. v \in DOMAIN stream
    BY <1>2 DEF ServerInv
  <2>3. QED
    BY <2>1, <2>2
<1> HIDE DEF r
<1>11. Served(v, r)
  BY <1>3, <1>5, <1>7, <1>8, <1>9 DEF Served, Grants
<1> HIDE DEF v
<1>12. server' = server /\ queue' = Tail(queue)
  BY DEF Sa!STREAMServerAccept
<1>13. \A w \in Visitors : stream'[w] = IF w = v THEN r ELSE stream[w]
  BY <1>10 DEF ServerInv
<1>14. ASSUME NEW w \in Visitors PROVE Served(w, stream[w])'
  <2>1. Served(w, stream'[w])
    BY <1>11, <1>13 DEF ServerInv
  <2>2. QED
    BY <1>12, <2>1 DEF Served, Rightly, Accepts
<1>15. DOMAIN stream' = Visitors /\ stream' = [w \in Visitors |-> stream'[w]]
  BY <1>10 DEF ServerInv
<1>16. ASSUME NEW i \in 1..(Len(queue) - 1)
       PROVE  /\ stream'[Tail(queue)[i]].state = "queued"
              /\ \A j \in 1..(Len(queue) - 1) : Tail(queue)[i] = Tail(queue)[j] => i = j
  <2>1. \A k \in 1..Len(queue) : queue[k] = queue[i + 1] => k = i + 1
    BY <1>2 DEF ServerInv
  <2>2. 1 \in 1..Len(queue) /\ i + 1 \in 1..Len(queue) /\ i + 1 # 1
    BY <1>2
  <2>3. queue[i + 1] # v /\ queue[i + 1] \in Visitors
    BY <1>1, <1>2, <2>1, <2>2
  <2>4. stream'[queue[i + 1]].state = "queued"
    BY <1>13, <2>2, <2>3 DEF ServerInv
  <2>5. \A j \in 1..(Len(queue) - 1) : Tail(queue)[j] = queue[j + 1] /\ j + 1 \in 1..Len(queue)
    BY <1>2
  <2>6. QED
    BY <1>2, <2>1, <2>4, <2>5
<1>17. QED
  BY <1>2, <1>12, <1>14, <1>15, <1>16 DEF ServerInv

LEMMA ServerConnects == ASSUME ServerInv, NEW v \in Visitors, Sa!Connect(v) PROVE ServerInv'
<1> DEFINE r == [stream[v] EXCEPT !.state = "queued"]
<1>1. /\ stream[v].state = "none" /\ server' = server /\ queue' = Append(queue, v)
  BY DEF Sa!Connect
<1>2. Served(v, stream[v]) /\ stream[v] \in Streams(v)
  BY DEF ServerInv, Served
<1>3. r \in Streams(v)
  BY <1>2 DEF Streams
<1>4. /\ r.state = "queued" /\ r.type = stream[v].type /\ r.sent = stream[v].sent
      /\ r.user = stream[v].user /\ r.method = stream[v].method
  BY <1>2 DEF Streams
<1>5. r.isauth = stream[v].isauth
  BY <1>2 DEF Streams
<1>6. stream' = [stream EXCEPT ![v] = r]
  BY DEF Sa!Connect, ServerInv
<1> HIDE DEF r
<1>7. Served(v, r)
  BY <1>1, <1>2, <1>3, <1>4, <1>5 DEF Served, Grants
<1>8. \A w \in Visitors : stream'[w] = IF w = v THEN r ELSE stream[w]
  BY <1>6 DEF ServerInv
<1>9. ASSUME NEW w \in Visitors PROVE Served(w, stream[w])'
  <2>1. Served(w, stream'[w])
    BY <1>7, <1>8 DEF ServerInv
  <2>2. QED
    BY <1>1, <2>1 DEF Served, Rightly, Accepts
<1>10. DOMAIN stream' = Visitors /\ stream' = [w \in Visitors |-> stream'[w]]
  BY <1>6 DEF ServerInv
<1>11. /\ Append(queue, v) \in Seq(Visitors) /\ Len(Append(queue, v)) = Len(queue) + 1
       /\ Len(queue) \in Nat
       /\ \A i \in 1..(Len(queue) + 1) :
             Append(queue, v)[i] = IF i = Len(queue) + 1 THEN v ELSE queue[i]
       /\ \A i \in 1..Len(queue) : queue[i] \in Visitors
  BY DEF ServerInv
<1>12. \A i \in 1..Len(queue) : queue[i] # v
  BY <1>1 DEF ServerInv
<1>13. \A i \in 1..(Len(queue) + 1) : i = Len(queue) + 1 \/ i \in 1..Len(queue)
  BY <1>11
<1>14. \A i \in 1..(Len(queue) + 1) : stream'[Append(queue, v)[i]].state = "queued"
  BY <1>4, <1>8, <1>11, <1>12, <1>13 DEF ServerInv
<1>15. \A i, j \in 1..(Len(queue) + 1) : Append(queue, v)[i] = Append(queue, v)[j] => i = j
  BY <1>11, <1>12, <1>13 DEF ServerInv
<1>16. QED
  BY <1>1, <1>9, <1>10, <1>11, <1>14, <1>15 DEF ServerInv

LEMMA ServerPosts ==
    ASSUME ServerInv, NEW v \in Visitors, Sa!STREAMServerPostAccept(v) PROVE ServerInv'
<1> DEFINE ssl == Sa!SSL(v)
           s == [stream[v] EXCEPT !.ssl = ssl, !.state = "given"]
           done == CASE s.type = "tcp" -> [Sa!Marked(v, s) EXCEPT !.state =
                                              IF Sa!STREAMAuth(v, s) THEN "given" ELSE "closed"]
                     [] s.type = "http" -> Sa!HTTPServerAccept(v, s)
                     [] s.type = "ws" -> Sa!WebSocketAccept(v, s)
                     [] OTHER -> [s EXCEPT !.ssl = FALSE]
<1>1. /\ stream[v].state \in {"accepting", "accepted"}
      /\ stream' = [stream EXCEPT ![v] = done] /\ server' = server /\ queue' = queue
  BY DEF Sa!STREAMServerPostAccept
<1>2. Served(v, stream[v]) /\ stream[v] \in Streams(v) /\ server \in Services
  BY DEF ServerInv, Served
<1>3. ssl \in BOOLEAN /\ (ssl => v.tls)
  BY DEF Sa!SSL
<1> HIDE DEF ssl
<1>4. s \in Streams(v)
  <2>1. ssl \in BOOLEAN
    BY <1>3
  <2>2. stream[v] \in Streams(v)
    BY <1>2
  <2> HIDE DEF done
  <2>3. QED
    BY ONLY <2>1, <2>2 DEF Streams
<1>5. /\ s.state = "given" /\ s.sent = stream[v].sent /\ s.type = stream[v].type
      /\ s.user = stream[v].user
  BY <1>2 DEF Streams
<1>6. s.isauth = stream[v].isauth
  BY <1>2 DEF Streams
<1>7. s.ssl = ssl
  BY <1>2 DEF Streams
<1> HIDE DEF s
<1>8. s.user = Sa!NotSet /\ ~s.isauth /\ s.sent = << >> /\ (s.ssl => v.tls)
  BY <1>1, <1>2, <1>3, <1>5, <1>6, <1>7 DEF Served
<1>9. Served(v, done)
  BY <1>2, <1>4, <1>5, <1>8, PostAccepted
<1>10. done.state # "queued"
  <2>1. done.state \in {"given", "closed"}
    <3>1. CASE s.type = "tcp"
      <4> DEFINE m == Sa!Marked(v, s)
                 st == IF Sa!STREAMAuth(v, s) THEN "given" ELSE "closed"
      <4>1. m \in Streams(v)
        BY <1>2, <1>4, <1>8, MarkedStream
      <4>2. st \in {"given", "closed"} /\ done = [m EXCEPT !.state = st]
        BY <3>1
      <4> HIDE DEF m, st, done
      <4>3. QED
        BY <4>1, <4>2 DEF Streams
    <3>2. CASE s.type = "http"
      <4>1. done = Sa!HTTPServerAccept(v, s)
        BY <3>2
      <4>2. QED
        BY <1>2, <1>4, <1>5, <1>8, <4>1, HttpAccepted
    <3>3. CASE s.type = "ws"
      <4>1. done = Sa!WebSocketAccept(v, s)
        BY <3>3
      <4> DEFINE h == Sa!HTTPServerAccept(v, s)
                 m == Sa!Marked(v, h)
      <4>2. /\ h \in Streams(v) /\ h.state = "given" /\ (h.ssl => v.tls)
            /\ h.user = Sa!LastOf(v, "Authorization")
        BY <1>2, <1>4, <1>5, <1>8, HttpAccepted
      <4>3. m \in Streams(v) /\ m.state = "given"
        BY <1>2, <4>2, MarkedStream
      <4>4. \/ done = [h EXCEPT !.sent = Append(@, 400)]
            \/ done = [h EXCEPT !.sent = Append(@, 401)]
            \/ done = [m EXCEPT !.sent = Append(@, 101), !.type = "service"]
        BY <4>1 DEF Sa!WebSocketAccept
      <4> HIDE DEF h, m, done
      <4>5. CASE done \in {[h EXCEPT !.sent = Append(@, 400)],
                            [h EXCEPT !.sent = Append(@, 401)]}
        <5>1. done.state = h.state
          BY ONLY <4>2, <4>5 DEF Streams
        <5>2. QED
          BY <4>2, <5>1
      <4>6. CASE done = [m EXCEPT !.sent = Append(@, 101), !.type = "service"]
        <5>1. done.state = m.state
          BY ONLY <4>3, <4>6 DEF Streams
        <5>2. QED
          BY <4>3, <5>1
      <4>7. QED
        BY <4>4, <4>5, <4>6
    <3>4. CASE s.type \notin {"tcp", "http", "ws"}
      <4>1. done = [s EXCEPT !.ssl = FALSE]
        BY <3>4
      <4> HIDE DEF done
      <4>2. QED
        BY <1>4, <1>5, <4>1 DEF Streams
    <3>5. QED
      BY <3>1, <3>2, <3>3, <3>4
  <2>2. QED
    BY <2>1
<1> HIDE DEF done
<1>11. QED
  BY <1>1, <1>9, <1>10, OneServed

(* The program goes on with the stream it was given: nothing of it changes *)
(* yet but who has it.                                                     *)
LEMMA ProgramGoesOn ==
    ASSUME ServerInv, NEW v \in Visitors, NEW handedOff, Sa!GoOn(v, handedOff)
    PROVE  ServerInv'
<1> DEFINE r == [stream[v] EXCEPT !.state = "accepting"]
<1>1. stream[v].state = "accepted" /\ server' = server /\ queue' = queue
  BY DEF Sa!GoOn
<1>2. Served(v, stream[v]) /\ stream[v] \in Streams(v)
  BY DEF ServerInv, Served
<1>3. r \in Streams(v)
  BY <1>2 DEF Streams
<1>4. /\ r.state = "accepting" /\ r.type = stream[v].type /\ r.sent = stream[v].sent
      /\ r.user = stream[v].user /\ r.method = stream[v].method
  BY <1>2 DEF Streams
<1>5. r.isauth = stream[v].isauth
  BY <1>2 DEF Streams
<1>6. stream' = [stream EXCEPT ![v] = r]
  BY DEF Sa!GoOn, ServerInv
<1> HIDE DEF r
<1>7. Served(v, r)
  BY <1>1, <1>2, <1>3, <1>4, <1>5 DEF Served, Grants
<1>8. QED
  BY <1>1, <1>4, <1>6, <1>7, OneServed

LEMMA ServerResponds ==
    ASSUME ServerInv, NEW v \in Visitors, Sa!HTTPServerSendResponse(v) PROVE ServerInv'
<1> DEFINE code == IF server.auth = << >> \/ stream[v].isauth THEN 200 ELSE 401
           r == Answering(stream[v], code)
<1>1. /\ stream[v].state = "given" /\ stream[v].type = "http" /\ stream[v].sent = << >>
      /\ stream' = [stream EXCEPT ![v].sent = Append(@, code)]
      /\ server' = server /\ queue' = queue
  BY DEF Sa!HTTPServerSendResponse
<1>2. Served(v, stream[v]) /\ stream[v] \in Streams(v)
  BY DEF ServerInv, Served
<1>3. code \in {101, 200, 400, 401} /\ (code \in {101, 200} => Rightly(v))
  BY <1>2 DEF Served, Rightly
<1> HIDE DEF code
<1>4. stream' = [stream EXCEPT ![v] = r]
  BY <1>1 DEF ServerInv, Answering
<1>5. ~Grants(stream[v])
  BY <1>1 DEF Grants
<1>6. stream[v].isauth => Accepts(v)
  BY <1>2 DEF Served
<1>7. stream[v].type # "tcp"
  BY <1>1
<1>8. Served(v, r)
  BY <1>1, <1>2, <1>3, <1>5, <1>6, <1>7, Answered
<1>9. r.state = "given"
  BY <1>1, <1>2 DEF Answering, Streams
<1>10. QED
  BY <1>1, <1>4, <1>8, <1>9, OneServed

LEMMA ServerGoesOn == ASSUME ServerInv, Sa!Next PROVE ServerInv'
<1>1. CASE Sa!STREAMServerAccept
  BY <1>1, ServerAccepts
<1>2. ASSUME NEW v \in Visitors, Sa!Connect(v) PROVE ServerInv'
  BY <1>2, ServerConnects
<1>3. ASSUME NEW v \in Visitors, Sa!Speak(v) PROVE ServerInv'
  BY <1>3 DEF Sa!Speak, ServerInv, Served, Rightly, Accepts
<1>4. ASSUME NEW v \in Visitors, Sa!STREAMServerPostAccept(v) PROVE ServerInv'
  BY <1>4, ServerPosts
<1>5. ASSUME NEW v \in Visitors, Sa!HTTPServerSendResponse(v) PROVE ServerInv'
  BY <1>5, ServerResponds
<1>6. ASSUME NEW v \in Visitors, NEW handedOff \in BOOLEAN, Sa!GoOn(v, handedOff)
      PROVE  ServerInv'
  BY <1>6, ProgramGoesOn
<1>7. QED
  BY <1>1, <1>2, <1>3, <1>4, <1>5, <1>6 DEF Sa!Next

(* Only who a method of the server accepts is given to the program.        *)
THEOREM OnlyAccepted == NetworkSpec => []OnlyTheAccepted
<1> DEFINE Inv == part = "Server" => ServerInv
<1>1. NetworkInit => Inv
  BY ServerInit
<1>2. Inv /\ [NetworkNext]_networkVars => Inv'
  <2> SUFFICES ASSUME Inv, [NetworkNext]_networkVars, part' = "Server"
               PROVE  ServerInv'
    OBVIOUS
  <2>1. CASE UNCHANGED networkVars
    <3>1. UNCHANGED <<server, queue, stream>> /\ ServerInv
      BY <2>1 DEF networkVars, serverVars
    <3>2. QED
      BY <3>1 DEF ServerInv, Served, Rightly, Accepts
  <2>2. CASE ServerNext
    BY <2>2, ServerGoesOn DEF ServerNext
  <2>3. QED
    BY <2>1, <2>2 DEF NetworkNext, HttpNext, ChunkedNext, ConnectionNext, SelectNext,
       WebSocketNext, SmtpNext
<1>3. Inv => OnlyTheAccepted
  <2> SUFFICES ASSUME part = "Server", ServerInv, NEW v \in Visitors
               PROVE  LET s == stream[v] IN
                      /\ s.isauth => Accepts(v)
                      /\ \/ s.type = "tcp" /\ s.state = "given"
                         \/ \E i \in DOMAIN s.sent : s.sent[i] \in {101, 200}
                         => server.auth = << >> \/ Accepts(v)
                      /\ s.method # Sa!NotSet => s.method = v.request[1]
    BY DEF OnlyTheAccepted, Sa!OnlyTheAccepted, Accepts
  <2>1. Served(v, stream[v])
    BY DEF ServerInv
  <2>2. stream[v].method \in {Sa!NotSet, v.request[1]}
    BY <2>1 DEF Served, Streams
  <2>3. QED
    BY <2>1, <2>2 DEF Served, Rightly, Grants
<1>4. QED
  BY <1>1, <1>2, <1>3, PTL DEF NetworkSpec

-----------------------------------------------------------------------------
(* THE CONNECTION.                                                         *)

AllGood == \A i \in 1..Co!N : chain[i].up /\ chain[i].takes
Behind(n) == Co!AllDiffer => through = 1..n
Opened ==
    /\ chain[Co!N].type = "udp" \/ at = Co!N
    /\ fd = "connected" /\ "CONNECTING" \notin state
    /\ chain[Co!N].type = "ssl" /\ chain[Co!N].tls = "shakes" => "SSL" \in state
    /\ Behind(Co!N - 1)

(* Where the stream has come to, at each step of STREAMConnect.            *)
AtStart == count = 0 /\ at = 0 /\ through = {} /\ fd = "none" /\ state = {} /\ ~result
Direct == Co!N = 1 /\ count = 0 /\ through = {}
AtHost == fd = "connected" /\ (chain[1].type = "udp" \/ at = 1)
Waiting ==
    /\ Direct /\ ~result /\ state \subseteq {"CONNECTING"}
    /\ fd = "connected" => AtHost
    /\ fd # "connected" => chain[1].type # "udp" /\ (fd = "connecting" \/ ~chain[1].up)
Hopping ==
    /\ Co!N > 1 /\ count \in 0..(Co!N - 1)
    /\ count = 0 => AtStart
    /\ count > 0 => /\ state = {"INITIAL"}
                    /\ at \in 0..(count + 1) /\ (at = count + 1 => Behind(count))
                    /\ result => at = count + 1
                    /\ AllGood => result
    /\ at # 0 => fd = "connected"

Progress ==
    /\ ~junk
    /\ connectPc = "idle" => AtStart
    /\ connectPc = "net" => AtStart /\ Co!N = 1
    /\ connectPc = "hop" => Hopping /\ count < Co!N - 1
    /\ connectPc = "last" => Hopping /\ count = Co!N - 1
    /\ connectPc = "wait" => Waiting
    /\ connectPc = "post" => Direct /\ AtHost /\ "CONNECTING" \notin state
    /\ connectPc \in {"done", "returned", "exited"} => (result => Opened)
    /\ connectPc = "done" => (AllGood => result \/ fd = "connecting")

ConnectionInv ==
    /\ chain \in ProxyChains /\ result \in BOOLEAN
    /\ Co!Supported => Progress

LEMMA ChainTyped ==
    ASSUME chain \in ProxyChains
    PROVE  /\ Co!N \in Nat /\ Co!N >= 1
           /\ \A i \in 1..Co!N : chain[i] \in Co!Host
BY NetworkAssumption DEF Co!ConnectionAssumption, Co!N

(* A host that does not just pass on what it gets is reached itself, and a *)
(* tcp proxy passes on to the one behind it.                               *)
LEMMA ReachFacts ==
    ASSUME chain \in ProxyChains, Co!Supported
    PROVE  /\ \A i \in 1..Co!N :
                 i > 1 \/ Co!N = 1 \/ chain[i].type # "tcp" \/ ~chain[i].up =>
                     Co!Reach(i) = IF chain[i].up THEN i ELSE 0
           /\ Co!N > 1 /\ chain[1].type = "tcp" /\ chain[1].up =>
                     Co!Reach(1) = IF chain[2].up THEN 2 ELSE 0
<1> DEFINE n == Co!N
           stop(i) == {j \in i..n : j = n \/ chain[j].type # "tcp" \/ ~chain[j].up}
           least(i) == CHOOSE j \in stop(i) : \A k \in stop(i) : j <= k
<1>1. n \in Nat /\ n >= 1
  BY ChainTyped
<1>2. \A i : Co!Reach(i) = IF chain[least(i)].up THEN least(i) ELSE 0
  BY DEF Co!Reach
<1>3. \A j \in 2..(n - 1) : chain[j].type # "tcp"
  <2>1. \A j \in 1..(n - 1) : chain[j].type = "tcp" => j = 1
    BY DEF Co!Supported
  <2>2. QED
    BY <1>1, <2>1
<1> HIDE DEF n
<1>4. ASSUME NEW i \in 1..n, i > 1 \/ n = 1 \/ chain[i].type # "tcp" \/ ~chain[i].up
      PROVE  least(i) = i
  <2>1. i \in stop(i) /\ \A k \in stop(i) : i <= k
    BY <1>1, <1>3, <1>4
  <2>2. \A j \in stop(i) : (\A k \in stop(i) : j <= k) => j = i
    BY <1>1, <2>1
  <2> HIDE DEF stop
  <2>3. QED
    BY <2>1, <2>2
<1>5. ASSUME n > 1, chain[1].type = "tcp", chain[1].up
      PROVE  least(1) = 2
  <2>1. 2 \in stop(1)
    BY <1>1, <1>3, <1>5
  <2>2. 1 \notin stop(1)
    BY <1>1, <1>5
  <2>3. \A k \in stop(1) : 2 <= k
    BY <1>1, <2>2
  <2>4. \A j \in stop(1) : (\A k \in stop(1) : j <= k) => j = 2
    BY <1>1, <2>1, <2>3
  <2> HIDE DEF stop
  <2>5. QED
    BY <2>1, <2>3, <2>4
<1> HIDE DEF least
<1>6. QED
  BY <1>2, <1>4, <1>5 DEF n

LEMMA ConnectionInit == NetworkInit /\ part = "Connection" => ConnectionInv
BY DEF NetworkInit, Co!Init, ConnectionInv, Progress, AtStart

(* Who is asked and says yes has connected to the next, and it is the hop  *)
(* that was meant unless there is another of its kind.                     *)
LEMMA HopAsked ==
    ASSUME chain \in ProxyChains, Co!Supported, Hopping, count < Co!N - 1,
           Co!Hop.type # "tcp", NEW understands \in BOOLEAN
    PROVE  /\ \A next \in Co!Asked(understands) :
                 /\ next \in {0, count + 2}
                 /\ next # 0 /\ Co!AllDiffer => Co!Peer = count + 1
                 /\ AllGood /\ understands => next # 0
           /\ Co!Peer \in 0..(count + 1)
           /\ Co!Peer = count + 1 => Behind(count)
           /\ \A next \in Co!Asked(understands) : next # 0 => Co!Peer # 0
           /\ Co!Peer # 0 => Co!Socket = "connected"
<1>1. /\ Co!N \in Nat /\ count \in Nat /\ count + 1 \in 1..(Co!N - 1) /\ count + 1 \in 1..Co!N
      /\ count + 2 \in 1..Co!N /\ count + 2 > 1
  BY ChainTyped DEF Hopping
<1>2. Co!Reach(count + 2) = IF chain[count + 2].up THEN count + 2 ELSE 0
  BY <1>1, ReachFacts
<1> DEFINE speaks(i) == /\ i # 0 /\ chain[i].takes
                        /\ IF i = count + 1 THEN understands ELSE chain[i].type = Co!Hop.type
<1>3. Co!Asked(understands) = {IF speaks(Co!Peer) THEN Co!Reach(count + 2) ELSE 0}
                                 \cup {j \in {0} : Co!Peer # count + 1}
  BY DEF Co!Asked
<1>4. /\ Co!Peer \in 0..(count + 1)
      /\ Co!Peer = count + 1 => Behind(count)
      /\ Co!Peer # 0 => Co!Socket = "connected"
      /\ AllGood => Co!Peer = count + 1
  <2>1. CASE count = 0
    <3>1. 1 \in 1..Co!N /\ chain[1].type # "tcp" /\ through = {}
      BY <1>1, <2>1 DEF Co!Hop, Hopping, AtStart
    <3>2. Co!Reach(1) = IF chain[1].up THEN 1 ELSE 0
      BY <3>1, ReachFacts
    <3>3. Co!First
      BY <2>1 DEF Hopping, AtStart, Co!First
    <3>4. /\ Co!Peer = Co!Reach(1)
          /\ Co!Socket = IF Co!Reach(1) = 0 THEN "none" ELSE "connected"
      BY <3>3 DEF Co!Peer, Co!Socket
    <3>5. Behind(0)
      BY <3>1 DEF Behind
    <3>6. QED
      BY <2>1, <3>1, <3>2, <3>4, <3>5 DEF AllGood
  <2>2. CASE count > 0
    <3>1. ~Co!First
      BY <2>2 DEF Hopping, Co!First
    <3>2. Co!Peer = at /\ Co!Socket = fd
      BY <3>1 DEF Co!Peer, Co!Socket
    <3>3. QED
      BY <2>2, <3>2 DEF Hopping
  <2>3. QED
    BY <1>1, <2>1, <2>2
<1>5. speaks(Co!Peer) /\ Co!AllDiffer => Co!Peer = count + 1
  <2> SUFFICES ASSUME speaks(Co!Peer), Co!AllDiffer, Co!Peer # count + 1 PROVE FALSE
    OBVIOUS
  <2>1. Co!Peer \in 1..(Co!N - 1)
    BY <1>1, <1>4
  <2>2. chain[Co!Peer].type = chain[count + 1].type
    BY DEF Co!Hop
  <2>3. QED
    BY <1>1, <2>1, <2>2 DEF Co!AllDiffer
<1>6. ASSUME AllGood, understands PROVE speaks(Co!Peer) /\ Co!Reach(count + 2) = count + 2
  BY <1>1, <1>2, <1>4, <1>6 DEF AllGood
<1>7. speaks(Co!Peer) => Co!Peer # 0
  OBVIOUS
<1> HIDE DEF speaks
<1>8. ASSUME NEW next \in Co!Asked(understands)
      PROVE  /\ next \in {0, count + 2}
             /\ next # 0 => speaks(Co!Peer)
             /\ AllGood /\ understands => next # 0
  BY <1>1, <1>2, <1>3, <1>4, <1>6, <1>8
<1>9. QED
  BY <1>4, <1>5, <1>7, <1>8

(* After a hop the next is due, or the destination.                        *)
LEMMA HopIsDone ==
    ASSUME chain \in ProxyChains, Co!Supported, Progress, connectPc = "hop",
           NEW ok \in BOOLEAN, Co!HopDone(ok), ~junk', AllGood => ok,
           IF ok THEN at' = count + 2 /\ Behind(count)' ELSE at' \in 0..(count + 1),
           at' # 0 => fd' = "connected"
    PROVE  Progress'
<1>1. Hopping /\ count < Co!N - 1
  BY DEF Progress
<1>2. /\ count' = count + 1 /\ result' = ok /\ state' = {"INITIAL"} /\ chain' = chain
      /\ connectPc' = IF count + 1 = Co!N - 1 THEN "last" ELSE "hop"
  BY DEF Co!HopDone, Co!Const
<1>3. Co!N \in Nat /\ count \in Nat /\ count + 1 \in 0..(Co!N - 1) /\ count + 1 > 0
  BY <1>1, ChainTyped DEF Hopping
<1>4. Co!N' = Co!N /\ AllGood' = AllGood
  BY <1>2 DEF Co!N, AllGood
<1>5. at' \in 0..(count' + 1) /\ (at' = count' + 1 => ok) /\ (ok => at' = count' + 1)
  BY <1>2, <1>3
<1>6. Hopping'
  BY <1>1, <1>2, <1>3, <1>4, <1>5 DEF Hopping
<1>7. count + 1 # Co!N - 1 => count + 1 < Co!N - 1
  BY <1>1, <1>3
<1>8. QED
  BY <1>2, <1>4, <1>6, <1>7 DEF Progress

LEMMA ProxiedGoesOn ==
    ASSUME chain \in ProxyChains, Co!Supported, Progress, connectPc = "hop",
           Co!Hop.type # "tcp", NEW understands \in BOOLEAN, Co!Proxied(understands), ~junk',
           AllGood => understands
    PROVE  Progress'
<1>1. Hopping /\ count < Co!N - 1
  BY DEF Progress
<1>2. count \in Nat
  BY <1>1 DEF Hopping
<1>3. PICK next \in Co!Asked(understands) :
        /\ at' = IF next # 0 THEN next ELSE Co!Peer
        /\ through' = IF next # 0 THEN through \cup Co!Passes(Co!Peer, next) ELSE through
        /\ fd' = Co!Socket /\ Co!HopDone(next # 0)
  BY DEF Co!Proxied
<1>4. /\ next \in {0, count + 2}
      /\ next # 0 => (Co!AllDiffer => Co!Peer = count + 1) /\ Co!Peer # 0
      /\ AllGood => next # 0
      /\ Co!Peer \in 0..(count + 1)
      /\ Co!Peer = count + 1 => Behind(count)
      /\ Co!Peer # 0 => Co!Socket = "connected"
  BY <1>1, HopAsked
<1>5. (next # 0) \in BOOLEAN
  OBVIOUS
<1>6. at' # 0 => fd' = "connected"
  BY <1>3, <1>4
<1>7. Co!AllDiffer' = Co!AllDiffer
  BY <1>3 DEF Co!HopDone, Co!Const, Co!AllDiffer, Co!N
<1>8. ASSUME next # 0 PROVE Behind(count)'
  <2> SUFFICES ASSUME Co!AllDiffer PROVE through' = 1..count'
    BY <1>7 DEF Behind
  <2>1. through = 1..count
    BY <1>4, <1>8 DEF Behind
  <2>2. Co!Passes(Co!Peer, next) = {count + 1}
    BY <1>2, <1>4, <1>8 DEF Co!Passes
  <2>3. through' = (1..count) \cup {count + 1} /\ count' = count + 1
    BY <1>3, <1>8, <2>1, <2>2 DEF Co!HopDone
  <2>4. QED
    BY <1>2, <2>3
<1>9. QED
  BY <1>2, <1>3, <1>4, <1>5, <1>6, <1>8, HopIsDone

LEMMA HopsGoOn ==
    ASSUME chain \in ProxyChains, Co!Supported, Progress,
           \/ Co!ConnectHopTCP \/ Co!ConnectHopTCPAgain \/ Co!ConnectHopHTTPSProxy
           \/ Co!ConnectHopSocks \/ Co!ConnectHopSSH \/ Co!ConnectHopUnknown
    PROVE  Progress'
<1>1. connectPc = "hop" /\ Hopping /\ count < Co!N - 1
  BY DEF Progress, Co!ConnectHopTCP, Co!ConnectHopTCPAgain, Co!ConnectHopHTTPSProxy,
     Co!ConnectHopSocks, Co!ConnectHopSSH, Co!ConnectHopUnknown
<1>2. /\ Co!N \in Nat /\ count \in Nat /\ count + 1 \in 1..(Co!N - 1)
      /\ 1 \in 1..Co!N /\ 2 \in 1..Co!N /\ Co!N > 1 /\ count + 2 # 0
  BY <1>1, ChainTyped DEF Hopping
<1>3. /\ Co!Hop.type \in {"tcp"} \cup Co!Ssh \cup {"socks5"} => count = 0
      /\ Co!Hop.type \in Co!HopTypes \ {"none"}
      /\ Co!Hop.type = "tcp" => ~global
      /\ Co!Hop.type = "socks4" => ~chain[count + 2].ip4
  <2>1. /\ chain[count + 1].type \in {"tcp"} \cup Co!Ssh \cup {"socks5"} => count + 1 = 1
        /\ chain[count + 1].type \in Co!HopTypes \ {"none"}
        /\ chain[count + 1].type = "tcp" => ~global
        /\ chain[count + 1].type = "socks4" => ~chain[count + 1 + 1].ip4
    BY <1>2 DEF Co!Supported
  <2>2. count + 1 + 1 = count + 2
    BY <1>2
  <2>3. QED
    BY <1>2, <2>1, <2>2 DEF Co!Hop
<1>4. ~junk
  BY DEF Progress
<1>5. CASE Co!ConnectHopTCP
  <2>1. count = 0 /\ Co!Hop = chain[1] /\ chain[1].type = "tcp" /\ AtStart
    BY <1>1, <1>3, <1>5 DEF Co!ConnectHopTCP, Co!Hop, Hopping
  <2>2. Co!First
    BY <2>1 DEF AtStart, Co!First
  <2>3. Co!Peer = Co!Reach(1) /\ Co!Socket = IF Co!Reach(1) = 0 THEN "none" ELSE "connected"
    BY <2>2 DEF Co!Peer, Co!Socket
  <2>4. Co!Reach(1) # 0 => Co!Reach(1) = 2
    BY <1>2, <2>1, ReachFacts
  <2>5. AllGood => Co!Reach(1) # 0
    BY <1>2, <2>1, ReachFacts DEF AllGood
  <2>6. (count > 0 \/ Co!Peer # 0) \in BOOLEAN
    OBVIOUS
  <2>7. /\ at' = Co!Peer /\ fd' = Co!Socket /\ junk' = junk
        /\ through' = 1..(Co!Peer - 1)
        /\ Co!HopDone(count > 0 \/ Co!Peer # 0)
    BY <1>5, <2>2 DEF Co!ConnectHopTCP
  <2> DEFINE ok == count > 0 \/ Co!Peer # 0
  <2>8. /\ IF ok THEN at' = count + 2 ELSE at' \in 0..(count + 1)
        /\ (at' # 0 => fd' = "connected") /\ (AllGood => ok)
    BY <2>1, <2>3, <2>4, <2>5, <2>7
  <2>9. ok => Behind(count)'
    <3>1. count' = 1
      BY <2>1, <2>7 DEF Co!HopDone
    <3>2. QED
      BY <2>1, <2>3, <2>4, <2>7, <3>1 DEF Behind
  <2>10. ok \in BOOLEAN /\ Co!HopDone(ok) /\ ~junk'
    BY <1>4, <2>6, <2>7
  <2> HIDE DEF ok
  <2>11. QED
    BY <1>1, <2>8, <2>9, <2>10, HopIsDone
<1>6. CASE Co!ConnectHopTCPAgain
  BY <1>2, <1>3, <1>6 DEF Co!ConnectHopTCPAgain
<1>7. CASE Co!ConnectHopHTTPSProxy
  <2>1. Co!Hop.type # "tcp" /\ Co!Proxied(TRUE) /\ ~junk'
    BY <1>4, <1>7 DEF Co!ConnectHopHTTPSProxy
  <2>2. TRUE \in BOOLEAN
    OBVIOUS
  <2>3. QED
    BY <1>1, <2>1, <2>2, ProxiedGoesOn
<1>8. CASE Co!ConnectHopSocks
  <2> DEFINE understands == (Co!Hop.type = "socks5" => Co!First)
  <2>1. /\ Co!Hop.type \in {"socks4", "socks5"} /\ Co!Proxied(understands)
        /\ junk' = (junk \/ (Co!Hop.type = "socks4" /\ chain[count + 2].ip4 /\ result'))
    BY <1>8 DEF Co!ConnectHopSocks
  <2>2. ~junk'
    BY <1>3, <1>4, <2>1
  <2>3. understands \in BOOLEAN
    OBVIOUS
  <2>4. understands
    BY <1>1, <1>3 DEF Hopping, AtStart, Co!First
  <2> HIDE DEF understands
  <2>5. QED
    BY <1>1, <2>1, <2>2, <2>3, <2>4, ProxiedGoesOn
<1>9. CASE Co!ConnectHopSSH
  <2> DEFINE next == IF count = 0 /\ Co!Hop.up /\ Co!Hop.takes THEN Co!Reach(2) ELSE 0
  <2>1. /\ at' = IF next # 0 THEN next ELSE at
        /\ fd' = IF next # 0 THEN "connected" ELSE fd
        /\ through' = IF next # 0 THEN Co!Passes(1, next) ELSE through
        /\ Co!HopDone(next # 0) /\ junk' = junk
    BY <1>9 DEF Co!ConnectHopSSH
  <2>2. count = 0 /\ Co!Hop = chain[1] /\ AtStart
    BY <1>1, <1>3, <1>9 DEF Co!ConnectHopSSH, Co!Hop, Hopping
  <2>3. Co!Reach(2) = IF chain[2].up THEN 2 ELSE 0
    BY <1>2, ReachFacts
  <2>4. (next # 0 => next = 2) /\ (AllGood => next # 0)
    BY <1>2, <2>2, <2>3 DEF AllGood
  <2> HIDE DEF next
  <2>5. (next # 0) \in BOOLEAN
    OBVIOUS
  <2>6. at' # 0 => fd' = "connected"
    BY <2>1, <2>2 DEF AtStart
  <2> DEFINE ok == next # 0
  <2>7. IF ok THEN at' = count + 2 ELSE at' \in 0..(count + 1)
    BY <2>1, <2>2, <2>4 DEF AtStart
  <2>8. ok => Behind(count)'
    <3>1. count' = 1
      BY <2>1, <2>2 DEF Co!HopDone
    <3>2. ok => through' = {1}
      BY <2>1, <2>2, <2>4 DEF Co!Passes
    <3>3. QED
      BY <3>1, <3>2 DEF Behind
  <2>9. ok \in BOOLEAN /\ Co!HopDone(ok) /\ ~junk' /\ (AllGood => ok)
    BY <1>4, <2>1, <2>4, <2>5
  <2> HIDE DEF ok
  <2>10. QED
    BY <1>1, <2>6, <2>7, <2>8, <2>9, HopIsDone
<1>10. CASE Co!ConnectHopUnknown
  BY <1>3, <1>10 DEF Co!ConnectHopUnknown, Co!HopTypes
<1>11. QED
  BY <1>5, <1>6, <1>7, <1>8, <1>9, <1>10

(* The steps of a direct connection, and what comes after the hops.        *)
LEMMA OthersGoOn ==
    ASSUME chain \in ProxyChains, result \in BOOLEAN, Co!Supported, Progress,
           \/ Co!STREAMConnect \/ Co!IPReconnect \/ Co!NetworkAnswers \/ Co!STREAMWaitConnect
           \/ Co!STREAMDoPostConnect \/ Co!LastHop \/ Co!STREAMSocketOpen \/ Co!ProgramExits
    PROVE  Progress'
<1>1. Co!N \in Nat /\ Co!N >= 1
  BY ChainTyped
<1>2. chain' = chain
  BY DEF Co!Const, Co!STREAMConnect, Co!IPReconnect, Co!NetworkAnswers, Co!STREAMWaitConnect,
     Co!STREAMDoPostConnect, Co!LastHop, Co!STREAMSocketOpen, Co!ProgramExits
<1>3. Co!N' = Co!N /\ AllGood' = AllGood /\ Co!AllDiffer' = Co!AllDiffer
  BY <1>2 DEF Co!N, AllGood, Co!AllDiffer
<1>4. CASE Co!STREAMConnect
  BY <1>1, <1>2, <1>3, <1>4 DEF Co!STREAMConnect, Progress, AtStart, Hopping
<1>5. CASE Co!IPReconnect
  <2>1. AtStart /\ Co!N = 1 /\ Co!Hop = chain[1]
    BY <1>5 DEF Co!IPReconnect, Progress, AtStart, Co!Hop
  <2>2. chain[1].up => Co!Reach(1) = 1
    BY <2>1, ReachFacts
  <2>3. /\ count' = count /\ through' = through /\ junk' = junk
        /\ state' \subseteq {"CONNECTING"}
    BY <1>5 DEF Co!IPReconnect
  <2>4. CASE Co!Connects /\ connectPc' = "wait" /\ result' = result
    BY <1>2, <1>3, <2>1, <2>2, <2>3, <2>4
       DEF Co!Connects, Progress, AtStart, Waiting, Direct, AtHost
  <2>5. CASE /\ Co!Hop.type # "udp" /\ fd' = "connecting" /\ connectPc' = "wait"
             /\ at' = at /\ result' = result
    BY <1>2, <1>3, <2>1, <2>3, <2>5 DEF Progress, AtStart, Waiting, Direct, AtHost
  <2>6. CASE ~Co!Hop.up /\ connectPc' = "done" /\ result' = FALSE
    <3>1. ~AllGood
      BY <2>1, <2>6 DEF AllGood
    <3>2. QED
      BY <1>3, <2>3, <2>6, <3>1 DEF Progress
  <2>7. QED
    BY <1>5, <2>4, <2>5, <2>6 DEF Co!IPReconnect
<1>6. CASE Co!NetworkAnswers
  <2>1. Waiting /\ Co!Hop = chain[1]
    BY <1>6 DEF Co!NetworkAnswers, Progress, Waiting, Direct, Co!Hop
  <2>2. QED
    BY <1>2, <1>3, <1>6, <2>1 DEF Co!NetworkAnswers, Progress, Waiting, Direct, AtHost
<1>7. CASE Co!STREAMWaitConnect
  <2>1. Waiting /\ Co!Hop = chain[1]
    BY <1>7 DEF Co!STREAMWaitConnect, Progress, Waiting, Direct, Co!Hop
  <2>2. /\ count' = count /\ at' = at /\ fd' = fd /\ junk' = junk /\ through' = through
    BY <1>7 DEF Co!STREAMWaitConnect
  <2>3. CASE fd = "connected"
    <3>1. connectPc' = "post" /\ result' = result /\ "CONNECTING" \notin state'
      BY <1>7, <2>3 DEF Co!STREAMWaitConnect
    <3>2. QED
      BY <1>2, <1>3, <2>1, <2>2, <2>3, <3>1 DEF Progress, Waiting, Direct, AtHost
  <2>4. CASE fd # "connected"
    <3>1. connectPc' = "done" /\ result' = FALSE
      BY <1>7, <2>1, <2>4 DEF Co!STREAMWaitConnect, Waiting
    <3>2. fd = "connecting" \/ ~AllGood
      BY <2>1, <2>4 DEF Waiting, Direct, AllGood
    <3>3. QED
      BY <1>3, <2>2, <3>1, <3>2 DEF Progress
  <2>5. QED
    BY <2>3, <2>4
<1>8. CASE Co!STREAMDoPostConnect
  <2>1. Direct /\ AtHost /\ "CONNECTING" \notin state /\ Co!Hop = chain[1] /\ Co!N = 1
    BY <1>8 DEF Co!STREAMDoPostConnect, Progress, Direct, Co!Hop
  <2>2. /\ at' = at /\ fd' = fd /\ junk' = junk /\ through' = through
        /\ Co!DoSSLClientNegotiation(state \cup {"CONNECTED"})
    BY <1>8 DEF Co!STREAMDoPostConnect
  <2>3. /\ connectPc' \in {"handshake", "done"} /\ "CONNECTING" \notin state'
        /\ chain[1].type = "ssl" /\ chain[1].tls = "shakes" => "SSL" \in state'
    BY <2>1, <2>2 DEF Co!DoSSLClientNegotiation, Co!Outcomes, AtHost
  <2>4. Opened' /\ result'
    <3>1. through' = 1..(Co!N - 1)
      BY <2>1, <2>2 DEF Direct
    <3>2. result' = TRUE
      BY <1>8 DEF Co!STREAMDoPostConnect
    <3>3. QED
      BY <1>2, <1>3, <2>1, <2>2, <2>3, <3>1, <3>2 DEF Opened, AtHost, Behind
  <2>5. QED
    BY <2>2, <2>3, <2>4 DEF Progress
<1>9. CASE Co!LastHop
  <2>1. Hopping /\ count = Co!N - 1 /\ count > 0
    BY <1>1, <1>9 DEF Co!LastHop, Progress, Hopping
  <2>2. /\ state = {"INITIAL"} /\ (AllGood => result)
        /\ result => at = Co!N /\ fd = "connected" /\ Behind(Co!N - 1)
    BY <1>1, <2>1 DEF Hopping
  <2>3. /\ at' = at /\ fd' = fd /\ junk' = junk /\ result' = result /\ through' = through
        /\ Co!DoSSLClientNegotiation(state)
    BY <1>9 DEF Co!LastHop
  <2>4. Co!Hop = chain[Co!N]
    BY <1>1, <2>1 DEF Co!Hop
  <2>5. /\ connectPc' \in {"handshake", "done"} /\ "CONNECTING" \notin state'
        /\ result /\ chain[Co!N].type = "ssl" /\ chain[Co!N].tls = "shakes" => "SSL" \in state'
    BY <2>2, <2>3, <2>4 DEF Co!DoSSLClientNegotiation, Co!Outcomes
  <2>6. result' => Opened'
    BY <1>2, <1>3, <2>2, <2>3, <2>5 DEF Opened, Behind
  <2>7. QED
    BY <1>3, <2>2, <2>3, <2>5, <2>6 DEF Progress
<1>10. CASE Co!STREAMSocketOpen
  <2>1. result' = result /\ (result => Opened') /\ connectPc' = "returned" /\ junk' = junk
    BY <1>2, <1>3, <1>10 DEF Co!STREAMSocketOpen, Progress, Opened, Behind
  <2>2. QED
    BY <2>1 DEF Progress
<1>11. CASE Co!ProgramExits
  <2>1. /\ result' = result /\ (result => Opened') /\ connectPc' = "exited" /\ junk' = junk
    BY <1>2, <1>3, <1>11 DEF Co!ProgramExits, Progress, Opened, Behind
  <2>2. QED
    BY <2>1 DEF Progress
<1>12. QED
  BY <1>4, <1>5, <1>6, <1>7, <1>8, <1>9, <1>10, <1>11

LEMMA ConnectionGoesOn == ASSUME ConnectionInv, Co!Next PROVE ConnectionInv'
<1>1. chain' = chain /\ global' = global /\ result' \in BOOLEAN
  BY DEF ConnectionInv, Co!Next, Co!Library, Co!Const, Co!STREAMConnect, Co!IPReconnect,
     Co!NetworkAnswers, Co!STREAMWaitConnect, Co!STREAMDoPostConnect, Co!LastHop,
     Co!STREAMSocketOpen, Co!ProgramExits, Co!HopDone, Co!Proxied, Co!ConnectHopTCP,
     Co!ConnectHopTCPAgain, Co!ConnectHopHTTPSProxy, Co!ConnectHopSocks, Co!ConnectHopSSH,
     Co!ConnectHopUnknown
<1>2. Co!Supported' = Co!Supported
  BY <1>1 DEF Co!Supported, Co!N
<1>3. ASSUME Co!Supported PROVE Progress'
  BY <1>3, HopsGoOn, OthersGoOn DEF ConnectionInv, Co!Next, Co!Library
<1>4. QED
  BY <1>1, <1>2, <1>3 DEF ConnectionInv

(* A stream that was opened through a chain of proxies reaches its         *)
(* destination, and nothing was sent there yet; and it is opened if all of *)
(* the chain does what it is asked.                                        *)
THEOREM OpenReaches == NetworkSpec => []OpenReachesHost
<1> DEFINE Inv == part = "Connection" => ConnectionInv
<1>1. NetworkInit => Inv
  BY ConnectionInit
<1>2. Inv /\ [NetworkNext]_networkVars => Inv'
  <2> SUFFICES ASSUME Inv, [NetworkNext]_networkVars, part' = "Connection"
               PROVE  ConnectionInv'
    OBVIOUS
  <2>1. CASE UNCHANGED networkVars
    <3>1. UNCHANGED connectionVars /\ ConnectionInv
      BY <2>1 DEF networkVars
    <3>2. QED
      BY <3>1 DEF connectionVars, ConnectionInv, Co!Supported, Co!N, Progress, AtStart,
         Direct, AtHost, Waiting, Hopping, Opened, Behind, Co!AllDiffer, AllGood
  <2>2. CASE ConnectionNext
    BY <2>2, ConnectionGoesOn DEF ConnectionNext
  <2>3. QED
    BY <2>1, <2>2 DEF NetworkNext, HttpNext, ChunkedNext, ServerNext, SelectNext,
       WebSocketNext, SmtpNext
<1>3. Inv => OpenReachesHost
  BY DEF OpenReachesHost, ConnectionInv, Progress, Opened, Behind, AllGood,
     Co!OpenIsConnected, Co!GoodChainOpens
<1>4. QED
  BY <1>1, <1>2, <1>3, PTL DEF NetworkSpec

-----------------------------------------------------------------------------
(* HTTP.                                                                   *)

Codings == {"chunked", "gzip"}
InfoType ==
    [Method : {"GET", "POST"}, URL : URLs \union {None}, PostData : BOOLEAN,
     sends : BOOLEAN, State : SUBSET {"HTTP_HEADERS_SENT", "HTTP_CLIENTDATA_SENT"},
     Flags : SUBSET Codings, AuthFlags : SUBSET AuthFlags, Authorization : BOOLEAN,
     ProxyAuthorization : BOOLEAN, RedirectPath : URLs \union {None},
     PreviousRedirect : URLs \union {None}]
StreamType == [connected : BOOLEAN, Length : Nat \union {None}, modules : SUBSET Codings]

(* Headers are sent with a new request, and data after them.               *)
HeadersFirst ==
    /\ pc = "send" => "HTTP_HEADERS_SENT" \in Info.State
    /\ "HTTP_HEADERS_SENT" \in Info.State /\ (request = None \/ pc \in {"idle", "connect"}) =>
        "HTTP_CLIENTDATA_SENT" \in Info.State

HttpTyped ==
    /\ config \in Configs
    /\ Info \in InfoType
    /\ S \in StreamType /\ (S.connected => Info.URL \in URLs)
    /\ request \in Request \union {None}
    /\ answer \in Answer \union {None}
    /\ pc \in {"idle", "connect", "send", "read"}
    /\ call \in {"none", "HTTPTransact", "STREAMCommit"} \X BOOLEAN
    /\ calls \in Nat
    /\ HeadersFirst

(* What a request says is what the headers will say, and where to.         *)
Meant ==
    /\ Info.sends <=> Info.Method = "POST"
    /\ Info.PostData => Info.Method = "POST"
    /\ Info.Method = "POST" => config.Method = "POST" /\ (Info.PostData <=> config.PostData)

(* The data of an upload was written, or is to be, over a stream whose     *)
(* modules nothing was read for yet.                                       *)
Pending ==
    /\ Uploads /\ Info.Method = "POST" /\ Info.Flags = {}
    /\ {"HTTP_HEADERS_SENT", "HTTP_CLIENTDATA_SENT"} \subseteq Info.State

AsMeant ==
    request # None =>
        /\ request.URL = Info.URL /\ request.Method = Info.Method
        /\ request.sends <=> Info.sends
        /\ S.modules = {}
        /\ S.connected \/ config.fails

(* What was sent of a request at each step of HTTPTransact.                *)
Stage ==
    /\ pc = "idle" => IF request = None THEN Info.State = {} ELSE Pending
    /\ pc = "connect" => IF request = None THEN Info.State = {} ELSE Pending /\ request.data
    /\ pc = "send" =>
        /\ S.connected
        /\ \/ Pending /\ request = None /\ config.fails
           \/ Pending /\ request # None /\ request.data
           \/ /\ request # None /\ ~request.data
              /\ "HTTP_CLIENTDATA_SENT" \notin Info.State
              /\ "HTTP_HEADERS_SENT" \in Info.State
    /\ pc = "read" =>
        /\ S.connected
        /\ \/ Pending /\ request = None /\ config.fails
           \/ request # None /\ (request.data <=> request.sends)
    /\ pc # "idle" \/ request # None => calls >= 1

(* An upload was committed when it ends, and its method changes only for   *)
(* one that sends nothing.                                                 *)
Uploading ==
    /\ Uploads /\ Info.Method = "POST" /\ Info.Flags # {} =>
        pc = "idle" /\ request = None /\ calls >= config.calls
    /\ call[1] = "STREAMCommit" => Uploads
    /\ call[1] = "STREAMCommit" /\ Info.Method = "POST" /\ pc # "idle" => Pending
    /\ call[1] = "STREAMCommit" /\ call[2] /\ pc = "idle" =>
        config.fails \/ (request = None /\ answer # None)

HttpOrder == Meant /\ AsMeant /\ Stage /\ Uploading
HttpInv == ~Repeats => HttpTyped /\ HttpOrder

-----------------------------------------------------------------------------
LEMMA SiteFacts ==
    ASSUME config \in Configs
    PROVE  /\ config \in Config
           /\ \A url \in URLs : config.site[url] \in Page
           /\ config.Method \in {"GET", "POST"} /\ config.start \in URLs /\ config.calls \in Nat
<1>1. config \in Config
  BY HttpAssumption
<1>2. config.site \in [URLs -> Page]
  BY <1>1 DEF Config
<1>3. config.Method \in {"GET", "POST"} /\ config.start \in URLs /\ config.calls \in Nat
  BY <1>1 DEF Config
<1>4. \A url \in URLs : config.site[url] \in Page
  BY <1>2
<1>5. QED
  BY <1>1, <1>3, <1>4

LEMMA ConfigFlags ==
    ASSUME config \in Configs
    PROVE  config.PostData \in BOOLEAN /\ config.fails \in BOOLEAN
           /\ config.password \in BOOLEAN /\ config.oauth \in BOOLEAN
<1>1. config \in Config
  BY HttpAssumption
<1>2. QED
  BY <1>1 DEF Config

(* What a server answers; and an upload that does not repeat is answered   *)
(* by a document or told to go elsewhere without it.                       *)
LEMMA ResponseFacts ==
    ASSUME config \in Configs, NEW r \in Request
    PROVE  /\ Response(r) \in Answer
           /\ Uploads /\ ~Repeats => Response(r).code \in {"200", "404", "303"}
<1> DEFINE page == config.site[r.URL]
<1>1. r.URL \in URLs
  BY DEF Request
<1>2. page \in Page
  BY <1>1, SiteFacts
<1>3. \A code \in {"401", "407"} : Asks(code) \in Answer
  BY DEF Asks, Answer
<1> DEFINE given == [code |-> page.code, Location |-> page.Location, Length |-> page.Length,
                     coded |-> page.coded, body |-> page.body]
<1>4. given \in Answer /\ given.code = page.code
  <2> HIDE DEF page
  <2>1. /\ page.code \in Codes /\ page.Location \in URLs \union {None}
        /\ page.Length \in Nat \union {None}
        /\ page.coded \in SUBSET {"chunked", "gzip"} /\ page.body \in Nat
    BY <1>2 DEF Page
  <2>2. QED
    BY <2>1 DEF Answer
<1>5. Response(r) \in {Asks("401"), Asks("407"), given}
  BY DEF Response
<1>6. Uploads /\ ~Repeats => Response(r) = given /\ page.code # "307"
  BY <1>1 DEF Response, Repeats
<1>7. page.code \in {"200", "404", "303", "307"}
  BY <1>2 DEF Page, Codes
<1> HIDE DEF given, page
<1>8. QED
  BY <1>3, <1>4, <1>5, <1>6, <1>7

(* Steps that leave the HTTPInfoStruct leave what it says.                 *)
SameInfo ==
    /\ Info'.Method = Info.Method /\ Info'.URL = Info.URL /\ Info'.Flags = Info.Flags
    /\ Info'.PostData <=> Info.PostData
    /\ Info'.sends <=> Info.sends

LEMMA HeadersSent ==
    ASSUME Info \in InfoType, config \in Configs, NEW s \in StreamType,
           HTTPSendHeaders(Info, s), Info.URL \in URLs
    PROVE  /\ Info' \in InfoType /\ SameInfo
           /\ Info'.State = Info.State \union {"HTTP_HEADERS_SENT"}
           /\ S' \in StreamType /\ S'.modules = {} /\ (S'.connected <=> s.connected)
           /\ request' \in Request /\ request' # None
           /\ request'.URL = Info.URL /\ request'.Method = Info.Method
           /\ request'.sends <=> Info.sends
           /\ ~request'.data
<1>1. Info' = [Info EXCEPT !.State = @ \union {"HTTP_HEADERS_SENT"},
                           !.Authorization = @ \/ config.oauth]
  BY DEF HTTPSendHeaders
<1>2. S' = [s EXCEPT !.modules = {}]
  BY DEF HTTPSendHeaders, STREAMClearDataProcessors
<1>3. request' = [URL |-> Info.URL, Method |-> Info.Method, data |-> FALSE,
                  sends |-> Info.sends, auth |-> config.password,
                  proxy |-> Info.ProxyAuthorization /\ config.password /\ ~config.oauth]
  BY DEF HTTPSendHeaders
<1>4. Info' \in InfoType
  BY <1>1 DEF InfoType
<1>5. /\ Info'.Method = Info.Method /\ Info'.URL = Info.URL /\ Info'.Flags = Info.Flags
      /\ Info'.State = Info.State \union {"HTTP_HEADERS_SENT"}
  BY <1>1 DEF InfoType
<1>6. Info'.PostData <=> Info.PostData
  BY <1>1 DEF InfoType
<1>7. Info'.sends <=> Info.sends
  BY <1>1 DEF InfoType
<1>8. S' \in StreamType
  BY <1>2 DEF StreamType
<1>9. S'.modules = {}
  BY <1>2 DEF StreamType
<1>10. S'.connected <=> s.connected
  BY <1>2 DEF StreamType
<1>11. request' \in Request
  <2>1. Info.Method \in {"GET", "POST"} /\ Info.sends \in BOOLEAN
    BY DEF InfoType
  <2>2. config.password \in BOOLEAN
    BY ConfigFlags
  <2>3. (Info.ProxyAuthorization /\ config.password /\ ~config.oauth) \in BOOLEAN
    OBVIOUS
  <2>4. QED
    BY <1>3, <2>1, <2>2, <2>3 DEF Request
<1>12. request'.URL = Info.URL /\ request'.Method = Info.Method
  BY <1>3
<1>13. request'.sends <=> Info.sends
  BY <1>3
<1>14. ~request'.data
  BY <1>3
<1>15. request' # None
  BY <1>11, HttpAssumption
<1>16. QED
  BY <1>4, <1>5, <1>6, <1>7, <1>8, <1>9, <1>10, <1>11, <1>12, <1>13, <1>14, <1>15 DEF SameInfo

(* The result of a call that went wrong is NULL.                           *)
LEMMA NullReturned ==
    ASSUME HttpTyped, pc = "connect", ReturnNULL, UNCHANGED <<config, copied, calls>>
    PROVE  HttpTyped' /\ (HttpOrder => HttpOrder')
<1>1. pc' = "idle" /\ call' = <<call[1], FALSE>> /\ UNCHANGED <<config, Info, S, request, answer, calls>>
  BY DEF ReturnNULL
<1>2. call' \in {"none", "HTTPTransact", "STREAMCommit"} \X BOOLEAN
  BY <1>1 DEF HttpTyped
<1>3. HttpTyped'
  BY <1>1, <1>2 DEF HttpTyped, HeadersFirst
<1>4. call'[1] = call[1] /\ ~call'[2]
  BY <1>1
<1>5. ASSUME HttpOrder PROVE HttpOrder'
  BY <1>1, <1>4, <1>5 DEF HttpOrder, Meant, AsMeant, Stage, Uploading, Pending, Uploads
<1>6. QED
  BY <1>3, <1>5

LEMMA ConnectNext ==
    ASSUME HttpTyped, HTTPConnect
    PROVE  HttpTyped' /\ (HttpOrder => HttpOrder')
<1> DEFINE s == HTTPSetupConnection(S)
<1>1. s \in StreamType
  BY DEF HTTPSetupConnection, StreamType, HttpTyped
<1>2. s.connected
  BY DEF HTTPSetupConnection, StreamType, HttpTyped
<1>3. s.modules = S.modules
  BY DEF HTTPSetupConnection, StreamType, HttpTyped
<1>4. pc = "connect" /\ UNCHANGED <<config, copied, calls>>
  BY DEF HTTPConnect
<1>9. ASSUME S.connected \/ Info.URL # None PROVE Info.URL \in URLs
  BY <1>9 DEF HttpTyped, InfoType
<1>5. CASE ReturnNULL
  BY <1>4, <1>5, NullReturned
<1>6. CASE /\ pc' = "send" /\ UNCHANGED call
           /\ S.connected \/ Info.URL # None
           /\ "HTTP_HEADERS_SENT" \in Info.State /\ S' = s
           /\ request' = IF S.connected THEN request ELSE None
           /\ UNCHANGED <<Info, answer>>
  <2>1. HttpTyped'
    <3>1. S' \in StreamType /\ request' \in Request \union {None}
      BY <1>1, <1>6 DEF HttpTyped
    <3>2. S'.connected => Info'.URL \in URLs
      BY <1>6, <1>9
    <3>3. QED
      BY <1>4, <1>6, <3>1, <3>2 DEF HttpTyped, HeadersFirst
  <2>2. ASSUME HttpOrder PROVE HttpOrder'
    <3> HIDE DEF s
    <3>1. request # None /\ Pending /\ request.data /\ calls >= 1
      BY <1>4, <1>6, <2>2 DEF HttpOrder, Stage
    <3>2. Info.URL \in URLs
      BY <1>6, <1>9
    <3>3. S'.connected /\ S'.modules = {}
      BY <1>2, <1>3, <1>6, <2>2, <3>1 DEF HttpOrder, AsMeant
    <3>4. request' = request \/ (request' = None /\ config.fails)
      BY <1>6, <2>2, <3>1 DEF HttpOrder, AsMeant
    <3>5. Pending'
      BY <1>4, <1>6, <3>1 DEF Pending, Uploads
    <3>6. Meant'
      BY <1>4, <1>6, <2>2, <3>2 DEF HttpOrder, Meant
    <3>7. AsMeant'
      BY <1>4, <1>6, <2>2, <3>3, <3>4 DEF HttpOrder, AsMeant
    <3>8. Stage'
      BY <1>4, <1>6, <3>1, <3>3, <3>4, <3>5 DEF Stage
    <3>9. Uploading'
      BY <1>4, <1>6, <2>2, <3>5 DEF HttpOrder, Uploading, Uploads, Pending
    <3>10. QED
      BY <3>6, <3>7, <3>8, <3>9 DEF HttpOrder
  <2>3. QED
    BY <2>1, <2>2
<1>7. CASE /\ pc' = "send" /\ UNCHANGED call
           /\ S.connected \/ Info.URL # None
           /\ "HTTP_HEADERS_SENT" \notin Info.State
           /\ HTTPSendHeaders(Info, s) /\ answer' = None
  <2> HIDE DEF s
  <2>0. config \in Configs /\ Info \in InfoType
    BY DEF HttpTyped
  <2>1. CASE Info.URL \in URLs
    <3>1. /\ Info' \in InfoType /\ SameInfo
          /\ Info'.State = Info.State \union {"HTTP_HEADERS_SENT"}
          /\ S' \in StreamType /\ S'.modules = {} /\ (S'.connected <=> s.connected)
          /\ request' \in Request /\ request' # None
          /\ request'.URL = Info.URL /\ request'.Method = Info.Method
          /\ request'.sends <=> Info.sends
          /\ ~request'.data
      BY <1>1, <1>7, <2>0, <2>1, HeadersSent
    <3>2. HttpTyped'
      BY <1>4, <1>7, <2>1, <3>1 DEF HttpTyped, SameInfo, HeadersFirst
    <3>3. ASSUME HttpOrder PROVE HttpOrder'
      <4>1. request = None /\ Info.State = {} /\ calls >= 1
        BY <1>4, <1>7, <3>3 DEF HttpOrder, Stage, Pending
      <4>2. Meant'
        BY <1>4, <2>1, <3>1, <3>3 DEF HttpOrder, Meant, SameInfo
      <4>3. AsMeant'
        BY <1>2, <3>1 DEF AsMeant, SameInfo
      <4>4. Stage'
        BY <1>2, <1>4, <1>7, <3>1, <4>1 DEF Stage
      <4>5. Uploading'
        BY <1>4, <1>7, <3>1, <3>3 DEF HttpOrder, Uploading, Uploads, Pending, SameInfo
      <4>6. QED
        BY <4>2, <4>3, <4>4, <4>5 DEF HttpOrder
    <3>4. QED
      BY <3>2, <3>3
  <2>2. QED
    BY <1>7, <1>9, <2>1
<1>8. QED
  BY <1>4, <1>5, <1>6, <1>7 DEF HTTPConnect

(* Returning, HTTPTransact has the modules that the flags call for.        *)
LEMMA Returned ==
    ASSUME S \in StreamType, NEW s \in StreamType, Info' \in InfoType, Return(s)
    PROVE  /\ S' \in StreamType /\ S'.modules = s.modules \union Info'.Flags
           /\ S'.connected <=> s.connected
           /\ call' = <<call[1], TRUE>> /\ pc' = "idle"
<1>1. S' = [s EXCEPT !.modules = @ \union Info'.Flags]
  BY DEF Return, HTTPTransactSetupDataProcessors
<1>2. Info'.Flags \in SUBSET Codings
  BY DEF InfoType
<1>3. s.modules \in SUBSET Codings
  BY DEF StreamType
<1>4. s.modules \union Info'.Flags \in SUBSET Codings
  BY <1>2, <1>3
<1> DEFINE ms == s.modules \union Info'.Flags
<1>5. S' = [s EXCEPT !.modules = ms] /\ ms \in SUBSET Codings
  BY <1>1, <1>4
<1> HIDE DEF ms
<1>6. S' \in StreamType
  BY <1>5 DEF StreamType
<1>7. S'.modules = ms
  BY <1>5 DEF StreamType
<1>8. S'.connected <=> s.connected
  BY <1>5 DEF StreamType
<1>9. call' = <<call[1], TRUE>> /\ pc' = "idle"
  BY DEF Return
<1>10. QED
  BY <1>6, <1>7, <1>8, <1>9 DEF ms

LEMMA DataNext ==
    ASSUME HttpTyped, ClientData
    PROVE  HttpTyped' /\ (HttpOrder => HttpOrder')
<1>1. pc = "send" /\ UNCHANGED <<config, answer, copied, calls>>
  BY DEF ClientData
<1>2. Info' = [Info EXCEPT !.State = @ \union {"HTTP_CLIENTDATA_SENT"}]
  BY DEF ClientData
<1>3. Info \in InfoType /\ S \in StreamType
  BY DEF HttpTyped
<1>4. Info' \in InfoType
  BY <1>2, <1>3 DEF InfoType
<1>5. /\ Info'.Method = Info.Method /\ Info'.URL = Info.URL /\ Info'.Flags = Info.Flags
      /\ Info'.State = Info.State \union {"HTTP_CLIENTDATA_SENT"}
  BY <1>2, <1>3 DEF InfoType
<1>6. Info'.PostData <=> Info.PostData
  BY <1>2, <1>3 DEF InfoType
<1>7. Info'.sends <=> Info.sends
  BY <1>2, <1>3 DEF InfoType
<1>8. Info.Method \in {"GET", "POST"} /\ Info.Flags \in SUBSET Codings
  BY <1>3 DEF InfoType
<1>9. HttpOrder => Meant'
  BY <1>1, <1>5, <1>6, <1>7 DEF HttpOrder, Meant
<1>10. Pending => Pending'
  BY <1>1, <1>5 DEF Pending, Uploads
<1>11. ASSUME pc' = "read", UNCHANGED <<S, call>>, request' \in Request \union {None},
              HttpOrder => /\ request' # None =>
                              /\ request # None
                              /\ request'.URL = request.URL /\ request'.Method = request.Method
                              /\ request'.sends <=> request.sends
                           /\ \/ Pending /\ request' = None /\ config.fails
                              \/ request' # None /\ (request'.data <=> request'.sends)
       PROVE  HttpTyped' /\ (HttpOrder => HttpOrder')
  <2>1. HttpTyped'
    BY <1>1, <1>4, <1>5, <1>11 DEF HttpTyped, HeadersFirst
  <2>2. ASSUME HttpOrder PROVE HttpOrder'
    <3>1. AsMeant'
      BY <1>1, <1>5, <1>7, <1>11, <2>2 DEF HttpOrder, AsMeant
    <3>2. Stage'
      BY <1>1, <1>10, <1>11, <2>2 DEF HttpOrder, Stage
    <3>3. Uploading'
      BY <1>1, <1>5, <1>10, <1>11, <2>2 DEF HttpOrder, Uploading, Uploads
    <3>4. QED
      BY <1>9, <2>2, <3>1, <3>2, <3>3 DEF HttpOrder
  <2>3. QED
    BY <2>1, <2>2
<1>12. CASE "HTTP_CLIENTDATA_SENT" \in Info.State \/ (~Info.PostData /\ Info.Method = "GET")
  <2>1. pc' = "read" /\ UNCHANGED <<S, request, call>>
    BY <1>12 DEF ClientData
  <2>2. request' \in Request \union {None}
    BY <2>1 DEF HttpTyped
  <2>3. ASSUME HttpOrder
        PROVE  /\ request' # None =>
                  /\ request # None
                  /\ request'.URL = request.URL /\ request'.Method = request.Method
                  /\ request'.sends <=> request.sends
               /\ \/ Pending /\ request' = None /\ config.fails
                  \/ request' # None /\ (request'.data <=> request'.sends)
    BY <1>1, <1>12, <2>1, <2>3 DEF HttpOrder, Stage, AsMeant, Meant, Pending
  <2>4. QED
    BY <1>11, <2>1, <2>2, <2>3
<1>13. CASE /\ "HTTP_CLIENTDATA_SENT" \notin Info.State /\ Info.PostData
            /\ request # None
  <2>1. pc' = "read" /\ UNCHANGED <<S, call>> /\ request' = [request EXCEPT !.data = TRUE]
    BY <1>13 DEF ClientData
  <2>2. request \in Request
    BY <1>13 DEF HttpTyped
  <2>3. request' \in Request
    BY <2>1, <2>2 DEF Request
  <2>4. request' # None
    BY <2>3, HttpAssumption
  <2>5. request'.URL = request.URL /\ request'.Method = request.Method
    BY <2>1, <2>2 DEF Request
  <2>6. request'.sends <=> request.sends
    BY <2>1, <2>2 DEF Request
  <2>7. request'.data
    BY <2>1, <2>2 DEF Request
  <2>8. HttpOrder => request.sends
    BY <1>13 DEF HttpOrder, AsMeant, Meant
  <2>9. QED
    BY <1>11, <1>13, <2>1, <2>3, <2>4, <2>5, <2>6, <2>7, <2>8
<1>14. CASE /\ "HTTP_CLIENTDATA_SENT" \notin Info.State /\ ~Info.PostData
            /\ Info.Method # "GET"
  <2>1. Return(S) /\ UNCHANGED request
    BY <1>14 DEF ClientData
  <2>2. /\ S' \in StreamType /\ S'.modules = S.modules \union Info'.Flags
        /\ S'.connected <=> S.connected
        /\ call' = <<call[1], TRUE>> /\ pc' = "idle"
    BY <1>3, <1>4, <2>1, Returned
  <2>3. HttpTyped'
    <3>1. call' \in {"none", "HTTPTransact", "STREAMCommit"} \X BOOLEAN
      BY <2>2 DEF HttpTyped
    <3>2. QED
      BY <1>1, <1>4, <1>5, <2>1, <2>2, <3>1 DEF HttpTyped, HeadersFirst
  <2>4. ASSUME HttpOrder PROVE HttpOrder'
    <3>1. Info.Method = "POST" /\ Uploads
      BY <1>8, <1>14, <2>4 DEF HttpOrder, Meant, Uploads
    <3>2. Info.Flags = {}
      BY <1>1, <2>4, <3>1 DEF HttpOrder, Uploading
    <3>3. /\ request # None /\ ~request.data /\ "HTTP_HEADERS_SENT" \in Info.State
          /\ S.connected /\ calls >= 1
      BY <1>1, <1>14, <2>4 DEF HttpOrder, Stage, Pending
    <3>4. Pending'
      BY <1>1, <1>5, <3>1, <3>2, <3>3 DEF Pending, Uploads
    <3>5. AsMeant'
      BY <1>1, <1>5, <1>7, <2>1, <2>2, <2>4, <3>2, <3>3 DEF HttpOrder, AsMeant
    <3>6. Stage'
      BY <1>1, <2>1, <2>2, <3>3, <3>4 DEF Stage
    <3>7. call[1] # "STREAMCommit"
      BY <1>1, <1>14, <2>4, <3>1 DEF HttpOrder, Uploading, Pending
    <3>8. Uploading'
      <4>1. call'[1] = call[1]
        BY <2>2
      <4>2. QED
        BY <1>5, <3>2, <3>7, <4>1 DEF Uploading
    <3>9. QED
      BY <1>9, <2>4, <3>5, <3>6, <3>8 DEF HttpOrder
  <2>5. QED
    BY <2>3, <2>4
<1>15. "HTTP_CLIENTDATA_SENT" \notin Info.State => request # None
  BY <1>1 DEF HttpTyped, HeadersFirst
<1>16. QED
  BY <1>8, <1>12, <1>13, <1>14, <1>15

(* What the headers of an answer change, over a fresh state.               *)
LEMMA HeadersRead ==
    ASSUME Info \in InfoType, NEW r \in Answer, NEW read,
           read = HTTPReadHeaders(FreshState(Info), r)
    PROVE  /\ read \in InfoType /\ read.State = {}
           /\ read.Method = Info.Method /\ read.URL = Info.URL
           /\ read.PostData <=> Info.PostData
           /\ read.sends <=> Info.sends
<1> DEFINE fresh == FreshState(Info)
<1>1. fresh \in InfoType
  BY DEF FreshState, InfoType
<1>2. fresh.State = {} /\ fresh.Method = Info.Method /\ fresh.URL = Info.URL
  BY DEF FreshState, InfoType
<1>3. fresh.PostData <=> Info.PostData
  BY DEF FreshState, InfoType
<1>4. fresh.sends <=> Info.sends
  BY DEF FreshState, InfoType
<1>5. /\ r.coded \in SUBSET Codings /\ r.Location \in URLs \union {None}
      /\ r.code \in Codes \union {"401", "407"}
  BY DEF Answer, Codings
<1>6. read = [fresh EXCEPT !.Flags = r.coded, !.RedirectPath = r.Location,
                           !.Authorization = @ \/ r.code = "401",
                           !.ProxyAuthorization = @ \/ r.code = "407"]
  BY DEF HTTPReadHeaders
<1> HIDE DEF fresh
<1>7. read \in InfoType
  BY <1>1, <1>5, <1>6 DEF InfoType
<1>8. read.State = fresh.State /\ read.Method = fresh.Method /\ read.URL = fresh.URL
  BY <1>1, <1>6 DEF InfoType
<1>9. read.PostData <=> fresh.PostData
  BY <1>1, <1>6 DEF InfoType
<1>10. read.sends <=> fresh.sends
  BY <1>1, <1>6 DEF InfoType
<1>11. QED
  BY <1>2, <1>3, <1>4, <1>7, <1>8, <1>9, <1>10

LEMMA ValuesTyped ==
    ASSUME S \in StreamType, NEW r \in Answer
    PROVE  /\ Values(S, r) \in StreamType
           /\ Values(S, r).connected <=> S.connected
<1> DEFINE long == IF r.Length # None THEN r.Length ELSE S.Length
<1>1. long \in Nat \union {None}
  BY DEF StreamType, Answer
<1>2. Values(S, r) = [S EXCEPT !.Length = long]
  BY DEF Values, StreamType
<1> HIDE DEF long
<1>3. Values(S, r) \in StreamType
  BY <1>1, <1>2 DEF StreamType
<1>4. Values(S, r).connected <=> S.connected
  BY <1>1, <1>2 DEF StreamType
<1>5. QED
  BY <1>3, <1>4

(* A redirection to another place: with the same method, or with GET and   *)
(* nothing to send.                                                        *)
LEMMA RedirectedTo ==
    ASSUME NEW read \in InfoType, NEW r \in Answer, NEW moved, moved = Redirected(read, r)
    PROVE  /\ moved \in InfoType /\ moved.State = read.State
           /\ \/ moved.Method = "GET" /\ ~moved.PostData /\ ~moved.sends
              \/ /\ r.code # "303" /\ moved.Method = read.Method
                 /\ moved.PostData <=> read.PostData
                 /\ moved.sends <=> read.sends
<1> DEFINE m == [read EXCEPT !.PreviousRedirect = read.RedirectPath, !.URL = read.RedirectPath]
           g == [m EXCEPT !.Method = "GET", !.PostData = FALSE, !.sends = FALSE]
<1>1. m \in InfoType
  BY DEF InfoType
<1>2. m.State = read.State /\ m.Method = read.Method
  BY DEF InfoType
<1>3. m.PostData <=> read.PostData
  BY DEF InfoType
<1>4. m.sends <=> read.sends
  BY DEF InfoType
<1>5. moved = IF r.code # "303" THEN m ELSE g
  BY DEF Redirected
<1> HIDE DEF m
<1>6. g \in InfoType
  BY <1>1 DEF InfoType
<1>7. g.State = m.State /\ g.Method = "GET"
  BY <1>1 DEF InfoType
<1>8. ~g.PostData
  BY <1>1 DEF InfoType
<1>9. ~g.sends
  BY <1>1 DEF InfoType
<1> HIDE DEF g
<1>10. QED
  BY <1>1, <1>2, <1>3, <1>4, <1>5, <1>6, <1>7, <1>8, <1>9

(* Asked to authenticate, it goes round with the same request.             *)
LEMMA AskedTo ==
    ASSUME NEW read \in InfoType, NEW asked,
           asked = [read EXCEPT !.AuthFlags = @ \union {"HTTP_AUTH_RETURN"}]
    PROVE  /\ asked \in InfoType /\ asked.State = read.State /\ asked.Method = read.Method
           /\ asked.PostData <=> read.PostData
           /\ asked.sends <=> read.sends
<1>1. asked \in InfoType
  BY DEF InfoType, AuthFlags
<1>2. asked.State = read.State /\ asked.Method = read.Method
  BY DEF InfoType
<1>3. asked.PostData <=> read.PostData
  BY DEF InfoType
<1>4. asked.sends <=> read.sends
  BY DEF InfoType
<1>5. QED
  BY <1>1, <1>2, <1>3, <1>4

(* Round again, with nothing sent yet.                                     *)
LEMMA GoesRound ==
    ASSUME HttpTyped, pc = "read", NEW info \in InfoType, info.State = {},
           NEW s \in StreamType, Again(info, s), answer' \in Answer,
           UNCHANGED <<config, copied, calls>>,
           HttpOrder => /\ info.sends <=> info.Method = "POST"
                        /\ info.PostData => info.Method = "POST"
                        /\ info.Method = "POST" =>
                             Info.Method = "POST" /\ ~Uploads /\ (info.PostData <=> Info.PostData)
    PROVE  HttpTyped' /\ (HttpOrder => HttpOrder')
<1>1. Info' = info /\ pc' = "connect" /\ request' = None /\ UNCHANGED call
  BY DEF Again
<1>2. S' = [s EXCEPT !.connected = FALSE]
  BY DEF Again
<1>3. S' \in StreamType
  BY <1>2 DEF StreamType
<1>4. ~S'.connected
  BY <1>2 DEF StreamType
<1>5. HttpTyped'
  BY <1>1, <1>3, <1>4 DEF HttpTyped, HeadersFirst
<1>6. ASSUME HttpOrder PROVE HttpOrder'
  <2>1. Meant'
    BY <1>1, <1>6 DEF HttpOrder, Meant
  <2>2. AsMeant'
    BY <1>1 DEF AsMeant
  <2>3. Stage'
    BY <1>1, <1>6 DEF HttpOrder, Stage
  <2>4. Uploading'
    <3>1. Info'.Method = "POST" => ~Uploads'
      BY <1>1, <1>6 DEF Uploads
    <3>2. call[1] = "STREAMCommit" => Uploads'
      BY <1>6 DEF HttpOrder, Uploading, Uploads
    <3>3. QED
      BY <1>1, <3>1, <3>2 DEF Uploading
  <2>5. QED
    BY <2>1, <2>2, <2>3, <2>4 DEF HttpOrder
<1>7. QED
  BY <1>5, <1>6

(* The transaction returns, with an answer unless the server closed.       *)
LEMMA RoundReturns ==
    ASSUME HttpTyped, pc = "read", NEW info \in InfoType, info.State = {},
           info.Method = Info.Method, info.URL = Info.URL,
           NEW s \in StreamType, s.connected <=> S.connected,
           info.PostData <=> Info.PostData, info.sends <=> Info.sends,
           Info' = info, Return(s), request' = None, answer' \in Answer \union {None},
           UNCHANGED <<config, copied, calls>>,
           HttpOrder =>
             /\ info.Flags = {} \/ (Uploads => calls >= config.calls)
             /\ config.fails \/ answer' # None
    PROVE  HttpTyped' /\ (HttpOrder => HttpOrder')
<1>1. /\ S' \in StreamType /\ (S'.connected <=> s.connected)
      /\ call' = <<call[1], TRUE>> /\ pc' = "idle"
  <2>1. S \in StreamType /\ Info' \in InfoType
    BY DEF HttpTyped
  <2>2. QED
    BY <2>1, Returned
<1>2. HttpTyped'
  <2>1. call' \in {"none", "HTTPTransact", "STREAMCommit"} \X BOOLEAN
    BY <1>1 DEF HttpTyped
  <2>2. S'.connected => Info'.URL \in URLs
    BY <1>1 DEF HttpTyped
  <2>3. QED
    BY <1>1, <2>1, <2>2 DEF HttpTyped, HeadersFirst
<1>3. ASSUME HttpOrder PROVE HttpOrder'
  <2>1. Meant'
    BY <1>3 DEF HttpOrder, Meant
  <2>2. AsMeant'
    BY DEF AsMeant
  <2>3. Stage'
    BY <1>1 DEF Stage
  <2>4. Uploading'
    <3>1. call'[1] = call[1]
      BY <1>1
    <3>2. call[1] = "STREAMCommit" => Uploads'
      BY <1>3 DEF HttpOrder, Uploading, Uploads
    <3>3. Uploads' <=> Uploads
      BY DEF Uploads
    <3>4. QED
      BY <1>1, <1>3, <3>1, <3>2, <3>3 DEF Uploading
  <2>5. QED
    BY <2>1, <2>2, <2>3, <2>4 DEF HttpOrder
<1>4. QED
  BY <1>2, <1>3

LEMMA AnswerNext ==
    ASSUME PlainCalls, ~Repeats, HttpTyped, ReadResponse
    PROVE  HttpTyped' /\ (HttpOrder => HttpOrder')
<1> DEFINE r == Response(request)
           read == HTTPReadHeaders(FreshState(Info), r)
           s == Values(S, r)
<1>1. /\ pc = "read" /\ request # None /\ UNCHANGED <<config, copied, calls>>
      /\ answer' = r /\ Process(r)
  BY DEF ReadResponse
<1>2. /\ request \in Request /\ config \in Configs /\ Info \in InfoType /\ S \in StreamType
      /\ calls \in Nat
  BY <1>1 DEF HttpTyped
<1>3. r \in Answer
  BY <1>2, ResponseFacts
<1>4. Uploads => r.code \in {"200", "404", "303"}
  BY <1>2, ResponseFacts
<1>5. \/ /\ r.code \in {"303", "307"} /\ Again(Redirected(read, r), s)
      \/ /\ r.code \in {"401", "407"}
         /\ Again([read EXCEPT !.AuthFlags = @ \union {"HTTP_AUTH_RETURN"}], s)
      \/ Info' = read /\ Return(s) /\ request' = None
  BY <1>1 DEF Process
<1> HIDE DEF r
<1>6. /\ read \in InfoType /\ read.State = {}
      /\ read.Method = Info.Method /\ read.URL = Info.URL
      /\ read.PostData <=> Info.PostData
      /\ read.sends <=> Info.sends
  BY <1>2, <1>3, HeadersRead
<1>7. s \in StreamType /\ (s.connected <=> S.connected)
  BY <1>2, <1>3, ValuesTyped
<1>8. answer' \in Answer /\ answer' # None
  BY <1>1, <1>3, HttpAssumption
<1> HIDE DEF read, s
<1>9. CASE r.code \in {"303", "307"} /\ Again(Redirected(read, r), s)
  <2> DEFINE moved == Redirected(read, r)
  <2>1. /\ moved \in InfoType /\ moved.State = read.State
        /\ \/ moved.Method = "GET" /\ ~moved.PostData /\ ~moved.sends
           \/ /\ r.code # "303" /\ moved.Method = read.Method
              /\ moved.PostData <=> read.PostData
              /\ moved.sends <=> read.sends
    BY <1>3, <1>6, RedirectedTo
  <2>2. Again(moved, s)
    BY <1>9
  <2> HIDE DEF moved
  <2>3. HttpOrder => /\ moved.sends <=> moved.Method = "POST"
                     /\ moved.PostData => moved.Method = "POST"
                     /\ moved.Method = "POST" =>
                          Info.Method = "POST" /\ ~Uploads /\ (moved.PostData <=> Info.PostData)
    BY <1>4, <1>6, <1>9, <2>1 DEF HttpOrder, Meant
  <2>4. moved.State = {}
    BY <1>6, <2>1
  <2>5. QED
    BY <1>1, <1>7, <1>8, <2>1, <2>2, <2>3, <2>4, GoesRound
<1>10. CASE r.code \in {"401", "407"}
            /\ Again([read EXCEPT !.AuthFlags = @ \union {"HTTP_AUTH_RETURN"}], s)
  <2> DEFINE asked == [read EXCEPT !.AuthFlags = @ \union {"HTTP_AUTH_RETURN"}]
  <2>1. /\ asked \in InfoType /\ asked.State = read.State /\ asked.Method = read.Method
        /\ asked.PostData <=> read.PostData
        /\ asked.sends <=> read.sends
    BY <1>6, AskedTo
  <2>2. Again(asked, s)
    BY <1>10
  <2> HIDE DEF asked
  <2>3. HttpOrder => /\ asked.sends <=> asked.Method = "POST"
                     /\ asked.PostData => asked.Method = "POST"
                     /\ asked.Method = "POST" =>
                          Info.Method = "POST" /\ ~Uploads /\ (asked.PostData <=> Info.PostData)
    BY <1>4, <1>6, <1>10, <2>1 DEF HttpOrder, Meant
  <2>4. asked.State = {}
    BY <1>6, <2>1
  <2>5. QED
    BY <1>1, <1>7, <1>8, <2>1, <2>2, <2>3, <2>4, GoesRound
<1>11. CASE Info' = read /\ Return(s) /\ request' = None
  <2>1. Uploads /\ HttpOrder => calls >= config.calls
    <3>1. Uploads => config.calls <= 1
      BY <1>2 DEF PlainCalls, Uploads
    <3>2. HttpOrder => calls >= 1
      BY <1>1 DEF HttpOrder, Stage
    <3>3. config.calls \in Nat
      BY <1>2, SiteFacts
    <3>4. QED
      BY <1>2, <3>1, <3>2, <3>3
  <2>2. HttpOrder => /\ read.Flags = {} \/ (Uploads => calls >= config.calls)
                     /\ config.fails \/ answer' # None
    BY <1>8, <2>1
  <2>3. QED
    BY <1>1, <1>6, <1>7, <1>8, <1>11, <2>2, RoundReturns
<1>12. QED
  BY <1>5, <1>9, <1>10, <1>11

LEMMA NothingNext ==
    ASSUME HttpTyped, NoResponse
    PROVE  HttpTyped' /\ (HttpOrder => HttpOrder')
<1> DEFINE info == [FreshState(Info) EXCEPT !.Flags = {}, !.RedirectPath = None]
<1>1. /\ pc = "read" /\ (config.fails \/ request = None)
      /\ Info' = info /\ Return(S) /\ request' = None
      /\ UNCHANGED <<config, answer, copied, calls>>
  BY DEF NoResponse
<1>2. Info \in InfoType /\ S \in StreamType /\ answer \in Answer \union {None}
  BY DEF HttpTyped
<1>3. info \in InfoType
  BY <1>2 DEF FreshState, InfoType
<1>4. info.State = {} /\ info.Flags = {} /\ info.Method = Info.Method /\ info.URL = Info.URL
  BY <1>2 DEF FreshState, InfoType
<1>5. info.PostData <=> Info.PostData
  BY <1>2 DEF FreshState, InfoType
<1>6. info.sends <=> Info.sends
  BY <1>2 DEF FreshState, InfoType
<1> HIDE DEF info
<1>7. HttpOrder => config.fails
  BY <1>1 DEF HttpOrder, Stage
<1>8. HttpOrder => /\ info.Flags = {} \/ (Uploads => calls >= config.calls)
                   /\ config.fails \/ answer' # None
  BY <1>4, <1>7
<1>9. QED
  BY <1>1, <1>2, <1>3, <1>4, <1>5, <1>6, <1>8, RoundReturns

(* The program's calls.                                                    *)
LEMMA ProgramNext ==
    ASSUME HttpTyped, Program \/ ConnectionLost
    PROVE  HttpTyped' /\ (HttpOrder => HttpOrder')
<1>1. CASE HTTPTransact
  <2>1. /\ pc = "idle" /\ UNCHANGED <<config, Info, S, request, answer>>
        /\ calls < config.calls /\ request = None /\ pc' = "connect"
        /\ call' = <<"HTTPTransact", FALSE>> /\ calls' = calls + 1
    BY <1>1 DEF HTTPTransact, Idle
  <2>2. call' \in {"none", "HTTPTransact", "STREAMCommit"} \X BOOLEAN /\ calls \in Nat
        /\ config.calls \in Nat
    BY <2>1, SiteFacts DEF HttpTyped
  <2>3. HttpTyped'
    BY <2>1, <2>2 DEF HttpTyped, HeadersFirst
  <2>4. ASSUME HttpOrder PROVE HttpOrder'
    <3>1. call'[1] # "STREAMCommit"
      BY <2>1
    <3>2. ~(Uploads /\ Info.Method = "POST" /\ Info.Flags # {})
      BY <2>1, <2>2, <2>4 DEF HttpOrder, Uploading
    <3>3. Uploading'
      BY <2>1, <3>1, <3>2 DEF Uploading, Uploads
    <3>4. Stage'
      BY <2>1, <2>2, <2>4 DEF HttpOrder, Stage
    <3>5. QED
      BY <2>1, <2>4, <3>3, <3>4 DEF HttpOrder, Meant, AsMeant
  <2>5. QED
    BY <2>3, <2>4
<1>2. CASE STREAMWriteBytes
  <2>1. /\ pc = "idle" /\ UNCHANGED <<config, Info, S, answer, pc, call, calls>>
        /\ request # None /\ request' = [request EXCEPT !.data = TRUE]
    BY <1>2 DEF STREAMWriteBytes, Idle
  <2>2. request \in Request
    BY <2>1 DEF HttpTyped
  <2>3. request' \in Request
    BY <2>1, <2>2 DEF Request
  <2>4. request' # None
    BY <2>3, HttpAssumption
  <2>5. request'.URL = request.URL /\ request'.Method = request.Method
    BY <2>1, <2>2 DEF Request
  <2>6. request'.sends <=> request.sends
    BY <2>1, <2>2 DEF Request
  <2>7. HttpTyped'
    BY <2>1, <2>3, <2>4 DEF HttpTyped, HeadersFirst
  <2>8. ASSUME HttpOrder PROVE HttpOrder'
    <3>1. AsMeant'
      BY <2>1, <2>4, <2>5, <2>6, <2>8 DEF HttpOrder, AsMeant
    <3>2. Stage'
      BY <2>1, <2>4, <2>8 DEF HttpOrder, Stage, Pending, Uploads
    <3>3. Uploading'
      BY <2>1, <2>4, <2>8 DEF HttpOrder, Uploading, Pending, Uploads
    <3>4. QED
      BY <2>1, <2>8, <3>1, <3>2, <3>3 DEF HttpOrder, Meant
  <2>9. QED
    BY <2>7, <2>8
<1>3. CASE STREAMCommit
  <2>1. /\ pc = "idle" /\ UNCHANGED <<config, Info, S, answer, request, calls>>
        /\ request # None /\ request.data /\ pc' = "connect"
        /\ call' = <<"STREAMCommit", FALSE>>
    BY <1>3 DEF STREAMCommit, Idle
  <2>2. call' \in {"none", "HTTPTransact", "STREAMCommit"} \X BOOLEAN
    BY <2>1
  <2>3. HttpTyped'
    BY <2>1, <2>2 DEF HttpTyped, HeadersFirst
  <2>4. ASSUME HttpOrder PROVE HttpOrder'
    <3>1. Pending /\ calls >= 1
      BY <2>1, <2>4 DEF HttpOrder, Stage
    <3>2. Pending'
      BY <2>1, <3>1 DEF Pending, Uploads
    <3>3. Uploading'
      BY <2>1, <3>1, <3>2 DEF Uploading, Pending, Uploads
    <3>4. Stage'
      BY <2>1, <3>1, <3>2 DEF Stage
    <3>5. QED
      BY <2>1, <2>4, <3>3, <3>4 DEF HttpOrder, Meant, AsMeant
  <2>5. QED
    BY <2>3, <2>4
<1>4. CASE HTTPCopyToSTREAM
  <2>1. UNCHANGED <<config, Info, S, request, answer, pc, call, calls>>
    BY <1>4 DEF HTTPCopyToSTREAM, Idle
  <2>2. QED
    BY <2>1 DEF HttpTyped, HeadersFirst, HttpOrder, Meant, AsMeant, Stage, Uploading, Pending,
       Uploads
<1>5. CASE ConnectionLost
  <2>1. /\ pc = "idle" /\ config.fails /\ UNCHANGED <<config, Info, request, answer, pc, call, calls>>
        /\ S' = [S EXCEPT !.connected = FALSE] /\ S \in StreamType
    BY <1>5 DEF ConnectionLost, HttpTyped
  <2>2. S' \in StreamType
    BY <2>1 DEF StreamType
  <2>3. ~S'.connected
    BY <2>1 DEF StreamType
  <2>4. S'.modules = S.modules
    BY <2>1 DEF StreamType
  <2>5. HttpTyped'
    BY <2>1, <2>2, <2>3 DEF HttpTyped, HeadersFirst
  <2>6. ASSUME HttpOrder PROVE HttpOrder'
    <3>1. Stage'
      BY <2>1, <2>6 DEF HttpOrder, Stage, Pending, Uploads
    <3>2. Uploading'
      BY <2>1, <2>6 DEF HttpOrder, Uploading, Pending, Uploads
    <3>3. QED
      BY <2>1, <2>4, <2>6, <3>1, <3>2 DEF HttpOrder, Meant, AsMeant
  <2>7. QED
    BY <2>5, <2>6
<1>6. QED
  BY <1>1, <1>2, <1>3, <1>4, <1>5 DEF Program

LEMMA ConfigStays == Next => UNCHANGED config
BY DEF Next, Transaction, Program, HTTPConnect, ClientData, ReadResponse, NoResponse, Idle,
   HTTPTransact, STREAMWriteBytes, STREAMCommit, HTTPCopyToSTREAM, ConnectionLost

LEMMA HttpNextKeeps ==
    ASSUME PlainCalls, HttpInv, Next
    PROVE  HttpInv'
<1>1. SUFFICES ASSUME ~Repeats' PROVE HttpTyped' /\ HttpOrder'
  BY DEF HttpInv
<1>2. ~Repeats
  BY <1>1, ConfigStays DEF Repeats, Uploads
<1>3. HttpTyped /\ HttpOrder
  BY <1>2 DEF HttpInv
<1>4. CASE Program \/ ConnectionLost
  BY <1>3, <1>4, ProgramNext
<1>5. CASE Transaction
  BY <1>2, <1>3, <1>5, ConnectNext, DataNext, AnswerNext, NothingNext DEF Transaction
<1>6. QED
  BY <1>4, <1>5 DEF Next

LEMMA HttpInit ==
    ASSUME PlainCalls, Init
    PROVE  HttpInv
<1> SUFFICES HttpTyped /\ HttpOrder
  BY DEF HttpInv
<1>1. config \in Configs
  BY DEF Init
<1> DEFINE oauth == {IF config.oauth THEN "HTTP_AUTH_OAUTH" ELSE "HTTP_AUTH_BASIC"}
<1>2. Info = [Method |-> config.Method, URL |-> config.start, PostData |-> config.PostData,
              sends |-> config.Method = "POST", State |-> {}, Flags |-> {},
              AuthFlags |-> oauth,
              Authorization |-> FALSE, ProxyAuthorization |-> FALSE,
              RedirectPath |-> None, PreviousRedirect |-> None]
  BY DEF Init
<1>3. oauth \in SUBSET AuthFlags
  BY DEF AuthFlags
<1> HIDE DEF oauth
<1>4. /\ config.Method \in {"GET", "POST"} /\ config.start \in URLs
      /\ config.PostData \in BOOLEAN
  BY <1>1, SiteFacts, ConfigFlags
<1>5. (config.Method = "POST") \in BOOLEAN
  OBVIOUS
<1>6. Info \in InfoType
  BY <1>2, <1>3, <1>4, <1>5 DEF InfoType
<1>7. Info.Method = config.Method /\ Info.URL = config.start /\ Info.State = {} /\ Info.Flags = {}
  BY <1>2
<1>8. Info.PostData <=> config.PostData
  BY <1>2, <1>4
<1>9. Info.sends <=> config.Method = "POST"
  BY <1>2
<1>10. S = [connected |-> FALSE, Length |-> None, modules |-> {}]
  BY DEF Init
<1>11. S \in StreamType
  BY <1>10 DEF StreamType
<1>12. ~S.connected
  BY <1>10
<1>13. call = <<"none", FALSE>> /\ pc = "idle" /\ request = None /\ answer = None /\ calls = 0
  BY DEF Init
<1>14. HttpTyped
  BY <1>1, <1>6, <1>7, <1>11, <1>12, <1>13 DEF HttpTyped, HeadersFirst
<1>15. Info.PostData => Info.Method = "POST"
  BY <1>1, <1>7, <1>8 DEF PlainCalls
<1>16. Meant
  BY <1>7, <1>8, <1>9, <1>15 DEF Meant
<1>17. AsMeant /\ Stage /\ Uploading
  BY <1>7, <1>13 DEF AsMeant, Stage, Uploading
<1>18. QED
  BY <1>14, <1>16, <1>17 DEF HttpOrder

(* What the invariant says of a request that was sent, and of a commit.    *)
LEMMA HttpSent ==
    ASSUME HttpInv
    PROVE  RequestIsWhole /\ CommitIsAnswered
<1>1. CASE Repeats
  BY <1>1 DEF RequestIsWhole, CommitIsAnswered
<1>2. CASE ~Repeats
  <2>1. HttpTyped /\ HttpOrder
    BY <1>2 DEF HttpInv
  <2>2. ASSUME pc = "read", request # None
        PROVE  request.data = request.sends
    <3>1. request \in Request
      BY <2>1, <2>2 DEF HttpTyped
    <3>2. request.data \in BOOLEAN /\ request.sends \in BOOLEAN
      BY <3>1 DEF Request
    <3>3. request.data <=> request.sends
      BY <2>1, <2>2 DEF HttpOrder, Stage
    <3>4. QED
      BY <3>2, <3>3
  <2>3. RequestIsWhole
    <3>1. ASSUME pc = "read", request # None
          PROVE  /\ request.URL = Info.URL /\ request.Method = Info.Method
                 /\ S.modules = {}
      BY <2>1, <3>1 DEF HttpOrder, AsMeant
    <3>2. pc = "read" /\ request = None => Uploads /\ config.fails
      BY <2>1 DEF HttpOrder, Stage, Pending
    <3>3. QED
      BY <2>2, <3>1, <3>2 DEF RequestIsWhole
  <2>4. CommitIsAnswered
    <3>1. ASSUME pc = "idle", call = <<"STREAMCommit", TRUE>>
          PROVE  config.fails \/ (request = None /\ answer # None)
      <4>1. call[1] = "STREAMCommit" /\ call[2]
        BY <3>1
      <4>2. QED
        BY <2>1, <3>1, <4>1 DEF HttpOrder, Uploading
    <3>2. QED
      BY <3>1 DEF CommitIsAnswered
  <2>5. QED
    BY <2>3, <2>4
<1>3. QED
  BY <1>1, <1>2

-----------------------------------------------------------------------------
(* WEBSOCKETS.                                                             *)

(* What is sent are frames with the header that their length and mask call *)
(* for.                                                                    *)
Frames ==
    {[header |-> We!WebSocketHeader(n, mask), len |-> n, short |-> short] :
        n \in WriteSizes, mask, short \in BOOLEAN}
WritesFrames == out \in Seq(Frames)

LEMMA WebSocketNextKeeps ==
    ASSUME WritesFrames, We!Next
    PROVE  WritesFrames'
<1>1. CASE \E n \in WriteSizes, mask, short \in BOOLEAN :
                We!WebSocketSendFrame(n, mask, short)
  <2>1. PICK n \in WriteSizes, mask, short \in BOOLEAN : We!WebSocketSendFrame(n, mask, short)
    BY <1>1
  <2> DEFINE frame == [header |-> We!WebSocketHeader(n, mask), len |-> n, short |-> short]
  <2>2. out' = Append(out, frame) /\ frame \in Frames
    BY <2>1 DEF We!WebSocketSendFrame, Frames
  <2> HIDE DEF frame
  <2>3. QED
    BY <2>2 DEF WritesFrames
<1>2. CASE We!PeerSends \/ We!PeerCloses \/ We!WebSocketReadBytes
  BY <1>2 DEF We!PeerSends, We!PeerCloses, We!WebSocketReadBytes, We!ReadHeader, We!ReadData,
     We!ReadMessageEnd, We!ReadHeaderAtEnd, We!ReadDataAtEnd, WritesFrames
<1>3. QED
  BY <1>1, <1>2 DEF We!Next

LEMMA FrameDecodes ==
    ASSUME WritesFrames
    PROVE  We!SentDecodes
<1> SUFFICES ASSUME NEW i \in DOMAIN out
             PROVE  LET h == out[i].header
                        n == IF h[1] >= Bit THEN h[1] - Bit ELSE h[1] IN
                    /\ n <= We!Ext
                    /\ out[i].len = IF n = We!Ext THEN h[2] ELSE n
                    /\ Len(h) = IF n = We!Ext THEN 2 ELSE 1
  BY DEF We!SentDecodes
<1>1. out[i] \in Frames
  BY DEF WritesFrames
<1>2. PICK n \in WriteSizes, mask, short \in BOOLEAN :
        out[i] = [header |-> We!WebSocketHeader(n, mask), len |-> n, short |-> short]
  BY <1>1 DEF Frames
<1> DEFINE h == out[i].header
<1>3. h = We!WebSocketHeader(n, mask) /\ out[i].len = n
  BY <1>2
<1>4. /\ n \in Nat /\ n < Wide /\ Basic \in Nat /\ Bit \in Nat /\ We!Ext < Bit /\ Wide \in Nat
      /\ We!Ext = Basic + 1
  BY NetworkAssumption DEF We!WebSocketAssumption, We!Ext, We!Ext64
<1> DEFINE first == (IF n > Basic THEN We!Ext ELSE n) + (IF mask THEN Bit ELSE 0)
<1>5. first >= Bit <=> mask
  BY <1>4
<1>6. (IF first >= Bit THEN first - Bit ELSE first) = IF n > Basic THEN We!Ext ELSE n
  BY <1>4, <1>5
<1>7. n % Wide = n
  BY <1>4
<1>8. h = <<first>> \o (IF n > Basic THEN <<n % Wide>> ELSE << >>)
  BY <1>3 DEF We!WebSocketHeader
<1>9. first \in Int
  BY <1>4
<1> HIDE DEF first, h
<1>10. h[1] = first
  BY <1>8, <1>9
<1>11. CASE n > Basic
  <2>1. h = <<first>> \o <<n>>
    BY <1>7, <1>8, <1>11
  <2>2. Len(h) = 2 /\ h[2] = n
    BY <2>1, <1>4, <1>9
  <2>3. QED
    BY <1>3, <1>4, <1>6, <1>10, <1>11, <2>2 DEF h
<1>12. CASE ~(n > Basic)
  <2>1. h = <<first>>
    BY <1>8, <1>12
  <2>2. QED
    BY <1>3, <1>4, <1>6, <1>10, <1>12, <2>1 DEF h
<1>13. QED
  BY <1>11, <1>12

-----------------------------------------------------------------------------
(* A request reaches the server as it is meant, with all of its data and   *)
(* after each redirection and each time it is asked to authenticate; a     *)
(* commit that returns TRUE has an answer; and the header of a websocket   *)
(* frame tells the length of its data.  Uploads that are repeated or lost  *)
(* are left out, as RequestIsWhole and CommitIsAnswered have it.           *)
THEOREM SentWhole ==
    ASSUME PlainCalls
    PROVE  NetworkSpec => []SentIsWhole
<1> DEFINE Inv == /\ part = "Http" => HttpInv
                  /\ part = "WebSocket" => WritesFrames
<1>1. NetworkInit => Inv
  <2>1. ASSUME We!Init PROVE WritesFrames
    BY <2>1 DEF We!Init, WritesFrames
  <2>2. QED
    BY <2>1, HttpInit DEF NetworkInit
<1>2. Inv /\ [NetworkNext]_networkVars => Inv'
  <2> SUFFICES ASSUME Inv, [NetworkNext]_networkVars PROVE Inv'
    OBVIOUS
  <2>1. CASE UNCHANGED networkVars
    <3>1. UNCHANGED <<part, vars, out>>
      BY <2>1 DEF networkVars, webSocketVars
    <3>2. HttpInv' <=> HttpInv
      BY <3>1 DEF vars, HttpInv, HttpTyped, HeadersFirst, HttpOrder, Meant, AsMeant, Stage,
         Uploading, Pending, Uploads, Repeats
    <3>3. QED
      BY <3>1, <3>2 DEF WritesFrames
  <2>2. CASE HttpNext
    BY <2>2, HttpNextKeeps DEF HttpNext
  <2>3. CASE WebSocketNext
    BY <2>3, WebSocketNextKeeps DEF WebSocketNext
  <2>4. CASE NetworkNext /\ ~HttpNext /\ ~WebSocketNext
    BY <2>4 DEF NetworkNext, ChunkedNext, ConnectionNext, SelectNext, SmtpNext, ServerNext
  <2>5. QED
    BY <2>1, <2>2, <2>3, <2>4
<1>3. Inv => SentIsWhole
  BY HttpSent, FrameDecodes DEF SentIsWhole
<1>4. QED
  BY <1>1, <1>2, <1>3, PTL DEF NetworkSpec

-----------------------------------------------------------------------------
(* SELECTING.                                                              *)

LEMMA AppendRange ==
    ASSUME NEW R, NEW s \in Seq(R), NEW x \in R
    PROVE  Append(s, x) \in Seq(R) /\ Range(Append(s, x)) = Range(s) \union {x}
<1>1. <<x>> \in Seq(R) /\ Range(<<x>>) = {x}
  BY DEF Range
<1>2. Append(s, x) = s \o <<x>>
  BY <1>1, AppendIsConcat
<1>3. Range(s \o <<x>>) = Range(s) \union Range(<<x>>)
  BY <1>1, RangeConcatenation
<1>4. QED
  BY <1>1, <1>2, <1>3

(* Kept keeps what it says.                                                *)
LEMMA KeptFacts ==
    ASSUME NEW R, NEW seq \in Seq(R), NEW these
    PROVE  /\ Se!Kept(seq, these) \in Seq(R)
           /\ \A x : x \in Range(Se!Kept(seq, these)) <=> x \in Range(seq) /\ x \in these
<1> DEFINE n == Len(seq)
           Q == Seq(R)
           step == [p \in (1..n) \X Q |->
                      IF seq[p[1]] \in these THEN Append(p[2], seq[p[1]]) ELSE p[2]]
<1>1. n \in Nat /\ (\A i \in 1..n : seq[i] \in R /\ i - 1 \in 0..n /\ i \in 0..n)
      /\ DOMAIN seq = 1..n
  OBVIOUS
<1>2. << >> \in Q
  OBVIOUS
<1>3. /\ step \in [(1..n) \X Q -> Q]
      /\ \A i \in 1..n, q \in Q :
            step[<<i, q>>] = IF seq[i] \in these THEN Append(q, seq[i]) ELSE q
  <2>1. \A i \in 1..n, q \in Q : Append(q, seq[i]) \in Q
    BY <1>1
  <2> HIDE DEF n, Q
  <2>2. QED
    BY <2>1
<1> HIDE DEF step
<1>4. PICK f \in [0..n -> Q] : Stepwise(f, n, << >>, step)
  <2>1. n \in Nat
    BY <1>1
  <2>2. step \in [(1..n) \X Q -> Q]
    BY <1>3
  <2>3. QED
    BY <1>2, <2>1, <2>2, StepsExist
<1>5. \A i \in 1..n : f[i - 1] \in Q
  BY <1>1
<1> DEFINE F(g) == g = [i \in 0..n |->
                          IF i = 0 THEN << >>
                          ELSE IF seq[i] \in these THEN Append(g[i - 1], seq[i]) ELSE g[i - 1]]
           e == CHOOSE g : F(g)
<1>6. F(f)
  <2>1. \A i \in 1..n : step[<<i, f[i - 1]>>] =
                          IF seq[i] \in these THEN Append(f[i - 1], seq[i]) ELSE f[i - 1]
    BY <1>3, <1>5
  <2>2. \A i \in 0..n : i = 0 \/ i \in 1..n
    BY <1>1
  <2> HIDE DEF Q, n
  <2>3. QED
    BY <1>4, <2>1, <2>2 DEF Stepwise
<1>7. F(e)
  BY <1>6
<1>8. Se!Kept(seq, these) = e[n]
  BY DEF Se!Kept
<1> HIDE DEF e
<1>9. e[0] = << >>
  BY <1>1, <1>7
<1>10. \A i \in 0..n : i # 0 =>
          e[i] = IF seq[i] \in these THEN Append(e[i - 1], seq[i]) ELSE e[i - 1]
  BY <1>7
<1> HIDE DEF F
<1> DEFINE Good(i) == /\ e[i] \in Q
                      /\ \A x : x \in Range(e[i]) <=> \E j \in 1..i : x = seq[j] /\ x \in these
           T == {i \in Nat : i <= n => Good(i)}
<1>11. 0 \in T
  <2>1. Range(e[0]) = {}
    BY <1>9 DEF Range
  <2>2. Good(0)
    BY <1>2, <1>9, <2>1
  <2>3. QED
    BY <2>2
<1>12. ASSUME NEW i \in Nat, i \in T PROVE i + 1 \in T
  <2> SUFFICES ASSUME i + 1 <= n PROVE Good(i + 1)
    OBVIOUS
  <2>0. i + 1 \in 0..n /\ i + 1 \in 1..n /\ i + 1 # 0 /\ (i + 1) - 1 = i /\ i <= n
    BY <1>1
  <2>1. Good(i)
    BY <1>12, <2>0
  <2>2. e[i + 1] = IF seq[i + 1] \in these THEN Append(e[i], seq[i + 1]) ELSE e[i]
    BY <1>10, <2>0
  <2>3. seq[i + 1] \in R
    BY <1>1, <2>0
  <2>4. \A j : j \in 1..(i + 1) <=> j \in 1..i \/ j = i + 1
    OBVIOUS
  <2> HIDE DEF n
  <2>5. e[i] \in Seq(R)
    BY <2>1
  <2>6. CASE seq[i + 1] \in these
    <3> DEFINE a == Append(e[i], seq[i + 1])
    <3>1. a \in Seq(R) /\ Range(a) = Range(e[i]) \union {seq[i + 1]}
        BY <2>3, <2>5, AppendRange
    <3> HIDE DEF a
    <3>2. e[i + 1] = a
      BY <2>2, <2>6 DEF a
    <3>3. QED
      BY <2>1, <2>4, <2>6, <3>1, <3>2
  <2>7. CASE seq[i + 1] \notin these
    BY <2>1, <2>2, <2>4, <2>7
  <2>8. QED
    BY <2>6, <2>7
<1>13. n \in T
  <2> HIDE DEF T
  <2>1. Nat \subseteq T
    BY <1>11, <1>12, SetInduction
  <2>2. QED
    BY <1>1, <2>1
<1>14. Good(n)
  BY <1>1, <1>13
<1>15. \A x : x \in Range(seq) <=> \E j \in 1..n : x = seq[j]
  BY <1>1 DEF Range
<1>16. QED
  BY <1>8, <1>14, <1>15

(* What is in the list, in the epoll instance and in the set that is       *)
(* watched; while it waits nothing is buffered, and with epoll all of the  *)
(* list is waited for.  What was returned is in the list, and has          *)
(* something, until the program reads from it or closes it.                *)
SelectInv ==
    /\ list \in Seq(Watched) /\ pollset \in Seq(Watched)
    /\ added = Range(pollset) /\ added \subseteq Range(list)
    /\ buffered \in [Watched -> Nat] /\ waiting \in [Watched -> Nat]
    /\ selectPc = "wait" =>
        /\ set = Range(list)
        /\ \A s \in Range(list) : buffered[s] = 0
        /\ Se!UseEPOLL => Range(list) \subseteq added
    /\ selectPc = "returned" /\ current # Se!NoStream =>
        current \in Range(list) /\ buffered[current] + waiting[current] > 0

LEMMA ToSetIsRange == \A seq : Se!ToSet(seq) = Range(seq)
BY DEF Se!ToSet, Range

LEMMA WithoutFacts ==
    ASSUME NEW seq \in Seq(Watched), NEW x
    PROVE  /\ Se!Without(seq, x) \in Seq(Watched)
           /\ Range(Se!Without(seq, x)) = Range(seq) \ {x}
<1> DEFINE these == Range(seq) \ {x}
<1>1. Se!Without(seq, x) = Se!Kept(seq, these)
  BY ToSetIsRange DEF Se!Without
<1> HIDE DEF these
<1>2. /\ Se!Kept(seq, these) \in Seq(Watched)
      /\ \A y : y \in Range(Se!Kept(seq, these)) <=> y \in Range(seq) /\ y \in these
  BY KeptFacts
<1>3. QED
  BY <1>1, <1>2 DEF these

LEMMA MoveEndFacts ==
    ASSUME NEW seq \in Seq(Watched), NEW x \in Range(seq)
    PROVE  Se!MoveEnd(seq, x) \in Seq(Watched) /\ Range(Se!MoveEnd(seq, x)) = Range(seq)
<1>1. x \in Watched
  BY RangeOfSeq
<1>2. Se!Without(seq, x) \in Seq(Watched) /\ Range(Se!Without(seq, x)) = Range(seq) \ {x}
  BY WithoutFacts
<1>3. Se!MoveEnd(seq, x) = Append(Se!Without(seq, x), x)
  BY DEF Se!MoveEnd
<1>4. /\ Append(Se!Without(seq, x), x) \in Seq(Watched)
      /\ Range(Append(Se!Without(seq, x), x)) = Range(Se!Without(seq, x)) \union {x}
  BY <1>1, <1>2, AppendRange
<1>5. QED
  BY <1>2, <1>3, <1>4

(* The first stream with bytes in its buffer is in the list.               *)
LEMMA FirstBufferedFacts ==
    ASSUME SelectInv
    PROVE  /\ Se!Reached \subseteq Range(list)
           /\ Se!Buffered = {} => Se!Reached = Range(list) /\ \A s \in Range(list) : buffered[s] = 0
           /\ Se!Buffered # {} => /\ list[Se!FirstBuffered] \in Range(list)
                                  /\ buffered[list[Se!FirstBuffered]] > 0
<1>1. DOMAIN list = 1..Len(list) /\ Len(list) \in Nat /\ \A i \in DOMAIN list : list[i] \in Watched
  BY DEF SelectInv
<1>2. Se!Reached \subseteq Range(list)
  BY DEF Se!Reached, Range
<1>3. ASSUME Se!Buffered = {}
      PROVE  Se!Reached = Range(list) /\ \A s \in Range(list) : buffered[s] = 0
  <2>1. \A i \in DOMAIN list : ~(buffered[list[i]] > 0) /\ buffered[list[i]] \in Nat
    BY <1>1, <1>3 DEF Se!Buffered, SelectInv
  <2>2. \A i \in DOMAIN list : buffered[list[i]] = 0
    BY <2>1
  <2>3. QED
    BY <1>3, <2>2 DEF Se!Reached, Range
<1>4. ASSUME Se!Buffered # {}
      PROVE  list[Se!FirstBuffered] \in Range(list) /\ buffered[list[Se!FirstBuffered]] > 0
  <2> DEFINE B == Se!Buffered
  <2>1. B \subseteq Nat /\ B # {}
    BY <1>1, <1>4 DEF Se!Buffered
  <2>2. Se!FirstBuffered = CHOOSE i \in B : \A j \in B : i <= j
    BY DEF Se!FirstBuffered
  <2>3. \A i \in B : i \in DOMAIN list /\ buffered[list[i]] > 0
    BY DEF Se!Buffered
  <2> HIDE DEF B
  <2>4. \E i \in B : \A j \in B : i <= j
    BY <2>1, LeastElement
  <2>5. Se!FirstBuffered \in B
    BY <2>2, <2>4
  <2>6. QED
    BY <2>3, <2>5 DEF Range
<1>5. QED
  BY <1>2, <1>3, <1>4

(* What STREAMSelect returns.                                              *)
LEMMA SelectReturns ==
    ASSUME SelectInv
    PROVE  Se!ReturnsReady
<1>1. ASSUME Se!TimeOut PROVE \A s \in Se!ToSet(list) : buffered[s] + waiting[s] = 0
  <2>1. /\ selectPc = "wait"
        /\ Se!UseEPOLL => \A s \in Range(pollset) : waiting[s] = 0
        /\ ~Se!UseEPOLL => \A s \in set : waiting[s] = 0
    BY <1>1, ToSetIsRange DEF Se!TimeOut
  <2>2. \A s \in Range(list) : waiting[s] = 0 /\ buffered[s] = 0
    BY <2>1 DEF SelectInv
  <2>3. QED
    BY <2>2, ToSetIsRange
<1>2. ASSUME Se!EPOLLWait
      PROVE  /\ current' # Se!NoStream /\ current' \in Range(list)
             /\ waiting[current'] > 0
  <2>1. PICK i \in DOMAIN pollset :
          /\ waiting[pollset[i]] > 0
          /\ pollset[i] \in set => current' = pollset[i]
    BY <1>2 DEF Se!EPOLLWait
  <2>2. pollset[i] \in Range(pollset) /\ selectPc = "wait"
    BY <1>2 DEF Range, Se!EPOLLWait
  <2>3. pollset[i] \in set /\ pollset[i] \in Range(list)
    BY <2>2 DEF SelectInv
  <2>4. pollset[i] # Se!NoStream
    BY <2>3, RangeOfSeq, NetworkAssumption DEF SelectInv, Se!SelectAssumption
  <2>5. QED
    BY <2>1, <2>3, <2>4
<1>3. ASSUME Se!SelectWait
      PROVE  current' \in Range(list) /\ waiting[current'] > 0
  BY <1>3 DEF Se!SelectWait, Range
<1>4. ASSUME Se!STREAMSelectAddStreams, selectPc' = "returned"
      PROVE  current' \in Range(list) /\ buffered[current'] > 0
  BY <1>4, FirstBufferedFacts DEF Se!STREAMSelectAddStreams
<1>5. ASSUME Se!Library, selectPc' = "returned", current' # Se!NoStream
      PROVE  current' \in Range(list) /\ buffered[current'] + waiting[current'] > 0
  <2>1. Se!TimeOut => current' = Se!NoStream
    BY DEF Se!TimeOut
  <2>2. current' \in Range(list) /\ (buffered[current'] > 0 \/ waiting[current'] > 0)
    BY <1>2, <1>3, <1>4, <1>5, <2>1 DEF Se!Library
  <2>3. current' \in Watched
    BY <2>2, RangeOfSeq DEF SelectInv
  <2>4. buffered[current'] \in Nat /\ waiting[current'] \in Nat
    BY <2>3 DEF SelectInv
  <2>5. QED
    BY <2>2, <2>4
<1>6. QED
  BY <1>1, <1>2, <1>5, ToSetIsRange DEF Se!ReturnsReady

LEMMA AddStreamsKeeps ==
    ASSUME SelectInv, Se!STREAMSelectAddStreams
    PROVE  SelectInv'
<1>1. /\ set' = Se!Reached /\ UNCHANGED <<list, buffered, waiting>>
      /\ \/ /\ Se!Buffered # {} /\ selectPc' = "returned"
            /\ current' = list[Se!FirstBuffered]
         \/ Se!Buffered = {} /\ selectPc' = "wait"
  BY DEF Se!STREAMSelectAddStreams
<1>2. /\ Se!Reached \subseteq Range(list)
      /\ Se!Buffered = {} => Se!Reached = Range(list) /\ \A s \in Range(list) : buffered[s] = 0
      /\ Se!Buffered # {} => /\ list[Se!FirstBuffered] \in Range(list)
                             /\ buffered[list[Se!FirstBuffered]] > 0
  BY FirstBufferedFacts
<1>3. /\ pollset' \in Seq(Watched) /\ added' = Range(pollset') /\ added' \subseteq Range(list)
      /\ Se!UseEPOLL => Se!Reached \subseteq added'
  <2>1. CASE Se!UseEPOLL
    <3> DEFINE new == Se!Kept(list, Se!Reached \ added)
    <3>1. pollset' = pollset \o new /\ added' = added \union Se!Reached
      BY <2>1 DEF Se!STREAMSelectAddStreams, Se!EPOLLAddFD
    <3> DEFINE these == Se!Reached \ added
    <3>2. new \in Seq(Watched) /\ \A x : x \in Range(new) <=> x \in Range(list) /\ x \in these
      <4>1. list \in Seq(Watched)
        BY DEF SelectInv
      <4> HIDE DEF these
      <4>2. /\ Se!Kept(list, these) \in Seq(Watched)
            /\ \A x : x \in Range(Se!Kept(list, these)) <=> x \in Range(list) /\ x \in these
        BY <4>1, KeptFacts
      <4>3. QED
        BY <4>2 DEF these
    <3> HIDE DEF new
    <3>3. pollset \in Seq(Watched)
      BY DEF SelectInv
    <3>4. pollset \o new \in Seq(Watched) /\ Range(pollset \o new) = Range(pollset) \union Range(new)
      BY <3>2, <3>3, RangeConcatenation, ConcatProperties
    <3>5. added = Range(pollset) /\ added \subseteq Range(list)
      BY DEF SelectInv
    <3>6. QED
      BY <1>2, <3>1, <3>2, <3>4, <3>5
  <2>2. CASE ~Se!UseEPOLL
    BY <2>2 DEF Se!STREAMSelectAddStreams, Se!EPOLLAddFD, SelectInv
  <2>3. QED
    BY <2>1, <2>2
<1>4. Se!UseEPOLL' <=> Se!UseEPOLL
  BY <1>1 DEF Se!UseEPOLL
<1>5. list \in Seq(Watched) /\ buffered \in [Watched -> Nat] /\ waiting \in [Watched -> Nat]
  BY DEF SelectInv
<1>6. selectPc' = "returned" =>
        current' \in Range(list) /\ buffered[current'] + waiting[current'] > 0
  <2>1. selectPc' = "returned" => current' \in Range(list) /\ buffered[current'] > 0
    BY <1>1, <1>2
  <2>2. selectPc' = "returned" => current' \in Watched
    BY <1>5, <2>1, RangeOfSeq
  <2>3. QED
    BY <1>5, <2>1, <2>2
<1>7. QED
  BY <1>1, <1>2, <1>3, <1>4, <1>5, <1>6 DEF SelectInv

(* What is returned goes to the end of the list, which stays the same set. *)
LEMMA WaitKeeps ==
    ASSUME SelectInv, Se!SelectWait \/ Se!EPOLLWait \/ Se!TimeOut
    PROVE  SelectInv'
<1>1. /\ list \in Seq(Watched) /\ pollset \in Seq(Watched)
      /\ added = Range(pollset) /\ added \subseteq Range(list)
      /\ buffered \in [Watched -> Nat] /\ waiting \in [Watched -> Nat]
  BY DEF SelectInv
<1>2. selectPc = "wait" /\ selectPc' = "returned" /\ UNCHANGED <<added, buffered, waiting>>
  BY DEF Se!SelectWait, Se!EPOLLWait, Se!TimeOut
<1>3. ASSUME NEW x \in Range(list)
      PROVE  Se!MoveEnd(list, x) \in Seq(Watched) /\ Range(Se!MoveEnd(list, x)) = Range(list)
  BY <1>1, MoveEndFacts
<1>4. ASSUME NEW x \in Range(pollset)
      PROVE  Se!MoveEnd(pollset, x) \in Seq(Watched)
             /\ Range(Se!MoveEnd(pollset, x)) = Range(pollset)
  BY <1>1, MoveEndFacts
<1>5. /\ list' \in Seq(Watched) /\ Range(list') = Range(list)
      /\ pollset' \in Seq(Watched) /\ Range(pollset') = Range(pollset)
      /\ current' # Se!NoStream => current' \in Range(list) /\ waiting[current'] > 0
  <2>1. CASE Se!SelectWait
    <3>1. PICK i \in DOMAIN list : waiting[list[i]] > 0 /\ current' = list[i]
      BY <2>1 DEF Se!SelectWait
    <3>2. list' = Se!MoveEnd(list, list[i]) /\ pollset' = pollset
      BY <2>1, <3>1 DEF Se!SelectWait
    <3>3. list[i] \in Range(list)
      BY DEF Range
    <3>4. QED
      BY <1>1, <1>3, <3>1, <3>2, <3>3
  <2>2. CASE Se!EPOLLWait
    <3>1. PICK i \in DOMAIN pollset :
            /\ waiting[pollset[i]] > 0 /\ pollset' = Se!MoveEnd(pollset, pollset[i])
            /\ \/ current' = pollset[i] /\ list' = Se!MoveEnd(list, pollset[i])
               \/ current' = Se!NoStream /\ UNCHANGED list
      BY <2>2 DEF Se!EPOLLWait
    <3>2. pollset[i] \in Range(pollset)
      BY DEF Range
    <3>3. QED
      BY <1>1, <1>3, <1>4, <3>1, <3>2
  <2>3. CASE Se!TimeOut
    BY <1>1, <2>3 DEF Se!TimeOut
  <2>4. QED
    BY <2>1, <2>2, <2>3
<1>6. ASSUME current' # Se!NoStream PROVE buffered[current'] + waiting[current'] > 0
  <2>1. current' \in Watched
    BY <1>1, <1>5, <1>6, RangeOfSeq
  <2>2. QED
    BY <1>1, <1>5, <1>6, <2>1
<1>7. QED
  BY <1>1, <1>2, <1>5, <1>6 DEF SelectInv

LEMMA ReadsKeeps ==
    ASSUME SelectInv, Se!ProgramReads
    PROVE  SelectInv'
<1>1. /\ selectPc = "returned" /\ selectPc' = "idle" /\ UNCHANGED <<list, added, pollset>>
      /\ \/ UNCHANGED <<buffered, waiting>>
         \/ /\ current # Se!NoStream /\ current \in Range(list)
            /\ waiting' = [waiting EXCEPT ![current] = 0]
            /\ buffered' = [buffered EXCEPT ![current] =
                              IF drains THEN 0 ELSE (@ + waiting[current]) - 1]
  BY ToSetIsRange DEF Se!ProgramReads
<1>2. buffered \in [Watched -> Nat] /\ waiting \in [Watched -> Nat] /\ list \in Seq(Watched)
  BY DEF SelectInv
<1>3. buffered' \in [Watched -> Nat] /\ waiting' \in [Watched -> Nat]
  <2>1. CASE UNCHANGED <<buffered, waiting>>
    BY <1>2, <2>1
  <2>2. CASE /\ current # Se!NoStream /\ current \in Range(list)
             /\ waiting' = [waiting EXCEPT ![current] = 0]
             /\ buffered' = [buffered EXCEPT ![current] =
                               IF drains THEN 0 ELSE (@ + waiting[current]) - 1]
    <3>1. current \in Watched
      BY <1>2, <2>2, RangeOfSeq
    <3>2. buffered[current] + waiting[current] > 0
      BY <1>1, <2>2 DEF SelectInv
    <3> DEFINE left == IF drains THEN 0 ELSE (buffered[current] + waiting[current]) - 1
    <3>3. left \in Nat
      BY <1>2, <3>1, <3>2
    <3>4. buffered' = [buffered EXCEPT ![current] = left]
      BY <2>2
    <3> HIDE DEF left
    <3>5. QED
      BY <1>2, <2>2, <3>3, <3>4
  <2>3. QED
    BY <1>1, <2>1, <2>2
<1>4. QED
  BY <1>1, <1>3 DEF SelectInv

(* Streams come and go between the calls; other ends send at any time.     *)
LEMMA OthersKeep ==
    ASSUME SelectInv, NEW s \in Watched,
           Se!STREAMSelectRemove(s) \/ Se!ProgramOpens(s) \/ Se!PeerSends(s)
    PROVE  SelectInv'
<1>1. /\ list \in Seq(Watched) /\ pollset \in Seq(Watched)
      /\ added = Range(pollset) /\ added \subseteq Range(list)
      /\ buffered \in [Watched -> Nat] /\ waiting \in [Watched -> Nat]
  BY DEF SelectInv
<1>2. CASE Se!STREAMSelectRemove(s)
  <2>1. /\ selectPc = "returned" /\ UNCHANGED selectPc
        /\ list' = Se!Without(list, s) /\ pollset' = Se!Without(pollset, s)
        /\ added' = added \ {s}
        /\ buffered' = [buffered EXCEPT ![s] = 0] /\ waiting' = [waiting EXCEPT ![s] = 0]
        /\ current' = (IF current = s THEN Se!NoStream ELSE current)
    BY <1>2 DEF Se!STREAMSelectRemove
  <2>2. /\ list' \in Seq(Watched) /\ Range(list') = Range(list) \ {s}
        /\ pollset' \in Seq(Watched) /\ Range(pollset') = Range(pollset) \ {s}
    BY <1>1, <2>1, WithoutFacts
  <2>3. buffered' \in [Watched -> Nat] /\ waiting' \in [Watched -> Nat]
    BY <1>1, <2>1
  <2>4. ASSUME current' # Se!NoStream
        PROVE  current' \in Range(list') /\ buffered'[current'] + waiting'[current'] > 0
    <3>0. current' = current /\ current # s /\ current \in Range(list)
          /\ buffered[current] + waiting[current] > 0
      BY <2>1, <2>4 DEF SelectInv
    <3>1. current \in Watched
      BY <1>1, <3>0, RangeOfSeq
    <3>2. buffered'[current] = buffered[current] /\ waiting'[current] = waiting[current]
      BY <1>1, <2>1, <3>0, <3>1
    <3>3. QED
      BY <2>2, <3>0, <3>2
  <2>5. QED
    BY <1>1, <2>1, <2>2, <2>3, <2>4 DEF SelectInv
<1>3. CASE Se!ProgramOpens(s)
  <2>1. /\ selectPc = "returned" /\ s \notin Range(list)
        /\ list' = Append(list, s)
        /\ UNCHANGED <<added, buffered, waiting, pollset, selectPc, set, current>>
    BY <1>3, ToSetIsRange DEF Se!ProgramOpens
  <2>2. list' \in Seq(Watched) /\ Range(list') = Range(list) \union {s}
    BY <1>1, <2>1, AppendRange
  <2>3. QED
    BY <1>1, <2>1, <2>2 DEF SelectInv
<1>4. CASE Se!PeerSends(s)
  <2>1. /\ UNCHANGED <<list, added, buffered, pollset, selectPc, set, current>>
        /\ waiting' = [waiting EXCEPT ![s] = @ + 1]
    BY <1>4 DEF Se!PeerSends
  <2>2. waiting' \in [Watched -> Nat] /\ \A x \in Watched : waiting'[x] >= waiting[x]
    BY <1>1, <2>1
  <2>3. Se!UseEPOLL' <=> Se!UseEPOLL
    BY <2>1 DEF Se!UseEPOLL
  <2>4. ASSUME selectPc = "returned", current # Se!NoStream
        PROVE  current \in Range(list) /\ buffered[current] + waiting'[current] > 0
    <3>1. current \in Range(list) /\ buffered[current] + waiting[current] > 0
      BY <2>4 DEF SelectInv
    <3>2. current \in Watched
      BY <1>1, <3>1, RangeOfSeq
    <3>3. /\ buffered[current] \in Nat /\ waiting[current] \in Nat /\ waiting'[current] \in Nat
          /\ waiting'[current] >= waiting[current]
      BY <1>1, <2>2, <3>2
    <3>4. QED
      BY <3>1, <3>3
  <2>5. QED
    BY <1>1, <2>1, <2>2, <2>3, <2>4 DEF SelectInv
<1>5. QED
  BY <1>2, <1>3, <1>4

(* Any list of streams of the program's, and nothing in any of them.       *)
LEMMA SelectStarts ==
    ASSUME Se!Init
    PROVE  SelectInv
<1>1. PICK streams \in SUBSET Watched : list \in Se!SetToSeqs(streams)
  BY DEF Se!Init
<1>2. list \in Seq(Watched)
  <2> DEFINE k == Cardinality(streams)
  <2>1. k \in Nat
    <3>1. Se!IsFiniteSet(Watched)
      BY NetworkAssumption DEF Se!SelectAssumption
    <3>2. IsFiniteSet(Watched)
      BY <3>1 DEF Se!IsFiniteSet, IsFiniteSet
    <3>3. QED
      BY <1>1, <3>2, FS_Subset, FS_CardinalityType
  <2>2. list \in [1..k -> streams]
    BY <1>1 DEF Se!SetToSeqs, Se!Cardinality, Cardinality
  <2> HIDE DEF k
  <2>3. list \in Seq(streams)
    BY <2>1, <2>2
  <2>4. QED
    BY <1>1, <2>3
<1>3. Range(pollset) = {}
  BY DEF Se!Init, Range
<1>4. QED
  BY <1>2, <1>3 DEF Se!Init, SelectInv

LEMMA SelectKeeps ==
    ASSUME SelectInv, Se!Next
    PROVE  SelectInv'
<1>1. CASE Se!Library
  BY <1>1, AddStreamsKeeps, WaitKeeps DEF Se!Library
<1>2. CASE Se!ProgramReads
  BY <1>2, ReadsKeeps
<1>3. ASSUME NEW s \in Watched,
             Se!STREAMSelectRemove(s) \/ Se!ProgramOpens(s) \/ Se!PeerSends(s)
      PROVE  SelectInv'
  BY <1>3, OthersKeep
<1>4. QED
  BY <1>1, <1>2, <1>3 DEF Se!Next

(* STREAMSelect returns no stream only when none has anything, and what it *)
(* returns has something (IOPoll.c:561), for any descriptors, any length   *)
(* from which epoll is used, and any amount of data on its way.            *)
THEOREM SelectsReady == NetworkSpec => NoneOnlyIfNone
<1> DEFINE I == part = "Select" => SelectInv
<1>1. NetworkInit => I
  BY SelectStarts DEF NetworkInit
<1>2. I /\ [NetworkNext]_networkVars => I'
  <2> SUFFICES ASSUME I, [NetworkNext]_networkVars, part' = "Select"
               PROVE  SelectInv'
    OBVIOUS
  <2>1. CASE UNCHANGED networkVars
    <3>1. UNCHANGED selectVars /\ SelectInv
      BY <2>1 DEF networkVars
    <3>2. QED
      BY <3>1 DEF selectVars, SelectInv, Se!UseEPOLL
  <2>2. CASE SelectNext
    BY <2>2, SelectKeeps DEF SelectNext
  <2>3. QED
    BY <2>1, <2>2 DEF NetworkNext, HttpNext, ChunkedNext, ServerNext, ConnectionNext,
       WebSocketNext, SmtpNext
<1>3. I => [part = "Select" => Se!ReturnsReady]_selectVars
  BY SelectReturns
<1>4. QED
  BY <1>1, <1>2, <1>3, PTL DEF NetworkSpec, NoneOnlyIfNone
=============================================================================
