--------------------------------- MODULE Smtp ---------------------------------
(***************************************************************************)
(* Smtp.c: the conversation by which a mail is handed to a server.  Each   *)
(* command is answered by a reply of one or more lines, the last of which  *)
(* is marked; what a command leads to depends on the reply read after it.  *)
(*                                                                         *)
(* A reply is a sequence of lines [code, last, caps]; the server gives any *)
(* of Replies to any command, and notes what it agreed to.                 *)
(***************************************************************************)
EXTENDS Integers, Sequences, SequencesExt

CONSTANTS
    Replies,
    Settings,       \* [flags, tls, login]: what the caller asks and the URL says
    Recipients      \* how many there are

VARIABLES
    setting,
    stage,          \* the next command
    tls, caps, rcpts,
    accepted,       \* a recipient was, as it seems
    wire,           \* lines that are not read yet
    agreed,         \* commands the server said yes to
    body,           \* the mail was sent
    result

vars == <<setting, stage, tls, caps, rcpts, accepted, wire, agreed, body, result>>

Init ==
    /\ setting \in Settings
    /\ stage = "greeting" /\ tls = setting.tls /\ caps = {} /\ rcpts = 0 /\ accepted = FALSE
    /\ wire = <<>> /\ agreed = {} /\ body = FALSE /\ result = "none"

(* A line, and what a server is to be like for what is proved of this      *)
(* module: in a reply the last line is the one that is marked.             *)
ReplyLine == [code : Nat, last : BOOLEAN, caps : SUBSET STRING]
RepliesAreMarked ==
    \A reply \in Replies :
        /\ reply \in Seq(ReplyLine) /\ reply # << >>
        /\ \A i \in 1 .. Len(reply) : reply[i].last <=> i = Len(reply)

Yes(code) == code \in 200..399

(* SMTPRead: the lines up to the one that is the last of a reply.  Those of*)
(* less than four characters would end it too.                             *)
FaultRead(lines) == 1
SMTPRead(lines) ==
    LET last == {i \in DOMAIN lines : lines[i].last} IN
    CHOOSE i \in last : \A j \in last : i <= j

(* SMTPInteract: its result is the code of the reply it reads, 0 if that is*)
(* neither 2xx nor 3xx, and the abilities the reply names.                 *)
Code(reply) == LET code == (wire \o reply)[1].code IN IF Yes(code) THEN code ELSE 0
Abilities(reply) ==
    LET lines == wire \o reply IN UNION {lines[i].caps : i \in 1 .. SMTPRead(lines)}

SMTPInteract(cmd, reply) ==
    LET lines == wire \o reply IN
    /\ wire' = SubSeq(lines, SMTPRead(lines) + 1, Len(lines))
    /\ agreed' = IF Yes(reply[1].code) THEN agreed \cup {cmd} ELSE agreed

(* A command, any reply to it, and how the dialogue goes on.               *)
Dialogue(cmd, Then(_, _)) ==
    \E reply \in Replies : SMTPInteract(cmd, reply) /\ Then(Code(reply), Abilities(reply))

Fail == stage' = "done" /\ result' = "no"
Goto(next) == stage' = next /\ UNCHANGED result

Greeting ==
    /\ stage = "greeting"
    /\ LET Then(code, found) == IF code # 0 THEN Goto("EHLO") ELSE Fail IN
       Dialogue("greeting", Then)
    /\ UNCHANGED <<setting, tls, caps, rcpts, accepted, body>>

(* What SMTPConnectServer goes on to when SMTPHelo found `found': STARTTLS *)
(* if it is not in TLS, and not told to leave it, then login, then mail.   *)
(* After STARTTLS it no longer asks whether anything was found.            *)
Again == tls # setting.tls
AfterHelo(found) ==
    IF found = {} /\ ~Again THEN Fail
    ELSE IF found # {} /\ ~tls /\ "NOSSL" \notin setting.flags THEN Goto("STARTTLS")
    ELSE Goto(IF found \cap {"LOGIN", "PLAIN"} # {} /\ setting.login THEN "AUTH" ELSE "MAIL")

SMTPHelo ==
    \/ /\ stage = "EHLO"
       /\ LET Then(code, found) ==
                  /\ caps' = IF code \in 200..299 THEN {"EHLO"} \cup found ELSE {}
                  /\ IF code \in 200..299 THEN AfterHelo({"EHLO"} \cup found) ELSE Goto("HELO") IN
          Dialogue("EHLO", Then)
       /\ UNCHANGED <<setting, tls, rcpts, accepted, body>>
    \/ /\ stage = "HELO"
       /\ LET Then(code, found) ==
                  /\ caps' = IF code # 0 THEN {"HELO"} ELSE {}
                  /\ AfterHelo(IF code # 0 THEN {"HELO"} ELSE {}) IN
          Dialogue("HELO", Then)
       /\ UNCHANGED <<setting, tls, rcpts, accepted, body>>

(* That the server says no ends the try.                                   *)
StartTLS ==
    /\ stage = "STARTTLS"
    /\ LET Then(code, found) ==
               /\ tls' = (code # 0)
               /\ Goto(IF code # 0 THEN "EHLO"
                       ELSE IF caps \cap {"LOGIN", "PLAIN"} # {} /\ setting.login THEN "AUTH" ELSE "MAIL") IN
       Dialogue("STARTTLS", Then)
    /\ UNCHANGED <<setting, caps, rcpts, accepted, body>>

(* SMTPLogin.  Whatever it comes to, the mail is tried.                    *)
SMTPLogin ==
    /\ \/ /\ stage = "AUTH"
          /\ LET Then(code, found) == Goto(IF "LOGIN" \in caps /\ code = 334 THEN "user" ELSE "MAIL") IN
             Dialogue("AUTH", Then)
       \/ /\ stage = "user"
          /\ LET Then(code, found) == Goto(IF code # 0 THEN "password" ELSE "MAIL") IN
             Dialogue("user", Then)
       \/ /\ stage = "password"
          /\ LET Then(code, found) == Goto("MAIL") IN Dialogue("password", Then)
    /\ UNCHANGED <<setting, tls, caps, rcpts, accepted, body>>

MailFrom ==
    /\ stage = "MAIL"
    /\ LET Then(code, found) == IF code # 0 THEN Goto("RCPT") ELSE Fail IN Dialogue("MAIL", Then)
    /\ UNCHANGED <<setting, tls, caps, rcpts, accepted, body>>

(* SmtpSendRecipients: all of them, and one that is accepted is enough.    *)
SmtpSendRecipients ==
    /\ stage = "RCPT" /\ rcpts < Recipients
    /\ rcpts' = rcpts + 1
    /\ LET Then(code, found) ==
               /\ accepted' = (accepted \/ code # 0)
               /\ IF rcpts' < Recipients THEN Goto("RCPT")
                  ELSE IF accepted' THEN Goto("DATA") ELSE Fail IN
       Dialogue("RCPT", Then)
    /\ UNCHANGED <<setting, tls, caps, body>>

Data ==
    /\ stage = "DATA"
    /\ LET Then(code, found) == IF code # 0 THEN Goto("body") ELSE Fail IN Dialogue("DATA", Then)
    /\ UNCHANGED <<setting, tls, caps, rcpts, accepted, body>>

(* SMTPSendMailViaServer and SMTPSendMailFileViaServer: the mail and its   *)
(* end; the answer to it, and to QUIT, is read and not looked at.          *)
SendMail ==
    \/ /\ stage = "body" /\ body' = TRUE
       /\ LET Then(code, found) == Goto("QUIT") IN Dialogue("body", Then)
       /\ UNCHANGED <<setting, tls, caps, rcpts, accepted>>
    \/ /\ stage = "QUIT"
       /\ LET Then(code, found) == stage' = "done" /\ result' = "yes" IN Dialogue("QUIT", Then)
       /\ UNCHANGED <<setting, tls, caps, rcpts, accepted, body>>

Next == \/ Greeting \/ SMTPHelo \/ StartTLS \/ SMTPLogin
        \/ MailFrom \/ SmtpSendRecipients \/ Data \/ SendMail
Spec == Init /\ [][Next]_vars

-----------------------------------------------------------------------------
(* The mail is sent only to a server that agreed to the sender, one of the *)
(* recipients and the mail itself, however its replies are split to lines, *)
(* whether it did TLS, knew EHLO or let the user in; what follows is read  *)
(* from the reply to the command, not from what is left of another.        *)
MailIsAgreed ==
    /\ body => {"MAIL", "RCPT", "DATA"} \subseteq agreed
    /\ result = "yes" => body
    /\ "password" \in agreed => {"AUTH", "user"} \subseteq agreed

(* Not checked, for they do not hold: that a mail that is said to be sent  *)
(* was taken, and that the password is not sent in the clear to a server   *)
(* that was to be spoken to in TLS if it can.                              *)
SentIsTaken == result = "yes" => "body" \in agreed
TLSWhereItCan == stage = "password" /\ "STARTTLS" \in setting.flags => tls
===============================================================================
