------------------------------- MODULE TermKeys -------------------------------
(***************************************************************************)
(* The keys of a terminal (TerminalReadChar of Terminal.c, TerminalKeys.c):*)
(* a key that is no character arrives as a sequence of bytes, and          *)
(* TerminalReadChar puts it together again.  Keys have names, which        *)
(* programs show and read back from their settings.                        *)
(*                                                                         *)
(* A key is a modifier and a name: <<"", "UP">>, <<"SHIFT", "F1">>,        *)
(* <<"", "x">> for a character and <<"CTRL", "C">> for a control           *)
(* character.  A name is the words between its underscores.                *)
(*                                                                         *)
(* A definition named Fault... is the definition after it with a mistake   *)
(* in it, which the properties are shown to catch; nothing else uses it.   *)
(***************************************************************************)
EXTENDS Naturals, Sequences, TLC

CONSTANTS
    Keyboard,    \* <<key, sequence>>: what a terminal sends for a key
    Bindable,    \* the keys whose names settings may hold
    MaxPressed   \* bound: how many keys are pressed

VARIABLES
    input,       \* the bytes of the terminal that were not read
    pressed,     \* the keys pressed
    read         \* the keys TerminalReadChar returned

vars == <<input, pressed, read>>

NotAKey == <<"", "">>                   \* 0

(***************************************************************************)
(* Reading.  A reader is given the bytes and where to begin, and gives a   *)
(* key and where it ended; a read past the bytes is a timeout, and gives   *)
(* STREAM_NODATA.                                                          *)
(***************************************************************************)
NoData == ""

At(bytes, i) == IF i <= Len(bytes) THEN bytes[i] ELSE NoData

Ends(key, i) == [key |-> key, at |-> i]

Digits == {"0", "1", "2", "3", "4", "5", "6", "7", "8", "9"}

Value(digit) == CHOOSE n \in 0 .. 9 : ToString(n) = digit

Named(mod, table, x) ==
    IF x \in DOMAIN table /\ table[x] # "" THEN <<mod, table[x]>> ELSE NotAKey

(* The n of ESC [ n ~: the code has 16 and 17 for F6.                      *)
NumKeys ==
    <<"HOME", "INSERT", "DELETE", "END", "PGUP", "PGDN", "", "", "", "",
      "F1", "F2", "F3", "F4", "F5", "F6", "F6", "F7", "F8", "F9", "F10", "",
      "F11", "F12", "F13", "F14", "", "WIN", "MENU">>

LetterKeys == [A |-> "UP", B |-> "DOWN", C |-> "RIGHT", D |-> "LEFT",
               F |-> "END", H |-> "HOME"]

LetterFKeys == [P |-> "F1", Q |-> "F2", R |-> "F3", S |-> "F4"]

XTermModifiers == [x \in {"2", "3", "5"} |->
    IF x = "2" THEN "SHIFT" ELSE IF x = "3" THEN "ALT" ELSE "CTRL"]

(* ESC [ 1 ; m and ESC [ 2 ; m: a modifier that is not one of these three  *)
(* leaves the rest of the sequence in the stream.                          *)
ReadCSISeqLetter(bytes, i, fkeys) ==
    LET m == At(bytes, i)
        x == At(bytes, i + 1)
        mod == XTermModifiers[m]
    IN  IF m \notin DOMAIN XTermModifiers THEN Ends(NotAKey, i + 1)
        ELSE IF x \in DOMAIN LetterFKeys /\ mod \in fkeys
        THEN Ends(<<mod, LetterFKeys[x]>>, i + 2)
        ELSE Ends(Named(mod, LetterKeys, x), i + 2)

ReadCSISeqSemicolon1(bytes, i) == ReadCSISeqLetter(bytes, i, {"SHIFT", "ALT", "CTRL"})

ReadCSISeqSemicolon2(bytes, i) == ReadCSISeqLetter(bytes, i, {"CTRL"})

(* ESC [ n ; m ~, and ESC [ n ; ~ with other numbers.                      *)
ReadCSISeqSemicolon(bytes, i, n) ==
    LET m == At(bytes, i)
        WithModifier(x) == IF x \in {5, 6, 15} \cup 17 .. 24 THEN NumKeys[x] ELSE ""
        Bare(x) == IF x \in {5, 6, 15, 17, 18} THEN NumKeys[x]
                   ELSE IF x \in 19 .. 22
                   THEN <<"F9", "F10", "F11", "F12">>[x - 18] ELSE ""
        Key(mod, name) == IF name = "" THEN NotAKey ELSE <<mod, name>>
    IN  IF m \in DOMAIN XTermModifiers
        THEN Ends(IF At(bytes, i + 1) = "~" THEN Key(XTermModifiers[m], WithModifier(n))
                  ELSE NotAKey, i + 2)
        ELSE Ends(IF m = "~" THEN Key("CTRL", Bare(n)) ELSE NotAKey, i + 1)

FaultReadCSISeqNum(bytes, i) ==
    LET n == Value(bytes[i])
        x == At(bytes, i + 1)
        Mods == [y \in {"~", "$", "^"} |->
                     IF y = "$" THEN "SHIFT" ELSE IF y = "^" THEN "CTRL" ELSE ""]
    IN  IF x = ";" /\ n = 1 THEN ReadCSISeqSemicolon1(bytes, i + 2)
        ELSE Ends(IF x \in DOMAIN Mods THEN Named(Mods[x], NumKeys, n) ELSE NotAKey, i + 2)

(* One or two digits, and what follows them.                               *)
ReadCSISeqNum(bytes, i) ==
    LET two == At(bytes, i + 1) \in Digits
        n == IF two THEN 10 * Value(bytes[i]) + Value(bytes[i + 1]) ELSE Value(bytes[i])
        j == IF two THEN i + 2 ELSE i + 1
        x == At(bytes, j)
        Mods == [y \in {"~", "$", "^"} |->
                     IF y = "$" THEN "SHIFT" ELSE IF y = "^" THEN "CTRL" ELSE ""]
    IN  IF x = ";" /\ n = 1 THEN ReadCSISeqSemicolon1(bytes, j + 1)
        ELSE IF x = ";" /\ n = 2 THEN ReadCSISeqSemicolon2(bytes, j + 1)
        ELSE IF x = ";" THEN ReadCSISeqSemicolon(bytes, j + 1, n)
        ELSE Ends(IF x \in DOMAIN Mods THEN Named(Mods[x], NumKeys, n) ELSE NotAKey, j + 1)

(* A mouse button, then the two coordinates: the bytes stand for their     *)
(* values less 32.                                                         *)
ReadCSIMouse(bytes, i) ==
    LET buttons == [x \in {"0", "1", "2", "3", "64", "65"} |->
            CASE x = "0" -> "MOUSE1" [] x = "1" -> "MOUSE2" [] x = "2" -> "MOUSE3"
              [] x = "3" -> "MOUSE0" [] x = "64" -> "MOUSE4" [] x = "65" -> "MOUSE5"]
    IN  Ends(Named("", buttons, At(bytes, i)), i + 3)

ReadCSISeq(bytes, i) ==
    LET x == At(bytes, i)
        shifted == [a |-> "UP", b |-> "DOWN", c |-> "RIGHT", d |-> "LEFT"]
        others == [P |-> "PAUSE", Z |-> "END", I |-> "FOCUS_IN", O |-> "FOCUS_OUT"]
    IN  IF x = "M" THEN ReadCSIMouse(bytes, i + 1)
        ELSE IF x \in Digits THEN ReadCSISeqNum(bytes, i)
        ELSE Ends(IF x \in DOMAIN shifted THEN <<"SHIFT", shifted[x]>>
                  ELSE IF x \in DOMAIN LetterKeys THEN <<"", LetterKeys[x]>>
                  ELSE IF x \in DOMAIN others THEN <<"", others[x]>>
                  ELSE <<"", x>>, i + 1)

(* ESC ] 52 ; type ; data BEL: the clipboard or the selection.  The data   *)
(* is one byte here.                                                       *)
ReadOSCSeq(bytes, i) ==
    LET wrong == {j \in i .. i + 2 : At(bytes, j) # <<"5", "2", ";">>[j - i + 1]}
        bells == {j \in i + 3 .. Len(bytes) : bytes[j] = "BEL"}
        end == IF bells = {} THEN Len(bytes) + 1
               ELSE 1 + CHOOSE j \in bells : \A k \in bells : j <= k
        type == At(bytes, i + 3)
    IN  IF wrong # {} THEN Ends(NotAKey, 1 + CHOOSE j \in wrong : \A k \in wrong : j <= k)
        ELSE Ends(IF type = "c" THEN <<"", "CLIPBOARD">>
                  ELSE IF type = "p" THEN <<"", "SELECTION">> ELSE NotAKey, end)

ReadSSCSeq(bytes, i) ==
    LET x == At(bytes, i)
        arrows == [A |-> "UP", B |-> "DOWN", c |-> "LEFT", d |-> "RIGHT"]
        keypad == [t |-> "F5", u |-> "F6", v |-> "F7", l |-> "F8", w |-> "F9", x |-> "F10"]
    IN  Ends(IF x \in DOMAIN arrows THEN <<"CTRL", arrows[x]>>
             ELSE IF x \in DOMAIN LetterFKeys THEN <<"", LetterFKeys[x]>>
             ELSE IF x \in DOMAIN keypad THEN <<"", keypad[x]>>
             ELSE <<"", x>>, i + 1)

(* ESC before a byte that begins no sequence is lost.                      *)
ReadChar(bytes) ==
    LET x == At(bytes, 2)
    IN  IF bytes[1] # "ESC" THEN Ends(<<"", bytes[1]>>, 2)
        ELSE IF x = "ESC" THEN Ends(<<"", "ESC">>, 3)
        ELSE IF x = "[" THEN ReadCSISeq(bytes, 3)
        ELSE IF x = "]" THEN ReadOSCSeq(bytes, 3)
        ELSE IF x = "O" THEN ReadSSCSeq(bytes, 3)
        ELSE Ends(<<"", x>>, 3)

(***************************************************************************)
(* Names.                                                                  *)
(***************************************************************************)
FKeys == {"F1", "F2", "F3", "F4", "F5", "F6", "F7", "F8", "F9", "F10", "F11", "F12",
          "F13", "F14"}

MovingKeys == {"UP", "DOWN", "LEFT", "RIGHT", "HOME", "END", "PAUSE", "INSERT", "DELETE",
               "PGUP", "PGDN", "WIN", "MENU"}

PlainKeys ==
    FKeys \cup MovingKeys
    \cup {"ESC", "BACKSPACE", "PRINT", "SCROLL_LOCK", "FOCUS_IN", "FOCUS_OUT", "WWW",
          "HOMEPAGE", "FAVES", "SEARCH", "BACK", "FORWARD", "MAIL", "MESSENGER", "MEDIA",
          "MUTE", "MYCOMPUTER", "CALCULATOR", "MOUSE0", "MOUSE1", "MOUSE2", "MOUSE3",
          "MOUSE4", "MOUSE5"}

Letters == {"A", "B", "C", "D", "E", "F", "G", "H", "I", "J", "K", "L", "M", "N", "O", "P",
            "Q", "R", "S", "T", "U", "V", "W", "X", "Y", "Z"}

(* A control character has its letter's name; a key without a name is a    *)
(* question mark.                                                          *)
TranslateKeyCode(key) ==
    LET modified == [SHIFT |-> FKeys \cup MovingKeys,
                     CTRL |-> FKeys \cup MovingKeys \cup Letters,
                     ALT |-> (FKeys \ {"F13", "F14"}) \cup MovingKeys]
    IN  IF key = NotAKey THEN <<"NUL">>
        ELSE IF key[1] = "" /\ (key[2] \in PlainKeys \/ Len(key[2]) = 1) THEN <<key[2]>>
        ELSE IF key[1] # "" /\ key[2] \in modified[key[1]] THEN key
        ELSE <<"?">>

(* A word that is no name of a key gives its first character, and so do    *)
(* the names of some keys.                                                 *)
FirstLetter(word) == SubSeq(word, 1, 1)

WordKey(word) ==
    LET synonyms == [CALC |-> "CALCULATOR", COMPUTER |-> "MYCOMPUTER", MYCOMP |-> "MYCOMPUTER",
                     DEL |-> "DELETE", INS |-> "INSERT", SCRLCK |-> "SCROLL_LOCK", SPACE |-> " "]
        unknown == {"BACKSPACE", "SCROLL_LOCK", "FOCUS_IN", "FOCUS_OUT", "MOUSE0", "MOUSE1",
                    "MOUSE2", "MOUSE3", "MOUSE4", "MOUSE5"}
    IN  IF word \in DOMAIN synonyms THEN synonyms[word]
        ELSE IF word \in PlainKeys \ unknown THEN word
        ELSE FirstLetter(word)

(* With control, it is the first letter of the whole name that is taken.   *)
TranslateKeyStr(name) ==
    LET mods == {name[i] : i \in 1 .. Len(name) - 1}
        key == WordKey(name[Len(name)])
    IN  IF "CTRL" \in mods THEN <<"CTRL", FirstLetter(name[1])>>
        ELSE IF mods \in {{"SHIFT"}, {"ALT"}} THEN <<name[1], key>>
        ELSE <<"", key>>

(***************************************************************************)
(* Actions.                                                                *)
(***************************************************************************)
Init == input = << >> /\ pressed = << >> /\ read = << >>

Press ==
    /\ Len(pressed) < MaxPressed
    /\ \E k \in Keyboard :
           /\ pressed' = Append(pressed, k[1])
           /\ input' = input \o k[2]
    /\ UNCHANGED read

TerminalReadChar ==
    /\ input # << >>
    /\ LET r == ReadChar(input)
       IN  /\ read' = Append(read, r.key)
           /\ input' = SubSeq(input, r.at, Len(input))
    /\ UNCHANGED pressed

Next == Press \/ TerminalReadChar

Spec == Init /\ [][Next]_vars

(***************************************************************************)
(* Properties.                                                             *)
(***************************************************************************)

(* The keys read are the keys pressed, in their order, however many of     *)
(* them wait in the stream: no sequence takes bytes of the one after it    *)
(* or leaves some of its own to be read as keys.                           *)
KeysAsPressed ==
    /\ Len(read) <= Len(pressed)
    /\ \A i \in 1 .. Len(read) : read[i] = pressed[i]
    /\ input = << >> => Len(read) = Len(pressed)

(* The name a program is given for a key it read names that key when the   *)
(* program translates it back (TerminalTranslateKeyCode,                   *)
(* TerminalTranslateKeyStr).  It does not hold of a key with control,      *)
(* whose name always gives control-C.                                      *)
NamesAreKeys ==
    \A i \in 1 .. Len(read) :
        read[i] \in Bindable => TranslateKeyStr(TranslateKeyCode(read[i])) = read[i]
=============================================================================
