---------------------------- MODULE TermCalendar ----------------------------
(***************************************************************************)
(* The calendar of a terminal (TerminalCalendar.c): a month is drawn in    *)
(* weeks, with the days of other months that they begin and end with; keys *)
(* move a cursor over the days or turn to another month, and return takes  *)
(* the date at the cursor.  The days come from CalendarFormatCSV (Time.c). *)
(*                                                                         *)
(* A day of the list is what stands before its number and the number, and  *)
(* whether the list has a line end before it: the drawing takes line ends  *)
(* out, the choice of a date does not.                                     *)
(***************************************************************************)
EXTENDS Integers, Sequences

CONSTANTS
    Starts,     \* the months a calendar begins with, as <<month, year>>
    MaxPages    \* bound: how many times the page is turned

VARIABLES
    page,       \* the month and year in the variables of the widget
    selector,   \* the day the cursor is on, from 0
    max,        \* MaxSelector, which a drawing sets
    drawn,      \* the month and the selector last drawn
    pages,      \* how often the page was turned
    returned    \* << >>, or the year, the month and the day returned

vars == <<page, selector, max, drawn, pages, returned>>

IsLeapYear(year) == (year % 4) = 0 /\ ((year % 400) = 0 \/ (year % 100) # 0)

(* Month 0 is the last one of the year before.                             *)
GetDaysInMonth(month, year) ==
    LET days == <<31, 28, 31, 30, 31, 30, 31, 31, 30, 31, 30, 31>>
        m == IF month < 1 THEN 12 - month ELSE month
    IN  days[m] + (IF m = 2 /\ IsLeapYear(year) THEN 1 ELSE 0)

(* mktime and localtime: the days from 1970-01-01, a Thursday, to a date,  *)
(* and the day of the week, from 0 for Sunday.                             *)
DaysTo(year, month, day) ==
    LET y == year - 1
        leaps == (y \div 4 - y \div 100 + y \div 400) - 477
        sums == <<0, 31, 59, 90, 120, 151, 181, 212, 243, 273, 304, 334>>
        leap == (year % 4) = 0 /\ ((year % 100) # 0 \/ (year % 400) = 0)
    IN  365 * (year - 1970) + leaps + sums[month]
            + (IF month > 2 /\ leap THEN 1 ELSE 0) + day - 1

WeekDay(year, month) == (DaysTo(year, month, 1) + 4) % 7

(* A line end is written after a Saturday of the month.  Then the count of *)
(* the week is 0 again, and a month that ends there gets a week more.      *)
CalendarFormatCSV(month, year) ==
    LET first == WeekDay(year, month)
        before == GetDaysInMonth(month - 1, year)
        here == GetDaysInMonth(month, year)
        rest == 7 - ((first + here) % 7)
        Day(i) == IF i <= first
                  THEN [sign |-> "-", day |-> before - first + i, newline |-> FALSE]
                  ELSE IF i <= first + here
                  THEN [sign |-> "", day |-> i - first, newline |-> i > 7 /\ (i % 7) = 1]
                  ELSE [sign |-> "+", day |-> i - first - here, newline |-> (i % 7) = 1]
    IN  IF DaysTo(year, month, 1) < 0 THEN << >>
        ELSE [i \in 1 .. first + here + rest |-> Day(i)]

Days(p) == CalendarFormatCSV(p[1], p[2])

PageDown(p) == IF p[1] = 1 THEN <<12, p[2] - 1>> ELSE <<p[1] - 1, p[2]>>

PageUp(p) == IF p[1] = 12 THEN <<1, p[2] + 1>> ELSE <<p[1] + 1, p[2]>>

(* What a day of the list of a month is a date of.                         *)
DateOf(p, d) ==
    LET m == CASE d.sign = "-" -> PageDown(p) [] d.sign = "+" -> PageUp(p) [] OTHER -> p
    IN  <<m[2], m[1], d.day>>

(* The date of the item at the selector, in the list cut at commas: of an  *)
(* item that a line end comes first in, the sign is not seen, and no       *)
(* number is read behind it.  Past the end of the list there is no number. *)
TerminalCalendarReturnDate(p, s) ==
    IF s < 0 \/ s >= Len(Days(p)) THEN <<p[2], p[1], 0>>
    ELSE LET d == Days(p)[s + 1]
         IN  IF d.newline /\ d.sign # "" THEN <<p[2], p[1], 0>> ELSE DateOf(p, d)

Init ==
    /\ page \in Starts
    /\ selector = 0
    /\ max = Len(Days(page)) - 1
    /\ drawn = <<page, 0>>
    /\ pages = 0
    /\ returned = << >>

(* A key moves the selector, which is held to the days of the month drawn  *)
(* last, and the calendar is drawn.                                        *)
OnKey(p, s) ==
    /\ returned = << >>
    /\ LET low == IF s < 0 THEN 0 ELSE s
           held == IF low > max THEN max ELSE low
       IN  selector' = held /\ drawn' = <<p, held>>
    /\ page' = p
    /\ max' = Len(Days(p)) - 1
    /\ UNCHANGED returned

Move ==
    /\ \E by \in {-1, 1, -7, 7} : OnKey(page, selector + by)
    /\ UNCHANGED pages

Turn ==
    /\ pages < MaxPages
    /\ pages' = pages + 1
    /\ \E p \in {PageUp(page), PageDown(page)} : OnKey(p, selector)

(* Any other key, escape among them: Process goes on.                      *)
Other == OnKey(page, selector) /\ UNCHANGED pages

Enter ==
    /\ returned = << >>
    /\ returned' = TerminalCalendarReturnDate(page, selector)
    /\ UNCHANGED <<page, selector, max, drawn, pages>>

Next == Move \/ Turn \/ Other \/ Enter

Spec == Init /\ [][Next]_vars

-----------------------------------------------------------------------------
(* The days drawn are whole weeks, from a Sunday on, of days that follow   *)
(* one another, with the whole month among them.                           *)
DaysAreWeeks ==
    LET days == Days(page)
        date == [i \in DOMAIN days |->
                     LET d == DateOf(page, days[i]) IN DaysTo(d[1], d[2], d[3])]
    IN  days # << >> =>
            /\ (Len(days) % 7) = 0
            /\ ((date[1] + 4) % 7) = 0
            /\ \A i \in 2 .. Len(days) : date[i] = date[i - 1] + 1
            /\ LET next == PageUp(page)
               IN  {DaysTo(page[2], page[1], 1), DaysTo(next[2], next[1], 1) - 1}
                       \subseteq {date[i] : i \in DOMAIN days}

(* The date returned is the one that the cursor is drawn on, of a day of   *)
(* another month too.  The days with no number that the cursor can be on   *)
(* are two: the first of the next month on a line of its own, and the      *)
(* place past the last day that a page turned leaves the cursor in.        *)
ReturnedIsDrawn ==
    returned # << >> =>
        LET days == Days(drawn[1])
            at == drawn[2] + 1
        IN  IF at \notin DOMAIN days THEN returned[3] = 0
            ELSE \/ returned = DateOf(drawn[1], days[at])
                 \/ days[at].newline /\ days[at].sign = "+" /\ days[at].day = 1

(* Every date returned is that of a day.  Not checked by a run: see above. *)
ADayIsReturned == returned # << >> => returned[3] > 0
=============================================================================
