------------------------------ MODULE Listing ------------------------------
(***************************************************************************)
(* What clients read of the Booking table: the pages of getList, which all *)
(* lists of the API share, and the calendar.  Pages are checked for every  *)
(* small table, the calendar in every state that BookingLedger reaches.    *)
(***************************************************************************)
EXTENDS BookingLedger, Sequences, FiniteSetsExt

CONSTANTS
    MaxRows,    \* the rows of the tables whose pages are checked
    DayLength   \* the seconds of a day, which is shorter here

ASSUME ListingAssumption ==
    /\ MaxRows \in Nat
    /\ DayLength \in Nat \ {0}

Null == 0       \* the nextPage of the last page, the prevPage of the first

-----------------------------------------------------------------------------
(* getList with a page and a size, over the rows in the order that the     *)
(* client asked for                                                        *)

(* skip and take.                                                          *)
Page(list, page, size) ==
    LET skip == (page - 1) * size
    IN  SubSeq(list, skip + 1,
               IF skip + size < Len(list) THEN skip + size ELSE Len(list))

Pages(total, size) == (total + size - 1) \div size

(* A mutant: the page before the last counts as the last.                  *)
NextPageEarly(total, page, size) ==
    IF page + 1 >= Pages(total, size) THEN Null ELSE page + 1

NextPage(total, page, size) ==
    IF page + 1 > Pages(total, size) THEN Null ELSE page + 1

PrevPage(page) == IF page - 1 < 1 THEN Null ELSE page - 1

(* What a client sees that starts at that page and follows nextPage.       *)
Walk(list, size) ==
    LET from[page \in 1..Len(list) + 1] ==
            LET next == NextPage(Len(list), page, size)
            IN  Page(list, page, size)
                    \o (IF next = Null THEN <<>> ELSE from[next])
    IN  from[1]

-----------------------------------------------------------------------------
(* getCalendarBooking from the first to the last of some days              *)

Day(t) == t \div DayLength
StartDate(first) == first * DayLength

(* The last second of the day, which the query compares with "less than":  *)
(* the milliseconds of endDate are lost in its format.                     *)
EndDate(last) == last * DayLength + DayLength - 1

(* A mutant: the end is the start of the last day.                         *)
InDatesCut(b, first, last) ==
    Live(rows[b]) /\ StartDate(first) <= rows[b].start
                  /\ rows[b].start < StartDate(last)

InDates(b, first, last) ==
    Live(rows[b]) /\ StartDate(first) <= rows[b].start
                  /\ rows[b].start < EndDate(last)

(* The loop over i <= endDate.diff(startDate, 'day').                      *)
Days(first, last) ==
    first .. first + (EndDate(last) - StartDate(first)) \div DayLength

Items(d, first, last) ==
    {b \in Booking : InDates(b, first, last) /\ Day(rows[b].start) = d}

Hours(B) == MapThenSumSet(LAMBDA b : rows[b].end - rows[b].start, B)

Calendar(first, last) ==
    [d \in Days(first, last) |->
        [items |-> Items(d, first, last),
         bookedHours |-> Hours(Items(d, first, last))]]

-----------------------------------------------------------------------------
(* Properties                                                              *)

(* The tables of n rows whose pages are right, for every size of a page.   *)
(* The rows are in the order the client asks for.                          *)
Covered ==
    [n \in 0..MaxRows |->
        \A size \in 1..MaxRows + 1 :
            LET list == [i \in 1..n |-> i]
            IN  /\ Walk(list, size) = list
                /\ \A page \in 1..Pages(n, size) :
                      LET next == NextPage(n, page, size)
                      IN  next # Null => PrevPage(next) = page]

(* A client that follows nextPage from the first page sees every row once  *)
(* and then stops, and prevPage leads back: for the table of bookings, and *)
(* for larger ones up to MaxRows.                                          *)
PagesCoverTable ==
    \A n \in Cardinality({b \in Booking : Live(rows[b])})..MaxRows : Covered[n]

(* Every booking that starts on one of the days, but for the last second   *)
(* of the last one, is shown on the day it starts and on no other; nothing *)
(* is found that has no day to be shown on, and the hours of the days add  *)
(* up to those of what is shown.                                           *)
CalendarIsWhole ==
    \A last \in 0..Day(MaxTime) : \A first \in 0..last :
        LET shown == Calendar(first, last)
            found == {b \in Booking : InDates(b, first, last)}
        IN  /\ DOMAIN shown = first..last
            /\ \A b \in Booking, d \in first..last :
                  b \in shown[d].items <=>
                      /\ Live(rows[b])
                      /\ rows[b].start \in d * DayLength..(d + 1) * DayLength - 1
                      /\ rows[b].start # (last + 1) * DayLength - 1
            /\ found = UNION {shown[d].items : d \in first..last}
            /\ Hours(found) =
                  MapThenSumSet(LAMBDA d : shown[d].bookedHours, first..last)

=============================================================================
