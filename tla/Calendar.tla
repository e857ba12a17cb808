------------------------------ MODULE Calendar ------------------------------
(***************************************************************************)
(* Dates in the gateway: proleptic Gregorian day numbers, the comparison   *)
(* of dates, the date a result is given, and the window a recency phrase   *)
(* stands for.                                                             *)
(*                                                                         *)
(* Data: a date is <<y, m, d>>.  Of a text only the dates are kept that    *)
(* each pattern finds in it: a function from Patterns to a date or NoDate. *)
(* The words and phrases of a query that bear on recency are a set.        *)
(***************************************************************************)
EXTENDS Integers, Sequences

CONSTANT NoDate

Patterns == {"numeric", "monthFirst", "dayFirst", "monthYear", "year"}

DaysOf(date) ==
  LET m == date[2]
      y == IF m <= 2 THEN date[1] - 1 ELSE date[1]
      era == y \div 400
      yoe == y - era * 400
      mp == IF m > 2 THEN m - 3 ELSE m + 9
      doy == (153 * mp + 2) \div 5 + date[3] - 1
  IN era * 146097 + yoe * 365 + yoe \div 4 - yoe \div 100 + doy - 719468

DateOf(days) ==
  LET z == days + 719468
      era == z \div 146097
      doe == z - era * 146097
      yoe == (doe - doe \div 1460 + doe \div 36524 - doe \div 146096) \div 365
      doy == doe - (365 * yoe + yoe \div 4 - yoe \div 100)
      mp == (5 * doy + 2) \div 153
      m == IF mp < 10 THEN mp + 3 ELSE mp - 9
  IN <<yoe + era * 400 + (IF m <= 2 THEN 1 ELSE 0), m, doy - (153 * mp + 2) \div 5 + 1>>

AddDays(date, n) == DateOf(DaysOf(date) + n)

DateGte(a, b) ==
  \/ a[1] > b[1]
  \/ a[1] = b[1] /\ (a[2] > b[2] \/ (a[2] = b[2] /\ a[3] >= b[3]))

DateLte(a, b) ==
  \/ a[1] < b[1]
  \/ a[1] = b[1] /\ (a[2] < b[2] \/ (a[2] = b[2] /\ a[3] <= b[3]))

\* A published date is read by its digits; a lone year is its first of January.
Comparable(text) ==
  IF text["numeric"] # NoDate THEN text["numeric"] ELSE text["year"]

\* In prose the most precise pattern wins; a month without a day is its first.
DateInText(text) ==
  LET found == SelectSeq(<<"numeric", "monthFirst", "dayFirst", "monthYear", "year">>,
                         LAMBDA p : text[p] # NoDate)
  IN IF found = <<>> THEN NoDate ELSE text[Head(found)]

YearInUrl(page) == page.urlYear

ItemDate(page) ==
  CASE Comparable(page.published) # NoDate -> Comparable(page.published)
    [] OTHER -> IF YearInUrl(page) # NoDate THEN YearInUrl(page)
                ELSE DateInText(page.mentions)

Unit == [day |-> 1, week |-> 7, month |-> 30, year |-> 365]

\* <<after, before>> or NoDate.  says: the phrases of the query; span: <<n, unit>> or <<>>.
RecencyWindow(says, span, today) ==
  LET since(n) == <<AddDays(today, -n), today>>
      counted == span # <<>> /\ span[1] > 0
      rules == << <<"yesterday" \in says, 1>>, <<"today" \in says, 0>>,
                  <<counted, IF counted THEN span[1] * Unit[span[2]] ELSE 0>>,
                  <<"week" \in says, 7>>, <<"month" \in says, 30>>, <<"year" \in says, 365>>,
                  <<says \cap {"recent", "latest"} # {} /\ "version" \notin says, 7>>,
                  <<says \cap {"recent", "latest"} = {} /\ {"fresh", "news"} \subseteq says, 7>> >>
      applying == SelectSeq(rules, LAMBDA r : r[1])
  IN IF applying = <<>> THEN NoDate ELSE since(Head(applying)[2])
=============================================================================
