-------------------------------- MODULE Pager --------------------------------
(* The footer of the tables of users and suppliers (web/components/          *)
(* users-table.tsx, suppliers-table.tsx): pages of rows. The arithmetic is   *)
(* the table library's. A spinner takes the table's place during a load, and *)
(* a new table follows it.                                                   *)
EXTENDS Integers

CONSTANTS
  Sizes,    \* rows on a page that can be chosen
  NoTable   \* in its place the spinner

NewTable == [index |-> 0, size |-> CHOOSE s \in Sizes : \A t \in Sizes : s <= t]

\* As a slip: the page stays when its rows are others.
KeptPage(t) == IF t = NoTable THEN NewTable ELSE t
\* A list arrives: a table that is there goes back to its first page.
Refreshed(t) == IF t = NoTable THEN NewTable ELSE [t EXCEPT !.index = 0]
\* No list arrives, and the spinner goes.
Uncovered(t) == IF t = NoTable THEN NewTable ELSE t

PageCount(t, n) == (n + t.size - 1) \div t.size
CanPreviousPage(t) == t.index > 0
CanNextPage(t, n) == t.index < PageCount(t, n) - 1

\* The first row that is shown stays on the page.
SetPageSize(t, s) == [index |-> (t.size * t.index) \div s, size |-> s]

\* The buttons and the select, over n rows.
Turned(t, n) ==
  {SetPageSize(t, s) : s \in Sizes \ {t.size}}
    \cup (IF CanPreviousPage(t)
          THEN {[t EXCEPT !.index = 0], [t EXCEPT !.index = @ - 1]} ELSE {})
    \cup (IF CanNextPage(t, n)
          THEN {[t EXCEPT !.index = @ + 1], [t EXCEPT !.index = PageCount(t, n) - 1]}
          ELSE {})

RowsShown(t, n) == {i \in 1..n : t.index * t.size < i /\ i <= (t.index + 1) * t.size}
=============================================================================
