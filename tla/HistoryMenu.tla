----------------------------- MODULE HistoryMenu -----------------------------
(***************************************************************************)
(* The pages of a user's history, turned by the buttons of                 *)
(* pagination_keyboard, while runs of his jobs add rows to it.  Every      *)
(* press passes the rate limit.                                            *)
(*                                                                         *)
(* Rows are numbered in the order of their created_at; the newest come     *)
(* first.  count_history and list_history are two statements: rows may be  *)
(* added in between.  One press is served at a time.                       *)
(***************************************************************************)
EXTENDS RateLimit

CONSTANTS
    PageSize,           \* history_page_size
    MaxRows             \* bound on the rows

Request == "callback"   \* the action both handlers are limited by

ASSUME PagesAssumption ==
    /\ PageSize \in Nat \ {0}
    /\ MaxRows \in Nat
    /\ Request \in Actions

VARIABLES
    total,              \* rows in the table
    place,              \* where the handler is suspended
    asked,              \* the page asked for and what was counted
    menu,               \* the message: page, last page, rows shown
    unseen              \* rows still to see of those there were on page 1

menuVars == <<total, place, asked, menu, unseen>>
vars == <<rateVars, menuVars>>

\* `late`: rows were added after the count
Pages == [page : Nat, last : Nat, late : BOOLEAN]
NoPages == [page |-> 0, last |-> 0, late |-> FALSE]

TypeOK ==
    /\ RateTypeOK
    /\ total \in 0..MaxRows
    /\ place \in {"idle", "count", "list"}
    /\ asked \in Pages /\ menu \in Pages
    /\ unseen \subseteq 1..total

Init ==
    /\ RateInit
    /\ total \in 0..MaxRows
    /\ place = "idle"
    /\ asked = NoPages /\ menu = NoPages
    /\ unseen = {}

LastPage(n) == IF n = 0 THEN 1 ELSE (n + PageSize - 1) \div PageSize

\* A bug to be caught: the first page is taken to be number 0.
OffsetFromZero(page) == page * PageSize

\* Pages of a list with the newest row first
OffsetOf(page) == (page - 1) * PageSize

ListHistory(page) ==
    {r \in 1..total :
        OffsetOf(page) < total + 1 - r /\ total + 1 - r <= OffsetOf(page) + PageSize}

-----------------------------------------------------------------------------

Ask(page) ==
    /\ place = "idle"
    /\ Allowed(Request)
    /\ place' = "count"
    /\ asked' = [NoPages EXCEPT !.page = page]
    /\ UNCHANGED <<total, menu, unseen>>

\* /history and the button of the main menu
AskFirst == Ask(1)

\* The buttons of pagination_keyboard
AskNext == menu.page < menu.last /\ Ask(menu.page + 1)
AskPrevious == menu.page > 1 /\ Ask(menu.page - 1)

AskTooOften ==
    /\ place = "idle"
    /\ Refused(Request)
    /\ UNCHANGED menuVars

CountHistory ==
    /\ place = "count"
    /\ asked' = [page |-> IF asked.page > LastPage(total) THEN LastPage(total)
                          ELSE asked.page,
                 last |-> LastPage(total), late |-> FALSE]
    /\ place' = "list"
    /\ UNCHANGED <<rateVars, total, menu, unseen>>

ShowHistory ==
    /\ place = "list"
    /\ menu' = asked
    /\ unseen' = (IF asked.page = 1 THEN 1..total ELSE unseen)
                    \ ListHistory(asked.page)
    /\ place' = "idle"
    /\ UNCHANGED <<rateVars, total, asked>>

\* add_history at the end of a run
AddHistory ==
    /\ total < MaxRows
    /\ total' = total + 1
    /\ asked' = [asked EXCEPT !.late = @ \/ place = "list"]
    /\ UNCHANGED <<rateVars, place, menu, unseen>>

\* An exception ends the handler; the message stays as it is.
Fault ==
    /\ place # "idle"
    /\ place' = "idle"
    /\ UNCHANGED <<rateVars, total, asked, menu, unseen>>

Pass == Tick /\ UNCHANGED menuVars

Next ==
    \/ AskFirst \/ AskNext \/ AskPrevious \/ AskTooOften
    \/ CountHistory \/ ShowHistory \/ AddHistory \/ Fault \/ Pass

Spec == Init /\ [][Next]_vars

-----------------------------------------------------------------------------

\* Who turns the pages to the last one has been shown every row there was when
\* he opened the first, although new rows push the others on meanwhile; unless
\* one came between the count and the list of the last page.
WalkComplete == menu.page = menu.last /\ ~ menu.late => unseen = {}
=============================================================================
