----------------------------- MODULE ContactPages -----------------------------
(***************************************************************************)
(* The pages of the contact messages (ContactService.findAll): the rows of *)
(* a page and the number of all rows are two queries that run side by      *)
(* side.  The owner's panel, which is not part of this repository, asks    *)
(* for one page after the other until it has seen as many rows as there    *)
(* are; visitors write and the owner removes messages meanwhile.           *)
(*                                                                         *)
(* A message is the rank of its date among all the messages ever written.  *)
(***************************************************************************)
EXTENDS Naturals, FiniteSets

CONSTANTS
    Limit,      \* rows of a page
    MaxWritten  \* bound on the messages

PagesAssumption == Limit \in Nat \ {0} /\ MaxWritten \in Nat

VARIABLES
    written,   \* the number of messages ever written
    table,     \* those that have a row
    page,      \* the page asked for, 0 outside of a walk
    total,     \* the count of the page, once answered
    data,      \* the rows of the page, once answered
    wanted,    \* the messages there were when the walk began, less the removed
    shown,     \* the messages the walk has shown
    shifted    \* a message was removed during the walk, or written between the
               \* two queries of a page

vars == <<written, table, page, total, data, wanted, shown, shifted>>

Unanswered == MaxWritten + 1
NoRows == {0}

Init ==
    /\ written = 0
    /\ table = {}
    /\ page = 0
    /\ total = Unanswered
    /\ data = NoRows
    /\ wanted = {} /\ shown = {}
    /\ shifted = FALSE

\* One query of the page is answered and the other is not.
BetweenQueries == (total = Unanswered) # (data = NoRows)

\* create.
Write ==
    /\ written < MaxWritten
    /\ written' = written + 1
    /\ table' = table \cup {written'}
    /\ shifted' = (shifted \/ BetweenQueries)
    /\ UNCHANGED <<page, total, data, wanted, shown>>

\* remove.
Remove(m) ==
    /\ m \in table
    /\ table' = table \ {m}
    /\ wanted' = wanted \ {m}
    /\ shifted' = (shifted \/ page # 0)
    /\ UNCHANGED <<written, page, total, data, shown>>

-----------------------------------------------------------------------------
AsksPage ==
    /\ total' = Unanswered
    /\ data' = NoRows

BeginWalk ==
    /\ page = 0
    /\ page' = 1
    /\ wanted' = table
    /\ shown' = {}
    /\ shifted' = FALSE
    /\ AsksPage
    /\ UNCHANGED <<written, table>>

\* ORDER BY created_at DESC: the rows before a message.
Before(m) == Cardinality({n \in table : n > m})

OffsetFromOne(p) == p * Limit   \* mutant: pages counted from 0

\* parsePagination.
Offset(p) == (p - 1) * Limit

CountRows ==
    /\ page # 0 /\ total = Unanswered
    /\ total' = Cardinality(table)
    /\ UNCHANGED <<written, table, page, data, wanted, shown, shifted>>

ReadRows ==
    /\ page # 0 /\ data = NoRows
    /\ data' = {m \in table : Offset(page) <= Before(m) /\ Before(m) < Offset(page) + Limit}
    /\ UNCHANGED <<written, table, page, total, wanted, shown, shifted>>

Answered == page # 0 /\ total # Unanswered /\ data # NoRows
LastPage == page * Limit >= total

\* The panel shows the page and asks for the next.
NextPage ==
    /\ Answered /\ ~LastPage
    /\ shown' = shown \cup data
    /\ page' = page + 1
    /\ AsksPage
    /\ UNCHANGED <<written, table, wanted, shifted>>

EndWalk ==
    /\ Answered /\ LastPage
    /\ shown' = shown \cup data
    /\ page' = 0
    /\ AsksPage
    /\ UNCHANGED <<written, table, wanted, shifted>>

Next ==
    \/ Write
    \/ \E m \in table : Remove(m)
    \/ BeginWalk \/ CountRows \/ ReadRows \/ NextPage \/ EndWalk

Spec == Init /\ [][Next]_vars

-----------------------------------------------------------------------------
TypeOK ==
    /\ written \in 0..MaxWritten
    /\ table \subseteq 1..written
    /\ page \in 0..(MaxWritten + 1)
    /\ total \in 0..Unanswered
    /\ data \subseteq 0..written
    /\ wanted \subseteq 1..written /\ shown \subseteq 1..written
    /\ shifted \in BOOLEAN

\* A walk over the pages shows every message that was there when it began and
\* still is, although new ones push the rows from page to page; unless one was
\* removed meanwhile, or written between the two queries of one page.
NoMessageSkipped == page = 0 /\ ~shifted => wanted \subseteq shown
=============================================================================
