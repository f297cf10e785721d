---------------------------- MODULE ContactProofs ----------------------------
(***************************************************************************)
(* Theorems of Contact, ContactPages and Redaction, for any number of      *)
(* messages, of attempts and of rows on a page, and for any text typed and *)
(* any URL.                                                                *)
(***************************************************************************)
EXTENDS MCContact, Sequences, FiniteSetTheorems, TLAPS

-----------------------------------------------------------------------------
\* The mail.

\* An attempt that is running may still give a copy.
AttemptsBoundCopies ==
    \A m \in Messages :
        /\ copies[m] <= attempt[m]
        /\ m \notin drawn => phase[m] = "none" /\ copies[m] = 0
        /\ phase[m] = "sending" => copies[m] < attempt[m]
        /\ phase[m] = "waiting" => attempt[m] < MaxRetries

MailInv == MailTypeOK /\ AttemptsBoundCopies /\ MailedOnce

\* Nothing is mailed at the start.
LEMMA MailStarts == MailInit => MailInv
<1> SUFFICES ASSUME MailInit PROVE MailInv
  OBVIOUS
<1>1. MailTypeOK
  BY ContactAssumption DEF MailInit, MailTypeOK, Phases, ContactAssumption
<1>2. AttemptsBoundCopies /\ MailedOnce
  BY DEF MailInit, AttemptsBoundCopies, MailedOnce
<1> QED BY <1>1, <1>2 DEF MailInv

\* Every step of a mail, of the owner or of the process keeps the mail in order.
LEMMA MailStays ==
  ASSUME MailInv, [MailNext]_mailVars
  PROVE  MailInv'
<1> USE ContactAssumption DEF ContactAssumption
<1>t. MailTypeOK
  BY DEF MailInv
<1>n. \A m \in Messages : attempt[m] \in 0..MaxRetries /\ copies[m] \in 0..MaxRetries
                          /\ unheard[m] \in 0..MaxRetries /\ phase[m] \in Phases
  BY <1>t DEF MailTypeOK
<1>i. \A m \in Messages :
        /\ copies[m] <= attempt[m]
        /\ m \notin drawn => phase[m] = "none" /\ copies[m] = 0
        /\ phase[m] = "sending" => copies[m] < attempt[m]
        /\ phase[m] = "waiting" => attempt[m] < MaxRetries
        /\ copies[m] <= unheard[m] + 1
        /\ phase[m] # "sent" => copies[m] = unheard[m]
  BY DEF MailInv, AttemptsBoundCopies, MailedOnce
<1> DEFINE Kept(m) == /\ attempt'[m] = attempt[m] /\ copies'[m] = copies[m]
                      /\ unheard'[m] = unheard[m] /\ phase'[m] = phase[m]
           Good(m) ==
             /\ copies'[m] <= attempt'[m]
             /\ m \notin drawn' => phase'[m] = "none" /\ copies'[m] = 0
             /\ phase'[m] = "sending" => copies'[m] < attempt'[m]
             /\ phase'[m] = "waiting" => attempt'[m] < MaxRetries
             /\ copies'[m] <= unheard'[m] + 1
             /\ phase'[m] # "sent" => copies'[m] = unheard'[m]
           Typed(m) ==
             /\ attempt'[m] \in 0..MaxRetries /\ copies'[m] \in 0..MaxRetries
             /\ unheard'[m] \in 0..MaxRetries /\ phase'[m] \in Phases
           Functions ==
             /\ attempt' = [m \in Messages |-> attempt'[m]]
             /\ copies' = [m \in Messages |-> copies'[m]]
             /\ unheard' = [m \in Messages |-> unheard'[m]]
             /\ phase' = [m \in Messages |-> phase'[m]]
           Rows == inbox' \subseteq drawn' /\ unread' \subseteq inbox' /\ drawn' \subseteq Messages
<1>g. ASSUME \A m \in Messages : Typed(m) /\ Good(m), Functions, Rows PROVE MailInv'
  <2>1. MailTypeOK'
    BY <1>g DEF MailTypeOK
  <2> QED BY <1>g, <2>1 DEF MailInv, AttemptsBoundCopies, MailedOnce
<1>k. ASSUME NEW m \in Messages, Kept(m), m \in drawn => m \in drawn' PROVE Typed(m) /\ Good(m)
  BY <1>k, <1>n, <1>i
<1>1. ASSUME NEW m \in Messages, Create(m) \/ CreateWithoutMail(m) PROVE MailInv'
  <2>1. Functions /\ \A q \in Messages \ {m} : Kept(q) /\ (q \in drawn => q \in drawn')
    BY <1>t, <1>1 DEF Create, CreateWithoutMail, MailTypeOK
  <2>2. Rows
    BY <1>t, <1>1 DEF Create, CreateWithoutMail, MailTypeOK
  <2>3. /\ phase[m] = "none" /\ m \in drawn'
        /\ copies'[m] = copies[m] /\ unheard'[m] = unheard[m]
        /\ (phase'[m] = "sending" /\ attempt'[m] = 1)
           \/ (phase'[m] = "logged" /\ attempt'[m] = attempt[m])
    BY <1>t, <1>i, <1>1 DEF Create, CreateWithoutMail, MailTypeOK
  <2>4. Typed(m) /\ Good(m)
    <3>1. copies[m] = 0 /\ unheard[m] = 0 /\ attempt[m] \in 0..MaxRetries
      BY <1>n, <1>i, <1>1, <2>3 DEF Create, CreateWithoutMail
    <3>2. CASE phase'[m] = "sending" /\ attempt'[m] = 1
      BY <2>3, <3>1, <3>2 DEF Phases
    <3>3. CASE phase'[m] = "logged" /\ attempt'[m] = attempt[m]
      BY <2>3, <3>1, <3>3 DEF Phases, Ends
    <3> QED BY <2>3, <3>2, <3>3
  <2> QED BY <1>g, <1>k, <2>1, <2>2, <2>4
<1>2. ASSUME NEW m \in Messages, Send(m) PROVE MailInv'
  <2>1. /\ Functions /\ \A q \in Messages \ {m} : Kept(q)
        /\ UNCHANGED rows
    BY <1>t, <1>2 DEF Send, Accepted, Rejected, AnswerLost, Retry, AfterFailure, MailTypeOK
  <2>2. Rows /\ drawn' = drawn
    BY <1>t, <2>1 DEF rows, MailTypeOK
  <2>3. CASE Accepted(m)
    <3>1. /\ phase[m] = "sending" /\ phase'[m] = "sent" /\ copies'[m] = copies[m] + 1
          /\ attempt'[m] = attempt[m] /\ unheard'[m] = unheard[m]
      BY <1>t, <2>3 DEF Accepted, MailTypeOK
    <3>2. Typed(m) /\ Good(m)
      BY <1>n, <1>i, <2>2, <3>1 DEF Phases, Ends
    <3> QED BY <1>g, <1>k, <2>1, <2>2, <3>2
  <2>4. CASE Rejected(m)
    <3>1. /\ phase[m] = "sending" /\ copies'[m] = copies[m]
          /\ phase'[m] = IF attempt[m] < MaxRetries THEN "waiting" ELSE "logged"
          /\ attempt'[m] = attempt[m] /\ unheard'[m] = unheard[m]
      BY <1>t, <2>4 DEF Rejected, AfterFailure, HasAttempts, MailTypeOK
    <3>2. Typed(m) /\ Good(m)
      BY <1>n, <1>i, <2>2, <3>1 DEF Phases, Ends
    <3> QED BY <1>g, <1>k, <2>1, <2>2, <3>2
  <2>5. CASE AnswerLost(m)
    <3>1. /\ phase[m] = "sending" /\ copies'[m] = copies[m] + 1
          /\ phase'[m] = IF attempt[m] < MaxRetries THEN "waiting" ELSE "logged"
          /\ attempt'[m] = attempt[m] /\ unheard'[m] = unheard[m] + 1
      BY <1>t, <2>5 DEF AnswerLost, AfterFailure, HasAttempts, MailTypeOK
    <3>2. Typed(m) /\ Good(m)
      BY <1>n, <1>i, <2>2, <3>1 DEF Phases, Ends
    <3> QED BY <1>g, <1>k, <2>1, <2>2, <3>2
  <2>6. CASE Retry(m)
    <3>1. /\ phase[m] = "waiting" /\ phase'[m] = "sending" /\ copies'[m] = copies[m]
          /\ attempt'[m] = attempt[m] + 1 /\ unheard'[m] = unheard[m]
      BY <1>t, <2>6 DEF Retry, MailTypeOK
    <3>2. Typed(m) /\ Good(m)
      BY <1>n, <1>i, <2>2, <3>1 DEF Phases, Ends
    <3> QED BY <1>g, <1>k, <2>1, <2>2, <3>2
  <2> QED BY <1>2, <2>3, <2>4, <2>5, <2>6 DEF Send
<1>3. ASSUME UNCHANGED mail, drawn' = drawn, Rows PROVE MailInv'
  <2>1. Functions /\ \A m \in Messages : Kept(m)
    BY <1>t, <1>3 DEF mail, MailTypeOK
  <2> QED BY <1>3, <1>g, <1>k, <2>1
<1>4. ASSUME NEW m \in Messages, MarkRead(m) \/ Remove(m) PROVE MailInv'
  BY <1>t, <1>3, <1>4 DEF MarkRead, Remove, MailTypeOK
<1>5. ASSUME MarkAllRead PROVE MailInv'
  BY <1>t, <1>3, <1>5 DEF MarkAllRead, MailTypeOK
<1>6. ASSUME Crash PROVE MailInv'
  <2>1. PICK taken \in SUBSET {m \in Messages : phase[m] = "sending"} :
           /\ copies' = [m \in Messages |-> copies[m] + IF m \in taken THEN 1 ELSE 0]
           /\ unheard' = [m \in Messages |-> unheard[m] + IF m \in taken THEN 1 ELSE 0]
    BY <1>6 DEF Crash
  <2>2. /\ phase' = [m \in Messages |-> IF phase[m] \in {"sending", "waiting"} THEN "stopped"
                                         ELSE phase[m]]
        /\ UNCHANGED <<inbox, unread, drawn, attempt>>
    BY <1>6 DEF Crash, rows
  <2>3. Functions /\ Rows
    BY <1>t, <2>1, <2>2 DEF MailTypeOK
  <2>4. ASSUME NEW m \in Messages PROVE Typed(m) /\ Good(m)
    <3>1. /\ copies'[m] = copies[m] + IF m \in taken THEN 1 ELSE 0
          /\ unheard'[m] = unheard[m] + IF m \in taken THEN 1 ELSE 0
          /\ attempt'[m] = attempt[m] /\ drawn' = drawn
          /\ phase'[m] = IF phase[m] \in {"sending", "waiting"} THEN "stopped" ELSE phase[m]
      BY <2>1, <2>2
    <3>2. m \in taken => phase[m] = "sending"
      BY <2>1
    <3>3. phase'[m] \in Phases
      BY <1>n, <3>1 DEF Phases, Ends
    <3>4. CASE m \in taken
      BY <1>n, <1>i, <3>1, <3>2, <3>3, <3>4
    <3>5. CASE m \notin taken
      BY <1>n, <1>i, <3>1, <3>3, <3>5
    <3> QED BY <3>4, <3>5
  <2> QED BY <1>g, <2>3, <2>4
<1>7. ASSUME UNCHANGED mailVars PROVE MailInv'
  BY <1>t, <1>3, <1>7 DEF mailVars, mail, MailTypeOK
<1> QED BY <1>1, <1>2, <1>4, <1>5, <1>6, <1>7 DEF MailNext

\* The owner receives a message once, and again only if the answer of the
\* server of mail was lost; what the log calls not sent is not known to be.
THEOREM AlwaysMailedOnce == MailSpec => []MailedOnce
<1>1. MailInv /\ [MailNext]_mailVars => MailInv'
  BY MailStays
<1>2. MailInv => MailedOnce
  BY DEF MailInv
<1> QED BY MailStarts, <1>1, <1>2, PTL DEF MailSpec

-----------------------------------------------------------------------------
\* The pages.

\* The instance has the finite sets and the cardinalities of this module.
LEMMA SameCardinality ==
  \A S : (List!IsFiniteSet(S) <=> IsFiniteSet(S)) /\ List!Cardinality(S) = Cardinality(S)
BY DEF List!IsFiniteSet, IsFiniteSet, List!Cardinality, Cardinality

\* What is wanted has a row, rows that were read are messages, and nothing is
\* asked for outside of a walk.
WalkIsSane ==
    /\ wanted \subseteq table
    /\ data = List!NoRows \/ data \subseteq 1..written
    /\ page = 0 => total = List!Unanswered /\ data = List!NoRows

\* A walk nothing has shifted.
Walking == page # 0 /\ ~shifted

\* It has shown what is before its page, whatever was written since: new
\* messages only push the wanted ones further down.
ShownSoFar ==
    Walking => \A m \in wanted : List!Before(m) < List!Offset(page) => m \in shown

\* With the rows of the page, what is before the end of the page.
PageIsRead ==
    Walking /\ data # List!NoRows =>
        \A m \in wanted : List!Before(m) < List!Offset(page) + Limit => m \in shown \cup data

\* Nothing was written since a count that waits for its rows.
CountIsFresh ==
    Walking /\ total # List!Unanswered /\ data = List!NoRows => total = Cardinality(table)

\* The last page has the rest.
LastPageHasRest ==
    Walking /\ List!Answered /\ List!LastPage => wanted \subseteq shown \cup data

ListInv ==
    /\ List!TypeOK /\ WalkIsSane
    /\ ShownSoFar /\ PageIsRead /\ CountIsFresh /\ LastPageHasRest
    /\ NoMessageSkipped

\* The pages follow each other.
LEMMA PagesFollow ==
  ASSUME NEW p \in Nat \ {0}
  PROVE  /\ Limit \in Nat /\ p * Limit \in Nat /\ p <= p * Limit
         /\ List!Offset(p) \in Nat /\ List!Offset(p) + Limit = p * Limit
         /\ List!Offset(p + 1) = p * Limit
<1>1. Limit \in Nat \ {0}
  BY ListAssumption DEF List!PagesAssumption
<1>2. p * Limit \in Nat /\ (p - 1) * Limit \in Nat /\ p * Limit = (p - 1) * Limit + Limit
  BY <1>1
<1>3. p <= p * Limit
  BY <1>1
<1>4. (p + 1) - 1 = p
  OBVIOUS
<1> QED BY <1>1, <1>2, <1>3, <1>4 DEF List!Offset

\* There are not more rows than messages, and a row is one of those that are
\* not before it.
LEMMA RowsCount ==
  ASSUME List!TypeOK
  PROVE  /\ IsFiniteSet(table) /\ Cardinality(table) \in Nat /\ Cardinality(table) <= MaxWritten
         /\ \A m \in table : List!Before(m) \in Nat /\ List!Before(m) < Cardinality(table)
<1>1. written \in Nat /\ written <= MaxWritten /\ MaxWritten \in Nat /\ table \in SUBSET (1..written)
  BY ListAssumption DEF List!TypeOK, List!PagesAssumption
<1>2. IsFiniteSet(1..written) /\ Cardinality(1..written) = written
  BY <1>1, FS_Interval
<1>3. IsFiniteSet(table) /\ Cardinality(table) <= written /\ Cardinality(table) \in Nat
  BY <1>1, <1>2, FS_Subset, FS_CardinalityType
<1>4. ASSUME NEW m \in table
      PROVE  List!Before(m) \in Nat /\ List!Before(m) < Cardinality(table)
  <2> DEFINE T == {n \in table : n > m}
  <2>1. T \in SUBSET table /\ m \notin T
    BY <1>1
  <2>2. List!Before(m) = Cardinality(T)
    BY SameCardinality DEF List!Before
  <2> HIDE DEF T
  <2>3. IsFiniteSet(T) /\ Cardinality(T) <= Cardinality(table) /\ Cardinality(T) # Cardinality(table)
    BY <1>3, <2>1, FS_Subset
  <2>4. Cardinality(T) \in Nat
    BY <2>3, FS_CardinalityType
  <2> QED BY <1>3, <2>2, <2>3, <2>4
<1> QED BY <1>1, <1>3, <1>4

\* A new message is before the others.
LEMMA WriteMovesDown ==
  ASSUME List!TypeOK, List!TypeOK', table \subseteq table', NEW m \in table
  PROVE  List!Before(m)' \in Nat /\ List!Before(m) <= List!Before(m)'
<1> DEFINE S == {n \in table' : n > m}
           T == {n \in table : n > m}
<1>1. IsFiniteSet(table') /\ S \in SUBSET table'
  <2>1. written' \in Nat /\ table' \in SUBSET (1..written')
    BY ListAssumption DEF List!TypeOK, List!PagesAssumption
  <2>2. IsFiniteSet(1..written')
    BY <2>1, FS_Interval
  <2> QED BY <2>1, <2>2, FS_Subset
<1>2. T \in SUBSET S
  OBVIOUS
<1>3. List!Before(m) = Cardinality(T) /\ List!Before(m)' = Cardinality(S)
  BY SameCardinality DEF List!Before
<1> HIDE DEF S, T
<1>4. IsFiniteSet(S)
  BY <1>1, FS_Subset
<1> QED BY <1>2, <1>3, <1>4, FS_Subset, FS_CardinalityType

\* Before any walk.
LEMMA ListInit == List!Init => ListInv
<1> SUFFICES ASSUME List!Init PROVE ListInv
  OBVIOUS
<1>1. List!TypeOK
  <2>1. MaxWritten \in Nat
    BY ListAssumption DEF List!PagesAssumption
  <2>2. 0 \in 0..MaxWritten /\ 0 \in 0..(MaxWritten + 1) /\ MaxWritten + 1 \in 0..(MaxWritten + 1)
        /\ {0} \subseteq 0..0
    BY <2>1
  <2> QED BY <2>2 DEF List!Init, List!TypeOK, List!Unanswered, List!NoRows
<1>2. WalkIsSane /\ ShownSoFar /\ PageIsRead /\ CountIsFresh /\ LastPageHasRest
  BY DEF List!Init, WalkIsSane, Walking, ShownSoFar, PageIsRead, CountIsFresh, LastPageHasRest
<1>3. NoMessageSkipped
  BY DEF List!Init, NoMessageSkipped, List!NoMessageSkipped
<1> QED BY <1>1, <1>2, <1>3 DEF ListInv

\* A page of a walk exists: it begins before the last row that was counted.
LEMMA ListTyped ==
  ASSUME List!TypeOK, WalkIsSane, [List!Next]_(List!vars)
  PROVE  List!TypeOK' /\ WalkIsSane'
<1>n. /\ written \in Nat /\ written <= MaxWritten /\ MaxWritten \in Nat /\ table \subseteq 1..written
      /\ page \in Nat /\ page <= MaxWritten + 1 /\ List!Unanswered = MaxWritten + 1
      /\ total \in 0..(MaxWritten + 1) /\ Cardinality(table) \in 0..MaxWritten
  BY ListAssumption, RowsCount DEF List!TypeOK, List!PagesAssumption, List!Unanswered
<1>1. ASSUME List!Write PROVE List!TypeOK' /\ WalkIsSane'
  <2>1. /\ written' = written + 1 /\ written' \in 0..MaxWritten /\ table' = table \cup {written + 1}
        /\ shifted' \in BOOLEAN /\ UNCHANGED <<page, total, data, wanted, shown>>
    BY <1>1, <1>n DEF List!Write, List!TypeOK, List!BetweenQueries
  <2>2. 1..written \subseteq 1..written' /\ 0..written \subseteq 0..written' /\ written + 1 \in 1..written'
    BY <1>n, <2>1
  <2>3. List!TypeOK'
    BY <2>1, <2>2 DEF List!TypeOK, List!Unanswered
  <2>4. WalkIsSane'
    BY <2>1, <2>2 DEF WalkIsSane, List!Unanswered, List!NoRows
  <2> QED BY <2>3, <2>4
<1>2. ASSUME NEW m \in table, List!Remove(m) PROVE List!TypeOK' /\ WalkIsSane'
  BY <1>2 DEF List!Remove, List!TypeOK, WalkIsSane, List!Unanswered, List!NoRows
<1>3. ASSUME List!BeginWalk PROVE List!TypeOK' /\ WalkIsSane'
  <2>1. 1 \in 0..(MaxWritten + 1) /\ MaxWritten + 1 \in 0..(MaxWritten + 1) /\ {0} \subseteq 0..written
    BY <1>n
  <2> QED
    BY <1>3, <1>n, <2>1
    DEF List!BeginWalk, List!AsksPage, List!TypeOK, WalkIsSane, List!Unanswered, List!NoRows
<1>4. ASSUME List!CountRows PROVE List!TypeOK' /\ WalkIsSane'
  <2>1. total' = Cardinality(table) /\ page # 0 /\ UNCHANGED <<written, table, page, data, wanted, shown, shifted>>
    BY <1>4, SameCardinality DEF List!CountRows
  <2>2. total' \in 0..(MaxWritten + 1)
    BY <1>n, <2>1
  <2> QED BY <2>1, <2>2 DEF List!TypeOK, WalkIsSane, List!Unanswered, List!NoRows
<1>5. ASSUME List!ReadRows PROVE List!TypeOK' /\ WalkIsSane'
  <2>1. /\ data' \subseteq table /\ page # 0
        /\ UNCHANGED <<written, table, page, total, wanted, shown, shifted>>
    BY <1>5 DEF List!ReadRows
  <2>2. data' \subseteq 1..written /\ data' \subseteq 0..written
    BY <1>n, <2>1
  <2> QED BY <2>1, <2>2 DEF List!TypeOK, WalkIsSane, List!Unanswered, List!NoRows
<1>6. ASSUME List!NextPage \/ List!EndWalk PROVE List!TypeOK' /\ WalkIsSane'
  <2>1. /\ shown' = shown \cup data /\ total' = List!Unanswered /\ data' = List!NoRows
        /\ data # List!NoRows /\ UNCHANGED <<written, table, wanted, shifted>>
    BY <1>6 DEF List!NextPage, List!EndWalk, List!AsksPage, List!Answered
  <2>2. shown' \subseteq 1..written
    BY <2>1 DEF List!TypeOK, WalkIsSane
  <2>3. page' \in 0..(MaxWritten + 1)
    <3>1. CASE List!NextPage
      <4>1. page # 0 /\ total # List!Unanswered /\ ~(page * Limit >= total) /\ page' = page + 1
        BY <3>1 DEF List!NextPage, List!Answered, List!LastPage
      <4>2. page * Limit \in Nat /\ page <= page * Limit
        BY <1>n, <4>1, PagesFollow
      <4>3. page * Limit < MaxWritten + 1
        BY <1>n, <4>1, <4>2
      <4> QED BY <1>n, <4>1, <4>2, <4>3
    <3>2. CASE List!EndWalk
      BY <1>n, <3>2 DEF List!EndWalk
    <3> QED BY <1>6, <3>1, <3>2
  <2>4. List!Unanswered \in 0..List!Unanswered /\ {0} \subseteq 0..written
    BY <1>n
  <2> QED BY <2>1, <2>2, <2>3, <2>4 DEF List!TypeOK, WalkIsSane, List!Unanswered, List!NoRows
<1>7. ASSUME UNCHANGED List!vars PROVE List!TypeOK' /\ WalkIsSane'
  BY <1>7 DEF List!vars, List!TypeOK, WalkIsSane, List!Unanswered, List!NoRows
<1> QED BY <1>1, <1>2, <1>3, <1>4, <1>5, <1>6, <1>7 DEF List!Next

\* The second query of a page that no message came in between.
LEMMA PageAnswered ==
  ASSUME List!TypeOK, WalkIsSane, page # 0, NEW rows_, NEW count,
         count = Cardinality(table), List!Offset(page) + Limit >= count,
         \A m \in wanted : List!Before(m) < List!Offset(page) + Limit => m \in shown \cup rows_
  PROVE  wanted \subseteq shown \cup rows_
<1>1. page \in Nat \ {0}
  BY ListAssumption DEF List!TypeOK, List!PagesAssumption
<1>2. List!Offset(page) \in Nat /\ Limit \in Nat
  BY <1>1, PagesFollow
<1>3. ASSUME NEW m \in wanted PROVE List!Before(m) < List!Offset(page) + Limit
  <2>1. m \in table
    BY DEF WalkIsSane
  <2>2. List!Before(m) \in Nat /\ List!Before(m) < count /\ count \in Nat
    BY <2>1, RowsCount
  <2> QED BY <1>2, <2>2
<1> QED BY <1>3

\* Every step of the walk, and every message written or removed during it.
LEMMA ListNext ==
  ASSUME ListInv, [List!Next]_(List!vars)
  PROVE  ListInv'
<1>t. List!TypeOK /\ WalkIsSane
  BY DEF ListInv
<1>t2. List!TypeOK' /\ WalkIsSane'
  BY <1>t, ListTyped
<1>n. page \in Nat
  BY ListAssumption DEF ListInv, List!TypeOK, List!PagesAssumption
<1>o. page # 0 => /\ Limit \in Nat /\ List!Offset(page) \in Nat
                  /\ List!Offset(page) + Limit = page * Limit /\ List!Offset(page + 1) = page * Limit
  BY <1>n, PagesFollow
<1> DEFINE Rest == ShownSoFar' /\ PageIsRead' /\ CountIsFresh' /\ LastPageHasRest'
                   /\ NoMessageSkipped'
<1>1. ASSUME List!Write PROVE Rest
  <2>1. /\ table' = table \cup {written'} /\ shifted' = (shifted \/ List!BetweenQueries)
        /\ UNCHANGED <<page, total, data, wanted, shown>>
    BY <1>1 DEF List!Write
  <2>2. ~shifted' => ~shifted /\ ((total = List!Unanswered) <=> (data = List!NoRows))
    <3>1. ~shifted' => ~shifted /\ ~List!BetweenQueries
      BY <2>1
    <3> QED BY <3>1 DEF List!BetweenQueries
  <2>3. ASSUME NEW m \in wanted
        PROVE  /\ List!Before(m) \in Nat /\ List!Before(m)' \in Nat
               /\ List!Before(m) <= List!Before(m)'
    <3>1. m \in table
      BY <1>t DEF WalkIsSane
    <3> QED BY <1>t, <1>t2, <2>1, <3>1, RowsCount, WriteMovesDown
  <2>4. ShownSoFar'
    <3>1. ASSUME Walking', NEW m \in wanted, List!Before(m)' < List!Offset(page) PROVE m \in shown
      <4>1. Walking
        BY <2>1, <2>2, <3>1 DEF Walking
      <4>2. List!Before(m) < List!Offset(page)
        BY <1>o, <2>3, <3>1, <4>1 DEF Walking
      <4> QED BY <4>1, <4>2 DEF ListInv, ShownSoFar
    <3> QED BY <2>1, <3>1 DEF ShownSoFar, List!Offset
  <2>5. PageIsRead'
    <3>1. ASSUME Walking', data # List!NoRows, NEW m \in wanted,
                 List!Before(m)' < List!Offset(page) + Limit
          PROVE  m \in shown \cup data
      <4>1. Walking
        BY <2>1, <2>2, <3>1 DEF Walking
      <4>2. List!Before(m) < List!Offset(page) + Limit
        BY <1>o, <2>3, <3>1, <4>1 DEF Walking
      <4> QED BY <3>1, <4>1, <4>2 DEF ListInv, PageIsRead
    <3> QED BY <2>1, <3>1 DEF PageIsRead, List!Offset, List!NoRows
  <2>6. CountIsFresh' /\ LastPageHasRest' /\ NoMessageSkipped'
    BY <2>1, <2>2
    DEF ListInv, Walking, CountIsFresh, LastPageHasRest, List!Answered, List!LastPage,
        List!Unanswered, List!NoRows, NoMessageSkipped, List!NoMessageSkipped
  <2> QED BY <2>4, <2>5, <2>6
<1>2. ASSUME NEW m \in table, List!Remove(m) PROVE Rest
  <2>1. shifted' = (shifted \/ page # 0) /\ wanted' \subseteq wanted /\ shown' = shown /\ page' = page
    BY <1>2 DEF List!Remove
  <2>2. ~Walking'
    BY <2>1 DEF Walking
  <2>3. NoMessageSkipped'
    BY <2>1 DEF ListInv, NoMessageSkipped, List!NoMessageSkipped
  <2> QED BY <2>2, <2>3 DEF ShownSoFar, PageIsRead, CountIsFresh, LastPageHasRest
<1>3. ASSUME List!BeginWalk PROVE Rest
  <2>1. /\ page' = 1 /\ wanted' = table /\ shown' = {} /\ table' = table
        /\ total' = List!Unanswered /\ data' = List!NoRows
    BY <1>3 DEF List!BeginWalk, List!AsksPage
  <2>2. ASSUME NEW m \in table PROVE ~(List!Before(m)' < List!Offset(1))
    <3>1. List!Before(m)' = List!Before(m)
      BY <2>1 DEF List!Before
    <3>2. List!Offset(1) = 0
      BY <1>o, ListAssumption DEF List!Offset, List!PagesAssumption
    <3>3. List!Before(m) \in Nat
      BY <1>t, RowsCount
    <3> QED BY <3>1, <3>2, <3>3
  <2>3. ShownSoFar'
    BY <2>1, <2>2 DEF ShownSoFar, List!Offset
  <2> QED
    BY <2>1, <2>3
    DEF PageIsRead, CountIsFresh, LastPageHasRest, List!Answered, List!NoRows, List!Unanswered,
        NoMessageSkipped, List!NoMessageSkipped
<1>4. ASSUME List!CountRows PROVE Rest
  <2>1. /\ page # 0 /\ total = List!Unanswered /\ total' = Cardinality(table)
        /\ UNCHANGED <<written, table, page, data, wanted, shown, shifted>>
    BY <1>4, SameCardinality DEF List!CountRows
  <2>2. ShownSoFar' /\ PageIsRead'
    BY <2>1 DEF ListInv, Walking, ShownSoFar, PageIsRead, List!Before, List!Offset, List!NoRows
  <2>3. CountIsFresh' /\ NoMessageSkipped'
    BY <2>1 DEF CountIsFresh, NoMessageSkipped, List!NoMessageSkipped
  <2>4. ASSUME Walking, data # List!NoRows, page * Limit >= Cardinality(table)
        PROVE  wanted \subseteq shown \cup data
    <3>1. \A m \in wanted : List!Before(m) < List!Offset(page) + Limit => m \in shown \cup data
      BY <2>4 DEF ListInv, PageIsRead
    <3> QED BY <1>t, <1>o, <2>1, <2>4, <3>1, PageAnswered
  <2>5. LastPageHasRest'
    BY <2>1, <2>4 DEF LastPageHasRest, Walking, List!Answered, List!LastPage, List!NoRows
  <2> QED BY <2>2, <2>3, <2>5
<1>5. ASSUME List!ReadRows PROVE Rest
  <2>1. /\ page # 0 /\ data = List!NoRows
        /\ data' = {m \in table : List!Offset(page) <= List!Before(m)
                                  /\ List!Before(m) < List!Offset(page) + Limit}
        /\ UNCHANGED <<written, table, page, total, wanted, shown, shifted>>
    BY <1>5 DEF List!ReadRows
  <2>2. data' # List!NoRows
    BY <1>t, <2>1 DEF List!NoRows, List!TypeOK
  <2>3. ASSUME Walking, NEW m \in wanted, List!Before(m) < List!Offset(page) + Limit
        PROVE  m \in shown \cup data'
    <3>1. m \in table /\ List!Before(m) \in Nat
      BY <1>t, RowsCount DEF WalkIsSane
    <3>2. CASE List!Before(m) < List!Offset(page)
      BY <2>3, <3>2 DEF ListInv, ShownSoFar
    <3>3. CASE List!Offset(page) <= List!Before(m)
      BY <2>1, <2>3, <3>1, <3>3
    <3> QED BY <1>o, <2>1, <3>1, <3>2, <3>3
  <2>4. ShownSoFar' /\ PageIsRead'
    BY <2>1, <2>3
    DEF ListInv, Walking, ShownSoFar, PageIsRead, List!Before, List!Offset
  <2>5. CountIsFresh' /\ NoMessageSkipped'
    BY <2>1, <2>2 DEF CountIsFresh, NoMessageSkipped, List!NoMessageSkipped, List!NoRows
  <2>6. ASSUME Walking, total # List!Unanswered, page * Limit >= total
        PROVE  wanted \subseteq shown \cup data'
    <3>1. total = Cardinality(table)
      BY <2>1, <2>6 DEF ListInv, CountIsFresh
    <3> QED BY <1>t, <1>o, <2>1, <2>3, <2>6, <3>1, PageAnswered
  <2>7. LastPageHasRest'
    BY <2>1, <2>6 DEF LastPageHasRest, Walking, List!Answered, List!LastPage, List!Unanswered
  <2> QED BY <2>4, <2>5, <2>7
<1>6. ASSUME List!NextPage PROVE Rest
  <2>1. /\ page # 0 /\ data # List!NoRows /\ shown' = shown \cup data /\ page' = page + 1
        /\ total' = List!Unanswered /\ data' = List!NoRows
        /\ UNCHANGED <<written, table, wanted, shifted>>
    BY <1>6 DEF List!NextPage, List!Answered, List!AsksPage
  <2>2. page' # 0
    BY <1>n, <2>1
  <2>3. ASSUME ~shifted, NEW m \in wanted, List!Before(m) < List!Offset(page + 1)
        PROVE  m \in shown \cup data
    BY <1>o, <2>1, <2>3 DEF ListInv, PageIsRead, Walking
  <2>4. ShownSoFar'
    BY <2>1, <2>3 DEF ShownSoFar, Walking, List!Before, List!Offset
  <2> QED
    BY <2>1, <2>2, <2>4
    DEF PageIsRead, CountIsFresh, LastPageHasRest, List!Answered, List!NoRows, List!Unanswered,
        NoMessageSkipped, List!NoMessageSkipped
<1>7. ASSUME List!EndWalk PROVE Rest
  <2>1. /\ List!Answered /\ List!LastPage /\ page # 0 /\ shown' = shown \cup data /\ page' = 0
        /\ UNCHANGED <<wanted, shifted>>
    BY <1>7 DEF List!EndWalk, List!Answered
  <2>2. NoMessageSkipped'
    BY <2>1 DEF ListInv, LastPageHasRest, Walking, NoMessageSkipped, List!NoMessageSkipped
  <2> QED BY <2>1, <2>2 DEF Walking, ShownSoFar, PageIsRead, CountIsFresh, LastPageHasRest
<1>8. ASSUME UNCHANGED List!vars PROVE Rest
  <2>1. ShownSoFar' /\ PageIsRead'
    BY <1>8
    DEF List!vars, ListInv, Walking, ShownSoFar, PageIsRead, List!Before, List!Offset, List!NoRows
  <2>2. CountIsFresh' /\ LastPageHasRest' /\ NoMessageSkipped'
    BY <1>8
    DEF List!vars, ListInv, Walking, CountIsFresh, LastPageHasRest, List!Answered, List!LastPage,
        List!Unanswered, List!NoRows, NoMessageSkipped, List!NoMessageSkipped
  <2> QED BY <2>1, <2>2
<1>9. Rest
  BY <1>1, <1>2, <1>3, <1>4, <1>5, <1>6, <1>7, <1>8 DEF List!Next
<1> QED BY <1>t2, <1>9 DEF ListInv

\* A walk over the pages shows every message that was there when it began and
\* still is, unless one was removed or came between the queries of a page.
THEOREM NeverMessageSkipped == List!Spec => []NoMessageSkipped
<1>1. ListInv /\ [List!Next]_(List!vars) => ListInv'
  BY ListNext
<1>2. ListInv => NoMessageSkipped
  BY DEF ListInv
<1> QED BY ListInit, <1>1, <1>2, PTL DEF List!Spec

-----------------------------------------------------------------------------
\* What is reported of a failure.

Pieces == {"sql", "params:", "typed", "frame", "reason"}

\* Two texts one after the other.
LEMMA Joined ==
  ASSUME NEW a \in Seq(Pieces), NEW b \in Seq(Pieces), NEW c, c = a \o b
  PROVE  /\ c \in Seq(Pieces) /\ Len(c) = Len(a) + Len(b)
         /\ \A i \in 1..Len(a) : c[i] = a[i]
         /\ \A i \in 1..Len(b) : c[Len(a) + i] = b[i]
<1>1. c \in Seq(Pieces) /\ Len(c) = Len(a) + Len(b)
  OBVIOUS
<1>2. \A i \in 1..Len(a) : c[i] = a[i]
  OBVIOUS
<1>3. \A i \in 1..Len(b) : c[Len(a) + i] = b[i]
  OBVIOUS
<1> QED BY <1>1, <1>2, <1>3

\* A text with a query: the values t follow a "params:" at its place, a
\* "params:" and a typed piece are only there.
Laid(text, at, t) ==
    /\ text \in Seq(Pieces) /\ t \in Seq({"typed", "frame", "params:"})
    /\ at \in 2..Len(text) /\ at + Len(t) <= Len(text)
    /\ text[at - 1] = "sql" /\ text[at] = "params:"
    /\ \A k \in 1..Len(t) : text[at + k] = t[k]
    /\ \A i \in 1..Len(text) :
          i < at \/ i > at + Len(t) => text[i] \in {"sql", "frame", "reason"}

\* Where the pieces of the message and of the stacks are.
LEMMA MessageLaid ==
  ASSUME NEW f \in Reports!Failure
  PROVE  /\ Laid(Reports!QueryMessage(f.typed), 2, f.typed)
         /\ Laid(Reports!Message(f), 2, f.typed)
         /\ Reports!Message(f)[3 + Len(f.typed)] = "reason"
         /\ Len(Reports!Message(f)) = 3 + Len(f.typed)
<1> DEFINE t == f.typed
           m == Reports!QueryMessage(t)
<1>1. t \in Seq({"typed", "frame", "params:"})
  BY ReportsAssumption DEF Reports!RedactionAssumption, Reports!Failure
<1>2. t \in Seq(Pieces) /\ Len(t) \in Nat /\ DOMAIN t = 1..Len(t)
  BY <1>1 DEF Pieces
<1> DEFINE h == <<"sql", "params:">>
<1>3. h \in Seq(Pieces) /\ Len(h) = 2 /\ h[1] = "sql" /\ h[2] = "params:"
  BY DEF Pieces
<1> HIDE DEF h, t
<1>4. m = h \o t
  BY DEF h, Reports!QueryMessage
<1>5. /\ m \in Seq(Pieces) /\ Len(m) = 2 + Len(t)
      /\ m[1] = "sql" /\ m[2] = "params:"
      /\ \A k \in 1..Len(t) : m[2 + k] = t[k]
  <2>1. /\ m \in Seq(Pieces) /\ Len(m) = Len(h) + Len(t)
        /\ \A i \in 1..Len(h) : m[i] = h[i]
        /\ \A i \in 1..Len(t) : m[Len(h) + i] = t[i]
    <3> HIDE DEF m
    <3>1. h \in Seq(Pieces) /\ t \in Seq(Pieces)
      BY <1>2, <1>3
    <3> QED BY <1>4, <3>1, Joined
  <2> HIDE DEF m
  <2> QED BY <1>2, <1>3, <2>1
<1> HIDE DEF m
<1>6. Laid(m, 2, t)
  BY <1>1, <1>2, <1>5 DEF Laid
<1> DEFINE r == <<"reason">>
           w == m \o r
<1>7. r \in Seq(Pieces) /\ Len(r) = 1 /\ r[1] = "reason"
  BY DEF Pieces
<1> HIDE DEF r
<1>8. /\ w \in Seq(Pieces) /\ Len(w) = 3 + Len(t) /\ w[3 + Len(t)] = "reason"
      /\ \A i \in 1..(2 + Len(t)) : w[i] = m[i]
  <2>1. /\ w \in Seq(Pieces) /\ Len(w) = Len(m) + Len(r)
        /\ \A i \in 1..Len(m) : w[i] = m[i]
        /\ \A i \in 1..Len(r) : w[Len(m) + i] = r[i]
    <3>1. w = m \o r
      OBVIOUS
    <3> HIDE DEF w
    <3>2. m \in Seq(Pieces) /\ r \in Seq(Pieces)
      BY <1>5, <1>7
    <3> QED BY <3>1, <3>2, Joined
  <2> HIDE DEF w
  <2>2. w[Len(m) + 1] = "reason" /\ Len(m) + 1 = 3 + Len(t)
    BY <1>2, <1>5, <1>7, <2>1
  <2> QED BY <1>2, <1>5, <1>7, <2>1, <2>2
<1> HIDE DEF w
<1>9. Laid(w, 2, t)
  BY <1>1, <1>2, <1>5, <1>8 DEF Laid
<1>10. Reports!Message(f) = w
  BY DEF w, m, r, t, Reports!Message
<1> QED BY <1>6, <1>8, <1>9, <1>10 DEF m, t

LEMMA StackLaid ==
  ASSUME NEW f \in Reports!Failure
  PROVE  /\ f.kind = "query" => /\ Laid(Reports!Stack(f), 2, f.typed)
                                /\ Len(Reports!Stack(f)) = 5 + Len(f.typed)
         /\ \E at \in Nat : Laid(Reports!Stack(f), at, f.typed)
<1> DEFINE t == f.typed
           m == Reports!QueryMessage(t)
           q == Reports!QueryStack(t)
           r == <<"reason", "frame">>
           h == <<"frame">>
           w == q \o r
           v == h \o w
<1>1. /\ t \in Seq({"typed", "frame", "params:"}) /\ Len(t) \in Nat
      /\ f.kind \in Reports!Kinds
  BY ReportsAssumption DEF Reports!RedactionAssumption, Reports!Failure
<1>2. Laid(m, 2, t) /\ Len(m) = 2 + Len(t)
  <2>1. Laid(m, 2, t)
    BY MessageLaid
  <2>2. Len(m) = 2 + Len(t)
    BY <1>1 DEF Reports!QueryMessage
  <2> QED BY <2>1, <2>2
<1>3. /\ r \in Seq(Pieces) /\ Len(r) = 2 /\ r[1] = "reason" /\ r[2] = "frame"
      /\ h \in Seq(Pieces) /\ Len(h) = 1 /\ h[1] = "frame"
  BY DEF Pieces
<1>4. q = m \o h
  BY DEF Reports!QueryStack
<1> HIDE DEF t, m, r, h, q
<1>5. /\ q \in Seq(Pieces) /\ Len(q) = 3 + Len(t) /\ q[3 + Len(t)] = "frame"
      /\ \A i \in 1..(2 + Len(t)) : q[i] = m[i]
  <2>1. /\ q \in Seq(Pieces) /\ Len(q) = Len(m) + Len(h)
        /\ \A i \in 1..Len(m) : q[i] = m[i]
        /\ \A i \in 1..Len(h) : q[Len(m) + i] = h[i]
    <3>1. m \in Seq(Pieces) /\ h \in Seq(Pieces)
      BY <1>2, <1>3 DEF Laid
    <3> QED BY <1>4, <3>1, Joined
  <2>2. q[Len(m) + 1] = "frame" /\ Len(m) + 1 = 3 + Len(t)
    BY <1>1, <1>2, <1>3, <2>1
  <2> QED BY <1>1, <1>2, <1>3, <2>1, <2>2
<1>6. Laid(q, 2, t)
  BY <1>1, <1>2, <1>5 DEF Laid
<1>7. /\ w \in Seq(Pieces) /\ Len(w) = 5 + Len(t)
      /\ w[4 + Len(t)] = "reason" /\ w[5 + Len(t)] = "frame"
      /\ \A i \in 1..(3 + Len(t)) : w[i] = q[i]
  <2>1. /\ w \in Seq(Pieces) /\ Len(w) = Len(q) + Len(r)
        /\ \A i \in 1..Len(q) : w[i] = q[i]
        /\ \A i \in 1..Len(r) : w[Len(q) + i] = r[i]
    <3>1. w = q \o r
      OBVIOUS
    <3> HIDE DEF w
    <3>2. q \in Seq(Pieces) /\ r \in Seq(Pieces)
      BY <1>3, <1>5
    <3> QED BY <3>1, <3>2, Joined
  <2> HIDE DEF w
  <2>2. /\ w[Len(q) + 1] = "reason" /\ Len(q) + 1 = 4 + Len(t)
        /\ w[Len(q) + 2] = "frame" /\ Len(q) + 2 = 5 + Len(t)
    BY <1>1, <1>3, <1>5, <2>1
  <2> QED BY <1>1, <1>3, <1>5, <2>1, <2>2
<1> HIDE DEF w
<1>8. Laid(w, 2, t)
  <2>1. ASSUME NEW i \in 1..Len(w), i < 2 \/ i > 2 + Len(t)
        PROVE  w[i] \in {"sql", "frame", "reason"}
    <3>1. CASE i \in 1..(3 + Len(t))
      BY <1>1, <1>5, <1>6, <1>7, <2>1, <3>1 DEF Laid
    <3>2. CASE i \notin 1..(3 + Len(t))
      <4>1. i = 4 + Len(t) \/ i = 5 + Len(t)
        BY <1>1, <1>7, <3>2
      <4> QED BY <1>7, <4>1
    <3> QED BY <3>1, <3>2
  <2>2. \A k \in 1..Len(t) : w[2 + k] = t[k]
    <3>1. SUFFICES ASSUME NEW k \in 1..Len(t) PROVE w[2 + k] = t[k]
      OBVIOUS
    <3>2. 2 + k \in 1..(3 + Len(t))
      BY <1>1
    <3> QED BY <1>6, <1>7, <3>2 DEF Laid
  <2> QED BY <1>1, <1>5, <1>6, <1>7, <2>1, <2>2 DEF Laid
<1>9. /\ v \in Seq(Pieces) /\ Len(v) = 6 + Len(t) /\ v[1] = "frame"
      /\ \A i \in 1..(5 + Len(t)) : v[1 + i] = w[i]
  <2>1. v = h \o w
    OBVIOUS
  <2> HIDE DEF v
  <2>2. /\ v \in Seq(Pieces) /\ Len(v) = Len(h) + Len(w)
        /\ \A i \in 1..Len(h) : v[i] = h[i]
        /\ \A i \in 1..Len(w) : v[Len(h) + i] = w[i]
    <3>1. h \in Seq(Pieces) /\ w \in Seq(Pieces)
      BY <1>3, <1>7
    <3> QED BY <2>1, <3>1, Joined
  <2> QED BY <1>1, <1>3, <1>7, <2>2
<1> HIDE DEF v
<1>10. Laid(v, 3, t)
  <2>1. ASSUME NEW k \in 1..Len(t) PROVE v[3 + k] = t[k]
    <3>1. 2 + k \in 1..(5 + Len(t)) /\ 1 + (2 + k) = 3 + k
      BY <1>1
    <3>2. v[3 + k] = w[2 + k]
      BY <1>9, <3>1
    <3> QED BY <1>8, <3>2 DEF Laid
  <2>2. \A i \in 1..Len(v) : i < 3 \/ i > 3 + Len(t) => v[i] \in {"sql", "frame", "reason"}
    <3>1. SUFFICES ASSUME NEW i \in 1..Len(v), i < 3 \/ i > 3 + Len(t), i # 1
                   PROVE  v[i] \in {"sql", "frame", "reason"}
      BY <1>9
    <3>2. /\ i - 1 \in 1..Len(w) /\ v[1 + (i - 1)] = w[i - 1] /\ 1 + (i - 1) = i
          /\ i - 1 < 2 \/ i - 1 > 2 + Len(t)
      BY <1>1, <1>7, <1>9, <3>1
    <3> QED BY <1>8, <3>2 DEF Laid
  <2> QED BY <1>1, <1>7, <1>8, <1>9, <2>1, <2>2 DEF Laid
<1>11. CASE f.kind = "query"
  <2>1. Reports!Stack(f) = w
    BY <1>11 DEF Reports!Stack, w, q, r, t
  <2> QED BY <1>7, <1>8, <2>1 DEF t
<1>12. CASE f.kind = "wrapped"
  <2>1. Reports!Stack(f) = (h \o q) \o r
    BY <1>12 DEF Reports!Stack, h, q, r, t
  <2>2. Reports!Stack(f) = v
    BY <1>3, <1>5, <2>1 DEF v, w
  <2> QED BY <1>10, <1>12, <2>2 DEF t
<1>13. CASE f.kind = "copied"
  <2>1. Reports!Stack(f) = q
    BY <1>13 DEF Reports!Stack, q, t
  <2> QED BY <1>6, <1>13, <2>1 DEF t
<1> QED BY <1>1, <1>11, <1>12, <1>13 DEF Reports!Kinds

\* The length of a text, its positions and what the masks are functions of.
LEMMA LaidFacts ==
  ASSUME NEW text, NEW at, NEW t, Laid(text, at, t)
  PROVE  /\ Len(text) \in Nat /\ DOMAIN text = 1..Len(text)
         /\ Len(t) \in Nat /\ DOMAIN t = 1..Len(t)
         /\ at \in Nat /\ at >= 2
         /\ \A k \in 1..Len(t) : t[k] \in {"typed", "frame", "params:"}
         /\ \A i \in 1..Len(text) : text[i] \in Pieces
<1>1. text \in Seq(Pieces) /\ t \in Seq({"typed", "frame", "params:"}) /\ at \in 2..Len(text)
  BY DEF Laid
<1>2. Len(text) \in Nat /\ DOMAIN text = 1..Len(text) /\ Len(t) \in Nat /\ DOMAIN t = 1..Len(t)
  BY <1>1
<1> QED BY <1>1, <1>2

\* A piece that may be typed is one of the values.
LEMMA TypedIsInside ==
  ASSUME NEW text, NEW at, NEW t, Laid(text, at, t), NEW i \in 1..Len(text),
         text[i] \in {"typed", "params:"}
  PROVE  i = at \/ (at < i /\ i <= at + Len(t) /\ i - at \in 1..Len(t) /\ text[i] = t[i - at])
<1>1. /\ at \in Nat /\ Len(t) \in Nat /\ Len(text) \in Nat
  BY LaidFacts
<1>2. ~(i < at \/ i > at + Len(t))
  BY DEF Laid
<1>3. CASE i # at
  <2>1. i - at \in 1..Len(t) /\ at + (i - at) = i
    BY <1>1, <1>2, <1>3
  <2> QED BY <1>1, <1>2, <1>3, <2>1 DEF Laid
<1> QED BY <1>3

-----------------------------------------------------------------------------
\* Masked to the next frame: only what follows a typed frame is left.
LEMMA FrameMaskHides ==
  ASSUME NEW text, NEW at, NEW t, Laid(text, at, t),
         "typed" \in Reports!Range(Reports!MaskToFrame(text))
  PROVE  Reports!Contains(t, "frame")
<1>f. /\ Len(text) \in Nat /\ DOMAIN text = 1..Len(text) /\ Len(t) \in Nat /\ at \in Nat /\ at >= 2
      /\ at \in 1..Len(text) /\ text[at] = "params:"
  BY LaidFacts DEF Laid
<1>1. PICK i \in 1..Len(text) : Reports!MaskToFrame(text)[i] = "typed"
  BY <1>f DEF Reports!Range, Reports!MaskToFrame
<1>2. ~Reports!InParams(text, i) /\ text[i] = "typed"
  BY <1>f, <1>1 DEF Reports!MaskToFrame
<1>3. at < i /\ i <= at + Len(t)
  BY <1>f, <1>2, TypedIsInside
<1>4. PICK k \in (at + 1)..i : text[k] = "frame"
  BY <1>f, <1>2, <1>3 DEF Reports!InParams
<1>5. k - at \in 1..Len(t) /\ at + (k - at) = k
  BY <1>f, <1>3, <1>4
<1>6. t[k - at] = "frame"
  BY <1>4, <1>5 DEF Laid
<1> QED BY <1>5, <1>6 DEF Reports!Contains

\* The query and every frame are left.
LEMMA FrameMaskKeeps ==
  ASSUME NEW text, NEW at, NEW t, Laid(text, at, t)
  PROVE  /\ "sql" \in Reports!Range(Reports!MaskToFrame(text))
         /\ Reports!Frames(Reports!MaskToFrame(text)) = Reports!Frames(text)
<1>f. /\ Len(text) \in Nat /\ DOMAIN text = 1..Len(text) /\ Len(t) \in Nat /\ at \in Nat /\ at >= 2
      /\ at \in 1..Len(text) /\ text[at - 1] = "sql" /\ at - 1 \in 1..Len(text)
  BY LaidFacts DEF Laid
<1> DEFINE m == Reports!MaskToFrame(text)
<1>1. DOMAIN m = 1..Len(text)
  BY <1>f DEF Reports!MaskToFrame
<1>2. m[at - 1] = "sql"
  <2>1. ~Reports!InParams(text, at - 1)
    <3>1. ASSUME NEW j \in 1..(at - 1 - 1), text[j] = "params:" PROVE FALSE
      <4>1. j \in 1..Len(text) /\ j < at
        BY <1>f
      <4> QED BY <1>f, <3>1, <4>1, TypedIsInside
    <3> QED BY <3>1 DEF Reports!InParams
  <2> QED BY <1>f, <2>1 DEF Reports!MaskToFrame
<1>3. ASSUME NEW i \in 1..Len(text) PROVE m[i] = "frame" <=> text[i] = "frame"
  <2>1. text[i] = "frame" => ~Reports!InParams(text, i)
    <3>1. ASSUME NEW j \in 1..(i - 1) PROVE i \in (j + 1)..i
      BY <1>f
    <3> QED BY <3>1 DEF Reports!InParams
  <2> QED BY <1>f, <2>1 DEF Reports!MaskToFrame
<1> HIDE DEF m
<1>4. {i \in DOMAIN m : m[i] = "frame"} = {i \in DOMAIN text : text[i] = "frame"}
  BY <1>f, <1>1, <1>3
<1>5. "sql" \in Reports!Range(m) /\ Reports!Frames(m) = Reports!Frames(text)
  BY <1>f, <1>1, <1>2, <1>4 DEF Reports!Range, Reports!Frames
<1> QED BY <1>5 DEF m

\* The instance has the cardinalities of this module.
LEMMA SameCount == \A S : Reports!Cardinality(S) = Cardinality(S)
BY DEF Reports!Cardinality, Cardinality

\* The values are in the text once: a second place would leave it one "params:"
\* short.
LEMMA ValuesAreOnce ==
  ASSUME NEW f \in Reports!Failure, f.kind = "query",
         NEW text, NEW at, Laid(text, at, f.typed), NEW j \in 1..Len(text)
  PROVE  Reports!ParamsAt(f, text, j) <=> j = at
<1> DEFINE t == f.typed
<1>t. f.typed = t
  OBVIOUS
<1>p. Reports!Params(f) = t
  BY DEF Reports!Params
<1> HIDE DEF t
<1>f. /\ Len(text) \in Nat /\ Len(t) \in Nat /\ DOMAIN t = 1..Len(t) /\ at \in Nat /\ at >= 2
      /\ at \in 1..Len(text) /\ text[at] = "params:" /\ Laid(text, at, t)
  BY <1>t, LaidFacts DEF Laid
<1>1. ASSUME j = at PROVE Reports!ParamsAt(f, text, j)
  BY <1>1, <1>p, <1>f DEF Laid, Reports!ParamsAt
<1>2. ASSUME Reports!ParamsAt(f, text, j), j # at PROVE FALSE
  <2> DEFINE P == {i \in 1..Len(text) : text[i] = "params:"}
             g == [i \in P |-> i + j - at]
             Q == {i + j - at : i \in P}
  <2>1. /\ j + Len(t) <= Len(text) /\ text[j] = "params:"
        /\ \A k \in 1..Len(t) : text[j + k] = t[k]
    BY <1>2, <1>p, <1>f DEF Reports!ParamsAt
  <2>2. at < j
    <3>1. j = at \/ (at < j /\ j <= at + Len(t))
      BY <1>f, <2>1, TypedIsInside
    <3> QED BY <1>2, <3>1
  <2>3. ASSUME NEW i \in P PROVE i >= at /\ i + j - at \in P
    <3>1. i = at \/ (at < i /\ i <= at + Len(t) /\ i - at \in 1..Len(t) /\ text[i] = t[i - at])
      BY <1>f, TypedIsInside
    <3>2. CASE i = at
      BY <1>f, <2>1, <3>2
    <3>3. CASE i # at
      <4>1. i - at \in 1..Len(t) /\ j + (i - at) = i + j - at
        BY <1>f, <3>1, <3>3
      <4>2. text[i + j - at] = "params:"
        BY <2>1, <3>1, <3>3, <4>1
      <4>3. i + j - at \in 1..Len(text)
        BY <1>f, <2>1, <4>1
      <4> QED BY <1>f, <3>1, <3>3, <4>2, <4>3
    <3> QED BY <3>2, <3>3
  <2>4. IsFiniteSet(P)
    <3>1. IsFiniteSet(1..Len(text)) /\ P \in SUBSET (1..Len(text))
      BY <1>f, FS_Interval
    <3> QED BY <3>1, FS_Subset
  <2>5. Q \in SUBSET P /\ at \in P /\ at \notin Q
    <3>1. at \in P
      BY <1>f
    <3>2. ASSUME NEW i \in P PROVE i + j - at # at
      <4>1. i \in Nat /\ j \in Nat /\ i >= at
        BY <1>f, <2>3
      <4> QED BY <1>f, <2>2, <4>1
    <3> QED BY <2>3, <3>1, <3>2
  <2>6. g \in Bijection(P, Q)
    <3>1. g \in [P -> Q]
      OBVIOUS
    <3>2. ASSUME NEW a \in P, NEW b \in P, g[a] = g[b] PROVE a = b
      BY <1>f, <3>2
    <3>3. ASSUME NEW q \in Q PROVE \E i \in P : g[i] = q
      OBVIOUS
    <3> HIDE DEF g, P, Q
    <3> QED BY <3>1, <3>2, <3>3 DEF Bijection, Injection, Surjection, IsInjective
  <2> HIDE DEF P, Q, g
  <2>7. Cardinality(Q) = Cardinality(P)
    BY <2>4, <2>6, FS_Bijection DEF ExistsBijection
  <2> QED BY <2>4, <2>5, <2>7, FS_Subset
<1> QED BY <1>1, <1>2

\* Masked where they are: exactly the values are masked.
LEMMA ExactMask ==
  ASSUME NEW f \in Reports!Failure, f.kind = "query",
         NEW text, NEW at, Laid(text, at, f.typed), NEW i \in 1..Len(text)
  PROVE  Reports!MaskExact(f, text)[i]
            = IF at < i /\ i <= at + Len(f.typed) THEN "filtered" ELSE text[i]
<1>1. Reports!Params(f) = f.typed
  BY DEF Reports!Params
<1>2. Len(text) \in Nat /\ DOMAIN text = 1..Len(text) /\ at \in 1..Len(text)
  BY LaidFacts DEF Laid
<1>3. (\E j \in 1..(i - 1) : Reports!ParamsAt(f, text, j) /\ i <= j + Len(f.typed))
        <=> at < i /\ i <= at + Len(f.typed)
  <2>1. \A j \in 1..(i - 1) : Reports!ParamsAt(f, text, j) <=> j = at
    <3>1. \A j \in 1..(i - 1) : j \in 1..Len(text)
      BY <1>2
    <3> QED BY <3>1, ValuesAreOnce
  <2>2. at \in 1..(i - 1) <=> at < i
    BY <1>2
  <2> QED BY <2>1, <2>2
<1> QED BY <1>1, <1>2, <1>3 DEF Reports!MaskExact

\* What is left of a text whose values are known.
LEMMA ExactMaskHidesAndKeeps ==
  ASSUME NEW f \in Reports!Failure, f.kind = "query",
         NEW text, NEW at, Laid(text, at, f.typed)
  PROVE  /\ "typed" \notin Reports!Range(Reports!MaskExact(f, text))
         /\ "sql" \in Reports!Range(Reports!MaskExact(f, text))
         /\ \A i \in 1..Len(text) :
               text[i] = "reason" => "reason" \in Reports!Range(Reports!MaskExact(f, text))
         /\ Reports!Frames(Reports!MaskExact(f, text))
               = Reports!Frames(text) - Reports!Frames(f.typed)
<1> DEFINE t == f.typed
           m == Reports!MaskExact(f, text)
<1>t. f.typed = t
  OBVIOUS
<1> HIDE DEF t
<1>f. /\ Len(text) \in Nat /\ DOMAIN text = 1..Len(text) /\ Len(t) \in Nat /\ DOMAIN t = 1..Len(t)
      /\ at \in Nat /\ at >= 2 /\ at \in 1..Len(text) /\ at + Len(t) <= Len(text)
      /\ text[at - 1] = "sql" /\ at - 1 \in 1..Len(text) /\ Laid(text, at, t)
      /\ text[at] = "params:"
      /\ \A k \in 1..Len(t) : text[at + k] = t[k]
      /\ \A k \in 1..Len(t) : t[k] \in {"typed", "frame", "params:"}
  BY <1>t, LaidFacts DEF Laid
<1>1. DOMAIN m = 1..Len(text)
  BY <1>f DEF Reports!MaskExact
<1>2. \A i \in 1..Len(text) : m[i] = IF at < i /\ i <= at + Len(t) THEN "filtered" ELSE text[i]
  BY <1>t, ExactMask
<1> HIDE DEF m
<1>3. "typed" \notin Reports!Range(m)
  <2>1. ASSUME NEW i \in 1..Len(text), m[i] = "typed" PROVE FALSE
    <3>1. text[i] = "typed" /\ ~(at < i /\ i <= at + Len(t))
      BY <1>2, <2>1
    <3> QED BY <1>f, <3>1, TypedIsInside
  <2> QED BY <1>1, <2>1 DEF Reports!Range
<1>4. "sql" \in Reports!Range(m)
  BY <1>f, <1>1, <1>2 DEF Reports!Range
<1>5. ASSUME NEW i \in 1..Len(text), text[i] = "reason" PROVE "reason" \in Reports!Range(m)
  <2>1. ~(at < i /\ i <= at + Len(t))
    <3>1. ASSUME at < i, i <= at + Len(t) PROVE FALSE
      <4>1. i - at \in 1..Len(t) /\ at + (i - at) = i
        BY <1>f, <3>1
      <4>2. text[i] = t[i - at] /\ t[i - at] \in {"typed", "frame", "params:"}
        <5> DEFINE k == i - at
        <5>1. k \in 1..Len(t) /\ at + k = i
          BY <4>1
        <5> HIDE DEF k
        <5>2. text[at + k] = t[k] /\ t[k] \in {"typed", "frame", "params:"}
          BY <1>f, <5>1
        <5> QED BY <5>1, <5>2 DEF k
      <4> QED BY <1>5, <4>2
    <3> QED BY <3>1
  <2> QED BY <1>1, <1>2, <1>5, <2>1 DEF Reports!Range
<1>6. Reports!Frames(m) = Reports!Frames(text) - Reports!Frames(t)
  <2> DEFINE A == {i \in DOMAIN m : m[i] = "frame"}
             B == {i \in (at + 1)..(at + Len(t)) : text[i] = "frame"}
             C == {k \in DOMAIN t : t[k] = "frame"}
             D == {i \in DOMAIN text : text[i] = "frame"}
             g == [k \in C |-> at + k]
  <2>1. ASSUME NEW i \in 1..Len(text) PROVE i \in D <=> i \in A \cup B
    <3>1. i \in (at + 1)..(at + Len(t)) <=> at < i /\ i <= at + Len(t)
      BY <1>f
    <3> QED BY <1>f, <1>1, <1>2, <3>1
  <2>2. A \in SUBSET (1..Len(text)) /\ B \in SUBSET (1..Len(text))
    BY <1>f, <1>1
  <2>3. D = A \cup B
    BY <1>f, <2>1, <2>2
  <2>4. A \cap B = {}
    <3>1. ASSUME NEW i \in A, i \in B PROVE FALSE
      <4>1. at < i /\ i <= at + Len(t) /\ i \in 1..Len(text)
        BY <1>f, <1>1, <3>1
      <4> QED BY <1>1, <1>2, <4>1
    <3> QED BY <3>1
  <2>5. g \in Bijection(C, B)
    <3>1. ASSUME NEW k \in C PROVE g[k] \in B
      BY <1>f
    <3>2. ASSUME NEW k \in C, NEW l \in C, g[k] = g[l] PROVE k = l
      BY <1>f, <3>2
    <3>3. ASSUME NEW i \in B PROVE \E k \in C : g[k] = i
      <4>1. i - at \in 1..Len(t) /\ at + (i - at) = i
        BY <1>f
      <4>2. i - at \in C
        BY <1>f, <4>1
      <4> QED BY <4>1, <4>2
    <3>4. g \in [C -> B]
      BY <3>1
    <3> HIDE DEF g, B, C
    <3> QED BY <3>2, <3>3, <3>4 DEF Bijection, Injection, Surjection, IsInjective
  <2>6. IsFiniteSet(1..Len(text)) /\ IsFiniteSet(1..Len(t)) /\ C \in SUBSET (1..Len(t))
    BY <1>f, FS_Interval
  <2>7. /\ Reports!Frames(m) = Cardinality(A) /\ Reports!Frames(text) = Cardinality(D)
        /\ Reports!Frames(t) = Cardinality(C)
    BY SameCount DEF Reports!Frames
  <2> HIDE DEF A, B, C, D, g
  <2>8. IsFiniteSet(A) /\ IsFiniteSet(B) /\ IsFiniteSet(C)
    BY <2>2, <2>6, FS_Subset
  <2>9. Cardinality(B) = Cardinality(C)
    BY <2>5, <2>8, FS_Bijection DEF ExistsBijection
  <2>10. Cardinality(D) = Cardinality(A) + Cardinality(B)
    <3>1. Cardinality(A \cup B) = Cardinality(A) + Cardinality(B) - Cardinality(A \cap B)
      BY <2>8, FS_Union
    <3>2. Cardinality(A \cap B) = 0 /\ Cardinality(A) \in Nat /\ Cardinality(B) \in Nat
      BY <2>4, <2>8, FS_EmptySet, FS_CardinalityType
    <3> QED BY <2>3, <3>1, <3>2
  <2>11. Cardinality(A) \in Nat /\ Cardinality(B) \in Nat
    BY <2>8, FS_CardinalityType
  <2> QED BY <2>7, <2>9, <2>10, <2>11
<1> QED BY <1>t, <1>3, <1>4, <1>5, <1>6 DEF m

\* The first place of a piece is a place of it, and no other is before it.
LEMMA FirstIsFirst ==
  ASSUME NEW piece, NEW text, NEW S, text \in Seq(S), Reports!Contains(text, piece)
  PROVE  /\ Reports!First(piece, text) \in 1..Len(text)
         /\ text[Reports!First(piece, text)] = piece
         /\ \A i \in 1..Len(text) : text[i] = piece => Reports!First(piece, text) <= i
<1> DEFINE P == {i \in DOMAIN text : text[i] = piece}
           R == OpToRel(<, Nat)
<1>f. Len(text) \in Nat /\ DOMAIN text = 1..Len(text)
  OBVIOUS
<1>1. P # {} /\ P \in SUBSET Nat
  BY <1>f DEF Reports!Contains
<1>2. \A i, j \in Nat : i < j => <<i, j>> \in R
  BY DEF OpToRel
<1>3. IsWellFoundedOn(R, Nat)
  BY NatLessThanWellFounded, Zenon
<1> HIDE DEF R, P
<1>4. PICK m \in P : \A n \in P : ~ (<<n, m>> \in R)
  BY <1>1, <1>3, WFMin, Zenon
<1>5. ASSUME NEW n \in P PROVE m <= n
  <2>1. n \in Nat /\ m \in Nat /\ ~ (<<n, m>> \in R)
    BY <1>1, <1>4
  <2>2. ~ (n < m)
    BY <1>2, <2>1
  <2> QED BY <2>1, <2>2
<1>6. Reports!Min(P) \in P /\ \A n \in P : Reports!Min(P) <= n
  BY <1>4, <1>5 DEF Reports!Min
<1> QED BY <1>f, <1>6 DEF P, Reports!First

\* A text cut behind its n-th piece, and closed.
LEMMA CutAndClosed ==
  ASSUME NEW S, NEW text \in Seq(S), "filtered" \in S, NEW n \in 1..Len(text),
         NEW cut, cut = SubSeq(text, 1, n) \o <<"filtered">>
  PROVE  /\ cut \in Seq(S) /\ Len(cut) = n + 1 /\ cut[n + 1] = "filtered"
         /\ \A i \in 1..n : cut[i] = text[i]
<1> DEFINE a == SubSeq(text, 1, n)
           b == <<"filtered">>
<1>1. n \in Nat /\ Len(text) \in Nat /\ n <= Len(text)
  OBVIOUS
<1>2. a \in Seq(S) /\ Len(a) = n /\ \A i \in 1..n : a[i] = text[i]
  BY <1>1
<1>3. b \in Seq(S) /\ Len(b) = 1 /\ b[1] = "filtered"
  OBVIOUS
<1>4. cut = a \o b
  OBVIOUS
<1> HIDE DEF a, b
<1>5. a \in Seq(S) /\ b \in Seq(S)
  BY <1>2, <1>3
<1>6. /\ cut \in Seq(S) /\ Len(cut) = Len(a) + Len(b)
      /\ \A i \in 1..Len(a) : cut[i] = a[i]
      /\ \A i \in 1..Len(b) : cut[Len(a) + i] = b[i]
  <2>1. cut \in Seq(S) /\ Len(cut) = Len(a) + Len(b)
    BY <1>4, <1>5
  <2>2. \A i \in 1..Len(a) : cut[i] = a[i]
    BY <1>4, <1>5
  <2>3. \A i \in 1..Len(b) : cut[Len(a) + i] = b[i]
    BY <1>4, <1>5
  <2> QED BY <2>1, <2>2, <2>3
<1> QED BY <1>1, <1>2, <1>3, <1>6

\* Masked to its end.
LEMMA EndMask ==
  ASSUME NEW text, NEW at, NEW t, Laid(text, at, t)
  PROVE  /\ "typed" \notin Reports!Range(Reports!MaskToEnd(text))
         /\ "sql" \in Reports!Range(Reports!MaskToEnd(text))
<1> DEFINE T == Pieces \cup {"filtered"}
           n == Reports!First("params:", text)
           m == SubSeq(text, 1, n) \o <<"filtered">>
<1>f. /\ text \in Seq(T) /\ at \in 1..Len(text) /\ at >= 2 /\ Len(text) \in Nat
      /\ text[at] = "params:" /\ text[at - 1] = "sql"
  BY LaidFacts DEF Laid
<1>1. Reports!Contains(text, "params:")
  BY <1>f DEF Reports!Contains
<1>2. n \in 1..Len(text) /\ text[n] = "params:" /\ n <= at
  BY <1>f, <1>1, FirstIsFirst
<1>3. n = at
  BY <1>f, <1>2, TypedIsInside
<1>4. Reports!MaskToEnd(text) = m
  BY <1>1 DEF Reports!MaskToEnd
<1> HIDE DEF n
<1>5. m \in Seq(T) /\ Len(m) = at + 1 /\ m[at + 1] = "filtered" /\ \A i \in 1..at : m[i] = text[i]
  <2>1. "filtered" \in T
    OBVIOUS
  <2> HIDE DEF T
  <2> QED BY <1>f, <1>2, <1>3, <2>1, CutAndClosed
<1> HIDE DEF m
<1>6. DOMAIN m = 1..(at + 1) /\ at \in Nat
  BY <1>f, <1>5
<1>7. "sql" \in Reports!Range(m)
  <2>1. at - 1 \in 1..at /\ at - 1 \in 1..(at + 1)
    BY <1>f
  <2> QED BY <1>f, <1>5, <1>6, <2>1 DEF Reports!Range
<1>8. ASSUME NEW i \in 1..(at + 1), m[i] = "typed" PROVE FALSE
  <2>1. CASE i = at + 1
    BY <1>5, <1>8, <2>1
  <2>2. CASE i # at + 1
    <3>1. i \in 1..at /\ i \in 1..Len(text)
      BY <1>f, <2>2
    <3>2. text[i] = "typed"
      BY <1>5, <1>8, <3>1
    <3> QED BY <1>f, <3>1, <3>2, TypedIsInside
  <2> QED BY <2>1, <2>2
<1> QED BY <1>4, <1>6, <1>7, <1>8 DEF Reports!Range

\* The cause alone has no values.
LEMMA ReasonIsKept == Reports!MaskToEnd(<<"reason">>) = <<"reason">>
<1>1. ~Reports!Contains(<<"reason">>, "params:")
  BY DEF Reports!Contains
<1> QED BY <1>1 DEF Reports!MaskToEnd

LEMMA FailureTyped ==
  ASSUME NEW f \in Reports!Failure
  PROVE  /\ f.kind \in {"query", "wrapped", "copied"} /\ f.typed \in Values /\ f.url \in Urls
         /\ f.typed \in Seq({"typed", "frame", "params:"})
         /\ f.url \in Seq({"path", "feed", "token", "other", "query"})
         /\ Reports!Exact(f) <=> f.kind = "query"
<1>1. f.kind \in {"query", "wrapped", "copied"} /\ f.typed \in Values /\ f.url \in Urls
  BY DEF Reports!Failure, Reports!Kinds
<1>2. Reports!Exact(f) <=> f.kind = "query"
  BY <1>1, ReportsAssumption DEF Reports!Exact, Reports!Params, Reports!RedactionAssumption
<1> QED BY <1>1, <1>2, ReportsAssumption DEF Reports!RedactionAssumption

\* Nothing of what was typed is left in the messages, nor, but for what looks
\* like a frame and what follows it, in the stack.
LEMMA NothingTyped ==
  ASSUME NEW f \in Reports!Failure
  PROVE  Reports!NothingTypedIsLeft(f)
<1>1. Laid(Reports!QueryMessage(f.typed), 2, f.typed) /\ Laid(Reports!Message(f), 2, f.typed)
  BY MessageLaid
<1>2. PICK at \in Nat : Laid(Reports!Stack(f), at, f.typed)
  BY StackLaid
<1>3. "typed" \notin Reports!Range(Reports!LoggedMessage(f))
  BY <1>1, FailureTyped, EndMask, ExactMaskHidesAndKeeps DEF Reports!LoggedMessage
<1>4. ASSUME NEW text \in Reports!SentryMessages(f) PROVE "typed" \notin Reports!Range(text)
  <2>1. CASE text = Reports!MaskToEnd(Reports!QueryMessage(f.typed))
    BY <1>1, <2>1, EndMask
  <2>2. CASE text = Reports!MaskToEnd(<<"reason">>)
    BY <2>2, ReasonIsKept DEF Reports!Range
  <2> QED BY <2>1, <2>2 DEF Reports!SentryMessages
<1>5. "typed" \notin Reports!Pieced({Reports!LoggedMessage(f)} \cup Reports!SentryMessages(f))
  BY <1>3, <1>4 DEF Reports!Pieced
<1>6. ASSUME "typed" \in Reports!Range(Reports!LoggedStack(f))
      PROVE  f.kind # "query" /\ Reports!Contains(f.typed, "frame")
  <2>1. f.kind # "query"
    BY <1>2, <1>6, FailureTyped, ExactMaskHidesAndKeeps DEF Reports!LoggedStack
  <2>2. Reports!LoggedStack(f) = Reports!MaskToFrame(Reports!Stack(f))
    BY <2>1, FailureTyped DEF Reports!LoggedStack
  <2> QED BY <1>2, <1>6, <2>1, <2>2, FrameMaskHides
<1> QED BY <1>5, <1>6 DEF Reports!NothingTypedIsLeft

\* What explains it is left.
LEMMA Explained ==
  ASSUME NEW f \in Reports!Failure
  PROVE  Reports!FailureIsExplained(f)
<1> DEFINE traced == Reports!Frames(Reports!Stack(f)) - Reports!Frames(f.typed)
<1>1. /\ Laid(Reports!Message(f), 2, f.typed) /\ Len(Reports!Message(f)) = 3 + Len(f.typed)
      /\ Reports!Message(f)[3 + Len(f.typed)] = "reason"
  BY MessageLaid
<1>2. PICK at \in Nat : Laid(Reports!Stack(f), at, f.typed)
  BY StackLaid
<1>3. "sql" \in Reports!Range(Reports!LoggedMessage(f))
  BY <1>1, FailureTyped, EndMask, ExactMaskHidesAndKeeps DEF Reports!LoggedMessage
<1>4. "sql" \in Reports!Range(Reports!LoggedStack(f))
  BY <1>2, FailureTyped, FrameMaskKeeps, ExactMaskHidesAndKeeps DEF Reports!LoggedStack
<1>5. "reason" \in Reports!Pieced(Reports!SentryMessages(f))
  <2>1. "reason" \in Reports!Range(<<"reason">>)
    BY DEF Reports!Range
  <2> QED BY <2>1, ReasonIsKept DEF Reports!Pieced, Reports!SentryMessages
<1>6. ASSUME f.kind = "query"
      PROVE  /\ "reason" \in Reports!Range(Reports!LoggedMessage(f))
             /\ Reports!Frames(Reports!LoggedStack(f)) = traced
  <2>1. /\ Reports!LoggedMessage(f) = Reports!MaskExact(f, Reports!Message(f))
        /\ Reports!LoggedStack(f) = Reports!MaskExact(f, Reports!Stack(f))
    BY <1>6, FailureTyped DEF Reports!LoggedMessage, Reports!LoggedStack
  <2>2. 3 + Len(f.typed) \in 1..Len(Reports!Message(f))
    BY <1>1, FailureTyped
  <2> QED BY <1>1, <1>2, <1>6, <2>1, <2>2, ExactMaskHidesAndKeeps
<1>7. Reports!Frames(Reports!Stack(f)) \in Nat /\ Reports!Frames(f.typed) \in Nat
  <2>1. ASSUME NEW text, NEW S, text \in Seq(S) PROVE Reports!Frames(text) \in Nat
    <3>1. Len(text) \in Nat /\ DOMAIN text = 1..Len(text)
      BY <2>1
    <3>2. IsFiniteSet(1..Len(text))
      BY <3>1, FS_Interval
    <3>3. {i \in DOMAIN text : text[i] = "frame"} \in SUBSET (1..Len(text))
      BY <3>1
    <3>4. Cardinality({i \in DOMAIN text : text[i] = "frame"}) \in Nat
      BY <3>2, <3>3, FS_Subset, FS_CardinalityType
    <3> QED BY <3>4, SameCount DEF Reports!Frames
  <2>2. Reports!Stack(f) \in Seq(Pieces) /\ f.typed \in Seq({"typed", "frame", "params:"})
    BY <1>2 DEF Laid
  <2> QED BY <2>1, <2>2
<1>8. Reports!Frames(Reports!LoggedStack(f)) >= traced
  <2>1. CASE f.kind = "query"
    BY <1>6, <1>7, <2>1
  <2>2. CASE f.kind # "query"
    <3>1. Reports!LoggedStack(f) = Reports!MaskToFrame(Reports!Stack(f))
      BY <2>2, FailureTyped DEF Reports!LoggedStack
    <3>2. Reports!Frames(Reports!LoggedStack(f)) = Reports!Frames(Reports!Stack(f))
      BY <1>2, <3>1, FrameMaskKeeps
    <3> QED BY <1>7, <3>2
  <2> QED BY <2>1, <2>2
<1> QED BY <1>3, <1>4, <1>5, <1>6, <1>8 DEF Reports!FailureIsExplained

\* A value of a body is left only under harmless keys.
LEMMA BodyReported ==
  ASSUME NEW f \in Reports!Failure
  PROVE  Reports!BodyIsReported(f)
<1>1. ASSUME NEW leaf \in Reports!ScrubBody(f), leaf.value = "kept"
      PROVE  f.json /\ ~Reports!Sensitive(leaf.at)
  <2>1. f.json
    BY <1>1 DEF Reports!ScrubBody
  <2>2. PICK path \in f.body :
           leaf = [at |-> path,
                   value |-> IF Reports!Sensitive(path) THEN "filtered" ELSE "kept"]
    BY <2>1 DEF Reports!ScrubBody
  <2> QED BY <1>1, <2>1, <2>2
<1> QED BY <1>1 DEF Reports!BodyIsReported, Reports!SentryRequest

-----------------------------------------------------------------------------
\* The URLs.

Segments == {"path", "feed", "token", "other", "query", "filtered"}

\* Nothing to redact: no token, and nothing left behind the path of the feed.
Clean(url) ==
    /\ url \in Seq(Segments)
    /\ \A i \in 1..Len(url) :
          /\ url[i] # "token"
          /\ url[i] = "feed" => Len(url) = i + 1 /\ url[i + 1] = "filtered"

\* Every segment of u is one of url in its place, or masked.
TakenFrom(u, url) ==
    \A i \in 1..Len(u) : u[i] = "filtered" \/ (i \in 1..Len(url) /\ u[i] = url[i])

\* A URL as it is after the feed is cut.
LEMMA FeedIsCut ==
  ASSUME NEW url \in Seq(Segments)
  PROVE  \E cut \in Seq(Segments) :
            /\ Reports!RedactUrl(url)
                  = [i \in DOMAIN cut |-> IF cut[i] = "token" THEN "filtered" ELSE cut[i]]
            /\ TakenFrom(cut, url)
            /\ \A i \in 1..Len(cut) :
                  cut[i] = "feed" => Len(cut) = i + 1 /\ cut[i + 1] = "filtered"
            /\ ~Reports!Contains(url, "feed") => cut = url
<1> DEFINE n == Reports!First("feed", url)
           cut == SubSeq(url, 1, n) \o <<"filtered">>
<1>f. Len(url) \in Nat /\ DOMAIN url = 1..Len(url)
  OBVIOUS
<1>1. CASE Reports!Contains(url, "feed")
  <2>1. /\ n \in 1..Len(url) /\ url[n] = "feed"
        /\ \A i \in 1..Len(url) : url[i] = "feed" => n <= i
    BY <1>1, FirstIsFirst
  <2>2. Reports!RedactUrl(url)
          = [i \in DOMAIN cut |-> IF cut[i] = "token" THEN "filtered" ELSE cut[i]]
    BY <1>1 DEF Reports!RedactUrl
  <2> HIDE DEF n
  <2>3. /\ cut \in Seq(Segments) /\ Len(cut) = n + 1 /\ cut[n + 1] = "filtered"
        /\ \A i \in 1..n : cut[i] = url[i]
    <3>1. "filtered" \in Segments
      BY DEF Segments
    <3> QED BY <2>1, <3>1, CutAndClosed
  <2> HIDE DEF cut
  <2>4. ASSUME NEW i \in 1..Len(cut)
        PROVE  i = n + 1 \/ (i \in 1..n /\ i \in 1..Len(url) /\ cut[i] = url[i])
    <3>1. i = n + 1 \/ (i \in 1..n /\ i \in 1..Len(url))
      BY <1>f, <2>1, <2>3
    <3> QED BY <2>3, <3>1
  <2>5. TakenFrom(cut, url)
    BY <2>3, <2>4 DEF TakenFrom
  <2>6. ASSUME NEW i \in 1..Len(cut), cut[i] = "feed"
        PROVE  Len(cut) = i + 1 /\ cut[i + 1] = "filtered"
    <3>1. i \in 1..n /\ i \in 1..Len(url) /\ url[i] = "feed"
      BY <2>3, <2>4, <2>6
    <3>2. i = n
      BY <1>f, <2>1, <3>1
    <3> QED BY <2>3, <3>2
  <2> QED BY <1>1, <2>2, <2>3, <2>5, <2>6
<1>2. CASE ~Reports!Contains(url, "feed")
  <2>1. Reports!RedactUrl(url)
          = [i \in DOMAIN url |-> IF url[i] = "token" THEN "filtered" ELSE url[i]]
    BY <1>2 DEF Reports!RedactUrl
  <2>2. TakenFrom(url, url)
    BY DEF TakenFrom
  <2>3. \A i \in 1..Len(url) : url[i] # "feed"
    BY <1>2 DEF Reports!Contains
  <2> QED BY <2>1, <2>2, <2>3
<1> QED BY <1>1, <1>2

\* A redacted URL has nothing left to redact.
LEMMA RedactedIsClean ==
  ASSUME NEW url \in Seq(Segments)
  PROVE  Clean(Reports!RedactUrl(url)) /\ TakenFrom(Reports!RedactUrl(url), url)
<1>1. PICK cut \in Seq(Segments) :
            /\ Reports!RedactUrl(url)
                  = [i \in DOMAIN cut |-> IF cut[i] = "token" THEN "filtered" ELSE cut[i]]
            /\ TakenFrom(cut, url)
            /\ \A i \in 1..Len(cut) :
                  cut[i] = "feed" => Len(cut) = i + 1 /\ cut[i + 1] = "filtered"
  BY FeedIsCut
<1> DEFINE r == [i \in 1..Len(cut) |-> IF cut[i] = "token" THEN "filtered" ELSE cut[i]]
<1>2. /\ DOMAIN cut = 1..Len(cut) /\ Len(cut) \in Nat
      /\ \A i \in 1..Len(cut) : cut[i] \in Segments
  OBVIOUS
<1>3. Reports!RedactUrl(url) = r
  BY <1>1, <1>2
<1>4. ASSUME NEW i \in 1..Len(cut)
      PROVE  r[i] = (IF cut[i] = "token" THEN "filtered" ELSE cut[i]) /\ r[i] \in Segments
  BY <1>2 DEF Segments
<1>5. r \in Seq(Segments) /\ Len(r) = Len(cut)
  BY <1>2, <1>4
<1> HIDE DEF r
<1>6. Clean(r)
  <2>1. ASSUME NEW i \in 1..Len(r)
        PROVE  r[i] # "token" /\ (r[i] = "feed" => Len(r) = i + 1 /\ r[i + 1] = "filtered")
    <3>1. r[i] # "token" /\ (r[i] = "feed" => cut[i] = "feed")
      BY <1>4, <1>5
    <3>2. ASSUME cut[i] = "feed" PROVE Len(r) = i + 1 /\ r[i + 1] = "filtered"
      <4>1. i \in 1..Len(cut) /\ Len(cut) \in Nat
        BY <1>2, <1>5
      <4>2. Len(cut) = i + 1 /\ cut[i + 1] = "filtered"
        BY <1>1, <3>2, <4>1
      <4>3. i + 1 \in 1..Len(cut)
        BY <4>1, <4>2
      <4> QED BY <1>4, <1>5, <4>2, <4>3
    <3> QED BY <3>1, <3>2
  <2> QED BY <1>5, <2>1 DEF Clean
<1>7. TakenFrom(r, url)
  BY <1>1, <1>4, <1>5 DEF TakenFrom
<1> QED BY <1>3, <1>6, <1>7

\* And redacting it changes nothing.
LEMMA CleanStays ==
  ASSUME NEW url, Clean(url)
  PROVE  Reports!RedactUrl(url) = url
<1>f. /\ url \in Seq(Segments) /\ DOMAIN url = 1..Len(url) /\ Len(url) \in Nat
      /\ url = [i \in 1..Len(url) |-> url[i]]
  BY DEF Clean
<1>1. \A i \in 1..Len(url) : url[i] # "token"
  BY DEF Clean
<1> DEFINE n == Reports!First("feed", url)
           cut == SubSeq(url, 1, n) \o <<"filtered">>
<1>2. CASE Reports!Contains(url, "feed")
  <2>1. n \in 1..Len(url) /\ url[n] = "feed"
    BY <1>f, <1>2, FirstIsFirst
  <2>2. Reports!RedactUrl(url)
          = [i \in DOMAIN cut |-> IF cut[i] = "token" THEN "filtered" ELSE cut[i]]
    BY <1>2 DEF Reports!RedactUrl
  <2> HIDE DEF n
  <2>3. Len(url) = n + 1 /\ url[n + 1] = "filtered"
    BY <2>1 DEF Clean
  <2>4. /\ cut \in Seq(Segments) /\ Len(cut) = n + 1 /\ cut[n + 1] = "filtered"
        /\ \A i \in 1..n : cut[i] = url[i]
    <3>1. "filtered" \in Segments
      BY DEF Segments
    <3> QED BY <1>f, <2>1, <3>1, CutAndClosed
  <2> HIDE DEF cut
  <2>5. DOMAIN cut = 1..Len(url) /\ \A i \in 1..Len(url) : cut[i] = url[i]
    <3>1. DOMAIN cut = 1..Len(url)
      BY <2>3, <2>4
    <3>2. ASSUME NEW i \in 1..Len(url) PROVE cut[i] = url[i]
      <4>1. i \in 1..n \/ i = n + 1
        BY <2>1, <2>3
      <4> QED BY <2>3, <2>4, <4>1
    <3> QED BY <3>1, <3>2
  <2> QED BY <1>f, <1>1, <2>2, <2>5
<1>3. CASE ~Reports!Contains(url, "feed")
  <2>1. Reports!RedactUrl(url)
          = [i \in DOMAIN url |-> IF url[i] = "token" THEN "filtered" ELSE url[i]]
    BY <1>3 DEF Reports!RedactUrl
  <2> QED BY <1>f, <1>1, <2>1
<1> QED BY <1>2, <1>3

\* A URL without its query is the beginning of it.
LEMMA Stripped ==
  ASSUME NEW url \in Seq(Segments), NEW s, s = Reports!StripQueryAndFragment(url)
  PROVE  /\ s \in Seq(Segments) /\ Len(s) <= Len(url)
         /\ \A i \in 1..Len(s) : s[i] = url[i] /\ s[i] # "query"
         /\ Len(s) < Len(url) => url[Len(s) + 1] = "query"
<1> DEFINE q == Reports!First("query", url)
<1>f. Len(url) \in Nat
  OBVIOUS
<1>1. CASE Reports!Contains(url, "query")
  <2>1. /\ q \in 1..Len(url) /\ url[q] = "query"
        /\ \A i \in 1..Len(url) : url[i] = "query" => q <= i
    BY <1>1, FirstIsFirst
  <2>2. s = SubSeq(url, 1, q - 1)
    BY <1>1 DEF Reports!StripQueryAndFragment
  <2> HIDE DEF q
  <2>3. s \in Seq(Segments) /\ Len(s) = q - 1 /\ \A i \in 1..(q - 1) : s[i] = url[i]
    BY <1>f, <2>1, <2>2
  <2>4. ASSUME NEW i \in 1..Len(s) PROVE s[i] = url[i] /\ s[i] # "query"
    <3>1. i \in 1..(q - 1) /\ i \in 1..Len(url) /\ ~(q <= i)
      BY <1>f, <2>1, <2>3
    <3> QED BY <2>1, <2>3, <3>1
  <2>5. Len(s) <= Len(url) /\ Len(s) + 1 = q
    BY <1>f, <2>1, <2>3
  <2> QED BY <2>1, <2>3, <2>4, <2>5
<1>2. CASE ~Reports!Contains(url, "query")
  BY <1>f, <1>2 DEF Reports!StripQueryAndFragment, Reports!Contains
<1> QED BY <1>1, <1>2

\* It is clean if the whole is.
LEMMA StrippedIsClean ==
  ASSUME NEW url, Clean(url)
  PROVE  Clean(Reports!StripQueryAndFragment(url))
<1> DEFINE s == Reports!StripQueryAndFragment(url)
<1>1. /\ s \in Seq(Segments) /\ Len(s) <= Len(url)
      /\ \A i \in 1..Len(s) : s[i] = url[i] /\ s[i] # "query"
      /\ Len(s) < Len(url) => url[Len(s) + 1] = "query"
  BY Stripped DEF Clean
<1> HIDE DEF s
<1>f. Len(url) \in Nat /\ Len(s) \in Nat
  BY <1>1 DEF Clean
<1>2. ASSUME NEW i \in 1..Len(s)
      PROVE  s[i] # "token" /\ (s[i] = "feed" => Len(s) = i + 1 /\ s[i + 1] = "filtered")
  <2>1. i \in 1..Len(url) /\ s[i] = url[i]
    BY <1>1, <1>f
  <2>2. url[i] # "token" /\ (url[i] = "feed" => Len(url) = i + 1 /\ url[i + 1] = "filtered")
    BY <2>1 DEF Clean
  <2>3. ASSUME url[i] = "feed" PROVE Len(s) = i + 1 /\ s[i + 1] = "filtered"
    <3>1. Len(url) = i + 1 /\ url[i + 1] = "filtered"
      BY <2>2, <2>3
    <3>2. Len(s) # i
      <4>1. ASSUME Len(s) = i PROVE url[i + 1] = "query"
        BY <1>1, <1>f, <3>1, <4>1
      <4> QED BY <3>1, <4>1
    <3>3. Len(s) = i + 1
      BY <1>1, <1>f, <3>1, <3>2
    <3> QED BY <1>1, <1>f, <3>1, <3>3
  <2> QED BY <2>1, <2>2, <2>3
<1>3. Clean(s)
  BY <1>1, <1>2 DEF Clean
<1> QED BY <1>3 DEF s

\* A URL that is reported has no query, no token, and the rest of its path.
LEMMA UrlReported ==
  ASSUME NEW f \in Reports!Failure
  PROVE  Reports!UrlIsReported(f)
<1> DEFINE u == f.url
           Right(url) == /\ {"token", "query"} \cap Reports!Range(url) = {}
                         /\ Reports!RedactUrl(url) = url
                         /\ \A i \in DOMAIN url : url[i] \in {u[i], "filtered"}
<1>1. u \in Seq(Segments) /\ \A inSpan \in Urls : inSpan \in Seq(Segments)
  BY FailureTyped, ReportsAssumption DEF Segments, Reports!RedactionAssumption
<1>2. ASSUME NEW url, Clean(url), \A i \in 1..Len(url) : url[i] # "query",
             \A i \in 1..Len(url) : url[i] \in {u[i], "filtered"}
      PROVE  Right(url)
  <2>1. DOMAIN url = 1..Len(url) /\ \A i \in 1..Len(url) : url[i] # "token"
    BY <1>2 DEF Clean
  <2> QED BY <1>2, <2>1, CleanStays DEF Reports!Range
<1> HIDE DEF u
<1>3. Right(Reports!LoggedUrl(u))
  <2> DEFINE s == Reports!StripQueryAndFragment(u)
             r == Reports!RedactUrl(s)
  <2>1. /\ s \in Seq(Segments) /\ \A i \in 1..Len(s) : s[i] = u[i] /\ s[i] # "query"
    BY <1>1, Stripped
  <2> HIDE DEF s
  <2>2. Clean(r) /\ TakenFrom(r, s)
    BY <2>1, RedactedIsClean
  <2> HIDE DEF r
  <2>3. \A i \in 1..Len(r) : r[i] # "query" /\ r[i] \in {u[i], "filtered"}
    BY <2>1, <2>2 DEF TakenFrom
  <2>4. Right(r)
    <3> HIDE DEF Right
    <3> QED BY <1>2, <2>2, <2>3
  <2> QED BY <2>4 DEF r, s, Reports!LoggedUrl
<1>4. Right(Reports!LoggedPath(u))
  <2> DEFINE r == Reports!RedactUrl(u)
             s == Reports!StripQueryAndFragment(r)
  <2>1. Clean(r) /\ TakenFrom(r, u)
    BY <1>1, RedactedIsClean
  <2> HIDE DEF r
  <2>2. r \in Seq(Segments) /\ Len(r) \in Nat
    BY <2>1 DEF Clean
  <2>3. /\ s \in Seq(Segments) /\ Len(s) <= Len(r)
        /\ \A i \in 1..Len(s) : s[i] = r[i] /\ s[i] # "query"
    BY <2>2, Stripped
  <2>4. Clean(s)
    BY <2>1, StrippedIsClean
  <2> HIDE DEF s
  <2>5. ASSUME NEW i \in 1..Len(s) PROVE s[i] # "query" /\ s[i] \in {u[i], "filtered"}
    <3>1. i \in 1..Len(r)
      BY <2>2, <2>3
    <3> QED BY <2>1, <2>3, <3>1 DEF TakenFrom
  <2>6. Right(s)
    <3> HIDE DEF Right
    <3> QED BY <1>2, <2>4, <2>5
  <2> QED BY <2>6 DEF r, s, Reports!LoggedPath
<1>5. Reports!SentryRequest(f).url = Reports!LoggedUrl(u)
  BY DEF Reports!SentryRequest, Reports!LoggedUrl, u
<1>6. ASSUME NEW inSpan \in Urls, NEW url \in Reports!TransactionUrls(u, inSpan)
      PROVE  "token" \notin Reports!Range(url)
  <2>1. url = Reports!RedactUrl(u) \/ url = Reports!RedactUrl(inSpan)
    BY DEF Reports!TransactionUrls
  <2>2. Clean(url)
    BY <1>1, <2>1, RedactedIsClean
  <2>3. DOMAIN url = 1..Len(url) /\ \A i \in 1..Len(url) : url[i] # "token"
    BY <2>2 DEF Clean
  <2> QED BY <2>3 DEF Reports!Range
<1>7. ASSUME ~Reports!Contains(u, "token"), ~Reports!Contains(u, "feed")
      PROVE  u \in Reports!TransactionUrls(u, u)
  <2>1. Clean(u)
    BY <1>1, <1>7 DEF Clean, Reports!Contains
  <2>2. Reports!RedactUrl(u) = u
    BY <2>1, CleanStays
  <2> QED BY <2>2 DEF Reports!TransactionUrls, Reports!IsFeedUrl
<1> QED BY <1>3, <1>4, <1>5, <1>6, <1>7 DEF u, Reports!UrlIsReported

\* Whatever request fails, whatever was typed and whatever its URL: what is
\* logged and sent of it explains the failure, holds nothing typed but what
\* looks like a frame lets through, no query, no token and no sensitive field.
THEOREM ReportsAlwaysRight == Reports!Spec => []ReportsAreRight
<1>1. Reports!Init => Reports!TypeOK
  BY DEF Reports!Init, Reports!TypeOK
<1>2. Reports!TypeOK /\ [Reports!Next]_failure => Reports!TypeOK'
  BY DEF Reports!TypeOK, Reports!Next, Reports!Fail, Reports!Settle
<1>3. Reports!TypeOK => ReportsAreRight
  <2>1. SUFFICES ASSUME Reports!TypeOK, failure # Nothing
                 PROVE  /\ Reports!NothingTypedIsLeft(failure)
                        /\ Reports!FailureIsExplained(failure)
                        /\ Reports!UrlIsReported(failure) /\ Reports!BodyIsReported(failure)
    BY DEF ReportsAreRight, Reports!ReportsAreRight
  <2>2. failure \in Reports!Failure
    BY <2>1 DEF Reports!TypeOK
  <2> QED BY <2>2, NothingTyped, Explained, UrlReported, BodyReported
<1> QED BY <1>1, <1>2, <1>3, PTL DEF Reports!Spec

-----------------------------------------------------------------------------
\* The three parts stay well typed, each behind the others' backs: the rows and
\* the mail, the pages of the list, the failures that are reported.
THEOREM ContactTyped == ContactSpec => []TypesOK
<1> DEFINE TypesInv == MailInv /\ List!TypeOK /\ WalkIsSane /\ Reports!TypeOK
<1>1. ContactInit => TypesInv
  BY MailStarts, ListInit DEF ContactInit, ListInv, Reports!Init, Reports!TypeOK
<1>2. ASSUME TypesInv, [ContactNext]_<<scene, mailVars, listVars, failure>> PROVE TypesInv'
  <2>1. [MailNext]_mailVars
    BY <1>2 DEF ContactNext, PlayMail, PlayList, PlayReports
  <2>2. [List!Next]_(List!vars)
    BY <1>2 DEF ContactNext, PlayMail, PlayList, PlayReports, listVars, List!vars
  <2>3. Reports!TypeOK'
    BY <1>2
    DEF ContactNext, PlayMail, PlayList, PlayReports, Reports!Next, Reports!Fail, Reports!Settle,
        Reports!TypeOK
  <2> QED BY <1>2, <2>1, <2>2, <2>3, MailStays, ListTyped
<1>3. TypesInv => TypesOK
  BY DEF MailInv, TypesOK
<1> QED BY <1>1, <1>2, <1>3, PTL DEF ContactSpec

\* A behaviour of the instance is one of each of its parts.
THEOREM ContactPlays == ContactSpec => MailSpec /\ List!Spec /\ Reports!Spec
<1>1. ContactInit => MailInit /\ List!Init /\ Reports!Init
  BY DEF ContactInit
<1>2. ASSUME [ContactNext]_<<scene, mailVars, listVars, failure>>
      PROVE  [MailNext]_mailVars /\ [List!Next]_(List!vars) /\ [Reports!Next]_failure
  <2>1. [MailNext]_mailVars
    BY <1>2 DEF ContactNext, PlayMail, PlayList, PlayReports
  <2>2. [List!Next]_(List!vars)
    BY <1>2 DEF ContactNext, PlayMail, PlayList, PlayReports, listVars, List!vars
  <2>3. [Reports!Next]_failure
    BY <1>2 DEF ContactNext, PlayMail, PlayList, PlayReports
  <2> QED BY <2>1, <2>2, <2>3
<1> QED BY <1>1, <1>2, PTL DEF ContactSpec, MailSpec, List!Spec, Reports!Spec

\* So every safety property holds of the behaviours of the instance too.
THEOREM ContactHolds == ContactSpec => [](MailedOnce /\ NoMessageSkipped /\ ReportsAreRight)
BY ContactPlays, AlwaysMailedOnce, NeverMessageSkipped, ReportsAlwaysRight, PTL
=============================================================================
