------------------------------- MODULE Contact -------------------------------
(***************************************************************************)
(* The messages of the contact form (ContactService) and the mail that     *)
(* announces each of them to the owner (MailerService).  The visitor is    *)
(* answered once the row is there; the mail follows on its own, in up to   *)
(* MaxRetries attempts.  A server of mail may accept a mail whose sender   *)
(* never hears of it.                                                      *)
(*                                                                         *)
(* A robot that fills the hidden field of the form gets the same answer    *)
(* and ends before the first step.                                         *)
(***************************************************************************)
EXTENDS Naturals, FiniteSets

CONSTANTS
    Messages,     \* the ids that can be drawn
    MaxRetries    \* MAX_RETRIES, 3 in the code

ASSUME ContactAssumption == MaxRetries \in Nat \ {0}

VARIABLES
    inbox,      \* the messages that have a row
    unread,     \* those whose column "read" is false
    drawn,      \* the messages that ever had a row
    phase,      \* what became of the mail of a message
    attempt,    \* how many attempts its sending has begun
    copies,     \* how many times the owner receives it
    unheard     \* how many of these the sender was told to have failed

mailVars == <<inbox, unread, drawn, phase, attempt, copies, unheard>>
rows == <<inbox, unread, drawn>>
mail == <<phase, attempt, copies, unheard>>

\* "sent", "logged" and "stopped" (the process has) are the ends of a mail.
Ends == {"sent", "logged", "stopped"}
Phases == {"none", "sending", "waiting"} \cup Ends

MailInit ==
    /\ inbox = {} /\ unread = {} /\ drawn = {}
    /\ phase = [m \in Messages |-> "none"]
    /\ attempt = [m \in Messages |-> 0]
    /\ copies = [m \in Messages |-> 0]
    /\ unheard = [m \in Messages |-> 0]

-----------------------------------------------------------------------------
\* create: the row, then the first attempt, which nobody awaits.
Create(m) ==
    /\ m \notin drawn
    /\ inbox' = inbox \cup {m}
    /\ unread' = unread \cup {m}
    /\ drawn' = drawn \cup {m}
    /\ phase' = [phase EXCEPT ![m] = "sending"]
    /\ attempt' = [attempt EXCEPT ![m] = 1]
    /\ UNCHANGED <<copies, unheard>>

\* The template cannot be read: fireAndForget logs it, no attempt is made.
CreateWithoutMail(m) ==
    /\ m \notin drawn
    /\ inbox' = inbox \cup {m}
    /\ unread' = unread \cup {m}
    /\ drawn' = drawn \cup {m}
    /\ phase' = [phase EXCEPT ![m] = "logged"]
    /\ UNCHANGED <<attempt, copies, unheard>>

-----------------------------------------------------------------------------
\* Mutant: the loop goes on after a success.
AcceptedOnce(m) ==
    /\ phase[m] = "sending"
    /\ copies' = [copies EXCEPT ![m] = @ + 1]
    /\ phase' = [phase EXCEPT ![m] = IF attempt[m] < MaxRetries THEN "waiting" ELSE "sent"]
    /\ UNCHANGED <<rows, attempt, unheard>>

\* The attempt succeeds, and the loop returns.
Accepted(m) ==
    /\ phase[m] = "sending"
    /\ copies' = [copies EXCEPT ![m] = @ + 1]
    /\ phase' = [phase EXCEPT ![m] = "sent"]
    /\ UNCHANGED <<rows, attempt, unheard>>

MoreAttempts(m) == attempt[m] <= MaxRetries   \* mutant: off by one

\* There is another attempt, after a wait.
HasAttempts(m) == attempt[m] < MaxRetries

AfterFailure(m) == phase' = [phase EXCEPT ![m] = IF HasAttempts(m) THEN "waiting" ELSE "logged"]

Rejected(m) ==
    /\ phase[m] = "sending"
    /\ AfterFailure(m)
    /\ UNCHANGED <<rows, attempt, copies, unheard>>

\* The server of mail took it, its answer did not come.
AnswerLost(m) ==
    /\ phase[m] = "sending"
    /\ copies' = [copies EXCEPT ![m] = @ + 1]
    /\ unheard' = [unheard EXCEPT ![m] = @ + 1]
    /\ AfterFailure(m)
    /\ UNCHANGED <<rows, attempt>>

WaitNoMore(m) == FALSE   \* mutant: the timer never fires

\* The timer fires: 1 s after the first failure, 2 s after the second.
Retry(m) ==
    /\ phase[m] = "waiting"
    /\ attempt' = [attempt EXCEPT ![m] = @ + 1]
    /\ phase' = [phase EXCEPT ![m] = "sending"]
    /\ UNCHANGED <<rows, copies, unheard>>

Send(m) == Accepted(m) \/ Rejected(m) \/ AnswerLost(m) \/ Retry(m)

-----------------------------------------------------------------------------
\* The owner's statements, one UPDATE or DELETE each; a message that is gone
\* is a 404.  The mail holds the row it was given.
MarkRead(m) ==
    /\ m \in inbox
    /\ unread' = unread \ {m}
    /\ UNCHANGED <<inbox, drawn, mail>>

MarkAllRead ==
    /\ unread' = {}
    /\ UNCHANGED <<inbox, drawn, mail>>

Remove(m) ==
    /\ m \in inbox
    /\ inbox' = inbox \ {m}
    /\ unread' = unread \ {m}
    /\ UNCHANGED <<drawn, mail>>

\* The process stops: attempts in flight may be accepted, timers are gone.
Crash ==
    /\ \E taken \in SUBSET {m \in Messages : phase[m] = "sending"} :
          /\ copies' = [m \in Messages |-> copies[m] + IF m \in taken THEN 1 ELSE 0]
          /\ unheard' = [m \in Messages |-> unheard[m] + IF m \in taken THEN 1 ELSE 0]
    /\ phase' = [m \in Messages |-> IF phase[m] \in {"sending", "waiting"} THEN "stopped"
                                    ELSE phase[m]]
    /\ UNCHANGED <<rows, attempt>>

MailNext ==
    \/ \E m \in Messages :
          \/ Create(m) \/ CreateWithoutMail(m)
          \/ Send(m)
          \/ MarkRead(m) \/ Remove(m)
    \/ MarkAllRead
    \/ Crash

MailSpec == MailInit /\ [][MailNext]_mailVars

\* Every attempt ends, by the time-outs of the SMTP client if by nothing else,
\* and every timer fires.
Fairness == \A m \in Messages : WF_mailVars(Send(m))
FairMailSpec == MailSpec /\ Fairness

-----------------------------------------------------------------------------
MailTypeOK ==
    /\ inbox \subseteq drawn /\ unread \subseteq inbox /\ drawn \subseteq Messages
    /\ phase \in [Messages -> Phases]
    /\ attempt \in [Messages -> 0..MaxRetries]
    /\ copies \in [Messages -> 0..MaxRetries]
    /\ unheard \in [Messages -> 0..MaxRetries]

\* The owner receives a message once, and again only if the answer of the
\* server of mail was lost; the log names a message as not sent only if no
\* attempt is known to have succeeded.
MailedOnce ==
    \A m \in Messages :
        /\ copies[m] <= unheard[m] + 1
        /\ phase[m] # "sent" => copies[m] = unheard[m]

\* No message stays unannounced in silence, whatever the server of mail does
\* and even if its row is removed meanwhile: the mail is sent, or the log says
\* it was not, unless the process stops.
Announced == \A m \in Messages : m \in drawn ~> phase[m] \in Ends
=============================================================================
