------------------------------- MODULE Session -------------------------------
(***************************************************************************)
(* The sessions of the administrator and the settings they depend on       *)
(* (AuthService, UsersService, JwtStrategy).  A session token carries the  *)
(* version of the user row it was signed from and is accepted while the    *)
(* row has that version; the changes of the password or of the two-factor  *)
(* authentication increment it.  Every request works on a row it has read  *)
(* once, waits for a slow hash, and writes some columns in one UPDATE.     *)
(***************************************************************************)
EXTENDS Naturals

CONSTANTS
    Clients,      \* the requests that may run at the same time
    Passwords,    \* the password hashes
    Secrets,      \* the TOTP secrets
    NoSecret,     \* the empty secret column
    NoUser,       \* a request that has not read the row
    Codes,        \* the hashes of the backup codes: salted, none drawn twice
    Batches,      \* the codes drawn together, 10 at a time in the code
    MaxVersion    \* bound on the versions explored

User == [password : Passwords, enabled : BOOLEAN, secret : Secrets \cup {NoSecret},
         codes : SUBSET Codes, version : Nat]

\* What a right password stood for: a challenge of the code carries neither.
Proven == [password : Passwords, since : Nat]

ASSUME SessionAssumption ==
    /\ NoSecret \notin Secrets
    /\ NoUser \notin User \cup Proven
    /\ Batches \subseteq SUBSET Codes
    /\ MaxVersion \in Nat

VARIABLES
    user,         \* the user row
    pc,           \* where each request is
    read,         \* the row a request has read
    sessions,     \* the tokens signed, with what the row said when it was read
    challenges,   \* the challenges signed: what was verified for each
    verified,     \* the password, and its version, a request rests on
    drawn,        \* the backup codes ever written
    spent,        \* those that were consumed
    known,        \* those that were consumed when a request read the row
    twice,        \* those that were consumed once more
    confirmed,    \* the secret whose code the enrolment in force has checked
    torn          \* a setting was written from a row that had changed, and no
                  \* enrolment or removal has put it right since

sessionVars == <<user, pc, read, sessions, challenges, verified, drawn, spent, known, twice,
          confirmed, torn>>
history == <<drawn, spent, twice, confirmed, torn>>

Token == [version : Nat, password : Passwords, since : Nat, second : BOOLEAN]
Settings == {"password", "generate", "enable", "disable", "regenerate", "logout"}
Phases == {"idle", "login", "verify", "sign"} \cup Settings

SessionInit ==
    /\ \E p \in Passwords :
          user = [password |-> p, enabled |-> FALSE, secret |-> NoSecret,
                  codes |-> {}, version |-> 0]
    /\ pc = [c \in Clients |-> "idle"]
    /\ read = [c \in Clients |-> NoUser]
    /\ sessions = {}
    /\ challenges = {}
    /\ verified = [c \in Clients |-> NoUser]
    /\ drawn = {}
    /\ spent = {}
    /\ known = [c \in Clients |-> {}]
    /\ twice = {}
    /\ confirmed = NoSecret
    /\ torn = FALSE

-----------------------------------------------------------------------------
\* What the password of the row stands for.
OfRow == [password |-> user.password, since |-> user.version]

\* findByEmail, findById: the row as it is now, for the rest of the request.
FindUser(c, phase, proven) ==
    /\ pc[c] = "idle"
    /\ read' = [read EXCEPT ![c] = user]
    /\ verified' = [verified EXCEPT ![c] = proven]
    /\ known' = [known EXCEPT ![c] = spent]
    /\ pc' = [pc EXCEPT ![c] = phase]

Answer(c) ==
    /\ pc' = [pc EXCEPT ![c] = "idle"]
    /\ read' = [read EXCEPT ![c] = NoUser]
    /\ verified' = [verified EXCEPT ![c] = NoUser]
    /\ known' = [known EXCEPT ![c] = {}]

\* Mutant: the version is read again for the token.
VersionNow(c) == user.version

\* The version the token is signed with.
SignedVersion(c) == read[c].version

Sign(c, second) ==
    /\ sessions' = sessions \cup {[version |-> SignedVersion(c),
                                   password |-> verified[c].password,
                                   since |-> verified[c].since, second |-> second]}
    /\ Answer(c)

-----------------------------------------------------------------------------
\* login: the user is found...
Login(c) ==
    /\ FindUser(c, "login", OfRow)
    /\ UNCHANGED <<user, sessions, challenges, history>>

\* ...the password verified, and a token signed or a second factor demanded.
SignIn(c) ==
    /\ pc[c] = "login"
    /\ IF read[c].enabled
       THEN challenges' = challenges \cup {verified[c]} /\ Answer(c) /\ UNCHANGED sessions
       ELSE Sign(c, FALSE) /\ UNCHANGED challenges
    /\ UNCHANGED <<user, history>>

\* verifyTwoFactor, with a challenge, which is valid until it expires, whatever
\* became of the password it was signed for: the user is found, enrolled...
BeginVerify(c) ==
    /\ user.enabled /\ user.secret # NoSecret
    /\ \E challenge \in challenges : FindUser(c, "verify", challenge)
    /\ UNCHANGED <<user, sessions, challenges, history>>

\* ...and has a valid TOTP code...
VerifyTotpCode(c) ==
    /\ pc[c] = "verify"
    /\ Sign(c, TRUE)
    /\ UNCHANGED <<user, challenges, history>>

\* Mutant: the codes read are written back without the one that matched.
WithoutRead(c, h) == read[c].codes \ {h}

\* array_remove, computed by the database.
Without(c, h) == user.codes \ {h}

\* ...or a backup code that matches one of the hashes read, which is removed
\* from the row first.
ConsumeBackupCode(c) ==
    /\ pc[c] = "verify"
    /\ \E h \in read[c].codes :
          /\ user' = [user EXCEPT !.codes = Without(c, h)]
          /\ spent' = spent \cup {h}
          /\ twice' = twice \cup (spent \cap {h})
    /\ pc' = [pc EXCEPT ![c] = "sign"]
    /\ UNCHANGED <<read, verified, known, sessions, challenges, drawn, confirmed, torn>>

SignAfterBackupCode(c) ==
    /\ pc[c] = "sign"
    /\ Sign(c, TRUE)
    /\ UNCHANGED <<user, challenges, history>>

-----------------------------------------------------------------------------
\* JwtStrategy.validate.
Accepted(token) == token.version = user.version

\* What each setting demands of the row the guard has read.
MayGenerate(u) == ~u.enabled
MayEnable(u) == u.secret # NoSecret
MayChange(u) == u.enabled   \* disable and regenerate

\* A request of a session, past its guards; the password or the code it comes
\* with is right.
Begin(c, setting) ==
    /\ \E token \in sessions : Accepted(token)
    /\ setting = "generate" => MayGenerate(user)
    /\ setting = "enable" => MayEnable(user)
    /\ setting \in {"disable", "regenerate"} => MayChange(user)
    /\ FindUser(c, setting, OfRow)
    /\ UNCHANGED <<user, sessions, challenges, history>>

\* token_version + 1, computed by the database.
Bumped == user.version + 1

MayBump == user.version < MaxVersion

\* logout.
RevokeSessions(c) ==
    /\ pc[c] = "logout"
    /\ MayBump
    /\ user' = [user EXCEPT !.version = Bumped]
    /\ Answer(c)
    /\ UNCHANGED <<sessions, challenges, history>>

UpdatePassword(c) ==
    /\ pc[c] = "password"
    /\ MayBump
    /\ \E p \in Passwords : user' = [user EXCEPT !.password = p, !.version = Bumped]
    /\ Answer(c)
    /\ UNCHANGED <<sessions, challenges, history>>

\* pnpm db:change-password, while the server runs.
ChangePasswordScript ==
    /\ MayBump
    /\ \E p \in Passwords : user' = [user EXCEPT !.password = p, !.version = Bumped]
    /\ UNCHANGED <<pc, read, verified, known, sessions, challenges, history>>

UpdateTwoFactorSecret(c) ==
    /\ pc[c] = "generate"
    /\ \E s \in Secrets : user' = [user EXCEPT !.secret = s]
    /\ torn' = (torn \/ user.enabled)
    /\ Answer(c)
    /\ UNCHANGED <<sessions, challenges, drawn, spent, twice, confirmed>>

NewCodes == {batch \in Batches : batch \cap drawn = {}}

EnableTwoFactor(c) ==
    /\ pc[c] = "enable"
    /\ MayBump
    /\ \E batch \in NewCodes :
          /\ user' = [user EXCEPT !.enabled = TRUE, !.codes = batch, !.version = Bumped]
          /\ drawn' = drawn \cup batch
    /\ confirmed' = read[c].secret
    /\ torn' = (user.secret # read[c].secret)
    /\ Answer(c)
    /\ UNCHANGED <<sessions, challenges, spent, twice>>

\* Mutant: only the flag is cleared.
DisableFlag(c) ==
    /\ pc[c] = "disable"
    /\ MayBump
    /\ user' = [user EXCEPT !.enabled = FALSE, !.version = Bumped]
    /\ confirmed' = NoSecret
    /\ torn' = FALSE
    /\ Answer(c)
    /\ UNCHANGED <<sessions, challenges, drawn, spent, twice>>

DisableTwoFactor(c) ==
    /\ pc[c] = "disable"
    /\ MayBump
    /\ user' = [user EXCEPT !.enabled = FALSE, !.secret = NoSecret, !.codes = {},
                            !.version = Bumped]
    /\ confirmed' = NoSecret
    /\ torn' = FALSE
    /\ Answer(c)
    /\ UNCHANGED <<sessions, challenges, drawn, spent, twice>>

ReplaceBackupCodes(c) ==
    /\ pc[c] = "regenerate"
    /\ \E batch \in NewCodes :
          /\ user' = [user EXCEPT !.codes = batch]
          /\ drawn' = drawn \cup batch
    /\ torn' = (torn \/ ~user.enabled)
    /\ Answer(c)
    /\ UNCHANGED <<sessions, challenges, spent, twice, confirmed>>

\* 401, 400, a failed query or the end of the process: nothing is written.
Refuse(c) ==
    /\ pc[c] # "idle"
    /\ Answer(c)
    /\ UNCHANGED <<user, sessions, challenges, history>>

SessionNext ==
    \/ \E c \in Clients :
          \/ Login(c) \/ SignIn(c)
          \/ BeginVerify(c) \/ VerifyTotpCode(c)
          \/ ConsumeBackupCode(c) \/ SignAfterBackupCode(c)
          \/ \E setting \in Settings : Begin(c, setting)
          \/ RevokeSessions(c) \/ UpdatePassword(c)
          \/ UpdateTwoFactorSecret(c) \/ EnableTwoFactor(c)
          \/ DisableTwoFactor(c) \/ ReplaceBackupCodes(c)
          \/ Refuse(c)
    \/ ChangePasswordScript

SessionSpec == SessionInit /\ [][SessionNext]_sessionVars

-----------------------------------------------------------------------------
RequestsOK ==
    /\ pc \in [Clients -> Phases]
    /\ read \in [Clients -> User \cup {NoUser}]
    /\ verified \in [Clients -> Proven \cup {NoUser}]
    /\ known \in [Clients -> SUBSET spent]
    /\ \A c \in Clients : read[c] = NoUser <=> pc[c] = "idle"
    /\ \A c \in Clients : verified[c] = NoUser <=> pc[c] = "idle"
    /\ \A c \in Clients : pc[c] = "enable" => read[c].secret \in Secrets

SessionTypeOK ==
    /\ user \in User
    /\ RequestsOK
    /\ sessions \subseteq Token
    /\ challenges \subseteq Proven
    /\ drawn \subseteq Codes /\ spent \subseteq drawn
    /\ twice \subseteq spent
    /\ confirmed \in Secrets \cup {NoSecret}
    /\ torn \in BOOLEAN

CurrentIfAccepted(token) ==
    Accepted(token) =>
        /\ token.second = user.enabled
        /\ token.since = token.version => token.password = user.password
        /\ token.since # token.version => token.since < token.version /\ token.second

\* A session that is accepted was opened, while the two-factor authentication is
\* on, with a second factor, and otherwise with none; by the password in force,
\* if it was verified under the version in force.  It may have been verified
\* before that only for a session with a second factor (PasswordInForce).
AcceptedSessionsAreCurrent == \A token \in sessions : CurrentIfAccepted(token)

\* src/README.md: a change of the password revokes what was signed before it.
\* It does not revoke the challenge of a login.
PasswordInForce ==
    \A token \in sessions : Accepted(token) => token.password = user.password

\* Why: rows read with the version in force agree with the row on what the
\* version stands for, and no version is ahead of the row.
ReadIsVersioned(c) ==
    /\ read[c].version <= user.version
    /\ read[c].version = user.version =>
          read[c].password = user.password /\ read[c].enabled = user.enabled
    /\ IF pc[c] \in {"verify", "sign"}
       THEN /\ read[c].enabled
            /\ verified[c].since <= read[c].version
            /\ verified[c].since = user.version => verified[c].password = user.password
       ELSE verified[c] = [password |-> read[c].password, since |-> read[c].version]

ReadsAreVersioned == \A c \in Clients : pc[c] # "idle" => ReadIsVersioned(c)

TokensAreVersioned == \A token \in sessions : token.version <= user.version

ChallengesAreVersioned ==
    \A challenge \in challenges :
        /\ challenge.since <= user.version
        /\ challenge.since = user.version => challenge.password = user.password

\* The codes in the row, and in any row read, were drawn.
CodesWereDrawn ==
    /\ user.codes \subseteq drawn
    /\ \A c \in Clients : pc[c] # "idle" => read[c].codes \subseteq drawn

IInv ==
    /\ SessionTypeOK /\ ReadsAreVersioned /\ TokensAreVersioned /\ ChallengesAreVersioned
    /\ CodesWereDrawn
    /\ AcceptedSessionsAreCurrent

\* A backup code that was consumed never returns to the row, although another
\* request may have read the codes before it was: whoever verifies a second
\* factor can still use it only if it had read the row by then (CodesUsedOnce).
SpentCodesStaySpent ==
    /\ user.codes \cap spent = {}
    /\ \A c \in Clients : pc[c] = "verify" => read[c].codes \cap known[c] = {}

\* src/README.md, auth.controller.ts: backup codes are one-time.  Two
\* verifications that read the row before either removed the code both use it.
CodesUsedOnce == twice = {}

\* The two-factor settings stay together: on, the secret is the one whose code
\* was checked; off, no backup code is left.  Only a setting decided on a row
\* that has changed since breaks this, and the next enrolment or removal that
\* nothing overlaps repairs it.
EnrolmentIntact ==
    ~torn =>
        /\ user.enabled => user.secret # NoSecret /\ user.secret = confirmed
        /\ ~user.enabled => user.codes = {}
=============================================================================
