---------------------------- MODULE SessionProofs ----------------------------
(***************************************************************************)
(* Theorems of Session, for any number of requests, of password changes    *)
(* and of enrolments.                                                      *)
(***************************************************************************)
EXTENDS Session, TLAPS

\* A user without a session.
LEMMA InitInv == SessionInit => IInv
<1> SUFFICES ASSUME SessionInit PROVE IInv
  OBVIOUS
<1>1. PICK p \in Passwords :
         user = [password |-> p, enabled |-> FALSE, secret |-> NoSecret,
                 codes |-> {}, version |-> 0]
  BY DEF SessionInit
<1>2. user \in User
  BY <1>1 DEF User
<1>3. /\ pc = [c \in Clients |-> "idle"] /\ read = [c \in Clients |-> NoUser]
      /\ sessions = {} /\ challenges = {} /\ drawn = {} /\ spent = {}
      /\ verified = [c \in Clients |-> NoUser] /\ known = [c \in Clients |-> {}]
      /\ twice = {}
      /\ confirmed = NoSecret /\ torn = FALSE
  BY DEF SessionInit
<1>4. SessionTypeOK
  BY <1>2, <1>3 DEF SessionTypeOK, RequestsOK, Phases
<1>5. ReadsAreVersioned /\ CodesWereDrawn
  BY <1>1, <1>3 DEF ReadsAreVersioned, CodesWereDrawn
<1>6. TokensAreVersioned /\ ChallengesAreVersioned /\ AcceptedSessionsAreCurrent
  BY <1>3 DEF TokensAreVersioned, ChallengesAreVersioned, AcceptedSessionsAreCurrent
<1> QED BY <1>4, <1>5, <1>6 DEF IInv

\* The user row of the moment, and what its password stands for.
LEMMA OfRowProven == ASSUME SessionTypeOK PROVE OfRow \in Proven /\ OfRow # NoUser
<1>1. user \in User
  BY DEF SessionTypeOK
<1>2. OfRow \in Proven
  BY <1>1 DEF OfRow, User, Proven
<1> QED BY <1>2, SessionAssumption

\* What a request that begins or ends does to the requests.
LEMMA FindUserTypes ==
  ASSUME IInv, NEW c \in Clients, NEW phase \in Phases \ {"idle"},
         NEW proven \in Proven, FindUser(c, phase, proven),
         IF phase \in {"verify", "sign"}
         THEN /\ user.enabled
              /\ proven.since <= user.version
              /\ proven.since = user.version => proven.password = user.password
         ELSE proven = OfRow,
         phase = "enable" => user.secret \in Secrets, UNCHANGED <<user, drawn, spent>>
  PROVE  RequestsOK' /\ ReadsAreVersioned' /\ CodesWereDrawn'
<1>1. /\ pc' \in [Clients -> Phases]
      /\ read' \in [Clients -> User \cup {NoUser}]
      /\ pc'[c] = phase /\ read'[c] = user
      /\ \A d \in Clients \ {c} : pc'[d] = pc[d] /\ read'[d] = read[d]
  BY DEF FindUser, IInv, SessionTypeOK, RequestsOK
<1>2. /\ verified' \in [Clients -> Proven \cup {NoUser}]
      /\ known' \in [Clients -> SUBSET spent]
      /\ verified'[c] = proven
      /\ \A d \in Clients \ {c} : verified'[d] = verified[d]
  BY DEF FindUser, IInv, SessionTypeOK, RequestsOK
<1>3. /\ user \in User /\ user # NoUser /\ user.version <= user.version
      /\ proven # NoUser
  BY SessionAssumption DEF IInv, SessionTypeOK, User
<1>4. RequestsOK'
  <2>1. /\ \A d \in Clients : read'[d] = NoUser <=> pc'[d] = "idle"
        /\ \A d \in Clients : pc'[d] = "enable" => read'[d].secret \in Secrets
    BY <1>1, <1>3 DEF IInv, SessionTypeOK, RequestsOK
  <2>2. \A d \in Clients : verified'[d] = NoUser <=> pc'[d] = "idle"
    BY <1>1, <1>2, <1>3 DEF IInv, SessionTypeOK, RequestsOK
  <2> QED BY <1>1, <1>2, <2>1, <2>2 DEF RequestsOK
<1>5. ReadsAreVersioned'
  <2> SUFFICES ASSUME NEW d \in Clients, pc'[d] # "idle"
               PROVE  ReadIsVersioned(d)'
    BY DEF ReadsAreVersioned, ReadIsVersioned
  <2>1. CASE d = c
    BY <1>1, <1>2, <1>3, <2>1 DEF ReadIsVersioned, OfRow
  <2>2. CASE d # c
    BY <1>1, <1>2, <2>2 DEF IInv, ReadsAreVersioned, ReadIsVersioned
  <2> QED BY <2>1, <2>2
<1>6. CodesWereDrawn'
  BY <1>1, <1>3 DEF IInv, CodesWereDrawn
<1> QED BY <1>4, <1>5, <1>6

\* A request that answers forgets what it has read.
LEMMA AnswerTypes ==
  ASSUME SessionTypeOK, NEW c \in Clients, Answer(c), spent' = spent
  PROVE  /\ RequestsOK'
         /\ pc'[c] = "idle" /\ read'[c] = NoUser
         /\ \A d \in Clients \ {c} :
               pc'[d] = pc[d] /\ read'[d] = read[d] /\ verified'[d] = verified[d]
  BY DEF SessionTypeOK, Answer, Phases, RequestsOK

\* The requests in progress after a step were in progress before it, with the
\* row they had read and what they rest on.
Going == \A d \in Clients : pc'[d] # "idle" =>
            /\ read'[d] = read[d] /\ verified'[d] = verified[d]
            /\ pc[d] # "idle"
            /\ pc'[d] \in {"verify", "sign"} <=> pc[d] \in {"verify", "sign"}

\* What a step leaves of the versions in force.
Versions == /\ ReadsAreVersioned' /\ TokensAreVersioned' /\ ChallengesAreVersioned'
            /\ CodesWereDrawn' /\ AcceptedSessionsAreCurrent'

\* A write that increments the version leaves every session, every challenge and
\* every row read behind.
LEMMA BumpInv ==
  ASSUME IInv, Going, user' \in User, user'.version = user.version + 1,
         UNCHANGED <<sessions, challenges>>, drawn \subseteq drawn', user'.codes \subseteq drawn'
  PROVE  Versions
<1>1. user.version \in Nat /\ sessions \subseteq Token /\ challenges \subseteq Proven
  BY DEF IInv, SessionTypeOK, RequestsOK, User
<1>2. \A token \in sessions : token.version \in Nat /\ token.version <= user.version
  BY <1>1 DEF IInv, TokensAreVersioned, Token
<1>3. \A challenge \in challenges : challenge.since \in Nat /\ challenge.since <= user.version
  BY <1>1 DEF IInv, ChallengesAreVersioned, Proven
<1>4. ReadsAreVersioned'
  <2> SUFFICES ASSUME NEW d \in Clients, pc'[d] # "idle"
               PROVE  ReadIsVersioned(d)'
    BY DEF ReadsAreVersioned, ReadIsVersioned
  <2>1. ReadIsVersioned(d) /\ read'[d] = read[d] /\ verified'[d] = verified[d]
    BY DEF Going, IInv, ReadsAreVersioned, ReadIsVersioned
  <2>2. /\ read[d].version \in Nat /\ read[d] \in User
        /\ verified[d].since \in Nat
    BY DEF Going, IInv, SessionTypeOK, RequestsOK, User, Proven
  <2>3. pc'[d] \in {"verify", "sign"} <=> pc[d] \in {"verify", "sign"}
    BY DEF Going
  <2> QED BY <1>1, <2>1, <2>2, <2>3 DEF ReadIsVersioned
<1>5. TokensAreVersioned' /\ ChallengesAreVersioned' /\ AcceptedSessionsAreCurrent'
  BY <1>1, <1>2, <1>3
  DEF TokensAreVersioned, ChallengesAreVersioned, AcceptedSessionsAreCurrent,
     CurrentIfAccepted, Accepted
<1>6. CodesWereDrawn'
  BY DEF IInv, CodesWereDrawn, Going
<1> QED BY <1>4, <1>5, <1>6 DEF Versions

\* One that does not leaves the password and the flag alone.
LEMMA KeepInv ==
  ASSUME IInv, Going, user'.version = user.version, user'.password = user.password,
         user'.enabled = user.enabled, UNCHANGED <<sessions, challenges>>,
         drawn \subseteq drawn', user'.codes \subseteq drawn'
  PROVE  Versions
<1>1. ReadsAreVersioned'
  BY DEF IInv, ReadsAreVersioned, ReadIsVersioned, Going
<1>2. TokensAreVersioned' /\ ChallengesAreVersioned' /\ AcceptedSessionsAreCurrent'
  BY DEF IInv, TokensAreVersioned, ChallengesAreVersioned, AcceptedSessionsAreCurrent,
     CurrentIfAccepted, Accepted
<1>3. CodesWereDrawn'
  BY DEF IInv, CodesWereDrawn, Going
<1> QED BY <1>1, <1>2, <1>3 DEF Versions

\* And leaves the others where they are.
LEMMA AnswerGoing ==
  ASSUME SessionTypeOK, NEW c \in Clients, Answer(c), spent' = spent
  PROVE  Going
  BY AnswerTypes DEF Going

\* A token is signed with the version read and with what was verified.
LEMMA SignInv ==
  ASSUME IInv, NEW c \in Clients, NEW second \in BOOLEAN, pc[c] # "idle",
         Sign(c, second), second = read[c].enabled,
         second <=> pc[c] \in {"verify", "sign"}, UNCHANGED <<user, challenges, drawn, spent>>
  PROVE  Versions /\ sessions' \subseteq Token
<1> DEFINE new == [version |-> read[c].version, password |-> verified[c].password,
                   since |-> verified[c].since, second |-> second]
<1>1. sessions' = sessions \cup {new} /\ Answer(c)
  BY DEF Sign, SignedVersion
<1>2. read[c] \in User /\ verified[c] \in Proven
  BY DEF IInv, SessionTypeOK, RequestsOK
<1>3. new \in Token
  BY <1>2 DEF User, Proven, Token
<1>4. ReadIsVersioned(c) /\ user.version \in Nat
  BY DEF IInv, ReadsAreVersioned, SessionTypeOK, User
<1>5. /\ new.version <= user.version /\ new.since <= new.version
      /\ new.since # new.version => second
      /\ new.version = user.version => second = user.enabled
      /\ new.since = user.version => new.password = user.password
  BY <1>2, <1>3, <1>4 DEF ReadIsVersioned, User, Proven
<1>6. new.version \in Nat /\ new.since \in Nat
  BY <1>3 DEF Token
<1> HIDE DEF new
<1>7. new.second = second
  BY DEF new
<1>8. TokensAreVersioned' /\ AcceptedSessionsAreCurrent'
  <2> SUFFICES ASSUME NEW token \in sessions'
               PROVE  token.version <= user.version /\ CurrentIfAccepted(token)
    BY DEF TokensAreVersioned, AcceptedSessionsAreCurrent, CurrentIfAccepted, Accepted
  <2>1. CASE token \in sessions
    BY <2>1 DEF IInv, TokensAreVersioned, AcceptedSessionsAreCurrent, CurrentIfAccepted
  <2>2. CASE token = new
    BY <1>4, <1>5, <1>6, <1>7, <2>2 DEF CurrentIfAccepted, Accepted
  <2> QED BY <1>1, <2>1, <2>2
<1>9. Going
  BY <1>1, AnswerGoing DEF IInv
<1>10. ReadsAreVersioned' /\ CodesWereDrawn' /\ ChallengesAreVersioned'
  BY <1>9 DEF IInv, ReadsAreVersioned, ReadIsVersioned, ChallengesAreVersioned,
     CodesWereDrawn, Going
<1> QED BY <1>1, <1>3, <1>8, <1>10 DEF IInv, SessionTypeOK, Versions

-----------------------------------------------------------------------------
\* Every step of a request and of the script.
LEMMA NextInv ==
  ASSUME IInv, [SessionNext]_sessionVars
  PROVE  IInv'
<1> DEFINE Goal == SessionTypeOK' /\ Versions
<1> USE DEF history
<1>t. SessionTypeOK /\ user \in User /\ user.version \in Nat
  BY DEF IInv, SessionTypeOK, User
<1>b. Bumped \in Nat /\ Bumped = user.version + 1
  BY <1>t DEF Bumped
<1>s. ASSUME UNCHANGED <<user, sessions, challenges>>
      PROVE  TokensAreVersioned' /\ ChallengesAreVersioned' /\ AcceptedSessionsAreCurrent'
  BY <1>s DEF IInv, TokensAreVersioned, ChallengesAreVersioned, AcceptedSessionsAreCurrent,
     CurrentIfAccepted, Accepted
<1>1. ASSUME NEW c \in Clients, Login(c) PROVE Goal
  BY <1>t, <1>1, <1>s, OfRowProven, FindUserTypes DEF Login, SessionTypeOK, Phases, Versions
<1>2. ASSUME NEW c \in Clients, SignIn(c) PROVE Goal
  <2>0. /\ pc[c] = "login" /\ read[c] \in User /\ verified[c] \in Proven
        /\ ReadIsVersioned(c) /\ UNCHANGED <<user, history>>
    BY <1>t, <1>2 DEF SignIn, IInv, SessionTypeOK, RequestsOK, ReadsAreVersioned
  <2>1. CASE read[c].enabled
    <3>1. /\ challenges' = challenges \cup {verified[c]} /\ Answer(c)
          /\ sessions' = sessions
      BY <1>2, <2>1 DEF SignIn
    <3>2. ReadsAreVersioned' /\ CodesWereDrawn'
      BY <1>t, <2>0, <3>1, AnswerGoing
      DEF IInv, ReadsAreVersioned, ReadIsVersioned, CodesWereDrawn, Going
    <3>3. TokensAreVersioned' /\ AcceptedSessionsAreCurrent'
      BY <2>0, <3>1 DEF IInv, TokensAreVersioned, AcceptedSessionsAreCurrent,
         CurrentIfAccepted, Accepted
    <3>4. ChallengesAreVersioned'
      BY <2>0, <3>1 DEF IInv, ChallengesAreVersioned, ReadIsVersioned
    <3> QED
      BY <1>t, <2>0, <3>1, <3>2, <3>3, <3>4, AnswerTypes DEF SessionTypeOK, Versions
  <2>2. CASE ~read[c].enabled
    <3>1. read[c].enabled = FALSE
      BY <1>t, <1>2, <2>2 DEF SignIn, SessionTypeOK, User
    <3>2. Versions /\ sessions' \subseteq Token
      BY <1>2, <2>0, <2>2, <3>1, SignInv DEF SignIn
    <3> QED
      BY <1>t, <1>2, <2>2, <3>2, AnswerTypes DEF SignIn, Sign, SessionTypeOK
  <2> QED BY <2>1, <2>2
<1>3. ASSUME NEW c \in Clients, BeginVerify(c) PROVE Goal
  <2>1. PICK challenge \in challenges : FindUser(c, "verify", challenge)
    BY <1>3 DEF BeginVerify
  <2>2. /\ challenge \in Proven /\ challenge.since <= user.version
        /\ challenge.since = user.version => challenge.password = user.password
    BY <1>t DEF SessionTypeOK, IInv, ChallengesAreVersioned
  <2>3. RequestsOK' /\ ReadsAreVersioned' /\ CodesWereDrawn'
    BY <1>3, <2>1, <2>2, FindUserTypes DEF BeginVerify, Phases
  <2> QED
    BY <1>t, <1>3, <1>s, <2>3 DEF BeginVerify, SessionTypeOK, Versions
<1>4. ASSUME NEW c \in Clients, VerifyTotpCode(c) PROVE Goal
  <2>1. read[c].enabled = TRUE
    BY <1>t, <1>4 DEF VerifyTotpCode, IInv, ReadsAreVersioned, ReadIsVersioned, SessionTypeOK, RequestsOK, User
  <2>2. Versions /\ sessions' \subseteq Token
    BY <1>4, <2>1, SignInv DEF VerifyTotpCode
  <2> QED
    BY <1>t, <1>4, <2>2, AnswerTypes DEF VerifyTotpCode, Sign, SessionTypeOK
<1>5. ASSUME NEW c \in Clients, ConsumeBackupCode(c) PROVE Goal
  <2>1. PICK h \in read[c].codes : /\ user' = [user EXCEPT !.codes = user.codes \ {h}]
                                   /\ spent' = spent \cup {h}
                                   /\ twice' = twice \cup (spent \cap {h})
    BY <1>5 DEF ConsumeBackupCode, Without
  <2>2. h \in drawn
    BY <1>5 DEF ConsumeBackupCode, IInv, CodesWereDrawn
  <2>3. /\ user' \in User /\ user'.version = user.version
        /\ user'.password = user.password /\ user'.enabled = user.enabled
        /\ user'.codes \subseteq user.codes
    BY <1>t, <2>1 DEF User
  <2>4. Going
    BY <1>t, <1>5 DEF ConsumeBackupCode, Going, SessionTypeOK, RequestsOK
  <2>5. Versions
    BY <1>5, <2>3, <2>4, KeepInv DEF ConsumeBackupCode, IInv, CodesWereDrawn
  <2>6. SessionTypeOK'
    <3>1. /\ pc' = [pc EXCEPT ![c] = "sign"] /\ pc[c] = "verify"
          /\ UNCHANGED <<read, verified, known, sessions, challenges, drawn, confirmed, torn>>
      BY <1>5, <2>1 DEF ConsumeBackupCode
    <3>2. RequestsOK'
      BY <1>t, <2>1, <3>1 DEF SessionTypeOK, RequestsOK, Phases
    <3> QED
      BY <1>t, <2>1, <2>2, <2>3, <3>1, <3>2 DEF SessionTypeOK
  <2> QED BY <2>5, <2>6
<1>6. ASSUME NEW c \in Clients, SignAfterBackupCode(c) PROVE Goal
  <2>1. read[c].enabled = TRUE
    BY <1>t, <1>6 DEF SignAfterBackupCode, IInv, ReadsAreVersioned, ReadIsVersioned, SessionTypeOK, RequestsOK, User
  <2>2. Versions /\ sessions' \subseteq Token
    BY <1>6, <2>1, SignInv DEF SignAfterBackupCode
  <2> QED
    BY <1>t, <1>6, <2>2, AnswerTypes DEF SignAfterBackupCode, Sign, SessionTypeOK
<1>7. ASSUME NEW c \in Clients, NEW setting \in Settings, Begin(c, setting) PROVE Goal
  <2>1. setting \in Phases \ {"idle", "verify", "sign"}
    BY DEF Settings, Phases
  <2>2. setting = "enable" => user.secret \in Secrets
    BY <1>t, <1>7 DEF Begin, MayEnable, User
  <2> QED
    BY <1>t, <1>7, <1>s, <2>1, <2>2, OfRowProven, FindUserTypes DEF Begin, SessionTypeOK, Versions
<1>8. ASSUME NEW c \in Clients, RevokeSessions(c) PROVE Goal
  <2>1. user' \in User /\ user'.version = user.version + 1 /\ user'.codes = user.codes
    BY <1>t, <1>b, <1>8 DEF RevokeSessions, User
  <2>2. Versions
    BY <1>t, <1>8, <2>1, AnswerGoing, BumpInv DEF RevokeSessions, IInv, CodesWereDrawn
  <2> QED
    BY <1>t, <1>8, <2>1, <2>2, AnswerTypes DEF RevokeSessions, SessionTypeOK
<1>9. ASSUME NEW c \in Clients, UpdatePassword(c) PROVE Goal
  <2>1. user' \in User /\ user'.version = user.version + 1 /\ user'.codes = user.codes
    BY <1>t, <1>b, <1>9 DEF UpdatePassword, User
  <2>2. Versions
    BY <1>t, <1>9, <2>1, AnswerGoing, BumpInv DEF UpdatePassword, IInv, CodesWereDrawn
  <2> QED
    BY <1>t, <1>9, <2>1, <2>2, AnswerTypes DEF UpdatePassword, SessionTypeOK
<1>10. ASSUME ChangePasswordScript PROVE Goal
  <2>1. user' \in User /\ user'.version = user.version + 1 /\ user'.codes = user.codes
    BY <1>t, <1>b, <1>10 DEF ChangePasswordScript, User
  <2>2. Going
    BY <1>10 DEF ChangePasswordScript, Going
  <2>3. Versions
    BY <1>t, <1>10, <2>1, <2>2, BumpInv DEF ChangePasswordScript, IInv, CodesWereDrawn
  <2> QED
    BY <1>t, <1>10, <2>1, <2>3 DEF ChangePasswordScript, SessionTypeOK, RequestsOK
<1>11. ASSUME NEW c \in Clients, UpdateTwoFactorSecret(c) PROVE Goal
  <2>1. /\ user' \in User /\ user'.version = user.version /\ user'.codes = user.codes
        /\ user'.password = user.password /\ user'.enabled = user.enabled
    BY <1>t, <1>11 DEF UpdateTwoFactorSecret, User
  <2>2. Versions
    BY <1>t, <1>11, <2>1, AnswerGoing, KeepInv DEF UpdateTwoFactorSecret, IInv, CodesWereDrawn
  <2>3. torn' \in BOOLEAN
    BY <1>11 DEF UpdateTwoFactorSecret
  <2> QED
    BY <1>t, <1>11, <2>1, <2>2, <2>3, AnswerTypes DEF UpdateTwoFactorSecret, SessionTypeOK
<1>12. ASSUME NEW c \in Clients, EnableTwoFactor(c) PROVE Goal
  <2>1. PICK batch \in NewCodes :
          /\ user' = [user EXCEPT !.enabled = TRUE, !.codes = batch, !.version = Bumped]
          /\ drawn' = drawn \cup batch
    BY <1>12 DEF EnableTwoFactor
  <2>2. batch \subseteq Codes
    BY <2>1, SessionAssumption DEF NewCodes
  <2>3. user' \in User /\ user'.version = user.version + 1 /\ user'.codes = batch
    BY <1>t, <1>b, <2>1, <2>2 DEF User
  <2>4. Versions
    BY <1>t, <1>12, <2>1, <2>3, AnswerGoing, BumpInv DEF EnableTwoFactor
  <2>5. confirmed' \in Secrets /\ torn' \in BOOLEAN
    BY <1>t, <1>12 DEF EnableTwoFactor, SessionTypeOK, RequestsOK
  <2> QED
    BY <1>t, <1>12, <2>1, <2>2, <2>3, <2>4, <2>5, AnswerTypes DEF EnableTwoFactor, SessionTypeOK
<1>13. ASSUME NEW c \in Clients, DisableTwoFactor(c) PROVE Goal
  <2>1. user' \in User /\ user'.version = user.version + 1 /\ user'.codes = {}
    BY <1>t, <1>b, <1>13 DEF DisableTwoFactor, User
  <2>2. Versions
    BY <1>t, <1>13, <2>1, AnswerGoing, BumpInv DEF DisableTwoFactor
  <2> QED
    BY <1>t, <1>13, <2>1, <2>2, AnswerTypes DEF DisableTwoFactor, SessionTypeOK
<1>14. ASSUME NEW c \in Clients, ReplaceBackupCodes(c) PROVE Goal
  <2>1. PICK batch \in NewCodes :
          user' = [user EXCEPT !.codes = batch] /\ drawn' = drawn \cup batch
    BY <1>14 DEF ReplaceBackupCodes
  <2>2. batch \subseteq Codes
    BY <2>1, SessionAssumption DEF NewCodes
  <2>3. /\ user' \in User /\ user'.version = user.version /\ user'.codes = batch
        /\ user'.password = user.password /\ user'.enabled = user.enabled
    BY <1>t, <2>1, <2>2 DEF User
  <2>4. Versions
    BY <1>t, <1>14, <2>1, <2>3, AnswerGoing, KeepInv DEF ReplaceBackupCodes
  <2>5. torn' \in BOOLEAN
    BY <1>14 DEF ReplaceBackupCodes
  <2> QED
    BY <1>t, <1>14, <2>1, <2>2, <2>3, <2>4, <2>5, AnswerTypes DEF ReplaceBackupCodes, SessionTypeOK
<1>15. ASSUME NEW c \in Clients, Refuse(c) PROVE Goal
  <2>1. Versions
    BY <1>t, <1>15, AnswerGoing, KeepInv DEF Refuse, IInv, CodesWereDrawn
  <2> QED
    BY <1>t, <1>15, <2>1, AnswerTypes DEF Refuse, SessionTypeOK
<1>16. ASSUME UNCHANGED sessionVars PROVE Goal
  <2>1. SessionTypeOK'
    BY <1>t, <1>16 DEF sessionVars, SessionTypeOK, RequestsOK
  <2>2. Versions
    BY <1>16 DEF sessionVars, IInv, ReadsAreVersioned, ReadIsVersioned, TokensAreVersioned,
       ChallengesAreVersioned, CodesWereDrawn, AcceptedSessionsAreCurrent, CurrentIfAccepted,
       Accepted, Versions
  <2> QED BY <2>1, <2>2
<1> QED
  BY <1>1, <1>2, <1>3, <1>4, <1>5, <1>6, <1>7, <1>8, <1>9, <1>10, <1>11, <1>12, <1>13,
     <1>14, <1>15, <1>16
  DEF SessionNext, IInv, Versions

\* The inductive invariant, with the types.
THEOREM Invariance == SessionSpec => []IInv
<1>1. IInv /\ [SessionNext]_sessionVars => IInv'
  BY NextInv
<1> QED BY InitInv, <1>1, PTL DEF SessionSpec

\* AuthService, JwtStrategy: a session that is accepted was opened with the factors
\* in force; by an older password only across the challenge of a second factor.
THEOREM SessionsAlwaysCurrent == SessionSpec => []AcceptedSessionsAreCurrent
<1>1. IInv => AcceptedSessionsAreCurrent
  BY DEF IInv
<1> QED BY Invariance, <1>1, PTL

-----------------------------------------------------------------------------
\* The codes of the row are unspent, and so are those a verification has read,
\* as far as it knows.
Unspent == user.codes \cap spent = {}

\* A request that goes on keeps what it has read and known; one that begins reads
\* unspent codes.
LEMMA SpentStep ==
  ASSUME IInv, SpentCodesStaySpent, [SessionNext]_sessionVars
  PROVE  SpentCodesStaySpent'
<1> USE DEF history
<1>t. SessionTypeOK /\ RequestsOK /\ user \in User
  BY DEF IInv, SessionTypeOK
<1>u. Unspent /\ \A c \in Clients : pc[c] = "verify" => read[c].codes \cap known[c] = {}
  BY DEF SpentCodesStaySpent, Unspent
<1>q. ASSUME Unspent',
             \A d \in Clients : pc'[d] = "verify" =>
                \/ pc[d] = "verify" /\ read'[d] = read[d] /\ known'[d] = known[d]
                \/ read'[d] = user /\ known'[d] = spent
      PROVE  SpentCodesStaySpent'
  BY <1>q, <1>u DEF SpentCodesStaySpent, Unspent
<1>a. ASSUME NEW c \in Clients, Answer(c), Unspent' PROVE SpentCodesStaySpent'
  <2>1. \A d \in Clients : pc'[d] = "verify" =>
           pc[d] = "verify" /\ read'[d] = read[d] /\ known'[d] = known[d]
    BY <1>t, <1>a DEF Answer, RequestsOK
  <2> QED BY <1>a, <1>q, <2>1
<1>f. ASSUME NEW c \in Clients, NEW phase, NEW proven, FindUser(c, phase, proven),
             UNCHANGED <<user, spent>>
      PROVE  SpentCodesStaySpent'
  <2>1. \A d \in Clients : pc'[d] = "verify" =>
                \/ pc[d] = "verify" /\ read'[d] = read[d] /\ known'[d] = known[d]
                \/ read'[d] = user /\ known'[d] = spent
    BY <1>t, <1>f DEF FindUser, RequestsOK
  <2> QED BY <1>f, <1>q, <1>u, <2>1 DEF Unspent
<1>1. ASSUME NEW c \in Clients, ConsumeBackupCode(c) PROVE SpentCodesStaySpent'
  <2>1. PICK h \in read[c].codes : /\ user' = [user EXCEPT !.codes = user.codes \ {h}]
                                   /\ spent' = spent \cup {h}
    BY <1>1 DEF ConsumeBackupCode, Without
  <2>2. user'.codes = user.codes \ {h}
    BY <1>t, <2>1 DEF User
  <2>3. \A d \in Clients : pc'[d] = "verify" =>
           pc[d] = "verify" /\ read'[d] = read[d] /\ known'[d] = known[d]
    BY <1>t, <1>1 DEF ConsumeBackupCode, RequestsOK
  <2> QED BY <1>q, <1>u, <2>1, <2>2, <2>3 DEF Unspent
<1>2. ASSUME NEW batch \in NewCodes, user'.codes = batch, spent' = spent
      PROVE  Unspent'
  BY <1>t, <1>2 DEF NewCodes, SessionTypeOK, Unspent
<1>3. ASSUME NEW c \in Clients, EnableTwoFactor(c) PROVE SpentCodesStaySpent'
  <2>1. PICK batch \in NewCodes :
          user' = [user EXCEPT !.enabled = TRUE, !.codes = batch, !.version = Bumped]
    BY <1>3 DEF EnableTwoFactor
  <2>2. user'.codes = batch
    BY <1>t, <2>1 DEF User
  <2> QED BY <1>2, <1>3, <1>a, <2>2 DEF EnableTwoFactor
<1>4. ASSUME NEW c \in Clients, ReplaceBackupCodes(c) PROVE SpentCodesStaySpent'
  <2>1. PICK batch \in NewCodes : user' = [user EXCEPT !.codes = batch]
    BY <1>4 DEF ReplaceBackupCodes
  <2>2. user'.codes = batch
    BY <1>t, <2>1 DEF User
  <2> QED BY <1>2, <1>4, <1>a, <2>2 DEF ReplaceBackupCodes
<1>5. ASSUME user'.codes \subseteq user.codes, spent' = spent PROVE Unspent'
  BY <1>5, <1>u DEF Unspent
<1>6. ASSUME NEW c \in Clients,
             RevokeSessions(c) \/ UpdatePassword(c)
                \/ UpdateTwoFactorSecret(c) \/ DisableTwoFactor(c)
      PROVE  SpentCodesStaySpent'
  <2>1. user'.codes \subseteq user.codes /\ spent' = spent /\ Answer(c)
    BY <1>t, <1>6
    DEF RevokeSessions, UpdatePassword, UpdateTwoFactorSecret, DisableTwoFactor, User
  <2> QED BY <1>5, <1>a, <2>1
<1>7. ASSUME ChangePasswordScript PROVE SpentCodesStaySpent'
  <2>1. user'.codes \subseteq user.codes /\ UNCHANGED <<pc, read, known, spent>>
    BY <1>t, <1>7 DEF ChangePasswordScript, User
  <2> QED BY <1>5, <1>q, <2>1
<1>8. ASSUME NEW c \in Clients,
             SignIn(c) \/ VerifyTotpCode(c) \/ SignAfterBackupCode(c) \/ Refuse(c)
      PROVE  SpentCodesStaySpent'
  <2>1. Answer(c) /\ UNCHANGED <<user, spent>>
    BY <1>8 DEF SignIn, VerifyTotpCode, SignAfterBackupCode, Refuse, Sign
  <2> QED BY <1>a, <1>u, <2>1 DEF Unspent
<1>9. ASSUME NEW c \in Clients,
             Login(c) \/ BeginVerify(c) \/ \E setting \in Settings : Begin(c, setting)
      PROVE  SpentCodesStaySpent'
  <2>1. UNCHANGED <<user, spent>> /\ \E phase, proven : FindUser(c, phase, proven)
    BY <1>9 DEF Login, BeginVerify, Begin
  <2> QED BY <1>f, <2>1
<1>10. ASSUME UNCHANGED sessionVars PROVE SpentCodesStaySpent'
  BY <1>10, <1>q, <1>u DEF sessionVars, Unspent
<1> QED
  BY <1>1, <1>3, <1>4, <1>6, <1>7, <1>8, <1>9, <1>10 DEF SessionNext

\* consumeBackupCode: the removal by the database, on the codes of the row as
\* it is then, loses no other removal, so that only a verification that had read
\* the row before can still match a code that is spent.
THEOREM SpentCodesNeverReturn == SessionSpec => []SpentCodesStaySpent
<1>1. SessionInit => SpentCodesStaySpent
  BY DEF SessionInit, SpentCodesStaySpent
<1>2. IInv /\ SpentCodesStaySpent /\ [SessionNext]_sessionVars => SpentCodesStaySpent'
  BY SpentStep
<1> QED BY Invariance, <1>1, <1>2, PTL DEF SessionSpec

-----------------------------------------------------------------------------
\* Every step keeps the enrolment, or notes that it was torn.
LEMMA EnrolmentStep ==
  ASSUME IInv, EnrolmentIntact, [SessionNext]_sessionVars
  PROVE  EnrolmentIntact'
<1> USE DEF EnrolmentIntact, history
<1>t. SessionTypeOK /\ user \in User
  BY DEF IInv, SessionTypeOK
<1>1. ASSUME NEW c \in Clients, EnableTwoFactor(c) PROVE EnrolmentIntact'
  <2>1. user'.enabled = TRUE /\ user'.secret = user.secret
    BY <1>t, <1>1 DEF EnableTwoFactor, User
  <2>2. read[c].secret \in Secrets /\ confirmed' = read[c].secret
    BY <1>t, <1>1 DEF EnableTwoFactor, SessionTypeOK, RequestsOK
  <2>3. torn' = (user.secret # read[c].secret)
    BY <1>1 DEF EnableTwoFactor
  <2> QED BY <2>1, <2>2, <2>3, SessionAssumption
<1>2. ASSUME NEW c \in Clients, DisableTwoFactor(c) PROVE EnrolmentIntact'
  <2>1. user'.enabled = FALSE /\ user'.codes = {}
    BY <1>t, <1>2 DEF DisableTwoFactor, User
  <2> QED BY <2>1
<1>3. ASSUME NEW c \in Clients, UpdateTwoFactorSecret(c) PROVE EnrolmentIntact'
  <2>1. user'.enabled = user.enabled /\ user'.codes = user.codes
        /\ torn' = (torn \/ user.enabled)
    BY <1>t, <1>3 DEF UpdateTwoFactorSecret, User
  <2> QED BY <2>1
<1>4. ASSUME NEW c \in Clients, ReplaceBackupCodes(c) PROVE EnrolmentIntact'
  <2>1. /\ user'.enabled = user.enabled /\ user'.secret = user.secret
        /\ torn' = (torn \/ ~user.enabled) /\ confirmed' = confirmed
    BY <1>t, <1>4 DEF ReplaceBackupCodes, User
  <2> QED BY <2>1
<1>5. ASSUME user'.enabled = user.enabled, user'.secret = user.secret,
             user'.codes \subseteq user.codes, confirmed' = confirmed, torn' = torn
      PROVE  EnrolmentIntact'
  BY <1>5
<1>6. ASSUME NEW c \in Clients,
             RevokeSessions(c) \/ UpdatePassword(c) \/ ConsumeBackupCode(c)
      PROVE  EnrolmentIntact'
  <2>1. /\ user'.enabled = user.enabled /\ user'.secret = user.secret
        /\ user'.codes \subseteq user.codes /\ confirmed' = confirmed /\ torn' = torn
    <3>1. CASE RevokeSessions(c)
      BY <1>t, <3>1 DEF RevokeSessions, User
    <3>2. CASE UpdatePassword(c)
      BY <1>t, <3>2 DEF UpdatePassword, User
    <3>3. CASE ConsumeBackupCode(c)
      BY <1>t, <3>3 DEF ConsumeBackupCode, Without, User
    <3> QED BY <1>6, <3>1, <3>2, <3>3
  <2> QED BY <1>5, <2>1
<1>7. ASSUME ChangePasswordScript PROVE EnrolmentIntact'
  <2>1. /\ user'.enabled = user.enabled /\ user'.secret = user.secret
        /\ user'.codes \subseteq user.codes /\ confirmed' = confirmed /\ torn' = torn
    BY <1>t, <1>7 DEF ChangePasswordScript, User
  <2> QED BY <1>5, <2>1
<1>8. ASSUME UNCHANGED <<user, confirmed, torn>> PROVE EnrolmentIntact'
  BY <1>8
<1> QED
  BY <1>1, <1>2, <1>3, <1>4, <1>6, <1>7, <1>8
  DEF SessionNext, sessionVars, Login, SignIn, BeginVerify, VerifyTotpCode, SignAfterBackupCode, Begin, Refuse

\* enableTwoFactor, disableTwoFactor: each sets every column of the enrolment
\* in one UPDATE.
THEOREM EnrolmentAlwaysIntact == SessionSpec => []EnrolmentIntact
<1>1. SessionInit => EnrolmentIntact
  BY DEF SessionInit, EnrolmentIntact, User
<1>2. IInv /\ EnrolmentIntact /\ [SessionNext]_sessionVars => EnrolmentIntact'
  BY EnrolmentStep
<1> QED BY Invariance, <1>1, <1>2, PTL DEF SessionSpec
=============================================================================
