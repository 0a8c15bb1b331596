----------------------------- MODULE SignIn_proofs -----------------------------
(***************************************************************************)
(* SignIn keeps its types, opens one session per link and leaves revoked   *)
(* sessions powerless; a challenge is worked on by one request and spent   *)
(* for good, and what the second factor guards is done by those who earned *)
(* it, for every set of users, links, sessions, challenges and requests.   *)
(*                                                                         *)
(* The argument about links: a link has one row, committed by the only     *)
(* request that carries it (Delivered), and a session is opened together   *)
(* with the mark on that row, which nothing takes back.                    *)
(*                                                                         *)
(* The argument about challenges: a request past the update of             *)
(* last_seen_at holds its session's row or has a revoked session (Held); a *)
(* challenge has one place and never a second one, so who works on the     *)
(* same answer works for the same session (Placed).                        *)
(***************************************************************************)
EXTENDS SignIn, TLAPS

OnSession == {"logout", "begin", "finish", "revokeKey"}

\* What a request knows at each of its stages.
Sound ==
    {q \in HttpRequest :
        /\ q.op # "idle" => q.user \in User
        /\ q.op \in {"link", "callback"} => q.token \in Token
        /\ q.op \in OnSession => q.session \in UserSession
        /\ q.op \in {"begin", "finish"} => q.purpose \in Purpose
        /\ q.stage # "none" => q.op \in OnSession
        /\ q.stage = "verified" => q.op = "finish" /\ q.response \in Response}

Requests == req \in [Request -> Sound]

\* Links under way: a requested link was sent, has no row yet and is carried by one request;
\* a callback knows the user of its link.
Delivered ==
    /\ \A t \in Token : Issued(t) => t \in emailed
    /\ \A r \in Request : req[r].op = "link" =>
           /\ req[r].token \in emailed
           /\ ~Issued(req[r].token)
           /\ \A s \in Request : req[s].op = "link" /\ req[s].token = req[r].token => s = r
    /\ \A r \in Request : req[r].op = "callback" => tokens[req[r].token].user = req[r].user
    /\ \A t \in Token : tokens[t].consumed => Issued(t)
    /\ \A e \in Consumed : e.session \in UserSession /\ e.token \in Token

TypeInv == TypeOK /\ Requests

LinkInv == TypeInv /\ Delivered /\ OneSessionPerLink

--------------------------------------------------------------------------------
(***************************************************************************)
(* Types.                                                                  *)
(***************************************************************************)

\* The idle request knows nothing.
LEMMA IdleSound == Idle \in Sound
BY DEF Idle, Sound, HttpRequest, OnSession, Operation

\* The requests after one of them was answered.
LEMMA AnswerSound ==
    ASSUME Requests, NEW r \in Request, Answer(r)
    PROVE  Requests'
BY IdleSound DEF Requests, Answer

\* The requests after one of them has come to know something.
LEMMA KnowsSound ==
    ASSUME Requests, NEW r \in Request, NEW q \in Sound, req' = [req EXCEPT ![r] = q]
    PROVE  Requests'
BY DEF Requests

\* What a new audit entry says.
LEMMA EntryType ==
    ASSUME NEW u \in User,
           NEW action \in {"magic_link.request", "magic_link.consume", "logout",
                           "register_finish", "authenticate_finish", "data_key.revoke"}
    PROVE  /\ Entry(action, u) \in AuditEntry
           /\ \A x \in UserSession, t \in Token :
                 [Entry(action, u) EXCEPT !.session = x, !.token = t] \in AuditEntry
           /\ \A x \in UserSession : [Entry(action, u) EXCEPT !.session = x] \in AuditEntry
           /\ \A k \in Credential : [Entry(action, u) EXCEPT !.credential = k] \in AuditEntry
BY DEF Entry, AuditEntry

\* Session rows are given back.
LEMMA ReleaseType ==
    ASSUME TypeOK, NEW r \in Request, Release(r)
    PROVE  seenBy' \in [UserSession -> Request \cup {None}]
BY DEF TypeOK, Release

\* Initially every variable has its type.
LEMMA TypeInit == Init => TypeInv
<1> SUFFICES ASSUME Init PROVE TypeInv
  OBVIOUS
<1>1. Requests
  BY IdleSound DEF Init, Requests
<1>2. req \in [Request -> HttpRequest]
  BY <1>1 DEF Requests, Sound
<1>3. PICK owner \in [Credential -> Admin \cup {None}] :
        creds = [k \in Credential |-> [user |-> owner[k], signCount |-> 0]]
  BY DEF Init
<1>4. creds \in [Credential -> CredentialRow]
  BY <1>3, Admins, SignBound DEF CredentialRow
<1> QED BY <1>1, <1>2, <1>4
        DEF Init, TypeInv, TypeOK, NoToken, TokenRow, NoSession, SessionRow, Purpose

\* Requests know what they should after every step.
LEMMA RequestsStep == TypeInv /\ [Next]_vars => Requests'
<1> SUFFICES ASSUME TypeOK, Requests, [Next]_vars PROVE Requests'
  BY DEF TypeInv
<1>1. ASSUME NEW r \in Request, NEW u \in User, NEW t \in Token, RequestLink(r, u, t)
      PROVE  Requests'
  <2>1. [Idle EXCEPT !.op = "link", !.user = u, !.token = t] \in Sound
    BY DEF Idle, Sound, HttpRequest, OnSession, Operation
  <2> QED BY <1>1, <2>1, KnowsSound DEF RequestLink
<1>2. ASSUME NEW r \in Request, NEW t \in Token, OpenLink(r, t)
      PROVE  Requests'
  <2>1. tokens[t].user \in User
    BY <1>2 DEF OpenLink, TypeOK
  <2>2. [Idle EXCEPT !.op = "callback", !.token = t, !.user = tokens[t].user] \in Sound
    BY <2>1 DEF Idle, Sound, HttpRequest, OnSession, Operation
  <2> QED BY <1>2, <2>2, KnowsSound DEF OpenLink
<1>3. ASSUME NEW r \in Request, NEW x \in UserSession,
             NEW op \in Operation \ {"link", "callback"}, NEW p \in Purpose \cup {None},
             ReadSession(r, x, op, p)
      PROVE  Requests'
  <2>1. sessions[x].user \in User
    BY <1>3 DEF ReadSession, TypeOK
  <2>2. op \in OnSession
    BY DEF Operation, OnSession
  <2>3. op \in {"begin", "finish"} => p \in Purpose
    BY <1>3 DEF ReadSession
  <2>4. [Idle EXCEPT !.op = op, !.stage = "read", !.session = x,
                     !.user = sessions[x].user, !.purpose = p] \in Sound
    BY <2>1, <2>2, <2>3 DEF Idle, Sound, HttpRequest, OnSession, Operation
  <2> QED BY <1>3, <2>4, KnowsSound DEF ReadSession
<1>4. ASSUME NEW r \in Request, Touch(r)
      PROVE  Requests'
  <2>1. [req[r] EXCEPT !.stage = "in"] \in Sound
    BY <1>4 DEF Touch, Requests, Sound, HttpRequest
  <2>2. req' = [req EXCEPT ![r] = [req[r] EXCEPT !.stage = "in"]]
    BY <1>4 DEF Touch
  <2> QED BY <2>1, <2>2, KnowsSound
<1>5. ASSUME NEW r \in Request, NEW a \in responses, Verify(r, a)
      PROVE  Requests'
  <2>1. a \in Response
    BY DEF TypeOK
  <2>2. [req[r] EXCEPT !.stage = "verified", !.response = a] \in Sound
    BY <1>5, <2>1 DEF Verify, In, Requests, Sound, HttpRequest
  <2>3. req' = [req EXCEPT ![r] = [req[r] EXCEPT !.stage = "verified", !.response = a]]
    BY <1>5 DEF Verify, Requests
  <2> QED BY <2>2, <2>3, KnowsSound
<1>6. ASSUME NEW r \in Request,
             \/ CommitLink(r) \/ LinkUsed(r)
             \/ \E x \in UserSession : ConsumeLink(r, x)
             \/ Logout(r) \/ RevokeKey(r)
             \/ \E h \in Challenge : Begin(r, h)
             \/ DropExpired(r) \/ FinishRegistration(r) \/ FinishAuthentication(r) \/ Abort(r)
      PROVE  Requests'
  <2>1. Answer(r)
    BY <1>6 DEF CommitLink, ConsumeLink, LinkUsed, Logout, RevokeKey, Begin, DropExpired,
                FinishRegistration, FinishAuthentication, Abort
  <2> QED BY <2>1, AnswerSound
<1>7. CASE World
  BY <1>7 DEF World, CreatePasskey, Sign, Expire, Suspend, RefuseLink, Requests
<1>8. CASE UNCHANGED vars
  BY <1>8 DEF vars, Requests
<1>9. ASSUME NEW r \in Request, LinkStep(r)
      PROVE  Requests'
  BY <1>1, <1>2, <1>6, <1>9 DEF LinkStep
<1>10. ASSUME NEW r \in Request, SessionStep(r)
       PROVE  Requests'
  BY <1>3, <1>4, <1>5, <1>6, <1>10 DEF SessionStep
<1> QED BY <1>6, <1>7, <1>8, <1>9, <1>10 DEF Next

\* The second factor and the challenge of a finish.
LEMMA FinishType ==
    ASSUME TypeInv, NEW r \in Request, req[r].stage = "verified"
    PROVE  /\ req[r].user \in User
           /\ req[r].response \in Response
           /\ Elevate(r) \in [UserSession -> SessionRow]
           /\ SpendChallenge(r) \in [UserSession -> [Purpose -> Challenge \cup {None}]]
<1>1. req[r] \in Sound
  BY DEF TypeInv, Requests
<1>2. /\ req[r].user \in User /\ req[r].response \in Response
      /\ req[r].session \in UserSession /\ req[r].purpose \in Purpose
  BY <1>1 DEF Sound, OnSession
<1>3. req[r].response.challenge \in Challenge
  BY <1>2 DEF Response
<1>4. Elevate(r) \in [UserSession -> SessionRow]
  BY <1>2, <1>3 DEF Elevate, TypeInv, TypeOK, SessionRow
<1>5. SpendChallenge(r) \in [UserSession -> [Purpose -> Challenge \cup {None}]]
  BY <1>2 DEF SpendChallenge, TypeInv, TypeOK
<1> QED BY <1>2, <1>4, <1>5

\* After every step every variable has its type.
LEMMA TypeStep == TypeInv /\ [Next]_vars => TypeInv'
<1> SUFFICES ASSUME TypeInv, [Next]_vars PROVE TypeOK'
  BY RequestsStep DEF TypeInv
<1> USE DEF TypeInv
<1>1. Requests' /\ req' \in [Request -> HttpRequest]
  BY RequestsStep DEF Requests, Sound
<1>2. ASSUME NEW r \in Request
      PROVE  req[r] \in Sound
  BY DEF Requests
<1>3. ASSUME NEW r \in Request, CommitLink(r)
      PROVE  TypeOK'
  <2>1. req[r].token \in Token /\ req[r].user \in User
    BY <1>2, <1>3 DEF CommitLink, Sound
  <2>2. tokens' \in [Token -> TokenRow]
    BY <1>3, <2>1 DEF CommitLink, TypeOK, NoToken, TokenRow
  <2>3. audit' \subseteq AuditEntry
    BY <1>3, <2>1, EntryType DEF CommitLink, Record, TypeOK
  <2> QED BY <1>1, <1>3, <2>2, <2>3 DEF CommitLink, TypeOK
<1>4. ASSUME NEW r \in Request, NEW x \in UserSession, ConsumeLink(r, x)
      PROVE  TypeOK'
  <2>1. req[r].token \in Token /\ req[r].user \in User
    BY <1>2, <1>4 DEF ConsumeLink, Sound
  <2>2. tokens' \in [Token -> TokenRow]
    BY <1>4, <2>1 DEF ConsumeLink, TypeOK, TokenRow
  <2>3. sessions' \in [UserSession -> SessionRow]
    BY <1>4, <2>1 DEF ConsumeLink, TypeOK, NoSession, SessionRow
  <2>4. audit' \subseteq AuditEntry
    <3>1. [Entry("magic_link.consume", req[r].user) EXCEPT !.session = x, !.token = req[r].token]
            \in AuditEntry
      BY <2>1, EntryType
    <3> QED BY <1>4, <3>1 DEF ConsumeLink, Record, TypeOK
  <2> QED BY <1>1, <1>4, <2>2, <2>3, <2>4 DEF ConsumeLink, TypeOK
<1>5. ASSUME NEW r \in Request, Touch(r)
      PROVE  TypeOK'
  <2>1. seenBy' \in [UserSession -> Request \cup {None}]
    BY <1>5 DEF Touch, TypeOK
  <2> QED BY <1>1, <1>5, <2>1 DEF Touch, TypeOK
<1>6. ASSUME NEW r \in Request, Logout(r)
      PROVE  TypeOK'
  <2>1. req[r].session \in UserSession /\ req[r].user \in User
    BY <1>2, <1>6 DEF Logout, In, Sound, OnSession
  <2>2. sessions' \in [UserSession -> SessionRow]
    BY <1>6, <2>1 DEF Logout, TypeOK, SessionRow
  <2>3. audit' \subseteq AuditEntry
    BY <1>6, <2>1, EntryType DEF Logout, Record, TypeOK
  <2> QED BY <1>1, <1>6, <2>2, <2>3, ReleaseType DEF Logout, TypeOK
<1>7. ASSUME NEW r \in Request, RevokeKey(r)
      PROVE  TypeOK'
  <2>1. req[r].user \in User
    BY <1>2, <1>7 DEF RevokeKey, In, Sound, OnSession
  <2>2. audit' \subseteq AuditEntry
    BY <1>7, <2>1, EntryType DEF RevokeKey, Record, TypeOK
  <2> QED BY <1>1, <1>7, <2>2, ReleaseType DEF RevokeKey, TypeOK
<1>8. ASSUME NEW r \in Request, NEW h \in Challenge \cup {None},
             challenges' = [challenges EXCEPT ![req[r].session][req[r].purpose] = h],
             In(r, "begin") \/ In(r, "finish")
      PROVE  challenges' \in [UserSession -> [Purpose -> Challenge \cup {None}]]
  <2>1. req[r].session \in UserSession /\ req[r].purpose \in Purpose
    BY <1>2, <1>8 DEF In, Sound, OnSession
  <2> QED BY <1>8, <2>1 DEF TypeOK
<1>9. ASSUME NEW r \in Request, NEW h \in Challenge, Begin(r, h)
      PROVE  TypeOK'
  <2>1. challenges' \in [UserSession -> [Purpose -> Challenge \cup {None}]]
    BY <1>8, <1>9 DEF Begin
  <2>2. seenBy' \in [UserSession -> Request \cup {None}]
    BY <1>9, ReleaseType DEF Begin
  <2> QED BY <1>1, <1>9, <2>1, <2>2 DEF Begin, TypeOK
<1>10. ASSUME NEW r \in Request, DropExpired(r)
       PROVE  TypeOK'
  <2>1. challenges' \in [UserSession -> [Purpose -> Challenge \cup {None}]]
    BY <1>8, <1>10 DEF DropExpired
  <2>2. seenBy' \in [UserSession -> Request \cup {None}]
    BY <1>10, ReleaseType DEF DropExpired
  <2> QED BY <1>1, <1>10, <2>1, <2>2 DEF DropExpired, TypeOK
<1>11. ASSUME NEW r \in Request, FinishRegistration(r)
       PROVE  TypeOK'
  <2>1. /\ req[r].user \in User /\ req[r].response.credential \in Credential
        /\ req[r].response.count \in 0 .. MaxSignCount
        /\ sessions' \in [UserSession -> SessionRow]
        /\ challenges' \in [UserSession -> [Purpose -> Challenge \cup {None}]]
    BY <1>11, FinishType DEF FinishRegistration, Response
  <2>2. creds' \in [Credential -> CredentialRow]
    BY <1>11, <2>1 DEF FinishRegistration, TypeOK, CredentialRow
  <2>3. audit' \subseteq AuditEntry
    BY <1>11, <2>1, EntryType DEF FinishRegistration, Record, TypeOK
  <2> QED BY <1>1, <1>11, <2>1, <2>2, <2>3, ReleaseType DEF FinishRegistration, TypeOK
<1>12. ASSUME NEW r \in Request, FinishAuthentication(r)
       PROVE  TypeOK'
  <2>1. /\ req[r].user \in User /\ req[r].response.credential \in Credential
        /\ req[r].response.count \in 0 .. MaxSignCount
        /\ sessions' \in [UserSession -> SessionRow]
        /\ challenges' \in [UserSession -> [Purpose -> Challenge \cup {None}]]
    BY <1>12, FinishType DEF FinishAuthentication, Response
  <2>2. creds' \in [Credential -> CredentialRow]
    BY <1>12, <2>1 DEF FinishAuthentication, TypeOK, CredentialRow
  <2>3. audit' \subseteq AuditEntry
    BY <1>12, <2>1, EntryType DEF FinishAuthentication, Record, TypeOK
  <2> QED BY <1>1, <1>12, <2>1, <2>2, <2>3, ReleaseType DEF FinishAuthentication, TypeOK
<1>13. ASSUME NEW r \in Request, Abort(r)
       PROVE  TypeOK'
  BY <1>1, <1>13, ReleaseType DEF Abort, TypeOK
<1>14. ASSUME NEW r \in Request,
              \/ \E u \in User, t \in Token : RequestLink(r, u, t)
              \/ \E t \in Token : OpenLink(r, t)
              \/ LinkUsed(r)
              \/ \E x \in UserSession, op \in Operation \ {"link", "callback"},
                    p \in Purpose \cup {None} : ReadSession(r, x, op, p)
              \/ \E a \in responses : Verify(r, a)
       PROVE  TypeOK'
  BY <1>1, <1>14 DEF RequestLink, OpenLink, LinkUsed, ReadSession, Verify, TypeOK
<1>15. CASE World
  <2>1. ASSUME NEW k \in Credential, NEW h \in Challenge, CreatePasskey(k, h)
        PROVE  TypeOK'
    BY <1>1, <2>1, SignBound DEF CreatePasskey, TypeOK, Response
  <2>2. ASSUME NEW k \in Credential, NEW h \in Challenge, NEW n \in 0 .. MaxSignCount,
               Sign(k, h, n)
        PROVE  TypeOK'
    BY <1>1, <2>2 DEF Sign, TypeOK, Response
  <2>3. ASSUME NEW i \in Token \cup Challenge, Expire(i)
        PROVE  TypeOK'
    BY <1>1, <2>3 DEF Expire, TypeOK
  <2>4. ASSUME NEW u \in User, Suspend(u)
        PROVE  TypeOK'
    BY <1>1, <2>4 DEF Suspend, TypeOK
  <2>5. ASSUME NEW u \in User, RefuseLink(u)
        PROVE  TypeOK'
    BY <1>1, <2>5, EntryType DEF RefuseLink, Record, TypeOK
  <2> QED BY <1>15, <2>1, <2>2, <2>3, <2>4, <2>5 DEF World
<1>16. CASE UNCHANGED vars
  BY <1>16 DEF vars, TypeOK
<1> QED BY <1>3, <1>4, <1>5, <1>6, <1>7, <1>9, <1>10, <1>11, <1>12, <1>13, <1>14, <1>15, <1>16
        DEF Next, LinkStep, SessionStep

\* Every variable keeps its type in every behaviour (the tables, the requests, the log).
THEOREM TypeCorrect == Spec => []TypeOK
<1>1. Spec => []TypeInv
  BY TypeInit, TypeStep, PTL DEF Spec
<1>2. TypeInv => TypeOK
  BY DEF TypeInv
<1> QED BY <1>1, <1>2, PTL

--------------------------------------------------------------------------------
(***************************************************************************)
(* Links.                                                                  *)
(***************************************************************************)

\* Only four actions are about links; the others leave them alone.
AboutLinks ==
    \E r \in Request :
        \/ \E u \in User, t \in Token : RequestLink(r, u, t)
        \/ CommitLink(r)
        \/ \E t \in Token : OpenLink(r, t)
        \/ \E x \in UserSession : ConsumeLink(r, x)

\* Other entries of the audit log say nothing of links.
LEMMA ConsumedKept ==
    ASSUME NEW entry, Record(entry), entry.action # "magic_link.consume"
    PROVE  Consumed' = Consumed
BY DEF Record, Consumed

\* Sessions keep their users, whoever raises or revokes them.
LEMMA OwnersKept ==
    ASSUME TypeInv, NEW r \in Request,
           \/ sessions' = sessions
           \/ sessions' = Elevate(r) /\ req[r].stage = "verified"
           \/ \E x \in UserSession : sessions' = [sessions EXCEPT ![x].revoked = TRUE],
           NEW x \in UserSession
    PROVE  sessions'[x].user = sessions[x].user
<1>1. sessions \in [UserSession -> SessionRow]
  BY DEF TypeInv, TypeOK
<1>2. CASE sessions' = Elevate(r)
  BY <1>1, <1>2 DEF Elevate, SessionRow
<1>3. ASSUME NEW y \in UserSession, sessions' = [sessions EXCEPT ![y].revoked = TRUE]
      PROVE  sessions'[x].user = sessions[x].user
  BY <1>1, <1>3 DEF SessionRow
<1> QED BY <1>2, <1>3

\* A request that was answered is about no link.
LEMMA AnswerKept ==
    ASSUME TypeInv, NEW r \in Request, Answer(r), NEW s \in Request
    PROVE  /\ s # r => req'[s] = req[s]
           /\ req'[r].op = "idle"
BY DEF TypeInv, Requests, Answer, Idle

\* What the other steps keep: links, what was consumed, owners of sessions and the requests
\* about links.
LinksKept ==
    /\ UNCHANGED <<tokens, emailed>>
    /\ Consumed' = Consumed
    /\ \A x \in UserSession : sessions'[x].user = sessions[x].user
    /\ \A s \in Request : req'[s].op \in {"link", "callback"} => req'[s] = req[s]

\* A step that is not about links keeps them.
LEMMA OtherSteps == TypeInv /\ [Next]_vars /\ ~AboutLinks => LinksKept
<1> SUFFICES ASSUME TypeInv, [Next]_vars, ~AboutLinks PROVE LinksKept
  OBVIOUS
<1>1. req \in [Request -> Sound] /\ req \in [Request -> HttpRequest]
  BY DEF TypeInv, TypeOK, Requests
<1>2. ASSUME NEW r \in Request, LinkUsed(r) \/ DropExpired(r) \/ Abort(r)
      PROVE  LinksKept
  BY <1>2, AnswerKept DEF LinkUsed, DropExpired, Abort, LinksKept, Consumed
<1>3. ASSUME NEW r \in Request, NEW h \in Challenge, Begin(r, h)
      PROVE  LinksKept
  BY <1>3, AnswerKept DEF Begin, LinksKept, Consumed
<1>4. ASSUME NEW r \in Request, NEW x \in UserSession,
             NEW op \in Operation \ {"link", "callback"}, NEW p \in Purpose \cup {None},
             ReadSession(r, x, op, p)
      PROVE  LinksKept
  <2>1. \A s \in Request : req'[s].op \in {"link", "callback"} => req'[s] = req[s]
    BY <1>1, <1>4 DEF ReadSession, Idle
  <2> QED BY <1>4, <2>1 DEF ReadSession, LinksKept, Consumed
<1>5. ASSUME NEW r \in Request, Touch(r)
      PROVE  LinksKept
  <2>1. req[r].op \in OnSession
    BY <1>1, <1>5 DEF Touch, Sound
  <2>2. \A s \in Request : req'[s].op \in {"link", "callback"} => req'[s] = req[s]
    BY <1>1, <1>5, <2>1 DEF Touch, HttpRequest, OnSession
  <2> QED BY <1>5, <2>2 DEF Touch, LinksKept, Consumed
<1>6. ASSUME NEW r \in Request, NEW a \in responses, Verify(r, a)
      PROVE  LinksKept
  <2>1. \A s \in Request : req'[s].op \in {"link", "callback"} => req'[s] = req[s]
    BY <1>1, <1>6 DEF Verify, In, HttpRequest
  <2> QED BY <1>6, <2>1 DEF Verify, LinksKept, Consumed
<1>7. ASSUME NEW r \in Request, Logout(r)
      PROVE  LinksKept
  <2>1. req[r].session \in UserSession
    BY <1>1, <1>7 DEF Logout, In, Sound, OnSession
  <2>2. \A x \in UserSession : sessions'[x].user = sessions[x].user
    BY <1>7, <2>1, OwnersKept DEF Logout
  <2>3. Consumed' = Consumed
    BY <1>7, ConsumedKept DEF Logout, Entry
  <2> QED BY <1>7, <2>2, <2>3, AnswerKept DEF Logout, LinksKept
<1>8. ASSUME NEW r \in Request, RevokeKey(r)
      PROVE  LinksKept
  <2>1. Consumed' = Consumed
    BY <1>8, ConsumedKept DEF RevokeKey, Entry
  <2> QED BY <1>8, <2>1, AnswerKept DEF RevokeKey, LinksKept
<1>9. ASSUME NEW r \in Request, FinishRegistration(r)
      PROVE  LinksKept
  <2>1. \A x \in UserSession : sessions'[x].user = sessions[x].user
    BY <1>9, OwnersKept DEF FinishRegistration
  <2>2. Consumed' = Consumed
    BY <1>9, ConsumedKept DEF FinishRegistration, Entry
  <2> QED BY <1>9, <2>1, <2>2, AnswerKept DEF FinishRegistration, LinksKept
<1>10. ASSUME NEW r \in Request, FinishAuthentication(r)
       PROVE  LinksKept
  <2>1. \A x \in UserSession : sessions'[x].user = sessions[x].user
    BY <1>10, OwnersKept DEF FinishAuthentication
  <2>2. Consumed' = Consumed
    BY <1>10, ConsumedKept DEF FinishAuthentication, Entry
  <2> QED BY <1>10, <2>1, <2>2, AnswerKept DEF FinishAuthentication, LinksKept
<1>11. ASSUME NEW u \in User, RefuseLink(u)
       PROVE  LinksKept
  <2>1. Consumed' = Consumed
    BY <1>11, ConsumedKept DEF RefuseLink, Entry
  <2> QED BY <1>11, <2>1 DEF RefuseLink, LinksKept
<1>12. CASE World
  <2>1. ASSUME NEW k \in Credential, NEW h \in Challenge,
               CreatePasskey(k, h) \/ \E n \in 0 .. MaxSignCount : Sign(k, h, n)
        PROVE  LinksKept
    BY <2>1 DEF CreatePasskey, Sign, LinksKept, Consumed
  <2>2. ASSUME NEW i, Expire(i) \/ Suspend(i)
        PROVE  LinksKept
    BY <2>2 DEF Expire, Suspend, LinksKept, Consumed
  <2> QED BY <1>11, <1>12, <2>1, <2>2 DEF World
<1>13. CASE UNCHANGED vars
  BY <1>13 DEF vars, LinksKept, Consumed
<1>14. ASSUME NEW r \in Request, LinkStep(r)
       PROVE  LinksKept
  BY <1>2, <1>14 DEF LinkStep, AboutLinks
<1>15. ASSUME NEW r \in Request, SessionStep(r)
       PROVE  LinksKept
  BY <1>2, <1>3, <1>4, <1>5, <1>6, <1>7, <1>8, <1>9, <1>10, <1>15 DEF SessionStep
<1> QED BY <1>2, <1>12, <1>13, <1>14, <1>15 DEF Next

\* Initially there are no links.
LEMMA LinkInit == Init => LinkInv
BY TypeInit DEF Init, LinkInv, Delivered, OneSessionPerLink, Consumed, Issued, Opened, Idle,
                NoToken, NoSession

\* Steps that are not about links keep them in order.
LEMMA OtherLinkStep == LinkInv /\ [Next]_vars /\ ~AboutLinks => Delivered' /\ OneSessionPerLink'
<1> SUFFICES ASSUME LinkInv, LinksKept PROVE Delivered' /\ OneSessionPerLink'
  BY OtherSteps DEF LinkInv
<1>1. Delivered'
  BY DEF LinkInv, LinksKept, Delivered, Issued
<1>2. OneSessionPerLink'
  BY DEF LinkInv, Delivered, LinksKept, OneSessionPerLink, Opened
<1> QED BY <1>1, <1>2

\* A new row is that of the link the request carries.
LEMMA CommitLinkStep ==
    ASSUME LinkInv, NEW r \in Request, CommitLink(r)
    PROVE  Delivered' /\ OneSessionPerLink'
<1> DEFINE l == req[r].token
<1>1. l \in Token /\ req[r].user \in User /\ l \in emailed /\ ~Issued(l)
  BY DEF LinkInv, TypeInv, Requests, Sound, CommitLink, Delivered
<1>2. Consumed' = Consumed
  BY ConsumedKept DEF CommitLink, Entry
<1>3. /\ tokens'[l].user = req[r].user /\ ~tokens'[l].consumed
      /\ \A t \in Token \ {l} : tokens'[t] = tokens[t]
  BY <1>1 DEF CommitLink, LinkInv, TypeInv, TypeOK, NoToken
<1>4. req'[r].op = "idle" /\ \A s \in Request \ {r} : req'[s] = req[s]
  BY AnswerKept DEF CommitLink, LinkInv
<1>5. UNCHANGED <<emailed, sessions>> /\ req[r].op = "link"
  BY DEF CommitLink
<1>6. \A s \in Request \ {r} : req[s].op \in {"link", "callback"} =>
          req[s].token \in Token /\ req[s].token # l
  <2>1. ASSUME NEW s \in Request \ {r}, req[s].op = "link"
        PROVE  req[s].token \in Token /\ req[s].token # l
    BY <1>5, <2>1 DEF LinkInv, TypeInv, Requests, Sound, Delivered
  <2>2. ASSUME NEW s \in Request \ {r}, req[s].op = "callback"
        PROVE  req[s].token \in Token /\ req[s].token # l
    <3>1. req[s].token \in Token /\ req[s].user \in User
      BY <2>2 DEF LinkInv, TypeInv, Requests, Sound
    <3>2. tokens[req[s].token].user = req[s].user
      BY <2>2 DEF LinkInv, Delivered
    <3>3. tokens[req[s].token].user # None /\ tokens[l].user = None
      BY <1>1, <3>1, <3>2, NoneIsNone DEF Issued
    <3> QED BY <3>1, <3>3
  <2> QED BY <2>1, <2>2
<1>7. Delivered'
  <2>1. \A t \in Token : tokens'[t].user # None => t \in emailed'
    <3>1. ASSUME NEW t \in Token, tokens'[t].user # None
          PROVE  t \in emailed
      <4>1. CASE t = l
        BY <1>1, <4>1
      <4>2. CASE t # l
        BY <1>3, <3>1, <4>2 DEF LinkInv, Delivered, Issued
      <4> QED BY <4>1, <4>2
    <3> QED BY <1>5, <3>1
  <2>2. \A s \in Request : req'[s].op = "link" =>
            /\ req'[s].token \in emailed'
            /\ tokens'[req'[s].token].user = None
            /\ \A q \in Request : req'[q].op = "link" /\ req'[q].token = req'[s].token => q = s
    <3>1. ASSUME NEW s \in Request, req'[s].op = "link"
          PROVE  /\ s # r /\ req'[s] = req[s] /\ req[s].token \in Token \ {l}
                 /\ req[s].token \in emailed /\ tokens[req[s].token].user = None
      BY <1>4, <1>6, <3>1 DEF LinkInv, Delivered, Issued
    <3>2. \A s, q \in Request : /\ req[s].op = "link" /\ req[q].op = "link"
                               /\ req[s].token = req[q].token => s = q
      BY DEF LinkInv, Delivered
    <3> HIDE DEF l
    <3> QED BY <1>3, <1>5, <3>1, <3>2
  <2>3. \A s \in Request : req'[s].op = "callback" =>
            tokens'[req'[s].token].user = req'[s].user
    BY <1>3, <1>4, <1>6 DEF LinkInv, Delivered
  <2>4. \A t \in Token : tokens'[t].consumed => tokens'[t].user # None
    BY <1>3 DEF LinkInv, Delivered, Issued
  <2> QED BY <1>2, <2>1, <2>2, <2>3, <2>4 DEF LinkInv, Delivered, Issued
<1>8. OneSessionPerLink'
  <2>1. ~tokens[l].consumed
    BY <1>1 DEF LinkInv, Delivered
  <2>2. \A e \in Consumed : e.token # l /\ e.token \in Token /\ e.session \in UserSession
    BY <1>1, <2>1 DEF LinkInv, OneSessionPerLink, Delivered
  <2> QED BY <1>1, <1>2, <1>3, <1>5, <2>1, <2>2 DEF LinkInv, OneSessionPerLink, Opened
<1> QED BY <1>7, <1>8

\* The session opens together with the mark on the row.
LEMMA ConsumeLinkStep ==
    ASSUME LinkInv, NEW r \in Request, NEW x \in UserSession, ConsumeLink(r, x)
    PROVE  Delivered' /\ OneSessionPerLink'
<1> DEFINE l == req[r].token
           u == req[r].user
           new == [Entry("magic_link.consume", u) EXCEPT !.session = x, !.token = l]
<1>1. l \in Token /\ u \in User /\ tokens[l].user = u
  BY DEF LinkInv, TypeInv, Requests, Sound, ConsumeLink, Delivered
<1>2. Consumed' = Consumed \cup {new} /\ new.token = l /\ new.session = x
  BY DEF ConsumeLink, Record, Consumed, Entry
<1> HIDE DEF new
<1>3. /\ tokens'[l].user = u /\ tokens'[l].consumed
      /\ \A t \in Token \ {l} : tokens'[t] = tokens[t]
  BY <1>1 DEF ConsumeLink, LinkInv, TypeInv, TypeOK, TokenRow
<1>4. sessions'[x].user = u /\ \A y \in UserSession \ {x} : sessions'[y] = sessions[y]
  BY DEF ConsumeLink, LinkInv, TypeInv, TypeOK, NoSession
<1>5. req'[r].op = "idle" /\ \A s \in Request \ {r} : req'[s] = req[s]
  BY AnswerKept DEF ConsumeLink, LinkInv
<1>6. emailed' = emailed /\ ~tokens[l].consumed /\ ~Opened(x)
  BY DEF ConsumeLink
<1>7. u # None
  BY <1>1, NoneIsNone
<1>8. \A t \in Token : tokens'[t].user = tokens[t].user
  BY <1>1, <1>3
<1>9. Delivered'
  <2>1. \A s \in Request : req'[s].op \in {"link", "callback"} =>
            req'[s] = req[s] /\ req[s].token \in Token
    BY <1>5 DEF LinkInv, TypeInv, Requests, Sound
  <2>2. \A e \in Consumed' : e.session \in UserSession /\ e.token \in Token
    BY <1>1, <1>2 DEF LinkInv, Delivered
  <2>3. \A t \in Token : tokens'[t].consumed => tokens'[t].user # None
    BY <1>3, <1>7 DEF LinkInv, Delivered, Issued
  <2> QED BY <1>6, <1>8, <2>1, <2>2, <2>3 DEF LinkInv, Delivered, Issued
<1>10. OneSessionPerLink'
  <2>1. \A e \in Consumed : /\ e.token \in Token /\ e.token # l
                            /\ e.session \in UserSession /\ e.session # x
    BY <1>1, <1>6 DEF LinkInv, Delivered, OneSessionPerLink
  <2>2. \A e, f \in Consumed' : e.token = f.token <=> e.session = f.session
    BY <1>2, <2>1 DEF LinkInv, OneSessionPerLink
  <2>3. \A y \in UserSession : sessions'[y].user # None <=> \E e \in Consumed' : e.session = y
    BY <1>2, <1>4, <1>7, <2>1 DEF LinkInv, OneSessionPerLink, Opened
  <2>4. \A t \in Token : tokens'[t].consumed <=> \E e \in Consumed' : e.token = t
    BY <1>1, <1>2, <1>3, <2>1 DEF LinkInv, OneSessionPerLink
  <2>5. \A e \in Consumed' : sessions'[e.session].user = tokens'[e.token].user
    BY <1>2, <1>3, <1>4, <1>8, <2>1 DEF LinkInv, OneSessionPerLink
  <2> QED BY <2>2, <2>3, <2>4, <2>5 DEF OneSessionPerLink, Opened
<1> QED BY <1>9, <1>10

\* A link is sent by one request, and opened for the user of its row.
LEMMA SendOpenStep ==
    ASSUME LinkInv, NEW r \in Request, NEW t \in Token,
           \/ \E u \in User : RequestLink(r, u, t)
           \/ OpenLink(r, t)
    PROVE  Delivered' /\ OneSessionPerLink'
<1>1. UNCHANGED <<tokens, sessions, audit>>
  BY DEF RequestLink, OpenLink
<1>2. Consumed' = Consumed
  BY <1>1 DEF Consumed
<1>3. OneSessionPerLink'
  BY <1>1, <1>2 DEF LinkInv, Delivered, OneSessionPerLink, Opened
<1>4. req \in [Request -> Sound]
  BY DEF LinkInv, TypeInv, Requests
<1>5. ASSUME NEW u \in User, RequestLink(r, u, t)
      PROVE  Delivered'
  <2>1. /\ req'[r].op = "link" /\ req'[r].token = t
        /\ \A s \in Request \ {r} : req'[s] = req[s]
    BY <1>4, <1>5 DEF RequestLink, Idle
  <2>2. emailed' = emailed \cup {t} /\ t \notin emailed /\ ~Issued(t)
    BY <1>5 DEF RequestLink
  <2> QED BY <1>1, <1>2, <2>1, <2>2 DEF LinkInv, Delivered, Issued
<1>6. ASSUME OpenLink(r, t)
      PROVE  Delivered'
  <2>1. /\ req'[r].op = "callback" /\ req'[r].token = t /\ req'[r].user = tokens[t].user
        /\ \A s \in Request \ {r} : req'[s] = req[s]
    BY <1>4, <1>6 DEF OpenLink, Idle
  <2>2. emailed' = emailed
    BY <1>6 DEF OpenLink
  <2> QED BY <1>1, <1>2, <2>1, <2>2 DEF LinkInv, Delivered, Issued
<1> QED BY <1>3, <1>5, <1>6

\* Every step keeps the links in order.
LEMMA LinkInvStep == LinkInv /\ [Next]_vars => LinkInv'
<1> SUFFICES ASSUME LinkInv, [Next]_vars PROVE Delivered' /\ OneSessionPerLink'
  BY TypeStep DEF LinkInv
<1>1. CASE ~AboutLinks
  BY <1>1, OtherLinkStep
<1>2. CASE AboutLinks
  BY <1>2, CommitLinkStep, ConsumeLinkStep, SendOpenStep DEF AboutLinks
<1> QED BY <1>1, <1>2

\* The invariant of links holds in every behaviour (request_magic_link, magic_link_callback).
THEOREM LinksSafe == Spec => []LinkInv
BY LinkInit, LinkInvStep, PTL DEF Spec

\* However callbacks race, a link opens at most one session (consume_magic_link_if_valid).
THEOREM OneSessionPerLinkSafe == Spec => []OneSessionPerLink
<1>1. LinkInv => OneSessionPerLink
  BY DEF LinkInv
<1> QED BY <1>1, LinksSafe, PTL

--------------------------------------------------------------------------------
(***************************************************************************)
(* Sessions and the second factor.                                         *)
(***************************************************************************)
\* Requests know whose session they are on, and only opened sessions are revoked or raised.
Entered ==
    /\ \A r \in Request : req[r].op \in OnSession =>
           sessions[req[r].session].user = req[r].user
    /\ \A x \in UserSession : sessions[x].revoked \/ sessions[x].mfa # None => Opened(x)

\* Past the update, a request holds the row of its session, unless that was revoked.
Held ==
    \A r \in Request : req[r].stage \in {"in", "verified"} =>
        sessions[req[r].session].revoked \/ seenBy[req[r].session] = r

\* A verified request works on an answer that was given, by a passkey of its user.
Answered ==
    \A r \in Request : req[r].stage = "verified" =>
        /\ req[r].response \in responses
        /\ req[r].purpose = "authentication" =>
               creds[req[r].response.credential].user = req[r].user

\* A challenge is at one place, and the requests that work on its answer are at that place.
Placed ==
    /\ \A x, y \in UserSession, p, q \in Purpose :
           challenges[x][p] = challenges[y][q] /\ challenges[x][p] # None => x = y /\ p = q
    /\ \A r \in Request : req[r].stage = "verified" =>
           \A x \in UserSession, p \in Purpose : challenges[x][p] = req[r].response.challenge =>
               x = req[r].session /\ p = req[r].purpose
    /\ \A r, s \in Request :
           /\ req[r].stage = "verified" /\ req[s].stage = "verified"
           /\ req[r].response.challenge = req[s].response.challenge
           => req[r].session = req[s].session

\* Somebody has used a passkey, says the log.
HasUsedPasskey(u, log) ==
    \E f \in log : f.action \in {"register_finish", "authenticate_finish"} /\ f.user = u

\* The second factor, and what it lets in, is for those who have used a passkey.
Admitted ==
    /\ \A x \in UserSession : sessions[x].mfa # None => HasUsedPasskey(sessions[x].user, audit)
    /\ \A r \in Request : req[r].op = "revokeKey" =>
           req[r].user \in Admin /\ HasUsedPasskey(req[r].user, audit)

EnteredInv == TypeInv /\ Entered

ChallengeInv == EnteredInv /\ Held /\ Answered /\ Placed /\ ChallengeSpent /\ SecondFactorEarned

AdmittedInv == EnteredInv /\ Admitted /\ KeyRevokedWithSecondFactor

--------------------------------------------------------------------------------
(***************************************************************************)
(* What a step does.                                                       *)
(***************************************************************************)

Finish(r) == FinishRegistration(r) \/ FinishAuthentication(r)

\* What happens to a request.
LEMMA RequestEffect ==
    ASSUME TypeInv, [Next]_vars, NEW r \in Request
    PROVE  \/ req'[r] = req[r]
           \/ req'[r] = Idle
           \/ req'[r].op \in {"link", "callback"} /\ req'[r].stage = "none"
           \/ \E x \in UserSession, op \in OnSession, p \in Purpose \cup {None} :
                 ReadSession(r, x, op, p)
           \/ Touch(r) /\ req'[r] = [req[r] EXCEPT !.stage = "in"]
           \/ \E a \in responses :
                 Verify(r, a) /\ req'[r] = [req[r] EXCEPT !.stage = "verified", !.response = a]
<1>1. req \in [Request -> HttpRequest]
  BY DEF TypeInv, TypeOK
<1>2. ASSUME NEW s \in Request, LinkStep(s)
      PROVE  \/ req'[r] = req[r] \/ req'[r] = Idle
             \/ req'[r].op \in {"link", "callback"} /\ req'[r].stage = "none"
  <2>1. ASSUME Answer(s)
        PROVE  req'[r] = req[r] \/ req'[r] = Idle
    BY <1>1, <2>1 DEF Answer
  <2>2. ASSUME NEW u \in User, NEW t \in Token, RequestLink(s, u, t)
        PROVE  req'[r] = req[r] \/ (req'[r].op \in {"link", "callback"} /\ req'[r].stage = "none")
    BY <1>1, <2>2 DEF RequestLink, Idle
  <2>3. \/ Answer(s)
        \/ \E u \in User, t \in Token : RequestLink(s, u, t)
        \/ \E t \in Token : OpenLink(s, t)
    BY <1>2 DEF LinkStep, CommitLink, ConsumeLink, LinkUsed
  <2>4. ASSUME NEW t \in Token, OpenLink(s, t)
        PROVE  req'[r] = req[r] \/ (req'[r].op \in {"link", "callback"} /\ req'[r].stage = "none")
    BY <1>1, <2>4 DEF OpenLink, Idle
  <2> QED BY <2>1, <2>2, <2>3, <2>4
<1>3. ASSUME NEW s \in Request, Abort(s) \/ (SessionStep(s) /\ Answer(s))
      PROVE  req'[r] = req[r] \/ req'[r] = Idle
  BY <1>1, <1>3 DEF Abort, Answer
<1>4. ASSUME NEW s \in Request, NEW x \in UserSession, NEW op \in Operation \ {"link", "callback"},
             NEW p \in Purpose \cup {None}, ReadSession(s, x, op, p)
      PROVE  req'[r] = req[r] \/ (s = r /\ op \in OnSession)
  BY <1>1, <1>4 DEF ReadSession, Operation, OnSession
<1>5. ASSUME NEW s \in Request, Touch(s)
      PROVE  req'[r] = req[r] \/ (s = r /\ req'[r] = [req[r] EXCEPT !.stage = "in"])
  BY <1>1, <1>5 DEF Touch
<1>6. ASSUME NEW s \in Request, NEW a \in responses, Verify(s, a)
      PROVE  \/ req'[r] = req[r]
             \/ s = r /\ req'[r] = [req[r] EXCEPT !.stage = "verified", !.response = a]
  BY <1>1, <1>6 DEF Verify
<1>7. ASSUME NEW s \in Request, SessionStep(s)
      PROVE  \/ Answer(s)
             \/ \E x \in UserSession, op \in Operation \ {"link", "callback"},
                   p \in Purpose \cup {None} : ReadSession(s, x, op, p)
             \/ Touch(s)
             \/ \E a \in responses : Verify(s, a)
  BY <1>7 DEF SessionStep, Logout, RevokeKey, Begin, DropExpired, FinishRegistration,
              FinishAuthentication
<1>8. CASE World \/ UNCHANGED vars
  BY <1>8 DEF World, CreatePasskey, Sign, Expire, Suspend, RefuseLink, vars
<1>9. ASSUME NEW s \in Request, SessionStep(s)
      PROVE  \/ req'[r] = req[r]
             \/ req'[r] = Idle
             \/ \E x \in UserSession, op \in OnSession, p \in Purpose \cup {None} :
                   ReadSession(r, x, op, p)
             \/ Touch(r) /\ req'[r] = [req[r] EXCEPT !.stage = "in"]
             \/ \E a \in responses :
                   Verify(r, a) /\ req'[r] = [req[r] EXCEPT !.stage = "verified", !.response = a]
  <2>1. CASE Answer(s)
    BY <1>3, <1>9, <2>1
  <2>2. ASSUME NEW x \in UserSession, NEW op \in Operation \ {"link", "callback"},
               NEW p \in Purpose \cup {None}, ReadSession(s, x, op, p)
        PROVE  \/ req'[r] = req[r]
               \/ \E y \in UserSession, o \in OnSession, q \in Purpose \cup {None} :
                     ReadSession(r, y, o, q)
    BY <1>4, <2>2
  <2>3. CASE Touch(s)
    BY <1>5, <2>3
  <2>4. ASSUME NEW a \in responses, Verify(s, a)
        PROVE  \/ req'[r] = req[r]
               \/ \E b \in responses :
                     Verify(r, b) /\ req'[r] = [req[r] EXCEPT !.stage = "verified", !.response = b]
    BY <1>6, <2>4
  <2> QED BY <1>7, <1>9, <2>1, <2>2, <2>3, <2>4
<1> QED BY <1>2, <1>3, <1>8, <1>9 DEF Next

\* What happens to a session.
LEMMA SessionEffect ==
    ASSUME TypeInv, [Next]_vars, NEW x \in UserSession
    PROVE  \/ sessions'[x] = sessions[x]
           \/ \E r \in Request : /\ ConsumeLink(r, x)
                                 /\ sessions'[x] = [NoSession EXCEPT !.user = req[r].user]
           \/ \E r \in Request : /\ Logout(r) /\ req[r].session = x
                                 /\ sessions'[x] = [sessions[x] EXCEPT !.revoked = TRUE]
           \/ \E r \in Request : /\ Finish(r) /\ req[r].session = x
                                 /\ ~sessions[x].revoked
                                 /\ sessions'[x] =
                                        [sessions[x] EXCEPT !.mfa = req[r].response.challenge]
<1> DEFINE opened(r)  == /\ ConsumeLink(r, x)
                         /\ sessions'[x] = [NoSession EXCEPT !.user = req[r].user]
           revoked(r) == /\ Logout(r) /\ req[r].session = x
                         /\ sessions'[x] = [sessions[x] EXCEPT !.revoked = TRUE]
           raised(r)  == /\ Finish(r) /\ req[r].session = x
                         /\ ~sessions[x].revoked
                         /\ sessions'[x] = [sessions[x] EXCEPT !.mfa = req[r].response.challenge]
<1> SUFFICES \/ sessions'[x] = sessions[x]
             \/ \E r \in Request : opened(r) \/ revoked(r) \/ raised(r)
  OBVIOUS
<1>1. sessions \in [UserSession -> SessionRow]
  BY DEF TypeInv, TypeOK
<1>2. ASSUME NEW r \in Request, NEW y \in UserSession, ConsumeLink(r, y)
      PROVE  sessions'[x] = sessions[x] \/ opened(r)
  BY <1>1, <1>2 DEF ConsumeLink
<1>3. ASSUME NEW r \in Request, Logout(r)
      PROVE  sessions'[x] = sessions[x] \/ revoked(r)
  BY <1>1, <1>3 DEF Logout
<1>4. ASSUME NEW r \in Request, Finish(r)
      PROVE  sessions'[x] = sessions[x] \/ raised(r)
  <2>1. sessions' = Elevate(r)
    BY <1>4 DEF Finish, FinishRegistration, FinishAuthentication
  <2> QED BY <1>1, <1>4, <2>1 DEF Elevate
<1>5. ASSUME NEW r \in Request,
             \/ LinkStep(r) /\ ~\E y \in UserSession : ConsumeLink(r, y)
             \/ SessionStep(r) /\ ~Logout(r) /\ ~Finish(r)
             \/ Abort(r)
      PROVE  sessions' = sessions
  BY <1>5 DEF LinkStep, SessionStep, Finish, RequestLink, CommitLink, OpenLink, LinkUsed, ReadSession,
              Touch, RevokeKey, Begin, DropExpired, Verify, Abort
<1>6. CASE World \/ UNCHANGED vars
  BY <1>6 DEF World, CreatePasskey, Sign, Expire, Suspend, RefuseLink, vars
<1> HIDE DEF opened, revoked, raised
<1>7. ASSUME NEW r \in Request, LinkStep(r) \/ SessionStep(r) \/ Abort(r)
      PROVE  sessions'[x] = sessions[x] \/ opened(r) \/ revoked(r) \/ raised(r)
  BY <1>2, <1>3, <1>4, <1>5, <1>7
<1> QED BY <1>6, <1>7 DEF Next

\* What happens to a challenge.
LEMMA ChallengeEffect ==
    ASSUME TypeInv, [Next]_vars, NEW x \in UserSession, NEW p \in Purpose
    PROVE  \/ challenges'[x][p] = challenges[x][p]
           \/ challenges'[x][p] = None
           \/ \E r \in Request, h \in Challenge :
                 /\ Begin(r, h) /\ req[r].session = x /\ req[r].purpose = p
                 /\ challenges'[x][p] = h
<1>1. challenges \in [UserSession -> [Purpose -> Challenge \cup {None}]]
  BY DEF TypeInv, TypeOK
<1>2. ASSUME NEW r \in Request, NEW h,
             challenges' = [challenges EXCEPT ![req[r].session][req[r].purpose] = h]
      PROVE  \/ challenges'[x][p] = challenges[x][p]
             \/ req[r].session = x /\ req[r].purpose = p /\ challenges'[x][p] = h
  BY <1>1, <1>2
<1>3. ASSUME NEW r \in Request, NEW h \in Challenge, Begin(r, h)
      PROVE  \/ challenges'[x][p] = challenges[x][p]
             \/ req[r].session = x /\ req[r].purpose = p /\ challenges'[x][p] = h
  BY <1>2, <1>3 DEF Begin
<1>4. ASSUME NEW r \in Request, DropExpired(r)
      PROVE  challenges'[x][p] = challenges[x][p] \/ challenges'[x][p] = None
  BY <1>2, <1>4 DEF DropExpired
<1>5. ASSUME NEW r \in Request, Finish(r)
      PROVE  challenges'[x][p] = challenges[x][p] \/ challenges'[x][p] = None
  <2>1. challenges' = SpendChallenge(r)
    BY <1>5 DEF Finish, FinishRegistration, FinishAuthentication
  <2> QED BY <1>2, <2>1 DEF SpendChallenge
<1>6. ASSUME NEW r \in Request,
             \/ LinkStep(r) \/ Abort(r)
             \/ /\ SessionStep(r) /\ ~Finish(r) /\ ~DropExpired(r)
                /\ ~\E h \in Challenge : Begin(r, h)
      PROVE  challenges' = challenges
  BY <1>6 DEF LinkStep, SessionStep, Finish, RequestLink, CommitLink, OpenLink, LinkUsed,
              ConsumeLink, ReadSession, Touch, Logout, RevokeKey, Verify, Abort
<1>7. CASE World \/ UNCHANGED vars
  BY <1>7 DEF World, CreatePasskey, Sign, Expire, Suspend, RefuseLink, vars
<1>8. ASSUME NEW r \in Request, LinkStep(r) \/ SessionStep(r) \/ Abort(r)
      PROVE  \/ challenges' = challenges \/ Finish(r) \/ DropExpired(r)
             \/ \E h \in Challenge : Begin(r, h)
  BY <1>6, <1>8
<1> QED BY <1>3, <1>4, <1>5, <1>7, <1>8 DEF Next

\* What happens to the holder of a session row.
LEMMA HolderEffect ==
    ASSUME TypeInv, [Next]_vars, NEW x \in UserSession, NEW r \in Request, seenBy[x] = r
    PROVE  seenBy'[x] = r \/ req'[r] = Idle
<1>1. /\ seenBy \in [UserSession -> Request \cup {None}] /\ req \in [Request -> HttpRequest]
      /\ r # None
  BY NoneIsNone DEF TypeInv, TypeOK
<1>2. ASSUME NEW s \in Request, Release(s), Answer(s)
      PROVE  seenBy'[x] = r \/ req'[r] = Idle
  BY <1>1, <1>2 DEF Release, Answer
<1>3. ASSUME NEW s \in Request, Touch(s)
      PROVE  seenBy'[x] = r
  BY <1>1, <1>3 DEF Touch
<1>4. ASSUME NEW s \in Request, SessionStep(s) \/ Abort(s) \/ LinkStep(s)
      PROVE  (Release(s) /\ Answer(s)) \/ Touch(s) \/ seenBy' = seenBy
  BY <1>4 DEF SessionStep, LinkStep, RequestLink, CommitLink, OpenLink, LinkUsed, ConsumeLink,
              ReadSession, Logout, RevokeKey, Begin, DropExpired, Verify,
              FinishRegistration, FinishAuthentication, Abort
<1>5. CASE World \/ UNCHANGED vars
  BY <1>5 DEF World, CreatePasskey, Sign, Expire, Suspend, RefuseLink, vars
<1> QED BY <1>2, <1>3, <1>4, <1>5 DEF Next

\* Passkeys keep their users, answers and audit entries are kept.
LEMMA HistoryKept ==
    ASSUME TypeInv, [Next]_vars
    PROVE  /\ \A k \in Credential : Registered(k) => creds'[k].user = creds[k].user
           /\ responses \subseteq responses'
           /\ audit \subseteq audit'
<1>1. creds \in [Credential -> CredentialRow]
  BY DEF TypeInv, TypeOK
<1>2. ASSUME NEW r \in Request, FinishRegistration(r)
      PROVE  \A k \in Credential : Registered(k) => creds'[k].user = creds[k].user
  BY <1>1, <1>2 DEF FinishRegistration, Registered
<1>3. ASSUME NEW r \in Request, FinishAuthentication(r)
      PROVE  \A k \in Credential : creds'[k].user = creds[k].user
  BY <1>1, <1>3 DEF FinishAuthentication, CredentialRow
<1>4. ASSUME NEW r \in Request, LinkStep(r) \/ SessionStep(r) \/ Abort(r)
      PROVE  /\ responses' = responses /\ audit \subseteq audit'
             /\ FinishRegistration(r) \/ FinishAuthentication(r) \/ creds' = creds
  BY <1>4 DEF LinkStep, SessionStep, RequestLink, CommitLink, OpenLink, LinkUsed, ConsumeLink,
              ReadSession, Touch, Logout, RevokeKey, Begin, DropExpired, Verify,
              FinishRegistration, FinishAuthentication, Abort, Record
<1>5. CASE World \/ UNCHANGED vars
  BY <1>5 DEF World, CreatePasskey, Sign, Expire, Suspend, RefuseLink, Record, vars
<1> QED BY <1>2, <1>3, <1>4, <1>5 DEF Next

--------------------------------------------------------------------------------
(***************************************************************************)
(* Sessions.                                                               *)
(***************************************************************************)

\* A session that was opened keeps its user.
LEMMA OwnerKept ==
    ASSUME TypeInv, [Next]_vars, NEW x \in UserSession, Opened(x)
    PROVE  sessions'[x].user = sessions[x].user /\ Opened(x)'
<1>1. sessions[x] \in SessionRow
  BY DEF TypeInv, TypeOK
<1>2. \A r \in Request : ~ConsumeLink(r, x)
  BY DEF ConsumeLink
<1>3. sessions'[x].user = sessions[x].user
  BY <1>1, <1>2, SessionEffect DEF SessionRow
<1> QED BY <1>3 DEF Opened

\* A request that has just read its session.
HasRead(r, x, op, p) ==
    /\ ReadSession(r, x, op, p)
    /\ req'[r].op = op /\ req'[r].stage = "read" /\ req'[r].purpose = p
    /\ req'[r].session = x /\ req'[r].user = sessions[x].user

\* Who is on a session, before and after a step.
LEMMA OnSessionEffect ==
    ASSUME TypeInv, [Next]_vars, NEW r \in Request, req'[r].op \in OnSession
    PROVE  \/ /\ req'[r].op = req[r].op /\ req'[r].session = req[r].session
              /\ req'[r].user = req[r].user /\ req'[r].purpose = req[r].purpose
           \/ \E x \in UserSession, op \in OnSession, p \in Purpose \cup {None} :
                 HasRead(r, x, op, p)
<1>1. req \in [Request -> HttpRequest] /\ req[r] \in HttpRequest
  BY DEF TypeInv, TypeOK
<1>2. req'[r] # Idle /\ req'[r].op \notin {"link", "callback"}
  BY DEF Idle, OnSession
<1>3. CASE \/ req'[r] = req[r]
           \/ req'[r] = [req[r] EXCEPT !.stage = "in"]
           \/ \E a \in responses : req'[r] = [req[r] EXCEPT !.stage = "verified", !.response = a]
  BY <1>1, <1>3 DEF HttpRequest
<1>4. ASSUME NEW x \in UserSession, NEW op \in OnSession, NEW p \in Purpose \cup {None},
             ReadSession(r, x, op, p)
      PROVE  HasRead(r, x, op, p)
  <2>1. req'[r] = [Idle EXCEPT !.op = op, !.stage = "read", !.session = x,
                               !.user = sessions[x].user, !.purpose = p]
    BY <1>1, <1>4 DEF ReadSession
  <2> QED BY <1>4, <2>1 DEF HasRead, Idle
<1>5. CASE \E x \in UserSession, op \in OnSession, p \in Purpose \cup {None} :
              ReadSession(r, x, op, p)
  BY <1>4, <1>5
<1>6. CASE Touch(r) /\ req'[r] = [req[r] EXCEPT !.stage = "in"]
  BY <1>3, <1>6
<1>7. CASE \E a \in responses :
              Verify(r, a) /\ req'[r] = [req[r] EXCEPT !.stage = "verified", !.response = a]
  BY <1>3, <1>7
<1> QED BY <1>2, <1>3, <1>5, <1>6, <1>7, RequestEffect

\* Initially nobody is on a session.
LEMMA EnteredInit == Init => EnteredInv
BY TypeInit DEF Init, EnteredInv, Entered, Idle, NoSession, OnSession, Opened

\* Requests stay on sessions of their users, and what is revoked was opened.
LEMMA EnteredStep == EnteredInv /\ [Next]_vars => EnteredInv'
<1> SUFFICES ASSUME EnteredInv, [Next]_vars PROVE Entered'
  BY TypeStep DEF EnteredInv
<1>1. TypeInv /\ Entered
  BY DEF EnteredInv
<1>2. ASSUME NEW r \in Request, req[r].op \in OnSession
      PROVE  req[r].session \in UserSession /\ Opened(req[r].session)
  <2>1. req[r] \in Sound
    BY <1>1 DEF TypeInv, Requests
  <2>2. req[r].session \in UserSession /\ req[r].user \in User
    BY <1>2, <2>1 DEF Sound, OnSession
  <2> QED BY <1>1, <1>2, <2>2, NoneIsNone DEF Entered, Opened
<1>3. ASSUME NEW r \in Request, req'[r].op \in OnSession
      PROVE  sessions'[req'[r].session].user = req'[r].user
  <2>1. CASE /\ req'[r].op = req[r].op /\ req'[r].session = req[r].session
             /\ req'[r].user = req[r].user
    BY <1>1, <1>2, <1>3, <2>1, OwnerKept DEF Entered
  <2>2. ASSUME NEW x \in UserSession, NEW op \in OnSession, NEW p \in Purpose \cup {None},
               HasRead(r, x, op, p)
        PROVE  sessions'[req'[r].session].user = req'[r].user
    <3>1. Opened(x) /\ req'[r].session = x /\ req'[r].user = sessions[x].user
      BY <2>2 DEF HasRead, ReadSession
    <3> QED BY <1>1, <3>1, OwnerKept
  <2> QED BY <1>1, <1>3, <2>1, <2>2, OnSessionEffect
<1>4. ASSUME NEW x \in UserSession, sessions'[x].revoked \/ sessions'[x].mfa # None
      PROVE  Opened(x)'
  <2>1. sessions[x] \in SessionRow
    BY <1>1 DEF TypeInv, TypeOK
  <2>2. CASE sessions'[x] = sessions[x]
    BY <1>1, <1>4, <2>2, OwnerKept DEF Entered
  <2>3. ASSUME NEW r \in Request, ConsumeLink(r, x),
               sessions'[x] = [NoSession EXCEPT !.user = req[r].user]
        PROVE  Opened(x)'
    BY <1>4, <2>3 DEF NoSession
  <2>4. ASSUME NEW r \in Request, Logout(r) \/ Finish(r), req[r].session = x
        PROVE  Opened(x)'
    <3>1. req[r] \in Sound
      BY <1>1 DEF TypeInv, Requests
    <3>2. req[r].op \in OnSession
      BY <2>4, <3>1 DEF Logout, In, Finish, FinishRegistration, FinishAuthentication, Sound,
                        OnSession
    <3> QED BY <1>1, <1>2, <2>4, <3>2, OwnerKept
  <2> QED BY <1>1, <2>2, <2>3, <2>4, SessionEffect
<1> QED BY <1>3, <1>4 DEF Entered

\* Requests are on sessions of their users in every behaviour (get_request_auth).
THEOREM EnteredSafe == Spec => []EnteredInv
BY EnteredInit, EnteredStep, PTL DEF Spec

\* A revoked session stays revoked and gains no second factor, in every step of every
\* behaviour (the revoked_at conditions of auth/repository.py).
THEOREM RevokedStaysPowerlessSafe == Spec => RevokedStaysPowerless
<1>1. EnteredInv /\ [Next]_vars =>
          [\A x \in UserSession : sessions[x].revoked =>
               sessions'[x].revoked /\ sessions'[x].mfa = sessions[x].mfa]_vars
  <2> SUFFICES ASSUME EnteredInv, [Next]_vars, NEW x \in UserSession, sessions[x].revoked
               PROVE  sessions'[x].revoked /\ sessions'[x].mfa = sessions[x].mfa
    OBVIOUS
  <2>1. TypeInv /\ Opened(x) /\ sessions[x] \in SessionRow
    BY DEF EnteredInv, Entered, TypeInv, TypeOK
  <2>2. \A r \in Request : ~ConsumeLink(r, x)
    BY <2>1 DEF ConsumeLink
  <2> QED BY <2>1, <2>2, SessionEffect DEF SessionRow
<1> QED BY <1>1, EnteredSafe, PTL DEF Spec, RevokedStaysPowerless

--------------------------------------------------------------------------------
(***************************************************************************)
(* Challenges.                                                             *)
(***************************************************************************)

\* What a request on a session knows.
LEMMA Knows ==
    ASSUME EnteredInv, NEW r \in Request, req[r].stage # "none"
    PROVE  /\ req[r].session \in UserSession /\ req[r].user \in User
           /\ Opened(req[r].session) /\ sessions[req[r].session].user = req[r].user
           /\ req[r].op \in {"begin", "finish"} => req[r].purpose \in Purpose
           /\ req[r].stage = "verified" =>
                 /\ req[r].op = "finish" /\ req[r].response \in Response
                 /\ req[r].response.challenge \in Challenge
<1>1. req[r] \in Sound
  BY DEF EnteredInv, TypeInv, Requests
<1>2. req[r].op \in OnSession /\ req[r].session \in UserSession /\ req[r].user \in User
  BY <1>1 DEF Sound, OnSession
<1>3. sessions[req[r].session].user = req[r].user
  BY <1>2 DEF EnteredInv, Entered
<1>4. Opened(req[r].session)
  BY <1>2, <1>3, NoneIsNone DEF Opened
<1>5. req[r].stage = "verified" =>
          /\ req[r].op = "finish" /\ req[r].response \in Response
          /\ req[r].response.challenge \in Challenge
  BY <1>1 DEF Sound, Response
<1> QED BY <1>1, <1>2, <1>3, <1>4, <1>5 DEF Sound

\* How a request comes to be past the update of last_seen_at.
LEMMA PastUpdate ==
    ASSUME EnteredInv, [Next]_vars, NEW r \in Request, req'[r].stage \in {"in", "verified"}
    PROVE  /\ req[r].stage # "none"
           /\ UNCHANGED <<req[r].session, req[r].user, req[r].purpose>>
           /\ req[r].stage \in {"in", "verified"} \/ Touch(r)
           /\ req'[r].stage = "verified" =>
                 \/ req[r].stage = "verified" /\ req'[r].response = req[r].response
                 \/ \E a \in responses : Verify(r, a) /\ req'[r].response = a
<1>1. TypeInv /\ req[r] \in HttpRequest /\ req \in [Request -> HttpRequest]
  BY DEF EnteredInv, TypeInv, TypeOK
<1>2. req'[r] # Idle
  BY DEF Idle
<1>3. CASE req'[r] = req[r]
  BY <1>3
<1>4. CASE Touch(r) /\ req'[r] = [req[r] EXCEPT !.stage = "in"]
  BY <1>1, <1>4 DEF Touch, HttpRequest
<1>5. ASSUME NEW a \in responses, Verify(r, a),
             req'[r] = [req[r] EXCEPT !.stage = "verified", !.response = a]
      PROVE  /\ req[r].stage = "in"
             /\ UNCHANGED <<req[r].session, req[r].user, req[r].purpose>>
             /\ req'[r].response = a
  BY <1>1, <1>5 DEF Verify, In, HttpRequest
<1>6. ASSUME NEW x \in UserSession, NEW op \in OnSession, NEW p \in Purpose \cup {None},
             ReadSession(r, x, op, p)
      PROVE  FALSE
  <2>1. req'[r] = [Idle EXCEPT !.op = op, !.stage = "read", !.session = x,
                               !.user = sessions[x].user, !.purpose = p]
    BY <1>1, <1>6 DEF ReadSession
  <2>2. req'[r].stage = "read"
    BY <2>1 DEF Idle
  <2> QED BY <2>2
<1>7. CASE \E a \in responses :
              Verify(r, a) /\ req'[r] = [req[r] EXCEPT !.stage = "verified", !.response = a]
  BY <1>5, <1>7
<1> QED BY <1>1, <1>2, <1>3, <1>4, <1>6, <1>7, RequestEffect

\* A revoked session stays so.
LEMMA RevokedKept ==
    ASSUME EnteredInv, [Next]_vars, NEW x \in UserSession, sessions[x].revoked
    PROVE  sessions'[x].revoked
<1>1. TypeInv /\ Opened(x) /\ sessions[x] \in SessionRow
  BY DEF EnteredInv, Entered, TypeInv, TypeOK
<1>2. \A r \in Request : ~ConsumeLink(r, x)
  BY <1>1 DEF ConsumeLink
<1> QED BY <1>1, <1>2, SessionEffect DEF SessionRow

\* Who was let past the update keeps the row, or has lost the session.
LEMMA HeldStep == EnteredInv /\ Held /\ [Next]_vars => Held'
<1> SUFFICES ASSUME EnteredInv, Held, [Next]_vars,
                    NEW r \in Request, req'[r].stage \in {"in", "verified"}
             PROVE  sessions'[req'[r].session].revoked \/ seenBy'[req'[r].session] = r
  BY DEF Held
<1> DEFINE x == req[r].session
<1>1. /\ req'[r].session = x /\ x \in UserSession
      /\ req[r].stage \in {"in", "verified"} \/ Touch(r)
  BY PastUpdate, Knows
<1>2. CASE sessions[x].revoked
  BY <1>1, <1>2, RevokedKept
<1>3. CASE req[r].stage \in {"in", "verified"} /\ seenBy[x] = r
  <2>1. req'[r] # Idle
    BY DEF Idle
  <2>2. TypeInv
    BY DEF EnteredInv
  <2> QED BY <1>1, <1>3, <2>1, <2>2, HolderEffect
<1>4. CASE Touch(r) /\ ~sessions[x].revoked
  BY <1>1, <1>4 DEF Touch, EnteredInv, TypeInv, TypeOK
<1> QED BY <1>1, <1>2, <1>3, <1>4 DEF Held

\* Answers and the passkeys that gave them stay what they were.
LEMMA AnsweredStep == EnteredInv /\ Answered /\ [Next]_vars => Answered'
<1> SUFFICES ASSUME EnteredInv, Answered, [Next]_vars,
                    NEW r \in Request, req'[r].stage = "verified"
             PROVE  /\ req'[r].response \in responses'
                    /\ req'[r].purpose = "authentication" =>
                           creds'[req'[r].response.credential].user = req'[r].user
  BY DEF Answered
<1>1. /\ UNCHANGED <<req[r].session, req[r].user, req[r].purpose>>
      /\ req[r].user \in User /\ TypeInv
  BY PastUpdate, Knows DEF EnteredInv
<1>2. CASE req[r].stage = "verified" /\ req'[r].response = req[r].response
  <2>1. req[r].response.credential \in Credential
    BY <1>2, Knows DEF Response
  <2>2. req[r].purpose = "authentication" => Registered(req[r].response.credential)
    BY <1>1, <1>2, NoneIsNone DEF Answered, Registered
  <2> QED BY <1>1, <1>2, <2>1, <2>2, HistoryKept DEF Answered
<1>3. ASSUME NEW a \in responses, Verify(r, a), req'[r].response = a
      PROVE  /\ req'[r].response \in responses'
             /\ req'[r].purpose = "authentication" =>
                    creds'[req'[r].response.credential].user = req'[r].user
  BY <1>1, <1>3 DEF Verify
<1> QED BY <1>2, <1>3, PastUpdate

\* A challenge is begun by one request, and was nowhere before.
LEMMA BegunOnce ==
    ASSUME TypeInv, NEW r \in Request, NEW s \in Request, NEW h \in Challenge, NEW i \in Challenge,
           Begin(r, h), Begin(s, i)
    PROVE  r = s
BY DEF Begin, In, Answer, Idle, TypeInv, TypeOK

\* Challenges keep to their places.
LEMMA PlacedStep == EnteredInv /\ Answered /\ Placed /\ [Next]_vars => Placed'
<1> SUFFICES ASSUME EnteredInv, Answered, Placed, [Next]_vars PROVE Placed'
  OBVIOUS
<1>1. TypeInv
  BY DEF EnteredInv
<1>2. ASSUME NEW x \in UserSession, NEW p \in Purpose, challenges'[x][p] # None
      PROVE  \/ challenges'[x][p] = challenges[x][p]
             \/ \E r \in Request, h \in Challenge :
                   /\ Begin(r, h) /\ req[r].session = x /\ req[r].purpose = p
                   /\ challenges'[x][p] = h
  BY <1>1, <1>2, ChallengeEffect
<1>3. ASSUME NEW x \in UserSession, NEW y \in UserSession, NEW p \in Purpose, NEW q \in Purpose,
             challenges'[x][p] = challenges'[y][q], challenges'[x][p] # None
      PROVE  x = y /\ p = q
  <2>1. CASE challenges'[x][p] = challenges[x][p] /\ challenges'[y][q] = challenges[y][q]
    <3>1. challenges[x][p] = challenges[y][q] /\ challenges[x][p] # None => x = y /\ p = q
      BY DEF Placed
    <3> QED BY <1>3, <2>1, <3>1
  <2>2. ASSUME NEW r \in Request, NEW h \in Challenge, Begin(r, h)
        PROVE  challenges[x][p] # h /\ challenges[y][q] # h
    BY <2>2 DEF Begin, FreshChallenge, Live
  <2>3. ASSUME NEW r \in Request, NEW s \in Request, NEW h \in Challenge, NEW i \in Challenge,
               Begin(r, h), req[r].session = x, req[r].purpose = p,
               Begin(s, i), req[s].session = y, req[s].purpose = q
        PROVE  x = y /\ p = q
    BY <1>1, <2>3, BegunOnce
  <2> QED BY <1>2, <1>3, <2>1, <2>2, <2>3
<1>4. ASSUME NEW r \in Request, NEW a \in responses, Verify(r, a)
      PROVE  /\ a.challenge = challenges[req[r].session][req[r].purpose] /\ a.challenge # None
             /\ req[r].session \in UserSession /\ req[r].purpose \in Purpose
             /\ challenges' = challenges
             /\ \A s \in Request \ {r} : req'[s] = req[s]
  <2>1. req[r].session \in UserSession /\ req[r].purpose \in Purpose
    BY <1>4, Knows DEF Verify, In
  <2>2. \A s \in Request \ {r} : req'[s] = req[s]
    BY <1>1, <1>4 DEF Verify, TypeInv, TypeOK
  <2> QED BY <1>4, <2>1, <2>2 DEF Verify, Asked
<1>5. ASSUME NEW r \in Request, req'[r].stage = "verified",
             NEW x \in UserSession, NEW p \in Purpose,
             challenges'[x][p] = req'[r].response.challenge
      PROVE  x = req'[r].session /\ p = req'[r].purpose
  <2>1. UNCHANGED <<req[r].session, req[r].purpose>>
    BY <1>5, PastUpdate
  <2>2. ASSUME NEW a \in responses, Verify(r, a), req'[r].response = a
        PROVE  x = req'[r].session /\ p = req'[r].purpose
    BY <1>4, <1>5, <2>1, <2>2 DEF Placed
  <2>3. CASE req[r].stage = "verified" /\ req'[r].response = req[r].response
    <3>1. req[r].response \in responses /\ req[r].response.challenge \in Challenge
      BY <2>3, Knows DEF Answered
    <3>2. challenges'[x][p] # None
      BY <1>5, <2>3, <3>1, NoneIsNone
    <3>3. \A s \in Request, h \in Challenge : Begin(s, h) => req[r].response.challenge # h
      BY <3>1 DEF Begin, FreshChallenge
    <3>4. challenges'[x][p] = challenges[x][p]
      BY <1>2, <1>5, <2>3, <3>2, <3>3
    <3> QED BY <1>5, <2>1, <2>3, <3>4 DEF Placed
  <2> QED BY <1>5, <2>2, <2>3, PastUpdate
<1>6. ASSUME NEW r \in Request, NEW s \in Request,
             req'[r].stage = "verified", req'[s].stage = "verified",
             req'[r].response.challenge = req'[s].response.challenge
      PROVE  req'[r].session = req'[s].session
  <2>1. UNCHANGED <<req[r].session, req[s].session>>
    BY <1>6, PastUpdate
  <2>2. CASE /\ req[r].stage = "verified" /\ req'[r].response = req[r].response
             /\ req[s].stage = "verified" /\ req'[s].response = req[s].response
    BY <1>6, <2>1, <2>2 DEF Placed
  <2>3. ASSUME NEW q \in Request, NEW o \in Request, NEW a \in responses, q # o,
               Verify(q, a), req'[q].response = a, req'[o].stage = "verified",
               req'[q].response.challenge = req'[o].response.challenge
        PROVE  req[q].session = req[o].session
    <3>1. req[o].stage = "verified" /\ req[o].response.challenge = a.challenge
      BY <1>4, <2>3
    <3> QED BY <1>4, <2>3, <3>1 DEF Placed
  <2>4. CASE r = s
    BY <2>4
  <2>5. CASE r # s /\ \E a \in responses : Verify(r, a) /\ req'[r].response = a
    BY <1>6, <2>1, <2>3, <2>5
  <2>6. CASE r # s /\ \E a \in responses : Verify(s, a) /\ req'[s].response = a
    BY <1>6, <2>1, <2>3, <2>6
  <2> QED BY <1>6, <2>2, <2>4, <2>5, <2>6, PastUpdate
<1> QED BY <1>3, <1>5, <1>6 DEF Placed

\* What gives a session its second factor.
LEMMA FinishEffect ==
    ASSUME EnteredInv, [Next]_vars, NEW r \in Request, Finish(r)
    PROVE  /\ req[r].stage = "verified"
           /\ req[r].session \in UserSession /\ req[r].purpose \in Purpose
           /\ sessions[req[r].session].user = req[r].user
           /\ Opened(req[r].session)
           /\ req[r].response.challenge \in Challenge
           /\ req[r].response.credential \in Credential
           /\ challenges' = SpendChallenge(r)
           /\ \E f \in audit' : /\ f.action \in {"register_finish", "authenticate_finish"}
                                /\ f.user = req[r].user
<1>1. req[r].stage = "verified"
  BY DEF Finish, FinishRegistration, FinishAuthentication
<1>2. req[r].response.challenge \in Challenge /\ req[r].response.credential \in Credential
  BY <1>1, Knows DEF Response
<1>3. \E f \in audit' : /\ f.action \in {"register_finish", "authenticate_finish"}
                        /\ f.user = req[r].user
  <2> DEFINE f(action) == [Entry(action, req[r].user) EXCEPT !.credential =
                                                                 req[r].response.credential]
  <2>1. f("register_finish") \in audit' \/ f("authenticate_finish") \in audit'
    BY DEF Finish, FinishRegistration, FinishAuthentication, Record
  <2>2. \A action : f(action).action = action /\ f(action).user = req[r].user
    BY DEF Entry
  <2> HIDE DEF f
  <2> QED BY <2>1, <2>2
<1>4. challenges' = SpendChallenge(r)
  BY DEF Finish, FinishRegistration, FinishAuthentication
<1> QED BY <1>1, <1>2, <1>3, <1>4, Knows

\* A spent challenge is gone: its only place was the one of the finish.
LEMMA ChallengeSpentStep ==
    EnteredInv /\ Placed /\ ChallengeSpent /\ [Next]_vars => ChallengeSpent'
<1> SUFFICES ASSUME EnteredInv, Placed, ChallengeSpent, [Next]_vars,
                    NEW x \in UserSession, sessions'[x].mfa # None,
                    NEW y \in UserSession, NEW p \in Purpose
             PROVE  challenges'[y][p] # sessions'[x].mfa
  BY DEF ChallengeSpent, Live
<1>1. TypeInv /\ sessions[x] \in SessionRow
  BY DEF EnteredInv, TypeInv, TypeOK
<1>2. CASE sessions[x].mfa = sessions'[x].mfa
  <2>1. challenges[y][p] # sessions[x].mfa
    BY <1>2 DEF ChallengeSpent, Live
  <2>2. \A r \in Request, h \in Challenge : Begin(r, h) => h # sessions[x].mfa
    BY DEF Begin, FreshChallenge
  <2> QED BY <1>1, <1>2, <2>1, <2>2, ChallengeEffect
<1>3. ASSUME NEW r \in Request, Finish(r), req[r].session = x,
             sessions'[x] = [sessions[x] EXCEPT !.mfa = req[r].response.challenge]
      PROVE  challenges'[y][p] # sessions'[x].mfa
  <2> DEFINE h == req[r].response.challenge
             q == req[r].purpose
  <2>1. sessions'[x].mfa = h /\ h # None
    BY <1>1, <1>3, FinishEffect, NoneIsNone DEF SessionRow
  <2>2. /\ req[r].stage = "verified" /\ q \in Purpose /\ challenges' = SpendChallenge(r)
    BY <1>3, FinishEffect
  <2>3. challenges[y][p] = h => y = x /\ p = q
    BY <1>3, <2>2 DEF Placed
  <2>4. CASE challenges[x][q] = h
    <3>1. challenges' = [challenges EXCEPT ![x][q] = None]
      BY <1>3, <2>2, <2>4 DEF SpendChallenge, Asked
    <3>2. challenges'[y][p] = IF y = x /\ p = q THEN None ELSE challenges[y][p]
      BY <1>1, <2>2, <3>1 DEF TypeInv, TypeOK
    <3> QED BY <2>1, <2>3, <3>2
  <2>5. CASE challenges[x][q] # h
    <3>1. challenges' = challenges
      BY <1>3, <2>2, <2>5 DEF SpendChallenge, Asked
    <3> QED BY <2>1, <2>3, <2>5, <3>1
  <2> QED BY <2>4, <2>5
<1>4. ASSUME NEW r \in Request, sessions'[x] = [NoSession EXCEPT !.user = req[r].user]
      PROVE  FALSE
  BY <1>4 DEF NoSession
<1>5. CASE sessions'[x] = [sessions[x] EXCEPT !.revoked = TRUE]
  BY <1>1, <1>2, <1>5 DEF SessionRow
<1>6. CASE sessions'[x] = sessions[x]
  BY <1>2, <1>6
<1> QED BY <1>1, <1>3, <1>4, <1>5, <1>6, SessionEffect

\* The passkey that answered is registered for the user of the session by now.
LEMMA SecondFactorStep ==
    EnteredInv /\ Answered /\ SecondFactorEarned /\ [Next]_vars => SecondFactorEarned'
<1> SUFFICES ASSUME EnteredInv, Answered, SecondFactorEarned, [Next]_vars,
                    NEW x \in UserSession, sessions'[x].mfa # None
             PROVE  \E a \in responses' : /\ a.challenge = sessions'[x].mfa
                                          /\ creds'[a.credential].user = sessions'[x].user
  BY DEF SecondFactorEarned
<1>1. TypeInv /\ sessions[x] \in SessionRow
  BY DEF EnteredInv, TypeInv, TypeOK
<1>2. CASE sessions[x].mfa = sessions'[x].mfa
  <2>1. Opened(x)
    BY <1>2 DEF EnteredInv, Entered
  <2>2. PICK a \in responses : /\ a.challenge = sessions[x].mfa
                               /\ creds[a.credential].user = sessions[x].user
    BY <1>2 DEF SecondFactorEarned
  <2>3. a.credential \in Credential
    BY <1>1 DEF TypeInv, TypeOK, Response
  <2>4. Registered(a.credential)
    BY <2>1, <2>2 DEF Registered, Opened
  <2> QED BY <1>1, <1>2, <2>1, <2>2, <2>3, <2>4, HistoryKept, OwnerKept
<1>3. ASSUME NEW r \in Request, Finish(r), req[r].session = x,
             sessions'[x] = [sessions[x] EXCEPT !.mfa = req[r].response.challenge]
      PROVE  \E a \in responses' : /\ a.challenge = sessions'[x].mfa
                                   /\ creds'[a.credential].user = sessions'[x].user
  <2> DEFINE a == req[r].response
  <2>1. sessions'[x].mfa = a.challenge /\ sessions'[x].user = req[r].user
    BY <1>1, <1>3, FinishEffect DEF SessionRow
  <2>2. req[r].stage = "verified" /\ a.credential \in Credential /\ req[r].user \in User
    BY <1>3, FinishEffect, Knows
  <2>3. a \in responses'
    BY <1>1, <2>2, HistoryKept DEF Answered
  <2>4. creds'[a.credential].user = req[r].user
    <3>1. CASE FinishRegistration(r)
      BY <1>1, <2>2, <3>1 DEF FinishRegistration, TypeInv, TypeOK
    <3>2. CASE FinishAuthentication(r)
      <4>1. creds[a.credential].user = req[r].user
        BY <2>2, <3>2 DEF FinishAuthentication, Answered
      <4>2. Registered(a.credential)
        BY <2>2, <4>1, NoneIsNone DEF Registered
      <4> QED BY <1>1, <2>2, <4>1, <4>2, HistoryKept
    <3> QED BY <1>3, <3>1, <3>2 DEF Finish
  <2> QED BY <2>1, <2>3, <2>4
<1>4. ASSUME NEW r \in Request, sessions'[x] = [NoSession EXCEPT !.user = req[r].user]
      PROVE  FALSE
  BY <1>4 DEF NoSession
<1>5. CASE sessions'[x] = [sessions[x] EXCEPT !.revoked = TRUE]
  BY <1>1, <1>2, <1>5 DEF SessionRow
<1>6. CASE sessions'[x] = sessions[x]
  BY <1>2, <1>6
<1> QED BY <1>1, <1>3, <1>4, <1>5, <1>6, SessionEffect

\* Initially there are no challenges.
LEMMA ChallengeInit == Init => ChallengeInv
BY EnteredInit DEF Init, ChallengeInv, Held, Answered, Placed, ChallengeSpent,
                   SecondFactorEarned, Idle, NoSession

\* The invariant of challenges holds in every behaviour (webauthn_routes.py, repository.py).
THEOREM ChallengesSafe == Spec => []ChallengeInv
<1>1. ChallengeInv /\ [Next]_vars => ChallengeInv'
  BY EnteredStep, HeldStep, AnsweredStep, PlacedStep, ChallengeSpentStep, SecondFactorStep
  DEF ChallengeInv
<1> QED BY <1>1, ChallengeInit, PTL DEF Spec

\* A challenge that gave a session its second factor is gone for good
\* (delete_webauthn_challenge).
THEOREM ChallengeSpentSafe == Spec => []ChallengeSpent
<1>1. ChallengeInv => ChallengeSpent
  BY DEF ChallengeInv
<1> QED BY <1>1, ChallengesSafe, PTL

\* Only requests of a revoked session ever work on the same answer at the same time
\* (touch_user_session_seen).
THEOREM ChallengeExclusiveSafe == Spec => []ChallengeExclusive
<1>1. ChallengeInv => ChallengeExclusive
  BY DEF ChallengeInv, Held, Placed, ChallengeExclusive
<1> QED BY <1>1, ChallengesSafe, PTL

\* The second factor of a session comes from a passkey of its own user
\* (webauthn_register_finish, webauthn_authenticate_finish).
THEOREM SecondFactorEarnedSafe == Spec => []SecondFactorEarned
<1>1. ChallengeInv => SecondFactorEarned
  BY DEF ChallengeInv
<1> QED BY <1>1, ChallengesSafe, PTL

--------------------------------------------------------------------------------
(***************************************************************************)
(* What the second factor guards.                                          *)
(***************************************************************************)

\* The revocation of the key is recorded by nobody else.
LEMMA RevocationEffect ==
    ASSUME [Next]_vars, NEW e \in audit', e.action = "data_key.revoke"
    PROVE  \/ e \in audit
           \/ \E r \in Request : RevokeKey(r) /\ e.user = req[r].user
<1>1. ASSUME NEW entry, Record(entry), entry.action # "data_key.revoke"
      PROVE  e \in audit
  BY <1>1 DEF Record
<1>2. ASSUME NEW r \in Request, CommitLink(r) \/ Logout(r) \/ \E x \in UserSession : ConsumeLink(r, x)
      PROVE  e \in audit
  <2>1. CASE CommitLink(r)
    BY <1>1, <2>1 DEF CommitLink, Entry
  <2>2. CASE Logout(r)
    BY <1>1, <2>2 DEF Logout, Entry
  <2>3. ASSUME NEW x \in UserSession, ConsumeLink(r, x)
        PROVE  e \in audit
    BY <1>1, <2>3 DEF ConsumeLink, Entry
  <2> QED BY <1>2, <2>1, <2>2, <2>3
<1>3. ASSUME NEW r \in Request, Finish(r)
      PROVE  e \in audit
  <2>1. CASE FinishRegistration(r)
    BY <1>1, <2>1 DEF FinishRegistration, Entry
  <2>2. CASE FinishAuthentication(r)
    BY <1>1, <2>2 DEF FinishAuthentication, Entry
  <2> QED BY <1>3, <2>1, <2>2 DEF Finish
<1>4. ASSUME NEW r \in Request, RevokeKey(r)
      PROVE  e \in audit \/ e.user = req[r].user
  BY <1>4 DEF RevokeKey, Record, Entry
<1>5. ASSUME NEW u \in User, RefuseLink(u)
      PROVE  e \in audit
  BY <1>1, <1>5 DEF RefuseLink, Entry
<1>6. ASSUME NEW r \in Request, LinkStep(r) \/ SessionStep(r) \/ Abort(r)
      PROVE  \/ CommitLink(r) \/ Logout(r) \/ \E x \in UserSession : ConsumeLink(r, x)
             \/ Finish(r) \/ RevokeKey(r) \/ audit' = audit
  BY <1>6 DEF LinkStep, SessionStep, Finish, RequestLink, OpenLink, LinkUsed, ReadSession, Touch,
              Begin, DropExpired, Verify, Abort
<1>7. CASE World \/ UNCHANGED vars
  BY <1>5, <1>7 DEF World, CreatePasskey, Sign, Expire, Suspend, vars
<1> QED BY <1>2, <1>3, <1>4, <1>6, <1>7 DEF Next

\* Who was let in by the second factor has used a passkey.
LEMMA AdmittedStep == EnteredInv /\ Admitted /\ [Next]_vars => Admitted'
<1> SUFFICES ASSUME EnteredInv, Admitted, [Next]_vars PROVE Admitted'
  OBVIOUS
<1>1. TypeInv
  BY DEF EnteredInv
<1>2. ASSUME NEW u, HasUsedPasskey(u, audit)
      PROVE  HasUsedPasskey(u, audit')
  BY <1>1, <1>2, HistoryKept DEF HasUsedPasskey
<1>3. ASSUME NEW x \in UserSession, sessions'[x].mfa # None
      PROVE  HasUsedPasskey(sessions[x].user, audit') /\ sessions'[x].user = sessions[x].user
  <2>1. sessions[x] \in SessionRow
    BY <1>1 DEF TypeInv, TypeOK
  <2>2. CASE sessions[x].mfa # None
    <3>1. Opened(x)
      BY <2>2 DEF EnteredInv, Entered
    <3>2. HasUsedPasskey(sessions[x].user, audit)
      BY <2>2 DEF Admitted
    <3> QED BY <1>1, <1>2, <3>1, <3>2, OwnerKept
  <2>3. CASE sessions[x].mfa = None
    <3>1. PICK r \in Request : Finish(r) /\ req[r].session = x
      BY <1>1, <1>3, <2>1, <2>3, SessionEffect DEF SessionRow, NoSession
    <3>2. Opened(x) /\ sessions[x].user = req[r].user
      BY <3>1, FinishEffect
    <3>3. \E f \in audit' : /\ f.action \in {"register_finish", "authenticate_finish"}
                            /\ f.user = sessions[x].user
      BY <3>1, <3>2, FinishEffect
    <3>4. sessions'[x].user = sessions[x].user
      BY <1>1, <3>2, OwnerKept
    <3> QED BY <3>3, <3>4 DEF HasUsedPasskey
  <2> QED BY <2>2, <2>3
<1>4. ASSUME NEW r \in Request, req'[r].op = "revokeKey"
      PROVE  req'[r].user \in Admin /\ HasUsedPasskey(req'[r].user, audit')
  <2>1. CASE req'[r].op = req[r].op /\ req'[r].user = req[r].user
    BY <1>2, <1>4, <2>1 DEF Admitted
  <2>2. ASSUME NEW x \in UserSession, NEW op \in OnSession, NEW p \in Purpose \cup {None},
               HasRead(r, x, op, p)
        PROVE  req'[r].user \in Admin /\ HasUsedPasskey(req'[r].user, audit')
    <3>1. op = "revokeKey" /\ Gate(op, x) /\ req'[r].user = sessions[x].user
      BY <1>4, <2>2 DEF HasRead, ReadSession
    <3>2. sessions[x].user \in Admin /\ sessions[x].mfa # None
      BY <3>1 DEF Gate
    <3>3. HasUsedPasskey(sessions[x].user, audit)
      BY <3>2 DEF Admitted
    <3> QED BY <1>2, <3>1, <3>2, <3>3
  <2>3. req'[r].op \in OnSession
    BY <1>4 DEF OnSession
  <2> QED BY <1>1, <2>1, <2>2, <2>3, OnSessionEffect
<1>5. ASSUME NEW x \in UserSession, sessions'[x].mfa # None
      PROVE  HasUsedPasskey(sessions'[x].user, audit')
  BY <1>3, <1>5
<1> QED BY <1>4, <1>5 DEF Admitted

\* The data key is revoked only by admins who have used a passkey (require_role, require_mfa).
THEOREM KeyRevokedWithSecondFactorSafe == Spec => []KeyRevokedWithSecondFactor
<1>1. Init => AdmittedInv
  BY EnteredInit
  DEF Init, AdmittedInv, Admitted, KeyRevokedWithSecondFactor, Idle, NoSession
<1>2. AdmittedInv /\ [Next]_vars => AdmittedInv'
  <2> SUFFICES ASSUME AdmittedInv, [Next]_vars PROVE KeyRevokedWithSecondFactor'
    BY EnteredStep, AdmittedStep DEF AdmittedInv
  <2>1. ASSUME NEW u, HasUsedPasskey(u, audit)
        PROVE  HasUsedPasskey(u, audit')
    BY <2>1, HistoryKept DEF AdmittedInv, EnteredInv, HasUsedPasskey
  <2>2. ASSUME NEW e \in audit', e.action = "data_key.revoke"
        PROVE  e.user \in Admin /\ HasUsedPasskey(e.user, audit)
    <3>1. CASE e \in audit
      BY <2>2, <3>1 DEF AdmittedInv, KeyRevokedWithSecondFactor, HasUsedPasskey
    <3>2. ASSUME NEW r \in Request, RevokeKey(r), e.user = req[r].user
          PROVE  e.user \in Admin /\ HasUsedPasskey(e.user, audit)
      BY <3>2 DEF AdmittedInv, Admitted, RevokeKey, In
    <3> QED BY <2>2, <3>1, <3>2, RevocationEffect
  <2> QED BY <2>1, <2>2 DEF KeyRevokedWithSecondFactor, HasUsedPasskey
<1>3. AdmittedInv => KeyRevokedWithSecondFactor
  BY DEF AdmittedInv
<1> QED BY <1>1, <1>2, <1>3, PTL DEF Spec

================================================================================
