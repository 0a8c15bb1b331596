--------------------------------- MODULE SignIn ---------------------------------
(***************************************************************************)
(* Sign-in of one organisation's users: magic links and sessions           *)
(* (auth/routes.py, auth/deps.py), passkeys as the second factor of admins *)
(* (auth/webauthn_routes.py), and the one operation the second factor      *)
(* guards, the revocation of the organisation's data key (orgs/router.py). *)
(*                                                                         *)
(* An authenticated request reads its session row, then updates its        *)
(* last_seen_at.  That update locks the row until the request's            *)
(* transaction ends, unless the session was revoked in between: then it    *)
(* matches no row, and the request goes on all the same.                   *)
(***************************************************************************)
EXTENDS Naturals, FiniteSets

CONSTANTS User,         \* users of the organisation
          Admin,        \* those with the role admin
          Token,        \* magic links that can be requested (bounds the history)
          UserSession,  \* sessions that can be opened (bounds the history)
          Challenge,    \* challenges that can be issued (bounds the history)
          Credential,   \* passkeys that users hold or may create
          Counterless,  \* the passkeys that do not count their signatures
          MaxSignCount, \* how often the others are used at most
          Request,      \* requests the API serves at the same time
          None          \* "no token", "no session", ...

ASSUME Admins == Admin \subseteq User
ASSUME SignBound == MaxSignCount \in Nat
ASSUME Uncounted == Counterless \subseteq Credential
ASSUME NoneIsNone == None \notin User \cup Token \cup UserSession \cup Challenge \cup Credential
                                      \cup Request

VARIABLES active,     \* the users whose status is active
          tokens,     \* the magic_link_tokens table
          emailed,    \* the links that were sent, whatever became of their rows
          sessions,   \* the sessions table
          seenBy,     \* the request whose transaction holds the session row
          challenges, \* the webauthn_challenges table: one per session and purpose
          expired,    \* unused tokens and pending challenges whose time is over
          creds,      \* the webauthn_credentials table
          responses,  \* what the browsers' authenticators have answered to challenges
          keyRevoked, \* whether organizations.data_key_revoked_at is set
          req,        \* what each request has read so far
          audit       \* the committed audit entries of the auth operations

vars == <<active, tokens, emailed, sessions, seenBy, challenges, expired, creds, responses,
          keyRevoked, req, audit>>

Purpose == {"registration", "authentication"}

TokenRow == [user : User \cup {None}, consumed : BOOLEAN]

NoToken == [user |-> None, consumed |-> FALSE]

\* mfa stands for mfa_verified_at: the challenge whose finish set it last.
SessionRow == [user : User \cup {None}, revoked : BOOLEAN, mfa : Challenge \cup {None}]

NoSession == [user |-> None, revoked |-> FALSE, mfa |-> None]

CredentialRow == [user : User \cup {None}, signCount : 0 .. MaxSignCount]

\* A signed answer of a passkey to a challenge; a new passkey answers with count 0.
Response == [credential : Credential, challenge : Challenge, count : 0 .. MaxSignCount]

Operation == {"link", "callback", "logout", "begin", "finish", "revokeKey"}

\* stage of a request on a session: "read" the session, "in" after last_seen_at, "verified"
\* after the answer of a passkey was checked.
HttpRequest == [op : Operation \cup {"idle"}, stage : {"none", "read", "in", "verified"},
                user : User \cup {None}, token : Token \cup {None},
                session : UserSession \cup {None}, purpose : Purpose \cup {None},
                response : Response \cup {None}]

Idle == [op |-> "idle", stage |-> "none", user |-> None, token |-> None, session |-> None,
         purpose |-> None, response |-> None]

AuditEntry ==
    [action : {"magic_link.request", "magic_link.consume", "logout", "register_finish",
               "authenticate_finish", "data_key.revoke"},
     user : User, session : UserSession \cup {None}, token : Token \cup {None},
     credential : Credential \cup {None}]

Entry(action, u) ==
    [action |-> action, user |-> u, session |-> None, token |-> None, credential |-> None]

Record(entry) == audit' = audit \cup {entry}

Issued(t) == tokens[t].user # None

Opened(x) == sessions[x].user # None

Registered(k) == creds[k].user # None

\* A challenge of a session and a purpose; expired ones included.
Live(h) == \E x \in UserSession, p \in Purpose : challenges[x][p] = h

\* Ids are uuid4() and challenges random: what was used once is never drawn again.
FreshChallenge(h) ==
    /\ ~Live(h)
    /\ \A x \in UserSession : sessions[x].mfa # h
    /\ \A a \in responses : a.challenge # h

Answer(r) == req' = [req EXCEPT ![r] = Idle]

\* The end of a transaction gives the session row back.
Release(r) == seenBy' = [x \in UserSession |-> IF seenBy[x] = r THEN None ELSE seenBy[x]]

--------------------------------------------------------------------------------
(***************************************************************************)
(* POST /auth/magic-link.  The link is sent before its row is committed;   *)
(* for a user who is not active nothing is created, only the audit entry.  *)
(***************************************************************************)
RequestLink(r, u, t) ==
    /\ req[r].op = "idle"
    /\ u \in active
    /\ ~Issued(t) /\ t \notin emailed
    /\ emailed' = emailed \cup {t}
    /\ req' = [req EXCEPT ![r] = [Idle EXCEPT !.op = "link", !.user = u, !.token = t]]
    /\ UNCHANGED <<active, tokens, sessions, seenBy, challenges, expired, creds, responses,
                   keyRevoked, audit>>

CommitLink(r) ==
    /\ req[r].op = "link"
    /\ tokens' = [tokens EXCEPT ![req[r].token] = [NoToken EXCEPT !.user = req[r].user]]
    /\ Record(Entry("magic_link.request", req[r].user))
    /\ Answer(r)
    /\ UNCHANGED <<active, emailed, sessions, seenBy, challenges, expired, creds, responses,
                   keyRevoked>>

RefuseLink(u) ==
    /\ u \notin active
    /\ Record(Entry("magic_link.request", u))
    /\ UNCHANGED <<active, tokens, emailed, sessions, seenBy, challenges, expired, creds,
                   responses, keyRevoked, req>>

(***************************************************************************)
(* GET /auth/callback.  The row, its expiry and the user are checked on a  *)
(* read; the UPDATE that consumes the link checks the row once more.       *)
(***************************************************************************)
OpenLink(r, t) ==
    /\ req[r].op = "idle"
    /\ t \in emailed /\ Issued(t)
    /\ ~tokens[t].consumed
    /\ t \notin expired
    /\ tokens[t].user \in active
    /\ req' = [req EXCEPT ![r] = [Idle EXCEPT !.op = "callback", !.token = t,
                                              !.user = tokens[t].user]]
    /\ UNCHANGED <<active, tokens, emailed, sessions, seenBy, challenges, expired, creds,
                   responses, keyRevoked, audit>>

\* Mutant: the link is consumed because it was unused when it was read.
ConsumeLinkAsRead(r, x) ==
    /\ req[r].op = "callback"
    /\ ~Opened(x)
    /\ tokens' = [tokens EXCEPT ![req[r].token].consumed = TRUE]
    /\ sessions' = [sessions EXCEPT ![x] = [NoSession EXCEPT !.user = req[r].user]]
    /\ Record([Entry("magic_link.consume", req[r].user) EXCEPT !.session = x,
                                                              !.token = req[r].token])
    /\ Answer(r)
    /\ UNCHANGED <<active, emailed, seenBy, challenges, expired, creds, responses, keyRevoked>>

\* The expiry is compared with the time at which the request began: it cannot fail here.
ConsumeLink(r, x) ==
    /\ req[r].op = "callback"
    /\ ~tokens[req[r].token].consumed
    /\ ~Opened(x)
    /\ tokens' = [tokens EXCEPT ![req[r].token].consumed = TRUE]
    /\ sessions' = [sessions EXCEPT ![x] = [NoSession EXCEPT !.user = req[r].user]]
    /\ Record([Entry("magic_link.consume", req[r].user) EXCEPT !.session = x,
                                                              !.token = req[r].token])
    /\ Answer(r)
    /\ UNCHANGED <<active, emailed, seenBy, challenges, expired, creds, responses, keyRevoked>>

LinkUsed(r) ==
    /\ req[r].op = "callback"
    /\ tokens[req[r].token].consumed
    /\ Answer(r)
    /\ UNCHANGED <<active, tokens, emailed, sessions, seenBy, challenges, expired, creds,
                   responses, keyRevoked, audit>>

--------------------------------------------------------------------------------
(***************************************************************************)
(* get_request_auth, with the gates of the route: WebAuthn is for admins   *)
(* (_require_admin), the key's revocation for admins whose session has the *)
(* second factor (require_role, require_mfa).                              *)
(***************************************************************************)
\* Mutant: the admin role alone opens the gate.
GateWithoutMfa(op, x) == op = "logout" \/ sessions[x].user \in Admin

Gate(op, x) ==
    CASE op = "logout" -> TRUE
      [] op \in {"begin", "finish"} -> sessions[x].user \in Admin
      [] op = "revokeKey" -> sessions[x].user \in Admin /\ sessions[x].mfa # None

ReadSession(r, x, op, p) ==
    /\ req[r].op = "idle"
    /\ Opened(x) /\ ~sessions[x].revoked
    /\ sessions[x].user \in active
    /\ Gate(op, x)
    /\ p = None <=> op \in {"logout", "revokeKey"}
    /\ req' = [req EXCEPT ![r] = [Idle EXCEPT !.op = op, !.stage = "read", !.session = x,
                                              !.user = sessions[x].user, !.purpose = p]]
    /\ UNCHANGED <<active, tokens, emailed, sessions, seenBy, challenges, expired, creds,
                   responses, keyRevoked, audit>>

\* Mutant: last_seen_at is left alone, so nothing serialises the requests of a session.
TouchNothing(r) ==
    /\ req[r].stage = "read"
    /\ req' = [req EXCEPT ![r].stage = "in"]
    /\ UNCHANGED <<active, tokens, emailed, sessions, seenBy, challenges, expired, creds,
                   responses, keyRevoked, audit>>

\* touch_user_session_seen: it waits for the row, and finds it or finds it revoked.
Touch(r) ==
    LET x == req[r].session
    IN  /\ req[r].stage = "read"
        /\ seenBy[x] = None
        /\ seenBy' = IF sessions[x].revoked THEN seenBy ELSE [seenBy EXCEPT ![x] = r]
        /\ req' = [req EXCEPT ![r].stage = "in"]
        /\ UNCHANGED <<active, tokens, emailed, sessions, challenges, expired, creds,
                       responses, keyRevoked, audit>>

In(r, op) == req[r].op = op /\ req[r].stage = "in"

Logout(r) ==
    /\ In(r, "logout")
    /\ sessions' = [sessions EXCEPT ![req[r].session].revoked = TRUE]
    /\ Record([Entry("logout", req[r].user) EXCEPT !.session = req[r].session])
    /\ Release(r)
    /\ Answer(r)
    /\ UNCHANGED <<active, tokens, emailed, challenges, expired, creds, responses, keyRevoked>>

RevokeKey(r) ==
    /\ In(r, "revokeKey")
    /\ keyRevoked' = TRUE
    /\ Record(Entry("data_key.revoke", req[r].user))
    /\ Release(r)
    /\ Answer(r)
    /\ UNCHANGED <<active, tokens, emailed, sessions, challenges, expired, creds, responses>>

--------------------------------------------------------------------------------
(***************************************************************************)
(* .../begin issues a challenge in place of the session's earlier one for  *)
(* the same purpose; .../finish accepts an answer to it and spends it.     *)
(***************************************************************************)
PasskeysOf(u) == {k \in Credential : creds[k].user = u}

Asked(r) == challenges[req[r].session][req[r].purpose]

\* Mutant: the challenge is kept for the session, whatever its purpose.
BeginForAnything(r, h) ==
    /\ In(r, "begin")
    /\ FreshChallenge(h)
    /\ challenges' = [challenges EXCEPT ![req[r].session] = h]
    /\ Release(r)
    /\ Answer(r)
    /\ UNCHANGED <<active, tokens, emailed, sessions, expired, creds, responses, keyRevoked,
                   audit>>

Begin(r, h) ==
    /\ In(r, "begin")
    /\ req[r].purpose = "authentication" => PasskeysOf(req[r].user) # {}
    /\ FreshChallenge(h)
    /\ challenges' = [challenges EXCEPT ![req[r].session][req[r].purpose] = h]
    /\ expired' = expired \ {Asked(r)}
    /\ Release(r)
    /\ Answer(r)
    /\ UNCHANGED <<active, tokens, emailed, sessions, creds, responses, keyRevoked, audit>>

\* An expired challenge is deleted, and the request refused.
DropExpired(r) ==
    /\ In(r, "finish")
    /\ Asked(r) \in expired
    /\ challenges' = [challenges EXCEPT ![req[r].session][req[r].purpose] = None]
    /\ expired' = expired \ {Asked(r)}
    /\ Release(r)
    /\ Answer(r)
    /\ UNCHANGED <<active, tokens, emailed, sessions, creds, responses, keyRevoked, audit>>

\* verify_authentication_response: the counter must grow, unless the passkey has none.
Counts(a) == \/ a.count > creds[a.credential].signCount
             \/ a.count = 0 /\ creds[a.credential].signCount = 0

\* Mutant: the passkey is looked up by its id alone.
VerifyAnyPasskey(r, a) ==
    /\ In(r, "finish")
    /\ Asked(r) # None /\ Asked(r) \notin expired
    /\ a.challenge = Asked(r)
    /\ req[r].purpose = "authentication" => Registered(a.credential) /\ Counts(a)
    /\ req' = [req EXCEPT ![r].stage = "verified", ![r].response = a]
    /\ UNCHANGED <<active, tokens, emailed, sessions, seenBy, challenges, expired, creds,
                   responses, keyRevoked, audit>>

\* The challenge is read and the answer checked against it, for a new passkey or for one
\* of the user's own.
Verify(r, a) ==
    /\ In(r, "finish")
    /\ Asked(r) # None /\ Asked(r) \notin expired
    /\ a.challenge = Asked(r)
    /\ req[r].purpose = "authentication" => creds[a.credential].user = req[r].user /\ Counts(a)
    /\ req' = [req EXCEPT ![r].stage = "verified", ![r].response = a]
    /\ UNCHANGED <<active, tokens, emailed, sessions, seenBy, challenges, expired, creds,
                   responses, keyRevoked, audit>>

\* Mutant: the session is marked whether or not it is revoked.
ElevateAnyway(r) == [sessions EXCEPT ![req[r].session].mfa = req[r].response.challenge]

\* set_session_mfa_verified_at, on a session that is not revoked.
Elevate(r) ==
    IF sessions[req[r].session].revoked
    THEN sessions
    ELSE [sessions EXCEPT ![req[r].session].mfa = req[r].response.challenge]

\* Mutant: the challenge is left to expire.
SpendNothing(r) == challenges

\* delete_webauthn_challenge, by the row that was read: a later one stays.
SpendChallenge(r) ==
    IF Asked(r) = req[r].response.challenge
    THEN [challenges EXCEPT ![req[r].session][req[r].purpose] = None]
    ELSE challenges

FinishRegistration(r) ==
    LET k == req[r].response.credential
    IN  /\ req[r].stage = "verified" /\ req[r].purpose = "registration"
        /\ ~Registered(k)
        /\ creds' = [creds EXCEPT ![k] = [user |-> req[r].user,
                                          signCount |-> req[r].response.count]]
        /\ challenges' = SpendChallenge(r)
        /\ sessions' = Elevate(r)
        /\ Record([Entry("register_finish", req[r].user) EXCEPT !.credential = k])
        /\ Release(r)
        /\ Answer(r)
        /\ UNCHANGED <<active, tokens, emailed, expired, responses, keyRevoked>>

\* The counter is overwritten, whatever it is by now.
FinishAuthentication(r) ==
    LET k == req[r].response.credential
    IN  /\ req[r].stage = "verified" /\ req[r].purpose = "authentication"
        /\ creds' = [creds EXCEPT ![k].signCount = req[r].response.count]
        /\ challenges' = SpendChallenge(r)
        /\ sessions' = Elevate(r)
        /\ Record([Entry("authenticate_finish", req[r].user) EXCEPT !.credential = k])
        /\ Release(r)
        /\ Answer(r)
        /\ UNCHANGED <<active, tokens, emailed, expired, responses, keyRevoked>>

\* A refusal, a passkey that is already registered, an error or a lost connection.
Abort(r) ==
    /\ req[r].op # "idle"
    /\ Release(r)
    /\ Answer(r)
    /\ UNCHANGED <<active, tokens, emailed, sessions, challenges, expired, creds, responses,
                   keyRevoked, audit>>

--------------------------------------------------------------------------------
(***************************************************************************)
(* The world around the API.                                               *)
(***************************************************************************)

\* A browser's authenticator makes a new passkey for a registration challenge, ...
CreatePasskey(k, h) ==
    /\ ~Registered(k)
    /\ \E x \in UserSession : challenges[x]["registration"] = h
    /\ \A a \in responses : a.credential # k
    /\ responses' = responses \cup {[credential |-> k, challenge |-> h, count |-> 0]}
    /\ UNCHANGED <<active, tokens, emailed, sessions, seenBy, challenges, expired, creds,
                   keyRevoked, req, audit>>

\* ... or signs an authentication challenge, with the next count if it counts at all.
Sign(k, h, n) ==
    /\ \E x \in UserSession : challenges[x]["authentication"] = h
    /\ Registered(k)
    /\ IF k \in Counterless
       THEN n = 0
       ELSE n > 0 /\ \A a \in responses : a.credential = k => a.count < n
    /\ responses' = responses \cup {[credential |-> k, challenge |-> h, count |-> n]}
    /\ UNCHANGED <<active, tokens, emailed, sessions, seenBy, challenges, expired, creds,
                   keyRevoked, req, audit>>

\* An unused link or a pending challenge becomes too old.
Expire(i) ==
    /\ i \notin expired
    /\ IF i \in Token THEN Issued(i) /\ ~tokens[i].consumed ELSE Live(i)
    /\ expired' = expired \cup {i}
    /\ UNCHANGED <<active, tokens, emailed, sessions, seenBy, challenges, creds, responses,
                   keyRevoked, req, audit>>

\* soft_delete_user, which no endpoint calls: the user is found no more.
Suspend(u) ==
    /\ u \in active
    /\ active' = active \ {u}
    /\ UNCHANGED <<tokens, emailed, sessions, seenBy, challenges, expired, creds, responses,
                   keyRevoked, req, audit>>

\* Passkeys may be left from earlier sessions, not used since they were registered.
Init == /\ active = User
        /\ tokens = [t \in Token |-> NoToken]
        /\ emailed = {}
        /\ sessions = [x \in UserSession |-> NoSession]
        /\ seenBy = [x \in UserSession |-> None]
        /\ challenges = [x \in UserSession |-> [p \in Purpose |-> None]]
        /\ expired = {}
        /\ \E owner \in [Credential -> Admin \cup {None}] :
              creds = [k \in Credential |-> [user |-> owner[k], signCount |-> 0]]
        /\ responses = {}
        /\ keyRevoked = FALSE
        /\ req = [r \in Request |-> Idle]
        /\ audit = {}

LinkStep(r) ==
    \/ \E u \in User, t \in Token : RequestLink(r, u, t)
    \/ CommitLink(r)
    \/ \E t \in Token : OpenLink(r, t)
    \/ \E x \in UserSession : ConsumeLink(r, x)
    \/ LinkUsed(r)

SessionStep(r) ==
    \/ \E x \in UserSession, op \in Operation \ {"link", "callback"}, p \in Purpose \cup {None} :
          ReadSession(r, x, op, p)
    \/ Touch(r)
    \/ Logout(r)
    \/ RevokeKey(r)
    \/ \E h \in Challenge : Begin(r, h)
    \/ DropExpired(r)
    \/ \E a \in responses : Verify(r, a)
    \/ FinishRegistration(r)
    \/ FinishAuthentication(r)

World == \/ \E k \in Credential, h \in Challenge : CreatePasskey(k, h)
         \/ \E k \in Credential, h \in Challenge, n \in 0 .. MaxSignCount : Sign(k, h, n)
         \/ \E i \in Token \cup Challenge : Expire(i)
         \/ \E u \in User : Suspend(u) \/ RefuseLink(u)

Next == \/ \E r \in Request : LinkStep(r) \/ SessionStep(r) \/ Abort(r)
        \/ World

Spec == Init /\ [][Next]_vars

--------------------------------------------------------------------------------
(***************************************************************************)
(* Properties                                                              *)
(***************************************************************************)

\* Every variable has its type.
TypeOK == /\ active \subseteq User
          /\ tokens \in [Token -> TokenRow]
          /\ emailed \subseteq Token
          /\ sessions \in [UserSession -> SessionRow]
          /\ seenBy \in [UserSession -> Request \cup {None}]
          /\ challenges \in [UserSession -> [Purpose -> Challenge \cup {None}]]
          /\ expired \subseteq Token \cup Challenge
          /\ creds \in [Credential -> CredentialRow]
          /\ responses \subseteq Response
          /\ keyRevoked \in BOOLEAN
          /\ req \in [Request -> HttpRequest]
          /\ audit \subseteq AuditEntry

Consumed == {e \in audit : e.action = "magic_link.consume"}

\* A link opens at most one session, however many callbacks race for it, and every session
\* was opened by a link of its own user, with its audit entry (consume_magic_link_if_valid).
OneSessionPerLink ==
    /\ \A e, f \in Consumed : e.token = f.token <=> e.session = f.session
    /\ \A x \in UserSession : Opened(x) <=> \E e \in Consumed : e.session = x
    /\ \A t \in Token : tokens[t].consumed <=> \E e \in Consumed : e.token = t
    /\ \A e \in Consumed : sessions[e.session].user = tokens[e.token].user

\* Two requests never work on the answer to one challenge at the same time, unless their
\* session was revoked under them (the update of last_seen_at serialises the others).
ChallengeExclusive ==
    \A r, s \in Request :
        /\ r # s
        /\ req[r].stage = "verified" /\ req[s].stage = "verified"
        /\ req[r].response.challenge = req[s].response.challenge
        => sessions[req[r].session].revoked

\* A challenge that gave a session its second factor is gone for good: no later answer to
\* it can do so again (delete_webauthn_challenge at the end of finish).
ChallengeSpent ==
    \A x \in UserSession : sessions[x].mfa # None => ~Live(sessions[x].mfa)

\* A session has the second factor only by an answer to a challenge, made with a passkey
\* that is registered for the session's own user.
SecondFactorEarned ==
    \A x \in UserSession : sessions[x].mfa # None =>
        \E a \in responses : /\ a.challenge = sessions[x].mfa
                             /\ creds[a.credential].user = sessions[x].user

\* A revoked session stays revoked and gains no second factor, whatever its requests that
\* were under way still commit (the revoked_at conditions of auth/repository.py).
RevokedStaysPowerless ==
    [][\A x \in UserSession : sessions[x].revoked =>
           sessions'[x].revoked /\ sessions'[x].mfa = sessions[x].mfa]_vars

\* The data key is revoked only by an admin who has used a passkey before (require_mfa).
KeyRevokedWithSecondFactor ==
    \A e \in audit : e.action = "data_key.revoke" =>
        /\ e.user \in Admin
        /\ \E f \in audit : /\ f.action \in {"register_finish", "authenticate_finish"}
                            /\ f.user = e.user

================================================================================
