-------------------------------- MODULE MCSignIn --------------------------------
(***************************************************************************)
(* A small instance of SignIn for TLC.  Two admins, two sessions, two      *)
(* passkeys and two requests at once are more than TLC can go through, so  *)
(* Scope keeps the states of either instance: one admin with two sessions  *)
(* and two requests, or two admins with one session and one request.       *)
(***************************************************************************)
EXTENDS SignIn, TLC

CONSTANTS a1, a2, t1, t2, x1, x2, h1, h2, h3, k1, k2, r1, r2

Symmetry == Permutations(Token) \cup Permutations(UserSession)
                \cup Permutations(Challenge) \cup Permutations(Request)

\* Everything belongs to a1, whose only passkey is k2, which does not count; nobody is
\* suspended.
OneAdmin == /\ active = User
            /\ creds[k1].user = None
            /\ \A t \in Token : tokens[t].user # a2
            /\ \A x \in UserSession : sessions[x].user # a2
            /\ \A k \in Credential : creds[k].user # a2
            /\ \A r \in Request : req[r].user # a2
            /\ \A a \in responses : a.credential = k2 /\ a.count = 0

\* One link, one session and one request are enough for who may use which passkey.
OneRequest == /\ Cardinality({r \in Request : req[r].op # "idle"}) <= 1
              /\ Cardinality(emailed \cup {t \in Token : tokens[t].user # None}) <= 1
              /\ Cardinality({x \in UserSession : sessions[x].user # None}) <= 1

Scope == OneAdmin \/ OneRequest

================================================================================
