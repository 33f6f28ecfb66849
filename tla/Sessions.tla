------------------------------ MODULE Sessions ------------------------------
(***************************************************************************)
(* The sessions of one account: refresh tokens and their rotation, logout, *)
(* the admin's forced logout, and password reset links.                    *)
(*                                                                         *)
(* Tokens and links expire; one that is refused changes nothing, so that   *)
(* expiry is left out and refusals are not steps.  Access tokens are       *)
(* signed and stored nowhere.                                              *)
(***************************************************************************)
EXTENDS Naturals, FiniteSets

CONSTANTS
  Tokens,        \* refresh tokens the account may be given
  NoToken,
  Links,         \* password reset links it may ask for
  NoLink,
  Handlers,      \* requests in flight together
  MaxDeaths      \* bound: requests that die between two of their steps

ASSUME SessionsAssumption ==
  /\ NoToken \notin Tokens
  /\ NoLink \notin Links
  /\ IsFiniteSet(Handlers)
  /\ MaxDeaths \in Nat

VARIABLES
  active,    \* whether the User row is verified and ACTIVE
  token,     \* the RefreshToken rows; parent is the token rotated away
  reset,     \* the PasswordResetToken rows; uses counts the passwords set
  handler,   \* the step each request has still to do
  deaths     \* requests that died so far

sessionVars == <<active, token, reset, handler, deaths>>
-----------------------------------------------------------------------------
Token == [status : {"NONE", "LIVE", "REVOKED"}, parent : Tokens \union {NoToken}]

ResetLink == [status : {"NONE", "ISSUED", "USED"}, uses : Nat]

\* Each op but "idle" names the write still to do, with the token or link
\* that was read.
Handler == [op   : {"idle", "revoke", "issue", "logoutAll", "setPassword",
                    "useLink"},
            tok  : Tokens \union {NoToken},
            link : Links \union {NoLink}]

AtRest == [op |-> "idle", tok |-> NoToken, link |-> NoLink]

SessionTypeOK ==
  /\ active \in BOOLEAN
  /\ token \in [Tokens -> Token]
  /\ reset \in [Links -> ResetLink]
  /\ handler \in [Handlers -> Handler]
  /\ deaths \in 0 .. MaxDeaths

SessionInit ==
  /\ active = TRUE
  /\ token = [t \in Tokens |-> [status |-> "NONE", parent |-> NoToken]]
  /\ reset = [l \in Links |-> [status |-> "NONE", uses |-> 0]]
  /\ handler = [h \in Handlers |-> AtRest]
  /\ deaths = 0

Begins(h, job) ==
  /\ handler[h].op = "idle"
  /\ handler' = [handler EXCEPT ![h] = job]
  /\ UNCHANGED deaths

\* Request h does the write op and goes on to next, or is over.
Continues(h, op, next) ==
  /\ handler[h].op = op
  /\ handler' = [handler EXCEPT ![h] =
                  IF next = "idle" THEN AtRest ELSE [@ EXCEPT !.op = next]]
  /\ UNCHANGED deaths

WithStatus(t, status) == [token EXCEPT ![t].status = status]
-----------------------------------------------------------------------------
(* Refresh tokens. *)

\* login, or the click on a verification link.
Login(h) ==
  /\ active
  /\ Begins(h, [AtRest EXCEPT !.op = "issue"])
  /\ UNCHANGED <<active, token, reset>>

\* Mutant of Refresh: the token may have been revoked.
RefreshRevoked(h, t) ==
  /\ token[t].status # "NONE"
  /\ Begins(h, [AtRest EXCEPT !.op = "revoke", !.tok = t])
  /\ UNCHANGED <<active, token, reset>>

\* verifyRefreshToken.  The account is found, its status not looked at.
Refresh(h, t) ==
  /\ token[t].status = "LIVE"
  /\ Begins(h, [AtRest EXCEPT !.op = "revoke", !.tok = t])
  /\ UNCHANGED <<active, token, reset>>

\* A token that was revoked in the meantime is left as it is, and the
\* rotation goes on.
RevokeRefreshToken(h) ==
  /\ Continues(h, "revoke", "issue")
  /\ token' = WithStatus(handler[h].tok, "REVOKED")
  /\ UNCHANGED <<active, reset>>

CreateRefreshToken(h, t) ==
  /\ token[t].status = "NONE"
  /\ Continues(h, "issue", "idle")
  /\ token' = [token EXCEPT ![t] = [status |-> "LIVE", parent |-> handler[h].tok]]
  /\ UNCHANGED <<active, reset>>

Logout(t) ==
  /\ token[t].status = "LIVE"
  /\ token' = WithStatus(t, "REVOKED")
  /\ UNCHANGED <<active, reset, handler, deaths>>
-----------------------------------------------------------------------------
(* Passwords. *)

ForgotPassword(l) ==
  /\ reset[l].status = "NONE"
  /\ reset' = [reset EXCEPT ![l].status = "ISSUED"]
  /\ UNCHANGED <<active, token, handler, deaths>>

ValidateResetToken(h, l) ==
  /\ reset[l].status = "ISSUED"
  /\ Begins(h, [AtRest EXCEPT !.op = "setPassword", !.link = l])
  /\ UNCHANGED <<active, token, reset>>

SetPassword(h) ==
  /\ Continues(h, "setPassword", "useLink")
  /\ reset' = [reset EXCEPT ![handler[h].link].uses = @ + 1]
  /\ UNCHANGED <<active, token>>

UseLink(h) ==
  /\ Continues(h, "useLink", "idle")
  /\ reset' = [reset EXCEPT ![handler[h].link].status = "USED"]
  /\ UNCHANGED <<active, token>>
-----------------------------------------------------------------------------
(* The account's other owners, and failures. *)

\* The admin deletes the user, or sets another password.
DeleteAndLogout(h) ==
  /\ Begins(h, [AtRest EXCEPT !.op = "logoutAll"])
  /\ active' = FALSE
  /\ UNCHANGED <<token, reset>>

ResetAndLogout(h) ==
  /\ Begins(h, [AtRest EXCEPT !.op = "logoutAll"])
  /\ UNCHANGED <<active, token, reset>>

ForceLogout(h) ==
  /\ Continues(h, "logoutAll", "idle")
  /\ token' = [t \in Tokens |->
                 IF token[t].status = "LIVE"
                 THEN [token[t] EXCEPT !.status = "REVOKED"] ELSE token[t]]
  /\ UNCHANGED <<active, reset>>

\* Suspension, reactivation: see Accounts.
SetActive ==
  /\ active' = ~active
  /\ UNCHANGED <<token, reset, handler, deaths>>

Die(h) ==
  /\ handler[h].op # "idle"
  /\ deaths < MaxDeaths
  /\ deaths' = deaths + 1
  /\ handler' = [handler EXCEPT ![h] = AtRest]
  /\ UNCHANGED <<active, token, reset>>
-----------------------------------------------------------------------------
SessionStep(h) ==
  \/ Login(h) \/ RevokeRefreshToken(h) \/ SetPassword(h) \/ UseLink(h)
  \/ DeleteAndLogout(h) \/ ResetAndLogout(h) \/ ForceLogout(h) \/ Die(h)

SessionNext ==
  \/ \E h \in Handlers :
       \/ SessionStep(h)
       \/ \E t \in Tokens : Refresh(h, t) \/ CreateRefreshToken(h, t)
       \/ \E l \in Links : ValidateResetToken(h, l)
  \/ \E t \in Tokens : Logout(t)
  \/ \E l \in Links : ForgotPassword(l)
  \/ SetActive

SessionSpec == SessionInit /\ [][SessionNext]_sessionVars
-----------------------------------------------------------------------------
(* Properties. *)

\* A rotated token is dead before its successor lives, whatever revokes or
\* rotates it at the same time: one login is one session at a time.
RotatedIsRevoked ==
  \A t \in Tokens : token[t].parent # NoToken
                      => token[token[t].parent].status = "REVOKED"

Successors(p) == {t \in Tokens : token[t].parent = p}

\* Only requests that overlap can rotate the same token again: it has at most
\* as many successors as requests can be in flight.
SuccessorsBounded ==
  \A p \in Tokens : Cardinality(Successors(p)) <= Cardinality(Handlers)

\* A reset link sets a password once, unless requests overlap or die before
\* they note its use; and a link noted as used did set one.
LinkSetsOnce ==
  \A l \in Links :
    /\ reset[l].uses <= Cardinality(Handlers) + deaths
    /\ reset[l].status = "USED" => reset[l].uses > 0

\* A token is spent when it is used, and it is used again only by requests
\* that overlap or died: refresh tokens by their rotation, reset links by the
\* passwords they set (refresh, rotateRefreshToken, resetPassword).
TokensAreSpent == RotatedIsRevoked /\ SuccessorsBounded /\ LinkSetsOnce
=============================================================================
