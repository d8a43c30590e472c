------------------------------- MODULE Sessions -------------------------------
(***************************************************************************)
(* Signing in, staying signed in and being signed out: the refresh tokens  *)
(* of app/services/auth_service.py, the endpoints of app/api/v1/auth.py    *)
(* that use them, and the disabling of accounts in role_service.py.        *)
(*                                                                         *)
(* As in Tickets, a request is a slot that reads, then writes at its       *)
(* commit, with anything committing in between:                            *)
(*                                                                         *)
(*    login, refresh    Read --> Issue (clock) --> IssueCommit             *)
(*    change, reset     Read --> PasswordCommit --> sign-out               *)
(*    a sign-out        RevokeStatement (clock, snapshot) --> RevokeCommit *)
(*                                                                         *)
(* A sign-out is what logout, a password change, a disabled account and a  *)
(* reused token share: one UPDATE of the refresh tokens that its statement *)
(* sees unrevoked.  A pair of tokens is one element of Token: its refresh  *)
(* token has a row, its access token is only the moment iat in a           *)
(* signature.  Every reading of the clock gives a new moment.              *)
(***************************************************************************)
EXTENDS Naturals

CONSTANTS
    User,       \* the (verified) accounts
    Token,      \* the token pairs that can be issued
    Request,    \* the requests the server can be handling at a time
    Calls,      \* the endpoints that the clients of this instance call
    MaxTime,    \* bound on the readings of the clock
    MaxHash     \* bound on the passwords an account gets

ASSUME UserAssumption  == User # {}
ASSUME BoundAssumption == MaxTime \in Nat /\ MaxHash \in Nat

VARIABLES
    accounts,   \* the users table: active, sessions_valid_from, and which of
                \* its passwords (each has its own hash) an account has now
    refresh,    \* the refresh_tokens table, with iat of the pair's access token
    links,      \* links[u]: the fingerprints in the reset links mailed to u
    now,        \* the clock
    txn,        \* txn[r]: what request r has read and is about to write
    effects,    \* what the last step committed: an observer's variable
    history     \* families that were ended by a reuse, and accounts of which a
                \* password change died half-way: an observer's variable

vars == <<accounts, refresh, links, now, txn, effects, history>>

NoToken == "no token"

ASSUME NoTokenAssumption == NoToken \notin Token

Account == [active: BOOLEAN, valid_from: Nat, hash: Nat]

\* `born' (the commit) and `under' (the password it was signed in with) are
\* not columns: the properties read them.
RefreshToken == [state: {"none", "live", "revoked"}, user: User,
                 family: Token \cup {NoToken}, iat: Nat, born: Nat, under: Nat]

Idle == [pc |-> "idle"]

Txn == [pc: {"issue", "insert", "password", "enable", "revoke", "end"},
        call: {"login", "refresh", "reuse", "refuse", "logout", "change",
               "reset", "disable", "enable"},
        user: User, token: Token \cup {NoToken}, hash: Nat, stamp: Nat,
        caught: SUBSET Token]

Issued(k) == refresh[k].state # "none"
Live(k)   == refresh[k].state = "live"

\* The tokens that a request in flight knows of.
Names(x) == ({x.token} \cup x.caught) \ {NoToken}

TypeOK ==
    /\ accounts \in [User -> Account]
    /\ refresh \in [Token -> RefreshToken]
    /\ links \in [User -> SUBSET Nat]
    /\ now \in Nat
    /\ txn \in [Request -> Txn \cup {Idle}]
    /\ \A k \in Token : Issued(k) => refresh[k].family \in Token
    /\ \A r \in Request : txn[r] # Idle => \A k \in Names(txn[r]) : Issued(k)

Init ==
    /\ accounts = [u \in User |-> [active |-> TRUE, valid_from |-> 0, hash |-> 1]]
    /\ refresh = [k \in Token |->
            [state |-> "none", user |-> CHOOSE u \in User : TRUE, family |-> NoToken,
             iat |-> 0, born |-> 0, under |-> 0]]
    /\ links = [u \in User |-> {}]
    /\ now = 1
    /\ txn = [r \in Request |-> Idle]
    /\ effects = [action |-> "none"]
    /\ history = [ended |-> {}, torn |-> {}]

\* get_current_user lets the access token of pair k through.
Accepted(k) ==
    LET account == accounts[refresh[k].user] IN
    /\ Issued(k)
    /\ account.active
    /\ refresh[k].iat >= account.valid_from

Quiet == effects' = [action |-> "none"]

Begin(r, pc, call, u, k, hash) ==
    /\ txn[r] = Idle
    /\ txn' = [txn EXCEPT ![r] = [pc |-> pc, call |-> call, user |-> u, token |-> k,
                                  hash |-> hash, stamp |-> 0, caught |-> {}]]
    /\ Quiet
    /\ UNCHANGED <<accounts, refresh, links, now, history>>

End(r) == txn' = [txn EXCEPT ![r] = Idle]

At(r, pc) == txn[r].pc = pc

ReadClock == now < MaxTime /\ now' = now + 1

-----------------------------------------------------------------------------
(* POST /auth/login and /auth/refresh.                                     *)

Login(r, u) ==
    /\ "login" \in Calls
    /\ accounts[u].active
    /\ Begin(r, "issue", "login", u, NoToken, accounts[u].hash)

\* What rotate_refresh_token finds of the token it is given.
Refresh(r, k) ==
    /\ "refresh" \in Calls
    /\ Issued(k)
    /\ LET u == refresh[k].user IN
       IF Live(k) THEN Begin(r, "issue", "refresh", u, k, refresh[k].under)
                  ELSE Begin(r, "revoke", "reuse", u, k, 0)

\* A refresh reads the account only now.  Then both tokens of a pair are made.
Issue(r) ==
    /\ At(r, "issue")
    /\ LET x == txn[r] IN
       IF x.call = "refresh" /\ ~accounts[x.user].active
       THEN /\ txn' = [txn EXCEPT ![r].pc = "revoke", ![r].call = "refuse"]
            /\ UNCHANGED now
       ELSE /\ txn' = [txn EXCEPT ![r].pc = "insert", ![r].stamp = now]
            /\ ReadClock
    /\ Quiet
    /\ UNCHANGED <<accounts, refresh, links, history>>

\* A login starts a family, named here by its first token.
FamilyOf(x, new) == IF x.token = NoToken THEN new ELSE refresh[x.token].family

\* The token that a refresh was given is spent.
Spent_None(x) == {}                 \* slip: rotated without revoking

Spent(x) == {x.token}

IssueCommit(r, new) ==
    /\ At(r, "insert")
    /\ ~Issued(new)
    /\ LET x == txn[r] IN
       /\ refresh' = [k \in Token |->
            IF k = new
            THEN [state |-> "live", user |-> x.user, family |-> FamilyOf(x, new),
                  iat |-> x.stamp, born |-> now, under |-> x.hash]
            ELSE IF k \in Spent(x) THEN [refresh[k] EXCEPT !.state = "revoked"]
            ELSE refresh[k]]
       /\ effects' = [action |-> x.call, user |-> x.user]
    /\ End(r)
    /\ UNCHANGED <<accounts, links, now, history>>

-----------------------------------------------------------------------------
(* Sign-outs. *)

\* Any refresh token with a valid signature will do, a revoked one too.
Logout(r, k) ==
    /\ "logout" \in Calls
    /\ Issued(k)
    /\ Begin(r, "revoke", "logout", refresh[k].user, k, 0)

Disable(r, u) ==
    /\ "active" \in Calls
    /\ accounts[u].active
    /\ Begin(r, "revoke", "disable", u, NoToken, 0)

Enable(r, u) ==
    /\ "active" \in Calls
    /\ ~accounts[u].active
    /\ Begin(r, "enable", "enable", u, NoToken, 0)

EnableCommit_Fresh(r) ==     \* slip: a new start, sessions_valid_from emptied too
    /\ At(r, "enable")
    /\ accounts' = [accounts EXCEPT ![txn[r].user].active = TRUE,
                                   ![txn[r].user].valid_from = 0]
    /\ effects' = [action |-> "enable", user |-> txn[r].user]
    /\ End(r)
    /\ UNCHANGED <<refresh, links, now, history>>

EnableCommit(r) ==
    /\ At(r, "enable")
    /\ accounts' = [accounts EXCEPT ![txn[r].user].active = TRUE]
    /\ effects' = [action |-> "enable", user |-> txn[r].user]
    /\ End(r)
    /\ UNCHANGED <<refresh, links, now, history>>

\* A reused token, or one of a disabled account, ends its family; every other
\* sign-out ends all sessions of the account.
EndsFamily(x) == x.call \in {"reuse", "refuse"}

Scope_UsedFamily(x) ==      \* slip: a logout ends the family of its token only
    {k \in Token : refresh[k].user = x.user
        /\ x.token # NoToken => refresh[k].family = refresh[x.token].family}

Scope_UsedToken(x) ==       \* slip: a reuse revokes the one token again
    IF EndsFamily(x) THEN {x.token} ELSE {k \in Token : refresh[k].user = x.user}

Scope(x) ==
    IF EndsFamily(x) THEN {k \in Token : refresh[k].family = refresh[x.token].family}
                     ELSE {k \in Token : refresh[k].user = x.user}

\* UPDATE refresh_tokens SET revoked_at = now WHERE ... AND revoked_at IS NULL:
\* it finds the rows that are committed when it starts.  Of two that find the
\* same row either may lock it first; the other waits, and passes over the row
\* if it was revoked meanwhile.
RevokeStatement(r) ==
    /\ At(r, "revoke")
    /\ txn' = [txn EXCEPT ![r].pc = "end", ![r].stamp = now,
                          ![r].caught = {k \in Scope(txn[r]) : Live(k)}]
    /\ ReadClock
    /\ Quiet
    /\ UNCHANGED <<accounts, refresh, links, history>>

\* What a sign-out makes of the users row.
ValidFrom(x) == x.stamp

RevokeCommit(r) ==
    /\ At(r, "end")
    /\ LET x == txn[r] IN
       /\ refresh' = [k \in Token |->
            IF k \in x.caught THEN [refresh[k] EXCEPT !.state = "revoked"]
                              ELSE refresh[k]]
       /\ accounts' = IF EndsFamily(x) THEN accounts
                      ELSE [accounts EXCEPT
                            ![x.user].valid_from = ValidFrom(x),
                            ![x.user].active = IF x.call = "disable" THEN FALSE ELSE @]
       /\ effects' = [action |-> x.call, user |-> x.user, stamp |-> x.stamp]
       /\ history' = IF x.call = "reuse"
                     THEN [history EXCEPT !.ended = @ \cup {refresh[x.token].family}]
                     ELSE history
    /\ End(r)
    /\ UNCHANGED <<links, now>>

-----------------------------------------------------------------------------
(* Passwords. *)

RequestReset(u) ==
    /\ "reset" \in Calls
    /\ accounts[u].active
    /\ links' = [links EXCEPT ![u] = @ \cup {accounts[u].hash}]
    /\ Quiet
    /\ UNCHANGED <<accounts, refresh, now, txn, history>>

\* The link matches the hash that the account has when it is loaded.
LinkMatches_Any(u, link) == TRUE    \* slip: the fingerprint not compared

LinkMatches(u, link) == link = accounts[u].hash

ConfirmReset(r, u, link) ==
    /\ "reset" \in Calls
    /\ link \in links[u]
    /\ LinkMatches(u, link)
    /\ Begin(r, "password", "reset", u, NoToken, link)

ChangePassword(r, k) ==
    /\ "change" \in Calls
    /\ Accepted(k)
    /\ Begin(r, "password", "change", refresh[k].user, NoToken,
             accounts[refresh[k].user].hash)

\* set_password commits by itself; revoke_all_for_user comes after it.
AfterPassword_Done(x) == Idle       \* slip: the sessions forgotten

AfterPassword(x) == [x EXCEPT !.pc = "revoke"]

PasswordCommit(r) ==
    /\ At(r, "password")
    /\ LET x == txn[r] IN
       /\ accounts[x.user].hash < MaxHash
       /\ accounts' = [accounts EXCEPT ![x.user].hash = @ + 1]
       /\ effects' = [action |-> "password", user |-> x.user, call |-> x.call,
                      link |-> x.hash]
       /\ txn' = [txn EXCEPT ![r] = AfterPassword(x)]
    /\ UNCHANGED <<refresh, links, now, history>>

\* The session of a request rolls back: an error or a crash of the server.
\* What it has committed stays: of a password change, the new password.
Abort(r) ==
    /\ txn[r] # Idle
    /\ LET x == txn[r] IN
       history' = IF x.pc \in {"revoke", "end"} /\ x.call \in {"change", "reset"}
                  THEN [history EXCEPT !.torn = @ \cup {x.user}]
                  ELSE history
    /\ End(r)
    /\ Quiet
    /\ UNCHANGED <<accounts, refresh, links, now>>

-----------------------------------------------------------------------------
Read(r) ==
    \/ \E u \in User : \/ Login(r, u)
                       \/ Disable(r, u)
                       \/ Enable(r, u)
                       \/ \E link \in links[u] : ConfirmReset(r, u, link)
    \/ \E k \in Token : Refresh(r, k) \/ Logout(r, k) \/ ChangePassword(r, k)

Write(r) ==
    \/ Issue(r)
    \/ \E new \in Token : IssueCommit(r, new)
    \/ EnableCommit(r)
    \/ PasswordCommit(r)
    \/ RevokeStatement(r)
    \/ RevokeCommit(r)

Next ==
    \/ \E r \in Request : Read(r) \/ Write(r) \/ Abort(r)
    \/ \E u \in User : RequestReset(u)

Spec == Init /\ [][Next]_vars

-----------------------------------------------------------------------------
(* What holds however requests overlap.                                    *)

\* What a sign-out saw stays signed out: a refresh token that still works was
\* committed after the statement of the sign-out that sessions_valid_from
\* records, so none that existed then survives, whatever was in flight.
LiveIsNewer ==
    \A k \in Token : Live(k) => refresh[k].born >= accounts[refresh[k].user].valid_from

\* Why LiveIsNewer survives every step: a sign-out in flight has caught every
\* token that was live at its statement, and the clock has passed that moment.
SignOutInv ==
    /\ LiveIsNewer
    /\ \A u \in User : accounts[u].valid_from <= now
    /\ \A r \in Request : At(r, "end") =>
        /\ txn[r].stamp < now
        /\ ~EndsFamily(txn[r]) => \A k \in Token :
              Live(k) /\ refresh[k].user = txn[r].user
                => k \in txn[r].caught \/ refresh[k].born > txn[r].stamp

-----------------------------------------------------------------------------
(* What the service promises when requests do not overlap.                 *)

\* A family never has two refresh tokens that work.
OneLivePerFamily ==
    \A k, j \in Token : Live(k) /\ Live(j) /\ refresh[k].family = refresh[j].family
        => k = j

\* A token that is used twice ends its whole family, for good.
ReuseEndsFamily == \A k \in Token : Live(k) => refresh[k].family \notin history.ended

\* The sessions of u that had begun by a given moment, and still work.
Begun(u, moment) == {k \in Token : /\ Issued(k)
                                   /\ refresh[k].user = u
                                   /\ refresh[refresh[k].family].born <= moment
                                   /\ Live(k) \/ Accepted(k)}

\* When a user is signed out, by a logout or a new password, no session that
\* had begun is left on any device; and an account that is enabled again starts
\* without the sessions that had begun when it was disabled.
SignedOutIsOut ==
    /\ effects.action \in {"logout", "change", "reset"} =>
          Begun(effects.user, effects.stamp) = {}
    /\ effects.action = "enable" =>
          Begun(effects.user, accounts[effects.user].valid_from) = {}

\* A reset link sets a password once: the account still has the password that
\* the link was made to replace.
LinkWorksOnce ==
    [][effects'.action = "password" /\ effects'.call = "reset" =>
        accounts[effects'.user].hash = effects'.link]_vars

\* Nobody stays signed in under a password that was replaced, but between the
\* two commits of the change, and for good if the server dies there.
OldPasswordIsOut ==
    \A k \in Token :
        LET u == refresh[k].user IN
        \/ ~Live(k)
        \/ refresh[k].under = accounts[u].hash
        \/ u \in history.torn
        \/ \E r \in Request : /\ txn[r] # Idle
                              /\ txn[r].user = u
                              /\ txn[r].call \in {"change", "reset"}

\* A session that was ended stays ended, whatever becomes of the account: an
\* access token that sessions_valid_from refuses is never let through again.
EndedStaysEnded ==
    [][\A k \in Token : Issued(k) /\ refresh[k].iat < accounts[refresh[k].user].valid_from
        => refresh[k].iat < accounts'[refresh[k].user].valid_from]_vars
=============================================================================
