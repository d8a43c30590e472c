---------------------------- MODULE BrowserSession ----------------------------
(***************************************************************************)
(* The session as a browser keeps it: src/frontend/src/api/client.ts,      *)
(* api/tokens.ts and auth/AuthProvider.tsx, with the pages that sign in    *)
(* and out.                                                                *)
(*                                                                         *)
(* Tabs share the refresh token (localStorage) and nothing else: the       *)
(* access token, the user on the screen and the refresh in flight are of a *)
(* tab.  A call goes                                                       *)
(*                                                                         *)
(*    sent --> ok | failed --> done                                        *)
(*    sent --> denied --> waiting (for a refresh) --> sent again --> ...   *)
(*                                                                         *)
(* and between its being sent, handled and read anything else may happen.  *)
(* The server is Sessions handling one request at a time.                  *)
(***************************************************************************)
EXTENDS Naturals, FiniteSets

CONSTANTS
    Tab,        \* the tabs that one browser opens
    User,       \* the accounts that sign in with it
    Pair,       \* the token pairs in use at a time
    MaxFaults   \* bound on the mishaps: lost calls, failing refreshes, reloads in
                \* mid-call, sign-ins while a session is being restored, and tokens
                \* that run out before they are used

NoPair == "no pair"
Nobody == "nobody"

ASSUME FaultAssumption == MaxFaults \in Nat
ASSUME TabAssumption == IsFiniteSet(Tab)
ASSUME NamesAssumption == NoPair \notin Pair /\ Nobody \notin User

VARIABLES
    sessions,   \* the server's token pairs
    stored,     \* localStorage["servicedesk.refresh"]: a pair, or NoPair
    tabs,       \* the memory of each tab: accessToken, status, user
    calls,      \* calls[t]: what tab t has asked and not finished
    flights,    \* flights[t]: the refreshes that tab t has in flight
    faults      \* how many mishaps there were: an observer's variable

vars == <<sessions, stored, tabs, calls, flights, faults>>

\* A page load asks for the user; a form signs in or out; and a page fetches
\* data or changes the password.
Slot == {"load", "auth", "data"}

\* The calls that carry the access token, and those that do not.
Authorised == {"load", "me", "data", "password"}
Op == Authorised \cup {"login", "logout", "ensure"}

Idle == [pc |-> "idle"]

Call == [pc: {"sent", "ok", "denied", "failed", "waiting"}, op: Op,
         pair: Pair \cup {NoPair}, as: User \cup {Nobody}, retried: BOOLEAN]

Flight == [pc: {"sent", "ok", "refused", "failed"}, pair: Pair, new: Pair \cup {NoPair},
           waiters: SUBSET Slot]

Memory == [access: Pair \cup {NoPair}, user: User \cup {Nobody},
           status: {"closed", "loading", "signed-in", "signed-out"}]

SessionRow == [state: {"unused", "live", "rotated", "ended"}, access: BOOLEAN,
               user: User \cup {Nobody}, family: Pair \cup {NoPair}]

TypeOK ==
    /\ sessions \in [Pair -> SessionRow]
    /\ stored \in Pair \cup {NoPair}
    /\ tabs \in [Tab -> Memory]
    /\ calls \in [Tab -> [Slot -> Call \cup {Idle}]]
    /\ flights \in [Tab -> SUBSET Flight]
    /\ faults \in Nat

Blank == [state |-> "unused", access |-> FALSE, user |-> Nobody, family |-> NoPair]

Init ==
    /\ sessions = [k \in Pair |-> Blank]
    /\ stored = NoPair
    /\ tabs = [t \in Tab |-> [access |-> NoPair, user |-> Nobody, status |-> "closed"]]
    /\ calls = [t \in Tab |-> [s \in Slot |-> Idle]]
    /\ flights = [t \in Tab |-> {}]
    /\ faults = 0

Fault == faults < MaxFaults /\ faults' = faults + 1

-----------------------------------------------------------------------------
(* Memory and storage of a tab. *)

SignedOut == [access |-> NoPair, user |-> Nobody, status |-> "signed-out"]

\* tokens.set
SetTokens(t, k) ==
    /\ stored' = k
    /\ tabs' = [tabs EXCEPT ![t].access = k]

\* reset: the tokens cleared (those of every tab, in the storage), nobody shown.
Reset(t) ==
    /\ stored' = NoPair
    /\ tabs' = [tabs EXCEPT ![t] = SignedOut]

Send(op, pair, as) ==
    [pc |-> "sent", op |-> op, pair |-> pair, as |-> as, retried |-> FALSE]

Put(t, s, c) == calls' = [calls EXCEPT ![t][s] = c]

\* A page load: the user is asked for if there is a refresh token.  What the
\* tab had in its memory and in flight is gone.
OpenTab(t) ==
    /\ LET loading == stored # NoPair IN
       /\ tabs' = [tabs EXCEPT ![t] =
            [SignedOut EXCEPT !.status = IF loading THEN "loading" ELSE @]]
       /\ calls' = [calls EXCEPT ![t] = [s \in Slot |->
            IF s = "load" /\ loading THEN Send("load", NoPair, Nobody) ELSE Idle]]
    /\ flights' = [flights EXCEPT ![t] = {}]
    /\ IF \A s \in Slot : calls[t][s] = Idle THEN UNCHANGED faults ELSE Fault
    /\ UNCHANGED <<sessions, stored>>

-----------------------------------------------------------------------------
(* What the user does. *)

\* LoginPage is there for everybody who is not signed in yet, and so for one
\* whose session is still being restored.
SubmitLogin(t, u) ==
    /\ tabs[t].status \in {"loading", "signed-out"}
    /\ calls[t]["auth"] = Idle
    /\ Put(t, "auth", Send("login", NoPair, u))
    /\ IF tabs[t].status = "loading" THEN Fault ELSE UNCHANGED faults
    /\ UNCHANGED <<sessions, stored, tabs, flights>>

\* logout: the server is asked to end the sessions if there is a token to show.
Logout_Local(t, s) ==       \* slip: only the browser forgets
    /\ Put(t, s, Idle)
    /\ Reset(t)

Logout(t, s) ==
    IF stored = NoPair
    THEN Put(t, s, Idle) /\ Reset(t)
    ELSE Put(t, s, Send("logout", stored, Nobody)) /\ UNCHANGED <<stored, tabs>>

\* The menu of AppLayout and "Sign out everywhere" of the settings.
SignOut(t) ==
    /\ tabs[t].status = "signed-in"
    /\ calls[t]["auth"] = Idle
    /\ Logout(t, "auth")
    /\ UNCHANGED <<sessions, flights, faults>>

\* The card sends the current password of the user who typed it, or mistyped it.
ChangePassword(t) ==
    /\ tabs[t].status = "signed-in"
    /\ calls[t]["data"] = Idle
    /\ \E as \in {tabs[t].user, Nobody} : Put(t, "data", Send("password", tabs[t].access, as))
    /\ UNCHANGED <<sessions, stored, tabs, flights, faults>>

FetchData(t) ==
    /\ tabs[t].status = "signed-in"
    /\ calls[t]["data"] = Idle
    /\ Put(t, "data", Send("data", tabs[t].access, Nobody))
    /\ UNCHANGED <<sessions, stored, tabs, flights, faults>>

-----------------------------------------------------------------------------
(* The server: app/services/auth_service.py, one request at a time.        *)

Accepted(k) == k # NoPair /\ sessions[k].access

\* A pair that neither the browser nor a message names any more.
Unheard(k) ==
    /\ stored # k
    /\ \A t \in Tab : /\ tabs[t].access # k
                      /\ \A s \in Slot : calls[t][s] # Idle => calls[t][s].pair # k
                      /\ \A f \in flights[t] : k \notin {f.pair, f.new}

Ended(row) == [row EXCEPT !.state = "ended", !.access = FALSE]

\* revoke_all_for_user
EndSessionsOf(u) ==
    sessions' = [k \in Pair |-> IF sessions[k].user = u THEN Ended(sessions[k])
                                                        ELSE sessions[k]]

\* issue_token_pair, for a login (old = NoPair) or a rotation.
Issued(new, u, old) ==
    [k \in Pair |->
        IF k = new THEN [state |-> "live", access |-> TRUE, user |-> u,
                         family |-> IF old = NoPair THEN new ELSE sessions[old].family]
        ELSE IF k = old THEN [sessions[k] EXCEPT !.state = "rotated"]
        ELSE sessions[k]]

\* A new pair may not take the name of a family that still has a token out.
Unused(k) == Unheard(k) /\ \A j \in Pair \ {k} : sessions[j].family = k => Unheard(j)

Answer(t, s, pc) == calls' = [calls EXCEPT ![t][s].pc = pc]

AnswerLogin(t, new) ==
    LET c == calls[t]["auth"] IN
    /\ c.pc = "sent" /\ c.op = "login"
    /\ Unused(new)
    /\ sessions' = Issued(new, c.as, NoPair)
    /\ calls' = [calls EXCEPT ![t]["auth"].pc = "ok", ![t]["auth"].pair = new]
    /\ UNCHANGED <<stored, tabs, flights, faults>>

\* A wrong password, an account not verified or disabled.
RefuseLogin(t) ==
    /\ calls[t]["auth"].pc = "sent" /\ calls[t]["auth"].op = "login"
    /\ Answer(t, "auth", "failed")
    /\ UNCHANGED <<sessions, stored, tabs, flights, faults>>

\* Any refresh token with a good signature will do.
AnswerLogout(t, s) ==
    LET c == calls[t][s] IN
    /\ c.pc = "sent" /\ c.op = "logout"
    /\ EndSessionsOf(sessions[c.pair].user)
    /\ Answer(t, s, "ok")
    /\ UNCHANGED <<stored, tabs, flights, faults>>

\* Disabling an account has ended all its sessions.
MayBeDisabled(u) ==
    \A k \in Pair : sessions[k].user = u => sessions[k] = Ended(sessions[k])

\* A wrong password is denied (401) like a token that is not accepted; the call of
\* a disabled account is not, and fails (403).
AnswerAuthorised(t, s) ==
    LET c    == calls[t][s]
        done == Accepted(c.pair) /\ (c.op = "password" => c.as = sessions[c.pair].user)
    IN
    /\ c.pc = "sent" /\ c.op \in Authorised
    /\ \/ Answer(t, s, IF done THEN "ok" ELSE "denied")
       \/ c.pair # NoPair /\ MayBeDisabled(sessions[c.pair].user) /\ Answer(t, s, "failed")
    /\ IF c.op = "password" /\ done
       THEN EndSessionsOf(sessions[c.pair].user)
       ELSE UNCHANGED sessions
    /\ UNCHANGED <<stored, tabs, flights, faults>>

\* rotate_refresh_token: only a live token is good for a new pair; a rotated
\* one is a theft and ends its family.
AnswerRefresh(t, f, new) ==
    LET row == sessions[f.pair] IN
    /\ f \in flights[t] /\ f.pc = "sent"
    /\ IF row.state = "live"
       THEN /\ Unused(new)
            /\ sessions' = Issued(new, row.user, f.pair)
            /\ flights' = [flights EXCEPT ![t] =
                (@ \ {f}) \cup {[f EXCEPT !.pc = "ok", !.new = new]}]
       ELSE /\ new = f.pair
            /\ sessions' = [k \in Pair |->
                IF sessions[k].family = row.family /\ sessions[k].state = "live"
                THEN [sessions[k] EXCEPT !.state = "ended"] ELSE sessions[k]]
            /\ flights' = [flights EXCEPT ![t] = (@ \ {f}) \cup {[f EXCEPT !.pc = "refused"]}]
    /\ UNCHANGED <<stored, tabs, calls, faults>>

\* An access token runs out.  It is a mishap that one does so before the call that
\* it was just issued for has used it.
Expire(k) ==
    /\ sessions[k].access
    /\ sessions' = [sessions EXCEPT ![k].access = FALSE]
    /\ IF \E t \in Tab :
            \/ \E s \in Slot : calls[t][s] # Idle /\ calls[t][s].retried /\ calls[t][s].pair = k
            \/ \E f \in flights[t] : f.new = k
       THEN Fault ELSE UNCHANGED faults
    /\ UNCHANGED <<stored, tabs, calls, flights>>

\* Another device signs out, or an administrator disables the account.
EndedElsewhere(u) ==
    /\ EndSessionsOf(u)
    /\ UNCHANGED <<stored, tabs, calls, flights, faults>>

-----------------------------------------------------------------------------
(* Faults. *)

\* A call of which the request or the answer gets lost, or that the server
\* answers with 5xx.
CallFails(t, s) ==
    /\ calls[t][s].pc \in {"sent", "ok", "denied"}
    /\ Answer(t, s, "failed")
    /\ Fault
    /\ UNCHANGED <<sessions, stored, tabs, flights>>

\* "failed" is a refresh that got no answer, "refused" any answer but 2xx: a
\* 503 of a restarting server or a 429 as well as the 401.
RefreshFails(t, f, pc) ==
    /\ f \in flights[t]
    /\ \/ f.pc = "sent" /\ pc \in {"failed", "refused"}
       \/ f.pc = "ok" /\ pc = "failed"
    /\ flights' = [flights EXCEPT ![t] =
            (@ \ {f}) \cup {[f EXCEPT !.pc = pc, !.new = NoPair]}]
    /\ Fault
    /\ UNCHANGED <<sessions, stored, tabs, calls>>

-----------------------------------------------------------------------------
(* client.ts and AuthProvider: what a tab makes of the answers.            *)

\* refreshOnce: the call waits for the refresh in flight, or for a new one.
RefreshOnce_Each(t, s) ==       \* slip: every caller starts a refresh
    flights' = [flights EXCEPT ![t] = @ \cup
        {[pc |-> "sent", pair |-> k, new |-> NoPair, waiters |-> {s}] : k \in {stored} \ {NoPair}}]

RefreshOnce(t, s) ==
    flights' = [flights EXCEPT ![t] =
        IF @ = {} THEN {[pc |-> "sent", pair |-> stored, new |-> NoPair, waiters |-> {s}]}
                  ELSE {[f EXCEPT !.waiters = @ \cup {s}] : f \in @}]

\* A first 401: with no token to refresh the session is over at once.
ReadDenied(t, s) ==
    /\ calls[t][s].pc = "denied" /\ ~calls[t][s].retried
    /\ IF flights[t] = {} /\ stored = NoPair
       THEN /\ Reset(t)
            /\ Put(t, s, Idle)
            /\ UNCHANGED flights
       ELSE /\ RefreshOnce(t, s)
            /\ Answer(t, s, "waiting")
            /\ UNCHANGED <<stored, tabs>>
    /\ UNCHANGED <<sessions, faults>>

\* ensureFreshToken, of a socket or a stream that is to be opened again.
EnsureFreshToken(t) ==
    /\ tabs[t].status = "signed-in"
    /\ calls[t]["data"] = Idle
    /\ IF flights[t] = {} /\ stored = NoPair
       THEN Reset(t) /\ UNCHANGED <<calls, flights>>
       ELSE /\ RefreshOnce(t, "data")
            /\ Put(t, "data", [Send("ensure", NoPair, Nobody) EXCEPT !.pc = "waiting"])
            /\ UNCHANGED <<stored, tabs>>
    /\ UNCHANGED <<sessions, faults>>

\* The load effect of AuthProvider resets on any error, unless cancelled.
AfterError(t, ops) ==
    IF "load" \in ops /\ tabs[t].status = "loading" THEN Reset(t)
                                                    ELSE UNCHANGED <<stored, tabs>>

\* What becomes of a waiting call c when refresh f has ended.
Resumed_Stale(c, f) ==      \* slip: the promise of a failed refresh never settles
    IF f.pc = "ok" /\ c.op # "ensure"
    THEN [c EXCEPT !.pc = "sent", !.pair = f.new, !.retried = TRUE]
    ELSE IF f.pc = "failed" THEN c ELSE Idle

Resumed(c, f) ==
    IF f.pc = "ok" /\ c.op # "ensure"
    THEN [c EXCEPT !.pc = "sent", !.pair = f.new, !.retried = TRUE]
    ELSE Idle

\* The refresh has come to an end and those who waited for it go on: each
\* sends its call once more, with the new token.
ReadRefresh(t, f) ==
    /\ f \in flights[t] /\ f.pc \in {"ok", "refused", "failed"}
    /\ flights' = [flights EXCEPT ![t] = @ \ {f}]
    /\ calls' = [calls EXCEPT ![t] = [s \in Slot |->
            IF s \in f.waiters THEN Resumed(@[s], f) ELSE @[s]]]
    /\ CASE f.pc = "ok"      -> SetTokens(t, f.new)
         [] f.pc = "refused" -> Reset(t)
         [] f.pc = "failed"  -> AfterError(t, {calls[t][s].op : s \in f.waiters})
    /\ UNCHANGED <<sessions, faults>>

\* A call that failed, or was denied although the token was new.
ReadError(t, s) ==
    LET c == calls[t][s] IN
    /\ c.pc = "failed" \/ (c.pc = "denied" /\ c.retried)
    /\ IF c.op = "logout" THEN Reset(t) ELSE AfterError(t, {c.op})
    /\ Put(t, s, Idle)
    /\ UNCHANGED <<sessions, flights, faults>>

\* login goes on to ask who signed in.
ReadLogin(t) ==
    LET c == calls[t]["auth"] IN
    /\ c.pc = "ok" /\ c.op = "login"
    /\ SetTokens(t, c.pair)
    /\ Put(t, "auth", Send("me", c.pair, Nobody))
    /\ UNCHANGED <<sessions, flights, faults>>

\* The answer to getMe names the owner of the token that it carried.  That of
\* the page load is not used once the status has changed.
ReadMe(t, s) ==
    LET c == calls[t][s] IN
    /\ c.pc = "ok" /\ c.op \in {"load", "me"}
    /\ tabs' = IF c.op = "load" /\ tabs[t].status # "loading" THEN tabs
               ELSE [tabs EXCEPT ![t].user = sessions[c.pair].user, ![t].status = "signed-in"]
    /\ Put(t, s, Idle)
    /\ UNCHANGED <<sessions, stored, flights, faults>>

ReadData(t) ==
    /\ calls[t]["data"].pc = "ok" /\ calls[t]["data"].op = "data"
    /\ Put(t, "data", Idle)
    /\ UNCHANGED <<sessions, stored, tabs, flights, faults>>

ReadLogout(t, s) ==
    /\ calls[t][s].pc = "ok" /\ calls[t][s].op = "logout"
    /\ Reset(t)
    /\ Put(t, s, Idle)
    /\ UNCHANGED <<sessions, flights, faults>>

\* After a new password the card signs this browser out too, even when somebody
\* else has signed in meanwhile.
ReadPassword(t) ==
    /\ calls[t]["data"].pc = "ok" /\ calls[t]["data"].op = "password"
    /\ Logout(t, "data")
    /\ UNCHANGED <<sessions, flights, faults>>

-----------------------------------------------------------------------------
UserStep(t) ==
    \/ OpenTab(t)
    \/ \E u \in User : SubmitLogin(t, u)
    \/ SignOut(t)
    \/ ChangePassword(t)
    \/ FetchData(t)
    \/ EnsureFreshToken(t)

ServerStep(t) ==
    \/ \E new \in Pair : \/ AnswerLogin(t, new)
                         \/ \E f \in flights[t] : AnswerRefresh(t, f, new)
    \/ RefuseLogin(t)
    \/ \E s \in Slot : AnswerLogout(t, s) \/ AnswerAuthorised(t, s)

TabStep(t) ==
    \/ \E s \in Slot : ReadDenied(t, s) \/ ReadError(t, s) \/ ReadMe(t, s)
    \/ \E f \in flights[t] : ReadRefresh(t, f)
    \/ ReadLogin(t)
    \/ ReadData(t)
    \/ \E s \in {"auth", "data"} : ReadLogout(t, s)
    \/ ReadPassword(t)

FaultStep(t) ==
    \/ \E s \in Slot : CallFails(t, s)
    \/ \E f \in flights[t], pc \in {"failed", "refused"} : RefreshFails(t, f, pc)

Next ==
    \/ \E t \in Tab : UserStep(t) \/ ServerStep(t) \/ TabStep(t) \/ FaultStep(t)
    \/ \E k \in Pair : Expire(k)
    \/ \E u \in User : EndedElsewhere(u)

Spec == Init /\ [][Next]_vars

-----------------------------------------------------------------------------
(* Properties. *)

\* A call that waits is waited for: some refresh in flight will wake it when it
\* ends, however it ends (client.ts, refreshOnce and its callers).  Otherwise
\* the page would stay on its spinner for ever.
WaitingIsServed ==
    \A t \in Tab, s \in Slot :
        calls[t][s].pc = "waiting" <=> \E f \in flights[t] : s \in f.waiters

\* As long as nothing is lost, a tab that is alone never shows the server a
\* refresh token that it has spent: two calls that are denied at once share a
\* refresh (client.ts, refreshOnce).
NoReuse ==
    faults = 0 /\ Cardinality({t \in Tab : tabs[t].status # "closed"}) = 1 =>
        \A t \in Tab : \A f \in flights[t] :
            f.pc = "sent" => sessions[f.pair].state # "rotated"

\* And whatever such a tab asks is asked as the user whom it shows: no answer
\* that comes late, across a sign-out and a sign-in, leaves it with a token of
\* the previous user that still works (AuthProvider.tsx, logout and login).
ActsAsShown ==
    faults = 0 /\ Cardinality({t \in Tab : tabs[t].status # "closed"}) = 1 =>
        \A t \in Tab : tabs[t].status = "signed-in" /\ Accepted(tabs[t].access)
                        => sessions[tabs[t].access].user = tabs[t].user
=============================================================================
