------------------------ MODULE BrowserSessionProofs ------------------------
(***************************************************************************)
(* Theorems of BrowserSession, for any tabs, users, token pairs and faults. *)
(***************************************************************************)
EXTENDS BrowserSession, FiniteSetTheorems, TLAPS

-----------------------------------------------------------------------------
(* Type correctness and who waits for what go together: what a refresh      *)
(* resumes is a call because only calls that wait are waited for.           *)

\* refreshOnce: a tab has at most one refresh in flight.
OneFlight == \A t \in Tab : \A f, g \in flights[t] : f = g

\* What was answered carried a token, or was told one.
AnsweredInv ==
    \A t \in Tab, s \in Slot :
        calls[t][s].pc = "ok" /\ calls[t][s].op # "logout" => calls[t][s].pair \in Pair

SessionInv == TypeOK /\ WaitingIsServed /\ OneFlight /\ AnsweredInv

LEMMA CallTyped ==
  ASSUME TypeOK, NEW t \in Tab, NEW s \in Slot, calls[t][s].pc # "idle"
  PROVE  calls[t][s] \in Call
BY DEF TypeOK, Idle

LEMMA SendTyped ==
  ASSUME NEW op \in Op, NEW pair \in Pair \cup {NoPair}, NEW as \in User \cup {Nobody}
  PROVE  Send(op, pair, as) \in Call
BY DEF Send, Call

\* A call that does not wait, or a free slot, is replaced by another.
LEMMA SlotStep ==
  ASSUME SessionInv, NEW t \in Tab, NEW s \in Slot, NEW x \in Call \cup {Idle},
         x.pc # "waiting", calls[t][s].pc # "waiting",
         x.pc = "ok" /\ x.op # "logout" => x.pair \in Pair,
         calls' = [calls EXCEPT ![t][s] = x], UNCHANGED flights
  PROVE  /\ calls' \in [Tab -> [Slot -> Call \cup {Idle}]]
         /\ WaitingIsServed' /\ OneFlight' /\ AnsweredInv'
<1>1. calls \in [Tab -> [Slot -> Call \cup {Idle}]]
  BY DEF SessionInv, TypeOK
<1>2. calls' \in [Tab -> [Slot -> Call \cup {Idle}]]
  BY <1>1
<1>3. \A u \in Tab, r \in Slot :
        calls'[u][r] = IF u = t /\ r = s THEN x ELSE calls[u][r]
  BY <1>1
<1>4. WaitingIsServed'
  BY <1>3 DEF SessionInv, WaitingIsServed
<1>5. OneFlight' /\ AnsweredInv'
  BY <1>3 DEF SessionInv, OneFlight, AnsweredInv
<1>. QED
  BY <1>2, <1>4, <1>5

\* Only the progress of a call changes.
LEMMA AnswerStep ==
  ASSUME SessionInv, NEW t \in Tab, NEW s \in Slot, NEW pc \in {"ok", "denied", "failed"},
         calls[t][s].pc \in {"sent", "ok", "denied", "failed"},
         pc = "ok" /\ calls[t][s].op # "logout" => calls[t][s].pair \in Pair,
         Answer(t, s, pc), UNCHANGED flights
  PROVE  /\ calls' \in [Tab -> [Slot -> Call \cup {Idle}]]
         /\ WaitingIsServed' /\ OneFlight' /\ AnsweredInv'
<1>. DEFINE x == [calls[t][s] EXCEPT !.pc = pc]
<1>1. calls[t][s] \in Call /\ calls \in [Tab -> [Slot -> Call \cup {Idle}]]
  BY CallTyped DEF SessionInv, TypeOK
<1>2. x \in Call /\ x.pc = pc /\ x.op = calls[t][s].op /\ x.pair = calls[t][s].pair
  BY <1>1 DEF Call
<1>3. calls' = [calls EXCEPT ![t][s] = x]
  BY <1>1 DEF Answer
<1>. HIDE DEF x
<1>. QED
  BY <1>1, <1>2, <1>3, SlotStep

\* A refresh is answered or fails: those who wait for it go on waiting.
LEMMA FlightStep ==
  ASSUME SessionInv, NEW t \in Tab, NEW f \in flights[t], NEW g \in Flight,
         g.waiters = f.waiters,
         flights' = [flights EXCEPT ![t] = (@ \ {f}) \cup {g}], UNCHANGED calls
  PROVE  /\ flights' \in [Tab -> SUBSET Flight]
         /\ WaitingIsServed' /\ OneFlight' /\ AnsweredInv'
<1>1. flights \in [Tab -> SUBSET Flight] /\ flights[t] = {f}
  BY DEF SessionInv, TypeOK, OneFlight
<1>2. flights'[t] = {g} /\ \A u \in Tab \ {t} : flights'[u] = flights[u]
  BY <1>1
<1>3. flights' \in [Tab -> SUBSET Flight]
  BY <1>1
<1>4. WaitingIsServed'
  BY <1>1, <1>2 DEF SessionInv, WaitingIsServed
<1>5. OneFlight' /\ AnsweredInv'
  BY <1>2 DEF SessionInv, OneFlight, AnsweredInv
<1>. QED
  BY <1>3, <1>4, <1>5

\* A call begins to wait.
LEMMA RefreshOnceStep ==
  ASSUME SessionInv, NEW t \in Tab, NEW s \in Slot, NEW x \in Call, x.pc = "waiting",
         calls[t][s].pc # "waiting", ~(flights[t] = {} /\ stored = NoPair),
         calls' = [calls EXCEPT ![t][s] = x], RefreshOnce(t, s)
  PROVE  /\ calls' \in [Tab -> [Slot -> Call \cup {Idle}]]
         /\ flights' \in [Tab -> SUBSET Flight]
         /\ WaitingIsServed' /\ OneFlight' /\ AnsweredInv'
<1>1. /\ calls \in [Tab -> [Slot -> Call \cup {Idle}]] /\ flights \in [Tab -> SUBSET Flight]
      /\ stored \in Pair \cup {NoPair}
  BY DEF SessionInv, TypeOK
<1>2. calls' \in [Tab -> [Slot -> Call \cup {Idle}]]
  BY <1>1
<1>3. \A u \in Tab, r \in Slot :
        calls'[u][r] = IF u = t /\ r = s THEN x ELSE calls[u][r]
  BY <1>1
<1>4. \A u \in Tab \ {t} : flights'[u] = flights[u]
  BY <1>1 DEF RefreshOnce
<1>5. \E g \in Flight : /\ flights'[t] = {g}
                        /\ \A r \in Slot : r \in g.waiters <=>
                              r = s \/ \E f \in flights[t] : r \in f.waiters
  <2>1. CASE flights[t] = {}
    <3>. DEFINE g == [pc |-> "sent", pair |-> stored, new |-> NoPair, waiters |-> {s}]
    <3>1. g \in Flight
      BY <1>1, <2>1 DEF Flight
    <3>2. flights'[t] = {g}
      BY <1>1, <2>1 DEF RefreshOnce
    <3>. QED
      BY <2>1, <3>1, <3>2
  <2>2. CASE flights[t] # {}
    <3>1. PICK f \in flights[t] : flights[t] = {f}
      BY <2>2 DEF SessionInv, OneFlight
    <3>2. f \in Flight
      BY <1>1
    <3>. DEFINE g == [f EXCEPT !.waiters = @ \cup {s}]
    <3>3. g \in Flight /\ g.waiters = f.waiters \cup {s}
      BY <3>2 DEF Flight
    <3>4. flights'[t] = {g}
      BY <1>1, <2>2, <3>1 DEF RefreshOnce
    <3>. QED
      BY <3>1, <3>3, <3>4
  <2>. QED
    BY <2>1, <2>2
<1>6. flights' \in [Tab -> SUBSET Flight]
  BY <1>1, <1>4, <1>5 DEF RefreshOnce
<1>7. WaitingIsServed'
  BY <1>3, <1>4, <1>5 DEF SessionInv, WaitingIsServed
<1>8. OneFlight' /\ AnsweredInv'
  BY <1>3, <1>4, <1>5 DEF SessionInv, OneFlight, AnsweredInv
<1>. QED
  BY <1>2, <1>6, <1>7, <1>8

-----------------------------------------------------------------------------
(* The tables of the server and the memory of a tab. *)

LEMMA EndTyped ==
  ASSUME TypeOK, NEW u, EndSessionsOf(u)
  PROVE  sessions' \in [Pair -> SessionRow]
<1>1. \A k \in Pair : sessions[k] \in SessionRow /\ Ended(sessions[k]) \in SessionRow
  BY DEF TypeOK, Ended, SessionRow
<1>. QED
  BY <1>1 DEF EndSessionsOf

LEMMA IssuedTyped ==
  ASSUME TypeOK, NEW new \in Pair, NEW u \in User \cup {Nobody}, NEW old \in Pair \cup {NoPair}
  PROVE  Issued(new, u, old) \in [Pair -> SessionRow]
<1>1. \A k \in Pair : /\ sessions[k] \in SessionRow
                      /\ [sessions[k] EXCEPT !.state = "rotated"] \in SessionRow
  BY DEF TypeOK, SessionRow
<1>2. (IF old = NoPair THEN new ELSE sessions[old].family) \in Pair \cup {NoPair}
  BY <1>1 DEF SessionRow
<1>3. [state |-> "live", access |-> TRUE, user |-> u,
       family |-> IF old = NoPair THEN new ELSE sessions[old].family] \in SessionRow
  BY <1>2 DEF SessionRow
<1>. QED
  BY <1>1, <1>3 DEF Issued

LEMMA ResetTyped ==
  ASSUME TypeOK, NEW t \in Tab, Reset(t)
  PROVE  stored' \in Pair \cup {NoPair} /\ tabs' \in [Tab -> Memory]
<1>1. SignedOut \in Memory
  BY DEF SignedOut, Memory
<1>. QED
  BY <1>1 DEF TypeOK, Reset

LEMMA SetTokensTyped ==
  ASSUME TypeOK, NEW t \in Tab, NEW k \in Pair \cup {NoPair}, SetTokens(t, k)
  PROVE  stored' \in Pair \cup {NoPair} /\ tabs' \in [Tab -> Memory]
BY DEF TypeOK, SetTokens, Memory

LEMMA AfterErrorTyped ==
  ASSUME TypeOK, NEW t \in Tab, NEW ops, AfterError(t, ops)
  PROVE  stored' \in Pair \cup {NoPair} /\ tabs' \in [Tab -> Memory]
<1>1. Reset(t) \/ UNCHANGED <<stored, tabs>>
  BY DEF AfterError
<1>. QED
  BY <1>1, ResetTyped DEF TypeOK

LEMMA FaultTyped == TypeOK /\ (Fault \/ UNCHANGED faults) => faults' \in Nat
BY DEF TypeOK, Fault

-----------------------------------------------------------------------------
(* The user. *)

LEMMA OpenTabKeeps ==
  ASSUME SessionInv, NEW t \in Tab, OpenTab(t)
  PROVE  SessionInv'
<1>. DEFINE loading == stored # NoPair
            slots == [s \in Slot |-> IF s = "load" /\ loading
                                     THEN Send("load", NoPair, Nobody) ELSE Idle]
            memory == [SignedOut EXCEPT !.status = IF loading THEN "loading" ELSE @]
<1>1. Send("load", NoPair, Nobody) \in Call /\ Send("load", NoPair, Nobody).pc = "sent"
  BY SendTyped DEF Op, Authorised, Send
<1>2. slots \in [Slot -> Call \cup {Idle}] /\ \A s \in Slot : slots[s].pc \in {"sent", "idle"}
  BY <1>1 DEF Idle
<1>3. memory \in Memory
  BY DEF SignedOut, Memory
<1>4. /\ tabs' = [tabs EXCEPT ![t] = memory]
      /\ calls' = [calls EXCEPT ![t] = slots]
      /\ flights' = [flights EXCEPT ![t] = {}]
      /\ UNCHANGED <<sessions, stored>> /\ (Fault \/ UNCHANGED faults)
  BY DEF OpenTab
<1>. HIDE DEF slots, memory, loading
<1>5. /\ calls'[t] = slots /\ flights'[t] = {}
      /\ \A u \in Tab \ {t} : calls'[u] = calls[u] /\ flights'[u] = flights[u]
  BY <1>4 DEF SessionInv, TypeOK
<1>6. TypeOK'
  BY <1>2, <1>3, <1>4, FaultTyped DEF SessionInv, TypeOK
<1>7. WaitingIsServed'
  BY <1>2, <1>5 DEF SessionInv, WaitingIsServed
<1>8. OneFlight' /\ AnsweredInv'
  BY <1>2, <1>5 DEF SessionInv, OneFlight, AnsweredInv
<1>. QED
  BY <1>6, <1>7, <1>8 DEF SessionInv

\* Logout asks the server or clears the tokens at once.
LEMMA LogoutKeeps ==
  ASSUME SessionInv, NEW t \in Tab, NEW s \in Slot, calls[t][s].pc # "waiting",
         Logout(t, s), UNCHANGED <<sessions, flights, faults>>
  PROVE  SessionInv'
<1>1. CASE stored = NoPair
  <2>1. calls' = [calls EXCEPT ![t][s] = Idle] /\ Reset(t)
    BY <1>1 DEF Logout, Put
  <2>. QED
    BY <2>1, SlotStep, ResetTyped DEF SessionInv, TypeOK, Idle
<1>2. CASE stored # NoPair
  <2>1. calls' = [calls EXCEPT ![t][s] = Send("logout", stored, Nobody)]
        /\ UNCHANGED <<stored, tabs>>
    BY <1>2 DEF Logout, Put
  <2>2. Send("logout", stored, Nobody) \in Call /\ Send("logout", stored, Nobody).pc = "sent"
    BY SendTyped DEF SessionInv, TypeOK, Op, Send
  <2>. QED
    BY <2>1, <2>2, SlotStep DEF SessionInv, TypeOK
<1>. QED
  BY <1>1, <1>2

LEMMA UserKeeps ==
  ASSUME SessionInv, NEW t \in Tab, UserStep(t)
  PROVE  SessionInv'
<1>. USE DEF Idle
<1>1. ASSUME NEW u \in User, SubmitLogin(t, u)
      PROVE  SessionInv'
  <2>1. Send("login", NoPair, u) \in Call /\ Send("login", NoPair, u).pc = "sent"
    BY SendTyped DEF Op, Send
  <2>2. calls' = [calls EXCEPT ![t]["auth"] = Send("login", NoPair, u)]
        /\ calls[t]["auth"].pc # "waiting" /\ "auth" \in Slot
    BY <1>1 DEF SubmitLogin, Put, Slot
  <2>3. UNCHANGED <<sessions, stored, tabs, flights>> /\ faults' \in Nat
    BY <1>1, FaultTyped DEF SubmitLogin, SessionInv
  <2>. QED
    BY <2>1, <2>2, <2>3, SlotStep DEF SessionInv, TypeOK
<1>2. CASE SignOut(t)
  BY <1>2, LogoutKeeps DEF SignOut, Slot
<1>3. ASSUME NEW op \in {"password", "data"}, NEW as \in User \cup {Nobody},
             calls[t]["data"] = Idle, Put(t, "data", Send(op, tabs[t].access, as)),
             UNCHANGED <<sessions, stored, tabs, flights, faults>>
      PROVE  SessionInv'
  <2>1. tabs[t].access \in Pair \cup {NoPair}
    BY DEF SessionInv, TypeOK, Memory
  <2>2. Send(op, tabs[t].access, as) \in Call /\ Send(op, tabs[t].access, as).pc = "sent"
    BY <2>1, SendTyped DEF Op, Authorised, Send
  <2>3. calls' = [calls EXCEPT ![t]["data"] = Send(op, tabs[t].access, as)]
        /\ calls[t]["data"].pc # "waiting" /\ "data" \in Slot
    BY <1>3 DEF Put, Slot
  <2>. QED
    BY <1>3, <2>2, <2>3, SlotStep DEF SessionInv, TypeOK
<1>4. CASE ChangePassword(t) \/ FetchData(t)
  <2>1. tabs[t].user \in User \cup {Nobody}
    BY DEF SessionInv, TypeOK, Memory
  <2>. QED
    BY <1>3, <1>4, <2>1 DEF ChangePassword, FetchData
<1>5. CASE EnsureFreshToken(t)
  <2>. DEFINE x == [Send("ensure", NoPair, Nobody) EXCEPT !.pc = "waiting"]
  <2>1. x \in Call /\ x.pc = "waiting"
    BY DEF Send, Call, Op
  <2>2. CASE flights[t] = {} /\ stored = NoPair
    BY <1>5, <2>2, ResetTyped
       DEF EnsureFreshToken, SessionInv, TypeOK, WaitingIsServed, OneFlight, AnsweredInv
  <2>3. CASE ~(flights[t] = {} /\ stored = NoPair)
    <3>1. /\ calls' = [calls EXCEPT ![t]["data"] = x] /\ calls[t]["data"].pc # "waiting"
          /\ RefreshOnce(t, "data") /\ "data" \in Slot
          /\ UNCHANGED <<sessions, stored, tabs, faults>>
      BY <1>5, <2>3 DEF EnsureFreshToken, Put, Slot
    <3>. HIDE DEF x
    <3>. QED
      BY <2>1, <2>3, <3>1, RefreshOnceStep DEF SessionInv, TypeOK
  <2>. QED
    BY <2>2, <2>3
<1>. QED
  BY <1>1, <1>2, <1>4, <1>5, OpenTabKeeps DEF UserStep

-----------------------------------------------------------------------------
(* The server. *)

LEMMA ServerKeeps ==
  ASSUME SessionInv, NEW t \in Tab, ServerStep(t)
  PROVE  SessionInv'
<1>1. ASSUME NEW new \in Pair, AnswerLogin(t, new)
      PROVE  SessionInv'
  <2>. DEFINE c == calls[t]["auth"]
              x == [c EXCEPT !.pc = "ok", !.pair = new]
  <2>1. c \in Call /\ c.pc = "sent" /\ "auth" \in Slot
    BY <1>1, CallTyped DEF AnswerLogin, SessionInv, Slot
  <2>2. x \in Call /\ x.pc = "ok" /\ x.pair \in Pair
    BY <2>1 DEF Call
  <2>3. calls' = [calls EXCEPT ![t]["auth"] = x] /\ UNCHANGED <<stored, tabs, flights, faults>>
    BY <1>1, <2>1 DEF AnswerLogin, SessionInv, TypeOK, Call
  <2>4. sessions' \in [Pair -> SessionRow]
    BY <1>1, <2>1, IssuedTyped DEF AnswerLogin, SessionInv, Call
  <2>. HIDE DEF x
  <2>. QED
    BY <2>1, <2>2, <2>3, <2>4, SlotStep DEF SessionInv, TypeOK
<1>2. CASE RefuseLogin(t)
  <2>1. calls[t]["auth"].pc = "sent" /\ Answer(t, "auth", "failed") /\ "auth" \in Slot
        /\ UNCHANGED <<sessions, stored, tabs, flights, faults>>
    BY <1>2 DEF RefuseLogin, Slot
  <2>. QED
    BY <2>1, AnswerStep DEF SessionInv, TypeOK
<1>3. ASSUME NEW s \in Slot, AnswerLogout(t, s)
      PROVE  SessionInv'
  <2>1. /\ calls[t][s].pc = "sent" /\ calls[t][s].op = "logout" /\ Answer(t, s, "ok")
        /\ UNCHANGED <<stored, tabs, flights, faults>>
    BY <1>3 DEF AnswerLogout
  <2>2. sessions' \in [Pair -> SessionRow]
    BY <1>3, EndTyped DEF AnswerLogout, SessionInv
  <2>. QED
    BY <2>1, <2>2, AnswerStep DEF SessionInv, TypeOK
<1>4. ASSUME NEW s \in Slot, AnswerAuthorised(t, s)
      PROVE  SessionInv'
  <2>1. calls[t][s].pc = "sent" /\ UNCHANGED <<stored, tabs, flights, faults>>
    BY <1>4 DEF AnswerAuthorised
  <2>2. sessions' \in [Pair -> SessionRow]
    BY <1>4, EndTyped DEF AnswerAuthorised, SessionInv, TypeOK
  <2>3. calls[t][s].pair \in Pair \cup {NoPair}
    BY <2>1, CallTyped DEF SessionInv, Call
  <2>4. PICK pc \in {"ok", "denied", "failed"} :
            Answer(t, s, pc) /\ (pc = "ok" => Accepted(calls[t][s].pair))
    BY <1>4 DEF AnswerAuthorised
  <2>5. pc = "ok" => calls[t][s].pair \in Pair
    BY <2>3, <2>4 DEF Accepted
  <2>. QED
    BY <2>1, <2>2, <2>4, <2>5, AnswerStep DEF SessionInv, TypeOK
<1>5. ASSUME NEW new \in Pair, NEW f \in flights[t], AnswerRefresh(t, f, new)
      PROVE  SessionInv'
  <2>1. f \in Flight /\ sessions[f.pair] \in SessionRow /\ f.pair \in Pair
    BY DEF SessionInv, TypeOK, Flight
  <2>2. sessions' \in [Pair -> SessionRow]
    <3>1. CASE sessions[f.pair].state = "live"
      <4>1. /\ sessions[f.pair].user \in User \cup {Nobody}
            /\ sessions' = Issued(new, sessions[f.pair].user, f.pair)
        BY <1>5, <2>1, <3>1 DEF AnswerRefresh, SessionRow
      <4>. QED
        BY <2>1, <4>1, IssuedTyped DEF SessionInv
    <3>2. CASE sessions[f.pair].state # "live"
      <4>1. \A k \in Pair : /\ sessions[k] \in SessionRow
                            /\ [sessions[k] EXCEPT !.state = "ended"] \in SessionRow
        BY DEF SessionInv, TypeOK, SessionRow
      <4>. QED
        BY <1>5, <3>2, <4>1 DEF AnswerRefresh
    <3>. QED
      BY <3>1, <3>2
  <2>3. PICK g \in Flight :
            /\ g.waiters = f.waiters
            /\ flights' = [flights EXCEPT ![t] = (@ \ {f}) \cup {g}]
    <3>1. CASE sessions[f.pair].state = "live"
      <4>1. [f EXCEPT !.pc = "ok", !.new = new] \in Flight
            /\ [f EXCEPT !.pc = "ok", !.new = new].waiters = f.waiters
        BY <2>1 DEF Flight
      <4>. QED
        BY <1>5, <3>1, <4>1 DEF AnswerRefresh
    <3>2. CASE sessions[f.pair].state # "live"
      <4>1. [f EXCEPT !.pc = "refused"] \in Flight
            /\ [f EXCEPT !.pc = "refused"].waiters = f.waiters
        BY <2>1 DEF Flight
      <4>. QED
        BY <1>5, <3>2, <4>1 DEF AnswerRefresh
    <3>. QED
      BY <3>1, <3>2
  <2>. QED
    BY <1>5, <2>2, <2>3, FlightStep DEF AnswerRefresh, SessionInv, TypeOK
<1>. QED
  BY <1>1, <1>2, <1>3, <1>4, <1>5 DEF ServerStep

LEMMA FaultKeeps ==
  ASSUME SessionInv, NEW t \in Tab, FaultStep(t)
  PROVE  SessionInv'
<1>1. ASSUME NEW s \in Slot, CallFails(t, s)
      PROVE  SessionInv'
  BY <1>1, AnswerStep, FaultTyped DEF CallFails, SessionInv, TypeOK
<1>2. ASSUME NEW f \in flights[t], NEW pc \in {"failed", "refused"}, RefreshFails(t, f, pc)
      PROVE  SessionInv'
  <2>. DEFINE g == [f EXCEPT !.pc = pc, !.new = NoPair]
  <2>1. g \in Flight /\ g.waiters = f.waiters
    <3>1. f \in Flight
      BY DEF SessionInv, TypeOK
    <3>. QED
      BY <3>1 DEF Flight
  <2>2. flights' = [flights EXCEPT ![t] = (@ \ {f}) \cup {g}]
        /\ UNCHANGED <<sessions, stored, tabs, calls>> /\ faults' \in Nat
    BY <1>2, FaultTyped DEF RefreshFails, SessionInv
  <2>. HIDE DEF g
  <2>. QED
    BY <2>1, <2>2, FlightStep DEF SessionInv, TypeOK
<1>. QED
  BY <1>1, <1>2 DEF FaultStep

-----------------------------------------------------------------------------
(* The tab. *)

\* A slot becomes free.
LEMMA FreeKeeps ==
  ASSUME SessionInv, NEW t \in Tab, NEW s \in Slot, calls[t][s].pc # "waiting",
         Put(t, s, Idle), sessions' \in [Pair -> SessionRow],
         stored' \in Pair \cup {NoPair}, tabs' \in [Tab -> Memory],
         UNCHANGED <<flights, faults>>
  PROVE  SessionInv'
BY SlotStep DEF Put, Idle, SessionInv, TypeOK

LEMMA ReadRefreshKeeps ==
  ASSUME SessionInv, NEW t \in Tab, NEW f \in flights[t], ReadRefresh(t, f)
  PROVE  SessionInv'
<1>1. /\ calls \in [Tab -> [Slot -> Call \cup {Idle}]] /\ flights \in [Tab -> SUBSET Flight]
      /\ f \in Flight /\ f.new \in Pair \cup {NoPair} /\ flights[t] = {f}
  BY DEF SessionInv, TypeOK, Flight, OneFlight
<1>2. \A s \in Slot : calls[t][s].pc = "waiting" <=> s \in f.waiters
  BY <1>1 DEF SessionInv, WaitingIsServed
<1>. DEFINE slots == [s \in Slot |-> IF s \in f.waiters THEN Resumed(calls[t][s], f)
                                                        ELSE calls[t][s]]
<1>3. \A s \in Slot : slots[s] \in Call \cup {Idle}
  <2>. SUFFICES ASSUME NEW s \in Slot, s \in f.waiters
                PROVE  Resumed(calls[t][s], f) \in Call \cup {Idle}
    BY <1>1
  <2>1. calls[t][s] \in Call
    BY <1>2, CallTyped DEF SessionInv
  <2>. QED
    BY <1>1, <2>1 DEF Resumed, Call
<1>4. \A s \in Slot : /\ slots[s].pc # "waiting"
                      /\ slots[s].pc = "ok" => s \notin f.waiters /\ slots[s] = calls[t][s]
  <2>1. \A s \in Slot : s \in f.waiters =>
            Resumed(calls[t][s], f).pc \in {"sent", "idle"}
    <3>. SUFFICES ASSUME NEW s \in Slot, s \in f.waiters
                  PROVE  Resumed(calls[t][s], f).pc \in {"sent", "idle"}
      OBVIOUS
    <3>1. calls[t][s] \in Call
      BY <1>2, CallTyped DEF SessionInv
    <3>. QED
      BY <3>1 DEF Resumed, Idle, Call
  <2>. QED
    BY <1>2, <2>1
<1>5. calls' = [calls EXCEPT ![t] = slots] /\ flights' = [flights EXCEPT ![t] = @ \ {f}]
  BY <1>1 DEF ReadRefresh
<1>. HIDE DEF slots
<1>6. /\ calls'[t] = slots /\ flights'[t] = {}
      /\ \A u \in Tab \ {t} : calls'[u] = calls[u] /\ flights'[u] = flights[u]
  BY <1>1, <1>5
<1>7. stored' \in Pair \cup {NoPair} /\ tabs' \in [Tab -> Memory]
  <2>1. CASE f.pc = "ok"
    BY <1>1, <2>1, SetTokensTyped DEF ReadRefresh, SessionInv
  <2>2. CASE f.pc = "refused"
    BY <2>2, ResetTyped DEF ReadRefresh, SessionInv
  <2>3. CASE f.pc = "failed"
    BY <2>3, AfterErrorTyped DEF ReadRefresh, SessionInv
  <2>. QED
    BY <2>1, <2>2, <2>3 DEF ReadRefresh
<1>8. slots \in [Slot -> Call \cup {Idle}]
  BY <1>3, <1>5 DEF slots
<1>9. TypeOK'
  BY <1>1, <1>5, <1>7, <1>8 DEF ReadRefresh, SessionInv, TypeOK
<1>10. WaitingIsServed'
  BY <1>4, <1>6 DEF SessionInv, WaitingIsServed
<1>11. OneFlight' /\ AnsweredInv'
  BY <1>4, <1>6 DEF SessionInv, OneFlight, AnsweredInv
<1>. QED
  BY <1>9, <1>10, <1>11 DEF SessionInv

LEMMA TabKeeps ==
  ASSUME SessionInv, NEW t \in Tab, TabStep(t)
  PROVE  SessionInv'
<1>. USE DEF SessionInv
<1>1. ASSUME NEW s \in Slot, ReadDenied(t, s)
      PROVE  SessionInv'
  <2>1. CASE flights[t] = {} /\ stored = NoPair
    BY <1>1, <2>1, FreeKeeps, ResetTyped DEF ReadDenied, TypeOK
  <2>2. CASE ~(flights[t] = {} /\ stored = NoPair)
    <3>. DEFINE x == [calls[t][s] EXCEPT !.pc = "waiting"]
    <3>1. calls[t][s] \in Call
      BY <1>1, CallTyped DEF ReadDenied
    <3>2. x \in Call /\ x.pc = "waiting"
      BY <3>1 DEF Call
    <3>3. /\ calls' = [calls EXCEPT ![t][s] = x] /\ calls[t][s].pc # "waiting"
          /\ RefreshOnce(t, s) /\ UNCHANGED <<sessions, stored, tabs, faults>>
      BY <1>1, <2>2 DEF ReadDenied, Answer, TypeOK
    <3>. HIDE DEF x
    <3>. QED
      BY <2>2, <3>2, <3>3, RefreshOnceStep DEF TypeOK
  <2>. QED
    BY <2>1, <2>2
<1>2. ASSUME NEW s \in Slot, ReadError(t, s)
      PROVE  SessionInv'
  BY <1>2, FreeKeeps, ResetTyped, AfterErrorTyped DEF ReadError, TypeOK
<1>3. ASSUME NEW s \in Slot, ReadMe(t, s)
      PROVE  SessionInv'
  <2>1. calls[t][s].pair \in Pair
    BY <1>3 DEF ReadMe, AnsweredInv
  <2>2. sessions[calls[t][s].pair].user \in User \cup {Nobody}
    BY <2>1 DEF TypeOK, SessionRow
  <2>3. tabs' \in [Tab -> Memory]
    BY <1>3, <2>2 DEF ReadMe, TypeOK, Memory
  <2>. QED
    BY <1>3, <2>3, FreeKeeps DEF ReadMe, TypeOK
<1>4. CASE ReadLogin(t)
  <2>1. "auth" \in Slot /\ calls[t]["auth"].pair \in Pair
    BY <1>4 DEF ReadLogin, AnsweredInv, Slot
  <2>. DEFINE x == Send("me", calls[t]["auth"].pair, Nobody)
  <2>2. x \in Call /\ x.pc = "sent"
    BY <2>1, SendTyped DEF Op, Authorised, Send
  <2>3. calls' = [calls EXCEPT ![t]["auth"] = x] /\ UNCHANGED <<sessions, flights, faults>>
        /\ calls[t]["auth"].pc # "waiting"
    BY <1>4 DEF ReadLogin, Put
  <2>4. stored' \in Pair \cup {NoPair} /\ tabs' \in [Tab -> Memory]
    BY <1>4, <2>1, SetTokensTyped DEF ReadLogin
  <2>. HIDE DEF x
  <2>. QED
    BY <2>1, <2>2, <2>3, <2>4, SlotStep DEF TypeOK
<1>5. CASE ReadData(t)
  BY <1>5, FreeKeeps DEF ReadData, TypeOK, Slot
<1>6. ASSUME NEW s \in {"auth", "data"}, ReadLogout(t, s)
      PROVE  SessionInv'
  BY <1>6, FreeKeeps, ResetTyped DEF ReadLogout, TypeOK, Slot
<1>7. CASE ReadPassword(t)
  BY <1>7, LogoutKeeps DEF ReadPassword, Slot
<1>. QED
  BY <1>1, <1>2, <1>3, <1>4, <1>5, <1>6, <1>7, ReadRefreshKeeps DEF TabStep

-----------------------------------------------------------------------------
LEMMA InitEstablishes == Init => SessionInv
<1>. SUFFICES ASSUME Init PROVE SessionInv
  OBVIOUS
<1>1. TypeOK
  <2>1. Blank \in SessionRow
    BY DEF Blank, SessionRow
  <2>2. [access |-> NoPair, user |-> Nobody, status |-> "closed"] \in Memory
    BY DEF Memory
  <2>. QED
    BY <2>1, <2>2 DEF Init, TypeOK
<1>2. WaitingIsServed /\ OneFlight /\ AnsweredInv
  BY DEF Init, WaitingIsServed, OneFlight, AnsweredInv, Idle
<1>. QED
  BY <1>1, <1>2 DEF SessionInv

LEMMA NextKeeps == SessionInv /\ [Next]_vars => SessionInv'
<1>. SUFFICES ASSUME SessionInv, [Next]_vars PROVE SessionInv'
  OBVIOUS
<1>1. ASSUME NEW k \in Pair, Expire(k)
      PROVE  SessionInv'
  <2>1. sessions' \in [Pair -> SessionRow]
    BY <1>1 DEF Expire, SessionInv, TypeOK, SessionRow
  <2>2. faults' \in Nat
    BY <1>1, FaultTyped DEF Expire, SessionInv
  <2>. QED
    BY <1>1, <2>1, <2>2 DEF Expire, SessionInv, TypeOK, WaitingIsServed, OneFlight, AnsweredInv
<1>2. ASSUME NEW u \in User, EndedElsewhere(u)
      PROVE  SessionInv'
  BY <1>2, EndTyped
     DEF EndedElsewhere, SessionInv, TypeOK, WaitingIsServed, OneFlight, AnsweredInv
<1>3. CASE UNCHANGED vars
  BY <1>3 DEF vars, SessionInv, TypeOK, WaitingIsServed, OneFlight, AnsweredInv
<1>. QED
  BY <1>1, <1>2, <1>3, UserKeeps, ServerKeeps, TabKeeps, FaultKeeps DEF Next

LEMMA SessionInvAlways == Spec => []SessionInv
BY InitEstablishes, NextKeeps, PTL DEF Spec

\* Type correctness: every state of the tabs, of their calls and refreshes and of
\* the server's token pairs is one that client.ts and AuthProvider.tsx provide for.
THEOREM TypeCorrect == Spec => []TypeOK
<1>1. SessionInv => TypeOK
  BY DEF SessionInv
<1>. QED
  BY <1>1, SessionInvAlways, PTL

\* No call of a tab waits for a refresh that is not there, and none that a
\* refresh will wake has stopped waiting, whatever fails (refreshOnce of
\* client.ts and its callers).
THEOREM WaitingIsServedAlways == Spec => []WaitingIsServed
<1>1. SessionInv => WaitingIsServed
  BY DEF SessionInv
<1>. QED
  BY <1>1, SessionInvAlways, PTL
-----------------------------------------------------------------------------
(* A tab that is alone, as long as nothing goes wrong.  Both properties of   *)
(* such a tab rest on an account of the token pairs that it keeps: what it   *)
(* has in its memory, in the storage, and in the refreshes in flight.        *)

\* No mishap yet, and no tab is open but t.
Sole(t) == faults = 0 /\ \A u \in Tab : tabs[u].status # "closed" => u = t

\* A tab that was never opened has nothing.
ClosedInv ==
    \A t \in Tab : tabs[t].status = "closed" =>
        /\ tabs[t].access = NoPair /\ flights[t] = {}
        /\ \A s \in Slot : calls[t][s] = Idle

\* What the slots of a tab are doing goes with its status.
SlotsInv(t) ==
    LET auth   == calls[t]["auth"]
        data   == calls[t]["data"]
        load   == calls[t]["load"]
        status == tabs[t].status
    IN
    /\ auth.pc # "idle" => auth.op \in {"login", "me", "logout"}
    /\ auth.pc # "idle" /\ auth.op = "login" =>
        status = "signed-out" /\ auth.pc \in {"sent", "ok", "failed"}
    /\ auth.pc # "idle" /\ auth.op = "me" =>
        status = "signed-out" /\ auth.pair \in Pair
    /\ auth.pc # "idle" /\ auth.op = "logout" =>
        /\ auth.pair \in Pair /\ auth.pc \in {"sent", "ok"}
        /\ status \in {"signed-in", "signed-out"}
    /\ load.pc # "idle" <=> status = "loading"
    /\ load.pc # "idle" => load.op = "load"
    /\ status = "loading" => auth.pc = "idle" /\ data.pc = "idle"
    /\ data.pc # "idle" =>
        /\ data.op \in {"data", "password", "ensure", "logout"}
        /\ data.op = "logout" => data.pc \in {"sent", "ok"}
    /\ \A f \in flights[t] : /\ f.pc \in {"sent", "ok", "refused"}
                             /\ \E s \in Slot : s \in f.waiters

\* No pair that is spent is kept for use, and the pair of a login is no other.
SpentInv(t) ==
    LET auth == calls[t]["auth"] IN
    /\ flights[t] = {} /\ stored # NoPair => sessions[stored].state # "rotated"
    /\ \A f \in flights[t] :
        /\ f.pc = "sent" => sessions[f.pair].state # "rotated"
        /\ f.pc = "ok" => /\ f.new \in Pair
                          /\ sessions[f.new].state # "rotated"
                          /\ sessions[f.new].access \/ sessions[f.new].state # "live"
    /\ auth.pc = "ok" /\ auth.op = "login" =>
        /\ sessions[auth.pair].state # "rotated" /\ auth.pair # stored
        /\ \A f \in flights[t] : auth.pair # f.pair /\ auth.pair # f.new

\* What refresh f will show to the server, or has for the tab.
Carries(f, k) == (f.pc = "sent" /\ k = f.pair) \/ (f.pc = "ok" /\ k = f.new)

Keeps(t, k) ==
    k = tabs[t].access \/ k = stored \/ \E f \in flights[t] : Carries(f, k)

Works(k) == sessions[k].access \/ sessions[k].state = "live"

\* Whose a pair is that still works, in each phase of the tab: nobody's before
\* a login, the user's whom the tab shows or is asking for after it, and that
\* of the logout which is on its way.
Belongs(t, k) ==
    LET auth   == calls[t]["auth"]
        load   == calls[t]["load"]
        status == tabs[t].status
        owner  == sessions[k].user
        asks   == auth.pc # "idle" /\ auth.op = "me"
        leaves == auth.pc # "idle" /\ auth.op = "logout"
    IN
    /\ status # "closed"
    /\ status = "signed-out" => asks \/ leaves
    /\ status = "loading" =>
        /\ load.pc # "failed"
        /\ load.pair # NoPair => sessions[load.pair].user = owner
    /\ status = "signed-in" => tabs[t].user = owner
    /\ status \in {"loading", "signed-in"} \/ (asks /\ auth.pc # "waiting") =>
        stored # NoPair /\ sessions[stored].user = owner
    /\ asks => /\ sessions[auth.pair].user = owner /\ auth.pc # "failed"
               /\ auth.retried => auth.pc # "denied" /\ sessions[auth.pair].access
    /\ leaves => sessions[auth.pair].user = owner /\ auth.pc # "ok"

OwnerInv(t) == \A k \in Pair : Keeps(t, k) /\ Works(k) => Belongs(t, k)

LoneInv(t) == SlotsInv(t) /\ SpentInv(t) /\ OwnerInv(t)

SoleInv == ClosedInv /\ \A t \in Tab : Sole(t) => LoneInv(t)


-----------------------------------------------------------------------------
(* What a step does to the server's token pairs. *)

\* Every pair keeps its user, and none begins to work, or is spent.
Ages ==
    \A k \in Pair : /\ sessions'[k].user = sessions[k].user
                    /\ sessions'[k].access => sessions[k].access
                    /\ sessions'[k].state = "live" => sessions[k].state = "live"
                    /\ sessions'[k].state = "rotated" => sessions[k].state = "rotated"

LEMMA EndAges ==
  ASSUME TypeOK, NEW u, EndSessionsOf(u)
  PROVE  /\ Ages
         /\ \A k \in Pair : IF sessions[k].user = u
                            THEN ~sessions'[k].access /\ sessions'[k].state = "ended"
                            ELSE sessions'[k] = sessions[k]
<1>1. \A k \in Pair : /\ sessions[k] \in SessionRow
                      /\ sessions'[k] = IF sessions[k].user = u THEN Ended(sessions[k])
                                                               ELSE sessions[k]
  BY DEF TypeOK, EndSessionsOf
<1>2. \A k \in Pair : /\ Ended(sessions[k]).user = sessions[k].user
                      /\ Ended(sessions[k]).state = "ended"
                      /\ ~Ended(sessions[k]).access
  BY <1>1 DEF Ended, SessionRow
<1>. QED
  BY <1>1, <1>2 DEF Ages

LEMMA StaysAges == UNCHANGED sessions => Ages
BY DEF Ages

\* What a tab keeps to itself is its own: no step of a tab touches another.
LEMMA OwnTab ==
  ASSUME TypeOK, NEW t \in Tab, UserStep(t) \/ ServerStep(t) \/ TabStep(t)
  PROVE  \A u \in Tab \ {t} : /\ tabs'[u] = tabs[u] /\ calls'[u] = calls[u]
                              /\ flights'[u] = flights[u]
<1>. SUFFICES ASSUME NEW u \in Tab \ {t}
              PROVE  tabs'[u] = tabs[u] /\ calls'[u] = calls[u] /\ flights'[u] = flights[u]
  OBVIOUS
<1>0. /\ tabs \in [Tab -> Memory] /\ calls \in [Tab -> [Slot -> Call \cup {Idle}]]
      /\ flights \in [Tab -> SUBSET Flight]
  BY DEF TypeOK
<1>1. /\ \A s : Put(t, s, Idle) => calls'[u] = calls[u]
      /\ \A s, x : Put(t, s, x) => calls'[u] = calls[u]
      /\ \A s, pc : Answer(t, s, pc) => calls'[u] = calls[u]
      /\ \A s : RefreshOnce(t, s) => flights'[u] = flights[u]
      /\ Reset(t) => tabs'[u] = tabs[u]
      /\ \A k : SetTokens(t, k) => tabs'[u] = tabs[u]
      /\ \A ops : AfterError(t, ops) => tabs'[u] = tabs[u]
      /\ \A s : Logout(t, s) => tabs'[u] = tabs[u] /\ calls'[u] = calls[u]
  BY <1>0 DEF Put, Answer, RefreshOnce, Reset, SetTokens, AfterError, Logout
<1>2. CASE UserStep(t)
  BY <1>0, <1>1, <1>2 DEF UserStep, OpenTab, SubmitLogin, SignOut, ChangePassword, FetchData,
         EnsureFreshToken
<1>3. CASE ServerStep(t)
  BY <1>0, <1>1, <1>3 DEF ServerStep, AnswerLogin, AnswerRefresh, RefuseLogin, AnswerLogout,
         AnswerAuthorised
<1>4. CASE TabStep(t)
  BY <1>0, <1>1, <1>4 DEF TabStep, ReadDenied, ReadError, ReadMe, ReadRefresh, ReadLogin,
         ReadData, ReadLogout, ReadPassword
<1>. QED
  BY <1>2, <1>3, <1>4

\* Only a tab that is open acts, unless it opens; and none is closed again.
LEMMA ActorIsOpen ==
  ASSUME TypeOK, ClosedInv, NEW t \in Tab, UserStep(t) \/ ServerStep(t) \/ TabStep(t)
  PROVE  /\ tabs'[t].status # "closed"
         /\ faults' = 0 => faults = 0
<1>0. tabs \in [Tab -> Memory] /\ faults \in Nat
  BY DEF TypeOK
<1>1. /\ Reset(t) => tabs'[t].status # "closed"
      /\ \A k : SetTokens(t, k) => tabs'[t].status = tabs[t].status
      /\ \A ops : AfterError(t, ops) => tabs'[t].status \in {tabs[t].status, "signed-out"}
      /\ \A s : Logout(t, s) => tabs'[t].status \in {tabs[t].status, "signed-out"}
      /\ Fault => faults' # 0
  BY <1>0 DEF Reset, SetTokens, AfterError, Logout, SignedOut, Fault, Memory
<1>2. CASE OpenTab(t)
  BY <1>0, <1>1, <1>2 DEF OpenTab, SignedOut
<1>3. CASE UserStep(t) /\ ~OpenTab(t)
  BY <1>0, <1>1, <1>3 DEF UserStep, SubmitLogin, SignOut, ChangePassword, FetchData,
         EnsureFreshToken
<1>4. CASE ServerStep(t)
  <2>1. flights[t] # {} \/ \E s \in Slot : calls[t][s].pc = "sent"
    BY <1>4 DEF ServerStep, AnswerLogin, AnswerRefresh, RefuseLogin, AnswerLogout,
         AnswerAuthorised, Slot
  <2>2. tabs[t].status # "closed"
    BY <2>1 DEF ClosedInv, Idle
  <2>3. UNCHANGED <<tabs, faults>>
    BY <1>4 DEF ServerStep, AnswerLogin, AnswerRefresh, RefuseLogin, AnswerLogout,
         AnswerAuthorised
  <2>. QED
    BY <2>2, <2>3
<1>5. CASE TabStep(t)
  <2>1. flights[t] # {} \/ \E s \in Slot : calls[t][s].pc \in {"ok", "denied", "failed"}
    BY <1>5 DEF TabStep, ReadDenied, ReadError, ReadMe, ReadRefresh, ReadLogin, ReadData,
         ReadLogout, ReadPassword, Slot
  <2>2. tabs[t].status # "closed"
    BY <2>1 DEF ClosedInv, Idle
  <2>3. UNCHANGED faults
    BY <1>5 DEF TabStep, ReadDenied, ReadError, ReadMe, ReadRefresh, ReadLogin,
         ReadData, ReadLogout, ReadPassword
  <2>4. tabs'[t].status # "closed"
    <3>1. ASSUME NEW f \in flights[t], ReadRefresh(t, f)
          PROVE  tabs'[t].status # "closed"
      BY <1>0, <1>1, <2>2, <3>1 DEF ReadRefresh
    <3>2. ASSUME NEW s \in Slot, ReadMe(t, s)
          PROVE  tabs'[t].status # "closed"
      BY <1>0, <2>2, <3>2 DEF ReadMe, Memory
    <3>3. ASSUME NEW s \in Slot, ReadDenied(t, s) \/ ReadError(t, s)
          PROVE  tabs'[t].status # "closed"
      BY <1>1, <2>2, <3>3 DEF ReadDenied, ReadError
    <3>4. CASE ReadLogin(t) \/ ReadData(t) \/ ReadPassword(t)
               \/ \E s \in {"auth", "data"} : ReadLogout(t, s)
      BY <1>1, <2>2, <3>4 DEF ReadLogin, ReadData, ReadPassword, ReadLogout
    <3>. QED
      BY <1>5, <3>1, <3>2, <3>3, <3>4 DEF TabStep
  <2>. QED
    BY <2>3, <2>4
<1>. QED
  BY <1>2, <1>3, <1>4, <1>5

\* The slot that changes, and the slots that do not.
LEMMA PutGives ==
  ASSUME TypeOK, NEW t \in Tab, NEW s \in Slot, NEW x, Put(t, s, x)
  PROVE  \A r \in Slot : calls'[t][r] = IF r = s THEN x ELSE calls[t][r]
BY DEF TypeOK, Put

LEMMA AnswerGives ==
  ASSUME TypeOK, NEW t \in Tab, NEW s \in Slot, NEW pc, calls[t][s].pc # "idle", Answer(t, s, pc)
  PROVE  /\ \A r \in Slot \ {s} : calls'[t][r] = calls[t][r]
         /\ calls'[t][s].pc = pc /\ calls'[t][s].op = calls[t][s].op
         /\ calls'[t][s].pair = calls[t][s].pair /\ calls'[t][s].retried = calls[t][s].retried
<1>1. calls[t][s] \in Call
  BY CallTyped
<1>. QED
  BY <1>1 DEF TypeOK, Answer, Call

\* Every refresh of a tab is waited for by a call of its own.
LEMMA WaitersWait ==
  ASSUME SessionInv, NEW t \in Tab, LoneInv(t), flights[t] # {}
  PROVE  \E s \in Slot : calls[t][s].pc = "waiting"
BY DEF SessionInv, WaitingIsServed, LoneInv, SlotsInv

\* The names of the pairs are no pairs.
LEMMA PairNames == NoPair \notin Pair
BY NamesAssumption

\* When the tokens are cleared, a pair that still works is kept by no more than
\* a refresh that the sign-in waits for.
LEMMA LoneReset ==
  ASSUME SessionInv, NEW t \in Tab, LoneInv(t), Reset(t), UNCHANGED sessions,
         \A s \in Slot : calls'[t][s] = calls[t][s] \/ calls'[t][s] = Idle,
         calls'[t]["load"].pc = "idle", flights'[t] \subseteq flights[t],
         \A f \in flights'[t], k \in Pair :
            Works(k) /\ Carries(f, k) => calls'[t]["auth"].pc = "waiting"
  PROVE  LoneInv(t)'
<1>1. stored' = NoPair /\ tabs'[t].access = NoPair /\ tabs'[t].status = "signed-out"
  BY DEF SessionInv, TypeOK, Reset, SignedOut
<1>2. /\ calls'[t]["auth"] = calls[t]["auth"] \/ calls'[t]["auth"].pc = "idle"
      /\ calls'[t]["data"] = calls[t]["data"] \/ calls'[t]["data"].pc = "idle"
  BY DEF Slot, Idle
<1>3. SlotsInv(t)'
  BY <1>1, <1>2 DEF LoneInv, SlotsInv
<1>4. SpentInv(t)'
  <2>1. calls[t]["auth"].pc = "ok" /\ calls[t]["auth"].op = "login"
            => calls[t]["auth"].pair \in Pair
    BY DEF SessionInv, AnsweredInv, Slot
  <2>. QED
    BY <1>1, <1>2, <2>1, PairNames DEF LoneInv, SpentInv
<1>5. OwnerInv(t)'
  <2>. SUFFICES ASSUME NEW k \in Pair, Keeps(t, k)', Works(k)' PROVE Belongs(t, k)'
    BY DEF OwnerInv
  <2>1. Works(k) /\ Keeps(t, k) /\ \E f \in flights'[t] : Carries(f, k)
    BY <1>1, PairNames DEF Keeps, Works
  <2>2. calls'[t]["auth"].pc = "waiting" /\ calls'[t]["auth"] = calls[t]["auth"]
    BY <1>2, <2>1
  <2>3. calls[t]["auth"].op = "me"
    BY <2>2 DEF LoneInv, SlotsInv
  <2>4. Belongs(t, k)
    BY <2>1 DEF LoneInv, OwnerInv
  <2>. QED
    BY <1>1, <2>2, <2>3, <2>4 DEF Belongs
<1>. QED
  BY <1>3, <1>4, <1>5 DEF LoneInv

-----------------------------------------------------------------------------
(* The user of a tab that is alone. *)

LEMMA LoneOpenTab ==
  ASSUME SessionInv, NEW t \in Tab, LoneInv(t), OpenTab(t), faults' = 0
  PROVE  LoneInv(t)'
<1>0. /\ tabs \in [Tab -> Memory] /\ calls \in [Tab -> [Slot -> Call \cup {Idle}]]
      /\ flights \in [Tab -> SUBSET Flight] /\ faults \in Nat
  BY DEF SessionInv, TypeOK
<1>1. \A s \in Slot : calls[t][s].pc = "idle"
  BY <1>0 DEF OpenTab, Fault, Idle
<1>2. flights[t] = {}
  BY <1>1, WaitersWait
<1>3. /\ flights'[t] = {} /\ stored' = stored /\ sessions' = sessions
      /\ tabs'[t].access = NoPair
      /\ tabs'[t].status = IF stored = NoPair THEN "signed-out" ELSE "loading"
      /\ calls'[t]["auth"].pc = "idle" /\ calls'[t]["data"].pc = "idle"
      /\ IF stored = NoPair THEN calls'[t]["load"].pc = "idle"
         ELSE /\ calls'[t]["load"].pc = "sent" /\ calls'[t]["load"].op = "load"
              /\ calls'[t]["load"].pair = NoPair
  BY <1>0 DEF OpenTab, SignedOut, Slot, Idle, Send
<1>4. SlotsInv(t)'
  BY <1>3 DEF SlotsInv
<1>5. SpentInv(t)'
  BY <1>2, <1>3 DEF LoneInv, SpentInv
<1>6. OwnerInv(t)'
  <2>. SUFFICES ASSUME NEW k \in Pair, Keeps(t, k)', Works(k)' PROVE Belongs(t, k)'
    BY DEF OwnerInv
  <2>1. k = stored /\ Works(k) /\ Keeps(t, k)
    BY <1>3, PairNames DEF Keeps, Works
  <2>. QED
    BY <1>3, <2>1, PairNames DEF Belongs
<1>. QED
  BY <1>4, <1>5, <1>6 DEF LoneInv

LEMMA LoneSubmitLogin ==
  ASSUME SessionInv, NEW t \in Tab, LoneInv(t), NEW u \in User, SubmitLogin(t, u), faults' = 0
  PROVE  LoneInv(t)'
<1>1. /\ UNCHANGED <<sessions, stored, tabs, flights>> /\ tabs[t].status = "signed-out"
      /\ calls[t]["auth"].pc = "idle"
  BY DEF SubmitLogin, Fault, SessionInv, TypeOK, Idle
<1>2. /\ calls'[t]["auth"].pc = "sent" /\ calls'[t]["auth"].op = "login"
      /\ calls'[t]["data"] = calls[t]["data"] /\ calls'[t]["load"] = calls[t]["load"]
  BY PutGives DEF SubmitLogin, Send, SessionInv, Slot
<1>3. SlotsInv(t)'
  BY <1>1, <1>2 DEF LoneInv, SlotsInv
<1>4. SpentInv(t)'
  BY <1>1, <1>2 DEF LoneInv, SpentInv
<1>5. OwnerInv(t)'
  BY <1>1 DEF LoneInv, OwnerInv, Keeps, Works, Belongs
<1>. QED
  BY <1>3, <1>4, <1>5 DEF LoneInv

\* A slot that does not wait gets free or is used for a sign-out.
LEMMA LoneLogout ==
  ASSUME SessionInv, NEW t \in Tab, LoneInv(t), NEW s \in {"auth", "data"}, Logout(t, s),
         UNCHANGED <<sessions, flights>>,
         \/ s = "auth" /\ calls[t][s].pc = "idle" /\ tabs[t].status = "signed-in"
         \/ s = "data" /\ calls[t][s].pc = "ok"
  PROVE  LoneInv(t)'
<1>0. s \in Slot /\ tabs[t].status # "loading" /\ calls[t]["load"].pc = "idle"
  BY DEF Slot, LoneInv, SlotsInv
<1>1. CASE stored = NoPair
  <2>1. Reset(t) /\ \A r \in Slot : calls'[t][r] = IF r = s THEN Idle ELSE calls[t][r]
    BY <1>0, <1>1, PutGives DEF Logout, SessionInv
  <2>2. ASSUME NEW f \in flights[t], NEW k \in Pair, Works(k), Carries(f, k)
        PROVE  calls'[t]["auth"].pc = "waiting"
    <3>1. Belongs(t, k)
      BY <2>2 DEF LoneInv, OwnerInv, Keeps
    <3>2. PICK r \in Slot : calls[t][r].pc = "waiting"
      BY WaitersWait
    <3>. QED
      BY <1>0, <1>1, <2>1, <3>1, <3>2 DEF Belongs, Slot
  <2>. QED
    BY <1>0, <2>1, <2>2, LoneReset DEF Slot
<1>2. CASE stored # NoPair
  <2>1. /\ \A r \in Slot \ {s} : calls'[t][r] = calls[t][r]
        /\ calls'[t][s].pc = "sent" /\ calls'[t][s].op = "logout" /\ calls'[t][s].pair = stored
        /\ UNCHANGED <<stored, tabs>>
    <3>1. Put(t, s, Send("logout", stored, Nobody)) /\ UNCHANGED <<stored, tabs>>
      BY <1>2 DEF Logout
    <3>2. \A r \in Slot : calls'[t][r] = IF r = s THEN Send("logout", stored, Nobody)
                                                 ELSE calls[t][r]
      BY <1>0, <3>1, PutGives DEF SessionInv
    <3>. QED
      BY <1>0, <3>1, <3>2 DEF Send
  <2>2. stored \in Pair
    BY <1>2 DEF SessionInv, TypeOK
  <2>3. SlotsInv(t)'
    BY <1>0, <2>1, <2>2 DEF LoneInv, SlotsInv, Slot
  <2>4. SpentInv(t)'
    BY <2>1 DEF LoneInv, SpentInv, Slot
  <2>5. OwnerInv(t)'
    BY <1>0, <2>1 DEF LoneInv, OwnerInv, Keeps, Works, Belongs, Slot
  <2>. QED
    BY <2>3, <2>4, <2>5 DEF LoneInv
<1>. QED
  BY <1>1, <1>2

\* The refresh that a call begins to wait for: a new one, or the one in flight.
LEMMA RefreshOnceGives ==
  ASSUME SessionInv, NEW t \in Tab, NEW s \in Slot, RefreshOnce(t, s)
  PROVE  \E g : /\ flights'[t] = {g} /\ s \in g.waiters
                /\ \/ /\ flights[t] = {} /\ g.pc = "sent" /\ g.pair = stored
                      /\ g.new = NoPair
                   \/ \E f \in flights[t] : g.pc = f.pc /\ g.pair = f.pair /\ g.new = f.new
<1>0. flights \in [Tab -> SUBSET Flight]
  BY DEF SessionInv, TypeOK
<1>1. CASE flights[t] = {}
  <2>. DEFINE g == [pc |-> "sent", pair |-> stored, new |-> NoPair, waiters |-> {s}]
  <2>1. flights'[t] = {g}
    BY <1>0, <1>1 DEF RefreshOnce
  <2>2. g.pc = "sent" /\ g.pair = stored /\ g.new = NoPair /\ s \in g.waiters
    OBVIOUS
  <2>. HIDE DEF g
  <2>. QED
    BY <1>1, <2>1, <2>2
<1>2. CASE flights[t] # {}
  <2>1. PICK f \in flights[t] : flights[t] = {f}
    BY <1>2 DEF SessionInv, OneFlight
  <2>. DEFINE g == [f EXCEPT !.waiters = @ \cup {s}]
  <2>2. f \in Flight
    BY <1>0
  <2>3. g.pc = f.pc /\ g.pair = f.pair /\ g.new = f.new /\ s \in g.waiters
    BY <2>2 DEF Flight
  <2>4. flights'[t] = {g}
    BY <1>0, <1>2, <2>1 DEF RefreshOnce
  <2>. QED
    BY <2>3, <2>4
<1>. QED
  BY <1>1, <1>2

LEMMA LoneWait ==
  ASSUME SessionInv, NEW t \in Tab, LoneInv(t), NEW s \in Slot, RefreshOnce(t, s),
         ~(flights[t] = {} /\ stored = NoPair), UNCHANGED <<sessions, stored, tabs>>,
         \A r \in Slot \ {s} : calls'[t][r] = calls[t][r],
         calls'[t][s].pc = "waiting",
         \/ /\ calls[t][s].pc = "denied" /\ ~calls[t][s].retried
            /\ calls'[t][s].op = calls[t][s].op /\ calls'[t][s].pair = calls[t][s].pair
            /\ calls'[t][s].retried = calls[t][s].retried
         \/ s = "data" /\ tabs[t].status = "signed-in" /\ calls'[t][s].op = "ensure"
  PROVE  LoneInv(t)'
<1>1. PICK g : /\ flights'[t] = {g} /\ s \in g.waiters
               /\ \/ /\ flights[t] = {} /\ g.pc = "sent" /\ g.pair = stored
                     /\ g.new = NoPair
                  \/ \E f \in flights[t] : g.pc = f.pc /\ g.pair = f.pair /\ g.new = f.new
  BY RefreshOnceGives
<1>2. CASE s = "auth"
  <2>1. /\ calls[t]["auth"].op = "me" /\ calls'[t]["auth"].op = "me" /\ calls'[t]["auth"].pc = "waiting"
        /\ calls'[t]["auth"].pair = calls[t]["auth"].pair
        /\ ~calls'[t]["auth"].retried /\ calls[t]["auth"].pc = "denied"
        /\ calls'[t]["load"] = calls[t]["load"] /\ calls'[t]["data"] = calls[t]["data"]
    BY <1>2 DEF LoneInv, SlotsInv, Slot
  <2>2. SlotsInv(t)'
    BY <1>1, <2>1 DEF LoneInv, SlotsInv
  <2>3. SpentInv(t)'
    BY <1>1, <2>1 DEF LoneInv, SpentInv
  <2>4. OwnerInv(t)'
    BY <1>1, <2>1 DEF LoneInv, OwnerInv, Keeps, Carries, Works, Belongs
  <2>. QED
    BY <2>2, <2>3, <2>4 DEF LoneInv
<1>3. CASE s # "auth"
  <2>1. calls'[t]["auth"] = calls[t]["auth"]
    BY <1>3 DEF Slot
  <2>2. SlotsInv(t)'
    BY <1>1, <1>3, <2>1 DEF LoneInv, SlotsInv, Slot
  <2>3. SpentInv(t)'
    <3>1. calls[t]["auth"].pc = "ok" /\ calls[t]["auth"].op = "login"
              => calls[t]["auth"].pair \in Pair
      BY DEF SessionInv, AnsweredInv, Slot
    <3>. QED
      BY <1>1, <2>1, <3>1, PairNames DEF LoneInv, SpentInv
  <2>4. OwnerInv(t)'
    <3>1. tabs[t].status = "loading" =>
              /\ calls'[t]["load"].pair = calls[t]["load"].pair
              /\ calls'[t]["load"].pc = "waiting" \/ calls'[t]["load"] = calls[t]["load"]
      BY <1>3 DEF LoneInv, SlotsInv, Slot
    <3>. QED
      BY <1>1, <2>1, <3>1 DEF LoneInv, OwnerInv, Keeps, Carries, Works, Belongs
  <2>. QED
    BY <2>2, <2>3, <2>4 DEF LoneInv
<1>. QED
  BY <1>2, <1>3

LEMMA LoneUser ==
  ASSUME SessionInv, NEW t \in Tab, LoneInv(t), UserStep(t), faults' = 0
  PROVE  LoneInv(t)'
<1>0. "auth" \in Slot /\ "data" \in Slot /\ TypeOK
  BY DEF Slot, SessionInv
<1>1. CASE SignOut(t)
  BY <1>1, LoneLogout DEF SignOut, Idle
<1>2. CASE ChangePassword(t) \/ FetchData(t)
  <2>1. /\ UNCHANGED <<sessions, stored, tabs, flights>> /\ tabs[t].status = "signed-in"
        /\ \E op \in {"password", "data"} : \E as : Put(t, "data", Send(op, tabs[t].access, as))
    BY <1>2 DEF ChangePassword, FetchData
  <2>2. /\ calls'[t]["auth"] = calls[t]["auth"] /\ calls'[t]["load"] = calls[t]["load"]
        /\ calls'[t]["data"].pc = "sent" /\ calls'[t]["data"].op \in {"password", "data"}
    <3>0. PICK op \in {"password", "data"} : \E as : Put(t, "data", Send(op, tabs[t].access, as))
      BY <2>1
    <3>1. PICK as : Put(t, "data", Send(op, tabs[t].access, as))
      BY <3>0
    <3>. DEFINE x == Send(op, tabs[t].access, as)
    <3>2. x.pc = "sent" /\ x.op \in {"password", "data"}
      BY <3>0 DEF Send
    <3>3. Put(t, "data", x)
      BY <3>1
    <3>. HIDE DEF x
    <3>4. \A r \in Slot : calls'[t][r] = IF r = "data" THEN x ELSE calls[t][r]
      BY <1>0, <3>3, PutGives
    <3>. QED
      BY <3>2, <3>4 DEF Slot
  <2>3. SlotsInv(t)'
    BY <2>1, <2>2 DEF LoneInv, SlotsInv
  <2>4. SpentInv(t)'
    BY <2>1, <2>2 DEF LoneInv, SpentInv
  <2>5. OwnerInv(t)'
    BY <2>1, <2>2 DEF LoneInv, OwnerInv, Keeps, Works, Belongs
  <2>. QED
    BY <2>3, <2>4, <2>5 DEF LoneInv
<1>3. CASE EnsureFreshToken(t)
  <2>1. CASE flights[t] = {} /\ stored = NoPair
    <3>1. calls[t]["load"].pc = "idle"
      BY <1>3 DEF EnsureFreshToken, LoneInv, SlotsInv
    <3>. QED
      BY <1>3, <2>1, <3>1, LoneReset DEF EnsureFreshToken
  <2>2. CASE ~(flights[t] = {} /\ stored = NoPair)
    <3>. DEFINE x == [Send("ensure", NoPair, Nobody) EXCEPT !.pc = "waiting"]
    <3>1. Put(t, "data", x) /\ RefreshOnce(t, "data") /\ UNCHANGED <<sessions, stored, tabs>>
          /\ tabs[t].status = "signed-in"
      BY <1>3, <2>2 DEF EnsureFreshToken
    <3>2. x.pc = "waiting" /\ x.op = "ensure"
      BY DEF Send
    <3>. HIDE DEF x
    <3>3. \A r \in Slot : calls'[t][r] = IF r = "data" THEN x ELSE calls[t][r]
      BY <1>0, <3>1, PutGives
    <3>. QED
      BY <1>0, <2>2, <3>1, <3>2, <3>3, LoneWait
  <2>. QED
    BY <2>1, <2>2
<1>. QED
  BY <1>1, <1>2, <1>3, LoneOpenTab, LoneSubmitLogin DEF UserStep

-----------------------------------------------------------------------------
(* The server of a tab that is alone. *)

\* Where the tab's own state stays, it is enough that no pair begins to work or
\* is spent, and that the tokens just issued still work.
LEMMA LoneAges ==
  ASSUME SessionInv, NEW t \in Tab, LoneInv(t), Ages, UNCHANGED <<stored, tabs>>,
         calls'[t] = calls[t], flights'[t] = flights[t],
         \A f \in flights[t] : f.pc = "ok" => \/ sessions'[f.new].access = sessions[f.new].access
                                              \/ sessions'[f.new].state # "live",
         \A k \in Pair : Keeps(t, k) /\ Works(k)' /\ calls[t]["auth"].pc # "idle"
                            /\ calls[t]["auth"].op = "me" /\ calls[t]["auth"].retried =>
            sessions'[calls[t]["auth"].pair].access = sessions[calls[t]["auth"].pair].access
  PROVE  LoneInv(t)'
<1>0. TypeOK /\ stored \in Pair \cup {NoPair} /\ \A f \in flights[t] : f.pair \in Pair
  BY DEF SessionInv, TypeOK, Flight
<1>1. SlotsInv(t)'
  BY DEF LoneInv, SlotsInv
<1>2. SpentInv(t)'
  <2>1. calls[t]["auth"].pc = "ok" /\ calls[t]["auth"].op = "login" =>
            calls[t]["auth"].pair \in Pair
    BY DEF SessionInv, AnsweredInv, Slot
  <2>2. \A f \in flights[t] : f.pc = "ok" =>
            /\ f.new \in Pair /\ sessions[f.new].state # "rotated"
            /\ sessions[f.new].access \/ sessions[f.new].state # "live"
    BY DEF LoneInv, SpentInv
  <2>3. \A f \in flights[t] : f.pc = "ok" =>
            /\ sessions'[f.new].state # "rotated"
            /\ sessions'[f.new].access \/ sessions'[f.new].state # "live"
    BY <2>2 DEF Ages
  <2>. QED
    BY <1>0, <2>1, <2>2, <2>3 DEF LoneInv, SpentInv, Ages
<1>3. OwnerInv(t)'
  <2>. SUFFICES ASSUME NEW k \in Pair, Keeps(t, k)', Works(k)' PROVE Belongs(t, k)'
    BY DEF OwnerInv
  <2>1. Keeps(t, k) /\ Works(k)
    BY DEF Keeps, Carries, Works, Ages
  <2>2. Belongs(t, k) /\ SlotsInv(t)
    BY <2>1 DEF LoneInv, OwnerInv
  <2>3. tabs[t].status = "loading" => calls[t]["load"].pair \in Pair \cup {NoPair}
    BY <1>0, <2>2, CallTyped DEF SlotsInv, Slot, Call
  <2>4. /\ calls[t]["auth"].pc # "idle" /\ calls[t]["auth"].op = "me" => calls[t]["auth"].pair \in Pair
        /\ calls[t]["auth"].pc # "idle" /\ calls[t]["auth"].op = "logout" => calls[t]["auth"].pair \in Pair
    BY <2>2 DEF SlotsInv
  <2>. QED
    BY <1>0, <2>1, <2>2, <2>3, <2>4 DEF Belongs, Ages
<1>. QED
  BY <1>1, <1>2, <1>3 DEF LoneInv

LEMMA LoneAnswerLogin ==
  ASSUME SessionInv, NEW t \in Tab, LoneInv(t), NEW new \in Pair, AnswerLogin(t, new)
  PROVE  LoneInv(t)'
<1>1. /\ calls[t]["auth"].pc = "sent" /\ calls[t]["auth"].op = "login"
      /\ UNCHANGED <<stored, tabs, flights>> /\ Unheard(new)
      /\ sessions' = Issued(new, calls[t]["auth"].as, NoPair)
  BY DEF AnswerLogin, Unused
<1>2. calls[t]["auth"] \in Call /\ "auth" \in Slot
  BY <1>1, CallTyped DEF SessionInv, Slot
<1>3. /\ calls'[t]["auth"].pc = "ok" /\ calls'[t]["auth"].op = "login"
      /\ calls'[t]["auth"].pair = new
      /\ calls'[t]["data"] = calls[t]["data"] /\ calls'[t]["load"] = calls[t]["load"]
  BY <1>2 DEF AnswerLogin, SessionInv, TypeOK, Call, Slot
<1>4. /\ stored # new /\ tabs[t].access # new
      /\ \A f \in flights[t] : f.pair # new /\ f.new # new
  BY <1>1 DEF Unheard
<1>5. /\ \A k \in Pair \ {new} : sessions'[k] = sessions[k]
      /\ sessions'[new].state = "live"
  BY <1>1, PairNames DEF Issued
<1>6. stored \in Pair \cup {NoPair} /\ \A f \in flights[t] : f.pair \in Pair
  BY DEF SessionInv, TypeOK, Flight
<1>7. SlotsInv(t)'
  BY <1>1, <1>3 DEF LoneInv, SlotsInv
<1>8. SpentInv(t)'
  BY <1>1, <1>3, <1>4, <1>5, <1>6 DEF LoneInv, SpentInv
<1>9. OwnerInv(t)'
  <2>. SUFFICES ASSUME NEW k \in Pair, Keeps(t, k)', Works(k)' PROVE FALSE
    BY DEF OwnerInv
  <2>1. Keeps(t, k) /\ k # new
    BY <1>1, <1>4 DEF Keeps, Carries
  <2>2. Works(k)
    BY <1>5, <2>1 DEF Works
  <2>. QED
    BY <1>1, <2>1, <2>2 DEF LoneInv, OwnerInv, SlotsInv, Belongs
<1>. QED
  BY <1>7, <1>8, <1>9 DEF LoneInv

LEMMA LoneAnswerLogout ==
  ASSUME SessionInv, NEW t \in Tab, LoneInv(t), NEW s \in Slot, AnswerLogout(t, s)
  PROVE  LoneInv(t)'
<1>0. TypeOK /\ stored \in Pair \cup {NoPair} /\ \A f \in flights[t] : f.pair \in Pair
  BY DEF SessionInv, TypeOK, Flight
<1>. DEFINE u == sessions[calls[t][s].pair].user
<1>1. /\ calls[t][s].pc = "sent" /\ calls[t][s].op = "logout"
      /\ UNCHANGED <<stored, tabs, flights>> /\ EndSessionsOf(u)
      /\ Answer(t, s, "ok")
  BY DEF AnswerLogout
<1>2. /\ \A r \in Slot \ {s} : calls'[t][r] = calls[t][r]
      /\ calls'[t][s].pc = "ok" /\ calls'[t][s].op = "logout"
      /\ calls'[t][s].pair = calls[t][s].pair
  BY <1>0, <1>1, AnswerGives
<1>3. s # "load" /\ s \in {"auth", "data"}
  BY <1>1 DEF LoneInv, SlotsInv, Slot
<1>4. /\ Ages
      /\ \A k \in Pair : IF sessions[k].user = u
                         THEN ~sessions'[k].access /\ sessions'[k].state = "ended"
                         ELSE sessions'[k] = sessions[k]
  BY <1>0, <1>1, EndAges
<1>. HIDE DEF u
<1>5. SlotsInv(t)'
  BY <1>1, <1>2, <1>3 DEF LoneInv, SlotsInv, Slot
<1>6. SpentInv(t)'
  <2>1. calls[t]["auth"].pc = "ok" /\ calls[t]["auth"].op = "login" =>
            calls[t]["auth"].pair \in Pair
    BY DEF SessionInv, AnsweredInv, Slot
  <2>2. \A f \in flights[t] : f.pc = "ok" =>
            /\ f.new \in Pair /\ sessions'[f.new].state # "rotated"
            /\ sessions'[f.new].access \/ sessions'[f.new].state # "live"
    BY <1>4 DEF LoneInv, SpentInv, Ages
  <2>3. calls'[t]["auth"].pc = "ok" /\ calls'[t]["auth"].op = "login" =>
            calls[t]["auth"] = calls'[t]["auth"]
    BY <1>2, <1>3 DEF Slot
  <2>. QED
    BY <1>0, <1>1, <1>4, <2>1, <2>2, <2>3 DEF LoneInv, SpentInv, Ages
<1>7. OwnerInv(t)'
  <2>. SUFFICES ASSUME NEW k \in Pair, Keeps(t, k)', Works(k)' PROVE Belongs(t, k)'
    BY DEF OwnerInv
  <2>1. Keeps(t, k) /\ Works(k) /\ sessions[k].user # u
    BY <1>1, <1>4 DEF Keeps, Carries, Works, Ages
  <2>2. Belongs(t, k) /\ SlotsInv(t)
    BY <2>1 DEF LoneInv, OwnerInv
  <2>3. s = "data"
    BY <1>1, <1>3, <2>1, <2>2 DEF Belongs, u
  <2>4. calls'[t]["auth"] = calls[t]["auth"] /\ calls'[t]["load"] = calls[t]["load"]
    BY <1>2, <2>3 DEF Slot
  <2>5. tabs[t].status = "loading" => calls[t]["load"].pair \in Pair \cup {NoPair}
    BY <1>0, <2>2, CallTyped DEF SlotsInv, Slot, Call
  <2>6. /\ calls[t]["auth"].pc # "idle" /\ calls[t]["auth"].op = "me" => calls[t]["auth"].pair \in Pair
        /\ calls[t]["auth"].pc # "idle" /\ calls[t]["auth"].op = "logout" => calls[t]["auth"].pair \in Pair
    BY <2>2 DEF SlotsInv
  <2>. QED
    BY <1>0, <1>1, <1>4, <2>1, <2>2, <2>4, <2>5, <2>6 DEF Belongs, Ages
<1>. QED
  BY <1>5, <1>6, <1>7 DEF LoneInv

LEMMA LoneAnswerAuthorised ==
  ASSUME SessionInv, NEW t \in Tab, LoneInv(t), NEW s \in Slot, AnswerAuthorised(t, s)
  PROVE  LoneInv(t)'
<1>0. TypeOK /\ stored \in Pair \cup {NoPair} /\ \A f \in flights[t] : f.pair \in Pair
  BY DEF SessionInv, TypeOK, Flight
<1>. DEFINE c == calls[t][s]
<1>1. /\ c.pc = "sent" /\ c.op \in Authorised /\ UNCHANGED <<stored, tabs, flights>>
      /\ \E pc \in {"ok", "denied", "failed"} :
            /\ Answer(t, s, pc)
            /\ pc = "denied" /\ c.op # "password" => ~Accepted(c.pair)
            /\ pc = "failed" => c.pair # NoPair /\ MayBeDisabled(sessions[c.pair].user)
      /\ sessions' = sessions \/ (c.op = "password" /\ EndSessionsOf(sessions[c.pair].user))
  BY DEF AnswerAuthorised
<1>2. PICK pc \in {"ok", "denied", "failed"} :
            /\ Answer(t, s, pc)
            /\ pc = "denied" /\ c.op # "password" => ~Accepted(c.pair)
            /\ pc = "failed" => c.pair # NoPair /\ MayBeDisabled(sessions[c.pair].user)
  BY <1>1
<1>3. /\ \A r \in Slot \ {s} : calls'[t][r] = calls[t][r]
      /\ calls'[t][s].pc = pc /\ calls'[t][s].op = c.op
      /\ calls'[t][s].pair = c.pair /\ calls'[t][s].retried = c.retried
  BY <1>0, <1>1, <1>2, AnswerGives
<1>4. /\ s = "auth" => c.op = "me"
      /\ s = "load" => c.op = "load"
      /\ s = "data" => c.op \in {"data", "password"}
  BY <1>1 DEF LoneInv, SlotsInv, Authorised, Slot
<1>5. /\ Ages
      /\ \A k \in Pair : Works(k)' => sessions'[k] = sessions[k]
      /\ \A k, j \in Pair : Works(k)' /\ sessions[j].user = sessions[k].user => sessions'[j] = sessions[j]
  <2>1. CASE sessions' = sessions
    BY <2>1 DEF Ages
  <2>2. CASE EndSessionsOf(sessions[c.pair].user)
    BY <1>0, <2>2, EndAges DEF Works
  <2>. QED
    BY <1>1, <2>1, <2>2
<1>6. SlotsInv(t)'
  <2>1. CASE s = "auth"
    BY <1>1, <1>2, <1>3, <1>4, <2>1 DEF LoneInv, SlotsInv, Slot
  <2>2. CASE s = "data"
    BY <1>1, <1>2, <1>3, <1>4, <2>2 DEF LoneInv, SlotsInv, Slot
  <2>3. CASE s = "load"
    BY <1>1, <1>2, <1>3, <1>4, <2>3 DEF LoneInv, SlotsInv, Slot
  <2>. QED
    BY <2>1, <2>2, <2>3 DEF Slot
<1>7. SpentInv(t)'
  <2>1. calls[t]["auth"].pc = "ok" /\ calls[t]["auth"].op = "login" =>
            calls[t]["auth"].pair \in Pair
    BY DEF SessionInv, AnsweredInv, Slot
  <2>2. \A f \in flights[t] : f.pc = "ok" =>
            /\ f.new \in Pair /\ sessions'[f.new].state # "rotated"
            /\ sessions'[f.new].access \/ sessions'[f.new].state # "live"
    BY <1>5 DEF LoneInv, SpentInv, Ages, Works
  <2>3. calls'[t]["auth"].pc = "ok" /\ calls'[t]["auth"].op = "login" =>
            calls[t]["auth"] = calls'[t]["auth"]
    BY <1>3, <1>4 DEF Slot
  <2>. QED
    BY <1>0, <1>1, <1>5, <2>1, <2>2, <2>3 DEF LoneInv, SpentInv, Ages
<1>8. OwnerInv(t)'
  <2>. SUFFICES ASSUME NEW k \in Pair, Keeps(t, k)', Works(k)' PROVE Belongs(t, k)'
    BY DEF OwnerInv
  <2>1. Keeps(t, k) /\ Works(k)
    BY <1>1, <1>5 DEF Keeps, Carries, Works, Ages
  <2>2. Belongs(t, k) /\ SlotsInv(t)
    BY <2>1 DEF LoneInv, OwnerInv
  <2>3. tabs[t].status = "loading" => calls[t]["load"].pair \in Pair \cup {NoPair}
    BY <1>0, <2>2, CallTyped DEF SlotsInv, Slot, Call
  <2>4. calls[t]["auth"].pc # "idle" /\ calls[t]["auth"].op \in {"me", "logout"} =>
            calls[t]["auth"].pair \in Pair
    BY <2>2 DEF SlotsInv
  <2>5. s \in {"auth", "load"} => pc # "failed"
    <3>. SUFFICES ASSUME s \in {"auth", "load"}, pc = "failed" PROVE FALSE
      OBVIOUS
    <3>1. c.pair # NoPair /\ MayBeDisabled(sessions[c.pair].user)
      BY <1>2
    <3>2. sessions[c.pair].user = sessions[k].user
      BY <1>1, <1>4, <2>2, <3>1 DEF Belongs, SlotsInv
    <3>3. sessions[k] = Ended(sessions[k])
      BY <3>1, <3>2 DEF MayBeDisabled
    <3>4. sessions[k].state = "ended" /\ sessions[k].access = FALSE
      <4>1. PICK row \in SessionRow : row = sessions[k]
        BY <1>0 DEF TypeOK
      <4>2. Ended(row).state = "ended" /\ Ended(row).access = FALSE
        BY DEF Ended, SessionRow
      <4>. QED
        BY <3>3, <4>1, <4>2
    <3>. QED
      BY <2>1, <3>4 DEF Works
  <2>6. CASE s = "auth"
    <3>1. /\ calls'[t]["auth"].pc = pc /\ calls'[t]["auth"].op = "me" /\ calls[t]["auth"].op = "me"
          /\ calls'[t]["auth"].pair = calls[t]["auth"].pair /\ calls[t]["auth"].pc = "sent"
          /\ calls'[t]["auth"].retried = calls[t]["auth"].retried /\ sessions' = sessions
          /\ calls'[t]["load"] = calls[t]["load"] /\ calls[t]["auth"].pair \in Pair
      BY <1>1, <1>3, <1>4, <2>4, <2>6 DEF Slot
    <3>2. calls[t]["auth"].retried => pc # "denied"
      BY <1>2, <1>4, <2>2, <2>6, <3>1, PairNames DEF Belongs, Accepted
    <3>. QED
      BY <1>1, <2>2, <2>5, <2>6, <3>1, <3>2 DEF Belongs
  <2>7. CASE s # "auth"
    <3>1. calls'[t]["auth"] = calls[t]["auth"]
          /\ calls'[t]["load"].pair = calls[t]["load"].pair
          /\ calls'[t]["load"].pc \in {pc, calls[t]["load"].pc}
          /\ (s # "load" => calls'[t]["load"].pc = calls[t]["load"].pc)
      BY <1>3, <2>7 DEF Slot
    <3>. QED
      BY <1>0, <1>1, <1>5, <2>1, <2>2, <2>3, <2>4, <2>5, <2>7, <3>1 DEF Belongs, Ages
  <2>. QED
    BY <2>6, <2>7
<1>. QED
  BY <1>6, <1>7, <1>8 DEF LoneInv

LEMMA LoneAnswerRefresh ==
  ASSUME SessionInv, NEW t \in Tab, LoneInv(t), NEW f \in flights[t], NEW new \in Pair,
         AnswerRefresh(t, f, new)
  PROVE  LoneInv(t)'
<1>0. /\ TypeOK /\ stored \in Pair \cup {NoPair} /\ f \in Flight /\ f.pair \in Pair
      /\ flights[t] = {f} /\ f.pc = "sent" /\ UNCHANGED <<stored, tabs, calls>>
  BY DEF SessionInv, TypeOK, OneFlight, Flight, AnswerRefresh
<1>1. CASE sessions[f.pair].state # "live"
  <2>. DEFINE g == [f EXCEPT !.pc = "refused"]
  <2>1. flights'[t] = {g}
    BY <1>0, <1>1 DEF AnswerRefresh, TypeOK
  <2>2. g.pc = "refused" /\ g.waiters = f.waiters
    BY <1>0 DEF Flight
  <2>. HIDE DEF g
  <2>3. /\ Ages
        /\ \A k \in Pair : sessions'[k].access = sessions[k].access
    <3>1. \A k \in Pair : /\ sessions[k] \in SessionRow
                          /\ \/ sessions'[k] = sessions[k]
                             \/ sessions'[k] = [sessions[k] EXCEPT !.state = "ended"]
      BY <1>1 DEF AnswerRefresh, SessionInv, TypeOK
    <3>2. \A k \in Pair : /\ [sessions[k] EXCEPT !.state = "ended"].access = sessions[k].access
                          /\ [sessions[k] EXCEPT !.state = "ended"].user = sessions[k].user
                          /\ [sessions[k] EXCEPT !.state = "ended"].state = "ended"
      BY <3>1 DEF SessionRow
    <3>. QED
      BY <3>1, <3>2 DEF Ages
  <2>4. SlotsInv(t)'
    BY <1>0, <2>1, <2>2 DEF LoneInv, SlotsInv
  <2>5. SpentInv(t)'
    <3>1. calls[t]["auth"].pc = "ok" /\ calls[t]["auth"].op = "login" =>
              /\ calls[t]["auth"].pair \in Pair /\ calls[t]["auth"].pair # g.pair
              /\ calls[t]["auth"].pair # g.new
      BY <1>0 DEF SessionInv, AnsweredInv, Slot, LoneInv, SpentInv, Flight, g
    <3>. QED
      BY <1>0, <2>1, <2>2, <2>3, <3>1 DEF LoneInv, SpentInv, Ages
  <2>6. OwnerInv(t)'
    <3>. SUFFICES ASSUME NEW k \in Pair, Keeps(t, k)', Works(k)' PROVE Belongs(t, k)'
      BY DEF OwnerInv
    <3>1. Keeps(t, k) /\ Works(k)
      BY <1>0, <2>1, <2>2, <2>3 DEF Keeps, Carries, Works, Ages
    <3>2. Belongs(t, k) /\ SlotsInv(t)
      BY <3>1 DEF LoneInv, OwnerInv
    <3>3. tabs[t].status = "loading" => calls[t]["load"].pair \in Pair \cup {NoPair}
      BY <1>0, <3>2, CallTyped DEF SlotsInv, Slot, Call
    <3>4. /\ calls[t]["auth"].pc # "idle" /\ calls[t]["auth"].op = "me" => calls[t]["auth"].pair \in Pair
          /\ calls[t]["auth"].pc # "idle" /\ calls[t]["auth"].op = "logout" => calls[t]["auth"].pair \in Pair
      BY <3>2 DEF SlotsInv
    <3>. QED
      BY <1>0, <2>3, <3>2, <3>3, <3>4 DEF Belongs, Ages
  <2>. QED
    BY <2>4, <2>5, <2>6 DEF LoneInv
<1>2. CASE sessions[f.pair].state = "live"
  <2>. DEFINE g == [f EXCEPT !.pc = "ok", !.new = new]
  <2>1. flights'[t] = {g} /\ Unheard(new) /\ sessions' = Issued(new, sessions[f.pair].user, f.pair)
    BY <1>0, <1>2 DEF AnswerRefresh, TypeOK, Unused
  <2>2. g.pc = "ok" /\ g.waiters = f.waiters /\ g.new = new /\ g.pair = f.pair
    BY <1>0 DEF Flight
  <2>. HIDE DEF g
  <2>3. /\ stored # new /\ tabs[t].access # new /\ f.pair # new
        /\ \A s \in Slot : calls[t][s].pc # "idle" => calls[t][s].pair # new
    BY <1>0, <2>1 DEF Unheard, Idle
  <2>4. /\ sessions'[new].state = "live" /\ sessions'[new].access
        /\ sessions'[new].user = sessions[f.pair].user
    BY <2>1 DEF Issued
  <2>5. /\ sessions'[f.pair].access = sessions[f.pair].access
        /\ sessions'[f.pair].user = sessions[f.pair].user
        /\ \A k \in Pair \ {new, f.pair} : sessions'[k] = sessions[k]
    <3>1. sessions[f.pair] \in SessionRow
      BY <1>0 DEF TypeOK
    <3>. QED
      BY <1>0, <2>1, <2>3, <3>1 DEF Issued, SessionRow
  <2>6. SlotsInv(t)'
    BY <1>0, <2>1, <2>2 DEF LoneInv, SlotsInv
  <2>7. SpentInv(t)'
    <3>1. calls[t]["auth"].pc = "ok" /\ calls[t]["auth"].op = "login" =>
              /\ calls[t]["auth"].pair \in Pair \ {new, f.pair} /\ calls[t]["auth"].pair # stored
              /\ sessions[calls[t]["auth"].pair].state # "rotated"
      BY <1>0, <2>3 DEF SessionInv, AnsweredInv, Slot, LoneInv, SpentInv
    <3>. QED
      BY <1>0, <2>1, <2>2, <2>4, <2>5, <3>1 DEF SpentInv
  <2>8. OwnerInv(t)'
    <3>. SUFFICES ASSUME NEW k \in Pair, Keeps(t, k)', Works(k)' PROVE Belongs(t, k)'
      BY DEF OwnerInv
    <3>1. PICK j \in Pair : /\ Keeps(t, j) /\ Works(j)
                            /\ sessions[j].user = sessions'[k].user
      <4>1. CASE k = new
        BY <1>0, <1>2, <2>4, <4>1 DEF Keeps, Carries, Works
      <4>2. CASE k = f.pair
        BY <1>0, <1>2, <2>5, <4>2 DEF Keeps, Carries, Works
      <4>3. CASE k \notin {new, f.pair}
        <5>1. Keeps(t, k)
          BY <1>0, <2>1, <2>2, <4>3 DEF Keeps, Carries
        <5>. QED
          BY <2>5, <4>3, <5>1 DEF Works
      <4>. QED
        BY <4>1, <4>2, <4>3
    <3>2. Belongs(t, j) /\ SlotsInv(t)
      BY <3>1 DEF LoneInv, OwnerInv
    <3>3. tabs[t].status = "loading" => calls[t]["load"].pair \in (Pair \cup {NoPair}) \ {new}
      BY <1>0, <2>3, <3>2, CallTyped DEF SlotsInv, Slot, Call
    <3>4. calls[t]["auth"].pc # "idle" /\ calls[t]["auth"].op \in {"me", "logout"} =>
              calls[t]["auth"].pair \in Pair \ {new}
      BY <2>3, <3>2 DEF SlotsInv, Slot
    <3>5. \A i \in Pair \ {new} : /\ sessions'[i].user = sessions[i].user
                                  /\ sessions'[i].access = sessions[i].access
      BY <2>5
    <3>. QED
      BY <1>0, <2>3, <3>1, <3>2, <3>3, <3>4, <3>5 DEF Belongs
  <2>. QED
    BY <2>6, <2>7, <2>8 DEF LoneInv
<1>. QED
  BY <1>1, <1>2

LEMMA LoneServer ==
  ASSUME SessionInv, NEW t \in Tab, LoneInv(t), ServerStep(t)
  PROVE  LoneInv(t)'
<1>1. CASE RefuseLogin(t)
  <2>1. /\ UNCHANGED <<sessions, stored, tabs, flights>>
        /\ calls[t]["auth"].pc = "sent" /\ calls[t]["auth"].op = "login"
        /\ Answer(t, "auth", "failed") /\ "auth" \in Slot /\ TypeOK
    BY <1>1 DEF RefuseLogin, Slot, SessionInv
  <2>2. /\ calls'[t]["auth"].pc = "failed" /\ calls'[t]["auth"].op = "login"
        /\ calls'[t]["data"] = calls[t]["data"] /\ calls'[t]["load"] = calls[t]["load"]
    BY <2>1, AnswerGives DEF Slot
  <2>3. SlotsInv(t)'
    BY <2>1, <2>2 DEF LoneInv, SlotsInv
  <2>4. SpentInv(t)'
    BY <2>1, <2>2 DEF LoneInv, SpentInv
  <2>5. OwnerInv(t)'
    BY <2>1, <2>2 DEF LoneInv, OwnerInv, Keeps, Carries, Works, Belongs
  <2>. QED
    BY <2>3, <2>4, <2>5 DEF LoneInv
<1>. QED
  BY <1>1, LoneAnswerLogin, LoneAnswerLogout, LoneAnswerAuthorised, LoneAnswerRefresh
     DEF ServerStep

-----------------------------------------------------------------------------
(* What a tab that is alone makes of the answers. *)

LEMMA LoneReadDenied ==
  ASSUME SessionInv, NEW t \in Tab, LoneInv(t), NEW s \in Slot, ReadDenied(t, s)
  PROVE  LoneInv(t)'
<1>0. calls[t][s].pc = "denied" /\ ~calls[t][s].retried /\ TypeOK /\ sessions' = sessions
  BY DEF ReadDenied, SessionInv
<1>1. CASE flights[t] = {} /\ stored = NoPair
  <2>1. Reset(t) /\ Put(t, s, Idle) /\ flights' = flights
    BY <1>1 DEF ReadDenied
  <2>2. \A r \in Slot : calls'[t][r] = IF r = s THEN Idle ELSE calls[t][r]
    BY <1>0, <2>1, PutGives
  <2>3. calls'[t]["load"].pc = "idle"
    BY <1>0, <2>2 DEF LoneInv, SlotsInv, Slot, Idle
  <2>. QED
    BY <1>0, <1>1, <2>1, <2>2, <2>3, LoneReset
<1>2. CASE ~(flights[t] = {} /\ stored = NoPair)
  <2>1. RefreshOnce(t, s) /\ Answer(t, s, "waiting") /\ UNCHANGED <<stored, tabs>>
    BY <1>2 DEF ReadDenied
  <2>. QED
    BY <1>0, <1>2, <2>1, AnswerGives, LoneWait
<1>. QED
  BY <1>1, <1>2

\* A slot becomes free and nothing else changes.  A sign-in may end so only when
\* the tab keeps no pair that still works.
LEMMA LoneFree ==
  ASSUME SessionInv, NEW t \in Tab, LoneInv(t), NEW s \in {"auth", "data"}, Put(t, s, Idle),
         UNCHANGED <<sessions, stored, tabs, flights>>,
         s = "auth" => \A k \in Pair : ~(Keeps(t, k) /\ Works(k))
  PROVE  LoneInv(t)'
<1>1. \A r \in Slot : calls'[t][r] = IF r = s THEN Idle ELSE calls[t][r]
  BY PutGives DEF Slot, SessionInv
<1>2. /\ calls'[t]["load"] = calls[t]["load"]
      /\ \/ calls'[t]["auth"] = calls[t]["auth"]
         \/ s = "auth" /\ calls'[t]["auth"].pc = "idle"
      /\ calls'[t]["data"] = calls[t]["data"] \/ calls'[t]["data"].pc = "idle"
  BY <1>1 DEF Slot, Idle
<1>3. SlotsInv(t)'
  BY <1>2 DEF LoneInv, SlotsInv
<1>4. SpentInv(t)'
  BY <1>2 DEF LoneInv, SpentInv
<1>5. OwnerInv(t)'
  BY <1>2 DEF LoneInv, OwnerInv, Keeps, Carries, Works, Belongs
<1>. QED
  BY <1>3, <1>4, <1>5 DEF LoneInv

LEMMA LoneReadError ==
  ASSUME SessionInv, NEW t \in Tab, LoneInv(t), NEW s \in Slot, ReadError(t, s)
  PROVE  LoneInv(t)'
<1>. DEFINE c == calls[t][s]
<1>1. /\ c.pc = "failed" \/ (c.pc = "denied" /\ c.retried)
      /\ Put(t, s, Idle) /\ sessions' = sessions /\ flights' = flights /\ TypeOK
      /\ IF c.op = "logout" THEN Reset(t) ELSE AfterError(t, {c.op})
  BY DEF ReadError, SessionInv
<1>2. c.op # "logout" /\ (c.op = "load" <=> s = "load")
  BY <1>1 DEF LoneInv, SlotsInv, Slot
<1>3. CASE s = "load"
  <2>1. tabs[t].status = "loading" /\ Reset(t)
    BY <1>1, <1>2, <1>3 DEF LoneInv, SlotsInv, AfterError
  <2>2. flights[t] = {}
    BY <1>1, <1>3, <2>1, WaitersWait DEF LoneInv, SlotsInv, Slot
  <2>3. \A r \in Slot : calls'[t][r] = IF r = s THEN Idle ELSE calls[t][r]
    BY <1>1, PutGives
  <2>4. calls'[t]["load"].pc = "idle"
    BY <1>3, <2>3 DEF Idle, Slot
  <2>. QED
    BY <1>1, <2>1, <2>2, <2>3, <2>4, LoneReset
<1>4. CASE s # "load"
  <2>1. UNCHANGED <<stored, tabs>> /\ s \in {"auth", "data"}
    BY <1>1, <1>2, <1>4 DEF AfterError, Slot
  <2>2. s = "auth" => \A k \in Pair : ~(Keeps(t, k) /\ Works(k))
    BY <1>1 DEF LoneInv, SlotsInv, OwnerInv, Belongs
  <2>. QED
    BY <1>1, <2>1, <2>2, LoneFree
<1>. QED
  BY <1>3, <1>4

LEMMA LoneReadMe ==
  ASSUME SessionInv, NEW t \in Tab, LoneInv(t), NEW s \in Slot, ReadMe(t, s)
  PROVE  LoneInv(t)'
<1>0. TypeOK /\ tabs[t] \in Memory
  BY DEF SessionInv, TypeOK
<1>1. /\ calls[t][s].pc = "ok" /\ calls[t][s].op \in {"load", "me"} /\ Put(t, s, Idle)
      /\ UNCHANGED <<sessions, stored, flights>>
  BY DEF ReadMe
<1>2. /\ s \in {"load", "auth"}
      /\ s = "load" => calls[t][s].op = "load" /\ tabs[t].status = "loading"
      /\ s = "auth" => calls[t][s].op = "me" /\ tabs[t].status = "signed-out"
      /\ s = "load" <=> calls[t][s].op = "load"
  BY <1>1 DEF LoneInv, SlotsInv, Slot
<1>3. /\ tabs'[t].access = tabs[t].access /\ tabs'[t].status = "signed-in"
      /\ tabs'[t].user = sessions[calls[t][s].pair].user
  BY <1>0, <1>2 DEF ReadMe, TypeOK, Memory
<1>4. \A r \in Slot : calls'[t][r] = IF r = s THEN Idle ELSE calls[t][r]
  BY <1>0, <1>1, PutGives
<1>5. /\ calls'[t]["load"].pc = "idle" /\ calls'[t]["auth"].pc = "idle"
      /\ calls'[t]["data"] = calls[t]["data"]
  BY <1>2, <1>4 DEF LoneInv, SlotsInv, Slot, Idle
<1>6. calls[t][s].pair \in Pair
  BY <1>1, <1>2 DEF SessionInv, AnsweredInv
<1>7. SlotsInv(t)'
  BY <1>1, <1>3, <1>5 DEF LoneInv, SlotsInv
<1>8. SpentInv(t)'
  BY <1>1, <1>5 DEF LoneInv, SpentInv
<1>9. OwnerInv(t)'
  <2>. SUFFICES ASSUME NEW k \in Pair, Keeps(t, k)', Works(k)' PROVE Belongs(t, k)'
    BY DEF OwnerInv
  <2>1. Keeps(t, k) /\ Works(k)
    BY <1>1, <1>3 DEF Keeps, Carries, Works
  <2>2. Belongs(t, k)
    BY <2>1 DEF LoneInv, OwnerInv
  <2>3. sessions[calls[t][s].pair].user = sessions[k].user
    BY <1>1, <1>2, <1>6, <2>2, PairNames DEF Belongs
  <2>. QED
    BY <1>1, <1>2, <1>3, <1>5, <2>2, <2>3 DEF Belongs
<1>. QED
  BY <1>7, <1>8, <1>9 DEF LoneInv

LEMMA LoneReadLogin ==
  ASSUME SessionInv, NEW t \in Tab, LoneInv(t), ReadLogin(t)
  PROVE  LoneInv(t)'
<1>. DEFINE p == calls[t]["auth"].pair
<1>0. TypeOK /\ tabs[t] \in Memory /\ "auth" \in Slot
  BY DEF SessionInv, TypeOK, Slot
<1>1. /\ calls[t]["auth"].pc = "ok" /\ calls[t]["auth"].op = "login" /\ SetTokens(t, p)
      /\ Put(t, "auth", Send("me", p, Nobody)) /\ UNCHANGED <<sessions, flights>>
  BY DEF ReadLogin
<1>2. tabs[t].status = "signed-out" /\ p \in Pair
  BY <1>1 DEF LoneInv, SlotsInv, SessionInv, AnsweredInv, Slot
<1>3. stored' = p /\ tabs'[t].access = p /\ tabs'[t].status = "signed-out"
  BY <1>0, <1>1, <1>2 DEF SetTokens, TypeOK, Memory
<1>. DEFINE x == Send("me", p, Nobody)
<1>4. x.pc = "sent" /\ x.op = "me" /\ x.pair = p /\ ~x.retried
  BY DEF Send
<1>5. Put(t, "auth", x)
  BY <1>1
<1>. HIDE DEF x
<1>6. \A r \in Slot : calls'[t][r] = IF r = "auth" THEN x ELSE calls[t][r]
  BY <1>0, <1>5, PutGives
<1>7. /\ calls'[t]["auth"].pc = "sent" /\ calls'[t]["auth"].op = "me"
      /\ calls'[t]["auth"].pair = p /\ ~calls'[t]["auth"].retried
      /\ calls'[t]["data"] = calls[t]["data"] /\ calls'[t]["load"] = calls[t]["load"]
  BY <1>4, <1>6 DEF Slot
<1>8. SlotsInv(t)'
  BY <1>1, <1>2, <1>3, <1>7 DEF LoneInv, SlotsInv
<1>9. SpentInv(t)'
  BY <1>1, <1>2, <1>3, <1>7 DEF LoneInv, SpentInv
<1>10. OwnerInv(t)'
  <2>. SUFFICES ASSUME NEW k \in Pair, Keeps(t, k)', Works(k)' PROVE Belongs(t, k)'
    BY DEF OwnerInv
  <2>1. k = p
    <3>. SUFFICES ASSUME k # p PROVE FALSE
      OBVIOUS
    <3>1. Keeps(t, k) /\ Works(k)
      BY <1>1, <1>3 DEF Keeps, Carries, Works
    <3>. QED
      BY <1>1, <1>2, <3>1 DEF LoneInv, OwnerInv, Belongs
  <2>. QED
    BY <1>1, <1>2, <1>3, <1>7, <2>1, PairNames DEF Belongs
<1>. QED
  BY <1>8, <1>9, <1>10 DEF LoneInv

LEMMA LoneReadRefresh ==
  ASSUME SessionInv, NEW t \in Tab, LoneInv(t), NEW f \in flights[t], ReadRefresh(t, f)
  PROVE  LoneInv(t)'
<1>0. /\ TypeOK /\ tabs[t] \in Memory /\ f \in Flight /\ flights[t] = {f}
      /\ sessions' = sessions
  BY DEF SessionInv, TypeOK, OneFlight, ReadRefresh
<1>1. \A s \in Slot : calls[t][s].pc = "waiting" <=> s \in f.waiters
  BY <1>0 DEF SessionInv, WaitingIsServed
<1>2. flights'[t] = {}
  BY <1>0 DEF TypeOK, ReadRefresh
<1>3. \A s \in Slot : calls'[t][s] = IF s \in f.waiters THEN Resumed(calls[t][s], f)
                                                        ELSE calls[t][s]
  BY <1>0 DEF TypeOK, ReadRefresh
<1>4. CASE f.pc = "refused"
  <2>1. Reset(t)
    BY <1>4 DEF ReadRefresh
  <2>2. \A s \in Slot : calls'[t][s] = calls[t][s] \/ calls'[t][s] = Idle
    BY <1>3, <1>4 DEF Resumed
  <2>3. calls'[t]["load"].pc = "idle"
    <3>1. CASE tabs[t].status = "loading"
      <4>1. "load" \in f.waiters
        BY <1>0, <1>1, <3>1, WaitersWait DEF LoneInv, SlotsInv, Slot
      <4>. QED
        BY <1>3, <1>4, <4>1 DEF Resumed, Idle, Slot
    <3>2. CASE tabs[t].status # "loading"
      BY <2>2, <3>2 DEF LoneInv, SlotsInv, Slot, Idle
    <3>. QED
      BY <3>1, <3>2
  <2>. QED
    BY <1>0, <1>2, <2>1, <2>2, <2>3, LoneReset
<1>5. CASE f.pc = "ok"
  <2>1. f.new \in Pair /\ SetTokens(t, f.new)
    BY <1>5 DEF ReadRefresh, LoneInv, SpentInv
  <2>2. /\ stored' = f.new /\ tabs'[t].access = f.new /\ tabs'[t].status = tabs[t].status
        /\ tabs'[t].user = tabs[t].user
    BY <1>0, <2>1 DEF SetTokens, TypeOK, Memory
  <2>3. \A s \in Slot \ f.waiters : calls'[t][s] = calls[t][s]
    BY <1>3
  <2>4. \A s \in f.waiters \cap Slot :
            IF calls[t][s].op = "ensure" THEN calls'[t][s].pc = "idle"
            ELSE /\ calls'[t][s].pc = "sent" /\ calls'[t][s].op = calls[t][s].op
                 /\ calls'[t][s].pair = f.new /\ calls'[t][s].retried
    <3>. SUFFICES ASSUME NEW s \in f.waiters \cap Slot
                  PROVE  IF calls[t][s].op = "ensure" THEN calls'[t][s].pc = "idle"
                         ELSE /\ calls'[t][s].pc = "sent" /\ calls'[t][s].op = calls[t][s].op
                              /\ calls'[t][s].pair = f.new /\ calls'[t][s].retried
      OBVIOUS
    <3>1. calls[t][s] \in Call
      BY <1>0, <1>1, CallTyped
    <3>. DEFINE x == [calls[t][s] EXCEPT !.pc = "sent", !.pair = f.new, !.retried = TRUE]
    <3>2. /\ x.pc = "sent" /\ x.op = calls[t][s].op /\ x.pair = f.new /\ x.retried
      BY <3>1 DEF Call
    <3>3. calls'[t][s] = IF calls[t][s].op = "ensure" THEN Idle ELSE x
      BY <1>3, <1>5 DEF Resumed
    <3>. HIDE DEF x
    <3>. QED
      BY <3>2, <3>3 DEF Idle
  <2>5. "auth" \in f.waiters => calls[t]["auth"].op = "me"
    BY <1>1 DEF LoneInv, SlotsInv, Slot
  <2>6. SlotsInv(t)'
    BY <1>1, <1>2, <2>1, <2>2, <2>3, <2>4, <2>5 DEF LoneInv, SlotsInv, Slot
  <2>7. SpentInv(t)'
    <3>1. calls'[t]["auth"].pc = "ok" => calls'[t]["auth"] = calls[t]["auth"]
      BY <2>3, <2>4, <2>5 DEF Slot
    <3>. QED
      BY <1>0, <1>2, <1>5, <2>2, <3>1 DEF LoneInv, SpentInv
  <2>8. OwnerInv(t)'
    <3>. SUFFICES ASSUME NEW k \in Pair, Keeps(t, k)', Works(k)' PROVE Belongs(t, k)'
      BY DEF OwnerInv
    <3>1. k = f.new /\ Keeps(t, k) /\ Works(k)
      BY <1>0, <1>2, <1>5, <2>2 DEF Keeps, Carries, Works
    <3>2. Belongs(t, k) /\ sessions[k].access
      BY <1>5, <3>1 DEF LoneInv, OwnerInv, SpentInv, Works
    <3>3. /\ calls'[t]["load"].pair = calls[t]["load"].pair \/ calls'[t]["load"].pair = k
             \/ tabs[t].status # "loading"
          /\ calls'[t]["load"].pc = "sent" \/ calls'[t]["load"].pc = calls[t]["load"].pc
             \/ tabs[t].status # "loading"
          /\ \/ calls'[t]["auth"] = calls[t]["auth"] /\ calls[t]["auth"].pc # "waiting"
             \/ /\ calls[t]["auth"].op = "me" /\ calls'[t]["auth"].op = "me"
                /\ calls[t]["auth"].pc = "waiting"
                /\ calls'[t]["auth"].pair = k /\ calls'[t]["auth"].pc = "sent"
      BY <1>1, <2>3, <2>4, <2>5, <3>1 DEF Slot, LoneInv, SlotsInv
    <3>. QED
      BY <1>0, <2>1, <2>2, <3>1, <3>2, <3>3, PairNames DEF Belongs
  <2>. QED
    BY <2>6, <2>7, <2>8 DEF LoneInv
<1>. QED
  BY <1>4, <1>5 DEF LoneInv, SlotsInv, ReadRefresh

LEMMA LoneTab ==
  ASSUME SessionInv, NEW t \in Tab, LoneInv(t), TabStep(t)
  PROVE  LoneInv(t)'
<1>0. TypeOK
  BY DEF SessionInv
<1>1. CASE ReadData(t)
  BY <1>1, LoneFree DEF ReadData
<1>2. ASSUME NEW s \in {"auth", "data"}, ReadLogout(t, s)
      PROVE  LoneInv(t)'
  <2>1. /\ calls[t][s].pc = "ok" /\ calls[t][s].op = "logout" /\ Reset(t) /\ Put(t, s, Idle)
        /\ UNCHANGED <<sessions, flights>> /\ s \in Slot
    BY <1>2 DEF ReadLogout, Slot
  <2>2. tabs[t].status # "loading" /\ calls[t]["load"].pc = "idle"
    BY <2>1 DEF LoneInv, SlotsInv
  <2>3. \A r \in Slot : calls'[t][r] = IF r = s THEN Idle ELSE calls[t][r]
    BY <1>0, <2>1, PutGives
  <2>4. calls'[t]["load"].pc = "idle"
    BY <2>2, <2>3 DEF Slot
  <2>5. ASSUME NEW f \in flights[t], NEW k \in Pair, Works(k), Carries(f, k)
        PROVE  calls'[t]["auth"].pc = "waiting"
    <3>1. Belongs(t, k)
      BY <2>5 DEF LoneInv, OwnerInv, Keeps
    <3>2. PICK r \in Slot : calls[t][r].pc = "waiting"
      BY WaitersWait
    <3>3. s = "data"
      BY <2>1, <3>1 DEF Belongs
    <3>4. r = "auth"
      BY <2>1, <2>2, <3>2, <3>3 DEF Slot
    <3>. QED
      BY <2>3, <3>2, <3>3, <3>4
  <2>. QED
    BY <2>1, <2>3, <2>4, <2>5, LoneReset
<1>3. CASE ReadPassword(t)
  BY <1>3, LoneLogout DEF ReadPassword
<1>. QED
  BY <1>1, <1>2, <1>3, LoneReadDenied, LoneReadError, LoneReadMe, LoneReadRefresh,
     LoneReadLogin DEF TabStep

-----------------------------------------------------------------------------
(* The lone tab beside everything else that happens. *)

LEMMA ClosedKeeps == SessionInv /\ ClosedInv /\ [Next]_vars => ClosedInv'
<1>. SUFFICES ASSUME SessionInv, ClosedInv, [Next]_vars PROVE ClosedInv'
  OBVIOUS
<1>0. TypeOK
  BY DEF SessionInv
<1>1. ASSUME NEW t \in Tab, UserStep(t) \/ ServerStep(t) \/ TabStep(t)
      PROVE  ClosedInv'
  BY <1>0, <1>1, ActorIsOpen, OwnTab DEF ClosedInv
<1>2. ASSUME NEW t \in Tab, FaultStep(t)
      PROVE  ClosedInv'
  <2>1. UNCHANGED tabs /\ tabs[t].status # "closed"
    <3>1. ASSUME NEW s \in Slot, CallFails(t, s)
          PROVE  UNCHANGED tabs /\ tabs[t].status # "closed"
      BY <3>1 DEF CallFails, ClosedInv, Idle
    <3>2. ASSUME NEW f \in flights[t], NEW pc \in {"failed", "refused"}, RefreshFails(t, f, pc)
          PROVE  UNCHANGED tabs /\ tabs[t].status # "closed"
      BY <3>2 DEF RefreshFails, ClosedInv
    <3>. QED
      BY <1>2, <3>1, <3>2 DEF FaultStep
  <2>2. \A u \in Tab \ {t} : calls'[u] = calls[u] /\ flights'[u] = flights[u]
    BY <1>0, <1>2 DEF FaultStep, CallFails, RefreshFails, Answer, TypeOK
  <2>. QED
    BY <2>1, <2>2 DEF ClosedInv
<1>3. CASE (\E k \in Pair : Expire(k)) \/ (\E u \in User : EndedElsewhere(u)) \/ UNCHANGED vars
  BY <1>3 DEF Expire, EndedElsewhere, vars, ClosedInv
<1>. QED
  BY <1>1, <1>2, <1>3 DEF Next

LEMMA LoneExpire ==
  ASSUME SessionInv, NEW t \in Tab, LoneInv(t), NEW j \in Pair, Expire(j), faults' = 0
  PROVE  LoneInv(t)'
<1>1. /\ UNCHANGED <<stored, tabs, calls, flights>> /\ faults \in Nat
      /\ sessions' = [sessions EXCEPT ![j].access = FALSE]
      /\ \A s \in Slot : calls[t][s].pc # "idle" /\ calls[t][s].retried => calls[t][s].pair # j
      /\ \A f \in flights[t] : f.new # j
  BY DEF Expire, Fault, SessionInv, TypeOK, Idle
<1>2. /\ \A k \in Pair \ {j} : sessions'[k] = sessions[k]
      /\ sessions'[j].user = sessions[j].user /\ sessions'[j].state = sessions[j].state
      /\ ~sessions'[j].access
  BY <1>1 DEF SessionInv, TypeOK, SessionRow
<1>3. Ages
  BY <1>2 DEF Ages
<1>4. \A f \in flights[t] : f.pc = "ok" => sessions'[f.new].access = sessions[f.new].access
  BY <1>1, <1>2 DEF LoneInv, SpentInv
<1>5. calls[t]["auth"].pc # "idle" /\ calls[t]["auth"].op = "me" /\ calls[t]["auth"].retried =>
          sessions'[calls[t]["auth"].pair].access = sessions[calls[t]["auth"].pair].access
  BY <1>1, <1>2 DEF LoneInv, SlotsInv, Slot
<1>. QED
  BY <1>1, <1>3, <1>4, <1>5, LoneAges

LEMMA LoneEndedElsewhere ==
  ASSUME SessionInv, NEW t \in Tab, LoneInv(t), NEW u \in User, EndedElsewhere(u)
  PROVE  LoneInv(t)'
<1>1. /\ UNCHANGED <<stored, tabs, calls, flights>> /\ Ages
      /\ \A k \in Pair : IF sessions[k].user = u
                         THEN ~sessions'[k].access /\ sessions'[k].state = "ended"
                         ELSE sessions'[k] = sessions[k]
  BY EndAges DEF EndedElsewhere, SessionInv
<1>2. \A f \in flights[t] : f.pc = "ok" => \/ sessions'[f.new].access = sessions[f.new].access
                                           \/ sessions'[f.new].state # "live"
  BY <1>1 DEF LoneInv, SpentInv
<1>3. ASSUME NEW k \in Pair, Keeps(t, k), Works(k)', calls[t]["auth"].pc # "idle",
             calls[t]["auth"].op = "me"
      PROVE  sessions'[calls[t]["auth"].pair].access = sessions[calls[t]["auth"].pair].access
  <2>1. Works(k) /\ sessions[k].user # u
    BY <1>1, <1>3 DEF Works, Ages
  <2>2. /\ calls[t]["auth"].pair \in Pair
        /\ sessions[calls[t]["auth"].pair].user = sessions[k].user
    BY <1>3, <2>1 DEF LoneInv, OwnerInv, Belongs, SlotsInv
  <2>. QED
    BY <1>1, <2>1, <2>2
<1>. QED
  BY <1>1, <1>2, <1>3, LoneAges

LEMMA SoleInitial == Init => SoleInv
<1>. SUFFICES ASSUME Init PROVE SoleInv
  OBVIOUS
<1>1. ClosedInv
  BY DEF Init, ClosedInv
<1>2. ASSUME NEW t \in Tab
      PROVE  LoneInv(t)
  <2>1. SlotsInv(t)
    BY DEF Init, SlotsInv, Slot, Idle
  <2>2. SpentInv(t)
    BY DEF Init, SpentInv, Slot, Idle
  <2>3. OwnerInv(t)
    BY PairNames DEF Init, OwnerInv, Keeps
  <2>. QED
    BY <2>1, <2>2, <2>3 DEF LoneInv
<1>. QED
  BY <1>1, <1>2 DEF SoleInv

LEMMA SoleKeeps == SessionInv /\ SoleInv /\ [Next]_vars => SoleInv'
<1>. SUFFICES ASSUME SessionInv, SoleInv, [Next]_vars PROVE SoleInv'
  OBVIOUS
<1>0. TypeOK /\ ClosedInv /\ faults \in Nat
  BY DEF SessionInv, TypeOK, SoleInv
<1>1. ClosedInv'
  BY <1>0, ClosedKeeps
<1>. SUFFICES ASSUME NEW t \in Tab, Sole(t)' PROVE LoneInv(t)'
  BY <1>1 DEF SoleInv
<1>2. faults' = 0 /\ \A u \in Tab : tabs'[u].status # "closed" => u = t
  BY DEF Sole
<1>3. ASSUME NEW u \in Tab, UserStep(u) \/ ServerStep(u) \/ TabStep(u)
      PROVE  LoneInv(t)'
  <2>1. u = t /\ faults = 0
    BY <1>0, <1>2, <1>3, ActorIsOpen
  <2>2. Sole(t)
    BY <1>0, <1>2, <1>3, <2>1, OwnTab DEF Sole
  <2>3. LoneInv(t)
    BY <2>2 DEF SoleInv
  <2>. QED
    BY <1>2, <1>3, <2>1, <2>3, LoneUser, LoneServer, LoneTab
<1>4. ASSUME NEW u \in Tab, FaultStep(u)
      PROVE  FALSE
  <2>1. Fault
    BY <1>4 DEF FaultStep, CallFails, RefreshFails
  <2>. QED
    BY <1>0, <1>2, <2>1 DEF Fault
<1>5. ASSUME NEW k \in Pair, Expire(k)
      PROVE  LoneInv(t)'
  <2>1. Sole(t)
    BY <1>0, <1>2, <1>5 DEF Expire, Fault, Sole
  <2>. QED
    BY <1>2, <1>5, <2>1, LoneExpire DEF SoleInv
<1>6. ASSUME NEW u \in User, EndedElsewhere(u)
      PROVE  LoneInv(t)'
  <2>1. Sole(t)
    BY <1>2, <1>6 DEF EndedElsewhere, Sole
  <2>. QED
    BY <1>6, <2>1, LoneEndedElsewhere DEF SoleInv
<1>7. CASE UNCHANGED vars
  <2>1. LoneInv(t)
    BY <1>2, <1>7 DEF vars, Sole, SoleInv
  <2>. QED
    BY <1>7, <2>1 DEF vars, LoneInv, SlotsInv, SpentInv, OwnerInv, Keeps, Carries, Works, Belongs
<1>. QED
  BY <1>3, <1>4, <1>5, <1>6, <1>7 DEF Next

LEMMA SoleInvAlways == Spec => [](SessionInv /\ SoleInv)
BY InitEstablishes, SoleInitial, NextKeeps, SoleKeeps, PTL DEF Spec

\* The tab that NoReuse and ActsAsShown speak of is the sole one.
LEMMA OneOpenIsSole ==
  ASSUME faults = 0, Cardinality({u \in Tab : tabs[u].status # "closed"}) = 1
  PROVE  \E t \in Tab : Sole(t) /\ tabs[t].status # "closed"
<1>. DEFINE open == {u \in Tab : tabs[u].status # "closed"}
<1>1. IsFiniteSet(open)
  BY FS_Subset, TabAssumption
<1>2. \E t : open = {t}
  BY <1>1, FS_Singleton
<1>. QED
  BY <1>2 DEF Sole

\* A tab that is alone never shows the server a refresh token that it has spent,
\* as long as nothing is lost: the calls that are denied at once share one
\* refresh, and what a refresh brings takes the place of what it used (client.ts,
\* refreshOnce), whatever the server and other devices end meanwhile.
THEOREM NoReuseAlways == Spec => []NoReuse
<1>1. SessionInv /\ SoleInv => NoReuse
  <2>. SUFFICES ASSUME SoleInv, faults = 0,
                       Cardinality({u \in Tab : tabs[u].status # "closed"}) = 1,
                       NEW t \in Tab, NEW f \in flights[t], f.pc = "sent"
                PROVE  sessions[f.pair].state # "rotated"
    BY DEF NoReuse
  <2>1. PICK u \in Tab : Sole(u)
    BY OneOpenIsSole
  <2>2. t = u
    BY <2>1 DEF Sole, SoleInv, ClosedInv
  <2>. QED
    BY <2>1, <2>2 DEF SoleInv, LoneInv, SpentInv
<1>. QED
  BY <1>1, SoleInvAlways, PTL

\* A tab that is alone asks whatever it asks as the user whom it shows: a token
\* that it keeps and that still works is never another user's, across every
\* sign-in, sign-out, refresh and late answer (AuthProvider.tsx, client.ts).
THEOREM ActsAsShownAlways == Spec => []ActsAsShown
<1>1. SessionInv /\ SoleInv => ActsAsShown
  <2>. SUFFICES ASSUME SessionInv, SoleInv, faults = 0,
                       Cardinality({u \in Tab : tabs[u].status # "closed"}) = 1,
                       NEW t \in Tab, tabs[t].status = "signed-in", Accepted(tabs[t].access)
                PROVE  sessions[tabs[t].access].user = tabs[t].user
    BY DEF ActsAsShown
  <2>1. PICK u \in Tab : Sole(u)
    BY OneOpenIsSole
  <2>2. t = u
    BY <2>1 DEF Sole
  <2>3. /\ tabs[t].access \in Pair /\ Works(tabs[t].access) /\ Keeps(t, tabs[t].access)
    BY DEF SessionInv, TypeOK, Memory, Accepted, Works, Keeps
  <2>. QED
    BY <2>1, <2>2, <2>3 DEF SoleInv, LoneInv, OwnerInv, Belongs
<1>. QED
  BY <1>1, SoleInvAlways, PTL
=============================================================================
