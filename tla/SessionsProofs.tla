---------------------------- MODULE SessionsProofs ----------------------------
(***************************************************************************)
(* Theorems of Sessions, for any accounts, token pairs and number of       *)
(* overlapping requests.                                                   *)
(***************************************************************************)
EXTENDS Sessions, TLAPS

-----------------------------------------------------------------------------
(* Type correctness. *)

\* A slot that is at some point of a request holds a request.
LEMMA BusyTxn ==
  ASSUME TypeOK, NEW r \in Request, txn[r] # Idle
  PROVE  /\ txn[r] \in Txn
         /\ txn[r].token # NoToken => txn[r].token \in Token /\ Issued(txn[r].token)
         /\ \A k \in txn[r].caught : Issued(k)
BY NoTokenAssumption DEF TypeOK, Txn, Names

LEMMA PcBusy ==
  ASSUME NEW r \in Request, NEW pc, pc # "idle", At(r, pc)
  PROVE  txn[r] # Idle
BY DEF At, Idle

\* The tables stay typed and issued while a slot changes: Begin, End and the
\* steps that only advance a request.
LEMMA SlotTypeOK ==
  ASSUME TypeOK, NEW r \in Request, NEW x \in Txn \cup {Idle},
         x # Idle => \A k \in Names(x) : Issued(k),
         txn' = [txn EXCEPT ![r] = x],
         UNCHANGED <<accounts, refresh, links>>,
         now' \in Nat
  PROVE  TypeOK'
<1>1. \A k \in Token : Issued(k)' <=> Issued(k)
  BY DEF Issued
<1>2. txn' \in [Request -> Txn \cup {Idle}]
  BY DEF TypeOK
<1>3. ASSUME NEW q \in Request, txn'[q] # Idle, NEW k \in Names(txn'[q])
      PROVE  refresh'[k].state # "none"
  <2>1. CASE q = r
    BY <2>1, <1>3, <1>1 DEF TypeOK, Issued
  <2>2. CASE q # r
    BY <2>2, <1>3 DEF TypeOK, Issued
  <2>. QED
    BY <2>1, <2>2
<1>. QED
  BY <1>1, <1>2, <1>3 DEF TypeOK, Issued

LEMMA BeginTypeOK ==
  ASSUME TypeOK, NEW r \in Request, NEW u \in User, NEW hash \in Nat,
         NEW pc \in {"issue", "insert", "password", "enable", "revoke", "end"},
         NEW call \in {"login", "refresh", "reuse", "refuse", "logout", "change",
                       "reset", "disable", "enable"},
         NEW k \in Token \cup {NoToken}, k # NoToken => Issued(k),
         Begin(r, pc, call, u, k, hash)
  PROVE  TypeOK'
<1>. DEFINE x == [pc |-> pc, call |-> call, user |-> u, token |-> k,
                  hash |-> hash, stamp |-> 0, caught |-> {}]
<1>1. x \in Txn
  BY DEF Txn
<1>2. now' \in Nat /\ UNCHANGED <<accounts, refresh, links>>
  BY DEF Begin, TypeOK
<1>3. txn' = [txn EXCEPT ![r] = x]
  BY DEF Begin
<1>. HIDE DEF x
<1>4. x # Idle => \A j \in Names(x) : Issued(j)
  BY DEF x, Names
<1>. QED
  BY <1>1, <1>2, <1>3, <1>4, SlotTypeOK

LEMMA ReadTypeOK ==
  ASSUME TypeOK, NEW r \in Request, Read(r)
  PROVE  TypeOK'
<1>1. ASSUME NEW u \in User, Login(r, u)
      PROVE  TypeOK'
  <2>1. accounts[u].hash \in Nat
    BY DEF TypeOK, Account
  <2>. QED
    BY <1>1, <2>1, BeginTypeOK DEF Login
<1>2. ASSUME NEW u \in User, Disable(r, u) \/ Enable(r, u)
      PROVE  TypeOK'
  BY <1>2, BeginTypeOK DEF Disable, Enable
<1>3. ASSUME NEW u \in User, NEW link \in links[u], ConfirmReset(r, u, link)
      PROVE  TypeOK'
  <2>1. link \in Nat
    BY DEF TypeOK
  <2>. QED
    BY <1>3, <2>1, BeginTypeOK DEF ConfirmReset
<1>4. ASSUME NEW k \in Token
      PROVE  /\ refresh[k] \in RefreshToken
             /\ refresh[k].user \in User
             /\ refresh[k].under \in Nat
             /\ accounts[refresh[k].user].hash \in Nat
  BY DEF TypeOK, RefreshToken, Account
<1>5. ASSUME NEW k \in Token, Refresh(r, k)
      PROVE  TypeOK'
  BY <1>4, <1>5, BeginTypeOK DEF Refresh
<1>6. ASSUME NEW k \in Token, Logout(r, k)
      PROVE  TypeOK'
  BY <1>4, <1>6, BeginTypeOK DEF Logout
<1>7. ASSUME NEW k \in Token, ChangePassword(r, k)
      PROVE  TypeOK'
  BY <1>4, <1>7, BeginTypeOK DEF ChangePassword
<1>. QED
  BY <1>1, <1>2, <1>3, <1>5, <1>6, <1>7 DEF Read

LEMMA IssueTypeOK ==
  ASSUME TypeOK, NEW r \in Request, Issue(r)
  PROVE  TypeOK'
<1>1. txn[r] \in Txn /\ now \in Nat
  BY BusyTxn, PcBusy DEF Issue, TypeOK
<1>2. \A k \in Names(txn[r]) : Issued(k)
  BY PcBusy DEF Issue, TypeOK
<1>3. UNCHANGED <<accounts, refresh, links>>
  BY DEF Issue
<1>4. CASE txn[r].call = "refresh" /\ ~accounts[txn[r].user].active
  <2>. DEFINE x == [txn[r] EXCEPT !.pc = "revoke", !.call = "refuse"]
  <2>1. x \in Txn /\ Names(x) = Names(txn[r])
    BY <1>1 DEF Txn, Names
  <2>2. txn' = [txn EXCEPT ![r] = x] /\ now' = now
    BY <1>1, <1>4 DEF Issue, TypeOK
  <2>. HIDE DEF x
  <2>. QED
    BY <1>1, <1>2, <1>3, <2>1, <2>2, SlotTypeOK
<1>5. CASE ~(txn[r].call = "refresh" /\ ~accounts[txn[r].user].active)
  <2>. DEFINE x == [txn[r] EXCEPT !.pc = "insert", !.stamp = now]
  <2>1. x \in Txn /\ Names(x) = Names(txn[r])
    BY <1>1 DEF Txn, Names
  <2>2. txn' = [txn EXCEPT ![r] = x] /\ now' = now + 1
    BY <1>1, <1>5 DEF Issue, ReadClock, TypeOK
  <2>3. now' \in Nat
    BY <1>1, <2>2
  <2>. HIDE DEF x
  <2>. QED
    BY <1>2, <1>3, <2>1, <2>2, <2>3, SlotTypeOK
<1>. QED
  BY <1>4, <1>5

\* A step that ends its request, and issues but never un-issues tokens.
LEMMA EndTypeOK ==
  ASSUME TypeOK, NEW r \in Request, End(r),
         accounts' \in [User -> Account],
         refresh' \in [Token -> RefreshToken],
         \A k \in Token : Issued(k) => Issued(k)',
         \A k \in Token : Issued(k)' => refresh'[k].family \in Token,
         links' = links, now' = now
  PROVE  TypeOK'
<1>1. txn' \in [Request -> Txn \cup {Idle}]
  BY DEF TypeOK, End
<1>2. ASSUME NEW q \in Request, txn'[q] # Idle, NEW k \in Names(txn'[q])
      PROVE  refresh'[k].state # "none"
  <2>1. txn'[q] = txn[q] /\ txn[q] \in Txn
    BY <1>2 DEF End, TypeOK
  <2>2. k \in Token /\ Issued(k)
    BY <1>2, <2>1 DEF TypeOK, Names, Txn
  <2>. QED
    BY <2>2 DEF Issued
<1>. QED
  BY <1>1, <1>2 DEF TypeOK, Issued

LEMMA IssueCommitTypeOK ==
  ASSUME TypeOK, NEW r \in Request, NEW new \in Token, IssueCommit(r, new)
  PROVE  TypeOK'
<1>. DEFINE x == txn[r]
<1>1. /\ x \in Txn /\ now \in Nat
      /\ x.token # NoToken => x.token \in Token /\ Issued(x.token)
  BY BusyTxn, PcBusy DEF IssueCommit, TypeOK
<1>2. FamilyOf(x, new) \in Token
  BY <1>1 DEF FamilyOf, TypeOK
<1>3. refresh \in [Token -> RefreshToken]
  BY DEF TypeOK
<1>4. ASSUME NEW k \in Token
      PROVE  /\ refresh'[k] \in RefreshToken
             /\ Issued(k) => Issued(k)'
             /\ Issued(k)' => refresh'[k].family \in Token
  <2>1. CASE k = new
    <3>1. refresh'[k] = [state |-> "live", user |-> x.user, family |-> FamilyOf(x, new),
                         iat |-> x.stamp, born |-> now, under |-> x.hash]
      BY <2>1 DEF IssueCommit
    <3>. QED
      BY <3>1, <1>1, <1>2 DEF RefreshToken, Txn, Issued
  <2>2. CASE k # new
    <3>1. refresh'[k] = refresh[k] \/ refresh'[k] = [refresh[k] EXCEPT !.state = "revoked"]
      BY <2>2 DEF IssueCommit
    <3>2. refresh'[k] = refresh[k] \/ k \in Spent(x)
      BY <2>2 DEF IssueCommit
    <3>3. k \in Spent(x) => Issued(k)
      BY <1>1, NoTokenAssumption DEF Spent
    <3>. QED
      BY <1>3, <3>1, <3>2, <3>3 DEF RefreshToken, Issued, TypeOK
  <2>. QED
    BY <2>1, <2>2
<1>5. refresh' \in [Token -> RefreshToken]
  BY <1>3, <1>4 DEF IssueCommit
<1>6. /\ accounts' \in [User -> Account] /\ End(r)
      /\ links' = links /\ now' = now
  BY DEF IssueCommit, TypeOK
<1>. HIDE DEF x
<1>. QED
  BY <1>4, <1>5, <1>6, EndTypeOK

LEMMA RevokeStatementTypeOK ==
  ASSUME TypeOK, NEW r \in Request, RevokeStatement(r)
  PROVE  TypeOK'
<1>. DEFINE caught == {k \in Scope(txn[r]) : Live(k)}
            x == [txn[r] EXCEPT !.pc = "end", !.stamp = now, !.caught = caught]
<1>1. txn[r] \in Txn /\ now \in Nat
  BY BusyTxn, PcBusy DEF RevokeStatement, TypeOK
<1>2. \A k \in Names(txn[r]) : Issued(k)
  BY PcBusy DEF RevokeStatement, TypeOK
<1>3. caught \subseteq Token /\ \A k \in caught : Issued(k)
  BY DEF Scope, Live, Issued
<1>4. txn' = [txn EXCEPT ![r] = x] /\ now' = now + 1
  BY <1>1 DEF RevokeStatement, ReadClock, TypeOK
<1>. HIDE DEF caught
<1>5. x \in Txn /\ x.token = txn[r].token /\ x.caught = caught
  BY <1>1, <1>3 DEF Txn
<1>. HIDE DEF x
<1>6. now' \in Nat /\ \A k \in Names(x) : Issued(k)
  BY <1>1, <1>2, <1>3, <1>4, <1>5 DEF Names
<1>7. UNCHANGED <<accounts, refresh, links>>
  BY DEF RevokeStatement
<1>. QED
  BY <1>4, <1>5, <1>6, <1>7, SlotTypeOK

LEMMA RevokeCommitTypeOK ==
  ASSUME TypeOK, NEW r \in Request, RevokeCommit(r)
  PROVE  TypeOK'
<1>. DEFINE x == txn[r]
<1>1. x \in Txn
  BY BusyTxn, PcBusy DEF RevokeCommit
<1>2. accounts' \in [User -> Account]
  <2>1. CASE EndsFamily(x)
    BY <2>1 DEF RevokeCommit, TypeOK
  <2>2. CASE ~EndsFamily(x)
    <3>1. accounts' = [accounts EXCEPT
            ![x.user].valid_from = ValidFrom(x),
            ![x.user].active = IF x.call = "disable" THEN FALSE ELSE @]
      BY <2>2 DEF RevokeCommit
    <3>2. ValidFrom(x) \in Nat /\ accounts \in [User -> Account]
      BY <1>1 DEF ValidFrom, Txn, TypeOK
    <3>3. accounts[x.user] \in Account
      BY <1>1, <3>2 DEF Txn
    <3>. HIDE DEF x
    <3>. QED
      BY <3>1, <3>2, <3>3 DEF Account
  <2>. QED
    BY <2>1, <2>2
<1>3. ASSUME NEW k \in Token
      PROVE  /\ refresh'[k] \in RefreshToken
             /\ Issued(k) => Issued(k)'
             /\ Issued(k)' => refresh'[k].family \in Token
  <2>1. \/ refresh'[k] = refresh[k]
        \/ /\ k \in x.caught
           /\ refresh'[k] = [refresh[k] EXCEPT !.state = "revoked"]
    BY DEF RevokeCommit
  <2>2. k \in x.caught => Issued(k)
    BY BusyTxn, PcBusy DEF RevokeCommit
  <2>. QED
    BY <2>1, <2>2 DEF TypeOK, RefreshToken, Issued
<1>4. refresh' \in [Token -> RefreshToken]
  BY <1>3 DEF RevokeCommit
<1>5. End(r) /\ links' = links /\ now' = now
  BY DEF RevokeCommit
<1>. QED
  BY <1>2, <1>3, <1>4, <1>5, EndTypeOK

LEMMA PasswordCommitTypeOK ==
  ASSUME TypeOK, NEW r \in Request, PasswordCommit(r)
  PROVE  TypeOK'
<1>. DEFINE x == AfterPassword(txn[r])
<1>1. txn[r] \in Txn
  BY BusyTxn, PcBusy DEF PasswordCommit
<1>2. x \in Txn /\ Names(x) = Names(txn[r])
  BY <1>1 DEF AfterPassword, Txn, Names
<1>3. \A k \in Names(x) : Issued(k)
  BY <1>2, PcBusy DEF PasswordCommit, TypeOK
<1>4. txn' = [txn EXCEPT ![r] = x]
  BY DEF PasswordCommit
<1>5. accounts' \in [User -> Account]
  BY <1>1 DEF PasswordCommit, TypeOK, Account, Txn
<1>6. UNCHANGED <<refresh, links, now>>
  BY DEF PasswordCommit
<1>. HIDE DEF x
<1>. QED
  BY <1>2, <1>3, <1>4, <1>5, <1>6 DEF TypeOK, Issued

LEMMA QuietTypeOK ==
  ASSUME TypeOK, NEW r \in Request, Abort(r) \/ EnableCommit(r)
  PROVE  TypeOK'
<1>1. accounts' \in [User -> Account]
  <2>1. CASE Abort(r)
    BY <2>1 DEF Abort, TypeOK
  <2>2. CASE EnableCommit(r)
    <3>1. txn[r].user \in User /\ accounts[txn[r].user] \in Account
      BY <2>2, BusyTxn, PcBusy DEF EnableCommit, TypeOK, Txn
    <3>2. [accounts[txn[r].user] EXCEPT !.active = TRUE] \in Account
      BY <3>1 DEF Account
    <3>. QED
      BY <2>2, <3>1, <3>2 DEF EnableCommit, TypeOK
  <2>. QED
    BY <2>1, <2>2
<1>2. /\ End(r)
      /\ UNCHANGED <<refresh, links, now>>
  BY DEF Abort, EnableCommit
<1>. QED
  BY <1>1, <1>2, EndTypeOK DEF TypeOK, Issued

\* Every row, link and request in flight has its type, and names only tokens
\* that have been issued.
THEOREM TypeCorrect == Spec => []TypeOK
<1>1. Init => TypeOK
  <2>. SUFFICES ASSUME Init
                PROVE  TypeOK
    OBVIOUS
  <2>1. accounts \in [User -> Account] /\ links \in [User -> SUBSET Nat]
    BY DEF Init, Account
  <2>2. refresh \in [Token -> RefreshToken] /\ \A k \in Token : ~Issued(k)
    BY UserAssumption DEF Init, RefreshToken, Issued
  <2>3. now \in Nat /\ \A r \in Request : txn[r] = Idle
    BY DEF Init
  <2>. QED
    BY <2>1, <2>2, <2>3 DEF Init, TypeOK
<1>2. TypeOK /\ [Next]_vars => TypeOK'
  <2>. SUFFICES ASSUME TypeOK, [Next]_vars
                PROVE  TypeOK'
    OBVIOUS
  <2>1. ASSUME NEW r \in Request, Read(r)
        PROVE  TypeOK'
    BY <2>1, ReadTypeOK
  <2>2. ASSUME NEW r \in Request, Write(r)
        PROVE  TypeOK'
    BY <2>2, IssueTypeOK, IssueCommitTypeOK, QuietTypeOK, PasswordCommitTypeOK,
       RevokeStatementTypeOK, RevokeCommitTypeOK DEF Write
  <2>3. ASSUME NEW r \in Request, Abort(r)
        PROVE  TypeOK'
    BY <2>3, QuietTypeOK
  <2>4. ASSUME NEW u \in User, RequestReset(u)
        PROVE  TypeOK'
    BY <2>4 DEF RequestReset, TypeOK, Account, Issued
  <2>5. CASE UNCHANGED vars
    BY <2>5 DEF vars, TypeOK, Issued
  <2>. QED
    BY <2>1, <2>2, <2>3, <2>4, <2>5 DEF Next
<1>. QED
  BY <1>1, <1>2, PTL DEF Spec

-----------------------------------------------------------------------------
(* Sign-outs. *)

\* A step that lets no token live that did not, moves no sign-out, and leaves
\* the accounts' sessions_valid_from alone.
LEMMA SignOutFrame ==
  ASSUME TypeOK, SignOutInv,
         \A u \in User : accounts'[u].valid_from = accounts[u].valid_from,
         refresh' = refresh,
         now' \in Nat, now' >= now,
         \A q \in Request : \/ txn'[q] = txn[q]
                            \/ txn'[q].pc # "end"
  PROVE  SignOutInv'
<1>1. \A u \in User : accounts[u].valid_from \in Nat
  BY DEF TypeOK, Account
<1>2. \A k \in Token : refresh[k].user \in User /\ refresh[k].born \in Nat
  BY DEF TypeOK, RefreshToken
<1>3. LiveIsNewer'
  BY <1>2 DEF SignOutInv, LiveIsNewer, Live
<1>4. \A u \in User : accounts'[u].valid_from <= now'
  BY <1>1 DEF SignOutInv, TypeOK
<1>5. ASSUME NEW q \in Request, At(q, "end")'
      PROVE  /\ txn'[q] = txn[q]
             /\ txn[q].stamp < now'
             /\ At(q, "end")
  <2>1. txn'[q] = txn[q] /\ At(q, "end")
    BY <1>5 DEF At
  <2>2. txn[q].stamp \in Nat /\ txn[q].stamp < now
    BY <2>1, BusyTxn, PcBusy DEF SignOutInv, Txn
  <2>. QED
    BY <2>1, <2>2 DEF TypeOK
<1>. QED
  BY <1>3, <1>4, <1>5 DEF SignOutInv, Live, EndsFamily

LEMMA SignOutRead ==
  ASSUME TypeOK, SignOutInv, NEW r \in Request, Read(r)
  PROVE  SignOutInv'
<1>1. ASSUME NEW pc \in {"issue", "password", "enable", "revoke"},
             NEW call, NEW u, NEW k, NEW hash, Begin(r, pc, call, u, k, hash)
      PROVE  SignOutInv'
  <2>1. /\ UNCHANGED <<accounts, refresh, now>>
        /\ \A q \in Request : txn'[q] = txn[q] \/ txn'[q].pc # "end"
    BY <1>1 DEF Begin, TypeOK
  <2>2. now' \in Nat /\ now' >= now
    BY <2>1 DEF TypeOK
  <2>. QED
    BY <2>1, <2>2, SignOutFrame
<1>2. \E pc \in {"issue", "password", "enable", "revoke"} :
        \E call, u, k, hash : Begin(r, pc, call, u, k, hash)
  BY DEF Read, Login, Disable, Enable, ConfirmReset, Refresh, Logout, ChangePassword
<1>. QED
  BY <1>1, <1>2

LEMMA SignOutIssueCommit ==
  ASSUME TypeOK, SignOutInv, NEW r \in Request, NEW new \in Token, IssueCommit(r, new)
  PROVE  SignOutInv'
<1>1. txn[r].user \in User /\ now \in Nat
  BY BusyTxn, PcBusy DEF IssueCommit, TypeOK, Txn
<1>2. ASSUME NEW k \in Token, Live(k)'
      PROVE  \/ /\ refresh'[k].born = now
                /\ refresh'[k].user \in User
             \/ refresh'[k] = refresh[k] /\ Live(k)
  <2>1. CASE k = new
    BY <2>1, <1>1 DEF IssueCommit
  <2>2. CASE k # new
    BY <2>2, <1>2 DEF IssueCommit, Live, TypeOK, RefreshToken
  <2>. QED
    BY <2>1, <2>2
<1>3. UNCHANGED <<accounts, now>>
  BY DEF IssueCommit
<1>4. \A q \in Request : At(q, "end")' => txn'[q] = txn[q] /\ At(q, "end")
  BY DEF IssueCommit, End, At, Idle, TypeOK
<1>5. LiveIsNewer'
  BY <1>2, <1>3 DEF SignOutInv, LiveIsNewer
<1>6. ASSUME NEW q \in Request, At(q, "end")', ~EndsFamily(txn[q]),
             NEW k \in Token, Live(k)', refresh'[k].user = txn[q].user
      PROVE  k \in txn[q].caught \/ refresh'[k].born > txn[q].stamp
  <2>1. At(q, "end") /\ txn[q].stamp \in Nat
    BY <1>4, <1>6, BusyTxn, PcBusy DEF Txn
  <2>2. CASE refresh'[k].born = now
    BY <2>1, <2>2, <1>1 DEF SignOutInv
  <2>3. CASE refresh'[k] = refresh[k] /\ Live(k)
    BY <2>1, <2>3, <1>6 DEF SignOutInv
  <2>. QED
    BY <1>2, <1>6, <2>2, <2>3
<1>7. \A q \in Request : At(q, "end")' => txn'[q].stamp < now'
  BY <1>3, <1>4 DEF SignOutInv
<1>. QED
  BY <1>3, <1>4, <1>5, <1>6, <1>7 DEF SignOutInv, EndsFamily

LEMMA SignOutRevokeStatement ==
  ASSUME TypeOK, SignOutInv, NEW r \in Request, RevokeStatement(r)
  PROVE  SignOutInv'
<1>1. txn[r] \in Txn /\ now \in Nat
  BY BusyTxn, PcBusy DEF RevokeStatement, TypeOK
<1>2. /\ now' = now + 1
      /\ UNCHANGED <<accounts, refresh>>
  BY DEF RevokeStatement, ReadClock
<1>3. \A u \in User : accounts[u].valid_from \in Nat
  BY DEF TypeOK, Account
<1>4. /\ txn'[r].stamp = now
      /\ txn'[r].caught = {k \in Scope(txn[r]) : Live(k)}
      /\ txn'[r].user = txn[r].user
      /\ txn'[r].call = txn[r].call
  BY <1>1 DEF RevokeStatement, TypeOK, Txn
<1>5. LiveIsNewer' /\ \A u \in User : accounts'[u].valid_from <= now'
  BY <1>1, <1>2, <1>3 DEF SignOutInv, LiveIsNewer, Live
<1>6. ASSUME NEW q \in Request, At(q, "end")'
      PROVE  /\ txn'[q].stamp < now'
             /\ ~EndsFamily(txn'[q]) => \A k \in Token :
                   Live(k)' /\ refresh'[k].user = txn'[q].user
                     => k \in txn'[q].caught \/ refresh'[k].born > txn'[q].stamp
  <2>1. CASE q = r
    BY <2>1, <1>1, <1>2, <1>4 DEF Scope, EndsFamily, Live
  <2>2. CASE q # r
    <3>1. txn'[q] = txn[q] /\ At(q, "end")
      BY <2>2, <1>6 DEF RevokeStatement, At, TypeOK
    <3>2. txn[q].stamp \in Nat /\ txn[q].stamp < now
      BY <3>1, BusyTxn, PcBusy DEF SignOutInv, Txn
    <3>. QED
      BY <3>1, <3>2, <1>1, <1>2 DEF SignOutInv, Live
  <2>. QED
    BY <2>1, <2>2
<1>. QED
  BY <1>5, <1>6 DEF SignOutInv, EndsFamily

LEMMA SignOutRevokeCommit ==
  ASSUME TypeOK, SignOutInv, NEW r \in Request, RevokeCommit(r)
  PROVE  SignOutInv'
<1>. DEFINE x == txn[r]
<1>1. x \in Txn /\ now \in Nat /\ x.stamp \in Nat /\ x.stamp < now
  BY BusyTxn, PcBusy DEF RevokeCommit, TypeOK, Txn, SignOutInv
<1>2. now' = now
  BY DEF RevokeCommit
<1>3. ASSUME NEW k \in Token, Live(k)'
      PROVE  refresh'[k] = refresh[k] /\ Live(k) /\ k \notin x.caught
  BY <1>3 DEF RevokeCommit, Live, TypeOK, RefreshToken
<1>4. ASSUME NEW u \in User
      PROVE  \/ accounts'[u].valid_from = accounts[u].valid_from
             \/ /\ ~EndsFamily(x)
                /\ u = x.user
                /\ accounts'[u].valid_from = x.stamp
  BY DEF RevokeCommit, ValidFrom, TypeOK, Account
<1>5. LiveIsNewer'
  <2>. SUFFICES ASSUME NEW k \in Token, Live(k)'
                PROVE  refresh'[k].born >= accounts'[refresh'[k].user].valid_from
    BY DEF LiveIsNewer
  <2>1. /\ refresh'[k] = refresh[k] /\ Live(k) /\ k \notin x.caught
        /\ refresh[k].user \in User /\ refresh[k].born \in Nat
    BY <1>3 DEF TypeOK, RefreshToken
  <2>2. CASE accounts'[refresh[k].user].valid_from = accounts[refresh[k].user].valid_from
    BY <2>1, <2>2 DEF SignOutInv, LiveIsNewer
  <2>3. CASE /\ ~EndsFamily(x)
             /\ refresh[k].user = x.user
             /\ accounts'[refresh[k].user].valid_from = x.stamp
    <3>1. refresh[k].born > x.stamp
      BY <2>1, <2>3 DEF SignOutInv, RevokeCommit
    <3>. QED
      BY <1>1, <2>1, <2>3, <3>1
  <2>. QED
    BY <1>4, <2>1, <2>2, <2>3
<1>6. \A u \in User : accounts'[u].valid_from <= now'
  BY <1>1, <1>2, <1>4 DEF SignOutInv
<1>7. \A q \in Request : At(q, "end")' => txn'[q] = txn[q] /\ At(q, "end")
  BY DEF RevokeCommit, End, At, Idle, TypeOK
<1>. QED
  BY <1>2, <1>3, <1>5, <1>6, <1>7 DEF SignOutInv, EndsFamily

LEMMA SignOutOther ==
  ASSUME TypeOK, SignOutInv, NEW r \in Request,
         Issue(r) \/ PasswordCommit(r) \/ EnableCommit(r) \/ Abort(r)
  PROVE  SignOutInv'
<1>1. now' \in Nat /\ now' >= now /\ refresh' = refresh
  BY DEF TypeOK, Issue, ReadClock, PasswordCommit, EnableCommit, Abort
<1>2. \A u \in User : accounts'[u].valid_from = accounts[u].valid_from
  <2>1. CASE Issue(r) \/ Abort(r)
    BY <2>1 DEF Issue, Abort
  <2>2. CASE PasswordCommit(r)
    BY <2>2 DEF PasswordCommit, TypeOK, Account
  <2>3. CASE EnableCommit(r)
    BY <2>3 DEF EnableCommit, TypeOK, Account
  <2>. QED
    BY <2>1, <2>2, <2>3
<1>3. \A q \in Request : txn'[q] = txn[q] \/ txn'[q].pc # "end"
  <2>1. CASE Issue(r)
    BY <2>1, BusyTxn, PcBusy DEF Issue, TypeOK, Txn
  <2>2. CASE PasswordCommit(r)
    BY <2>2, BusyTxn, PcBusy DEF PasswordCommit, AfterPassword, TypeOK, Txn
  <2>3. CASE EnableCommit(r) \/ Abort(r)
    BY <2>3 DEF EnableCommit, Abort, End, Idle, TypeOK
  <2>. QED
    BY <2>1, <2>2, <2>3
<1>. QED
  BY <1>1, <1>2, <1>3, SignOutFrame

\* However refreshes, logins and sign-outs overlap, a refresh token that works
\* was committed after the sign-out that sessions_valid_from records.
THEOREM LiveIsNewerAlways == Spec => []LiveIsNewer
<1>1. Init => SignOutInv
  <2>. SUFFICES ASSUME Init
                PROVE  SignOutInv
    OBVIOUS
  <2>1. ASSUME NEW k \in Token
        PROVE  ~Live(k)
    <3>1. refresh[k].state = "none"
      BY DEF Init
    <3>. QED
      BY <3>1 DEF Live
  <2>2. ASSUME NEW u \in User
        PROVE  accounts[u].valid_from <= now
    <3>1. accounts[u].valid_from = 0
      BY DEF Init
    <3>2. now = 1
      BY DEF Init
    <3>. QED
      BY <3>1, <3>2
  <2>3. \A r \in Request : ~At(r, "end")
    BY DEF Init, At, Idle
  <2>. QED
    BY <2>1, <2>2, <2>3 DEF SignOutInv, LiveIsNewer
<1>2. TypeOK /\ SignOutInv /\ [Next]_vars => SignOutInv'
  <2>. SUFFICES ASSUME TypeOK, SignOutInv, [Next]_vars
                PROVE  SignOutInv'
    OBVIOUS
  <2>1. ASSUME NEW r \in Request, Read(r) \/ Write(r) \/ Abort(r)
        PROVE  SignOutInv'
    BY <2>1, SignOutRead, SignOutIssueCommit, SignOutRevokeStatement,
       SignOutRevokeCommit, SignOutOther DEF Write
  <2>2. CASE UNCHANGED vars \/ \E u \in User : RequestReset(u)
    <3>1. UNCHANGED <<accounts, refresh, now, txn>>
      BY <2>2 DEF RequestReset, vars
    <3>2. now' \in Nat /\ now' >= now
      BY <3>1 DEF TypeOK
    <3>. QED
      BY <3>1, <3>2, SignOutFrame
  <2>. QED
    BY <2>1, <2>2 DEF Next
<1>3. SignOutInv => LiveIsNewer
  BY DEF SignOutInv
<1>. QED
  BY <1>1, <1>2, <1>3, TypeCorrect, PTL DEF Spec

-----------------------------------------------------------------------------
(* The serial service: one request at a time.                              *)

OneAtATime == \A r, q \in Request : r = q

\* A request that has replaced the password of u, and not yet signed u out.
Replaced(x, u) ==
    /\ x # Idle
    /\ x.user = u
    /\ x.call \in {"change", "reset"}
    /\ x.pc \in {"revoke", "end"}

\* What the request in flight has read is still so.
Fresh(x) ==
    /\ x.token # NoToken => refresh[x.token].user = x.user
    /\ x.pc \in {"issue", "insert"} =>
        \/ /\ x.call = "login" /\ x.token = NoToken
           /\ x.hash = accounts[x.user].hash
           /\ accounts[x.user].active
        \/ /\ x.call = "refresh" /\ x.token # NoToken
           /\ x.hash = refresh[x.token].under
           /\ Live(x.token)
    /\ x.pc = "insert" => accounts[x.user].active
    /\ x.pc \in {"insert", "end"} => x.stamp < now
    /\ x.pc = "password" => x.call \in {"change", "reset"} /\ x.hash = accounts[x.user].hash
    /\ x.pc = "enable" => ~accounts[x.user].active
    /\ x.pc \in {"revoke", "end"} =>
        /\ x.call \in {"reuse", "refuse", "logout", "change", "reset", "disable"}
        /\ EndsFamily(x) => x.token # NoToken
    /\ x.pc = "end" =>
        /\ accounts[x.user].valid_from <= x.stamp
        /\ \A k \in Token : Issued(k) => refresh[k].iat < x.stamp
        /\ \A k \in Scope(x) : Live(k) => k \in x.caught

FamilyInv ==
    /\ OneLivePerFamily
    /\ ReuseEndsFamily
    /\ \A k \in Token : Issued(k) => Issued(refresh[k].family)
    /\ history \in [ended: SUBSET Token, torn: SUBSET User]
    /\ \A k \in history.ended : Issued(k)

\* A disabled account has nothing left that works, and nothing that would work
\* again by enabling it.
AccessInv ==
    /\ \A u \in User : accounts[u].valid_from <= now
    /\ \A k \in Token : Issued(k) => refresh[k].iat < now
    /\ \A k \in Token : Issued(k) /\ ~accounts[refresh[k].user].active
        => ~Live(k) /\ refresh[k].iat < accounts[refresh[k].user].valid_from

PasswordInv ==
    \A k \in Token : Live(k) =>
        \/ refresh[k].under = accounts[refresh[k].user].hash
        \/ refresh[k].user \in history.torn
        \/ \E r \in Request : Replaced(txn[r], refresh[k].user)

\* The inductive invariant of the serial service.
SerialInv ==
    /\ FamilyInv
    /\ AccessInv
    /\ PasswordInv
    /\ \A r \in Request : txn[r] # Idle => Fresh(txn[r])

\* A step that leaves the tables alone keeps what is said of them.
LEMMA SerialFrame ==
  ASSUME TypeOK, SerialInv,
         UNCHANGED <<accounts, refresh, history>>, now' \in Nat, now' >= now,
         NEW r \in Request,
         OneAtATime,
         \A u \in User : Replaced(txn[r], u) => Replaced(txn'[r], u),
         txn'[r] # Idle => Fresh(txn[r])'
  PROVE  SerialInv'
<1>1. FamilyInv'
  BY DEF SerialInv, FamilyInv, OneLivePerFamily, ReuseEndsFamily, Live, Issued
<1>2. AccessInv'
  <2>1. \A u \in User : accounts[u].valid_from \in Nat
    BY DEF TypeOK, Account
  <2>2. now \in Nat /\ \A k \in Token : refresh[k].iat \in Nat
    BY DEF TypeOK, RefreshToken
  <2>3. \A u \in User : accounts'[u].valid_from <= now'
    BY <2>1, <2>2 DEF SerialInv, AccessInv
  <2>4. \A k \in Token : Issued(k)' => refresh'[k].iat < now'
    BY <2>2 DEF SerialInv, AccessInv, Issued
  <2>. QED
    BY <2>3, <2>4 DEF SerialInv, AccessInv, Live, Issued
<1>3. PasswordInv'
  <2>1. \A u \in User : (\E q \in Request : Replaced(txn[q], u)) => Replaced(txn'[r], u)
    BY DEF OneAtATime
  <2>2. \A k \in Token : refresh[k].user \in User
    BY DEF TypeOK, RefreshToken
  <2>. QED
    BY <2>1, <2>2 DEF SerialInv, PasswordInv, Live
<1>4. \A q \in Request : q = r
  BY DEF OneAtATime
<1>. QED
  BY <1>1, <1>2, <1>3, <1>4 DEF SerialInv

LEMMA SerialBegin ==
  ASSUME OneAtATime, TypeOK, SerialInv, NEW r \in Request,
         NEW pc, NEW call, NEW u, NEW k, NEW hash,
         Begin(r, pc, call, u, k, hash),
         Fresh([pc |-> pc, call |-> call, user |-> u, token |-> k,
                hash |-> hash, stamp |-> 0, caught |-> {}]),
         pc # "end", pc # "insert"
  PROVE  SerialInv'
<1>. DEFINE x == [pc |-> pc, call |-> call, user |-> u, token |-> k,
                  hash |-> hash, stamp |-> 0, caught |-> {}]
<1>1. txn[r] = Idle /\ txn'[r] = x /\ UNCHANGED <<accounts, refresh, now, history>>
  BY DEF Begin, TypeOK
<1>2. now' \in Nat /\ now' >= now
  BY <1>1 DEF TypeOK
<1>3. Fresh(x) /\ x.pc # "end" /\ x.pc # "insert"
  OBVIOUS
<1>. HIDE DEF x
<1>4. Fresh(txn[r])'
  BY <1>1, <1>3 DEF Fresh, Live
<1>. QED
  BY <1>1, <1>2, <1>4, SerialFrame DEF Replaced

LEMMA SerialRead ==
  ASSUME OneAtATime, TypeOK, SerialInv, NEW r \in Request, Read(r)
  PROVE  SerialInv'
<1>1. \A k \in Token : k # NoToken
  BY NoTokenAssumption
<1>2. ASSUME NEW u \in User, Login(r, u)
      PROVE  SerialInv'
  <2>1. Fresh([pc |-> "issue", call |-> "login", user |-> u, token |-> NoToken,
               hash |-> accounts[u].hash, stamp |-> 0, caught |-> {}])
    BY <1>2 DEF Login, Fresh
  <2>. QED
    BY <1>2, <2>1, SerialBegin DEF Login
<1>3. ASSUME NEW u \in User, Disable(r, u)
      PROVE  SerialInv'
  <2>1. Fresh([pc |-> "revoke", call |-> "disable", user |-> u, token |-> NoToken,
               hash |-> 0, stamp |-> 0, caught |-> {}])
    BY <1>3 DEF Fresh, EndsFamily
  <2>. QED
    BY <1>3, <2>1, SerialBegin DEF Disable
<1>4. ASSUME NEW u \in User, Enable(r, u)
      PROVE  SerialInv'
  <2>1. Fresh([pc |-> "enable", call |-> "enable", user |-> u, token |-> NoToken,
               hash |-> 0, stamp |-> 0, caught |-> {}])
    BY <1>4 DEF Enable, Fresh
  <2>. QED
    BY <1>4, <2>1, SerialBegin DEF Enable
<1>5. ASSUME NEW u \in User, NEW link \in links[u], ConfirmReset(r, u, link)
      PROVE  SerialInv'
  <2>1. Fresh([pc |-> "password", call |-> "reset", user |-> u, token |-> NoToken,
               hash |-> link, stamp |-> 0, caught |-> {}])
    BY <1>5 DEF ConfirmReset, LinkMatches, Fresh
  <2>. QED
    BY <1>5, <2>1, SerialBegin DEF ConfirmReset
<1>6. ASSUME NEW k \in Token, Refresh(r, k)
      PROVE  SerialInv'
  <2>1. CASE Live(k)
    <3>1. Fresh([pc |-> "issue", call |-> "refresh", user |-> refresh[k].user, token |-> k,
                 hash |-> refresh[k].under, stamp |-> 0, caught |-> {}])
      BY <1>1, <2>1 DEF Fresh
    <3>. QED
      BY <1>6, <2>1, <3>1, SerialBegin DEF Refresh
  <2>2. CASE ~Live(k)
    <3>1. Fresh([pc |-> "revoke", call |-> "reuse", user |-> refresh[k].user, token |-> k,
                 hash |-> 0, stamp |-> 0, caught |-> {}])
      BY <1>1 DEF Fresh
    <3>. QED
      BY <1>6, <2>2, <3>1, SerialBegin DEF Refresh
  <2>. QED
    BY <2>1, <2>2
<1>7. ASSUME NEW k \in Token, Logout(r, k)
      PROVE  SerialInv'
  <2>1. Fresh([pc |-> "revoke", call |-> "logout", user |-> refresh[k].user, token |-> k,
               hash |-> 0, stamp |-> 0, caught |-> {}])
    BY <1>1 DEF Fresh, EndsFamily
  <2>. QED
    BY <1>7, <2>1, SerialBegin DEF Logout
<1>8. ASSUME NEW k \in Token, ChangePassword(r, k)
      PROVE  SerialInv'
  <2>1. Fresh([pc |-> "password", call |-> "change", user |-> refresh[k].user,
               token |-> NoToken, hash |-> accounts[refresh[k].user].hash,
               stamp |-> 0, caught |-> {}])
    BY DEF Fresh
  <2>. QED
    BY <1>8, <2>1, SerialBegin DEF ChangePassword
<1>. QED
  BY <1>2, <1>3, <1>4, <1>5, <1>6, <1>7, <1>8 DEF Read

LEMMA SerialIssue ==
  ASSUME OneAtATime, TypeOK, SerialInv, NEW r \in Request, Issue(r)
  PROVE  SerialInv'
<1>. DEFINE x == txn[r]
<1>1. x \in Txn /\ now \in Nat /\ Fresh(x) /\ x.pc = "issue" /\ ~Replaced(x, x.user)
  BY BusyTxn, PcBusy DEF Issue, At, TypeOK, SerialInv, Replaced
<1>2. UNCHANGED <<accounts, refresh, history>>
  BY DEF Issue
<1>3. CASE x.call = "refresh" /\ ~accounts[x.user].active
  <2>1. /\ txn'[r] = [x EXCEPT !.pc = "revoke", !.call = "refuse"]
        /\ now' = now
    BY <1>3 DEF Issue, TypeOK
  <2>2. Fresh(txn[r])'
    BY <1>1, <1>2, <1>3, <2>1 DEF Fresh, Txn
  <2>. QED
    BY <1>1, <1>2, <2>1, <2>2, SerialFrame DEF Replaced
<1>4. CASE ~(x.call = "refresh" /\ ~accounts[x.user].active)
  <2>1. /\ txn'[r] = [x EXCEPT !.pc = "insert", !.stamp = now]
        /\ now' = now + 1
    BY <1>4 DEF Issue, ReadClock, TypeOK
  <2>2. accounts[x.user].active
    BY <1>1, <1>4 DEF Fresh
  <2>3. Fresh(txn[r])'
    BY <1>1, <1>2, <2>1, <2>2 DEF Fresh, Txn, Live
  <2>. QED
    BY <1>1, <1>2, <2>1, <2>3, SerialFrame DEF Replaced
<1>. QED
  BY <1>3, <1>4

LEMMA SerialRevokeStatement ==
  ASSUME OneAtATime, TypeOK, SerialInv, NEW r \in Request, RevokeStatement(r)
  PROVE  SerialInv'
<1>. DEFINE x == txn[r]
<1>1. x \in Txn /\ now \in Nat /\ Fresh(x) /\ x.pc = "revoke" /\ x # Idle
  BY BusyTxn, PcBusy DEF RevokeStatement, At, TypeOK, SerialInv
<1>2. UNCHANGED <<accounts, refresh, history>>
  BY DEF RevokeStatement
<1>3. /\ txn'[r] = [x EXCEPT !.pc = "end", !.stamp = now,
                             !.caught = {k \in Scope(x) : Live(k)}]
      /\ now' = now + 1
  BY DEF RevokeStatement, ReadClock, TypeOK
<1>4. /\ txn'[r].pc = "end" /\ txn'[r].stamp = now
      /\ txn'[r].caught = {k \in Scope(x) : Live(k)}
      /\ txn'[r].call = x.call /\ txn'[r].user = x.user /\ txn'[r].token = x.token
  BY <1>1, <1>3 DEF Txn
<1>5. Fresh(txn[r])'
  <2>1. /\ accounts[x.user].valid_from <= now
        /\ \A k \in Token : Issued(k) => refresh[k].iat < now
    BY <1>1 DEF SerialInv, AccessInv, Txn
  <2>2. Scope(txn[r])' = Scope(x)
    BY <1>2, <1>4 DEF Scope, EndsFamily
  <2>3. \A k \in Token : Issued(k)' => refresh'[k].iat < txn'[r].stamp
    BY <1>2, <1>4, <2>1 DEF Issued
  <2>4. \A k \in Scope(x) : Live(k)' => k \in txn'[r].caught
    BY <1>2, <1>4 DEF Live
  <2>5. txn'[r].stamp < now'
    BY <1>1, <1>3, <1>4
  <2>. QED
    BY <1>1, <1>2, <1>4, <2>1, <2>2, <2>3, <2>4, <2>5 DEF Fresh, EndsFamily
<1>6. \A u \in User : Replaced(x, u) => Replaced(txn'[r], u)
  BY <1>1, <1>4 DEF Replaced, Idle
<1>7. now' \in Nat /\ now' >= now
  BY <1>1, <1>3
<1>. QED
  BY <1>2, <1>5, <1>6, <1>7, SerialFrame

LEMMA SerialIssueCommit ==
  ASSUME OneAtATime, TypeOK, SerialInv, NEW r \in Request, NEW new \in Token,
         IssueCommit(r, new)
  PROVE  SerialInv'
<1>. DEFINE x == txn[r]
            f == FamilyOf(x, new)
<1>1. /\ x \in Txn /\ x.user \in User /\ Fresh(x) /\ x.pc = "insert"
      /\ x.token # NoToken => x.token \in Token /\ Issued(x.token)
      /\ ~Issued(new)
  BY BusyTxn, PcBusy DEF IssueCommit, At, SerialInv, Txn
<1>2. UNCHANGED <<accounts, now, history>> /\ \A q \in Request : txn'[q] = Idle
  BY DEF IssueCommit, End, OneAtATime, TypeOK
<1>3. \A q \in Request, u \in User : ~Replaced(txn[q], u)
  BY <1>1 DEF OneAtATime, Replaced
<1>4. /\ refresh'[new].state = "live" /\ refresh'[new].user = x.user
      /\ refresh'[new].family = f /\ refresh'[new].iat = x.stamp
      /\ refresh'[new].under = x.hash
  BY DEF IssueCommit
<1>5. ASSUME NEW k \in Token, k # new
      PROVE  /\ Issued(k)' <=> Issued(k)
             /\ refresh'[k].user = refresh[k].user
             /\ refresh'[k].family = refresh[k].family
             /\ refresh'[k].iat = refresh[k].iat
             /\ refresh'[k].under = refresh[k].under
             /\ Live(k)' => Live(k) /\ k # x.token
  <2>1. refresh'[k] = IF k = x.token THEN [refresh[k] EXCEPT !.state = "revoked"]
                                     ELSE refresh[k]
    BY <1>5 DEF IssueCommit, Spent
  <2>2. refresh[k] \in RefreshToken
    BY DEF TypeOK
  <2>3. k = x.token => Issued(k)
    BY <1>1, NoTokenAssumption
  <2>. HIDE DEF x
  <2>. QED
    BY <2>1, <2>2, <2>3 DEF RefreshToken, Issued, Live
<1>6. \/ f = new /\ x.token = NoToken /\ x.hash = accounts[x.user].hash
      \/ /\ x.token \in Token /\ Live(x.token)
         /\ f = refresh[x.token].family /\ f \in Token /\ Issued(f)
         /\ x.hash = refresh[x.token].under /\ x.user = refresh[x.token].user
  BY <1>1 DEF Fresh, FamilyOf, SerialInv, FamilyInv, TypeOK
<1>7. /\ accounts[x.user].active
      /\ x.stamp < now
  BY <1>1 DEF Fresh
<1>8. \A k \in Token : Issued(k) => refresh[k].family \in Token /\ Issued(refresh[k].family)
  BY DEF TypeOK, SerialInv, FamilyInv
<1>. HIDE DEF x, f
<1>9. Issued(new)' /\ \A k \in Token : Issued(k) => Issued(k)'
  BY <1>4, <1>5 DEF Issued
<1>10. \A k \in Token : Live(k)' => Issued(k)' /\ (k # new => Issued(k))
  BY <1>5 DEF Live, Issued
<1>11. FamilyInv'
  <2>1. \A k \in Token : k # new /\ Live(k)' => refresh[k].family # f
    BY <1>1, <1>5, <1>6, <1>8, <1>10 DEF SerialInv, FamilyInv, OneLivePerFamily
  <2>2. OneLivePerFamily'
    BY <1>4, <1>5, <2>1 DEF SerialInv, FamilyInv, OneLivePerFamily
  <2>3. f \notin history.ended
    BY <1>1, <1>6 DEF SerialInv, FamilyInv, ReuseEndsFamily
  <2>4. ReuseEndsFamily'
    BY <1>2, <1>4, <1>5, <2>3 DEF SerialInv, FamilyInv, ReuseEndsFamily
  <2>5. \A k \in Token : Issued(k)' => Issued(refresh[k].family)'
    <3>1. \A k \in Token : Issued(k)' => refresh'[k].family \in Token /\
              (refresh'[k].family = new \/ Issued(refresh'[k].family))
      BY <1>4, <1>5, <1>6, <1>8
    <3>. QED
      BY <1>9, <3>1 DEF Issued
  <2>6. \A k \in history'.ended : Issued(k)'
    BY <1>2, <1>9 DEF SerialInv, FamilyInv
  <2>. QED
    BY <1>2, <2>2, <2>4, <2>5, <2>6 DEF SerialInv, FamilyInv
<1>12. AccessInv'
  BY <1>2, <1>4, <1>5, <1>7 DEF SerialInv, AccessInv
<1>13. PasswordInv'
  <2>1. ASSUME NEW k \in Token, Live(k)'
        PROVE  \/ refresh'[k].under = accounts[refresh'[k].user].hash
               \/ refresh'[k].user \in history.torn
    <3>1. ASSUME NEW j \in Token, Live(j)
          PROVE  \/ refresh[j].under = accounts[refresh[j].user].hash
                 \/ refresh[j].user \in history.torn
      BY <1>3, <3>1 DEF SerialInv, PasswordInv, TypeOK, RefreshToken
    <3>2. CASE k = new
      BY <1>4, <1>6, <3>1, <3>2
    <3>3. CASE k # new
      BY <1>5, <2>1, <3>1, <3>3
    <3>. QED
      BY <3>2, <3>3
  <2>. QED
    BY <1>2, <2>1 DEF PasswordInv
<1>. QED
  BY <1>2, <1>11, <1>12, <1>13 DEF SerialInv

LEMMA SerialRevokeCommit ==
  ASSUME OneAtATime, TypeOK, SerialInv, NEW r \in Request, RevokeCommit(r)
  PROVE  SerialInv'
<1>. DEFINE x == txn[r]
<1>1. /\ x \in Txn /\ x.user \in User /\ Fresh(x) /\ x.pc = "end"
      /\ x.token # NoToken => x.token \in Token /\ Issued(x.token)
      /\ \A k \in x.caught : Issued(k)
  BY BusyTxn, PcBusy DEF RevokeCommit, At, SerialInv, Txn
<1>2. now' = now /\ \A q \in Request : txn'[q] = Idle
  BY DEF RevokeCommit, End, OneAtATime, TypeOK
<1>3. /\ x.stamp \in Nat /\ x.stamp < now
      /\ accounts[x.user].valid_from <= x.stamp
      /\ \A k \in Token : Issued(k) => refresh[k].iat < x.stamp
      /\ \A k \in Scope(x) : Live(k) => k \in x.caught
      /\ EndsFamily(x) => x.token # NoToken
  BY <1>1 DEF Fresh, Txn
<1>4. ASSUME NEW k \in Token
      PROVE  /\ Issued(k)' <=> Issued(k)
             /\ refresh'[k].user = refresh[k].user
             /\ refresh'[k].family = refresh[k].family
             /\ refresh'[k].iat = refresh[k].iat
             /\ refresh'[k].under = refresh[k].under
             /\ Live(k)' => Live(k) /\ k \notin Scope(x)
  <2>1. refresh'[k] = IF k \in x.caught THEN [refresh[k] EXCEPT !.state = "revoked"]
                                        ELSE refresh[k]
    BY DEF RevokeCommit
  <2>2. refresh[k] \in RefreshToken /\ k \in x.caught => Issued(k)
    BY <1>1 DEF TypeOK
  <2>. HIDE DEF x
  <2>. QED
    BY <1>3, <2>1, <2>2 DEF TypeOK, RefreshToken, Issued, Live
<1>5. ASSUME NEW u \in User
      PROVE  /\ accounts'[u].hash = accounts[u].hash
             /\ \/ accounts'[u] = accounts[u]
                \/ /\ ~EndsFamily(x) /\ u = x.user
                   /\ accounts'[u].valid_from = x.stamp
  BY DEF RevokeCommit, ValidFrom, TypeOK, Account
<1>6. /\ history'.torn = history.torn
      /\ history' \in [ended: SUBSET Token, torn: SUBSET User]
      /\ \/ history'.ended = history.ended
         \/ /\ EndsFamily(x)
            /\ history'.ended = history.ended \cup {refresh[x.token].family}
  <2>1. history \in [ended: SUBSET Token, torn: SUBSET User]
    BY DEF SerialInv, FamilyInv
  <2>2. CASE x.call = "reuse"
    <3>1. refresh[x.token].family \in Token
      BY <1>1, <1>3, <2>2 DEF EndsFamily, TypeOK
    <3>. QED
      BY <2>1, <2>2, <3>1 DEF RevokeCommit, EndsFamily
  <2>3. CASE x.call # "reuse"
    BY <2>1, <2>3 DEF RevokeCommit
  <2>. QED
    BY <2>2, <2>3
<1>7. \A u \in User : Replaced(x, u) => u = x.user /\ ~EndsFamily(x)
  BY DEF Replaced, EndsFamily
<1>8. /\ EndsFamily(x) => /\ x.token \in Token /\ Issued(x.token)
                          /\ \A k \in Token : refresh[k].family = refresh[x.token].family
                                => k \in Scope(x)
      /\ ~EndsFamily(x) => \A k \in Token : refresh[k].user = x.user => k \in Scope(x)
  BY <1>1, <1>3 DEF Scope
<1>9. \A q \in Request, u \in User : Replaced(txn[q], u) => Replaced(x, u)
  BY DEF OneAtATime
<1>10. \A k \in Token : refresh[k].user \in User
  BY DEF TypeOK, RefreshToken
<1>. HIDE DEF x
<1>11. FamilyInv'
  <2>1. OneLivePerFamily'
    BY <1>4 DEF SerialInv, FamilyInv, OneLivePerFamily
  <2>2. ReuseEndsFamily'
    BY <1>4, <1>6, <1>8 DEF SerialInv, FamilyInv, ReuseEndsFamily
  <2>3. \A k \in Token : Issued(k)' => Issued(refresh[k].family)'
    BY <1>4 DEF SerialInv, FamilyInv, TypeOK
  <2>4. \A k \in history'.ended : Issued(k)'
    <3>1. \A k \in history'.ended : k \in Token /\ Issued(k)
      BY <1>6, <1>8 DEF SerialInv, FamilyInv, TypeOK
    <3>. QED
      BY <1>4, <3>1
  <2>. QED
    BY <1>6, <2>1, <2>2, <2>3, <2>4 DEF FamilyInv
<1>12. AccessInv'
  <2>1. now \in Nat /\ \A u \in User : accounts'[u].valid_from <= now
    BY <1>3, <1>5 DEF SerialInv, AccessInv, TypeOK
  <2>2. ASSUME NEW k \in Token, Issued(k)', ~accounts'[refresh'[k].user].active
        PROVE  ~Live(k)' /\ refresh'[k].iat < accounts'[refresh'[k].user].valid_from
    <3>1. CASE accounts'[refresh[k].user] = accounts[refresh[k].user]
      BY <1>4, <2>2, <3>1 DEF SerialInv, AccessInv
    <3>2. CASE /\ ~EndsFamily(x) /\ refresh[k].user = x.user
               /\ accounts'[x.user].valid_from = x.stamp
      BY <1>3, <1>4, <1>8, <2>2, <3>2
    <3>. QED
      BY <1>5, <1>10, <3>1, <3>2
  <2>. QED
    BY <1>2, <1>4, <2>1, <2>2 DEF SerialInv, AccessInv
<1>13. PasswordInv'
  <2>1. ASSUME NEW k \in Token, Live(k)'
        PROVE  \/ refresh'[k].under = accounts'[refresh'[k].user].hash
               \/ refresh'[k].user \in history'.torn
    <3>1. ~Replaced(x, refresh[k].user)
      BY <1>4, <1>7, <1>8, <1>10, <2>1
    <3>2. \/ refresh[k].under = accounts[refresh[k].user].hash
          \/ refresh[k].user \in history.torn
      BY <1>4, <1>9, <1>10, <2>1, <3>1 DEF SerialInv, PasswordInv
    <3>. QED
      BY <1>4, <1>5, <1>6, <1>10, <3>2
  <2>. QED
    BY <2>1 DEF PasswordInv
<1>. QED
  BY <1>2, <1>11, <1>12, <1>13 DEF SerialInv

LEMMA SerialPasswordCommit ==
  ASSUME OneAtATime, TypeOK, SerialInv, NEW r \in Request, PasswordCommit(r)
  PROVE  SerialInv'
<1>. DEFINE x == txn[r]
<1>1. x \in Txn /\ x.user \in User /\ Fresh(x) /\ x.pc = "password"
  BY BusyTxn, PcBusy DEF PasswordCommit, At, SerialInv, Txn
<1>2. /\ UNCHANGED <<refresh, now, history>>
      /\ txn'[r] = [x EXCEPT !.pc = "revoke"]
  BY DEF PasswordCommit, AfterPassword, TypeOK
<1>3. \A u \in User : /\ accounts'[u].active = accounts[u].active
                      /\ accounts'[u].valid_from = accounts[u].valid_from
                      /\ u # x.user => accounts'[u].hash = accounts[u].hash
  BY <1>1 DEF PasswordCommit, TypeOK, Account
<1>4. \A k \in Token : refresh[k].user \in User
  BY DEF TypeOK, RefreshToken
<1>5. /\ txn'[r].pc = "revoke" /\ txn'[r].call \in {"change", "reset"}
      /\ txn'[r].user = x.user /\ txn'[r].token = x.token
      /\ x.token # NoToken => refresh[x.token].user = x.user
  BY <1>1, <1>2 DEF Txn, Fresh
<1>6. Fresh(txn[r])'
  BY <1>2, <1>5 DEF Fresh, EndsFamily
<1>7. FamilyInv'
  BY <1>2 DEF SerialInv, FamilyInv, OneLivePerFamily, ReuseEndsFamily, Live, Issued
<1>8. AccessInv'
  BY <1>2, <1>3, <1>4 DEF SerialInv, AccessInv, Live, Issued
<1>9. PasswordInv'
  <2>1. \A q \in Request, u \in User : ~Replaced(txn[q], u)
    BY <1>1 DEF OneAtATime, Replaced
  <2>2. Replaced(txn'[r], x.user)
    BY <1>5 DEF Replaced, Idle
  <2>. QED
    BY <1>2, <1>3, <1>4, <2>1, <2>2 DEF SerialInv, PasswordInv, Live
<1>. QED
  BY <1>6, <1>7, <1>8, <1>9 DEF SerialInv, OneAtATime

LEMMA SerialEnableCommit ==
  ASSUME OneAtATime, TypeOK, SerialInv, NEW r \in Request, EnableCommit(r)
  PROVE  SerialInv'
<1>. DEFINE x == txn[r]
<1>1. x.user \in User /\ x.pc = "enable"
  BY BusyTxn, PcBusy DEF EnableCommit, At, Txn
<1>2. UNCHANGED <<refresh, now, history>> /\ \A q \in Request : txn'[q] = Idle
  BY DEF EnableCommit, End, OneAtATime, TypeOK
<1>3. \A u \in User : /\ accounts'[u].hash = accounts[u].hash
                      /\ accounts'[u].valid_from = accounts[u].valid_from
                      /\ ~accounts'[u].active => ~accounts[u].active
  BY <1>1 DEF EnableCommit, TypeOK, Account
<1>4. \A k \in Token : refresh[k].user \in User
  BY DEF TypeOK, RefreshToken
<1>5. FamilyInv'
  BY <1>2 DEF SerialInv, FamilyInv, OneLivePerFamily, ReuseEndsFamily, Live, Issued
<1>6. AccessInv'
  BY <1>2, <1>3, <1>4 DEF SerialInv, AccessInv, Live, Issued
<1>7. PasswordInv'
  <2>1. \A q \in Request, u \in User : ~Replaced(txn[q], u)
    BY <1>1 DEF OneAtATime, Replaced
  <2>. QED
    BY <1>2, <1>3, <1>4, <2>1 DEF SerialInv, PasswordInv, Live
<1>. QED
  BY <1>2, <1>5, <1>6, <1>7 DEF SerialInv

LEMMA SerialAbort ==
  ASSUME OneAtATime, TypeOK, SerialInv, NEW r \in Request, Abort(r)
  PROVE  SerialInv'
<1>. DEFINE x == txn[r]
<1>1. x \in Txn /\ x.user \in User
  BY BusyTxn DEF Abort, Txn
<1>2. UNCHANGED <<accounts, refresh, now>> /\ \A q \in Request : txn'[q] = Idle
  BY DEF Abort, End, OneAtATime, TypeOK
<1>3. /\ history'.ended = history.ended
      /\ history' \in [ended: SUBSET Token, torn: SUBSET User]
      /\ \A u \in User : u \in history.torn \/ Replaced(x, u) => u \in history'.torn
  BY <1>1 DEF Abort, Replaced, SerialInv, FamilyInv
<1>4. \A k \in Token : refresh[k].user \in User
  BY DEF TypeOK, RefreshToken
<1>5. FamilyInv'
  BY <1>2, <1>3 DEF SerialInv, FamilyInv, OneLivePerFamily, ReuseEndsFamily, Live, Issued
<1>6. AccessInv'
  BY <1>2, <1>4 DEF SerialInv, AccessInv, Live, Issued
<1>7. PasswordInv'
  <2>1. \A q \in Request, u \in User : Replaced(txn[q], u) => Replaced(x, u)
    BY DEF OneAtATime
  <2>. QED
    BY <1>2, <1>3, <1>4, <2>1 DEF SerialInv, PasswordInv, Live
<1>. QED
  BY <1>2, <1>5, <1>6, <1>7 DEF SerialInv

LEMMA SerialInvAlways ==
  ASSUME OneAtATime
  PROVE  Spec => []SerialInv
<1>1. Init => SerialInv
  <2>. SUFFICES ASSUME Init
                PROVE  SerialInv
    OBVIOUS
  <2>1. \A k \in Token : ~Issued(k) /\ ~Live(k)
    BY DEF Init, Issued, Live
  <2>2. \A u \in User : accounts[u].valid_from = 0
    BY DEF Init
  <2>3. now = 1 /\ history = [ended |-> {}, torn |-> {}]
    BY DEF Init
  <2>4. \A r \in Request : txn[r] = Idle
    BY DEF Init
  <2>5. FamilyInv
    BY <2>1, <2>3 DEF FamilyInv, OneLivePerFamily, ReuseEndsFamily
  <2>6. AccessInv
    BY <2>1, <2>2, <2>3 DEF AccessInv
  <2>7. PasswordInv
    BY <2>1 DEF PasswordInv
  <2>. QED
    BY <2>4, <2>5, <2>6, <2>7 DEF SerialInv
<1>2. TypeOK /\ SerialInv /\ [Next]_vars => SerialInv'
  <2>. SUFFICES ASSUME TypeOK, SerialInv, [Next]_vars
                PROVE  SerialInv'
    OBVIOUS
  <2>1. ASSUME NEW r \in Request, Read(r) \/ Write(r) \/ Abort(r)
        PROVE  SerialInv'
    BY <2>1, SerialRead, SerialIssue, SerialIssueCommit, SerialEnableCommit,
       SerialPasswordCommit, SerialRevokeStatement, SerialRevokeCommit, SerialAbort
       DEF Write
  <2>2. CASE UNCHANGED vars \/ \E u \in User : RequestReset(u)
    <3>1. UNCHANGED <<accounts, refresh, now, txn, history>>
      BY <2>2 DEF RequestReset, vars
    <3>2. FamilyInv'
      BY <3>1 DEF SerialInv, FamilyInv, OneLivePerFamily, ReuseEndsFamily, Live, Issued
    <3>3. AccessInv' /\ PasswordInv'
      BY <3>1 DEF SerialInv, AccessInv, PasswordInv, Live, Issued
    <3>4. \A r \in Request : txn[r] # Idle => Fresh(txn[r])'
      BY <3>1 DEF SerialInv, Fresh, Scope, EndsFamily, Live, Issued
    <3>. QED
      BY <3>1, <3>2, <3>3, <3>4 DEF SerialInv
  <2>. QED
    BY <2>1, <2>2 DEF Next
<1>. QED
  BY <1>1, <1>2, TypeCorrect, PTL DEF Spec

\* One request at a time, a family never has two refresh tokens that work.
THEOREM OneLivePerFamilySerially ==
  ASSUME OneAtATime
  PROVE  Spec => []OneLivePerFamily
<1>1. SerialInv => OneLivePerFamily
  BY DEF SerialInv, FamilyInv
<1>. QED
  BY <1>1, SerialInvAlways, PTL

\* One request at a time, a family that a reuse has ended stays without a token
\* that works: no refresh and no login brings one back.
THEOREM ReuseEndsFamilySerially ==
  ASSUME OneAtATime
  PROVE  Spec => []ReuseEndsFamily
<1>1. SerialInv => ReuseEndsFamily
  BY DEF SerialInv, FamilyInv
<1>. QED
  BY <1>1, SerialInvAlways, PTL

\* One request at a time, a refresh token that works was obtained under the
\* password its account has, but between the two commits of a change, and but
\* for an account of which a change died there.
THEOREM OldPasswordIsOutSerially ==
  ASSUME OneAtATime
  PROVE  Spec => []OldPasswordIsOut
<1>1. SerialInv => OldPasswordIsOut
  BY DEF SerialInv, PasswordInv, OldPasswordIsOut, Replaced
<1>. QED
  BY <1>1, SerialInvAlways, PTL

\* One request at a time, a sign-out leaves no session that had begun, on any
\* device, and enabling an account brings none back.
THEOREM SignedOutIsOutSerially ==
  ASSUME OneAtATime
  PROVE  Spec => []SignedOutIsOut
<1>1. Init => SignedOutIsOut
  BY DEF Init, SignedOutIsOut
<1>2. TypeOK /\ SerialInv /\ SignedOutIsOut /\ [Next]_vars => SignedOutIsOut'
  <2>. SUFFICES ASSUME TypeOK, SerialInv, SignedOutIsOut, [Next]_vars
                PROVE  SignedOutIsOut'
    OBVIOUS
  <2>1. ASSUME effects'.action \notin {"logout", "change", "reset", "enable"}
        PROVE  SignedOutIsOut'
    BY <2>1 DEF SignedOutIsOut
  <2>2. ASSUME NEW r \in Request, Read(r) \/ Issue(r) \/ RevokeStatement(r) \/ Abort(r)
        PROVE  SignedOutIsOut'
    <3>1. effects'.action = "none"
      BY <2>2 DEF Read, Login, Disable, Enable, ConfirmReset, Refresh, Logout,
                  ChangePassword, Begin, Issue, RevokeStatement, Abort, Quiet
    <3>. QED
      BY <2>1, <3>1
  <2>3. ASSUME NEW r \in Request, NEW new \in Token, IssueCommit(r, new)
        PROVE  SignedOutIsOut'
    <3>1. txn[r].call \in {"login", "refresh"}
      BY <2>3, PcBusy DEF IssueCommit, At, SerialInv, Fresh
    <3>2. effects'.action \in {"login", "refresh"}
      BY <2>3, <3>1 DEF IssueCommit
    <3>. QED
      BY <2>1, <3>2
  <2>4. ASSUME NEW r \in Request, PasswordCommit(r)
        PROVE  SignedOutIsOut'
    <3>1. effects'.action = "password"
      BY <2>4 DEF PasswordCommit
    <3>. QED
      BY <2>1, <3>1
  <2>5. ASSUME NEW u \in User, RequestReset(u)
        PROVE  SignedOutIsOut'
    <3>1. effects'.action = "none"
      BY <2>5 DEF RequestReset, Quiet
    <3>. QED
      BY <2>1, <3>1
  <2>6. ASSUME NEW r \in Request, EnableCommit(r)
        PROVE  SignedOutIsOut'
    <3>. DEFINE u == txn[r].user
    <3>1. effects'.action = "enable" /\ effects'.user = u /\ refresh' = refresh
      BY <2>6 DEF EnableCommit
    <3>2. u \in User /\ ~accounts[u].active
      BY <2>6, BusyTxn, PcBusy DEF EnableCommit, At, SerialInv, Fresh, Txn
    <3>3. accounts'[u].valid_from = accounts[u].valid_from
      BY <2>6, <3>2 DEF EnableCommit, TypeOK, Account
    <3>4. ASSUME NEW k \in Token, Issued(k), refresh[k].user = u
          PROVE  ~Live(k) /\ ~(refresh[k].iat >= accounts[u].valid_from)
      <4>1. ~Live(k) /\ refresh[k].iat < accounts[u].valid_from
        BY <3>2, <3>4 DEF SerialInv, AccessInv
      <4>2. refresh[k].iat \in Nat /\ accounts[u].valid_from \in Nat
        BY <3>2 DEF TypeOK, RefreshToken, Account
      <4>. QED
        BY <4>1, <4>2
    <3>5. \A k \in Token : Issued(k)' /\ refresh'[k].user = u => ~Live(k)' /\ ~Accepted(k)'
      BY <3>1, <3>3, <3>4 DEF Issued, Live, Accepted
    <3>. QED
      BY <3>1, <3>5 DEF SignedOutIsOut, Begun
  <2>7. ASSUME NEW r \in Request, RevokeCommit(r)
        PROVE  SignedOutIsOut'
    <3>. DEFINE x == txn[r]
                u == txn[r].user
    <3>1. x \in Txn /\ u \in User /\ Fresh(x) /\ x.pc = "end"
      BY <2>7, BusyTxn, PcBusy DEF RevokeCommit, At, SerialInv, Txn
    <3>2. effects'.action = x.call /\ effects'.user = u /\ effects'.stamp = x.stamp
      BY <2>7 DEF RevokeCommit
    <3>3. CASE x.call \notin {"logout", "change", "reset"}
      BY <2>1, <3>1, <3>2, <3>3 DEF Fresh
    <3>4. CASE x.call \in {"logout", "change", "reset"}
      <4>1. /\ accounts'[u].valid_from = x.stamp
            /\ \A k \in Token : refresh[k].user = u => k \in Scope(x)
        BY <2>7, <3>1, <3>4 DEF RevokeCommit, EndsFamily, Scope, ValidFrom, TypeOK, Account
      <4>2. ASSUME NEW k \in Token, Issued(k)', refresh'[k].user = u
            PROVE  ~Live(k)' /\ ~(refresh'[k].iat >= accounts'[u].valid_from)
        <5>1. /\ refresh'[k] = IF k \in x.caught THEN [refresh[k] EXCEPT !.state = "revoked"]
                                                 ELSE refresh[k]
              /\ k \in x.caught => Issued(k)
          BY <2>7, BusyTxn, PcBusy DEF RevokeCommit
        <5>2. refresh[k] \in RefreshToken
          BY DEF TypeOK
        <5>3. Issued(k) /\ refresh[k].user = u /\ refresh'[k].iat = refresh[k].iat
          BY <4>2, <5>1, <5>2 DEF RefreshToken, Issued
        <5>4. refresh[k].iat < x.stamp /\ refresh[k].iat \in Nat /\ x.stamp \in Nat
          BY <3>1, <5>2, <5>3 DEF Fresh, RefreshToken, Txn
        <5>5. Live(k) => k \in x.caught
          BY <3>1, <4>1, <5>3 DEF Fresh
        <5>6. ~Live(k)'
          BY <5>1, <5>2, <5>5 DEF Live, RefreshToken
        <5>. HIDE DEF x, u
        <5>. QED
          BY <4>1, <5>3, <5>4, <5>6
      <4>3. \A k \in Token : Issued(k)' /\ refresh'[k].user = u => ~Live(k)' /\ ~Accepted(k)'
        BY <4>2 DEF Accepted
      <4>. QED
        BY <3>2, <3>4, <4>3 DEF SignedOutIsOut, Begun
    <3>. QED
      BY <3>3, <3>4
  <2>8. CASE UNCHANGED vars
    BY <2>8 DEF vars, SignedOutIsOut, Begun, Issued, Live, Accepted
  <2>. QED
    BY <2>2, <2>3, <2>4, <2>5, <2>6, <2>7, <2>8 DEF Next, Write
<1>. QED
  BY <1>1, <1>2, TypeCorrect, SerialInvAlways, PTL DEF Spec

\* One request at a time, a reset link replaces the very password that it was
\* made for, so it works once.
THEOREM LinkWorksOnceSerially ==
  ASSUME OneAtATime
  PROVE  Spec => LinkWorksOnce
<1>. DEFINE Step == effects'.action = "password" /\ effects'.call = "reset"
                        => accounts[effects'.user].hash = effects'.link
<1>1. ASSUME SerialInv, [Next]_vars
      PROVE  [Step]_vars
  <2>1. ASSUME NEW r \in Request, PasswordCommit(r)
        PROVE  Step
    <3>1. txn[r].hash = accounts[txn[r].user].hash
      BY <1>1, <2>1, PcBusy DEF PasswordCommit, At, SerialInv, Fresh
    <3>. QED
      BY <2>1, <3>1 DEF PasswordCommit
  <2>2. ASSUME NEW r \in Request, NEW new \in Token, IssueCommit(r, new)
        PROVE  Step
    <3>1. txn[r].call \in {"login", "refresh"}
      BY <1>1, <2>2, PcBusy DEF IssueCommit, At, SerialInv, Fresh
    <3>. QED
      BY <2>2, <3>1 DEF IssueCommit
  <2>3. ASSUME NEW r \in Request, RevokeCommit(r)
        PROVE  Step
    <3>1. txn[r].call # "password"
      BY <1>1, <2>3, PcBusy DEF RevokeCommit, At, SerialInv, Fresh
    <3>. QED
      BY <2>3, <3>1 DEF RevokeCommit
  <2>4. ASSUME NEW r \in Request, Read(r) \/ Issue(r) \/ RevokeStatement(r)
                                    \/ EnableCommit(r) \/ Abort(r)
        PROVE  Step
    BY <2>4 DEF Read, Login, Disable, Enable, ConfirmReset, Refresh, Logout, EnableCommit,
                ChangePassword, Begin, Issue, RevokeStatement, Abort, Quiet
  <2>5. ASSUME NEW u \in User, RequestReset(u)
        PROVE  Step
    BY <2>5 DEF RequestReset, Quiet
  <2>. QED
    BY <1>1, <2>1, <2>2, <2>3, <2>4, <2>5 DEF Next, Write
<1>. QED
  BY <1>1, SerialInvAlways, PTL DEF Spec, LinkWorksOnce

\* One request at a time, sessions_valid_from only grows, so an access token that
\* it refuses is never let through again.
THEOREM EndedStaysEndedSerially ==
  ASSUME OneAtATime
  PROVE  Spec => EndedStaysEnded
<1>. DEFINE Step == \A k \in Token :
            Issued(k) /\ refresh[k].iat < accounts[refresh[k].user].valid_from
                => refresh[k].iat < accounts'[refresh[k].user].valid_from
<1>1. ASSUME TypeOK, SerialInv, [Next]_vars
      PROVE  [Step]_vars
  <2>1. \A k \in Token : refresh[k].iat \in Nat /\ refresh[k].user \in User
    BY <1>1 DEF TypeOK, RefreshToken
  <2>2. ASSUME NEW r \in Request, RevokeCommit(r)
        PROVE  Step
    <3>1. txn[r].user \in User /\ accounts[txn[r].user].valid_from <= txn[r].stamp
      BY <1>1, <2>2, BusyTxn, PcBusy DEF RevokeCommit, At, SerialInv, Fresh, Txn
    <3>2. \A u \in User : accounts[u].valid_from \in Nat
      BY <1>1 DEF TypeOK, Account
    <3>3. txn[r].stamp \in Nat
      BY <1>1, <2>2, BusyTxn, PcBusy DEF RevokeCommit, Txn
    <3>4. \A u \in User : \/ accounts'[u].valid_from = accounts[u].valid_from
                          \/ /\ u = txn[r].user
                             /\ accounts'[u].valid_from = txn[r].stamp
      BY <1>1, <2>2 DEF RevokeCommit, ValidFrom, TypeOK, Account
    <3>. QED
      BY <2>1, <3>1, <3>2, <3>3, <3>4
  <2>3. ASSUME \A u \in User : accounts'[u].valid_from = accounts[u].valid_from
        PROVE  Step
    BY <1>1, <2>3 DEF TypeOK, RefreshToken
  <2>4. ASSUME NEW r \in Request, Read(r) \/ Abort(r) \/ Issue(r) \/ RevokeStatement(r)
                                    \/ \E new \in Token : IssueCommit(r, new)
        PROVE  Step
    <3>1. accounts' = accounts
      BY <2>4 DEF Read, Login, Disable, Enable, ConfirmReset, Refresh, Logout, IssueCommit,
                  ChangePassword, Begin, Issue, RevokeStatement, Abort
    <3>. QED
      BY <2>3, <3>1
  <2>5. ASSUME NEW r \in Request, EnableCommit(r) \/ PasswordCommit(r)
        PROVE  Step
    <3>1. CASE EnableCommit(r)
      BY <1>1, <2>3, <3>1 DEF EnableCommit, TypeOK, Account
    <3>2. CASE PasswordCommit(r)
      BY <1>1, <2>3, <3>2 DEF PasswordCommit, TypeOK, Account
    <3>. QED
      BY <2>5, <3>1, <3>2
  <2>6. ASSUME NEW u \in User, RequestReset(u)
        PROVE  Step
    BY <2>3, <2>6 DEF RequestReset
  <2>. QED
    BY <1>1, <2>2, <2>4, <2>5, <2>6 DEF Next, Write
<1>. QED
  BY <1>1, TypeCorrect, SerialInvAlways, PTL DEF Spec, EndedStaysEnded
=============================================================================
