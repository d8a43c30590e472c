---------------------------- MODULE TicketsProofs ----------------------------
(***************************************************************************)
(* Theorems of Tickets and of what is built on it: what the ticket page    *)
(* offers (Offers), who is told of a change (Notices), and whom the sweep  *)
(* alerts (SlaSweep); for any users, roles, teams, catalog and number of   *)
(* overlapping requests, and for any batch size and number of workers.     *)
(***************************************************************************)
EXTENDS Notices, SlaSweep, TLAPS

-----------------------------------------------------------------------------
(* Type correctness. *)

LEMMA BlankRow == Blank \in Row
<1>1. PICK c \in Category : TRUE
  BY BoundAssumption
<1>2. TeamOf[c] \in Team
  BY CatalogAssumption
<1>. QED
  BY <1>1, <1>2 DEF Blank, Row, Status, Never

LEMMA BeginTypeOK ==
  ASSUME TypeOK, NEW r \in Request, NEW x \in Txn, Begin(r, x)
  PROVE  TypeOK'
BY DEF TypeOK, Begin

LEMMA EndTypeOK ==
  ASSUME TypeOK, NEW r \in Request, End(r)
  PROVE  txn' \in [Request -> Txn]
BY DEF TypeOK, End, Txn, Idle

\* A staged or loaded slot is a transaction of its kind.
LEMMA StagedTxn ==
  ASSUME TypeOK, NEW r \in Request
  PROVE  /\ txn[r] # Idle => txn[r].pc \in {"loaded", "staged"}
         /\ txn[r].pc # "idle" /\ txn[r].call = "status" => txn[r] \in StatusTxn
         /\ txn[r].pc # "idle" /\ txn[r].call = "assign" => txn[r] \in AssignTxn
         /\ txn[r].pc # "idle" /\ txn[r].call = "edit" => txn[r] \in EditTxn
         /\ txn[r].pc # "idle" /\ txn[r].call = "move" => txn[r] \in MoveTxn
         /\ txn[r].pc # "idle" /\ txn[r].call = "delete" => txn[r] \in DeleteTxn
         /\ txn[r].pc # "idle" /\ txn[r].call \in {"add", "remove"} => txn[r] \in MemberTxn
BY DEF TypeOK, Txn, Idle, StatusTxn, AssignTxn, EditTxn, MoveTxn, DeleteTxn, MemberTxn

LEMMA RoomsTyped ==
  ASSUME NEW tk \in Row
  PROVE  TicketRooms(tk) \subseteq Room
<1>1. tk.team \in Team /\ tk.requester \cup tk.assignee \subseteq User
  BY DEF Row
<1>2. {<<"user", u>> : u \in tk.requester \cup tk.assignee} \subseteq {"user"} \X User
  BY <1>1
<1>. QED
  BY <1>1, <1>2 DEF TicketRooms, Room

LEMMA StatusUpdateTyped ==
  ASSUME NEW tk \in Row, NEW x \in StatusTxn
  PROVE  StatusUpdate(tk, x) \in Row
BY DEF StatusUpdate, StatusTxn, Row

LEMMA MoveUpdateTyped ==
  ASSUME NEW tk \in Row, NEW x \in MoveTxn,
         NewDue(x) \in Nat, TeamOf[x.category] \in Team
  PROVE  MoveUpdate(tk, x) \in Row
<1>. DEFINE team == IF TeamOf[x.category] # x.team THEN TeamOf[x.category] ELSE tk.team
            due == IF NewDue(x) # x.due THEN NewDue(x) ELSE tk.sla_due_at
            breached == IF x.clears THEN FALSE ELSE tk.sla_breached
            left == tk.assignee \ x.drops
<1>1. team \in Team /\ due \in Nat /\ breached \in BOOLEAN /\ left \in SUBSET User
  BY DEF Row
<1>2. x.category \in Category
  BY DEF MoveTxn
<1>3. MoveUpdate(tk, x) = [tk EXCEPT !.category = x.category, !.team = team,
            !.sla_due_at = due, !.sla_breached = breached, !.assignee = left]
  BY DEF MoveUpdate
<1>. HIDE DEF team, due, breached, left
<1>. QED
  BY <1>1, <1>2, <1>3 DEF Row

LEMMA LoadTypeOK ==
  ASSUME TypeOK, NEW r \in Request, Load(r)
  PROVE  TypeOK'
<1>1. ASSUME NEW u \in User, NEW t \in Ticket, NEW c \in Category, CreateTicket(r, u, t, c)
      PROVE  TypeOK'
  <2>. DEFINE row == [Blank EXCEPT !.category = c, !.team = TeamOf[c],
                        !.created_at = now, !.sla_due_at = Due(now, c),
                        !.requester = {u}]
  <2>1. TeamOf[c] \in Team /\ now \in Nat /\ Due(now, c) \in Nat
    BY CatalogAssumption DEF TypeOK, Due
  <2>2. row \in Row
    BY <2>1, BlankRow DEF Row
  <2>. QED
    BY <1>1, <2>2 DEF CreateTicket, TypeOK
<1>2. ASSUME NEW u \in User, NEW t \in Ticket, NEW new \in Status, ChangeStatusLoad(r, u, t, new)
      PROVE  TypeOK'
  <2>1. /\ Stamp("resolved", new, tickets[t].resolved_at) \in Nat
        /\ Stamp("closed", new, tickets[t].closed_at) \in Nat
    BY DEF Stamp, TypeOK, Never
  <2>. QED
    BY <1>2, <2>1, BeginTypeOK DEF ChangeStatusLoad, Txn, StatusTxn
<1>3. ASSUME NEW u \in User, NEW t \in Ticket, NEW to \in SUBSET User, AssignLoad(r, u, t, to)
      PROVE  TypeOK'
  <2>1. tickets[t].assignee \in SUBSET User /\ tickets[t].team \in Team
    BY DEF TypeOK, Row
  <2>. QED
    BY <1>3, <2>1, BeginTypeOK DEF AssignLoad, Txn, AssignTxn
<1>4. ASSUME NEW u \in User, NEW t \in Ticket, NEW fields \in Patches, EditLoad(r, u, t, fields)
      PROVE  TypeOK'
  BY <1>4, BeginTypeOK DEF EditLoad, Txn, EditTxn
<1>5. ASSUME NEW u \in User, NEW t \in Ticket, NEW fields \in Patches, NEW c \in Category,
             MoveLoad(r, u, t, fields, c)
      PROVE  TypeOK'
  <2>1. tickets[t] \in Row
    BY DEF TypeOK
  <2>. QED
    BY <1>5, <2>1, BeginTypeOK DEF MoveLoad, Txn, MoveTxn, Row
<1>6. ASSUME NEW u \in User, NEW t \in Ticket, DeleteLoad(r, u, t)
      PROVE  TypeOK'
  BY <1>6, BeginTypeOK DEF DeleteLoad, Txn, DeleteTxn
<1>7. ASSUME NEW u \in User, NEW team \in Team,
             AddMemberLoad(r, u, team) \/ RemoveMemberLoad(r, u, team)
      PROVE  TypeOK'
  BY <1>7, BeginTypeOK DEF AddMemberLoad, RemoveMemberLoad, Txn, MemberTxn
<1>. QED
  BY <1>1, <1>2, <1>3, <1>4, <1>5, <1>6, <1>7 DEF Load, AssignTicket, ClaimTicket

LEMMA CheckTypeOK ==
  ASSUME TypeOK, NEW r \in Request, Check(r)
  PROVE  TypeOK'
<1>1. CASE AssignCheck(r)
  <2>1. txn[r] \in AssignTxn
    BY <1>1, StagedTxn DEF AssignCheck
  <2>2. [txn[r] EXCEPT !.pc = "staged"] \in AssignTxn
    BY <2>1 DEF AssignTxn
  <2>. QED
    BY <1>1, <2>2 DEF AssignCheck, TypeOK, Txn
<1>2. CASE MoveCheck(r)
  <2>. DEFINE x == txn[r]
              drops == IF TeamOf[x.category] # x.team THEN DropAssigneeOutsideTeam(x) ELSE {}
              y == [x EXCEPT !.pc = "staged", !.clears = x.breached /\ NewDue(x) > now,
                             !.drops = drops, !.rooms = TicketRooms(tickets[x.ticket])]
  <2>1. x \in MoveTxn
    BY <1>2, StagedTxn DEF MoveCheck
  <2>2. drops \subseteq User
    BY <2>1 DEF DropAssigneeOutsideTeam, MoveTxn
  <2>3. TicketRooms(tickets[x.ticket]) \subseteq Room
    BY <2>1, RoomsTyped DEF TypeOK, MoveTxn
  <2>4. (x.breached /\ NewDue(x) > now) \in BOOLEAN
    OBVIOUS
  <2>5. y \in MoveTxn
    BY <2>1, <2>2, <2>3, <2>4 DEF MoveTxn
  <2>. QED
    BY <1>2, <2>5 DEF MoveCheck, TypeOK, Txn
<1>. QED
  BY <1>1, <1>2 DEF Check

LEMMA CommitTypeOK ==
  ASSUME TypeOK, NEW r \in Request, Commit(r)
  PROVE  TypeOK'
<1>. DEFINE x == txn[r]
<1>1. CASE ChangeStatusCommit(r)
  <2>1. x \in StatusTxn
    BY <1>1, StagedTxn DEF ChangeStatusCommit, Staged
  <2>2. StatusUpdate(tickets[x.ticket], x) \in Row
    BY <2>1, StatusUpdateTyped DEF StatusTxn, TypeOK
  <2>. QED
    BY <1>1, <2>1, <2>2, EndTypeOK DEF ChangeStatusCommit, TypeOK, StatusTxn
<1>2. CASE AssignCommit(r)
  <2>1. x \in AssignTxn
    BY <1>2, StagedTxn DEF AssignCommit, Staged
  <2>2. [tickets[x.ticket] EXCEPT
            !.assignee = AfterDelete(tickets[x.ticket].assignee, x) \cup x.to] \in Row
    BY <2>1 DEF AssignTxn, TypeOK, Row, AfterDelete
  <2>. QED
    BY <1>2, <2>1, <2>2, EndTypeOK DEF AssignCommit, TypeOK, AssignTxn
<1>3. CASE EditCommit(r)
  BY <1>3, EndTypeOK DEF EditCommit, TypeOK
<1>4. CASE MoveCommit(r)
  <2>1. x \in MoveTxn
    BY <1>4, StagedTxn DEF MoveCommit, Staged
  <2>2. TeamOf[x.category] \in Team /\ NewDue(x) \in Nat
    BY <2>1, CatalogAssumption DEF NewDue, Due, MoveTxn, TypeOK, Row
  <2>3. MoveUpdate(tickets[x.ticket], x) \in Row
    BY <2>1, <2>2, MoveUpdateTyped DEF MoveTxn, TypeOK
  <2>. QED
    BY <1>4, <2>1, <2>3, EndTypeOK DEF MoveCommit, TypeOK, MoveTxn
<1>5. CASE DeleteCommit(r)
  <2>1. x \in DeleteTxn
    BY <1>5, StagedTxn DEF DeleteCommit, Staged
  <2>2. tickets[x.ticket] \in Row
    BY <2>1 DEF DeleteTxn, TypeOK
  <2>3. [tickets[x.ticket] EXCEPT !.deleted = TRUE] \in Row
    BY <2>2 DEF Row
  <2>. QED
    BY <1>5, <2>1, <2>3, EndTypeOK DEF DeleteCommit, TypeOK, DeleteTxn
<1>6. CASE AddMemberCommit(r) \/ RemoveMemberCommit(r)
  <2>1. x \in MemberTxn
    BY <1>6, StagedTxn DEF AddMemberCommit, RemoveMemberCommit, Staged
  <2>. QED
    BY <1>6, <2>1, EndTypeOK DEF AddMemberCommit, RemoveMemberCommit, TypeOK, MemberTxn
<1>. QED
  BY <1>1, <1>2, <1>3, <1>4, <1>5, <1>6 DEF Commit

\* Every value the service stores or holds in a request has its type.
THEOREM TypeCorrect == Spec => []TypeOK
<1>1. Init => TypeOK
  BY BlankRow, BoundAssumption DEF Init, TypeOK, Txn, Idle, Never
<1>2. TypeOK /\ [Next]_vars => TypeOK'
  <2>. SUFFICES ASSUME TypeOK, [Next]_vars
                PROVE  TypeOK'
    OBVIOUS
  <2>1. CASE Tick
    BY <2>1 DEF Tick, TypeOK, Never
  <2>2. ASSUME NEW r \in Request, Load(r)
        PROVE  TypeOK'
    BY <2>2, LoadTypeOK
  <2>3. ASSUME NEW r \in Request, Check(r)
        PROVE  TypeOK'
    BY <2>3, CheckTypeOK
  <2>4. ASSUME NEW r \in Request, Commit(r)
        PROVE  TypeOK'
    BY <2>4, CommitTypeOK
  <2>5. ASSUME NEW r \in Request, Abort(r)
        PROVE  TypeOK'
    BY <2>5, EndTypeOK DEF Abort, TypeOK
  <2>6. CASE UNCHANGED vars
    BY <2>6 DEF vars, TypeOK
  <2>. QED
    BY <2>1, <2>2, <2>3, <2>4, <2>5, <2>6 DEF Next
<1>. QED
  BY <1>1, <1>2, PTL DEF Spec

-----------------------------------------------------------------------------
(* The owners of a ticket. *)

\* A step that leaves the owners and the birth of every ticket alone, and puts
\* no new assignment in flight, keeps OwnersInv.
LEMMA OwnersFrame ==
  ASSUME TypeOK, OwnersInv,
         \A t \in Ticket : /\ tickets'[t].created_at = tickets[t].created_at
                           /\ tickets'[t].requester = tickets[t].requester
                           /\ tickets'[t].assignee = tickets[t].assignee,
         \A r \in Request : \/ txn'[r] = txn[r]
                            \/ txn'[r] = Idle
                            \/ txn'[r].call # "assign"
  PROVE  OwnersInv'
<1>1. OneHolder' /\ \A t \in Ticket : ~Stored(t)' => tickets'[t].assignee = {}
  BY DEF OwnersInv, OneHolder, Stored
<1>2. ASSUME NEW r \in Request, txn'[r] # Idle, txn'[r].call = "assign"
      PROVE  txn'[r] = txn[r] /\ txn[r].ticket \in Ticket
  BY <1>2, StagedTxn DEF AssignTxn, Idle
<1>. QED
  BY <1>1, <1>2 DEF OwnersInv, Stored

LEMMA OwnersLoad ==
  ASSUME TypeOK, OwnersInv, NEW r \in Request, Load(r)
  PROVE  OwnersInv'
<1>1. ASSUME NEW u \in User, NEW t \in Ticket, NEW c \in Category, CreateTicket(r, u, t, c)
      PROVE  OwnersInv'
  <2>. DEFINE row == [Blank EXCEPT !.category = c, !.team = TeamOf[c],
                        !.created_at = now, !.sla_due_at = Due(now, c),
                        !.requester = {u}]
  <2>1. row.created_at = now /\ row.requester = {u} /\ row.assignee = {}
    BY DEF Blank
  <2>2. tickets' = [tickets EXCEPT ![t] = row] /\ UNCHANGED txn /\ ~Stored(t)
    BY <1>1 DEF CreateTicket
  <2>3. now # Never
    BY DEF TypeOK
  <2>4. \A s \in Ticket : tickets'[s] = IF s = t THEN row ELSE tickets[s]
    BY <2>2 DEF TypeOK
  <2>. HIDE DEF row
  <2>5. \A s \in Ticket : Stored(s) => Stored(s)'
    BY <2>1, <2>3, <2>4 DEF Stored
  <2>6. OneHolder'
    BY <2>1, <2>4 DEF OwnersInv, OneHolder, Stored
  <2>7. \A s \in Ticket : ~Stored(s)' => tickets'[s].assignee = {}
    BY <2>1, <2>4, <2>5 DEF OwnersInv, Stored
  <2>8. ASSUME NEW q \in Request, txn'[q] # Idle, txn'[q].call = "assign"
        PROVE  txn[q].ticket \in Ticket
    BY <2>2, <2>8, StagedTxn DEF AssignTxn, Idle
  <2>. QED
    BY <2>2, <2>5, <2>6, <2>7, <2>8 DEF OwnersInv
<1>2. ASSUME NEW u \in User, NEW t \in Ticket, NEW to \in SUBSET User,
             \A a, b \in to : a = b, AssignLoad(r, u, t, to)
      PROVE  OwnersInv'
  <2>. DEFINE x == [pc |-> "loaded", call |-> "assign", user |-> u, ticket |-> t,
                    from |-> tickets[t].assignee, to |-> to, team |-> tickets[t].team]
  <2>1. txn' = [txn EXCEPT ![r] = x] /\ UNCHANGED tickets
    BY <1>2 DEF AssignLoad, Begin
  <2>2. Stored(t) /\ RequireReassign(Perms(u), tickets[t])
    BY <1>2 DEF AssignLoad, CallerSees, Visible
  <2>3. tickets[t].assignee \subseteq {u} \/ Holds(u, "ticket.reassign")
    BY <2>2 DEF RequireReassign, CanReassign, Perms, OwnersInv, OneHolder
  <2>4. \A q \in Request : txn'[q] = IF q = r THEN x ELSE txn[q]
    BY <2>1 DEF TypeOK
  <2>5. OneHolder' /\ \A s \in Ticket : Stored(s)' = Stored(s)
    BY <2>1 DEF OwnersInv, OneHolder, Stored
  <2>. QED
    BY <1>2, <2>1, <2>2, <2>3, <2>4, <2>5 DEF OwnersInv, Stored
<1>3. ASSUME UNCHANGED tickets, NEW x, x.call # "assign", txn' = [txn EXCEPT ![r] = x]
      PROVE  OwnersInv'
  BY <1>3, OwnersFrame DEF TypeOK
<1>4. ASSUME NEW u \in User, NEW t \in Ticket, NEW new \in Status, ChangeStatusLoad(r, u, t, new)
      PROVE  OwnersInv'
  BY <1>3, <1>4 DEF ChangeStatusLoad, Begin
<1>5. ASSUME NEW u \in User, NEW t \in Ticket, NEW fields \in Patches, EditLoad(r, u, t, fields)
      PROVE  OwnersInv'
  BY <1>3, <1>5 DEF EditLoad, Begin
<1>6. ASSUME NEW u \in User, NEW t \in Ticket, NEW fields \in Patches, NEW c \in Category,
             MoveLoad(r, u, t, fields, c)
      PROVE  OwnersInv'
  BY <1>3, <1>6 DEF MoveLoad, Begin
<1>7. ASSUME NEW u \in User, NEW t \in Ticket, DeleteLoad(r, u, t)
      PROVE  OwnersInv'
  BY <1>3, <1>7 DEF DeleteLoad, Begin
<1>8. ASSUME NEW u \in User, NEW team \in Team,
             AddMemberLoad(r, u, team) \/ RemoveMemberLoad(r, u, team)
      PROVE  OwnersInv'
  BY <1>3, <1>8 DEF AddMemberLoad, RemoveMemberLoad, Begin
<1>9. ASSUME NEW u \in User, NEW t \in Ticket, NEW to \in {{}} \cup {{a} : a \in User},
             AssignLoad(r, u, t, to)
      PROVE  OwnersInv'
  <2>1. to \in SUBSET User /\ \A a, b \in to : a = b
    OBVIOUS
  <2>. QED
    BY <1>2, <1>9, <2>1
<1>. QED
  BY <1>1, <1>4, <1>5, <1>6, <1>7, <1>8, <1>9 DEF Load, AssignTicket, ClaimTicket

LEMMA OwnersCheck ==
  ASSUME TypeOK, OwnersInv, NEW r \in Request, Check(r)
  PROVE  OwnersInv'
<1>1. CASE AssignCheck(r)
  <2>1. txn[r] \in AssignTxn /\ txn[r] # Idle
    BY <1>1, StagedTxn DEF AssignCheck, Idle
  <2>2. \A q \in Request : q # r => txn'[q] = txn[q]
    BY <1>1 DEF AssignCheck, TypeOK
  <2>3. /\ txn'[r].ticket = txn[r].ticket /\ txn'[r].from = txn[r].from
        /\ txn'[r].to = txn[r].to /\ txn'[r].user = txn[r].user
        /\ txn[r].call = "assign"
    BY <1>1, <2>1 DEF AssignCheck, TypeOK, AssignTxn
  <2>. QED
    BY <1>1, <2>1, <2>2, <2>3 DEF AssignCheck, OwnersInv, OneHolder, Stored
<1>2. CASE MoveCheck(r)
  <2>1. txn[r] \in MoveTxn
    BY <1>2, StagedTxn DEF MoveCheck
  <2>2. txn'[r].call = "move" /\ \A q \in Request : q # r => txn'[q] = txn[q]
    BY <1>2, <2>1 DEF MoveCheck, TypeOK, MoveTxn
  <2>. QED
    BY <1>2, <2>2, OwnersFrame DEF MoveCheck
<1>. QED
  BY <1>1, <1>2 DEF Check

\* What an assignment leaves of the owners.
LEMMA AssignCommitOwners ==
  ASSUME TypeOK, NEW r \in Request, AssignCommit(r)
  PROVE  /\ txn[r] \in AssignTxn
         /\ tickets'[txn[r].ticket].assignee
                = (tickets[txn[r].ticket].assignee \ txn[r].from) \cup txn[r].to
         /\ txn[r].to = {} \/ tickets[txn[r].ticket].assignee \ txn[r].from = {}
         /\ tickets'[txn[r].ticket].created_at = tickets[txn[r].ticket].created_at
         /\ tickets'[txn[r].ticket].requester = tickets[txn[r].ticket].requester
         /\ \A t \in Ticket : t # txn[r].ticket => tickets'[t] = tickets[t]
<1>1. txn[r] \in AssignTxn
  BY StagedTxn DEF AssignCommit, Staged
<1>2. tickets[txn[r].ticket] \in Row /\ txn[r].ticket \in Ticket
  BY <1>1 DEF TypeOK, AssignTxn
<1>. QED
  BY <1>1, <1>2 DEF AssignCommit, AfterDelete, SingleHolderIndex, TypeOK, Row

\* What a category change leaves of the owners.
LEMMA MoveCommitOwners ==
  ASSUME TypeOK, NEW r \in Request, MoveCommit(r)
  PROVE  /\ txn[r] \in MoveTxn
         /\ tickets'[txn[r].ticket].assignee
                = tickets[txn[r].ticket].assignee \ txn[r].drops
         /\ tickets'[txn[r].ticket].created_at = tickets[txn[r].ticket].created_at
         /\ tickets'[txn[r].ticket].requester = tickets[txn[r].ticket].requester
         /\ \A t \in Ticket : t # txn[r].ticket => tickets'[t] = tickets[t]
<1>1. txn[r] \in MoveTxn
  BY StagedTxn DEF MoveCommit, Staged
<1>2. tickets[txn[r].ticket] \in Row /\ txn[r].ticket \in Ticket
  BY <1>1 DEF TypeOK, MoveTxn
<1>3. tickets' = [tickets EXCEPT ![txn[r].ticket] = MoveUpdate(tickets[txn[r].ticket], txn[r])]
  BY DEF MoveCommit
<1>4. /\ MoveUpdate(tickets[txn[r].ticket], txn[r]).assignee
            = tickets[txn[r].ticket].assignee \ txn[r].drops
      /\ MoveUpdate(tickets[txn[r].ticket], txn[r]).created_at = tickets[txn[r].ticket].created_at
      /\ MoveUpdate(tickets[txn[r].ticket], txn[r]).requester = tickets[txn[r].ticket].requester
  BY <1>2 DEF MoveUpdate, Row
<1>. QED
  BY <1>1, <1>2, <1>3, <1>4 DEF TypeOK

\* A commit other than of an assignment or a category change leaves the owners.
LEMMA OtherCommitOwners ==
  ASSUME TypeOK, NEW r \in Request, Commit(r), ~AssignCommit(r), ~MoveCommit(r)
  PROVE  \A t \in Ticket : /\ tickets'[t].created_at = tickets[t].created_at
                           /\ tickets'[t].requester = tickets[t].requester
                           /\ tickets'[t].assignee = tickets[t].assignee
<1>1. CASE ChangeStatusCommit(r)
  <2>1. txn[r] \in StatusTxn
    BY <1>1, StagedTxn DEF ChangeStatusCommit, Staged
  <2>2. \A tk \in Row : /\ StatusUpdate(tk, txn[r]).created_at = tk.created_at
                        /\ StatusUpdate(tk, txn[r]).requester = tk.requester
                        /\ StatusUpdate(tk, txn[r]).assignee = tk.assignee
    BY DEF StatusUpdate, Row
  <2>. QED
    BY <1>1, <2>1, <2>2 DEF ChangeStatusCommit, TypeOK, StatusTxn
<1>2. CASE DeleteCommit(r)
  <2>1. txn[r] \in DeleteTxn
    BY <1>2, StagedTxn DEF DeleteCommit, Staged
  <2>. QED
    BY <1>2, <2>1 DEF DeleteCommit, TypeOK, DeleteTxn, Row
<1>3. CASE EditCommit(r) \/ AddMemberCommit(r) \/ RemoveMemberCommit(r)
  BY <1>3 DEF EditCommit, AddMemberCommit, RemoveMemberCommit
<1>. QED
  BY <1>1, <1>2, <1>3 DEF Commit

LEMMA CommitEnds ==
  ASSUME TypeOK, NEW r \in Request, Commit(r)
  PROVE  \A q \in Request : txn'[q] = IF q = r THEN Idle ELSE txn[q]
BY DEF Commit, ChangeStatusCommit, AssignCommit, EditCommit, MoveCommit, DeleteCommit,
       AddMemberCommit, RemoveMemberCommit, End, TypeOK

LEMMA OwnersCommit ==
  ASSUME TypeOK, OwnersInv, NEW r \in Request, Commit(r)
  PROVE  OwnersInv'
<1>1. CASE AssignCommit(r)
  <2>1. txn[r] # Idle /\ txn[r].call = "assign"
    BY <1>1 DEF AssignCommit, Staged, Idle
  <2>2. txn[r].ticket \in Ticket /\ Stored(txn[r].ticket) /\ \A a, b \in txn[r].to : a = b
    BY <1>1, <2>1, AssignCommitOwners DEF OwnersInv, AssignTxn
  <2>3. \A t \in Ticket : Stored(t)' = Stored(t) /\ tickets'[t].requester = tickets[t].requester
    BY <1>1, AssignCommitOwners DEF Stored
  <2>4. \A t \in Ticket : \A a, b \in tickets'[t].assignee : a = b
    BY <1>1, <2>2, AssignCommitOwners DEF OwnersInv, OneHolder
  <2>5. OneHolder'
    BY <2>3, <2>4 DEF OwnersInv, OneHolder
  <2>6. \A t \in Ticket : ~Stored(t)' => tickets'[t].assignee = {}
    BY <1>1, <2>2, <2>3, AssignCommitOwners DEF OwnersInv
  <2>7. ASSUME NEW q \in Request, txn'[q] # Idle, txn'[q].call = "assign"
        PROVE  txn'[q] = txn[q] /\ txn[q].ticket \in Ticket
    BY <2>7, CommitEnds, StagedTxn DEF AssignTxn, Idle
  <2>. QED
    BY <2>3, <2>5, <2>6, <2>7 DEF OwnersInv
<1>2. CASE MoveCommit(r)
  <2>1. txn[r].ticket \in Ticket
    BY <1>2, MoveCommitOwners DEF MoveTxn
  <2>2. \A t \in Ticket : /\ Stored(t)' = Stored(t)
                          /\ tickets'[t].requester = tickets[t].requester
                          /\ tickets'[t].assignee \subseteq tickets[t].assignee
    BY <1>2, <2>1, MoveCommitOwners DEF Stored
  <2>3. OneHolder' /\ \A t \in Ticket : ~Stored(t)' => tickets'[t].assignee = {}
    BY <2>2 DEF OwnersInv, OneHolder
  <2>4. ASSUME NEW q \in Request, txn'[q] # Idle, txn'[q].call = "assign"
        PROVE  txn'[q] = txn[q] /\ txn[q].ticket \in Ticket
    BY <2>4, CommitEnds, StagedTxn DEF AssignTxn, Idle
  <2>. QED
    BY <2>2, <2>3, <2>4 DEF OwnersInv
<1>3. CASE ~AssignCommit(r) /\ ~MoveCommit(r)
  BY <1>3, OtherCommitOwners, CommitEnds, OwnersFrame
<1>. QED
  BY <1>1, <1>2, <1>3

LEMMA OwnersStep == TypeOK /\ OwnersInv /\ [Next]_vars => OwnersInv'
<1>. SUFFICES ASSUME TypeOK, OwnersInv, [Next]_vars
              PROVE  OwnersInv'
  OBVIOUS
<1>1. CASE Tick \/ UNCHANGED vars
  BY <1>1, OwnersFrame DEF Tick, vars
<1>2. ASSUME NEW r \in Request, Abort(r)
      PROVE  OwnersInv'
  BY <1>2, OwnersFrame DEF Abort, End, TypeOK
<1>. QED
  BY <1>1, <1>2, OwnersLoad, OwnersCheck, OwnersCommit DEF Next

LEMMA OwnersInit == Init => OwnersInv
BY DEF Init, OwnersInv, OneHolder, Stored, Blank, Idle, Never

\* A ticket never has two assignees and always has its one requester, however
\* many requests overlap.
THEOREM OneHolderAlways == Spec => []OneHolder
<1>1. OwnersInv => OneHolder
  BY DEF OwnersInv
<1>. QED
  BY <1>1, TypeCorrect, OwnersInit, OwnersStep, PTL DEF Spec

-----------------------------------------------------------------------------
(* Nobody takes a ticket away. *)

\* A step that leaves the assignees alone takes nothing from anybody.
LEMMA NothingTaken ==
  ASSUME \A t \in Ticket : tickets[t].assignee \subseteq tickets'[t].assignee
  PROVE  NoStealStep
BY DEF NoStealStep

LEMMA LoadTakesNothing ==
  ASSUME TypeOK, OwnersInv, NEW r \in Request, Load(r)
  PROVE  NoStealStep
<1>1. ASSUME NEW u \in User, NEW t \in Ticket, NEW c \in Category, CreateTicket(r, u, t, c)
      PROVE  NoStealStep
  <2>1. ~Stored(t) /\ \A s \in Ticket : s # t => tickets'[s] = tickets[s]
    BY <1>1 DEF CreateTicket, TypeOK
  <2>2. \A s \in Ticket : tickets[s].assignee \subseteq tickets'[s].assignee
    BY <2>1 DEF OwnersInv
  <2>. QED
    BY <2>2, NothingTaken
<1>2. CASE UNCHANGED tickets
  BY <1>2, NothingTaken
<1>. QED
  BY <1>1, <1>2 DEF Load, Begin, ChangeStatusLoad, AssignTicket, ClaimTicket, AssignLoad,
       EditLoad, MoveLoad, DeleteLoad, AddMemberLoad, RemoveMemberLoad

LEMMA CommitTakesNothing ==
  ASSUME TypeOK, OwnersInv, NEW r \in Request, Commit(r)
  PROVE  NoStealStep
<1>. DEFINE x == txn[r]
<1>1. CASE AssignCommit(r)
  <2>0. x # Idle /\ x.call = "assign"
    BY <1>1 DEF AssignCommit, Staged, Idle
  <2>1. x.from \subseteq {x.user} \/ Holds(x.user, "ticket.reassign")
    BY <2>0 DEF OwnersInv
  <2>2. /\ effects'.ticket = x.ticket /\ effects'.actor = x.user
        /\ effects'.action \in {"assigned", "unassigned"}
    BY <1>1 DEF AssignCommit
  <2>3. ASSUME NEW t \in Ticket, NEW a \in tickets[t].assignee \ tickets'[t].assignee
        PROVE  t = x.ticket /\ a \in x.from
    BY <1>1, <2>3, AssignCommitOwners
  <2>. QED
    BY <2>1, <2>2, <2>3 DEF NoStealStep
<1>2. CASE MoveCommit(r)
  <2>1. effects'.ticket = x.ticket /\ effects'.action = "moved"
    BY <1>2 DEF MoveCommit, Committed
  <2>2. ASSUME NEW t \in Ticket, NEW a \in tickets[t].assignee \ tickets'[t].assignee
        PROVE  t = x.ticket /\ tickets'[t].assignee = {}
    <3>1. t = x.ticket /\ a \in x.drops
      BY <1>2, <2>2, MoveCommitOwners
    <3>2. \A b \in tickets[t].assignee : b = a
      BY <2>2 DEF OwnersInv, OneHolder
    <3>. QED
      BY <1>2, <3>1, <3>2, MoveCommitOwners
  <2>. QED
    BY <2>1, <2>2 DEF NoStealStep
<1>3. CASE ~AssignCommit(r) /\ ~MoveCommit(r)
  BY <1>3, OtherCommitOwners, NothingTaken
<1>. QED
  BY <1>1, <1>2, <1>3

\* An assignee loses a ticket only by its own hand, to a holder of
\* ticket.reassign, or because the ticket leaves for another team.
THEOREM NoStealAlways == Spec => NoSteal
<1>1. TypeOK /\ OwnersInv /\ [Next]_vars => [NoStealStep]_vars
  <2>. SUFFICES ASSUME TypeOK, OwnersInv, Next
                PROVE  NoStealStep
    BY DEF vars
  <2>1. CASE Tick
    BY <2>1, NothingTaken DEF Tick
  <2>2. ASSUME NEW r \in Request, Check(r) \/ Abort(r)
        PROVE  NoStealStep
    BY <2>2, NothingTaken DEF Check, AssignCheck, MoveCheck, Abort
  <2>. QED
    BY <2>1, <2>2, LoadTakesNothing, CommitTakesNothing DEF Next
<1>. QED
  BY <1>1, TypeCorrect, OwnersInit, OwnersStep, PTL DEF Spec, NoSteal

-----------------------------------------------------------------------------
(* The stamps. *)

\* A step that leaves status, stamps and birth alone, and stages no status
\* change, keeps StampsInv.
LEMMA StampsFrame ==
  ASSUME TypeOK, StampsInv,
         \A t \in Ticket : /\ tickets'[t].created_at = tickets[t].created_at
                           /\ tickets'[t].status = tickets[t].status
                           /\ tickets'[t].resolved_at = tickets[t].resolved_at
                           /\ tickets'[t].closed_at = tickets[t].closed_at,
         \A r \in Request : \/ txn'[r] = txn[r]
                            \/ txn'[r] = Idle
                            \/ txn'[r].call # "status"
  PROVE  StampsInv'
<1>1. StampsMatchStatus'
  BY DEF StampsInv, StampsMatchStatus
<1>2. ASSUME NEW r \in Request, Staged(r, "status")'
      PROVE  txn'[r] = txn[r] /\ Staged(r, "status") /\ txn[r].ticket \in Ticket
  BY <1>2, StagedTxn DEF Staged, StatusTxn, Idle
<1>. QED
  BY <1>1, <1>2 DEF StampsInv, Stored

LEMMA StampsLoad ==
  ASSUME TypeOK, StampsInv, NEW r \in Request, Load(r)
  PROVE  StampsInv'
<1>1. ASSUME NEW u \in User, NEW t \in Ticket, NEW c \in Category, CreateTicket(r, u, t, c)
      PROVE  StampsInv'
  <2>. DEFINE row == [Blank EXCEPT !.category = c, !.team = TeamOf[c],
                        !.created_at = now, !.sla_due_at = Due(now, c),
                        !.requester = {u}]
  <2>1. row.status = "open" /\ row.created_at = now
    BY DEF Blank
  <2>2. UNCHANGED txn /\ ~Stored(t) /\ now # Never
    BY <1>1 DEF CreateTicket, TypeOK
  <2>3. \A s \in Ticket : tickets'[s] = IF s = t THEN row ELSE tickets[s]
    BY <1>1 DEF CreateTicket, TypeOK
  <2>. HIDE DEF row
  <2>4. StampsMatchStatus'
    BY <2>1, <2>3 DEF StampsInv, StampsMatchStatus
  <2>5. ASSUME NEW q \in Request, Staged(q, "status")'
        PROVE  /\ Staged(q, "status") /\ txn[q].ticket \in Ticket
               /\ tickets'[txn[q].ticket] = tickets[txn[q].ticket]
    BY <2>2, <2>3, <2>5, StagedTxn DEF Staged, StatusTxn, Idle, StampsInv
  <2>. QED
    BY <2>2, <2>4, <2>5 DEF StampsInv, Stored
<1>2. ASSUME NEW u \in User, NEW t \in Ticket, NEW new \in Status, ChangeStatusLoad(r, u, t, new)
      PROVE  StampsInv'
  <2>. DEFINE x == [pc |-> "staged", call |-> "status", ticket |-> t, to |-> new,
                    resolved_at |-> Stamp("resolved", new, tickets[t].resolved_at),
                    closed_at |-> Stamp("closed", new, tickets[t].closed_at)]
  <2>1. txn' = [txn EXCEPT ![r] = x] /\ UNCHANGED tickets /\ Stored(t)
    BY <1>2 DEF ChangeStatusLoad, Begin, CallerSees, Visible
  <2>2. \A q \in Request : txn'[q] = IF q = r THEN x ELSE txn[q]
    BY <2>1 DEF TypeOK
  <2>3. /\ new = "resolved" => x.resolved_at # Never \/ tickets[t].resolved_at # Never
        /\ new = "closed" => x.closed_at # Never \/ tickets[t].closed_at # Never
    BY DEF Stamp, TypeOK
  <2>. QED
    BY <2>1, <2>2, <2>3 DEF StampsInv, StampsMatchStatus, Staged, Stored
<1>3. ASSUME UNCHANGED tickets, NEW x, x.call # "status", txn' = [txn EXCEPT ![r] = x]
      PROVE  StampsInv'
  BY <1>3, StampsFrame DEF TypeOK
<1>4. ASSUME NEW u \in User, NEW t \in Ticket, NEW to, AssignLoad(r, u, t, to)
      PROVE  StampsInv'
  BY <1>3, <1>4 DEF AssignLoad, Begin
<1>5. ASSUME NEW u \in User, NEW t \in Ticket, NEW fields \in Patches, EditLoad(r, u, t, fields)
      PROVE  StampsInv'
  BY <1>3, <1>5 DEF EditLoad, Begin
<1>6. ASSUME NEW u \in User, NEW t \in Ticket, NEW fields \in Patches, NEW c \in Category,
             MoveLoad(r, u, t, fields, c)
      PROVE  StampsInv'
  BY <1>3, <1>6 DEF MoveLoad, Begin
<1>7. ASSUME NEW u \in User, NEW t \in Ticket, DeleteLoad(r, u, t)
      PROVE  StampsInv'
  BY <1>3, <1>7 DEF DeleteLoad, Begin
<1>8. ASSUME NEW u \in User, NEW team \in Team,
             AddMemberLoad(r, u, team) \/ RemoveMemberLoad(r, u, team)
      PROVE  StampsInv'
  BY <1>3, <1>8 DEF AddMemberLoad, RemoveMemberLoad, Begin
<1>. QED
  BY <1>1, <1>2, <1>4, <1>5, <1>6, <1>7, <1>8 DEF Load, AssignTicket, ClaimTicket

LEMMA StampsCheck ==
  ASSUME TypeOK, StampsInv, NEW r \in Request, Check(r)
  PROVE  StampsInv'
<1>1. txn[r] \in AssignTxn \cup MoveTxn
  BY StagedTxn DEF Check, AssignCheck, MoveCheck
<1>2. txn'[r].call = txn[r].call /\ \A q \in Request : q # r => txn'[q] = txn[q]
  <2>1. CASE AssignCheck(r)
    BY <1>1, <2>1 DEF AssignCheck, TypeOK, AssignTxn, MoveTxn
  <2>2. CASE MoveCheck(r)
    BY <1>1, <2>2 DEF MoveCheck, TypeOK, AssignTxn, MoveTxn
  <2>. QED
    BY <2>1, <2>2 DEF Check
<1>3. txn[r].call # "status"
  BY <1>1 DEF AssignTxn, MoveTxn
<1>. QED
  BY <1>2, <1>3, StampsFrame DEF Check, AssignCheck, MoveCheck

LEMMA StampsCommit ==
  ASSUME TypeOK, StampsInv, NEW r \in Request, Commit(r)
  PROVE  StampsInv'
<1>. DEFINE x == txn[r]
<1>1. CASE ChangeStatusCommit(r)
  <2>1. x \in StatusTxn /\ Staged(r, "status")
    BY <1>1, StagedTxn DEF ChangeStatusCommit, Staged
  <2>2. tickets[x.ticket] \in Row /\ x.ticket \in Ticket
    BY <2>1 DEF TypeOK, StatusTxn
  <2>3. \A t \in Ticket : tickets'[t] = IF t = x.ticket
                                       THEN StatusUpdate(tickets[t], x) ELSE tickets[t]
    BY <1>1 DEF ChangeStatusCommit, TypeOK
  <2>4. /\ StatusUpdate(tickets[x.ticket], x).status = x.to
        /\ StatusUpdate(tickets[x.ticket], x).created_at = tickets[x.ticket].created_at
        /\ \/ x.resolved_at # Never \/ tickets[x.ticket].resolved_at # Never
           => StatusUpdate(tickets[x.ticket], x).resolved_at # Never
        /\ \/ x.closed_at # Never \/ tickets[x.ticket].closed_at # Never
           => StatusUpdate(tickets[x.ticket], x).closed_at # Never
    BY <2>2 DEF StatusUpdate, Row
  <2>5. StampsMatchStatus'
    BY <2>1, <2>3, <2>4 DEF StampsInv, StampsMatchStatus
  <2>6. ASSUME NEW q \in Request, Staged(q, "status")'
        PROVE  txn'[q] = txn[q] /\ Staged(q, "status") /\ txn[q].ticket \in Ticket
    BY <2>6, CommitEnds, StagedTxn DEF Staged, StatusTxn, Idle
  <2>. QED
    BY <2>3, <2>4, <2>5, <2>6 DEF StampsInv, Stored
<1>2. CASE ~ChangeStatusCommit(r)
  <2>1. ASSUME AssignCommit(r)
        PROVE  \A t \in Ticket : /\ tickets'[t].created_at = tickets[t].created_at
                                 /\ tickets'[t].status = tickets[t].status
                                 /\ tickets'[t].resolved_at = tickets[t].resolved_at
                                 /\ tickets'[t].closed_at = tickets[t].closed_at
    BY <2>1, AssignCommitOwners DEF AssignCommit, TypeOK, AssignTxn, Row
  <2>2. ASSUME MoveCommit(r)
        PROVE  \A t \in Ticket : /\ tickets'[t].created_at = tickets[t].created_at
                                 /\ tickets'[t].status = tickets[t].status
                                 /\ tickets'[t].resolved_at = tickets[t].resolved_at
                                 /\ tickets'[t].closed_at = tickets[t].closed_at
    <3>1. x \in MoveTxn
      BY <2>2, MoveCommitOwners
    <3>2. \A tk \in Row : /\ MoveUpdate(tk, x).created_at = tk.created_at
                          /\ MoveUpdate(tk, x).status = tk.status
                          /\ MoveUpdate(tk, x).resolved_at = tk.resolved_at
                          /\ MoveUpdate(tk, x).closed_at = tk.closed_at
      BY DEF MoveUpdate, Row
    <3>. QED
      BY <2>2, <3>1, <3>2 DEF MoveCommit, TypeOK, MoveTxn
  <2>3. ASSUME DeleteCommit(r) \/ EditCommit(r) \/ AddMemberCommit(r) \/ RemoveMemberCommit(r)
        PROVE  \A t \in Ticket : /\ tickets'[t].created_at = tickets[t].created_at
                                 /\ tickets'[t].status = tickets[t].status
                                 /\ tickets'[t].resolved_at = tickets[t].resolved_at
                                 /\ tickets'[t].closed_at = tickets[t].closed_at
    BY <2>3, StagedTxn DEF DeleteCommit, EditCommit, AddMemberCommit, RemoveMemberCommit,
         Staged, TypeOK, DeleteTxn, Row
  <2>. QED
    BY <1>2, <2>1, <2>2, <2>3, CommitEnds, StampsFrame DEF Commit
<1>. QED
  BY <1>1, <1>2

\* A resolved ticket says when, and so does a closed one, however many status
\* changes overlap.
THEOREM StampsAlwaysMatch == Spec => []StampsMatchStatus
<1>1. Init => StampsInv
  BY DEF Init, StampsInv, StampsMatchStatus, Staged, Blank, Idle
<1>2. TypeOK /\ StampsInv /\ [Next]_vars => StampsInv'
  <2>. SUFFICES ASSUME TypeOK, StampsInv, [Next]_vars
                PROVE  StampsInv'
    OBVIOUS
  <2>1. CASE Tick \/ UNCHANGED vars
    BY <2>1, StampsFrame DEF Tick, vars
  <2>2. ASSUME NEW r \in Request, Abort(r)
        PROVE  StampsInv'
    BY <2>2, StampsFrame DEF Abort, End, TypeOK
  <2>. QED
    BY <2>1, <2>2, StampsLoad, StampsCheck, StampsCommit DEF Next
<1>3. StampsInv => StampsMatchStatus
  BY DEF StampsInv
<1>. QED
  BY <1>1, <1>2, <1>3, TypeCorrect, PTL DEF Spec

-----------------------------------------------------------------------------
(* The list and the ticket page. *)

\* The SQL conditions and can_view() agree on any rows, whatever the caller's
\* team ids, so they agree in every state.
THEOREM ListedIsViewableAlways == Spec => []ListedIsViewable
<1>1. ASSUME NEW u \in User, NEW teams, NEW stored, NEW rows, stored = DOMAIN rows
      PROVE  VisibilityConditions([user |-> u, teams |-> teams], rows)
                = {t \in stored : CanView([user |-> u, teams |-> teams], rows[t])}
  BY <1>1 DEF VisibilityConditions, CanView, HasOwner
<1>2. ListedIsViewable
  <2>. DEFINE stored == {t \in Ticket : Visible(t)}
              rows == [t \in stored |-> tickets[t]]
  <2>. SUFFICES ASSUME NEW u \in Active
                PROVE  VisibilityConditions(Perms(u), rows)
                          = {t \in stored : CanView(Perms(u), tickets[t])}
    BY DEF ListedIsViewable
  <2>1. VisibilityConditions(Perms(u), rows) = {t \in stored : CanView(Perms(u), rows[t])}
    BY <1>1 DEF Perms, Active
  <2>2. {t \in stored : CanView(Perms(u), rows[t])} = {t \in stored : CanView(Perms(u), tickets[t])}
    OBVIOUS
  <2>. QED
    BY <2>1, <2>2
<1>. QED
  BY <1>2, PTL

-----------------------------------------------------------------------------
(* The serial service: one request at a time, on rows that nothing else     *)
(* writes, but that a sweep may flag as late.                              *)

OneAtATime == \A r, q \in Request : r = q

\* The row that the request in flight has loaded is still as it loaded it, and
\* what it is about to write follows from that row.
AsLoaded(x) ==
    /\ x.call \in {"status", "assign", "edit", "move", "delete"} => Stored(x.ticket)
    /\ x.call = "status" =>
        LET tk == tickets[x.ticket] IN
        /\ x.to \in ALLOWED_TRANSITIONS[tk.status]
        /\ IF x.to = "resolved" /\ tk.resolved_at = Never
           THEN x.resolved_at \in 1 .. MaxTime ELSE x.resolved_at = Never
        /\ IF x.to = "closed" /\ tk.closed_at = Never
           THEN x.closed_at \in 1 .. MaxTime ELSE x.closed_at = Never
    /\ x.call = "assign" =>
        /\ tickets[x.ticket].status # "closed"
        /\ x.from = tickets[x.ticket].assignee
        /\ x.team = tickets[x.ticket].team
        /\ x.pc = "staged" => \A a \in x.to : MayOwn(a, x.team)
    /\ x.call = "move" =>
        /\ x.team = tickets[x.ticket].team
        /\ x.due = tickets[x.ticket].sla_due_at
        /\ x.assignee = tickets[x.ticket].assignee
        /\ x.pc = "staged" =>
            /\ x.drops = IF TeamOf[x.category] # x.team THEN DropAssigneeOutsideTeam(x) ELSE {}
            /\ x.rooms = TicketRooms(tickets[x.ticket])

\* A ticket that was not raised has no history.
RowsInv ==
    /\ now \in 1 .. MaxTime
    /\ QueuedToItsCategory
    /\ \A t \in Ticket : ~Stored(t) =>
        /\ tickets[t].status = "open"
        /\ tickets[t].resolved_at = Never /\ tickets[t].closed_at = Never

\* The inductive invariant of the serial service.
SerialInv ==
    /\ RowsInv
    /\ \A r \in Request : txn[r] # Idle => AsLoaded(txn[r])

\* A step that keeps what SerialInv says of each row, and what the request in
\* flight has read, or ends that request.
LEMMA RowsFrame ==
  ASSUME TypeOK, RowsInv, now' \in 1 .. MaxTime,
         \A t \in Ticket :
            /\ tickets'[t].created_at = tickets[t].created_at
            /\ tickets'[t].category = tickets[t].category
            /\ tickets'[t].team = tickets[t].team
            /\ tickets'[t].sla_due_at = tickets[t].sla_due_at
            /\ \/ Stored(t)
               \/ /\ tickets'[t].status = tickets[t].status
                  /\ tickets'[t].resolved_at = tickets[t].resolved_at
                  /\ tickets'[t].closed_at = tickets[t].closed_at
  PROVE  RowsInv'
BY DEF RowsInv, QueuedToItsCategory, Stored

\* A step that leaves all of a row alone but whether it is late or deleted.
RowsKept ==
    \A t \in Ticket :
        /\ tickets'[t].created_at = tickets[t].created_at
        /\ tickets'[t].category = tickets[t].category
        /\ tickets'[t].team = tickets[t].team
        /\ tickets'[t].sla_due_at = tickets[t].sla_due_at
        /\ tickets'[t].status = tickets[t].status
        /\ tickets'[t].resolved_at = tickets[t].resolved_at
        /\ tickets'[t].closed_at = tickets[t].closed_at
        /\ tickets'[t].requester = tickets[t].requester
        /\ tickets'[t].assignee = tickets[t].assignee

LEMMA LoadedFrame ==
  ASSUME TypeOK, NEW r \in Request, txn[r] # Idle, AsLoaded(txn[r]),
         txn' = txn, members' = members,
         RowsKept
  PROVE  AsLoaded(txn[r])'
<1>. DEFINE x == txn[r]
<1>1. x.call \in {"status", "assign", "edit", "move", "delete", "add", "remove"}
  BY DEF TypeOK, Txn, StatusTxn, AssignTxn, EditTxn, MoveTxn, DeleteTxn, MemberTxn
<1>2. x.call \in {"status", "assign", "edit", "move", "delete"} => x.ticket \in Ticket
  BY StagedTxn DEF StatusTxn, AssignTxn, EditTxn, MoveTxn, DeleteTxn
<1>3. CASE x.call \in {"add", "remove", "edit", "delete"}
  BY <1>2, <1>3 DEF AsLoaded, Stored, RowsKept
<1>4. CASE x.call = "status"
  BY <1>2, <1>4 DEF AsLoaded, Stored, RowsKept
<1>5. CASE x.call = "assign"
  BY <1>2, <1>5 DEF AsLoaded, Stored, MayOwn, RowsKept
<1>6. CASE x.call = "move"
  <2>1. TicketRooms(tickets[x.ticket])' = TicketRooms(tickets[x.ticket])
    BY <1>2, <1>6 DEF TicketRooms, RowsKept
  <2>2. DropAssigneeOutsideTeam(txn[r])' = DropAssigneeOutsideTeam(x)
    BY DEF DropAssigneeOutsideTeam
  <2>. QED
    BY <1>2, <1>6, <2>1, <2>2 DEF AsLoaded, Stored, RowsKept
<1>. QED
  BY <1>1, <1>3, <1>4, <1>5, <1>6

LEMMA SerialBegin ==
  ASSUME OneAtATime, TypeOK, SerialInv, NEW r \in Request, NEW x,
         Begin(r, x), AsLoaded(x)
  PROVE  SerialInv'
<1>1. UNCHANGED <<tickets, members, now>> /\ txn'[r] = x
  BY DEF Begin, TypeOK
<1>2. RowsInv'
  BY <1>1 DEF SerialInv, RowsInv, QueuedToItsCategory, Stored
<1>3. AsLoaded(txn[r])'
  BY <1>1 DEF AsLoaded, Stored, MayOwn, DropAssigneeOutsideTeam
<1>. QED
  BY <1>2, <1>3 DEF SerialInv, OneAtATime

LEMMA SerialLoad ==
  ASSUME OneAtATime, TypeOK, SerialInv, NEW r \in Request, Load(r)
  PROVE  SerialInv'
<1>1. ASSUME NEW u \in User, NEW t \in Ticket, NEW c \in Category, CreateTicket(r, u, t, c)
      PROVE  SerialInv'
  <2>. DEFINE row == [Blank EXCEPT !.category = c, !.team = TeamOf[c],
                        !.created_at = now, !.sla_due_at = Due(now, c),
                        !.requester = {u}]
  <2>1. /\ row.category = c /\ row.team = TeamOf[c] /\ row.created_at = now
        /\ row.sla_due_at = Due(now, c)
    BY DEF Blank
  <2>2. \A s \in Ticket : tickets'[s] = IF s = t THEN row ELSE tickets[s]
    BY <1>1 DEF CreateTicket, TypeOK
  <2>3. now' = now /\ now # Never /\ \A q \in Request : txn'[q] = Idle
    BY <1>1 DEF CreateTicket, OneAtATime, TypeOK
  <2>. HIDE DEF row
  <2>4. RowsInv'
    BY <2>1, <2>2, <2>3 DEF SerialInv, RowsInv, QueuedToItsCategory, Stored
  <2>. QED
    BY <2>3, <2>4 DEF SerialInv
<1>2. ASSUME NEW u \in User, NEW t \in Ticket, NEW new \in Status, ChangeStatusLoad(r, u, t, new)
      PROVE  SerialInv'
  <2>. DEFINE x == [pc |-> "staged", call |-> "status", ticket |-> t, to |-> new,
                    resolved_at |-> Stamp("resolved", new, tickets[t].resolved_at),
                    closed_at |-> Stamp("closed", new, tickets[t].closed_at)]
  <2>1. Begin(r, x) /\ Stored(t) /\ new \in ALLOWED_TRANSITIONS[tickets[t].status]
    BY <1>2 DEF ChangeStatusLoad, CallerSees, Visible
  <2>2. AsLoaded(x)
    BY <2>1 DEF AsLoaded, Stamp, SerialInv, RowsInv
  <2>. QED
    BY <2>1, <2>2, SerialBegin
<1>3. ASSUME NEW u \in User, NEW t \in Ticket, NEW to, AssignLoad(r, u, t, to)
      PROVE  SerialInv'
  <2>. DEFINE x == [pc |-> "loaded", call |-> "assign", user |-> u, ticket |-> t,
                    from |-> tickets[t].assignee, to |-> to, team |-> tickets[t].team]
  <2>1. Begin(r, x) /\ Stored(t) /\ tickets[t].status # "closed"
    BY <1>3 DEF AssignLoad, CallerSees, Visible, RequireAssign, CanAssign
  <2>2. AsLoaded(x)
    BY <2>1 DEF AsLoaded
  <2>. QED
    BY <2>1, <2>2, SerialBegin
<1>4. ASSUME NEW u \in User, NEW t \in Ticket, NEW fields \in Patches, NEW c \in Category,
             MoveLoad(r, u, t, fields, c)
      PROVE  SerialInv'
  <2>. DEFINE x == [pc |-> "loaded", call |-> "move", ticket |-> t,
                    category |-> c, team |-> tickets[t].team, due |-> tickets[t].sla_due_at,
                    breached |-> tickets[t].sla_breached, assignee |-> tickets[t].assignee,
                    clears |-> FALSE, drops |-> {}, rooms |-> {}]
  <2>1. Begin(r, x) /\ Stored(t)
    BY <1>4 DEF MoveLoad, CallerSees, Visible
  <2>2. AsLoaded(x)
    BY <2>1 DEF AsLoaded
  <2>. QED
    BY <2>1, <2>2, SerialBegin
<1>5. ASSUME NEW u \in User, NEW t \in Ticket, NEW fields \in Patches, EditLoad(r, u, t, fields)
      PROVE  SerialInv'
  <2>1. AsLoaded([pc |-> "staged", call |-> "edit", ticket |-> t])
    BY <1>5 DEF EditLoad, CallerSees, Visible, AsLoaded
  <2>. QED
    BY <1>5, <2>1, SerialBegin DEF EditLoad
<1>6. ASSUME NEW u \in User, NEW t \in Ticket, DeleteLoad(r, u, t)
      PROVE  SerialInv'
  <2>1. AsLoaded([pc |-> "staged", call |-> "delete", ticket |-> t])
    BY <1>6 DEF DeleteLoad, CallerSees, Visible, AsLoaded
  <2>. QED
    BY <1>6, <2>1, SerialBegin DEF DeleteLoad
<1>7. ASSUME NEW u \in User, NEW team \in Team,
             AddMemberLoad(r, u, team) \/ RemoveMemberLoad(r, u, team)
      PROVE  SerialInv'
  <2>1. \A call \in {"add", "remove"} :
            AsLoaded([pc |-> "staged", call |-> call, member |-> u, team |-> team])
    BY DEF AsLoaded
  <2>. QED
    BY <1>7, <2>1, SerialBegin DEF AddMemberLoad, RemoveMemberLoad
<1>. QED
  BY <1>1, <1>2, <1>3, <1>4, <1>5, <1>6, <1>7 DEF Load, AssignTicket, ClaimTicket

LEMMA SerialCheck ==
  ASSUME OneAtATime, TypeOK, SerialInv, NEW r \in Request, Check(r)
  PROVE  SerialInv'
<1>. DEFINE x == txn[r]
<1>1. UNCHANGED <<tickets, members, now>>
  BY DEF Check, AssignCheck, MoveCheck
<1>2. RowsInv'
  BY <1>1 DEF SerialInv, RowsInv, QueuedToItsCategory, Stored
<1>3. CASE AssignCheck(r)
  <2>1. x \in AssignTxn /\ x # Idle /\ x.call = "assign" /\ AsLoaded(x)
    BY <1>3, StagedTxn DEF AssignCheck, Idle, SerialInv
  <2>2. txn'[r] = [x EXCEPT !.pc = "staged"] /\ \A a \in x.to : MayOwn(a, x.team)
    BY <1>3 DEF AssignCheck, TypeOK
  <2>3. /\ txn'[r].call = "assign" /\ txn'[r].ticket = x.ticket /\ txn'[r].from = x.from
        /\ txn'[r].team = x.team /\ txn'[r].to = x.to
    BY <2>1, <2>2 DEF AssignTxn
  <2>4. AsLoaded(txn[r])'
    BY <1>1, <2>1, <2>2, <2>3 DEF AsLoaded, Stored, MayOwn
  <2>. QED
    BY <1>2, <2>4 DEF SerialInv, OneAtATime
<1>4. CASE MoveCheck(r)
  <2>. DEFINE drops == IF TeamOf[x.category] # x.team THEN DropAssigneeOutsideTeam(x) ELSE {}
              rooms == TicketRooms(tickets[x.ticket])
              clears == x.breached /\ NewDue(x) > now
  <2>1. x \in MoveTxn /\ x # Idle /\ x.call = "move" /\ AsLoaded(x)
    BY <1>4, StagedTxn DEF MoveCheck, Idle, SerialInv
  <2>2. txn'[r] = [x EXCEPT !.pc = "staged", !.clears = clears, !.drops = drops,
                            !.rooms = rooms]
    BY <1>4 DEF MoveCheck, TypeOK
  <2>. HIDE DEF drops, rooms, clears
  <2>3. /\ txn'[r].call = "move" /\ txn'[r].ticket = x.ticket /\ txn'[r].team = x.team
        /\ txn'[r].due = x.due /\ txn'[r].assignee = x.assignee /\ txn'[r].drops = drops
        /\ txn'[r].category = x.category /\ txn'[r].rooms = rooms
    BY <2>1, <2>2 DEF MoveTxn
  <2>4. rooms = TicketRooms(tickets'[x.ticket])
    BY <1>1 DEF rooms
  <2>5. drops = IF TeamOf[x.category] # x.team
                THEN DropAssigneeOutsideTeam(txn[r])' ELSE {}
    BY <1>1, <2>3 DEF drops, DropAssigneeOutsideTeam
  <2>6. AsLoaded(txn[r])'
    BY <1>1, <2>1, <2>3, <2>4, <2>5 DEF AsLoaded, Stored
  <2>. QED
    BY <1>2, <2>6 DEF SerialInv, OneAtATime
<1>. QED
  BY <1>3, <1>4 DEF Check

\* What a category change makes of the row that it had loaded.
LEMMA MoveCommitRow ==
  ASSUME TypeOK, NEW r \in Request, MoveCommit(r), AsLoaded(txn[r])
  PROVE  LET x == txn[r] IN
         /\ tickets'[x.ticket].category = x.category
         /\ tickets'[x.ticket].team = TeamOf[x.category]
         /\ tickets'[x.ticket].sla_due_at = Due(tickets[x.ticket].created_at, x.category)
         /\ tickets'[x.ticket].team # tickets[x.ticket].team
                => tickets'[x.ticket].assignee
                    = tickets[x.ticket].assignee \ DropAssigneeOutsideTeam(x)
         /\ tickets'[x.ticket].team = tickets[x.ticket].team
                => tickets'[x.ticket].assignee = tickets[x.ticket].assignee
         /\ tickets'[x.ticket].status = tickets[x.ticket].status
         /\ tickets'[x.ticket].resolved_at = tickets[x.ticket].resolved_at
         /\ tickets'[x.ticket].closed_at = tickets[x.ticket].closed_at
<1>. DEFINE x == txn[r]
            tk == tickets[x.ticket]
<1>1. x \in MoveTxn /\ x.call = "move" /\ x.pc = "staged" /\ tk \in Row /\ x.ticket \in Ticket
  BY MoveCommitOwners DEF MoveCommit, Staged, MoveTxn, TypeOK
<1>2. tickets'[x.ticket] = MoveUpdate(tk, x)
  BY <1>1 DEF MoveCommit, TypeOK
<1>3. /\ x.team = tk.team /\ x.due = tk.sla_due_at
      /\ x.drops = IF TeamOf[x.category] # x.team THEN DropAssigneeOutsideTeam(x) ELSE {}
  BY <1>1 DEF AsLoaded
<1>4. /\ MoveUpdate(tk, x).category = x.category
      /\ MoveUpdate(tk, x).team = IF TeamOf[x.category] # x.team THEN TeamOf[x.category]
                                                                 ELSE tk.team
      /\ MoveUpdate(tk, x).sla_due_at = IF NewDue(x) # x.due THEN NewDue(x) ELSE tk.sla_due_at
      /\ MoveUpdate(tk, x).assignee = tk.assignee \ x.drops
      /\ MoveUpdate(tk, x).status = tk.status
      /\ MoveUpdate(tk, x).resolved_at = tk.resolved_at
      /\ MoveUpdate(tk, x).closed_at = tk.closed_at
  BY <1>1 DEF MoveUpdate, Row
<1>. QED
  BY <1>2, <1>3, <1>4 DEF NewDue

\* What a commit other than of a category change leaves of the row.
LEMMA OtherCommitRow ==
  ASSUME TypeOK, NEW r \in Request, Commit(r), ~MoveCommit(r), NEW t \in Ticket
  PROVE  /\ tickets'[t].created_at = tickets[t].created_at
         /\ tickets'[t].category = tickets[t].category
         /\ tickets'[t].team = tickets[t].team
         /\ tickets'[t].sla_due_at = tickets[t].sla_due_at
         /\ tickets'[t].requester = tickets[t].requester
         /\ ~AssignCommit(r) => tickets'[t].assignee = tickets[t].assignee
         /\ ~ChangeStatusCommit(r) =>
                /\ tickets'[t].status = tickets[t].status
                /\ tickets'[t].resolved_at = tickets[t].resolved_at
                /\ tickets'[t].closed_at = tickets[t].closed_at
         /\ \/ tickets'[t] = tickets[t]
            \/ t = txn[r].ticket /\ txn[r].call \in {"status", "assign", "delete"}
<1>. DEFINE x == txn[r]
<1>1. CASE ChangeStatusCommit(r)
  <2>1. x.call = "status" /\ tickets' = [tickets EXCEPT ![x.ticket] = StatusUpdate(@, x)]
    BY <1>1 DEF ChangeStatusCommit, Staged
  <2>2. \A tk \in Row :
            /\ StatusUpdate(tk, x).created_at = tk.created_at
            /\ StatusUpdate(tk, x).category = tk.category
            /\ StatusUpdate(tk, x).team = tk.team
            /\ StatusUpdate(tk, x).sla_due_at = tk.sla_due_at
            /\ StatusUpdate(tk, x).requester = tk.requester
            /\ StatusUpdate(tk, x).assignee = tk.assignee
    BY DEF StatusUpdate, Row
  <2>3. IF t = x.ticket THEN tickets'[t] = StatusUpdate(tickets[t], x)
                        ELSE tickets'[t] = tickets[t]
    BY <2>1 DEF TypeOK
  <2>4. tickets[t] \in Row
    BY DEF TypeOK
  <2>. QED
    BY <1>1, <2>1, <2>2, <2>3, <2>4
<1>2. CASE AssignCommit(r)
  <2>1. /\ x.call = "assign"
        /\ \E assignee : tickets'[t] = IF t = x.ticket
                                        THEN [tickets[t] EXCEPT !.assignee = assignee]
                                        ELSE tickets[t]
    BY <1>2 DEF AssignCommit, Staged, TypeOK
  <2>2. tickets[t] \in Row
    BY DEF TypeOK
  <2>3. \A tk \in Row : \A assignee : LET new == [tk EXCEPT !.assignee = assignee] IN
            /\ new.created_at = tk.created_at /\ new.category = tk.category
            /\ new.team = tk.team /\ new.sla_due_at = tk.sla_due_at
            /\ new.requester = tk.requester /\ new.status = tk.status
            /\ new.resolved_at = tk.resolved_at /\ new.closed_at = tk.closed_at
    BY DEF Row
  <2>. QED
    BY <1>2, <2>1, <2>2, <2>3
<1>3. CASE DeleteCommit(r)
  <2>1. /\ x.call = "delete"
        /\ tickets'[t] = IF t = x.ticket THEN [tickets[t] EXCEPT !.deleted = TRUE]
                                         ELSE tickets[t]
    BY <1>3 DEF DeleteCommit, Staged, TypeOK
  <2>2. tickets[t] \in Row
    BY DEF TypeOK
  <2>3. \A tk \in Row : LET new == [tk EXCEPT !.deleted = TRUE] IN
            /\ new.created_at = tk.created_at /\ new.category = tk.category
            /\ new.team = tk.team /\ new.sla_due_at = tk.sla_due_at
            /\ new.requester = tk.requester /\ new.assignee = tk.assignee
            /\ new.status = tk.status
            /\ new.resolved_at = tk.resolved_at /\ new.closed_at = tk.closed_at
    BY DEF Row
  <2>. QED
    BY <2>1, <2>2, <2>3
<1>4. CASE EditCommit(r) \/ AddMemberCommit(r) \/ RemoveMemberCommit(r)
  BY <1>4 DEF EditCommit, AddMemberCommit, RemoveMemberCommit
<1>. QED
  BY <1>1, <1>2, <1>3, <1>4 DEF Commit

LEMMA CommitBusy ==
  ASSUME NEW r \in Request, Commit(r)
  PROVE  txn[r] # Idle /\ txn[r].pc = "staged" /\ UNCHANGED now
BY DEF Commit, ChangeStatusCommit, AssignCommit, EditCommit, MoveCommit, DeleteCommit,
       AddMemberCommit, RemoveMemberCommit, Staged, Idle

LEMMA SerialCommit ==
  ASSUME OneAtATime, TypeOK, SerialInv, NEW r \in Request, Commit(r)
  PROVE  SerialInv'
<1>. DEFINE x == txn[r]
<1>1. AsLoaded(x) /\ x # Idle /\ now' = now
  BY CommitBusy DEF SerialInv
<1>2. \A q \in Request : txn'[q] = Idle
  BY CommitEnds DEF OneAtATime
<1>3. CASE MoveCommit(r)
  <2>1. x.ticket \in Ticket /\ x.call = "move"
    BY <1>3, MoveCommitOwners DEF MoveTxn
  <2>2. \A t \in Ticket : /\ t # x.ticket => tickets'[t] = tickets[t]
                          /\ tickets'[t].created_at = tickets[t].created_at
    BY <1>3, MoveCommitOwners
  <2>3. Stored(x.ticket)
    BY <1>1, <2>1 DEF AsLoaded
  <2>4. /\ tickets'[x.ticket].category = x.category
        /\ tickets'[x.ticket].team = TeamOf[x.category]
        /\ tickets'[x.ticket].sla_due_at = Due(tickets[x.ticket].created_at, x.category)
    BY <1>1, <1>3, MoveCommitRow
  <2>5. RowsInv'
    BY <1>1, <2>1, <2>2, <2>3, <2>4 DEF SerialInv, RowsInv, QueuedToItsCategory, Stored
  <2>. QED
    BY <1>2, <2>5 DEF SerialInv
<1>4. CASE ~MoveCommit(r)
  <2>1. ASSUME NEW t \in Ticket
        PROVE  Stored(t) \/ tickets'[t] = tickets[t]
    <3>1. CASE t = x.ticket /\ x.call \in {"status", "assign", "delete"}
      BY <1>1, <3>1 DEF AsLoaded
    <3>. QED
      BY <1>4, <3>1, OtherCommitRow
  <2>2. RowsInv
    BY DEF SerialInv
  <2>3. now' \in 1 .. MaxTime
    BY <1>1, <2>2 DEF RowsInv
  <2>4. RowsInv'
    BY <1>4, <2>1, <2>2, <2>3, OtherCommitRow, RowsFrame
  <2>. QED
    BY <1>2, <2>4 DEF SerialInv
<1>. QED
  BY <1>3, <1>4

LEMMA SerialNext ==
  ASSUME OneAtATime, TypeOK, SerialInv, [Next]_vars
  PROVE  SerialInv'
<1>1. CASE Tick
  <2>1. UNCHANGED <<tickets, members, txn>> /\ now' \in 1 .. MaxTime
    BY <1>1, BoundAssumption DEF Tick, SerialInv, RowsInv
  <2>2. RowsInv'
    BY <2>1, RowsFrame DEF SerialInv
  <2>. QED
    BY <2>1, <2>2, LoadedFrame DEF SerialInv, RowsKept
<1>2. ASSUME NEW r \in Request, Abort(r)
      PROVE  SerialInv'
  <2>1. UNCHANGED <<tickets, now>> /\ \A q \in Request : txn'[q] = Idle
    BY <1>2 DEF Abort, End, OneAtATime, TypeOK
  <2>2. RowsInv'
    BY <2>1, RowsFrame DEF SerialInv, RowsInv
  <2>. QED
    BY <2>1, <2>2 DEF SerialInv
<1>3. CASE UNCHANGED vars
  <2>1. UNCHANGED <<tickets, members, now, txn>>
    BY <1>3 DEF vars
  <2>2. RowsInv'
    BY <2>1, RowsFrame DEF SerialInv, RowsInv
  <2>. QED
    BY <2>1, <2>2, LoadedFrame DEF SerialInv, RowsKept
<1>. QED
  BY <1>1, <1>2, <1>3, SerialLoad, SerialCheck, SerialCommit DEF Next

LEMMA SerialInit == Init => SerialInv
<1>. SUFFICES ASSUME Init
              PROVE  SerialInv
  OBVIOUS
<1>1. \A t \in Ticket : /\ ~Stored(t) /\ tickets[t].status = "open"
                        /\ tickets[t].resolved_at = Never
                        /\ tickets[t].closed_at = Never
  BY DEF Init, Stored, Blank
<1>2. now \in 1 .. MaxTime
  BY BoundAssumption DEF Init
<1>3. \A r \in Request : txn[r] = Idle
  BY DEF Init
<1>. QED
  BY <1>1, <1>2, <1>3 DEF SerialInv, RowsInv, QueuedToItsCategory

LEMMA SerialInvAlways ==
  ASSUME OneAtATime
  PROVE  Spec => []SerialInv
<1>1. TypeOK /\ SerialInv /\ [Next]_vars => SerialInv'
  BY SerialNext
<1>. QED
  BY <1>1, SerialInit, TypeCorrect, PTL DEF Spec

\* One request at a time, a ticket is queued to the team of its category and due
\* when that category says, counted from the day it was raised: moves keep both
\* in step, although each writes only the columns that differ.
THEOREM QueuedToItsCategorySerially ==
  ASSUME OneAtATime
  PROVE  Spec => []QueuedToItsCategory
<1>1. SerialInv => QueuedToItsCategory
  BY DEF SerialInv, RowsInv
<1>. QED
  BY <1>1, SerialInvAlways, PTL

\* A load that raises no ticket changes no row.
LEMMA LoadRows ==
  ASSUME NEW r \in Request, Load(r)
  PROVE  \/ \E u \in User, t \in Ticket, c \in Category : CreateTicket(r, u, t, c)
         \/ UNCHANGED tickets /\ effects' = NoEffects
BY DEF Load, Begin, ChangeStatusLoad, AssignTicket, ClaimTicket, AssignLoad, EditLoad,
       MoveLoad, DeleteLoad, AddMemberLoad, RemoveMemberLoad

LEMMA CreatedRow ==
  ASSUME TypeOK, NEW r \in Request, NEW u \in User, NEW t \in Ticket, NEW c \in Category,
         CreateTicket(r, u, t, c)
  PROVE  /\ ~Stored(t) /\ tickets'[t].created_at # Never
         /\ tickets'[t].status = "open"
         /\ tickets'[t].assignee = {}
         /\ tickets'[t].resolved_at = Never /\ tickets'[t].closed_at = Never
         /\ \A s \in Ticket : s # t => tickets'[s] = tickets[s]
         /\ effects'.ticket = t /\ effects'.rooms = TicketRooms(tickets'[t])
<1>. DEFINE row == [Blank EXCEPT !.category = c, !.team = TeamOf[c],
                      !.created_at = now, !.sla_due_at = Due(now, c),
                      !.requester = {u}]
<1>1. /\ row.created_at = now /\ row.status = "open" /\ row.assignee = {}
      /\ row.resolved_at = Never /\ row.closed_at = Never
  BY DEF Blank
<1>2. \A s \in Ticket : tickets'[s] = IF s = t THEN row ELSE tickets[s]
  BY DEF CreateTicket, TypeOK
<1>3. effects'.ticket = t /\ effects'.rooms = TicketRooms(row)
  BY DEF CreateTicket, Committed
<1>4. ~Stored(t) /\ now # Never
  BY DEF CreateTicket, TypeOK
<1>. HIDE DEF row
<1>. QED
  BY <1>1, <1>2, <1>3, <1>4 DEF Stored

-----------------------------------------------------------------------------
(* The assignee and its team. *)

LEMMA CommitJoinsTeam ==
  ASSUME TypeOK, SerialInv, NEW r \in Request, Commit(r)
  PROVE  JoinsTeamStep
<1>. DEFINE x == txn[r]
<1>1. AsLoaded(x) /\ x.pc = "staged"
  BY CommitBusy DEF SerialInv
<1>2. CASE AssignCommit(r)
  <2>1. x.call = "assign" /\ ~MoveCommit(r)
    BY <1>2 DEF AssignCommit, MoveCommit, Staged
  <2>2. /\ tickets'[x.ticket].assignee = (tickets[x.ticket].assignee \ x.from) \cup x.to
        /\ \A t \in Ticket : t # x.ticket => tickets'[t] = tickets[t]
    BY <1>2, AssignCommitOwners
  <2>3. /\ x.from = tickets[x.ticket].assignee /\ x.team = tickets[x.ticket].team
        /\ \A a \in x.to : MayOwn(a, x.team)
    BY <1>1, <2>1 DEF AsLoaded
  <2>4. \A t \in Ticket : tickets'[t].team = tickets[t].team
    BY <2>1, OtherCommitRow
  <2>. QED
    BY <2>2, <2>3, <2>4 DEF JoinsTeamStep, MayOwn
<1>3. CASE MoveCommit(r)
  <2>1. x.call = "move" /\ \A t \in Ticket : t # x.ticket => tickets'[t] = tickets[t]
    BY <1>3, MoveCommitOwners DEF MoveTxn
  <2>2. /\ tickets'[x.ticket].team = TeamOf[x.category]
        /\ tickets'[x.ticket].team # tickets[x.ticket].team
               => tickets'[x.ticket].assignee
                    = tickets[x.ticket].assignee \ DropAssigneeOutsideTeam(x)
        /\ tickets'[x.ticket].team = tickets[x.ticket].team
               => tickets'[x.ticket].assignee = tickets[x.ticket].assignee
    BY <1>1, <1>3, MoveCommitRow
  <2>3. x.assignee = tickets[x.ticket].assignee
    BY <1>1, <2>1 DEF AsLoaded
  <2>. QED
    BY <2>1, <2>2, <2>3 DEF JoinsTeamStep, DropAssigneeOutsideTeam
<1>4. CASE ~AssignCommit(r) /\ ~MoveCommit(r)
  BY <1>4, OtherCommitRow DEF JoinsTeamStep
<1>. QED
  BY <1>2, <1>3, <1>4

\* One request at a time, whoever a ticket is given to can work on it: the check
\* of an assignment and the drop of a move read the memberships that hold when
\* they write.
THEOREM AssigneeJoinsTeamSerially ==
  ASSUME OneAtATime
  PROVE  Spec => AssigneeJoinsTeam
<1>1. TypeOK /\ SerialInv /\ [Next]_vars => [JoinsTeamStep]_vars
  <2>. SUFFICES ASSUME TypeOK, SerialInv, Next
                PROVE  JoinsTeamStep
    BY DEF vars
  <2>1. CASE UNCHANGED tickets
    BY <2>1 DEF JoinsTeamStep
  <2>2. ASSUME NEW r \in Request, NEW u \in User, NEW t \in Ticket, NEW c \in Category,
               CreateTicket(r, u, t, c)
        PROVE  JoinsTeamStep
    BY <2>2, CreatedRow DEF JoinsTeamStep
  <2>. QED
    BY <2>1, <2>2, LoadRows, CommitJoinsTeam
       DEF Next, Tick, Check, AssignCheck, MoveCheck, Abort
<1>. QED
  BY <1>1, SerialInvAlways, TypeCorrect, PTL DEF Spec, AssigneeJoinsTeam

-----------------------------------------------------------------------------
(* Closed is final. *)

LEMMA CommitLeavesClosed ==
  ASSUME TypeOK, SerialInv, NEW r \in Request, Commit(r)
  PROVE  ClosedIsFinalStep
<1>. DEFINE x == txn[r]
<1>1. AsLoaded(x)
  BY CommitBusy DEF SerialInv
<1>2. CASE MoveCommit(r)
  <2>1. /\ tickets'[x.ticket].status = tickets[x.ticket].status
        /\ tickets'[x.ticket].assignee \subseteq tickets[x.ticket].assignee
        /\ \A t \in Ticket : t # x.ticket => tickets'[t] = tickets[t]
    BY <1>1, <1>2, MoveCommitOwners, MoveCommitRow
  <2>. QED
    BY <2>1 DEF ClosedIsFinalStep
<1>3. CASE ~MoveCommit(r)
  <2>1. ASSUME NEW t \in Ticket, tickets[t].status = "closed"
        PROVE  ~(t = x.ticket /\ x.call \in {"status", "assign"})
    BY <1>1, <2>1 DEF AsLoaded, ALLOWED_TRANSITIONS
  <2>2. /\ AssignCommit(r) => x.call = "assign"
        /\ ChangeStatusCommit(r) => x.call = "status"
    BY DEF AssignCommit, ChangeStatusCommit, Staged
  <2>3. ASSUME NEW t \in Ticket, tickets[t].status = "closed"
        PROVE  /\ tickets'[t].status = "closed"
               /\ tickets'[t].assignee \subseteq tickets[t].assignee
    BY <1>3, <2>1, <2>2, <2>3, OtherCommitRow
  <2>. QED
    BY <2>3 DEF ClosedIsFinalStep
<1>. QED
  BY <1>2, <1>3

\* One request at a time, a closed ticket stays closed and gets no new assignee.
THEOREM ClosedIsFinalSerially ==
  ASSUME OneAtATime
  PROVE  Spec => ClosedIsFinal
<1>1. TypeOK /\ SerialInv /\ [Next]_vars => [ClosedIsFinalStep]_vars
  <2>. SUFFICES ASSUME TypeOK, SerialInv, Next
                PROVE  ClosedIsFinalStep
    BY DEF vars
  <2>1. CASE UNCHANGED tickets
    BY <2>1 DEF ClosedIsFinalStep
  <2>2. ASSUME NEW r \in Request, NEW u \in User, NEW t \in Ticket, NEW c \in Category,
               CreateTicket(r, u, t, c)
        PROVE  ClosedIsFinalStep
    BY <2>2, CreatedRow DEF ClosedIsFinalStep, SerialInv, RowsInv
  <2>. QED
    BY <2>1, <2>2, LoadRows, CommitLeavesClosed
       DEF Next, Tick, Check, AssignCheck, MoveCheck, Abort
<1>. QED
  BY <1>1, SerialInvAlways, TypeCorrect, PTL DEF Spec, ClosedIsFinal

-----------------------------------------------------------------------------
(* The rooms of an event. *)

\* The rooms that a socket joins and the rooms of a ticket meet exactly where
\* can_view() lets its user see the ticket.
LEMMA RoomsTellViewers ==
  ASSUME NEW u \in User, NEW tk \in Row
  PROVE  RoomsFor(Perms(u)) \cap TicketRooms(tk) # {} <=> CanView(Perms(u), tk)
<1>. DEFINE p == Perms(u)
<1>1. p.user = u /\ p.teams = IF IsStaff(u) THEN {g \in Team : u \in members[g]} ELSE {}
  BY DEF Perms, LoadTeamIds
<1>2. tk.team \in Team /\ tk.requester \subseteq User /\ tk.assignee \subseteq User
  BY DEF Row
<1>3. AllTicketsRoom \in RoomsFor(p) <=> SeesAll(u)
  BY <1>1 DEF RoomsFor, AllTicketsRoom
<1>4. \A g : <<"team", g>> \in RoomsFor(p) <=> IsStaff(u) /\ g \in p.teams
  BY <1>1 DEF RoomsFor, AllTicketsRoom
<1>5. \A v : <<"user", v>> \in RoomsFor(p) <=> v = u
  BY <1>1 DEF RoomsFor, AllTicketsRoom
<1>6. \A room : room \in TicketRooms(tk) <=>
            \/ room = AllTicketsRoom
            \/ room = <<"team", tk.team>>
            \/ \E v \in tk.requester \cup tk.assignee : room = <<"user", v>>
  BY DEF TicketRooms
<1>. HIDE DEF p
<1>7. RoomsFor(p) \cap TicketRooms(tk) # {} <=>
            \/ SeesAll(u)
            \/ IsStaff(u) /\ tk.team \in p.teams
            \/ u \in tk.requester \cup tk.assignee
  <2>. DEFINE both == RoomsFor(p) \cap TicketRooms(tk)
  <2>1. ASSUME both # {}
        PROVE  \/ SeesAll(u)
               \/ IsStaff(u) /\ tk.team \in p.teams
               \/ u \in tk.requester \cup tk.assignee
    <3>1. PICK room \in both : TRUE
      BY <2>1
    <3>2. room \in RoomsFor(p) /\ room \in TicketRooms(tk)
      BY <3>1
    <3>3. CASE room = AllTicketsRoom
      BY <1>3, <3>2, <3>3
    <3>4. CASE room = <<"team", tk.team>>
      BY <1>4, <3>2, <3>4
    <3>5. ASSUME NEW v \in tk.requester \cup tk.assignee, room = <<"user", v>>
          PROVE  u = v
      BY <1>5, <3>2, <3>5
    <3>. QED
      BY <1>6, <3>2, <3>3, <3>4, <3>5
  <2>2. /\ SeesAll(u) => AllTicketsRoom \in both
        /\ IsStaff(u) /\ tk.team \in p.teams => <<"team", tk.team>> \in both
        /\ u \in tk.requester \cup tk.assignee => <<"user", u>> \in both
    BY <1>3, <1>4, <1>5, <1>6
  <2>. QED
    BY <2>1, <2>2
<1>. QED
  BY <1>1, <1>7 DEF p, CanView, HasOwner

LEMMA CommitRooms ==
  ASSUME TypeOK, SerialInv, NEW r \in Request, Commit(r)
  PROVE  RoomsMatchStep
<1>. DEFINE x == txn[r]
            t == x.ticket
            sees(u, tk) == CanView(Perms(u), tk)
            hears(u) == RoomsFor(Perms(u)) \cap effects'.rooms # {}
            before(u) == Stored(t) /\ sees(u, tickets[t])
            lost(u) == u \in tickets[t].assignee
                          /\ effects'.action \in {"assigned", "unassigned"}
<1>1. AsLoaded(x) /\ TypeOK'
  BY CommitBusy, CommitTypeOK DEF SerialInv
<1>2. CASE ChangeStatusCommit(r) \/ EditCommit(r) \/ DeleteCommit(r)
  <2>1. t \in Ticket
    BY <1>2, StagedTxn DEF ChangeStatusCommit, EditCommit, DeleteCommit, Staged,
                           StatusTxn, EditTxn, DeleteTxn
  <2>2. /\ effects'.ticket = t /\ effects'.rooms = TicketRooms(tickets[t])
        /\ effects'.action \in {"status_changed", "updated", "deleted"}
    BY <1>2 DEF ChangeStatusCommit, EditCommit, DeleteCommit, Committed
  <2>3. /\ Stored(t)
        /\ ~MoveCommit(r) /\ ~AssignCommit(r)
    BY <1>1, <1>2 DEF AsLoaded, ChangeStatusCommit, EditCommit, DeleteCommit, MoveCommit,
                      AssignCommit, Staged
  <2>4. ASSUME NEW u \in User
        PROVE  /\ hears(u) <=> sees(u, tickets[t])
               /\ sees(u, tickets'[t]) <=> sees(u, tickets[t])
    <3>1. tickets[t] \in Row
      BY <2>1 DEF TypeOK
    <3>2. hears(u) <=> sees(u, tickets[t])
      BY <2>2, <3>1, RoomsTellViewers
    <3>3. /\ tickets'[t].team = tickets[t].team
          /\ tickets'[t].requester = tickets[t].requester
          /\ tickets'[t].assignee = tickets[t].assignee
      BY <2>1, <2>3, OtherCommitRow
    <3>4. sees(u, tickets'[t]) <=> sees(u, tickets[t])
      BY <3>3 DEF CanView, HasOwner
    <3>. QED
      BY <3>2, <3>4
  <2>. QED
    BY <2>2, <2>3, <2>4 DEF RoomsMatchStep, Active
<1>3. CASE AssignCommit(r)
  <2>1. t \in Ticket /\ ~MoveCommit(r)
    BY <1>3, AssignCommitOwners DEF AssignTxn, AssignCommit, MoveCommit, Staged
  <2>2. /\ effects'.ticket = t /\ effects'.rooms = TicketRooms(tickets'[t])
        /\ effects'.action \in {"assigned", "unassigned"}
    BY <1>3, <2>1 DEF AssignCommit, TypeOK
  <2>3. /\ tickets'[t].team = tickets[t].team
        /\ tickets'[t].requester = tickets[t].requester
    BY <2>1, OtherCommitRow
  <2>4. tickets'[t] \in Row
    BY <1>1, <2>1 DEF TypeOK
  <2>5. ASSUME NEW u \in User
        PROVE  /\ hears(u) <=> sees(u, tickets'[t])
               /\ before(u) /\ ~lost(u) => sees(u, tickets'[t])
    <3>1. hears(u) <=> sees(u, tickets'[t])
      BY <2>2, <2>4, RoomsTellViewers
    <3>2. before(u) /\ ~lost(u) => sees(u, tickets'[t])
      BY <2>2, <2>3 DEF CanView, HasOwner, Perms
    <3>. QED
      BY <3>1, <3>2
  <2>. QED
    BY <2>2, <2>5 DEF RoomsMatchStep, Active
<1>4. CASE MoveCommit(r)
  <2>1. t \in Ticket /\ x.call = "move" /\ x.pc = "staged"
    BY <1>4, MoveCommitOwners DEF MoveTxn, MoveCommit, Staged
  <2>2. Stored(t) /\ x.rooms = TicketRooms(tickets[t])
    BY <1>1, <2>1 DEF AsLoaded
  <2>3. /\ effects'.ticket = t
        /\ effects'.rooms = TicketRooms(tickets[t]) \cup TicketRooms(tickets'[t])
        /\ effects'.action = "moved"
    BY <1>4, <2>1, <2>2 DEF MoveCommit, Committed, TypeOK
  <2>4. tickets[t] \in Row /\ tickets'[t] \in Row
    BY <1>1, <2>1 DEF TypeOK
  <2>5. ASSUME NEW u \in User
        PROVE  hears(u) <=> sees(u, tickets[t]) \/ sees(u, tickets'[t])
    <3>1. hears(u) <=> \/ RoomsFor(Perms(u)) \cap TicketRooms(tickets[t]) # {}
                       \/ RoomsFor(Perms(u)) \cap TicketRooms(tickets'[t]) # {}
      BY <2>3
    <3>. QED
      BY <2>4, <3>1, RoomsTellViewers
  <2>. QED
    BY <2>2, <2>3, <2>5 DEF RoomsMatchStep, Active
<1>5. CASE AddMemberCommit(r) \/ RemoveMemberCommit(r)
  BY <1>5 DEF AddMemberCommit, RemoveMemberCommit, NoEffects, RoomsMatchStep
<1>. QED
  BY <1>2, <1>3, <1>4, <1>5 DEF Commit

\* One request at a time, every committed change rings for those it concerns,
\* and only for them: whoever sees the ticket after it, or saw it before.
THEOREM RoomsMatchViewersSerially ==
  ASSUME OneAtATime
  PROVE  Spec => RoomsMatchViewers
<1>1. TypeOK /\ SerialInv /\ [Next]_vars => [RoomsMatchStep]_vars
  <2>. SUFFICES ASSUME TypeOK, SerialInv, Next
                PROVE  RoomsMatchStep
    BY DEF vars
  <2>1. CASE effects' = NoEffects
    BY <2>1 DEF RoomsMatchStep, NoEffects
  <2>2. ASSUME NEW r \in Request, NEW v \in User, NEW t \in Ticket, NEW c \in Category,
               CreateTicket(r, v, t, c)
        PROVE  RoomsMatchStep
    <3>1. /\ ~Stored(t) /\ effects'.ticket = t
          /\ effects'.rooms = TicketRooms(tickets'[t])
      BY <2>2, CreatedRow
    <3>2. TypeOK'
      BY <2>2, LoadTypeOK DEF Load
    <3>3. tickets'[t] \in Row
      BY <3>2 DEF TypeOK
    <3>4. \A u \in User : RoomsFor(Perms(u)) \cap TicketRooms(tickets'[t]) # {}
                            <=> CanView(Perms(u), tickets'[t])
      BY <3>3, RoomsTellViewers
    <3>. QED
      BY <3>1, <3>4 DEF RoomsMatchStep, Active
  <2>. QED
    BY <2>1, <2>2, LoadRows, CommitRooms
       DEF Next, Tick, Check, AssignCheck, MoveCheck, Abort
<1>. QED
  BY <1>1, SerialInvAlways, TypeCorrect, PTL DEF Spec, RoomsMatchViewers

-----------------------------------------------------------------------------
(* The workflow.  A step keeps the birth, the status and the stamps of      *)
(* every ticket, and is a stutter of the workflow, or it is one of the two  *)
(* moves: a ticket is raised, or a status change commits.                   *)

LEMMA WorkflowStutter ==
  ASSUME \A t \in Ticket : /\ tickets'[t].created_at = tickets[t].created_at
                           /\ tickets'[t].status = tickets[t].status
                           /\ tickets'[t].resolved_at = tickets[t].resolved_at
                           /\ tickets'[t].closed_at = tickets[t].closed_at
  PROVE  UNCHANGED Workflow!wvars
BY DEF Workflow!wvars, Stored

LEMMA WorkflowMove ==
  ASSUME NEW t \in Ticket, NEW s \in DOMAIN Workflow!Follows,
         s \in Workflow!Follows[IF Stored(t) THEN tickets[t].status ELSE "none"],
         tickets'[t].created_at # Never, tickets'[t].status = s,
         \A q \in Ticket : q # t => tickets'[q] = tickets[q],
         IF s = "resolved" /\ tickets[t].resolved_at = 0
         THEN tickets'[t].resolved_at \in 1 .. MaxTime
         ELSE tickets'[t].resolved_at = tickets[t].resolved_at,
         IF s = "closed" /\ tickets[t].closed_at = 0
         THEN tickets'[t].closed_at \in 1 .. MaxTime
         ELSE tickets'[t].closed_at = tickets[t].closed_at
  PROVE  Workflow!WNext
<1>. DEFINE phase == [q \in Ticket |-> IF Stored(q) THEN tickets[q].status ELSE "none"]
            resolved == [q \in Ticket |-> tickets[q].resolved_at]
            closed == [q \in Ticket |-> tickets[q].closed_at]
<1>1. phase' = [phase EXCEPT ![t] = s]
  BY DEF Stored
<1>2. IF s = "resolved" /\ resolved[t] = 0
      THEN \E moment \in 1 .. MaxTime : resolved' = [resolved EXCEPT ![t] = moment]
      ELSE resolved' = resolved
  OBVIOUS
<1>3. IF s = "closed" /\ closed[t] = 0
      THEN \E moment \in 1 .. MaxTime : closed' = [closed EXCEPT ![t] = moment]
      ELSE closed' = closed
  OBVIOUS
<1>4. s \in Workflow!Follows[phase[t]]
  OBVIOUS
<1>5. Workflow!Move(t, s)
  BY <1>1, <1>2, <1>3, <1>4 DEF Workflow!Move, Workflow!FirstTime
<1>. QED
  BY <1>5 DEF Workflow!WNext

LEMMA CommitFollows ==
  ASSUME TypeOK, SerialInv, NEW r \in Request, Commit(r)
  PROVE  Workflow!WNext \/ UNCHANGED Workflow!wvars
<1>. DEFINE x == txn[r]
            tk == tickets[x.ticket]
<1>1. AsLoaded(x)
  BY CommitBusy DEF SerialInv
<1>2. CASE ChangeStatusCommit(r)
  <2>1. x \in StatusTxn /\ x.call = "status"
    BY <1>2, StagedTxn DEF ChangeStatusCommit, Staged
  <2>2. x.ticket \in Ticket /\ tk \in Row
    BY <2>1 DEF StatusTxn, TypeOK
  <2>3. /\ Stored(x.ticket)
        /\ x.to \in ALLOWED_TRANSITIONS[tk.status]
        /\ IF x.to = "resolved" /\ tk.resolved_at = Never
           THEN x.resolved_at \in 1 .. MaxTime ELSE x.resolved_at = Never
        /\ IF x.to = "closed" /\ tk.closed_at = Never
           THEN x.closed_at \in 1 .. MaxTime ELSE x.closed_at = Never
    BY <1>1, <2>1 DEF AsLoaded
  <2>4. /\ tickets'[x.ticket] = StatusUpdate(tk, x)
        /\ \A t \in Ticket : t # x.ticket => tickets'[t] = tickets[t]
    BY <1>2, <2>2 DEF ChangeStatusCommit, TypeOK
  <2>5. /\ StatusUpdate(tk, x).created_at = tk.created_at
        /\ StatusUpdate(tk, x).status = x.to
        /\ StatusUpdate(tk, x).resolved_at = IF x.resolved_at # Never THEN x.resolved_at
                                                                     ELSE tk.resolved_at
        /\ StatusUpdate(tk, x).closed_at = IF x.closed_at # Never THEN x.closed_at
                                                                 ELSE tk.closed_at
    BY <2>2 DEF StatusUpdate, Row
  <2>6. tk.status \in Status /\ x.to \in Status
    BY <2>1, <2>2 DEF Row, StatusTxn
  <2>7. /\ x.to \in DOMAIN Workflow!Follows
        /\ x.to \in Workflow!Follows[tk.status]
    BY <2>3, <2>6 DEF Workflow!Follows, ALLOWED_TRANSITIONS, Status
  <2>8. tickets'[x.ticket].created_at # Never
    BY <2>3, <2>4, <2>5 DEF Stored
  <2>9. /\ IF x.to = "resolved" /\ tk.resolved_at = 0
           THEN tickets'[x.ticket].resolved_at \in 1 .. MaxTime
           ELSE tickets'[x.ticket].resolved_at = tk.resolved_at
        /\ IF x.to = "closed" /\ tk.closed_at = 0
           THEN tickets'[x.ticket].closed_at \in 1 .. MaxTime
           ELSE tickets'[x.ticket].closed_at = tk.closed_at
    BY <2>3, <2>4, <2>5 DEF Never
  <2>. HIDE DEF x, tk
  <2>10. tickets'[x.ticket].status = x.to
    BY <2>4, <2>5
  <2>11. tk = tickets[x.ticket]
    BY DEF tk
  <2>. QED
    BY <2>2, <2>3, <2>4, <2>7, <2>8, <2>9, <2>10, <2>11, WorkflowMove
<1>3. CASE MoveCommit(r)
  <2>1. /\ tickets'[x.ticket].created_at = tk.created_at
        /\ tickets'[x.ticket].status = tk.status
        /\ tickets'[x.ticket].resolved_at = tk.resolved_at
        /\ tickets'[x.ticket].closed_at = tk.closed_at
        /\ \A t \in Ticket : t # x.ticket => tickets'[t] = tickets[t]
    BY <1>1, <1>3, MoveCommitOwners, MoveCommitRow
  <2>. QED
    BY <2>1, WorkflowStutter
<1>4. CASE ~ChangeStatusCommit(r) /\ ~MoveCommit(r)
  BY <1>4, OtherCommitRow, WorkflowStutter
<1>. QED
  BY <1>2, <1>3, <1>4

LEMMA StepFollows ==
  ASSUME TypeOK, SerialInv, [Next]_vars
  PROVE  Workflow!WNext \/ UNCHANGED Workflow!wvars
<1>1. CASE UNCHANGED tickets
  BY <1>1, WorkflowStutter
<1>2. ASSUME NEW r \in Request, NEW u \in User, NEW t \in Ticket, NEW c \in Category,
             CreateTicket(r, u, t, c)
      PROVE  Workflow!WNext
  <2>1. /\ ~Stored(t) /\ tickets'[t].created_at # Never
        /\ tickets'[t].status = "open"
        /\ tickets'[t].resolved_at = Never /\ tickets'[t].closed_at = Never
        /\ \A s \in Ticket : s # t => tickets'[s] = tickets[s]
    BY <1>2, CreatedRow
  <2>2. tickets[t].resolved_at = Never /\ tickets[t].closed_at = Never
    BY <2>1 DEF SerialInv, RowsInv
  <2>3. "open" \in DOMAIN Workflow!Follows /\ "open" \in Workflow!Follows["none"]
    BY DEF Workflow!Follows
  <2>. QED
    BY <2>1, <2>2, <2>3, WorkflowMove
<1>. QED
  BY <1>1, <1>2, LoadRows, CommitFollows
     DEF Next, Tick, Check, AssignCheck, MoveCheck, Abort, vars

LEMMA InitFollows == Init => Workflow!WInit
<1>. SUFFICES ASSUME Init
              PROVE  Workflow!WInit
  OBVIOUS
<1>1. \A t \in Ticket : /\ ~Stored(t)
                        /\ tickets[t].resolved_at = 0
                        /\ tickets[t].closed_at = 0
  BY DEF Init, Stored, Blank, Never
<1>. QED
  BY <1>1 DEF Workflow!WInit

\* Served one request at a time, the service implements the workflow: a ticket is
\* raised open, moves as ALLOWED_TRANSITIONS says, never leaves "closed", and is
\* stamped by the step that first resolves or closes it, and by no other.
THEOREM ImplementsWorkflowSerially ==
  ASSUME OneAtATime
  PROVE  Spec => ImplementsWorkflow
<1>1. TypeOK /\ SerialInv /\ [Next]_vars => [Workflow!WNext]_(Workflow!wvars)
  BY StepFollows
<1>. QED
  BY <1>1, InitFollows, SerialInvAlways, TypeCorrect, PTL
     DEF Spec, ImplementsWorkflow, Workflow!WSpec

-----------------------------------------------------------------------------
(* What the page offers and what the service accepts, control by control.   *)

LEMMA StatusAgrees ==
  ASSUME NEW u \in Active, NEW tk \in Row, CanView(Perms(u), tk)
  PROVE  StatusTargets(u, tk)
            = {new \in ALLOWED_TRANSITIONS[tk.status] : RequireStatusChange(Perms(u), tk, new)}
<1>1. tk.status \in Status
  BY DEF Row
<1>2. NEXT_STATUSES[tk.status] = ALLOWED_TRANSITIONS[tk.status]
  BY <1>1 DEF NEXT_STATUSES, ALLOWED_TRANSITIONS, Status
<1>3. Perms(u).user = u
  BY DEF Perms
<1>. QED
  BY <1>2, <1>3 DEF StatusTargets, RequireStatusChange, CanChangeStatus,
                    REQUESTER_STATUS_TARGETS

LEMMA EditAgrees ==
  ASSUME NEW u \in Active, NEW tk \in Row, CanView(Perms(u), tk)
  PROVE  LET accepted == {g \in Field : RequireEdit(Perms(u), tk, {g})}
         IN  /\ accepted \ EditInputs(u, tk) \subseteq {"extra_data"}
             /\ EditInputs(u, tk) \subseteq accepted
<1>1. Perms(u).user = u
  BY DEF Perms
<1>. QED
  BY <1>1 DEF EditInputs, OwnText, RequireEdit, CanEdit, EditableFields, RequesterMayEdit,
              REQUESTER_EDITABLE_STATES, REQUESTER_EDITABLE_FIELDS, STAFF_EDITABLE_FIELDS, Field

\* Whether the assignee that is shown leaves room: at most one is there.
LEMMA FreeAgrees ==
  ASSUME NEW u \in Active, NEW tk \in Row, \A a, b \in tk.assignee : a = b
  PROVE  Free(u, tk) <=> CanReassign(Perms(u), tk)
<1>1. Perms(u).user = u
  BY DEF Perms
<1>. QED
  BY <1>1 DEF Free, CanReassign

Outside(u, tk) == tk.team \notin LoadTeamIds(u, members) /\ ~SeesAll(u)

LEMMA ClaimAgrees ==
  ASSUME NEW u \in Active, NEW tk \in Row, CanView(Perms(u), tk),
         \A a, b \in tk.assignee : a = b
  PROVE  LET offered == IsStaff(u) /\ tk.status # "closed" /\ u \notin tk.assignee
                            /\ Free(u, tk)
         IN  /\ ClaimAccepted(Perms(u), tk) => offered
             /\ offered => ClaimAccepted(Perms(u), tk) \/ Outside(u, tk)
<1>1. Perms(u).user = u /\ tk.team \in Team
  BY DEF Perms, Row
<1>. QED
  BY <1>1, FreeAgrees DEF ClaimAccepted, RequireAssign, RequireReassign, CanAssign, MayOwn,
                          Outside, LoadTeamIds

LEMMA ButtonsAgree ==
  ASSUME NEW u \in Active, NEW tk \in Row, CanView(Perms(u), tk),
         \A a, b \in tk.assignee : a = b
  PROVE  LET p == Perms(u)
             accepted == {b \in {"comment", "internal", "claim", "assign", "tags", "remove"} :
                    CASE b = "comment"  -> CanComment(p, tk)
                      [] b = "internal" -> CanComment(p, tk) /\ CanPostInternalNote(p)
                      [] b = "claim"    -> ClaimAccepted(p, tk)
                      [] b = "assign"   -> RequireAssign(p, tk) /\ RequireReassign(p, tk)
                      [] b = "tags"     -> CanTag(p, tk)
                      [] b = "remove"   -> RequireDelete(p, tk)}
         IN  /\ accepted \subseteq Buttons(u, tk)
             /\ \A b \in Buttons(u, tk) : b \in accepted \/ (b = "claim" /\ Outside(u, tk))
<1>. DEFINE p == Perms(u)
<1>1. p.user = u
  BY DEF Perms
<1>2. CanComment(p, tk) <=> tk.status # "closed" /\ (IsStaff(u) \/ u \in tk.requester)
  BY <1>1 DEF CanComment
<1>3. CanPostInternalNote(p) <=> IsStaff(u)
  BY <1>1 DEF CanPostInternalNote
<1>4. RequireAssign(p, tk) /\ RequireReassign(p, tk)
        <=> IsStaff(u) /\ tk.status # "closed" /\ Free(u, tk)
  BY <1>1, FreeAgrees DEF RequireAssign, RequireReassign, CanAssign
<1>5. CanTag(p, tk) <=> IsStaff(u)
  BY <1>1 DEF CanTag
<1>6. RequireDelete(p, tk) <=> Holds(u, "ticket.delete")
  BY <1>1 DEF RequireDelete
<1>7. /\ ClaimAccepted(p, tk) => IsStaff(u) /\ tk.status # "closed" /\ u \notin tk.assignee
                                    /\ Free(u, tk)
      /\ IsStaff(u) /\ tk.status # "closed" /\ u \notin tk.assignee /\ Free(u, tk)
            => ClaimAccepted(p, tk) \/ Outside(u, tk)
  BY ClaimAgrees
<1>. QED
  BY <1>2, <1>3, <1>4, <1>5, <1>6, <1>7 DEF Buttons

LEMMA ContentAgrees ==
  ASSUME NEW u \in Active, NEW tk \in Row, CanView(Perms(u), tk)
  PROVE  /\ {a \in User : DeleteContent(u, a, tk)}
                = {a \in User : CanView(Perms(u), tk) /\ CanDeleteContent(Perms(u), a, tk)}
         /\ {a \in {u} : tk.status # "closed"}
                = {a \in User : CanView(Perms(u), tk) /\ CanEditComment(Perms(u), a, tk)}
<1>1. Perms(u).user = u /\ u \in User
  BY DEF Perms, Active
<1>. QED
  BY <1>1 DEF DeleteContent, CanDeleteContent, CanEditComment, FINISHED_STATES

\* The requests of a page, from the arguments of each kind.
Requests(status, edits, buttons, delete, rewrite) ==
    {<<"status", s>> : s \in status}
        \cup {<<"edit", f>> : f \in edits}
        \cup {<<b, "ticket">> : b \in buttons}
        \cup {<<"delete", a>> : a \in delete}
        \cup {<<"rewrite", a>> : a \in rewrite}

LEMMA RequestsDiffer ==
  ASSUME NEW S, NEW D, NEW W, NEW E1, NEW E2, NEW B1, NEW B2
  PROVE  Requests(S, E1, B1, D, W) \ Requests(S, E2, B2, D, W)
            \subseteq {<<"edit", f>> : f \in E1 \ E2} \cup {<<b, "ticket">> : b \in B1 \ B2}
  BY DEF Requests

LEMMA OffersAgree ==
  ASSUME NEW u \in Active, NEW tk \in Row, CanView(Perms(u), tk),
         \A a, b \in tk.assignee : a = b
  PROVE  /\ Accepted(Perms(u), tk) \ Offered(u, tk) \subseteq NotOffered
         /\ Offered(u, tk) \ Accepted(Perms(u), tk)
                \subseteq (IF Outside(u, tk) THEN {<<"claim", "ticket">>} ELSE {})
<1>. DEFINE p      == Perms(u)
            status == {new \in ALLOWED_TRANSITIONS[tk.status] : RequireStatusChange(p, tk, new)}
            edits  == {g \in Field : RequireEdit(p, tk, {g})}
            may    == {b \in {"comment", "internal", "claim", "assign", "tags", "remove"} :
                    CASE b = "comment"  -> CanComment(p, tk)
                      [] b = "internal" -> CanComment(p, tk) /\ CanPostInternalNote(p)
                      [] b = "claim"    -> ClaimAccepted(p, tk)
                      [] b = "assign"   -> RequireAssign(p, tk) /\ RequireReassign(p, tk)
                      [] b = "tags"     -> CanTag(p, tk)
                      [] b = "remove"   -> RequireDelete(p, tk)}
            delete  == {a \in User : CanView(p, tk) /\ CanDeleteContent(p, a, tk)}
            rewrite == {a \in User : CanView(p, tk) /\ CanEditComment(p, a, tk)}
<1>1. Accepted(p, tk) = Requests(status, edits, may, delete, rewrite)
  BY DEF Accepted, Requests
<1>2. Offered(u, tk) = Requests(StatusTargets(u, tk), EditInputs(u, tk), Buttons(u, tk),
                                {a \in User : DeleteContent(u, a, tk)},
                                {a \in {u} : tk.status # "closed"})
  BY DEF Offered, Requests
<1>3. Offered(u, tk) = Requests(status, EditInputs(u, tk), Buttons(u, tk), delete, rewrite)
  <2>1. StatusTargets(u, tk) = status
    BY StatusAgrees
  <2>2. /\ {a \in User : DeleteContent(u, a, tk)} = delete
        /\ {a \in {u} : tk.status # "closed"} = rewrite
    BY ContentAgrees
  <2>. HIDE DEF status, delete, rewrite, p
  <2>. QED
    BY <1>2, <2>1, <2>2
<1>4. edits \ EditInputs(u, tk) \subseteq {"extra_data"} /\ EditInputs(u, tk) \subseteq edits
  BY EditAgrees
<1>5. /\ may \subseteq Buttons(u, tk)
      /\ \A b \in Buttons(u, tk) : b \in may \/ (b = "claim" /\ Outside(u, tk))
  BY ButtonsAgree
<1>. HIDE DEF status, edits, may, delete, rewrite, p
<1>6. Accepted(p, tk) \ Offered(u, tk) \subseteq NotOffered
  <2>1. Accepted(p, tk) \ Offered(u, tk)
            \subseteq {<<"edit", f>> : f \in edits \ EditInputs(u, tk)}
                        \cup {<<b, "ticket">> : b \in may \ Buttons(u, tk)}
    BY <1>1, <1>3, RequestsDiffer
  <2>. QED
    BY <2>1, <1>4, <1>5 DEF NotOffered
<1>7. Offered(u, tk) \ Accepted(p, tk)
        \subseteq (IF Outside(u, tk) THEN {<<"claim", "ticket">>} ELSE {})
  <2>1. Offered(u, tk) \ Accepted(p, tk)
            \subseteq {<<"edit", f>> : f \in EditInputs(u, tk) \ edits}
                        \cup {<<b, "ticket">> : b \in Buttons(u, tk) \ may}
    BY <1>1, <1>3, RequestsDiffer
  <2>. QED
    BY <2>1, <1>4, <1>5
<1>. QED
  BY <1>6, <1>7 DEF p

LEMMA PagesAgreeForAll ==
  ASSUME NEW me
  PROVE  PagesAgree(me)
<1>. SUFFICES ASSUME NEW page \in DOMAIN Routes
              PROVE  /\ AnyOf(me, NAV[page]) => AnyOf(me, Routes[page])
                     /\ AnyOf(me, Routes[page]) <=>
                           \A gate \in Gates[page] : AnyOf(me, gate)
  BY DEF PagesAgree
<1>1. page \in {"tickets", "activity", "analytics", "teams", "users", "roles"}
  BY DEF Routes
<1>2. CASE page \in {"tickets", "activity", "teams"}
  BY <1>2 DEF Routes, NAV, Gates, AnyOf
<1>3. CASE page \in {"analytics"}
  BY <1>3 DEF Routes, NAV, Gates, AnyOf
<1>4. CASE page \in {"users", "roles"}
  BY <1>4 DEF Routes, NAV, Gates, AnyOf
<1>. QED
  BY <1>1, <1>2, <1>3, <1>4

\* Whatever has happened, the page offers to whoever may open a ticket what the
\* service would accept at that moment (useAbilities and labels.ts against
\* permissions.py), but for the two requests that OffersMatchRules names.
THEOREM OffersMatchRulesAlways == Spec => []OffersMatchRules
<1>1. TypeOK /\ OneHolder => OffersMatchRules
  <2>. SUFFICES ASSUME TypeOK, OneHolder, NEW u \in Active, NEW t \in Ticket,
                       CanView(Perms(u), tickets[t])
                PROVE  /\ Accepted(Perms(u), tickets[t]) \ Offered(u, tickets[t])
                                \subseteq NotOffered
                       /\ Offered(u, tickets[t]) \ Accepted(Perms(u), tickets[t])
                                \subseteq (IF Outside(u, tickets[t])
                                           THEN {<<"claim", "ticket">>} ELSE {})
    BY PagesAgreeForAll DEF OffersMatchRules, Outside
  <2>1. tickets[t] \in Row /\ \A a, b \in tickets[t].assignee : a = b
    BY DEF TypeOK, OneHolder
  <2>. QED
    BY <2>1, OffersAgree
<1>. QED
  BY <1>1, TypeCorrect, OneHolderAlways, PTL

-----------------------------------------------------------------------------
(* Comments. *)

LEMMA ToldIsUnion ==
  ASSUME NEW A, NEW B, NEW C
  PROVE  /\ Told(<<A, B, C>>) = A \cup B \cup C
         /\ 1 .. Len(<<A, B, C>>) = {1, 2, 3}
<1>1. Len(<<A, B, C>>) = 3
  OBVIOUS
<1>2. 1 .. Len(<<A, B, C>>) = {1, 2, 3}
  BY <1>1
<1>3. /\ <<A, B, C>>[1] = A
      /\ <<A, B, C>>[2] = B
      /\ <<A, B, C>>[3] = C
  OBVIOUS
<1>4. Told(<<A, B, C>>) = A \cup B \cup C
  <2>. DEFINE n == <<A, B, C>>
  <2>1. n[1] = A /\ n[2] = B /\ n[3] = C /\ 1 .. Len(n) = {1, 2, 3}
    BY <1>2, <1>3
  <2>. HIDE DEF n
  <2>2. Told(n) = A \cup B \cup C
    BY <2>1 DEF Told
  <2>. QED
    BY <2>2 DEF n
<1>. QED
  BY <1>2, <1>4

LEMMA ToldTwo ==
  ASSUME NEW A, NEW B
  PROVE  Told(<<A, B>>) = A \cup B
<1>. DEFINE n == <<A, B>>
<1>1. n[1] = A /\ n[2] = B /\ 1 .. Len(n) = {1, 2}
  OBVIOUS
<1>. HIDE DEF n
<1>2. Told(n) = A \cup B
  BY <1>1 DEF Told
<1>. QED
  BY <1>2 DEF n

LEMMA ToldOne ==
  ASSUME NEW A
  PROVE  Told(<<A>>) = A
<1>. DEFINE n == <<A>>
<1>1. n[1] = A /\ 1 .. Len(n) = {1}
  OBVIOUS
<1>. HIDE DEF n
<1>2. Told(n) = A
  BY <1>1 DEF Told
<1>. QED
  BY <1>2 DEF n

LEMMA ToldNone == Told(<<>>) = {}
  BY DEF Told

\* However requests overlap, a comment is told once to everybody whom it concerns
\* (create_comment and _notify of comment_service.py): since a ticket has one
\* requester, whoever is left out of the public answers of the requester is
\* the author.
THEOREM ToldOnceAlways == Spec => []ToldOnce
<1>1. OneHolder => ToldOnce
  <2>. SUFFICES ASSUME OneHolder, NEW t \in Ticket, Visible(t), NEW a \in Author(t),
                       NEW internal \in BOOLEAN, NEW named \in {{}, User}
                PROVE  LET notices   == CommentNotices(tickets[t], a, internal, named)
                           concerned == tickets[t].assignee
                                \cup (IF internal THEN {} ELSE tickets[t].requester)
                       IN  /\ \A i, j \in 1 .. Len(notices) :
                                 i # j => notices[i] \cap notices[j] = {}
                           /\ a \notin Told(notices)
                           /\ concerned \ {a} \subseteq Told(notices)
    BY DEF ToldOnce
  <2>. DEFINE tk        == tickets[t]
              mentioned == MentionedUsers(tk, a, internal, named)
              notified  == Notified(tk, a, internal, mentioned)
              others    == Oversight(internal) \ (notified \cup mentioned \cup {a})
              notices   == <<mentioned, notified, others>>
  <2>1. CommentNotices(tk, a, internal, named) = notices
    BY DEF CommentNotices
  <2>2. a \notin mentioned /\ a \notin notified /\ a \notin others
    BY DEF MentionedUsers, Notified
  <2>3. /\ notified \cap mentioned = {}
        /\ others \cap mentioned = {}
        /\ others \cap notified = {}
    BY DEF Notified
  <2>4. (tk.assignee \cup (IF internal THEN {} ELSE tk.requester)) \ {a}
            \subseteq mentioned \cup notified
    <3>1. \A x, y \in tk.requester : x = y
      BY DEF OneHolder, Visible, Stored
    <3>. QED
      BY <3>1 DEF Notified
  <2>5. Told(notices) = mentioned \cup notified \cup others
    BY ToldIsUnion
  <2>6. 1 .. Len(notices) = {1, 2, 3}
    BY ToldIsUnion
  <2>7. notices[1] = mentioned /\ notices[2] = notified /\ notices[3] = others
    OBVIOUS
  <2>. HIDE DEF mentioned, notified, others, notices
  <2>8. \A i, j \in 1 .. Len(notices) : i # j => notices[i] \cap notices[j] = {}
    BY <2>3, <2>6, <2>7
  <2>. QED
    BY <2>1, <2>2, <2>4, <2>5, <2>8
<1>. QED
  BY <1>1, OneHolderAlways, PTL

-----------------------------------------------------------------------------
(* Whoever works on a queue is staff, and so is whoever is being added.     *)

MembersInv ==
    /\ \A g \in Team : \A u \in members[g] : IsStaff(u)
    /\ \A r \in Request : Staged(r, "add") => IsStaff(txn[r].member)

\* A step that neither changes the memberships nor begins to.
LEMMA MembersFrame ==
  ASSUME MembersInv, UNCHANGED members,
         \A r \in Request : \/ txn'[r] = txn[r]
                            \/ txn'[r] = Idle
                            \/ txn'[r].call # "add"
  PROVE  MembersInv'
BY DEF MembersInv, Staged, Idle

LEMMA MembersLoad ==
  ASSUME TypeOK, MembersInv, NEW r \in Request, Load(r)
  PROVE  MembersInv'
<1>1. ASSUME NEW x, Begin(r, x), x.call # "add"
      PROVE  MembersInv'
  <2>1. \A q \in Request : txn'[q] = IF q = r THEN x ELSE txn[q]
    BY <1>1 DEF Begin, TypeOK
  <2>. QED
    BY <1>1, <2>1, MembersFrame DEF Begin
<1>2. ASSUME NEW u \in User, NEW t \in Ticket, NEW c \in Category, CreateTicket(r, u, t, c)
      PROVE  MembersInv'
  BY <1>2, MembersFrame DEF CreateTicket
<1>3. ASSUME NEW u \in User, NEW t \in Ticket, NEW new \in Status, ChangeStatusLoad(r, u, t, new)
      PROVE  MembersInv'
  BY <1>1, <1>3 DEF ChangeStatusLoad
<1>4. ASSUME NEW u \in User, NEW t \in Ticket, NEW to, AssignLoad(r, u, t, to)
      PROVE  MembersInv'
  BY <1>1, <1>4 DEF AssignLoad
<1>5. ASSUME NEW u \in User, NEW t \in Ticket, NEW fields \in Patches, EditLoad(r, u, t, fields)
      PROVE  MembersInv'
  BY <1>1, <1>5 DEF EditLoad
<1>6. ASSUME NEW u \in User, NEW t \in Ticket, NEW fields \in Patches, NEW c \in Category,
             MoveLoad(r, u, t, fields, c)
      PROVE  MembersInv'
  BY <1>1, <1>6 DEF MoveLoad
<1>7. ASSUME NEW u \in User, NEW t \in Ticket, DeleteLoad(r, u, t)
      PROVE  MembersInv'
  BY <1>1, <1>7 DEF DeleteLoad
<1>8. ASSUME NEW u \in User, NEW team \in Team, AddMemberLoad(r, u, team)
      PROVE  MembersInv'
  <2>. DEFINE x == [pc |-> "staged", call |-> "add", member |-> u, team |-> team]
  <2>1. \A q \in Request : txn'[q] = IF q = r THEN x ELSE txn[q]
    BY <1>8 DEF AddMemberLoad, Begin, TypeOK
  <2>2. IsStaff(u) /\ UNCHANGED members
    BY <1>8 DEF AddMemberLoad, Begin
  <2>. QED
    BY <2>1, <2>2 DEF MembersInv, Staged
<1>9. ASSUME NEW u \in User, NEW team \in Team, RemoveMemberLoad(r, u, team)
      PROVE  MembersInv'
  BY <1>1, <1>9 DEF RemoveMemberLoad
<1>. QED
  BY <1>2, <1>3, <1>4, <1>5, <1>6, <1>7, <1>8, <1>9 DEF Load, AssignTicket, ClaimTicket

LEMMA MembersCheck ==
  ASSUME TypeOK, MembersInv, NEW r \in Request, Check(r)
  PROVE  MembersInv'
<1>1. txn[r] \in AssignTxn \/ txn[r] \in MoveTxn
  BY StagedTxn DEF Check, AssignCheck, MoveCheck
<1>2. txn[r].call # "add"
  BY <1>1 DEF AssignTxn, MoveTxn
<1>3. txn'[r].call = txn[r].call /\ \A q \in Request \ {r} : txn'[q] = txn[q]
  <2>1. PICK x : txn' = [txn EXCEPT ![r] = x] /\ x.call = txn[r].call
    <3>1. CASE AssignCheck(r)
      <4>1. [txn[r] EXCEPT !.pc = "staged"].call = txn[r].call
        BY <1>1 DEF AssignTxn, MoveTxn
      <4>. QED
        BY <3>1, <4>1 DEF AssignCheck
    <3>2. CASE MoveCheck(r)
      <4>1. txn[r] \in MoveTxn
        BY <3>2, StagedTxn DEF MoveCheck
      <4>. DEFINE x == txn[r]
                  clears == x.breached /\ NewDue(x) > now
                  drops == IF TeamOf[x.category] # x.team
                           THEN DropAssigneeOutsideTeam(x) ELSE {}
                  y == [x EXCEPT !.pc = "staged", !.clears = clears, !.drops = drops,
                                 !.rooms = TicketRooms(tickets[x.ticket])]
      <4>2. txn' = [txn EXCEPT ![r] = y]
        BY <3>2 DEF MoveCheck
      <4>3. y.call = x.call
        BY <4>1 DEF MoveTxn
      <4>. QED
        BY <4>2, <4>3
    <3>. QED
      BY <3>1, <3>2 DEF Check
  <2>. QED
    BY <2>1 DEF TypeOK
<1>. QED
  BY <1>2, <1>3, MembersFrame DEF Check, AssignCheck, MoveCheck

LEMMA MembersCommit ==
  ASSUME TypeOK, MembersInv, NEW r \in Request, Commit(r)
  PROVE  MembersInv'
<1>1. \A q \in Request : txn'[q] = IF q = r THEN Idle ELSE txn[q]
  BY CommitEnds
<1>2. CASE AddMemberCommit(r)
  <2>1. txn[r] \in MemberTxn /\ IsStaff(txn[r].member)
    BY <1>2, StagedTxn DEF AddMemberCommit, Staged, MembersInv
  <2>2. \A g \in Team : members'[g] \subseteq members[g] \cup {txn[r].member}
    BY <1>2 DEF AddMemberCommit, TypeOK
  <2>. QED
    BY <1>1, <2>1, <2>2 DEF MembersInv, Staged, Idle
<1>3. CASE RemoveMemberCommit(r)
  <2>1. \A g \in Team : members'[g] \subseteq members[g]
    BY <1>3 DEF RemoveMemberCommit, TypeOK
  <2>. QED
    BY <1>1, <2>1 DEF MembersInv, Staged, Idle
<1>4. CASE UNCHANGED members
  BY <1>1, <1>4, MembersFrame
<1>. QED
  BY <1>2, <1>3, <1>4 DEF Commit, ChangeStatusCommit, AssignCommit, EditCommit, MoveCommit,
                          DeleteCommit

LEMMA MembersAlways == Spec => []MembersInv
<1>1. Init => MembersInv
  BY BoundAssumption DEF Init, MembersInv, Staged, Idle
<1>2. TypeOK /\ MembersInv /\ [Next]_vars => MembersInv'
  <2>. SUFFICES ASSUME TypeOK, MembersInv, [Next]_vars
                PROVE  MembersInv'
    OBVIOUS
  <2>1. CASE Tick \/ UNCHANGED vars
    BY <2>1, MembersFrame DEF Tick, vars
  <2>2. ASSUME NEW r \in Request, Abort(r)
        PROVE  MembersInv'
    <3>1. \A q \in Request : txn'[q] = IF q = r THEN Idle ELSE txn[q]
      BY <2>2 DEF Abort, End, TypeOK
    <3>. QED
      BY <2>2, <3>1, MembersFrame DEF Abort
  <2>. QED
    BY <2>1, <2>2, MembersLoad, MembersCheck, MembersCommit DEF Next
<1>. QED
  BY <1>1, <1>2, TypeCorrect, PTL DEF Spec

-----------------------------------------------------------------------------
(* Who is told. *)

\* Members of its queue may open a ticket, and so may its owners and those who
\* look after all tickets.
LEMMA ReadersMayOpen ==
  ASSUME MembersInv, NEW u \in Active, NEW tk \in Row,
         \/ u \in members[tk.team]
         \/ HasOwner(tk, u)
         \/ SeesAll(u)
  PROVE  CanView(Perms(u), tk)
<1>1. tk.team \in Team
  BY DEF Row
<1>. QED
  BY <1>1 DEF CanView, Perms, LoadTeamIds, MembersInv

\* However requests overlap, whoever is told of a comment or of a change of a
\* ticket may read it (parse_mentions, _notify, _notify_team and oversight),
\* with the exception that ToldMayRead names.
THEOREM ToldMayReadAlways == Spec => []ToldMayRead
<1>1. TypeOK /\ MembersInv => ToldMayRead
  <2>. SUFFICES ASSUME TypeOK, MembersInv, NEW t \in Ticket
                PROVE  LET tk == tickets[t]
                           MayOpen(notices, row) ==
                             \A u \in Told(notices) \cap Active : CanView(Perms(u), row)
                       IN  /\ \A a \in Author(t), internal \in BOOLEAN, named \in {{}, User} :
                                 \A u \in Told(CommentNotices(tk, a, internal, named)) :
                                    \/ MayRead(u, tk, internal)
                                    \/ internal /\ u \in tk.assignee
                           /\ \A a \in Active :
                                 /\ MayOpen(StatusNotices(tk, a), tk)
                                 /\ MayOpen(CreateNotices(tk, a), tk)
                                 /\ \A to \in {{b} : b \in {c \in User : MayOwn(c, tk.team)}} :
                                       MayOpen(AssignNotices(a, to), [tk EXCEPT !.assignee = to])
                           /\ \A c \in Category :
                                 MayOpen(MoveNotices(tk, c), [tk EXCEPT !.team = TeamOf[c]])
    BY DEF ToldMayRead
  <2>. DEFINE tk == tickets[t]
  <2>1. tk \in Row
    BY DEF TypeOK
  <2>2. ASSUME NEW a \in Author(t), NEW internal \in BOOLEAN, NEW named \in {{}, User},
               NEW u \in Told(CommentNotices(tk, a, internal, named))
        PROVE  MayRead(u, tk, internal) \/ (internal /\ u \in tk.assignee)
    <3>. DEFINE mentioned == MentionedUsers(tk, a, internal, named)
                notified  == Notified(tk, a, internal, mentioned)
                others    == Oversight(internal) \ (notified \cup mentioned \cup {a})
    <3>1. u \in mentioned \cup notified \cup others
      BY ToldIsUnion DEF CommentNotices
    <3>2. u \in mentioned => MayRead(u, tk, internal)
      BY DEF MentionedUsers
    <3>3. u \in notified => IF internal THEN u \in tk.assignee ELSE HasOwner(tk, u)
      BY DEF Notified, HasOwner
    <3>4. u \in others => SeesAll(u) /\ (internal => ReadsInternal(u))
      BY DEF Oversight
    <3>. HIDE DEF mentioned, notified, others
    <3>. QED
      BY <3>1, <3>2, <3>3, <3>4 DEF MayRead, CanView, Perms
  <2>3. ASSUME NEW a \in Active, NEW u \in Active, u \in Told(StatusNotices(tk, a))
        PROVE  CanView(Perms(u), tk)
    <3>1. u \in tk.requester \cup tk.assignee \cup Oversight(FALSE)
      <4>. DEFINE A == (tk.requester \cup tk.assignee \cup Oversight(FALSE)) \ {a}
      <4>1. StatusNotices(tk, a) = <<A>>
        BY DEF StatusNotices
      <4>2. Told(<<A>>) = A
        BY ToldOne
      <4>. QED
        BY <2>3, <4>1, <4>2
    <3>. QED
      BY <2>1, <3>1, ReadersMayOpen DEF Oversight, HasOwner
  <2>4. ASSUME NEW a \in Active, NEW u \in Active, u \in Told(CreateNotices(tk, a))
        PROVE  CanView(Perms(u), tk)
    <3>1. u \in members[tk.team] \cup Oversight(FALSE)
      <4>. DEFINE A == members[tk.team]
                  B == Oversight(FALSE) \ (members[tk.team] \cup {a})
      <4>1. CreateNotices(tk, a) = <<A, B>>
        BY DEF CreateNotices
      <4>2. Told(<<A, B>>) = A \cup B
        BY ToldTwo
      <4>. QED
        BY <2>4, <4>1, <4>2
    <3>. QED
      BY <2>1, <3>1, ReadersMayOpen DEF Oversight
  <2>5. ASSUME NEW a \in Active, NEW b \in User, NEW u \in Active, u \in Told(AssignNotices(a, {b}))
        PROVE  CanView(Perms(u), [tk EXCEPT !.assignee = {b}])
    <3>1. [tk EXCEPT !.assignee = {b}] \in Row /\ [tk EXCEPT !.assignee = {b}].assignee = {b}
      BY <2>1 DEF Row
    <3>2. u = b \/ u \in Oversight(FALSE)
      <4>. DEFINE A == {b} \ {a}
                  B == Oversight(FALSE) \ ({b} \cup {a})
      <4>1. AssignNotices(a, {b}) = <<A, B>>
        BY DEF AssignNotices
      <4>2. Told(<<A, B>>) = A \cup B
        BY ToldTwo
      <4>. QED
        BY <2>5, <4>1, <4>2
    <3>. QED
      BY <3>1, <3>2, ReadersMayOpen DEF Oversight, HasOwner
  <2>6. ASSUME NEW c \in Category, NEW u \in Active, u \in Told(MoveNotices(tk, c))
        PROVE  CanView(Perms(u), [tk EXCEPT !.team = TeamOf[c]])
    <3>1. TeamOf[c] \in Team
      BY CatalogAssumption
    <3>2. [tk EXCEPT !.team = TeamOf[c]] \in Row /\ [tk EXCEPT !.team = TeamOf[c]].team = TeamOf[c]
      BY <2>1, <3>1 DEF Row
    <3>3. u \in members[TeamOf[c]]
      BY <2>6, ToldOne, ToldNone DEF MoveNotices
    <3>. QED
      BY <3>2, <3>3, ReadersMayOpen
  <2>. QED
    BY <2>2, <2>3, <2>4, <2>5, <2>6
<1>. QED
  BY <1>1, TypeCorrect, MembersAlways, PTL

-----------------------------------------------------------------------------
\* What the row locks are for: no row is held by two sweeps, and a row that is
\* held stays as it was found, but that it may lose its assignee.
HeldInv ==
    /\ \A w, v \in Worker : w # v => DOMAIN batch[w] \cap DOMAIN batch[v] = {}
    /\ \A w \in Worker : \A t \in DOMAIN batch[w] :
          /\ Stored(t)
          /\ ~tickets[t].sla_breached
          /\ tickets[t].assignee \subseteq batch[w][t]

SweepInv ==
    /\ SweepTypeOK
    /\ HeldInv

LEMMA NoneHoldsNothing == None \in Batch /\ DOMAIN None = {}
BY DEF None, Batch

LEMMA BatchDomain ==
  ASSUME NEW b \in Batch
  PROVE  DOMAIN b \subseteq Ticket
BY DEF Batch

\* A step of a request keeps the invariant if it leaves alone what is held.
LEMMA HeldFrame ==
  ASSUME SweepInv, TypeOK', UNCHANGED batch,
         \A t \in SweepLocked :
            /\ tickets'[t].created_at = tickets[t].created_at
            /\ tickets'[t].sla_breached = tickets[t].sla_breached
            /\ tickets'[t].assignee \subseteq tickets[t].assignee
  PROVE  SweepInv'
<1>1. \A w \in Worker : \A t \in DOMAIN batch[w] : t \in SweepLocked
  BY DEF SweepLocked
<1>. QED
  BY <1>1 DEF SweepInv, SweepTypeOK, HeldInv, Stored

\* A request that begins may raise a ticket, and no sweep holds one that is
\* not there yet.
LEMMA HeldLoad ==
  ASSUME SweepInv, NEW r \in Request, Beside(Load(r))
  PROVE  SweepInv'
<1>1. TypeOK' /\ UNCHANGED batch
  BY LoadTypeOK DEF Beside, SweepInv, SweepTypeOK
<1>2. CASE UNCHANGED tickets
  BY <1>1, <1>2, HeldFrame
<1>3. ASSUME NEW u \in User, NEW s \in Ticket, NEW c \in Category, CreateTicket(r, u, s, c)
      PROVE  SweepInv'
  <2>1. \A t \in SweepLocked : t \in Ticket /\ Stored(t)
    BY BatchDomain DEF SweepLocked, SweepInv, SweepTypeOK, HeldInv
  <2>2. \A t \in SweepLocked : tickets'[t] = tickets[t]
    BY <1>3, <2>1 DEF CreateTicket, SweepInv, SweepTypeOK, TypeOK
  <2>. QED
    BY <1>1, <2>2, HeldFrame
<1>4. UNCHANGED tickets \/ \E u \in User, s \in Ticket, c \in Category : CreateTicket(r, u, s, c)
  BY DEF Beside, Load, ChangeStatusLoad, AssignTicket, ClaimTicket, AssignLoad, EditLoad,
         MoveLoad, DeleteLoad, AddMemberLoad, RemoveMemberLoad, Begin
<1>. QED
  BY <1>2, <1>3, <1>4

\* A request that does not wait for a sweep writes to rows that no sweep holds,
\* or takes the assignee away.
LEMMA HeldCommit ==
  ASSUME SweepInv, NEW r \in Request, Commit(r), ~WaitsForSweep(r), UNCHANGED batch
  PROVE  SweepInv'
<1>. DEFINE x == txn[r]
<1>1. TypeOK' /\ tickets \in [Ticket -> Row]
  BY CommitTypeOK DEF SweepInv, SweepTypeOK, TypeOK
<1>2. \A t \in SweepLocked : t \in Ticket
  BY BatchDomain DEF SweepLocked, SweepInv, SweepTypeOK
<1>3. CASE \E call \in {"status", "move", "delete"} : Staged(r, call)
  <2>1. x.ticket \notin SweepLocked
    BY <1>3 DEF WaitsForSweep, Staged, Idle
  <2>2. \A t \in SweepLocked : tickets'[t] = tickets[t]
    BY <1>1, <1>2, <1>3, <2>1 DEF Commit, ChangeStatusCommit, AssignCommit, EditCommit,
         MoveCommit, DeleteCommit, AddMemberCommit, RemoveMemberCommit, Staged
  <2>. QED
    BY <1>1, <2>2, HeldFrame
<1>4. CASE Staged(r, "assign")
  <2>1. AssignCommit(r)
    BY <1>4 DEF Commit, ChangeStatusCommit, EditCommit, MoveCommit, DeleteCommit,
                AddMemberCommit, RemoveMemberCommit, Staged
  <2>2. x.ticket \in SweepLocked => x.to = {}
    BY <1>4 DEF WaitsForSweep, Staged, Idle
  <2>. DEFINE row == [tickets[x.ticket] EXCEPT
                        !.assignee = AfterDelete(tickets[x.ticket].assignee, x) \cup x.to]
  <2>3. tickets' = [tickets EXCEPT ![x.ticket] = row]
    BY <2>1 DEF AssignCommit
  <2>4. ASSUME NEW t \in SweepLocked
        PROVE  /\ tickets'[t].created_at = tickets[t].created_at
               /\ tickets'[t].sla_breached = tickets[t].sla_breached
               /\ tickets'[t].assignee \subseteq tickets[t].assignee
    <3>1. CASE t = x.ticket
      <4>1. tickets'[t] = row /\ tickets[t] \in Row
        BY <1>1, <1>2, <2>3, <3>1
      <4>. QED
        BY <2>2, <3>1, <4>1 DEF AfterDelete, Row
    <3>2. CASE t # x.ticket
      BY <1>1, <1>2, <2>3, <3>2
    <3>. QED
      BY <3>1, <3>2
  <2>. QED
    BY <1>1, <2>4, HeldFrame
<1>5. CASE \E call \in {"edit", "add", "remove"} : Staged(r, call)
  <2>1. UNCHANGED tickets
    BY <1>5 DEF Commit, ChangeStatusCommit, AssignCommit, EditCommit, MoveCommit,
                DeleteCommit, AddMemberCommit, RemoveMemberCommit, Staged
  <2>. QED
    BY <1>1, <2>1, HeldFrame
<1>. QED
  BY <1>3, <1>4, <1>5 DEF Commit, ChangeStatusCommit, AssignCommit, EditCommit, MoveCommit,
                          DeleteCommit, AddMemberCommit, RemoveMemberCommit

\* A sweep takes rows that are free and late, with the assignees they have.
LEMMA HeldSelect ==
  ASSUME SweepInv, NEW w \in Worker, NEW chosen \in SUBSET Ticket, SweepSelect(w, chosen)
  PROVE  SweepInv'
<1>. DEFINE b == [t \in chosen |-> tickets[t].assignee]
<1>1. /\ UNCHANGED <<tickets, members, now, txn>>
      /\ \A v \in Worker : batch'[v] = IF v = w THEN b ELSE batch[v]
      /\ batch' = [batch EXCEPT ![w] = b]
  BY DEF SweepSelect, SweepInv, SweepTypeOK
<1>2. \A t \in chosen : Late(t) /\ t \notin SweepLocked
  BY DEF SweepSelect
<1>3. b \in Batch /\ DOMAIN b = chosen
  BY DEF SweepInv, SweepTypeOK, TypeOK, Row, Batch
<1>4. TypeOK'
  BY <1>1 DEF SweepInv, SweepTypeOK, TypeOK
<1>5. batch' \in [Worker -> Batch]
  BY <1>1, <1>3 DEF SweepInv, SweepTypeOK
<1>6. \A v \in Worker : chosen \cap DOMAIN batch[v] = {}
  BY <1>2 DEF SweepLocked
<1>7. \A v, y \in Worker : v # y => DOMAIN batch'[v] \cap DOMAIN batch'[y] = {}
  <2>. HIDE DEF b
  <2>. QED
    BY <1>1, <1>3, <1>6 DEF SweepInv, SweepTypeOK, HeldInv
<1>8. ASSUME NEW v \in Worker, NEW t \in DOMAIN batch'[v]
      PROVE  Stored(t)' /\ ~tickets'[t].sla_breached /\ tickets'[t].assignee \subseteq batch'[v][t]
  <2>1. CASE v = w
    <3>1. t \in chosen /\ batch'[v][t] = tickets[t].assignee
      BY <1>1, <1>8, <2>1
    <3>2. Stored(t) /\ ~tickets[t].sla_breached
      BY <1>2, <3>1 DEF Late, Visible
    <3>. QED
      BY <1>1, <3>1, <3>2 DEF Stored
  <2>2. CASE v # w
    BY <1>1, <1>8, <2>2 DEF SweepInv, SweepTypeOK, HeldInv, Stored
  <2>. QED
    BY <2>1, <2>2
<1>. QED
  BY <1>4, <1>5, <1>7, <1>8 DEF SweepInv, SweepTypeOK, HeldInv

\* A sweep that ends flags no row but its own.
LEMMA HeldEnd ==
  ASSUME SweepInv, NEW w \in Worker, batch' = [batch EXCEPT ![w] = None], TypeOK',
         \A t \in Ticket \ DOMAIN batch[w] : tickets'[t] = tickets[t]
  PROVE  SweepInv'
<1>1. \A v \in Worker : batch'[v] = IF v = w THEN None ELSE batch[v]
  BY DEF SweepInv, SweepTypeOK
<1>2. batch' \in [Worker -> Batch]
  BY NoneHoldsNothing DEF SweepInv, SweepTypeOK
<1>3. \A v, y \in Worker : v # y => DOMAIN batch'[v] \cap DOMAIN batch'[y] = {}
  BY <1>1, NoneHoldsNothing DEF SweepInv, SweepTypeOK, HeldInv
<1>4. ASSUME NEW v \in Worker, NEW t \in DOMAIN batch'[v]
      PROVE  Stored(t)' /\ ~tickets'[t].sla_breached /\ tickets'[t].assignee \subseteq batch'[v][t]
  <2>1. v # w /\ batch'[v] = batch[v] /\ t \in DOMAIN batch[v]
    BY <1>1, <1>4, NoneHoldsNothing
  <2>2. t \in Ticket \ DOMAIN batch[w]
    BY <2>1, BatchDomain DEF SweepInv, SweepTypeOK, HeldInv
  <2>. QED
    BY <2>1, <2>2 DEF SweepInv, SweepTypeOK, HeldInv, Stored
<1>. QED
  BY <1>2, <1>3, <1>4 DEF SweepInv, SweepTypeOK, HeldInv

LEMMA FlagTyped ==
  ASSUME SweepInv, NEW w \in Worker, SweepCommit(w)
  PROVE  TypeOK'
<1>1. \A t \in Ticket : [tickets[t] EXCEPT !.sla_breached = TRUE] \in Row
  BY DEF SweepInv, SweepTypeOK, TypeOK, Row
<1>. QED
  BY <1>1 DEF SweepCommit, SweepInv, SweepTypeOK, TypeOK

LEMMA SweepInvAlways == SweepSpec => []SweepInv
<1>1. SweepInit => SweepInv
  <2>. SUFFICES ASSUME SweepInit
                PROVE  SweepInv
    OBVIOUS
  <2>1. TypeOK
    BY BlankRow, BoundAssumption DEF SweepInit, Init, TypeOK, Txn, Idle, Never
  <2>. QED
    BY <2>1, NoneHoldsNothing DEF SweepInit, SweepInv, SweepTypeOK, HeldInv
<1>2. SweepInv /\ [SweepNext]_svars => SweepInv'
  <2>. SUFFICES ASSUME SweepInv, [SweepNext]_svars
                PROVE  SweepInv'
    OBVIOUS
  <2>1. CASE Beside(Tick)
    <3>1. TypeOK' /\ UNCHANGED <<tickets, batch>>
      BY <2>1 DEF Beside, Tick, SweepInv, SweepTypeOK, TypeOK, Never
    <3>. QED
      BY <3>1, HeldFrame
  <2>2. ASSUME NEW r \in Request, Beside(Load(r))
        PROVE  SweepInv'
    BY <2>2, HeldLoad
  <2>3. ASSUME NEW r \in Request, GoOn(r)
        PROVE  SweepInv'
    <3>1. UNCHANGED batch
      BY <2>3 DEF GoOn, Beside
    <3>2. CASE AssignCheck(r) \/ MoveCheck(r)
      <4>1. TypeOK' /\ UNCHANGED tickets
        BY <3>2, CheckTypeOK DEF Check, AssignCheck, MoveCheck, SweepInv, SweepTypeOK
      <4>. QED
        BY <3>1, <4>1, HeldFrame
    <3>3. CASE Abort(r)
      <4>1. TypeOK' /\ UNCHANGED tickets
        BY <3>3, EndTypeOK DEF Abort, SweepInv, SweepTypeOK, TypeOK
      <4>. QED
        BY <3>1, <4>1, HeldFrame
    <3>4. CASE ~WaitsForSweep(r) /\ Commit(r)
      BY <3>1, <3>4, HeldCommit
    <3>. QED
      BY <2>3, <3>2, <3>3, <3>4 DEF GoOn, Beside
  <2>4. ASSUME NEW w \in Worker, NEW chosen \in SUBSET Ticket, SweepSelect(w, chosen)
        PROVE  SweepInv'
    BY <2>4, HeldSelect
  <2>5. ASSUME NEW w \in Worker, SweepCommit(w)
        PROVE  SweepInv'
    BY <2>5, FlagTyped, HeldEnd DEF SweepCommit
  <2>6. ASSUME NEW w \in Worker, SweepCrash(w)
        PROVE  SweepInv'
    <3>1. TypeOK'
      BY <2>6 DEF SweepCrash, SweepInv, SweepTypeOK, TypeOK
    <3>. QED
      BY <2>6, <3>1, HeldEnd DEF SweepCrash
  <2>7. CASE UNCHANGED svars
    BY <2>7 DEF svars, vars, SweepInv, SweepTypeOK, TypeOK, HeldInv, Stored
  <2>. QED
    BY <2>1, <2>2, <2>3, <2>4, <2>5, <2>6, <2>7 DEF SweepNext, RequestStep
<1>. QED
  BY <1>1, <1>2, PTL DEF SweepSpec

\* Beside the sweep, every row and request keeps its type, and a sweep holds rows
\* of tickets with the assignees that it read.
THEOREM SweepTypeCorrect == SweepSpec => []SweepTypeOK
BY SweepInvAlways, PTL DEF SweepInv

-----------------------------------------------------------------------------
(* The alerts. *)

\* Only the commit of a sweep alerts anybody, and of its own batch.
LEMMA WhoAlerts ==
  ASSUME SweepInv, SweepNext
  PROVE  \/ DOMAIN alerts' = {}
         \/ \E w \in Worker : SweepCommit(w) /\ DOMAIN alerts' = DOMAIN batch[w]
BY NoneHoldsNothing DEF SweepNext, RequestStep, GoOn, Beside, SweepSelect, SweepCommit,
                        SweepCrash

\* No breach is announced a second time, however many sweeps run, crash and
\* overlap: the row locks and the flag keep them apart (sweep_sla_breaches).
THEOREM AlertedOnceAlways == SweepSpec => AlertedOnce
<1>1. SweepInv /\ [SweepNext]_svars
        => [\A t \in DOMAIN alerts' : ~tickets[t].sla_breached]_svars
  BY WhoAlerts DEF SweepInv, SweepTypeOK, HeldInv
<1>. QED
  BY <1>1, SweepInvAlways, PTL DEF SweepSpec, AlertedOnce

\* Whoever is the assignee when a breach is committed is told of it, however
\* many assignments, claims and moves race the sweep: the lock on the ticket
\* that a new owner row takes makes it wait.
THEOREM OwnerIsAlertedAlways == SweepSpec => OwnerIsAlerted
<1>1. ASSUME SweepInv, NEW w \in Worker, SweepCommit(w), NEW t \in DOMAIN batch[w]
      PROVE  tickets'[t].assignee \subseteq alerts'[t]
  <2>1. t \in Ticket /\ tickets[t] \in Row
    BY <1>1, BatchDomain DEF SweepInv, SweepTypeOK, TypeOK
  <2>2. tickets'[t].assignee = tickets[t].assignee
    BY <1>1, <2>1 DEF SweepCommit, Row
  <2>3. tickets[t].assignee \subseteq batch[w][t]
    BY <1>1 DEF SweepInv, SweepTypeOK, HeldInv
  <2>4. alerts'[t] = Recipients(t, batch[w][t]) \cup oversight_user_ids
    BY <1>1 DEF SweepCommit
  <2>. QED
    BY <2>2, <2>3, <2>4 DEF Recipients
<1>2. SweepInv /\ [SweepNext]_svars
        => [\A t \in DOMAIN alerts' : tickets'[t].assignee \subseteq alerts'[t]]_svars
  BY <1>1, WhoAlerts
<1>. QED
  BY <1>2, SweepInvAlways, PTL DEF SweepSpec, OwnerIsAlerted

-----------------------------------------------------------------------------
(* The serial service beside the sweep. *)

\* A step beside the sweep is a step of a request or of the clock, or it leaves
\* everything of Tickets but the flags and the effects alone.
LEMMA SweepLeavesRows ==
  ASSUME SweepInv, [SweepNext]_svars
  PROVE  [Next]_vars \/ (RowsKept /\ UNCHANGED <<members, now, txn>>)
<1>1. CASE RequestStep
  BY <1>1 DEF RequestStep, GoOn, Beside, Next, Check
<1>2. ASSUME NEW w \in Worker, SweepCommit(w)
      PROVE  RowsKept /\ UNCHANGED <<members, now, txn>>
  <2>1. \A t \in Ticket : \/ tickets'[t] = tickets[t]
                          \/ tickets'[t] = [tickets[t] EXCEPT !.sla_breached = TRUE]
    BY <1>2 DEF SweepCommit
  <2>2. ASSUME NEW t \in Ticket, tickets'[t] = [tickets[t] EXCEPT !.sla_breached = TRUE]
        PROVE  /\ tickets'[t].created_at = tickets[t].created_at
               /\ tickets'[t].category = tickets[t].category
               /\ tickets'[t].team = tickets[t].team
               /\ tickets'[t].sla_due_at = tickets[t].sla_due_at
               /\ tickets'[t].status = tickets[t].status
               /\ tickets'[t].resolved_at = tickets[t].resolved_at
               /\ tickets'[t].closed_at = tickets[t].closed_at
               /\ tickets'[t].requester = tickets[t].requester
               /\ tickets'[t].assignee = tickets[t].assignee
    <3>1. tickets[t] \in Row
      BY DEF SweepInv, SweepTypeOK, TypeOK
    <3>. QED
      BY <2>2, <3>1 DEF Row
  <2>. QED
    BY <1>2, <2>1, <2>2 DEF RowsKept, SweepCommit
<1>3. ASSUME NEW w \in Worker, SweepCrash(w) \/ \E chosen \in SUBSET Ticket : SweepSelect(w, chosen)
      PROVE  UNCHANGED <<tickets, members, now, txn>>
  BY <1>3 DEF SweepCrash, SweepSelect
<1>4. CASE UNCHANGED svars
  BY <1>4 DEF svars
<1>. QED
  BY <1>1, <1>2, <1>3, <1>4 DEF SweepNext, RowsKept

LEMMA SerialBesideSweep ==
  ASSUME OneAtATime, SweepInv, SerialInv, [SweepNext]_svars
  PROVE  /\ SerialInv'
         /\ Workflow!WNext \/ UNCHANGED Workflow!wvars
<1>1. TypeOK
  BY DEF SweepInv, SweepTypeOK
<1>2. CASE [Next]_vars
  BY <1>1, <1>2, SerialNext, StepFollows
<1>3. CASE ~[Next]_vars
  <2>1. UNCHANGED <<members, now, txn>>
    BY <1>3, SweepLeavesRows
  <2>2. RowsKept
    BY <1>3, SweepLeavesRows
  <2>3. RowsInv /\ now' \in 1 .. MaxTime
    BY <2>1 DEF SerialInv, RowsInv
  <2>4. RowsInv'
    BY <1>1, <2>2, <2>3, RowsFrame DEF RowsKept
  <2>5. ASSUME NEW r \in Request, txn'[r] # Idle
        PROVE  AsLoaded(txn[r])'
    <3>1. txn[r] # Idle /\ AsLoaded(txn[r])
      BY <2>1, <2>5 DEF SerialInv
    <3>. QED
      BY <1>1, <2>1, <2>2, <3>1, LoadedFrame
  <2>6. UNCHANGED Workflow!wvars
    BY <2>2, WorkflowStutter DEF RowsKept
  <2>. QED
    BY <2>4, <2>5, <2>6 DEF SerialInv
<1>. QED
  BY <1>2, <1>3

LEMMA SerialBesideSweepAlways ==
  ASSUME OneAtATime
  PROVE  SweepSpec => []SerialInv
<1>1. SweepInv /\ SerialInv /\ [SweepNext]_svars => SerialInv'
  BY SerialBesideSweep
<1>2. SweepInit => SerialInv
  BY SerialInit DEF SweepInit
<1>. QED
  BY <1>1, <1>2, SweepInvAlways, PTL DEF SweepSpec

\* The sweep may flag what a request has loaded or is about to write, and the
\* tickets still live as the workflow says.
THEOREM ImplementsWorkflowBesideSweep ==
  ASSUME OneAtATime
  PROVE  SweepSpec => ImplementsWorkflow
<1>1. SweepInv /\ SerialInv /\ [SweepNext]_svars => [Workflow!WNext]_(Workflow!wvars)
  BY SerialBesideSweep
<1>2. SweepInit => Workflow!WInit
  BY InitFollows DEF SweepInit
<1>. QED
  BY <1>1, <1>2, SweepInvAlways, SerialBesideSweepAlways, PTL
     DEF SweepSpec, ImplementsWorkflow, Workflow!WSpec

\* Nor does it disturb the queues: the due date that a move writes is the one of
\* its category, whichever sweep looks at it.
THEOREM QueuedToItsCategoryBesideSweep ==
  ASSUME OneAtATime
  PROVE  SweepSpec => []QueuedToItsCategory
<1>1. SerialInv => QueuedToItsCategory
  BY DEF SerialInv, RowsInv
<1>. QED
  BY <1>1, SerialBesideSweepAlways, PTL
=============================================================================
