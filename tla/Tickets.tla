------------------------------- MODULE Tickets -------------------------------
(***************************************************************************)
(* The ticket store of ServiceDesk and the HTTP requests that change it:   *)
(* app/services/ticket_service.py behind app/api/v1/ticket.py, and the     *)
(* team memberships of app/services/team_service.py.                       *)
(*                                                                         *)
(* A request runs in one database session (app/db/session.py): READ        *)
(* COMMITTED, no row version, no lock taken by a read.  It loads its       *)
(* caller, the teams of the caller and the ticket, checks the permissions  *)
(* on what it loaded, and writes at its commit the columns whose value it  *)
(* changed.  Anything may commit in between.  So a request is a slot       *)
(* txn[r] that goes                                                        *)
(*                                                                         *)
(*    idle --Load--> loaded --Check--> staged --Commit--> idle             *)
(*                                                                         *)
(* where Load reads and checks, Check (of the two handlers that read more  *)
(* while they run) reads the memberships, and Commit applies the UPDATE,   *)
(* INSERT and DELETE statements to the rows as they are THEN.  With one    *)
(* slot the service is serial; with two it shows what the code promises    *)
(* under concurrency.                                                      *)
(***************************************************************************)
EXTENDS Integers, Permissions

CONSTANTS
    Category,   \* the categories of the catalog
    TeamOf,     \* TeamOf[c]: the team that a category is queued to
    SlaHours,   \* SlaHours[c]: hours (ticks of the clock) until its SLA is due
    Ticket,     \* the tickets that can be raised
    Request,    \* the requests the server can be handling at a time
    Calls,      \* the endpoints that the clients of this instance call
    Patches,    \* the field sets that PATCH bodies carry
    Memberships,    \* the membership tables to start from
    MaxTime     \* bound on the clock

Never == 0      \* NULL in a timestamp column; the clock starts at 1

ASSUME CatalogAssumption ==
    /\ TeamOf \in [Category -> Team]
    /\ SlaHours \in [Category -> Nat \ {0}]
ASSUME BoundAssumption ==
    /\ MaxTime \in Nat \ {0}
    /\ Patches \subseteq SUBSET Field
    /\ Category # {}
    /\ Memberships \subseteq [Team -> SUBSET {u \in User \ Disabled : IsStaff(u)}]

VARIABLES
    tickets,    \* the tickets and ticket_owners tables
    members,    \* the team_memberships table: members[team] is a set of users
    now,        \* the clock
    txn,        \* txn[r]: what request r has read and is about to write
    effects     \* what the last step committed besides the rows: the action of
                \* its audit entry ("moved" for an update that changes the
                \* category), the actor of an assignment, the rooms of its
                \* NOTIFY.  An observer's variable: no action reads it.

vars == <<tickets, members, now, txn, effects>>

Time == Never .. MaxTime

Row == [status: Status, category: Category, team: Team,
        created_at: Nat, sla_due_at: Nat, sla_breached: BOOLEAN,
        resolved_at: Nat, closed_at: Nat, deleted: BOOLEAN,
        requester: SUBSET User, assignee: SUBSET User]

Stored(t)  == tickets[t].created_at # Never

\* What _base_query selects: deleted tickets are invisible.
Visible(t) == Stored(t) /\ ~tickets[t].deleted

Perms(u) == [user |-> u, teams |-> LoadTeamIds(u, members)]

Active == User \ Disabled

-----------------------------------------------------------------------------
(* Realtime rooms.  A room is a pair <<kind, name>>. *)

AllTicketsRoom == <<"tickets", "all">>

Room == {AllTicketsRoom} \cup ({"team"} \X Team) \cup ({"user"} \X User)

RoomsFor(p) ==
    {<<"user", p.user>>}
        \cup (IF SeesAll(p.user) THEN {AllTicketsRoom} ELSE {})
        \cup (IF IsStaff(p.user) THEN {<<"team", g>> : g \in p.teams} ELSE {})

\* The rooms that hear of a ticket event: read from the row and the owners as
\* the emitting transaction sees them.
TicketRooms_TeamOnly(tk) == {AllTicketsRoom, <<"team", tk.team>>}   \* slip: owners left out

TicketRooms(tk) ==
    {AllTicketsRoom, <<"team", tk.team>>}
        \cup {<<"user", u>> : u \in tk.requester \cup tk.assignee}

-----------------------------------------------------------------------------
(* The request slots. *)

Idle == [pc |-> "idle"]

StatusTxn == [pc: {"staged"}, call: {"status"}, ticket: Ticket,
              to: Status, resolved_at: Nat, closed_at: Nat]
AssignTxn == [pc: {"loaded", "staged"}, call: {"assign"}, user: User,
              ticket: Ticket, from: SUBSET User, to: SUBSET User, team: Team]
EditTxn   == [pc: {"staged"}, call: {"edit"}, ticket: Ticket]
MoveTxn   == [pc: {"loaded", "staged"}, call: {"move"}, ticket: Ticket,
              category: Category, team: Team, due: Nat, breached: BOOLEAN,
              assignee: SUBSET User, clears: BOOLEAN, drops: SUBSET User,
              rooms: SUBSET Room]
DeleteTxn == [pc: {"staged"}, call: {"delete"}, ticket: Ticket]
MemberTxn == [pc: {"staged"}, call: {"add", "remove"}, member: User, team: Team]

Txn == {Idle} \cup StatusTxn \cup AssignTxn \cup EditTxn \cup MoveTxn
              \cup DeleteTxn \cup MemberTxn

NoEffects == [action |-> "none"]

Committed(action, t, rooms) == [action |-> action, ticket |-> t, rooms |-> rooms]

TypeOK ==
    /\ tickets \in [Ticket -> Row]
    /\ members \in [Team -> SUBSET User]
    /\ now \in Nat \ {Never}
    /\ txn \in [Request -> Txn]

-----------------------------------------------------------------------------
(* Initially no ticket has been raised.                                    *)

Blank == [status |-> "open", category |-> CHOOSE c \in Category : TRUE,
          team |-> CHOOSE g \in Team : TRUE,
          created_at |-> Never, sla_due_at |-> Never, sla_breached |-> FALSE,
          resolved_at |-> Never, closed_at |-> Never, deleted |-> FALSE,
          requester |-> {}, assignee |-> {}]

Init ==
    /\ tickets = [t \in Ticket |-> Blank]
    /\ members \in Memberships
    /\ now = 1
    /\ txn = [r \in Request |-> Idle]
    /\ effects = NoEffects

Begin(r, x) ==
    /\ txn[r] = Idle
    /\ txn' = [txn EXCEPT ![r] = x]
    /\ effects' = NoEffects
    /\ UNCHANGED <<tickets, members, now>>

Staged(r, call) == txn[r].pc = "staged" /\ txn[r].call = call

\* A category change has flushed its UPDATE of the row before its commit (its
\* first event flushes), so other writers of the row wait for it.
RowLocked(t, r) ==
    \E q \in Request \ {r} : Staged(q, "move") /\ txn[q].ticket = t

End(r) == txn' = [txn EXCEPT ![r] = Idle]

\* The caller may hold a session: an active account.
CallerSees(u, t) == u \in Active /\ Visible(t)

-----------------------------------------------------------------------------
(* POST /tickets.  Nothing it reads can change under it but the team's     *)
(* members, so it is one step.                                             *)

\* When the ticket's SLA is due, for a ticket raised at `born'.
Due_Subtracted(born, c) == born - SlaHours[c]       \* slip: due before it is raised

Due(born, c) == born + SlaHours[c]

CreateTicket(r, u, t, c) ==
    /\ "create" \in Calls
    /\ txn[r] = Idle
    /\ u \in Active
    /\ ~Stored(t)
    /\ LET team == TeamOf[c]
           row  == [Blank EXCEPT !.category = c, !.team = team,
                        !.created_at = now, !.sla_due_at = Due(now, c),
                        !.requester = {u}]
       IN  /\ tickets' = [tickets EXCEPT ![t] = row]
           /\ effects' = Committed("created", t, TicketRooms(row))
    /\ UNCHANGED <<members, now, txn>>

-----------------------------------------------------------------------------
(* POST /tickets/{id}/status without a comment.                            *)

ALLOWED_TRANSITIONS ==
    [open        |-> {"in_progress", "waiting", "resolved", "closed"},
     in_progress |-> {"open", "waiting", "resolved"},
     waiting     |-> {"open", "in_progress", "resolved"},
     resolved    |-> {"closed", "in_progress"},
     closed      |-> {}]

\* The value that change_status gives a stamp column, Never when it leaves it.
Stamp_Inverted(target, new, old) ==     \* slip: the test of the column inverted
    IF new = target /\ old # Never THEN now ELSE Never

Stamp(target, new, old) == IF new = target /\ old = Never THEN now ELSE Never

ChangeStatusLoad(r, u, t, new) ==
    /\ "status" \in Calls
    /\ CallerSees(u, t)
    /\ LET tk == tickets[t] IN
       /\ RequireStatusChange(Perms(u), tk, new)
       /\ new \in ALLOWED_TRANSITIONS[tk.status]
       /\ Begin(r, [pc |-> "staged", call |-> "status", ticket |-> t, to |-> new,
                    resolved_at |-> Stamp("resolved", new, tk.resolved_at),
                    closed_at |-> Stamp("closed", new, tk.closed_at)])

\* UPDATE tickets SET status, and the stamp columns that were set.
StatusUpdate_ClearOnOpen(tk, x) ==      \* slip: back to open clears the stamp
    [tk EXCEPT !.status = x.to,
               !.resolved_at = IF x.resolved_at # Never THEN x.resolved_at
                               ELSE IF x.to = "open" THEN Never ELSE @,
               !.closed_at = IF x.closed_at # Never THEN x.closed_at ELSE @]

StatusUpdate(tk, x) ==
    [tk EXCEPT !.status = x.to,
               !.resolved_at = IF x.resolved_at # Never THEN x.resolved_at ELSE @,
               !.closed_at = IF x.closed_at # Never THEN x.closed_at ELSE @]

ChangeStatusCommit(r) ==
    /\ Staged(r, "status")
    /\ ~RowLocked(txn[r].ticket, r)
    /\ LET x == txn[r] IN
       /\ tickets' = [tickets EXCEPT ![x.ticket] = StatusUpdate(@, x)]
       /\ effects' = Committed("status_changed", x.ticket,
                               TicketRooms(tickets[x.ticket]))
    /\ End(r)
    /\ UNCHANGED <<members, now>>

-----------------------------------------------------------------------------
(* POST /tickets/{id}/assign and /claim.  `to' is {} to unassign.          *)

AssignLoad(r, u, t, to) ==
    /\ "assign" \in Calls
    /\ CallerSees(u, t)
    /\ LET tk == tickets[t] IN
       /\ RequireAssign(Perms(u), tk)
       /\ RequireReassign(Perms(u), tk)
       /\ to # tk.assignee
       /\ Begin(r, [pc |-> "loaded", call |-> "assign", user |-> u, ticket |-> t,
                    from |-> tk.assignee, to |-> to, team |-> tk.team])

AssignTicket(r, u, t, to) == AssignLoad(r, u, t, to)

ClaimTicket(r, u, t) == AssignLoad(r, u, t, {u})

\* Who may be made the assignee of a ticket that is queued to a team.
MayOwn(a, team) ==
    /\ a \in Active
    /\ IsStaff(a)
    /\ SeesAll(a) \/ a \in members[team]

AssignCheck(r) ==
    /\ txn[r].pc = "loaded" /\ txn[r].call = "assign"
    /\ \A a \in txn[r].to : MayOwn(a, txn[r].team)
    /\ txn' = [txn EXCEPT ![r].pc = "staged"]
    /\ effects' = NoEffects
    /\ UNCHANGED <<tickets, members, now>>

\* DELETE the assignee rows that were loaded: by primary key, so a row that
\* is gone already is no error, and a row somebody else inserted stays.
AfterDelete_ByRole(assignee, x) == {}   \* slip: DELETE every assignee row

AfterDelete(assignee, x) == assignee \ x.from

\* uq_ticket_owners_single_holder lets the INSERT through.
SingleHolderIndex_None(left, to) == TRUE      \* slip: the index not created

SingleHolderIndex(left, to) == to = {} \/ left = {}

AssignCommit(r) ==
    /\ Staged(r, "assign")
    /\ LET x    == txn[r]
           tk   == tickets[x.ticket]
           left == AfterDelete(tk.assignee, x)
           row  == [tk EXCEPT !.assignee = left \cup x.to]
       IN  /\ SingleHolderIndex(left, x.to)
           /\ tickets' = [tickets EXCEPT ![x.ticket] = row]
           /\ effects' = [action |-> IF x.to = {} THEN "unassigned" ELSE "assigned",
                          ticket |-> x.ticket, rooms |-> TicketRooms(row),
                          actor |-> x.user]
    /\ End(r)
    /\ UNCHANGED <<members, now>>

-----------------------------------------------------------------------------
(* PATCH /tickets/{id}: the fields that only change the text or the        *)
(* priority (columns not modelled), and the change of category.            *)

EditLoad(r, u, t, fields) ==
    /\ "update" \in Calls
    /\ "category_id" \notin fields
    /\ CallerSees(u, t)
    /\ RequireEdit(Perms(u), tickets[t], fields)
    /\ Begin(r, [pc |-> "staged", call |-> "edit", ticket |-> t])

EditCommit(r) ==
    /\ Staged(r, "edit")
    /\ ~RowLocked(txn[r].ticket, r)
    /\ LET x == txn[r] IN
       effects' = Committed("updated", x.ticket, TicketRooms(tickets[x.ticket]))
    /\ End(r)
    /\ UNCHANGED <<tickets, members, now>>

MoveLoad(r, u, t, fields, c) ==
    /\ "update" \in Calls
    /\ "category_id" \in fields
    /\ CallerSees(u, t)
    /\ LET tk == tickets[t] IN
       /\ RequireEdit(Perms(u), tk, fields)
       /\ c # tk.category
       /\ Begin(r, [pc |-> "loaded", call |-> "move", ticket |-> t,
                    category |-> c, team |-> tk.team, due |-> tk.sla_due_at,
                    breached |-> tk.sla_breached, assignee |-> tk.assignee,
                    clears |-> FALSE, drops |-> {}, rooms |-> {}])

NewDue(x) == Due(tickets[x.ticket].created_at, x.category)

\* The loaded assignee leaves the ticket when it cannot work in the new team.
DropAssigneeOutsideTeam_Keep(x) == {}      \* slip: the assignee moves along

DropAssigneeOutsideTeam(x) ==
    {a \in x.assignee : ~SeesAll(a) /\ a \notin members[TeamOf[x.category]]}

\* The rest of update() up to its commit.  The first event goes to the rooms
\* of the old team and of the owners before anyone is dropped.
MoveCheck(r) ==
    /\ txn[r].pc = "loaded" /\ txn[r].call = "move"
    /\ ~RowLocked(txn[r].ticket, r)
    /\ LET x     == txn[r]
           moved == TeamOf[x.category] # x.team
       IN txn' = [txn EXCEPT ![r] =
             [x EXCEPT !.pc = "staged",
                       !.clears = x.breached /\ NewDue(x) > now,
                       !.drops = IF moved THEN DropAssigneeOutsideTeam(x) ELSE {},
                       !.rooms = TicketRooms(tickets[x.ticket])]]
    /\ effects' = NoEffects
    /\ UNCHANGED <<tickets, members, now>>

\* UPDATE only the columns whose value differs from the one that was loaded.
MoveUpdate_KeepTeam(tk, x) ==       \* slip: the ticket stays in its old queue
    [tk EXCEPT !.category = x.category, !.sla_due_at = NewDue(x),
               !.assignee = @ \ x.drops]

MoveUpdate(tk, x) ==
    [tk EXCEPT
        !.category = x.category,
        !.team = IF TeamOf[x.category] # x.team THEN TeamOf[x.category] ELSE @,
        !.sla_due_at = IF NewDue(x) # x.due THEN NewDue(x) ELSE @,
        !.sla_breached = IF x.clears THEN FALSE ELSE @,
        !.assignee = @ \ x.drops]

MoveCommit(r) ==
    /\ Staged(r, "move")
    /\ LET x   == txn[r]
           row == MoveUpdate(tickets[x.ticket], x)
       IN  /\ tickets' = [tickets EXCEPT ![x.ticket] = row]
           /\ effects' = Committed("moved", x.ticket, x.rooms \cup TicketRooms(row))
    /\ End(r)
    /\ UNCHANGED <<members, now>>

-----------------------------------------------------------------------------
(* DELETE /tickets/{id}: a soft delete.                                    *)

DeleteLoad(r, u, t) ==
    /\ "delete" \in Calls
    /\ CallerSees(u, t)
    /\ RequireDelete(Perms(u), tickets[t])
    /\ Begin(r, [pc |-> "staged", call |-> "delete", ticket |-> t])

DeleteCommit(r) ==
    /\ Staged(r, "delete")
    /\ ~RowLocked(txn[r].ticket, r)
    /\ LET x == txn[r] IN
       /\ tickets' = [tickets EXCEPT ![x.ticket].deleted = TRUE]
       /\ effects' = Committed("deleted", x.ticket, TicketRooms(tickets[x.ticket]))
    /\ End(r)
    /\ UNCHANGED <<members, now>>

-----------------------------------------------------------------------------
(* POST and DELETE /teams/{id}/members: for holders of team.manage.        *)

Managed == \E u \in Active : Holds(u, "team.manage")

AddMemberLoad(r, u, team) ==
    /\ "member" \in Calls
    /\ Managed
    /\ u \in Active /\ IsStaff(u)
    /\ u \notin members[team]
    /\ Begin(r, [pc |-> "staged", call |-> "add", member |-> u, team |-> team])

\* The primary key (user, team) refuses a second row.
AddMemberCommit(r) ==
    /\ Staged(r, "add")
    /\ txn[r].member \notin members[txn[r].team]
    /\ members' = [members EXCEPT ![txn[r].team] = @ \cup {txn[r].member}]
    /\ effects' = NoEffects
    /\ End(r)
    /\ UNCHANGED <<tickets, now>>

RemoveMemberLoad(r, u, team) ==
    /\ "member" \in Calls
    /\ Managed
    /\ u \in members[team]
    /\ Begin(r, [pc |-> "staged", call |-> "remove", member |-> u, team |-> team])

\* The tickets that the member is working on stay assigned.
RemoveMemberCommit(r) ==
    /\ Staged(r, "remove")
    /\ members' = [members EXCEPT ![txn[r].team] = @ \ {txn[r].member}]
    /\ effects' = NoEffects
    /\ End(r)
    /\ UNCHANGED <<tickets, now>>

-----------------------------------------------------------------------------
\* The session rolls back: a refusal raised after the load (400), a violated
\* constraint (500), a lost connection or a crashed worker.
Abort(r) ==
    /\ txn[r] # Idle
    /\ End(r)
    /\ effects' = NoEffects
    /\ UNCHANGED <<tickets, members, now>>

Tick ==
    /\ now < MaxTime
    /\ now' = now + 1
    /\ effects' = NoEffects
    /\ UNCHANGED <<tickets, members, txn>>

Load(r) ==
    \/ \E u \in User, t \in Ticket :
        \/ \E c \in Category : CreateTicket(r, u, t, c)
        \/ \E new \in Status : ChangeStatusLoad(r, u, t, new)
        \/ \E to \in {{}} \cup {{a} : a \in User} : AssignTicket(r, u, t, to)
        \/ ClaimTicket(r, u, t)
        \/ \E fields \in Patches : EditLoad(r, u, t, fields)
        \/ \E fields \in Patches, c \in Category : MoveLoad(r, u, t, fields, c)
        \/ DeleteLoad(r, u, t)
    \/ \E u \in User, team \in Team :
        AddMemberLoad(r, u, team) \/ RemoveMemberLoad(r, u, team)

Check(r) == AssignCheck(r) \/ MoveCheck(r)

Commit(r) ==
    \/ ChangeStatusCommit(r)
    \/ AssignCommit(r)
    \/ EditCommit(r)
    \/ MoveCommit(r)
    \/ DeleteCommit(r)
    \/ AddMemberCommit(r)
    \/ RemoveMemberCommit(r)

Next == Tick \/ \E r \in Request : Load(r) \/ Check(r) \/ Commit(r) \/ Abort(r)

Spec == Init /\ [][Next]_vars
-----------------------------------------------------------------------------
(* Properties that hold whatever the interleaving of the requests.         *)

\* The index on ticket_owners at work: however assignments, claims and moves
\* race, a ticket never has two assignees, and always its one requester.
OneHolder ==
    \A t \in Ticket :
        /\ \A a, b \in tickets[t].assignee : a = b
        /\ Stored(t) => \E u \in User : tickets[t].requester = {u}

\* A resolved ticket says when it was resolved and a closed one when it was
\* closed, although change_status decides from a snapshot whether to stamp.
\* The resolved filter and the analytics count on it.
StampsMatchStatus ==
    \A t \in Ticket :
        /\ tickets[t].status = "resolved" => tickets[t].resolved_at # Never
        /\ tickets[t].status = "closed" => tickets[t].closed_at # Never

\* The list and the ticket page agree: the rows that the SQL conditions select
\* are the visible tickets that can_view() lets the caller open.
ListedIsViewable ==
    LET stored == {t \in Ticket : Visible(t)}
    IN  \A u \in Active :
            VisibilityConditions(Perms(u), [t \in stored |-> tickets[t]])
                = {t \in stored : CanView(Perms(u), tickets[t])}

\* Why OneHolder and NoSteal survive every step: an assignment in flight names
\* one new assignee at most, and those it read as assignees are its own caller
\* or its caller holds ticket.reassign.
OwnersInv ==
    /\ OneHolder
    /\ \A t \in Ticket : ~Stored(t) => tickets[t].assignee = {}
    /\ \A r \in Request : txn[r] # Idle /\ txn[r].call = "assign" =>
        /\ Stored(txn[r].ticket)
        /\ \A a, b \in txn[r].to : a = b
        /\ \/ txn[r].from \subseteq {txn[r].user}
           \/ Holds(txn[r].user, "ticket.reassign")

\* Why StampsMatchStatus survives every step: a status change in flight stamps
\* what it reaches, or the row was stamped before, and no step takes a stamp away.
StampsInv ==
    /\ StampsMatchStatus
    /\ \A r \in Request : Staged(r, "status") =>
        LET x == txn[r] IN
        /\ Stored(x.ticket)
        /\ x.to = "resolved" => \/ x.resolved_at # Never
                                \/ tickets[x.ticket].resolved_at # Never
        /\ x.to = "closed" => \/ x.closed_at # Never
                              \/ tickets[x.ticket].closed_at # Never

\* Nobody takes a ticket from an agent who works on it: an assignee is replaced
\* or removed only by itself, by a holder of ticket.reassign, or because the
\* ticket moves to another team, which replaces it by nobody.
NoStealStep ==
    \A t \in Ticket : \A a \in tickets[t].assignee \ tickets'[t].assignee :
        /\ effects'.ticket = t
        /\ \/ /\ effects'.action \in {"assigned", "unassigned"}
              /\ effects'.actor = a \/ Holds(effects'.actor, "ticket.reassign")
           \/ /\ effects'.action = "moved"
              /\ tickets'[t].assignee = {}

NoSteal == [][NoStealStep]_vars

-----------------------------------------------------------------------------
(* Properties that the checks on the snapshot give when requests do not    *)
(* overlap.  The runs show which of them two overlapping requests break.   *)

\* Closed is final: a closed ticket keeps its status and gets no new assignee.
ClosedIsFinalStep ==
    \A t \in Ticket : tickets[t].status = "closed" =>
        /\ tickets'[t].status = "closed"
        /\ tickets'[t].assignee \subseteq tickets[t].assignee

ClosedIsFinal == [][ClosedIsFinalStep]_vars

\* When an assignee meets a ticket, because it is assigned or because the
\* ticket moves, it can work on it: it is in the team or sees every ticket.
JoinsTeamStep ==
    \A t \in Ticket :
        (\/ tickets'[t].assignee # tickets[t].assignee
         \/ tickets'[t].team # tickets[t].team)
            => \A a \in tickets'[t].assignee :
                  SeesAll(a) \/ a \in members[tickets'[t].team]

AssigneeJoinsTeam == [][JoinsTeamStep]_vars

\* The team and the due date of a ticket are those of its category.
QueuedToItsCategory ==
    \A t \in Ticket : Stored(t) =>
        /\ tickets[t].team = TeamOf[tickets[t].category]
        /\ tickets[t].sla_due_at = Due(tickets[t].created_at, tickets[t].category)

\* A committed change rings for those it concerns and only for them: who may
\* see the ticket after it; who could see it before, but for the assignee it
\* was taken from; and nobody who could see it neither before nor after.
\* (Of a caller's sockets, the rooms joined with today's memberships.)
RoomsMatchStep ==
    effects'.action # "none" =>
        LET t == effects'.ticket
            hears(u)  == RoomsFor(Perms(u)) \cap effects'.rooms # {}
            before(u) == Stored(t) /\ CanView(Perms(u), tickets[t])
            after(u)  == CanView(Perms(u), tickets'[t])
            lost(u)   == u \in tickets[t].assignee
                            /\ effects'.action \in {"assigned", "unassigned"}
        IN \A u \in Active :
            /\ after(u) => hears(u)
            /\ before(u) /\ ~lost(u) => hears(u)
            /\ hears(u) => before(u) \/ after(u)

RoomsMatchViewers == [][RoomsMatchStep]_vars

\* Served one request at a time, the service implements the workflow: every
\* step is a stutter or a move that the workflow allows, stamps included.
Workflow == INSTANCE TicketWorkflow WITH
    phase    <- [t \in Ticket |-> IF Stored(t) THEN tickets[t].status ELSE "none"],
    resolved <- [t \in Ticket |-> tickets[t].resolved_at],
    closed   <- [t \in Ticket |-> tickets[t].closed_at]

ImplementsWorkflow == Workflow!WSpec
=============================================================================
