------------------------------ MODULE SlaSweep ------------------------------
(***************************************************************************)
(* The SLA sweep of app/workers/sla_tasks.py beside the requests of        *)
(* Tickets.  Celery beat queues a sweep every minute; a worker selects the *)
(* late tickets FOR UPDATE SKIP LOCKED, flags them, writes an alert for    *)
(* each, and commits.  Tasks are acknowledged late, so a sweep whose       *)
(* worker died runs again, and two sweeps may overlap.                     *)
(***************************************************************************)
EXTENDS Tickets, FiniteSets

CONSTANTS
    Worker,     \* the Celery worker processes
    BatchSize   \* BATCH_SIZE of sla_tasks.py

ASSUME BatchAssumption == BatchSize \in Nat \ {0}

VARIABLES
    batch,      \* batch[w]: the rows that the sweep of w holds, with the
                \* assignees it read: a function from tickets to sets of users
    alerts      \* the SLA_BREACHED notifications of the last step: for each
                \* ticket it flagged, who is told.  An observer's variable.

svars == <<vars, batch, alerts>>

None == [t \in {} |-> {}]

Batch == UNION {[S -> SUBSET User] : S \in SUBSET Ticket}

SweepTypeOK == TypeOK /\ batch \in [Worker -> Batch]

SweepInit == Init /\ batch = [w \in Worker |-> None] /\ alerts = None

-----------------------------------------------------------------------------
Late_PausedByWaiting(t) ==      \* slip: the clock stops while the user is asked
    /\ Visible(t)
    /\ ~tickets[t].sla_breached
    /\ tickets[t].sla_due_at < now
    /\ tickets[t].status \notin FINISHED_STATES \cup {"waiting"}

Late(t) ==
    /\ Visible(t)
    /\ ~tickets[t].sla_breached
    /\ tickets[t].sla_due_at < now
    /\ tickets[t].status \notin FINISHED_STATES

SweepLocked_None == {}      \* slip: selected without FOR UPDATE

SweepLocked == UNION {DOMAIN batch[w] : w \in Worker}

\* A request may have flushed its writes, and so hold the row, ahead of its
\* commit.  A category change surely has.
MayHoldRow   == {txn[r].ticket : r \in {q \in Request : txn[q].pc = "staged"
                                    /\ txn[q].call \notin {"add", "remove"}}}
SurelyHolds  == {txn[r].ticket : r \in {q \in Request : Staged(q, "move")}}

OldestFirst(late, chosen) ==
    /\ Cardinality(chosen) = IF Cardinality(late) < BatchSize
                             THEN Cardinality(late) ELSE BatchSize
    /\ \A t \in chosen, s \in late \ chosen :
            tickets[t].sla_due_at <= tickets[s].sla_due_at

\* SELECT ... ORDER BY sla_due_at LIMIT 100 FOR UPDATE SKIP LOCKED, then the
\* owners of the rows that were locked.
SweepSelect(w, chosen) ==
    /\ batch[w] = None
    /\ chosen # {}
    /\ \E skipped \in SUBSET MayHoldRow :
        /\ SurelyHolds \subseteq skipped
        /\ chosen \subseteq Ticket \ (SweepLocked \cup skipped)
        /\ OldestFirst({t \in Ticket \ (SweepLocked \cup skipped) : Late(t)}, chosen)
        /\ \A t \in chosen : Late(t)
    /\ batch' = [batch EXCEPT ![w] = [t \in chosen |-> tickets[t].assignee]]
    /\ alerts' = None
    /\ effects' = NoEffects
    /\ UNCHANGED <<tickets, members, now, txn>>

oversight_user_ids == {u \in Active : SeesAll(u)}

Recipients(t, assignee) ==
    IF assignee # {} THEN assignee ELSE members[tickets[t].team]

SweepCommit(w) ==
    /\ batch[w] # None
    /\ tickets' = [t \in Ticket |->
            IF t \in DOMAIN batch[w] THEN [tickets[t] EXCEPT !.sla_breached = TRUE]
                                     ELSE tickets[t]]
    /\ alerts' = [t \in DOMAIN batch[w] |->
                    Recipients(t, batch[w][t]) \cup oversight_user_ids]
    /\ batch' = [batch EXCEPT ![w] = None]
    /\ effects' = NoEffects
    /\ UNCHANGED <<members, now, txn>>

\* The worker dies before its commit: the locks go with its session, and the
\* task is delivered again (acks_late), or the next minute's takes its place.
SweepCrash(w) ==
    /\ batch[w] # None
    /\ batch' = [batch EXCEPT ![w] = None]
    /\ alerts' = None
    /\ effects' = NoEffects
    /\ UNCHANGED <<tickets, members, now, txn>>

\* A request waits for the rows that a sweep has locked: to update one, and
\* to insert an owner, whose foreign key takes a share lock on the ticket.
WaitsForSweep_UpdatesOnly(r) ==     \* slip: no foreign key on ticket_owners
    /\ txn[r] # Idle
    /\ txn[r].call \in {"status", "edit", "move", "delete"}
    /\ txn[r].ticket \in SweepLocked

WaitsForSweep(r) ==
    /\ txn[r] # Idle
    /\ txn[r].call \in {"status", "edit", "move", "delete", "assign"}
    /\ txn[r].ticket \in SweepLocked
    /\ txn[r].call = "assign" => txn[r].to # {}

Beside(request) == request /\ alerts' = None /\ UNCHANGED batch

\* What a request does after it began.
GoOn(r) ==
    Beside(\/ AssignCheck(r) \/ Abort(r)
           \/ ~WaitsForSweep(r) /\ (MoveCheck(r) \/ Commit(r)))

RequestStep ==
    \/ Beside(Tick)
    \/ \E r \in Request : Beside(Load(r)) \/ GoOn(r)

SweepNext ==
    \/ RequestStep
    \/ \E w \in Worker : \/ \E chosen \in SUBSET Ticket : SweepSelect(w, chosen)
                         \/ SweepCommit(w)
                         \/ SweepCrash(w)

\* Beat keeps queueing sweeps and workers keep taking them, so a late row that
\* is free time and again is selected at last, and not every sweep crashes;
\* every request ends, and time goes on.
Fairness ==
    /\ WF_svars(Beside(Tick))
    /\ \A r \in Request : WF_svars(GoOn(r))
    /\ \A w \in Worker : SF_svars(SweepCommit(w))
    /\ \A t \in Ticket :
        SF_svars(\E w \in Worker, chosen \in SUBSET Ticket :
                    t \in chosen /\ SweepSelect(w, chosen))

SweepSpec == SweepInit /\ [][SweepNext]_svars /\ Fairness

-----------------------------------------------------------------------------
(* Properties. *)

\* A breach is announced once: a sweep that runs twice, or two that overlap,
\* alert nobody again of a ticket that is flagged already.
AlertedOnce ==
    [][\A t \in DOMAIN alerts' : ~tickets[t].sla_breached]_svars

\* The alert reaches its owner: whoever is the assignee when the breach is
\* committed is told, however assignments and moves race the sweep.
OwnerIsAlerted ==
    [][\A t \in DOMAIN alerts' : tickets'[t].assignee \subseteq alerts'[t]]_svars

\* Every late ticket is flagged at last, unless it is finished, deleted or
\* moved to a category with more time before the sweep gets to it.
LateIsFlagged ==
    \A t \in Ticket :
        (/\ Visible(t)
         /\ tickets[t].sla_due_at < now
         /\ tickets[t].status \notin FINISHED_STATES)
        ~> \/ tickets[t].sla_breached
           \/ tickets[t].deleted
           \/ tickets[t].status \in FINISHED_STATES
           \/ tickets[t].sla_due_at >= now
=============================================================================
