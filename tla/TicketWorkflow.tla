---------------------------- MODULE TicketWorkflow ----------------------------
(***************************************************************************)
(* What the ticket service promises of the life of a ticket, without       *)
(* users, requests or columns: a ticket is raised open, moves from status  *)
(* to status as the workflow allows, and is finished for good once it is   *)
(* closed.  Its resolution is remembered: once resolved, it keeps the      *)
(* moment of its first resolution, and the same for its closing.           *)
(***************************************************************************)
EXTENDS Naturals

CONSTANTS Ticket, MaxTime

VARIABLES phase,     \* phase[t]: "none" before the ticket is raised
          resolved,  \* resolved[t]: when it was first resolved, 0 if never
          closed     \* closed[t]: when it was closed, 0 if never

wvars == <<phase, resolved, closed>>

Follows == [none        |-> {"open"},
            open        |-> {"in_progress", "waiting", "resolved", "closed"},
            in_progress |-> {"open", "waiting", "resolved"},
            waiting     |-> {"open", "in_progress", "resolved"},
            resolved    |-> {"closed", "in_progress"},
            closed      |-> {}]

WInit == /\ phase = [t \in Ticket |-> "none"]
         /\ resolved = [t \in Ticket |-> 0]
         /\ closed = [t \in Ticket |-> 0]

\* A stamp is set by the step that first reaches its status, and never again.
FirstTime(stamp, t, reached) ==
    IF reached /\ stamp[t] = 0
    THEN \E moment \in 1 .. MaxTime : stamp' = [stamp EXCEPT ![t] = moment]
    ELSE stamp' = stamp

Move(t, s) ==
    /\ s \in Follows[phase[t]]
    /\ phase' = [phase EXCEPT ![t] = s]
    /\ FirstTime(resolved, t, s = "resolved")
    /\ FirstTime(closed, t, s = "closed")

WNext == \E t \in Ticket, s \in DOMAIN Follows : Move(t, s)

WSpec == WInit /\ [][WNext]_wvars
=============================================================================
