------------------------------- MODULE Offers --------------------------------
(***************************************************************************)
(* What the ticket page offers, against what the service then accepts.     *)
(* The page (useAbilities of TicketDetailPage.tsx and its copy of the      *)
(* transitions in labels.ts) decides from the ticket that it shows which   *)
(* controls to render; the server decides again with its own rules.        *)
(*                                                                         *)
(* A request is a pair <<what, argument>>: the status to move to, the      *)
(* field to edit, or the author of the comment or file it is about; the    *)
(* requests without an argument have "ticket".                             *)
(***************************************************************************)
EXTENDS Tickets

-----------------------------------------------------------------------------
(* The page.                                                               *)

NEXT_STATUSES_Old ==         \* slip: the copy was not updated
    [open        |-> {"in_progress", "waiting", "resolved", "closed"},
     in_progress |-> {"open", "waiting", "resolved", "closed"},
     waiting     |-> {"open", "in_progress", "resolved"},
     resolved    |-> {"closed", "in_progress"},
     closed      |-> {}]

NEXT_STATUSES ==
    [open        |-> {"in_progress", "waiting", "resolved", "closed"},
     in_progress |-> {"open", "waiting", "resolved"},
     waiting     |-> {"open", "in_progress", "resolved"},
     resolved    |-> {"closed", "in_progress"},
     closed      |-> {}]

OwnText(me, tk) == me \in tk.requester /\ tk.status \in {"open", "waiting"}

\* Nobody owns it, I own it, or I may take over.
Free(me, tk) == tk.assignee \subseteq {me} \/ Holds(me, "ticket.reassign")

StatusTargets(me, tk) ==
    IF IsStaff(me) THEN NEXT_STATUSES[tk.status]
    ELSE IF me \in tk.requester THEN NEXT_STATUSES[tk.status] \cap {"closed"}
         ELSE {}

\* The inputs of the edit dialog; there is none for extra_data.
EditInputs(me, tk) ==
    (IF OwnText(me, tk) THEN {"title", "description"} ELSE {})
        \cup (IF IsStaff(me) THEN {"priority", "category_id"} ELSE {})

DeleteContent(me, author, tk) ==
    \/ Holds(me, "content.moderate")
    \/ author = me /\ tk.status \notin {"closed", "resolved"}

\* The controls without an argument.
Buttons(me, tk) ==
    LET staff  == IsStaff(me)
        closed == tk.status = "closed"
    IN  {b \in {"comment", "internal", "claim", "assign", "tags", "remove"} :
            CASE b = "comment"  -> ~closed /\ (staff \/ me \in tk.requester)
              [] b = "internal" -> staff /\ ~closed
              [] b = "claim"    -> staff /\ ~closed /\ me \notin tk.assignee /\ Free(me, tk)
              [] b = "assign"   -> staff /\ ~closed /\ Free(me, tk)
              [] b = "tags"     -> staff
              [] b = "remove"   -> Holds(me, "ticket.delete")}

Offered(me, tk) ==
    {<<"status", s>> : s \in StatusTargets(me, tk)}
        \cup {<<"edit", f>> : f \in EditInputs(me, tk)}
        \cup {<<b, "ticket">> : b \in Buttons(me, tk)}
        \cup {<<"delete", a>> : a \in {u \in User : DeleteContent(me, u, tk)}}
        \cup {<<"rewrite", a>> : a \in {u \in {me} : tk.status # "closed"}}

-----------------------------------------------------------------------------
(* The server: the gates, and what the service refuses after them.         *)

ClaimAccepted(p, tk) ==
    /\ RequireAssign(p, tk)
    /\ RequireReassign(p, tk)
    /\ p.user \notin tk.assignee
    /\ MayOwn(p.user, tk.team)

Accepted(p, tk) ==
    LET may == {b \in {"comment", "internal", "claim", "assign", "tags", "remove"} :
                    CASE b = "comment"  -> CanComment(p, tk)
                      [] b = "internal" -> CanComment(p, tk) /\ CanPostInternalNote(p)
                      [] b = "claim"    -> ClaimAccepted(p, tk)
                      [] b = "assign"   -> RequireAssign(p, tk) /\ RequireReassign(p, tk)
                      [] b = "tags"     -> CanTag(p, tk)
                      [] b = "remove"   -> RequireDelete(p, tk)}
        content == {u \in User : CanView(p, tk) /\ CanDeleteContent(p, u, tk)}
        own     == {u \in User : CanView(p, tk) /\ CanEditComment(p, u, tk)}
    IN  {<<"status", s>> : s \in {new \in ALLOWED_TRANSITIONS[tk.status] :
                                    RequireStatusChange(p, tk, new)}}
            \cup {<<"edit", f>> : f \in {g \in Field : RequireEdit(p, tk, {g})}}
            \cup {<<b, "ticket">> : b \in may}
            \cup {<<"delete", a>> : a \in content}
            \cup {<<"rewrite", a>> : a \in own}

-----------------------------------------------------------------------------
(* The pages: which the menu shows (AppLayout.tsx), which open (App.tsx),  *)
(* each for whoever holds any of the permissions, and the gates of the     *)
(* requests that a page makes as it opens.                                 *)

AnyOf(me, permissions) == permissions = {} \/ permissions \cap Grants[me] # {}

NAV ==
    [tickets   |-> {},
     activity  |-> {},
     analytics |-> {"ticket.view_all"},
     teams     |-> {"ticket.work", "team.manage", "ticket.view_all"},
     users     |-> {"user.manage"},
     roles     |-> {"user.manage", "role.manage"}]

Routes ==
    [tickets   |-> {},
     activity  |-> {},
     analytics |-> {"ticket.view_all"},
     teams     |-> {},
     users     |-> {"user.manage"},
     roles     |-> {"user.manage", "role.manage"}]

Gates ==
    [tickets   |-> {{}},
     activity  |-> {{}},
     analytics |-> {{"ticket.view_all"}},
     teams     |-> {{}},
     users     |-> {{"user.manage"}, {"user.manage", "role.manage"}},
     roles     |-> {{"user.manage", "role.manage"}}]

\* What the menu shows opens, and a page opens for those whom no request of it
\* would refuse.
PagesAgree(me) ==
    \A page \in DOMAIN Routes :
        /\ AnyOf(me, NAV[page]) => AnyOf(me, Routes[page])
        /\ AnyOf(me, Routes[page]) <=> \A gate \in Gates[page] : AnyOf(me, gate)

-----------------------------------------------------------------------------
\* Whoever may open a ticket is offered what the service would accept at that
\* moment, and nothing else.  Two requests are told apart: no input edits
\* extra_data; and Claim is offered to the agent who raised a ticket in a queue
\* that is not its own, which the service refuses.  (A request in flight changes
\* nothing that page or rules read: the moments between requests are enough.)
\* And nobody is led to a page that the service then refuses to fill.
NotOffered == {<<"edit", "extra_data">>}

OffersMatchRules ==
    /\ \A u \in Active : PagesAgree(u)
    /\ (\A r \in Request : txn[r] = Idle) =>
       \A u \in Active :
       \A t \in {s \in Ticket : Visible(s) /\ CanView(Perms(u), tickets[s])} :
           LET offered  == Offered(u, tickets[t])
               accepted == Accepted(Perms(u), tickets[t])
               outside  == tickets[t].team \notin LoadTeamIds(u, members) /\ ~SeesAll(u)
           IN  /\ accepted \ offered \subseteq NotOffered
               /\ offered \ accepted \subseteq
                       (IF outside THEN {<<"claim", "ticket">>} ELSE {})
=============================================================================
