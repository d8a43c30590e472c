----------------------------- MODULE Permissions -----------------------------
(***************************************************************************)
(* Who may see and change a ticket: the rules of app/core/permissions.py,  *)
(* as pure operators.  They take                                           *)
(*   p   what a request knows about its caller, [user, teams]: the user    *)
(*       and the team ids that load_team_ids read for it, and              *)
(*   tk  a ticket as the request loaded it: a record with the fields       *)
(*       status, team, requester and assignee (the last two are the sets   *)
(*       of users that hold that role in ticket_owners).                   *)
(* Both are values read from the database at some earlier moment: the      *)
(* modules that use the operators decide at which one.                     *)
(***************************************************************************)
CONSTANTS
    User,       \* the accounts
    Team,       \* the teams
    Disabled,   \* the accounts with is_active = FALSE
    Grants      \* Grants[u]: the permission codes of the role of u

Permission == {"ticket.view_all", "ticket.work", "ticket.delete",
               "ticket.reassign", "ticket.starts_high",
               "comment.read_internal", "content.moderate",
               "team.manage", "user.manage", "role.manage"}

ASSUME GrantsAssumption == Grants \in [User -> SUBSET Permission]
ASSUME DisabledAssumption == Disabled \subseteq User

\* The system roles the migrations create; an administrator may define others.
RequesterRole == {}
AgentRole     == {"ticket.work", "comment.read_internal", "ticket.starts_high"}
ObserverRole  == {"ticket.view_all", "comment.read_internal"}
AdminRole     == Permission \ {"ticket.starts_high"}

Status == {"open", "in_progress", "waiting", "resolved", "closed"}
Field  == {"title", "description", "extra_data", "category_id", "priority"}

REQUESTER_EDITABLE_STATES == {"open", "waiting"}
REQUESTER_EDITABLE_FIELDS == {"title", "description", "extra_data"}
REQUESTER_STATUS_TARGETS  == {"closed"}
FINISHED_STATES           == {"resolved", "closed"}
STAFF_EDITABLE_FIELDS     == {"category_id", "priority"}

-----------------------------------------------------------------------------
(* The caller. *)

Holds(u, permission) == permission \in Grants[u]

IsStaff(u)       == Holds(u, "ticket.work")
SeesAll(u)       == Holds(u, "ticket.view_all")
ReadsInternal(u) == Holds(u, "comment.read_internal")

\* The teams whose queue u works on: none at all unless u is staff.
LoadTeamIds(u, members) ==
    IF IsStaff(u) THEN {team \in Team : u \in members[team]} ELSE {}

-----------------------------------------------------------------------------
(* The ticket. *)

HasOwner(tk, u) == u \in tk.requester \cup tk.assignee

CanView(p, tk) ==
    \/ SeesAll(p.user)
    \/ HasOwner(tk, p.user)
    \/ IsStaff(p.user) /\ tk.team \in p.teams

\* The SQL half of CanView: the rows that the list and the feed select.  The
\* two clauses are subqueries over ticket_owners and over the team ids.
VisibilityConditions_Queue(p, rows) ==      \* slip: staff list their queue only
    IF SeesAll(p.user) THEN DOMAIN rows
    ELSE IF IsStaff(p.user) /\ p.teams # {}
         THEN {t \in DOMAIN rows : rows[t].team \in p.teams}
         ELSE {t \in DOMAIN rows : HasOwner(rows[t], p.user)}

VisibilityConditions(p, rows) ==
    IF SeesAll(p.user) THEN DOMAIN rows
    ELSE LET owned  == {t \in DOMAIN rows : p.user \in rows[t].requester
                                         \/ p.user \in rows[t].assignee}
             queued == {t \in DOMAIN rows : rows[t].team \in p.teams}
         IN  IF IsStaff(p.user) /\ p.teams # {} THEN owned \cup queued ELSE owned

RequesterMayEdit(p, tk) ==
    /\ p.user \in tk.requester
    /\ tk.status \in REQUESTER_EDITABLE_STATES

CanEdit(p, tk) ==
    /\ CanView(p, tk)
    /\ IsStaff(p.user) \/ RequesterMayEdit(p, tk)

EditableFields(p, tk) ==
    (IF RequesterMayEdit(p, tk) THEN REQUESTER_EDITABLE_FIELDS ELSE {})
        \cup (IF IsStaff(p.user) THEN STAFF_EDITABLE_FIELDS ELSE {})

CanChangeStatus(p, tk, new) ==
    /\ CanView(p, tk)
    /\ \/ IsStaff(p.user)
       \/ p.user \in tk.requester /\ new \in REQUESTER_STATUS_TARGETS

CanAssign(p, tk) ==
    /\ tk.status # "closed"
    /\ IsStaff(p.user)
    /\ CanView(p, tk)

CanReassign(p, tk) ==
    \/ tk.assignee = {}
    \/ p.user \in tk.assignee
    \/ Holds(p.user, "ticket.reassign")

\* Tags stay editable on a closed ticket.
CanTag(p, tk) == IsStaff(p.user) /\ CanView(p, tk)

\* Watchers and observers read only, and a closed conversation is closed for all.
\* Files count as comments.
CanComment(p, tk) ==
    /\ CanView(p, tk)
    /\ tk.status # "closed"
    /\ IsStaff(p.user) \/ p.user \in tk.requester

CanPostInternalNote(p) == IsStaff(p.user)

CanEditComment(p, author, tk) == author = p.user /\ tk.status # "closed"

\* Comments and files of `author': on a finished ticket they are the record of
\* how it was solved.
CanDeleteContent(p, author, tk) ==
    \/ Holds(p.user, "content.moderate")
    \/ author = p.user /\ tk.status \notin FINISHED_STATES

-----------------------------------------------------------------------------
(* The gates of the endpoints: a request that does not pass them ends here *)
(* with 403 or 404 and changes nothing.                                    *)

RequireEdit(p, tk, fields) ==
    CanEdit(p, tk) /\ fields \subseteq EditableFields(p, tk)

RequireStatusChange(p, tk, new) == CanChangeStatus(p, tk, new)

RequireAssign(p, tk) == CanView(p, tk) /\ CanAssign(p, tk)

RequireReassign(p, tk) == CanReassign(p, tk)

RequireDelete(p, tk) == CanView(p, tk) /\ Holds(p.user, "ticket.delete")
=============================================================================
