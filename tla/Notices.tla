------------------------------- MODULE Notices -------------------------------
(***************************************************************************)
(* Who is told of what: the notifications that comments, mentions and the  *)
(* changes of a ticket leave in the inboxes (app/services/                 *)
(* comment_service.py, oversight.py and ticket_service.py).                *)
(*                                                                         *)
(* Several queries find the readers of one event, and a row is added for   *)
(* each reader that each of them finds.  So the notices of an event are a  *)
(* sequence of sets of users, one for each query.  (Nothing in the code    *)
(* makes anybody a watcher of a ticket.)                                   *)
(***************************************************************************)
EXTENDS Offers, Sequences

\* Whoever looks after all tickets; of internal notes only those who read them.
\* (A user may switch notices off in the settings: nobody has.)
Oversight(internal) ==
    {u \in Active : SeesAll(u) /\ (internal => ReadsInternal(u))}

-----------------------------------------------------------------------------
(* Comments.  `named' are the accounts whose handles are in the text.      *)

\* can_view and can_see_comment
MayRead(u, tk, internal) ==
    CanView(Perms(u), tk) /\ (internal => ReadsInternal(u))

MentionedUsers_Anyone(tk, author, internal, named) ==   \* slip: whoever is named
    (named \cap Active) \ {author}

MentionedUsers(tk, author, internal, named) ==
    {u \in (named \cap Active) \ {author} : MayRead(u, tk, internal)}

Notified_Mentioned(tk, author, internal, skip) ==       \* slip: nobody is skipped
    (IF internal \/ author \in tk.requester THEN tk.assignee
                                            ELSE tk.requester \cup tk.assignee) \ {author}

Notified(tk, author, internal, skip) ==
    (IF internal \/ author \in tk.requester THEN tk.assignee
                                            ELSE tk.requester \cup tk.assignee)
        \ ({author} \cup skip)

CommentNotices(tk, author, internal, named) ==
    LET mentioned == MentionedUsers(tk, author, internal, named)
        notified  == Notified(tk, author, internal, mentioned)
    IN  <<mentioned, notified,
          Oversight(internal) \ (notified \cup mentioned \cup {author})>>

-----------------------------------------------------------------------------
(* Changes of a ticket. *)

\* The team is told before the requester is left out: a member who raises a
\* ticket in its own queue is told of it too.
CreateNotices(tk, requester) ==
    <<members[tk.team], Oversight(FALSE) \ (members[tk.team] \cup {requester})>>

StatusNotices(tk, actor) ==
    <<(tk.requester \cup tk.assignee \cup Oversight(FALSE)) \ {actor}>>

AssignNotices(actor, to) ==
    IF to = {} THEN <<>> ELSE <<to \ {actor}, Oversight(FALSE) \ (to \cup {actor})>>

MoveNotices(tk, category) ==
    IF TeamOf[category] = tk.team THEN <<>> ELSE <<members[TeamOf[category]]>>

-----------------------------------------------------------------------------
(* Properties, at the moments between requests. *)

Told(notices) == UNION {notices[i] : i \in 1 .. Len(notices)}

Quiet == \A r \in Request : txn[r] = Idle

Author(t) == {u \in Active : CanComment(Perms(u), tickets[t])}

\* What is private stays with those who may read it: whoever is told of a
\* comment, with its first words, may open the ticket and read that comment; and
\* whoever is told of a change of a ticket, with its title, may open it as it
\* has become.  (The assignee is told of internal notes whatever its role is: a
\* role made by an administrator may work tickets and not read internal notes.)
ToldMayRead ==
    Quiet => \A t \in {s \in Ticket : Visible(s)} :
        LET tk == tickets[t]
            MayOpen(notices, row) ==
                \A u \in Told(notices) \cap Active : CanView(Perms(u), row)
        IN  /\ \A a \in Author(t), internal \in BOOLEAN, named \in {{}, User} :
                  (internal => CanPostInternalNote(Perms(a))) =>
                     \A u \in Told(CommentNotices(tk, a, internal, named)) :
                        \/ MayRead(u, tk, internal)
                        \/ internal /\ u \in tk.assignee
            /\ \A a \in Active :
                  /\ MayOpen(StatusNotices(tk, a), tk)
                  /\ MayOpen(CreateNotices(tk, a), tk)
                  /\ \A to \in {{b} : b \in {c \in User : MayOwn(c, tk.team)}} :
                        MayOpen(AssignNotices(a, to), [tk EXCEPT !.assignee = to])
            /\ \A c \in Category :
                  MayOpen(MoveNotices(tk, c), [tk EXCEPT !.team = TeamOf[c]])

\* A comment is told once to everybody whom it concerns, although three queries
\* look for them: nobody gets two notices, the author gets none, and the assignee
\* and (of a public answer) the requester get one.
ToldOnce ==
    Quiet => \A t \in {s \in Ticket : Visible(s)} :
        \A a \in Author(t), internal \in BOOLEAN, named \in {{}, User} :
            LET notices   == CommentNotices(tickets[t], a, internal, named)
                concerned == tickets[t].assignee
                                \cup (IF internal THEN {} ELSE tickets[t].requester)
            IN  /\ \A i, j \in 1 .. Len(notices) :
                      i # j => notices[i] \cap notices[j] = {}
                /\ a \notin Told(notices)
                /\ concerned \ {a} \subseteq Told(notices)
=============================================================================
