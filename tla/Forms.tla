-------------------------------- MODULE Forms --------------------------------
(***************************************************************************)
(* The forms and dialogs of the browser pages: what becomes of what a user *)
(* saves when requests are slow, refused or lost, when the user closes a   *)
(* dialog while it saves and opens it again, and while others change the   *)
(* same row.                                                               *)
(*                                                                         *)
(* All forms share one machine: a component with fields and a useMutation  *)
(* (or a busy flag), a query that shows the row, and the server.  They     *)
(* differ in the attributes of the table below, which decide every step.   *)
(***************************************************************************)
EXTENDS Integers, Sequences, FiniteSets

CONSTANTS
    MaxSends,   \* bound on the times the user presses Save
    MaxOpens,   \* bound on the times a dialog is opened
    MaxOthers   \* bound on the changes that others make

ASSUME BoundAssumption == MaxSends \in Nat /\ MaxOpens \in Nat /\ MaxOthers \in Nat

-----------------------------------------------------------------------------
(* The attributes of a form:                                               *)
(*   lives    "opened": the component is mounted anew by every opening of  *)
(*            the dialog or visit of the page, with fields and a mutation  *)
(*            of its own; "kept": it stays mounted while it is closed      *)
(*   ends     who hears a success: "call", the callback of one mutate() or *)
(*            a state of the component, which die with the component, and  *)
(*            the callback with a later mutate(); or "hook", what the      *)
(*            options of useMutation do to the page around the form        *)
(*   then     what a success does to the form                              *)
(*   refused  what an error does to the form                               *)
(*   shows    how the page learns of the new row: it invalidates its query *)
(*            or keeps the answer, or shows no row                         *)
(*   parts    the most requests one Save makes, one after another          *)
(*   rest     what the failure of a later part does: it stops the Save as  *)
(*            an error, or is collected and named when the rest is done    *)
(*   guarded  Save is disabled while the mutation is pending               *)

Opened == [lives |-> "opened", ends |-> "call", then |-> "close",
           refused |-> "stay", shows |-> "invalidate", parts |-> 1,
           rest |-> "stop", guarded |-> TRUE]

\* A dialog whose mutation and fields live in the page around it.
Kept == [Opened EXCEPT !.lives = "kept", !.ends = "hook"]

\* A control on the page itself: a success leaves it where it is.
Inline == [Opened EXCEPT !.then = "stay"]

\* A page for visitors who are not signed in: it shows no row.
Visitor == [Opened EXCEPT !.shows = "none"]

\* The ticket page.
EditDialog_Hook == [Opened EXCEPT !.ends = "hook"]     \* slip: onClose in useMutation
EditDialog == Opened
AssignDialog == Opened
TagsDialog == Opened
StatusDialog_Unguarded == [Kept EXCEPT !.ends = "call", !.guarded = FALSE]  \* slip: no loading
StatusDialog == [Kept EXCEPT !.ends = "call"]
DeleteTicket == Kept
ClaimButton == Inline
CommentItem == [Kept EXCEPT !.ends = "call"]
Composer == [Opened EXCEPT !.then = "clear", !.parts = 2]
UploadFile == Inline
DeleteFile == [Kept EXCEPT !.ends = "call"]

\* A new ticket with a file.
NewTicketPage == [Opened EXCEPT !.ends = "hook", !.parts = 2, !.rest = "collect"]

\* Administration.
RoleDialog == [Opened EXCEPT !.ends = "hook"]
AddMemberDialog == [Opened EXCEPT !.ends = "hook"]
RemoveMember == Kept
MemberRole == [Inline EXCEPT !.guarded = FALSE]
DeleteRole == [Kept EXCEPT !.refused = "close"]
ChangeUser == [Kept EXCEPT !.refused = "close"]

\* One's own account and inbox.
ProfileCard == [Inline EXCEPT !.shows = "answer"]
PreferencesCard == [Inline EXCEPT !.shows = "answer"]
ReadAll == Inline

\* Before signing in.
RegisterPage == Visitor
CheckEmail == [Visitor EXCEPT !.then = "stay"]
EmailForm == Visitor
ResetPassword == Visitor

Form == {EditDialog, AssignDialog, TagsDialog, StatusDialog, DeleteTicket,
         ClaimButton, CommentItem, Composer, UploadFile, DeleteFile,
         NewTicketPage, RoleDialog, AddMemberDialog, RemoveMember, MemberRole,
         DeleteRole, ChangeUser, ProfileCard, PreferencesCard, ReadAll, RegisterPage,
         CheckEmail, EmailForm, ResetPassword}

-----------------------------------------------------------------------------
VARIABLES
    form,       \* the form of this behaviour: it never changes
    row,        \* the row it saves to: [word, version], the Save it holds
                \* (0 for what others wrote) and how often it was written
    ui,         \* the form on the screen: [open, opening, typed], where typed
                \* says that the user has typed since the last Save
    saves,      \* saves[k]: what came of the k-th press of Save
    calls,      \* the requests <<k, part>> on their way to the server
    answers,    \* the answers on their way back: [call, ok, version]
    page,       \* the query that shows the row: [shown, fetch, copy]
    others,     \* how often others have changed the row
    contested   \* an observer: others wrote, or a request was given up on

vars == <<form, row, ui, saves, calls, answers, page, others, contested>>

Number == 0 .. MaxSends
Version == Nat
Part == 1 .. 2

\* opening: of which opening of the dialog; part: the one that is being made of
\* `parts'; done: the parts the server did; failed: those the form collected.
Save == [opening: 0 .. MaxOpens, part: Part, parts: Part, done: SUBSET Part,
         failed: SUBSET Part, outcome: {"pending", "saved", "error"},
         version: Version]

Answer == [call: (1 .. MaxSends) \X Part, ok: BOOLEAN, version: Version]

TypeOK ==
    /\ form \in Form
    /\ row \in [word: Number, version: Version]
    /\ ui \in [open: BOOLEAN, opening: 0 .. MaxOpens, typed: BOOLEAN]
    /\ saves \in Seq(Save) /\ Len(saves) <= MaxSends
    /\ \A k \in DOMAIN saves : 1 \notin saves[k].failed
    /\ calls \subseteq (1 .. MaxSends) \X Part
    /\ answers \subseteq Answer
    /\ page \in [shown: Version, fetch: {"idle", "sent", "read", "failed"}, copy: Version]
    /\ others \in 0 .. MaxOthers
    /\ contested \in BOOLEAN

Init ==
    /\ form \in Form
    /\ row = [word |-> 0, version |-> 0]
    /\ ui = [open |-> FALSE, opening |-> 0, typed |-> FALSE]
    /\ saves = <<>>
    /\ calls = {}
    /\ answers = {}
    /\ page = [shown |-> 0, fetch |-> "idle", copy |-> 0]
    /\ others = 0
    /\ contested = FALSE

Pending(k) == saves[k].outcome = "pending"

\* The mutation of the component that is mounted now is running: a component
\* that is opened anew knows nothing of the Save of an earlier one.
Busy ==
    \E k \in DOMAIN saves :
        /\ Pending(k)
        /\ form.lives = "kept" \/ saves[k].opening = ui.opening

-----------------------------------------------------------------------------
(* The user.                                                               *)

Open ==
    /\ ~ui.open
    /\ ui.opening < MaxOpens
    /\ ui' = [open |-> TRUE, opening |-> ui.opening + 1,
              typed |-> form.lives = "kept" /\ ui.typed]
    /\ UNCHANGED <<form, row, saves, calls, answers, page, others, contested>>

\* Cancel, Escape, a click on the backdrop: possible while the form saves.
Close ==
    /\ ui.open
    /\ ui' = [ui EXCEPT !.open = FALSE]
    /\ UNCHANGED <<form, row, saves, calls, answers, page, others, contested>>

Type ==
    /\ ui.open /\ ~ui.typed
    /\ ui' = [ui EXCEPT !.typed = TRUE]
    /\ UNCHANGED <<form, row, saves, calls, answers, page, others, contested>>

CanPress(f) == f.guarded => ~Busy

Press ==
    /\ ui.open /\ ui.typed
    /\ CanPress(form)
    /\ Len(saves) < MaxSends
    /\ \E n \in 1 .. form.parts :
        saves' = Append(saves, [opening |-> ui.opening, part |-> 1, parts |-> n,
                                done |-> {}, failed |-> {}, outcome |-> "pending",
                                version |-> 0])
    /\ calls' = calls \cup {<<Len(saves) + 1, 1>>}
    /\ ui' = [ui EXCEPT !.typed = FALSE]
    /\ UNCHANGED <<form, row, answers, page, others, contested>>

-----------------------------------------------------------------------------
(* The server.                                                             *)

Serve(c) ==
    /\ c \in calls
    /\ calls' = calls \ {c}
    /\ row' = IF c[2] = 1 THEN [word |-> c[1], version |-> row.version + 1] ELSE row
    /\ answers' = answers \cup {[call |-> c, ok |-> TRUE, version |-> row'.version]}
    /\ saves' = [saves EXCEPT ![c[1]].done = @ \cup {c[2]}]
    /\ UNCHANGED <<form, ui, page, others, contested>>

Refuse(c) ==
    /\ c \in calls
    /\ calls' = calls \ {c}
    /\ answers' = answers \cup {[call |-> c, ok |-> FALSE, version |-> row.version]}
    /\ UNCHANGED <<form, row, ui, saves, page, others, contested>>

SomebodyElse ==
    /\ others < MaxOthers
    /\ others' = others + 1
    /\ row' = [word |-> 0, version |-> row.version + 1]
    /\ contested' = TRUE
    /\ UNCHANGED <<form, ui, saves, calls, answers, page>>

-----------------------------------------------------------------------------
(* The answers.                                                            *)

\* invalidateQueries cancels a fetch that is on its way and starts another.
Invalidate_Join(p) ==       \* slip: the fetch that is on its way is good enough
    IF p.fetch \in {"sent", "read"} THEN p ELSE [p EXCEPT !.fetch = "sent"]

Invalidate(p) == [p EXCEPT !.fetch = "sent"]

Refreshed(version) ==
    CASE form.shows = "invalidate" -> Invalidate(page)
      [] form.shows = "answer"     -> [page EXCEPT !.shown = version]
      [] form.shows = "none"       -> page

\* Is the callback of Save k heard?
Heard(k) ==
    \/ form.ends = "hook"
    \/ form.lives = "kept" /\ k = Len(saves)
    \/ ui.open /\ ui.opening = saves[k].opening /\ k = Len(saves)

AfterSuccess(k) ==
    IF ~Heard(k) THEN ui
    ELSE CASE form.then = "close" -> [ui EXCEPT !.open = FALSE, !.typed = FALSE]
           [] form.then = "clear" -> [ui EXCEPT !.typed = FALSE]
           [] form.then = "stay"  -> ui

AfterError == IF form.refused = "close" THEN [ui EXCEPT !.open = FALSE] ELSE ui

\* Part `part' of Save k has ended, well or not.  A later part that fails is
\* collected or ends the Save; the first part that fails always ends it.
Collect_Nothing(s, ok) == s         \* slip: the catch block is empty

Collect(s, ok) == IF ok THEN s ELSE [s EXCEPT !.failed = @ \cup {s.part}]

EndsSave(s, ok) == ~ok /\ (s.part = 1 \/ form.rest = "stop")

Settle(k, ok, version) ==
    LET s    == saves[k]
        next == Collect([s EXCEPT !.version = IF s.part = 1 THEN version ELSE @], ok)
    IN  IF EndsSave(s, ok)
        THEN /\ saves' = [saves EXCEPT ![k].outcome = "error"]
             /\ ui' = AfterError
             /\ UNCHANGED <<calls, page>>
        ELSE IF s.part < s.parts
        THEN /\ saves' = [saves EXCEPT ![k] = [next EXCEPT !.part = @ + 1]]
             /\ calls' = calls \cup {<<k, s.part + 1>>}
             /\ UNCHANGED <<ui, page>>
        ELSE /\ saves' = [saves EXCEPT ![k] = [next EXCEPT !.outcome = "saved"]]
             /\ ui' = AfterSuccess(k)
             /\ page' = Refreshed(next.version)
             /\ UNCHANGED calls

\* The part that Save k is waiting for.
Awaited(c) == Pending(c[1]) /\ saves[c[1]].part = c[2]

Receive(a) ==
    /\ a \in answers
    /\ Awaited(a.call)
    /\ answers' = answers \ {a}
    /\ Settle(a.call[1], a.ok, a.version)
    /\ UNCHANGED <<form, row, others, contested>>

\* The connection breaks: the form sees an error, and the request arrives later,
\* never, or has arrived and its answer is lost.
Lose(k) ==
    /\ Pending(k)
    /\ LET c == <<k, saves[k].part>> IN
       /\ \/ c \in calls /\ contested' = TRUE
          \/ /\ \E a \in answers : a.call = c
             /\ contested' = contested
       /\ answers' = {a \in answers : a.call # c}
    /\ Settle(k, FALSE, 0)
    /\ UNCHANGED <<form, row, others>>

\* What the server answers to a request that was given up on reaches nobody.
Forget(a) ==
    /\ a \in answers
    /\ ~Awaited(a.call)
    /\ answers' = answers \ {a}
    /\ UNCHANGED <<form, row, ui, saves, calls, page, others, contested>>

-----------------------------------------------------------------------------
(* The query of the page.                                                  *)

\* A focus of the window, a mount of another observer, a realtime event.
Refetch ==
    /\ page.fetch \in {"idle", "failed"}
    /\ page' = [page EXCEPT !.fetch = "sent"]
    /\ UNCHANGED <<form, row, ui, saves, calls, answers, others, contested>>

FetchRead ==
    /\ page.fetch = "sent"
    /\ page' = [page EXCEPT !.fetch = "read", !.copy = row.version]
    /\ UNCHANGED <<form, row, ui, saves, calls, answers, others, contested>>

FetchStore ==
    /\ page.fetch = "read"
    /\ page' = [page EXCEPT !.fetch = "idle", !.shown = page.copy]
    /\ UNCHANGED <<form, row, ui, saves, calls, answers, others, contested>>

FetchFails ==
    /\ page.fetch \in {"sent", "read"}
    /\ page' = [page EXCEPT !.fetch = "failed"]
    /\ UNCHANGED <<form, row, ui, saves, calls, answers, others, contested>>

-----------------------------------------------------------------------------
Using == Open \/ Close \/ Type \/ Press
Serving == \E c \in calls : Serve(c) \/ Refuse(c)
Answering == \E a \in answers : Receive(a) \/ Forget(a)
Breaking == \E k \in DOMAIN saves : Lose(k)
Showing == form.shows = "invalidate"
                /\ (Refetch \/ FetchRead \/ FetchStore \/ FetchFails)

Next == Using \/ Serving \/ Answering \/ Breaking \/ SomebodyElse \/ Showing

Spec == Init /\ [][Next]_vars

-----------------------------------------------------------------------------
(* Properties.                                                             *)

\* The page never falls silent on an older row than one it said was saved: once
\* its query rests, it shows that Save or something newer, although a fetch of
\* the old row may have been under way when the answer came.  (Of two answers
\* that a page keeps instead, the later to arrive may be the older.)
SavedIsShown ==
    page.fetch = "idle" /\ form.shows = "invalidate" =>
        \A k \in DOMAIN saves :
            saves[k].outcome = "saved" => page.shown >= saves[k].version

\* Of two Saves of one component the later one that was accepted is not undone
\* by the earlier one, as long as nobody else wrote and no request was given up
\* on: the disabled button keeps them from overtaking each other.  (The role
\* select of a team member is not disabled.)
LastWordWins ==
    ~contested /\ form # MemberRole /\ row.word > 0 =>
        \A k \in row.word + 1 .. Len(saves) :
            form.lives = "kept" \/ saves[k].opening = saves[row.word].opening
                => 1 \notin saves[k].done

\* A dialog of the ticket page that was opened anew is not closed by the late
\* answer to what an earlier opening sent.
ClosedByItsOwnStep ==
    form \in {EditDialog, AssignDialog, TagsDialog} /\ ui.open /\ ~ui'.open =>
        \A k \in DOMAIN saves :
            Pending(k) /\ saves'[k].outcome # "pending"
                => saves[k].opening = ui.opening

ClosedByItsOwn == [][ClosedByItsOwnStep]_vars

\* What was announced as saved was done: every part of it, but for those that
\* the announcement names as failed.
PartialIsTold ==
    \A k \in DOMAIN saves :
        saves[k].outcome = "saved" =>
            1 .. saves[k].parts \subseteq saves[k].done \cup saves[k].failed
=============================================================================
