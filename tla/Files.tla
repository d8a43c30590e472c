-------------------------------- MODULE Files --------------------------------
(***************************************************************************)
(* The uploaded files on disk and their rows in the attachments table,     *)
(* which no transaction covers together: app/core/storage.py,              *)
(* app/services/attachment_service.py, the deletion of comments and the    *)
(* nightly sweep of app/workers/file_tasks.py.                             *)
(*                                                                         *)
(* An upload writes its file, then its row; a deletion removes the rows,   *)
(* then the files; whatever dies in between leaves a file without a row,   *)
(* which a sweep may delete once it is MIN_AGE old.  A path is new for     *)
(* every upload (uuid4), so an upload is named by its file.                *)
(***************************************************************************)
EXTENDS Naturals, FiniteSets

CONSTANTS
    File,       \* the paths that uploads make
    Comment,    \* the comments
    ParentOf,   \* ParentOf[f]: the comment that f is attached to, or Ticket
    Request,    \* the deletions that the server can be handling at a time
    Sweep,      \* the sweeps that can run at a time
    MIN_AGE,    \* the age (in ticks) up to which the sweep spares a file
    CHUNK,      \* the paths it asks the database about in one query
    MaxFaults   \* bound on the crashes and lost answers

Ticket == "ticket"      \* tickets are deleted softly: this parent stays

ASSUME ParentAssumption == ParentOf \in [File -> Comment \cup {Ticket}]
ASSUME BoundAssumption ==
    /\ MIN_AGE \in Nat /\ CHUNK \in Nat \ {0} /\ MaxFaults \in Nat
    /\ IsFiniteSet(File) /\ Ticket \notin Comment

VARIABLES
    disk,       \* disk[f]: the ticks since f was last written, or Absent
    rows,       \* the attachments table: a set of paths
    comments,   \* the comments that have not been deleted
    upload,     \* upload[f]: how far the upload is
    request,    \* request[r]: a deletion
    sweep,      \* sweep[w]: a run of the sweep
    lost,       \* the uploads of whose commit the server lost the answer:
                \* an observer's variable
    faults      \* how many faults there were

vars == <<disk, rows, comments, upload, request, sweep, lost, faults>>

Old    == MIN_AGE + 1       \* older files are all alike
Absent == MIN_AGE + 2       \* no file has that age

Idle == [pc |-> "idle"]

Deletion == [pc: {"loaded", "unlink"}, comment: Comment \cup {Ticket}, paths: SUBSET File]

\* candidates: what is to be decided on; unasked: not looked up yet.
Run == [pc: {"ask", "unlink"}, candidates: SUBSET File, unasked: SUBSET File,
        known: SUBSET File]

TypeOK ==
    /\ disk \in [File -> 0 .. Absent]
    /\ rows \subseteq File
    /\ comments \subseteq Comment
    /\ upload \in [File -> {"new", "saving", "saved", "flushed", "done"}]
    /\ request \in [Request -> Deletion \cup {Idle}]
    /\ sweep \in [Sweep -> Run \cup {Idle}]
    /\ lost \subseteq File
    /\ faults \in Nat

Init ==
    /\ disk = [f \in File |-> Absent]
    /\ rows = {}
    /\ comments = Comment
    /\ upload = [f \in File |-> "new"]
    /\ request = [r \in Request |-> Idle]
    /\ sweep = [w \in Sweep |-> Idle]
    /\ lost = {}
    /\ faults = 0

Fault == faults < MaxFaults /\ faults' = faults + 1

InProgress(f) == upload[f] \in {"saving", "saved", "flushed"}

OnDisk == {f \in File : disk[f] # Absent}

\* storage.delete_file: unlink(missing_ok=True)
DeleteFile(f) == disk' = [disk EXCEPT ![f] = Absent]

\* An hour is ages for an upload: the server has the whole file when it begins
\* to save it, and no upload is still at it when its file gets Old.
Tick ==
    /\ \E f \in OnDisk : disk[f] < Old
    /\ \A f \in File : InProgress(f) => disk[f] < MIN_AGE
    /\ disk' = [f \in File |-> IF f \in OnDisk /\ disk[f] < Old THEN disk[f] + 1 ELSE disk[f]]
    /\ UNCHANGED <<rows, comments, upload, request, sweep, lost, faults>>

-----------------------------------------------------------------------------
(* Uploads. *)

\* The parent must exist when a row is inserted (foreign key), and cannot be
\* deleted before the transaction of the insertion ends (FOR KEY SHARE).
ParentStands(f) == ParentOf[f] \in comments \cup {Ticket}

Advance(f, pc) == upload' = [upload EXCEPT ![f] = pc]

\* save_upload opens the file; the endpoint has found the parent.
OpenFile(f) ==
    /\ upload[f] = "new" /\ ParentStands(f)
    /\ Advance(f, "saving")
    /\ disk' = [disk EXCEPT ![f] = 0]
    /\ UNCHANGED <<rows, comments, request, sweep, lost, faults>>

\* The last chunk; those before it only make the file younger.
WriteFile(f) ==
    /\ upload[f] = "saving"
    /\ Advance(f, "saved")
    /\ disk' = [disk EXCEPT ![f] = 0]
    /\ UNCHANGED <<rows, comments, request, sweep, lost, faults>>

Flush(f) ==
    /\ upload[f] = "saved" /\ ParentStands(f)
    /\ Advance(f, "flushed")
    /\ UNCHANGED <<disk, rows, comments, request, sweep, lost, faults>>

CommitUpload(f) ==
    /\ upload[f] = "flushed"
    /\ Advance(f, "done")
    /\ rows' = rows \cup {f}
    /\ UNCHANGED <<disk, comments, request, sweep, lost, faults>>

\* The file is too large, the disk is full, the parent is gone, the database
\* refuses: whatever was written is removed.
UploadFails(f) ==
    /\ InProgress(f)
    /\ Advance(f, "done")
    /\ DeleteFile(f)
    /\ UNCHANGED <<rows, comments, request, sweep, lost, faults>>

\* The commit succeeds and the connection breaks before the answer: an error
\* for the handler as well.
CommitAnswerLost(f) ==
    /\ upload[f] = "flushed"
    /\ Advance(f, "done")
    /\ rows' = rows \cup {f}
    /\ DeleteFile(f)
    /\ lost' = lost \cup {f}
    /\ Fault
    /\ UNCHANGED <<comments, request, sweep>>

UploadCrashes(f) ==
    /\ InProgress(f)
    /\ Advance(f, "done")
    /\ Fault
    /\ UNCHANGED <<disk, rows, comments, request, sweep, lost>>

-----------------------------------------------------------------------------
(* Deletions: of an attachment, or of a comment with all of its files. *)

LoadAttachment(r, f) ==
    /\ request[r] = Idle
    /\ f \in rows
    /\ request' = [request EXCEPT ![r] =
            [pc |-> "loaded", comment |-> Ticket, paths |-> {f}]]
    /\ UNCHANGED <<disk, rows, comments, upload, sweep, lost, faults>>

FilesOf(c) == {f \in rows : ParentOf[f] = c}

LoadComment(r, c) ==
    /\ request[r] = Idle
    /\ c \in comments
    /\ request' = [request EXCEPT ![r] =
            [pc |-> "loaded", comment |-> c, paths |-> FilesOf(c)]]
    /\ UNCHANGED <<disk, rows, comments, upload, sweep, lost, faults>>

\* A deletion of the comment that f belongs to.
Carries(x, f) == ParentOf[f] = x.comment /\ x.comment \in Comment

\* The rows that the DELETE removes: those that were loaded, and by ON DELETE
\* CASCADE those that the comment has by then.
Removed(x) == x.paths \cup {f \in File : Carries(x, f)}

CommitDeletion(r) ==
    LET x == request[r] IN
    /\ x.pc = "loaded"
    /\ \A f \in File : upload[f] = "flushed" => ~Carries(x, f)
    /\ rows' = rows \ Removed(x)
    /\ comments' = comments \ {x.comment}
    /\ request' = [request EXCEPT ![r].pc = "unlink"]
    /\ UNCHANGED <<disk, upload, sweep, lost, faults>>

UnlinkDeleted(r) ==
    /\ request[r].pc = "unlink"
    /\ IF request[r].paths = {}
       THEN request' = [request EXCEPT ![r] = Idle] /\ UNCHANGED disk
       ELSE \E f \in request[r].paths :
                /\ DeleteFile(f)
                /\ request' = [request EXCEPT ![r].paths = @ \ {f}]
    /\ UNCHANGED <<rows, comments, upload, sweep, lost, faults>>

\* The process dies or the commit fails: what is not unlinked stays.
DeletionEnds(r) ==
    /\ request[r] # Idle
    /\ request' = [request EXCEPT ![r] = Idle]
    /\ Fault
    /\ UNCHANGED <<disk, rows, comments, upload, sweep, lost>>

-----------------------------------------------------------------------------
(* The sweep. *)

OldCandidates_Any == OnDisk     \* slip: no minimum age

OldCandidates_Young == {f \in OnDisk : disk[f] < MIN_AGE}     \* slip: compared the wrong way

OldCandidates == {f \in OnDisk : disk[f] > MIN_AGE}

SweepOrphanFiles(w) ==
    /\ sweep[w] = Idle
    /\ OldCandidates # {}
    /\ sweep' = [sweep EXCEPT ![w] = [pc |-> "ask", candidates |-> OldCandidates,
                                      unasked |-> OldCandidates, known |-> {}]]
    /\ UNCHANGED <<disk, rows, comments, upload, request, lost, faults>>

\* One chunk after the other is looked up in the table as it is then.
AskChunk(w) ==
    LET x == sweep[w] IN
    /\ x.pc = "ask"
    /\ IF x.unasked = {}
       THEN sweep' = [sweep EXCEPT ![w].pc = "unlink"]
       ELSE \E chunk \in SUBSET x.unasked :
                /\ chunk # {} /\ Cardinality(chunk) <= CHUNK
                /\ Cardinality(chunk) = CHUNK \/ chunk = x.unasked
                /\ sweep' = [sweep EXCEPT ![w].unasked = @ \ chunk,
                                          ![w].known = @ \cup (chunk \cap rows)]
    /\ UNCHANGED <<disk, rows, comments, upload, request, lost, faults>>

UnlinkOrphan(w) ==
    LET doomed == sweep[w].candidates \ sweep[w].known IN
    /\ sweep[w].pc = "unlink"
    /\ IF doomed = {}
       THEN sweep' = [sweep EXCEPT ![w] = Idle] /\ UNCHANGED disk
       ELSE \E f \in doomed :
                /\ DeleteFile(f)
                /\ sweep' = [sweep EXCEPT ![w].candidates = @ \ {f}]
    /\ UNCHANGED <<rows, comments, upload, request, lost, faults>>

\* The worker dies, or a file vanishes between its listing and its stat().
SweepFails(w) ==
    /\ sweep[w] # Idle
    /\ sweep' = [sweep EXCEPT ![w] = Idle]
    /\ Fault
    /\ UNCHANGED <<disk, rows, comments, upload, request, lost>>

-----------------------------------------------------------------------------
Uploading(f) == OpenFile(f) \/ WriteFile(f) \/ Flush(f) \/ CommitUpload(f) \/ UploadFails(f)

Finishing(f) == upload[f] # "new" /\ Uploading(f)

Deleting(r) ==
    \/ \E f \in File : LoadAttachment(r, f)
    \/ \E c \in Comment : LoadComment(r, c)
    \/ CommitDeletion(r)
    \/ UnlinkDeleted(r)

Sweeping(w) == SweepOrphanFiles(w) \/ AskChunk(w) \/ UnlinkOrphan(w)

Breaking ==
    \/ \E f \in File : CommitAnswerLost(f) \/ UploadCrashes(f)
    \/ \E r \in Request : DeletionEnds(r)
    \/ \E w \in Sweep : SweepFails(w)

Next ==
    \/ Tick
    \/ \E f \in File : Uploading(f)
    \/ \E r \in Request : Deleting(r)
    \/ \E w \in Sweep : Sweeping(w)
    \/ Breaking

Spec == Init /\ [][Next]_vars

\* Time passes, an upload that was begun ends, and beat starts a sweep every
\* night (celery_app.py), which goes through what it found.  Nothing is asked of
\* the deletions: their processes may hang.
Fairness ==
    /\ WF_vars(Tick)
    /\ \A f \in File : WF_vars(Finishing(f))
    /\ \A w \in Sweep : WF_vars(Sweeping(w))

FairSpec == Spec /\ Fairness

-----------------------------------------------------------------------------
(* Properties. *)

\* Every row has its file, and so has every upload that is still to commit,
\* whatever is deleted or swept at the same time; but for an upload whose commit
\* was lost on its answer (upload's "except Exception", delete's "only now, once
\* the row is definitely gone", the MIN_AGE of the sweep).
RowHasFile == (rows \ lost) \cup {f \in File : InProgress(f)} \subseteq OnDisk

\* A file that no row and no upload will ever name again is gone some day.
Orphan(f) == f \in OnDisk \ rows /\ upload[f] = "done"

OrphansGo == \A f \in File : Orphan(f) ~> f \notin OnDisk
=============================================================================
