----------------------------- MODULE FilesProofs -----------------------------
(***************************************************************************)
(* Theorems of Files, for any files, comments, deletions and sweeps that   *)
(* run at the same time, and for any chunk size and minimum age.           *)
(***************************************************************************)
EXTENDS Files, TLAPS

-----------------------------------------------------------------------------
(* Type correctness. *)

LEMMA AgeType == Old \in Nat /\ Absent \in Nat /\ Old = MIN_AGE + 1 /\ Absent = MIN_AGE + 2
BY BoundAssumption DEF Old, Absent

LEMMA UploadTypeOK ==
  ASSUME TypeOK, NEW f \in File,
         Uploading(f) \/ CommitAnswerLost(f) \/ UploadCrashes(f)
  PROVE  TypeOK'
BY AgeType
   DEF TypeOK, Uploading, OpenFile, WriteFile, Flush, CommitUpload, UploadFails,
       CommitAnswerLost, UploadCrashes, Advance, DeleteFile, Fault

LEMMA DeletionTypeOK ==
  ASSUME TypeOK, NEW r \in Request, Deleting(r) \/ DeletionEnds(r)
  PROVE  TypeOK'
<1>1. ASSUME NEW f \in File, LoadAttachment(r, f)
      PROVE  TypeOK'
  BY <1>1 DEF TypeOK, LoadAttachment, Deletion
<1>2. ASSUME NEW c \in Comment, LoadComment(r, c)
      PROVE  TypeOK'
  BY <1>2 DEF TypeOK, LoadComment, FilesOf, Deletion
<1>3. request[r] = Idle \/ request[r] \in Deletion
  BY DEF TypeOK
<1>4. CASE CommitDeletion(r)
  <2>1. request[r] \in Deletion
    BY <1>3, <1>4 DEF CommitDeletion, Idle
  <2>2. request' \in [Request -> Deletion \cup {Idle}]
    BY <1>4, <2>1 DEF TypeOK, CommitDeletion, Deletion
  <2>. QED
    BY <1>4, <2>2 DEF TypeOK, CommitDeletion
<1>5. CASE UnlinkDeleted(r)
  <2>1. request[r] \in Deletion
    BY <1>3, <1>5 DEF UnlinkDeleted, Idle
  <2>2. request' \in [Request -> Deletion \cup {Idle}]
    BY <1>5, <2>1 DEF TypeOK, UnlinkDeleted, Deletion
  <2>3. disk' \in [File -> 0 .. Absent]
    BY <1>5, AgeType DEF TypeOK, UnlinkDeleted, DeleteFile
  <2>. QED
    BY <1>5, <2>2, <2>3 DEF TypeOK, UnlinkDeleted
<1>6. CASE DeletionEnds(r)
  BY <1>6 DEF TypeOK, DeletionEnds, Fault
<1>. QED
  BY <1>1, <1>2, <1>4, <1>5, <1>6 DEF Deleting

LEMMA SweepTypeOK ==
  ASSUME TypeOK, NEW w \in Sweep, Sweeping(w) \/ SweepFails(w)
  PROVE  TypeOK'
<1>1. sweep[w] = Idle \/ sweep[w] \in Run
  BY DEF TypeOK
<1>2. CASE SweepOrphanFiles(w)
  BY <1>2 DEF TypeOK, SweepOrphanFiles, OldCandidates, OnDisk, Run
<1>3. CASE AskChunk(w)
  <2>1. sweep[w] \in Run
    BY <1>1, <1>3 DEF AskChunk, Idle
  <2>2. sweep'[w] \in Run
    <3>1. CASE sweep[w].unasked = {}
      BY <1>3, <2>1, <3>1 DEF TypeOK, AskChunk, Run
    <3>2. CASE sweep[w].unasked # {}
      <4>1. PICK chunk \in SUBSET sweep[w].unasked :
                sweep' = [sweep EXCEPT ![w].unasked = @ \ chunk,
                                       ![w].known = @ \cup (chunk \cap rows)]
        BY <1>3, <3>2 DEF AskChunk
      <4>2. /\ sweep'[w] = [sweep[w] EXCEPT !.unasked = @ \ chunk,
                                            !.known = @ \cup (chunk \cap rows)]
            /\ rows \subseteq File
        BY <4>1 DEF TypeOK
      <4>. QED
        BY <2>1, <4>2 DEF Run
    <3>. QED
      BY <3>1, <3>2
  <2>3. \A v \in Sweep \ {w} : sweep'[v] = sweep[v]
    BY <1>3 DEF TypeOK, AskChunk
  <2>4. DOMAIN sweep' = Sweep /\ sweep' = [v \in Sweep |-> sweep'[v]]
    BY <1>3 DEF TypeOK, AskChunk
  <2>. QED
    BY <1>3, <2>2, <2>3, <2>4 DEF TypeOK, AskChunk
<1>4. CASE UnlinkOrphan(w)
  <2>1. sweep[w] \in Run
    BY <1>1, <1>4 DEF UnlinkOrphan, Idle
  <2>2. sweep' \in [Sweep -> Run \cup {Idle}]
    BY <1>4, <2>1 DEF TypeOK, UnlinkOrphan, Run
  <2>3. disk' \in [File -> 0 .. Absent]
    BY <1>4, AgeType DEF TypeOK, UnlinkOrphan, DeleteFile
  <2>. QED
    BY <1>4, <2>2, <2>3 DEF TypeOK, UnlinkOrphan
<1>5. CASE SweepFails(w)
  BY <1>5 DEF TypeOK, SweepFails, Fault
<1>. QED
  BY <1>2, <1>3, <1>4, <1>5 DEF Sweeping

LEMMA TickTypeOK == TypeOK /\ Tick => TypeOK'
BY AgeType DEF TypeOK, Tick, OnDisk

\* The tables, the files, the uploads, the deletions and the sweeps keep their types.
THEOREM TypeCorrect == Spec => []TypeOK
<1>1. Init => TypeOK
  BY AgeType DEF Init, TypeOK
<1>2. TypeOK /\ [Next]_vars => TypeOK'
  <2>. SUFFICES ASSUME TypeOK, [Next]_vars
                PROVE  TypeOK'
    OBVIOUS
  <2>1. CASE UNCHANGED vars
    BY <2>1 DEF vars, TypeOK
  <2>. QED
    BY <2>1, TickTypeOK, UploadTypeOK, DeletionTypeOK, SweepTypeOK DEF Next, Breaking
<1>. QED
  BY <1>1, <1>2, PTL DEF Spec

-----------------------------------------------------------------------------
(* Rows have files.  What names a file for deletion is a request that has   *)
(* deleted its row or a sweep that did not find one, after its upload was   *)
(* done: no row can follow.                                                *)

Done(f) == upload[f] = "done"

DeletionsInv ==
    \A r \in Request : request[r] # Idle =>
        /\ \A f \in request[r].paths : Done(f)
        /\ request[r].pc = "unlink" => request[r].paths \cap rows = {}

SweepsInv ==
    \A w \in Sweep : sweep[w] # Idle =>
        /\ \A f \in sweep[w].candidates : Done(f)
        /\ sweep[w].pc = "unlink" => sweep[w].unasked = {}
        /\ sweep[w].candidates \cap rows \subseteq sweep[w].known \cup sweep[w].unasked

FilesInv ==
    /\ RowHasFile
    /\ \A f \in rows : Done(f)
    /\ \A f \in File : InProgress(f) => disk[f] <= MIN_AGE
    /\ DeletionsInv
    /\ SweepsInv
    /\ \A f \in File : upload[f] = "new" => f \notin OnDisk

LEMMA UploadKeeps ==
  ASSUME TypeOK, FilesInv, NEW f \in File,
         Uploading(f) \/ CommitAnswerLost(f) \/ UploadCrashes(f)
  PROVE  FilesInv'
<1>. USE AgeType DEF TypeOK, InProgress, Done, OnDisk
<1>1. upload[f] # "done" /\ f \notin rows
  BY DEF FilesInv, Uploading, OpenFile, WriteFile, Flush, CommitUpload, UploadFails,
         CommitAnswerLost, UploadCrashes
<1>2. /\ UNCHANGED <<request, sweep>>
      /\ rows \subseteq rows' /\ rows' \subseteq rows \cup {f}
      /\ lost \subseteq lost'
      /\ \A g \in File \ {f} : upload'[g] = upload[g] /\ disk'[g] = disk[g]
      /\ upload'[f] # "new"
      /\ f \in rows' => upload'[f] = "done"
  BY <1>1 DEF Uploading, OpenFile, WriteFile, Flush, CommitUpload, UploadFails,
         CommitAnswerLost, UploadCrashes, Advance, DeleteFile
<1>3. (f \in rows' /\ f \notin lost') \/ InProgress(f)' => f \in OnDisk'
  <2>1. InProgress(f) => disk[f] # Absent
    BY DEF FilesInv, RowHasFile
  <2>2. CASE OpenFile(f) \/ WriteFile(f)
    BY <2>2, BoundAssumption DEF OpenFile, WriteFile
  <2>3. CASE Flush(f) \/ CommitUpload(f) \/ UploadCrashes(f)
    BY <2>1, <2>3 DEF Flush, CommitUpload, UploadCrashes
  <2>4. CASE UploadFails(f) \/ CommitAnswerLost(f)
    BY <1>1, <2>4 DEF UploadFails, CommitAnswerLost, Advance
  <2>. QED
    BY <2>2, <2>3, <2>4 DEF Uploading
<1>4. InProgress(f)' => disk'[f] <= MIN_AGE
  BY BoundAssumption DEF FilesInv, Uploading, OpenFile, WriteFile, Flush, CommitUpload,
         UploadFails, CommitAnswerLost, UploadCrashes, Advance, DeleteFile
<1>5. RowHasFile'
  BY <1>2, <1>3 DEF FilesInv, RowHasFile
<1>6. DeletionsInv'
  BY <1>1, <1>2 DEF FilesInv, DeletionsInv, Deletion
<1>7. SweepsInv'
  BY <1>1, <1>2 DEF FilesInv, SweepsInv, Run
<1>. QED
  BY <1>1, <1>2, <1>4, <1>5, <1>6, <1>7 DEF FilesInv

\* Removing a file that no row and no upload in progress names.
LEMMA DeleteFileKeeps ==
  ASSUME TypeOK, FilesInv, NEW f \in File, DeleteFile(f),
         Done(f), f \notin rows, UNCHANGED <<rows, upload, lost>>
  PROVE  /\ RowHasFile'
         /\ \A g \in rows' : Done(g)'
         /\ \A g \in File : InProgress(g)' => disk'[g] <= MIN_AGE
         /\ \A g \in File : upload'[g] = "new" => g \notin OnDisk'
BY DEF TypeOK, FilesInv, RowHasFile, DeleteFile, InProgress, OnDisk, Done

LEMMA DeletionKeeps ==
  ASSUME TypeOK, FilesInv, NEW r \in Request, Deleting(r) \/ DeletionEnds(r)
  PROVE  FilesInv'
<1>1. request[r] = Idle \/ request[r] \in Deletion
  BY DEF TypeOK
<1>2. ASSUME NEW f \in File, LoadAttachment(r, f)
      PROVE  FilesInv'
  BY <1>2 DEF TypeOK, FilesInv, RowHasFile, DeletionsInv, SweepsInv, InProgress, OnDisk,
              Done, LoadAttachment
<1>3. ASSUME NEW c \in Comment, LoadComment(r, c)
      PROVE  FilesInv'
  BY <1>3 DEF TypeOK, FilesInv, RowHasFile, DeletionsInv, SweepsInv, InProgress, OnDisk,
              Done, LoadComment, FilesOf
<1>4. CASE CommitDeletion(r)
  <2>1. /\ rows' \subseteq rows
        /\ request[r].paths \cap rows' = {}
        /\ request' = [request EXCEPT ![r].pc = "unlink"]
        /\ UNCHANGED <<disk, upload, sweep, lost>>
        /\ request[r] # Idle
    BY <1>4 DEF CommitDeletion, Removed, Idle
  <2>2. DeletionsInv'
    BY <1>1, <2>1 DEF TypeOK, FilesInv, DeletionsInv, Deletion, Done
  <2>3. SweepsInv'
    BY <2>1 DEF FilesInv, SweepsInv, Done
  <2>. QED
    BY <2>1, <2>2, <2>3 DEF FilesInv, RowHasFile, InProgress, OnDisk, Done
<1>5. CASE UnlinkDeleted(r)
  <2>1. request[r] \in Deletion /\ request[r].pc = "unlink"
    BY <1>1, <1>5 DEF UnlinkDeleted, Idle
  <2>2. SweepsInv'
    BY <1>5 DEF UnlinkDeleted, FilesInv, SweepsInv, Done
  <2>3. CASE request[r].paths = {}
    BY <1>5, <2>2, <2>3 DEF UnlinkDeleted, TypeOK, FilesInv, DeletionsInv, RowHasFile,
                            InProgress, OnDisk, Done
  <2>4. CASE request[r].paths # {}
    <3>1. PICK f \in request[r].paths :
              DeleteFile(f) /\ request' = [request EXCEPT ![r].paths = @ \ {f}]
      BY <1>5, <2>4 DEF UnlinkDeleted
    <3>2. f \in File /\ Done(f) /\ f \notin rows
      BY <2>1, Idle # request[r] DEF FilesInv, DeletionsInv, Deletion, Idle
    <3>3. UNCHANGED <<rows, upload, lost>>
      BY <1>5 DEF UnlinkDeleted
    <3>4. DeletionsInv'
      BY <2>1, <3>1, <3>3 DEF TypeOK, FilesInv, DeletionsInv, Deletion, Idle, Done
    <3>. QED
      BY <2>2, <3>1, <3>2, <3>3, <3>4, DeleteFileKeeps DEF FilesInv
  <2>. QED
    BY <2>3, <2>4
<1>6. CASE DeletionEnds(r)
  BY <1>6 DEF TypeOK, FilesInv, RowHasFile, DeletionsInv, SweepsInv, InProgress, OnDisk,
              Done, DeletionEnds
<1>. QED
  BY <1>2, <1>3, <1>4, <1>5, <1>6 DEF Deleting

LEMMA SweepKeeps ==
  ASSUME TypeOK, FilesInv, NEW w \in Sweep, Sweeping(w) \/ SweepFails(w)
  PROVE  FilesInv'
<1>1. sweep[w] = Idle \/ sweep[w] \in Run
  BY DEF TypeOK
<1>2. CASE SweepOrphanFiles(w)
  <2>1. ASSUME NEW f \in OldCandidates
        PROVE  Done(f)
    <3>1. f \in OnDisk /\ f \in File /\ disk[f] \in Nat /\ disk[f] > MIN_AGE
      BY AgeType DEF TypeOK, OldCandidates, OnDisk
    <3>2. upload[f] # "new" /\ ~InProgress(f)
      BY <3>1, BoundAssumption DEF FilesInv
    <3>. QED
      BY <3>1, <3>2 DEF TypeOK, InProgress, Done
  <2>2. SweepsInv'
    BY <1>2, <2>1 DEF TypeOK, FilesInv, SweepsInv, SweepOrphanFiles, Done
  <2>. QED
    BY <1>2, <2>2 DEF FilesInv, DeletionsInv, RowHasFile, SweepOrphanFiles, InProgress,
                      OnDisk, Done
<1>3. CASE AskChunk(w)
  <2>1. sweep[w] \in Run /\ sweep[w].pc = "ask"
    BY <1>1, <1>3 DEF AskChunk, Idle
  <2>2. CASE sweep[w].unasked = {}
    <3>1. SweepsInv'
      BY <1>3, <2>1, <2>2 DEF AskChunk, TypeOK, FilesInv, SweepsInv, Run, Idle, Done
    <3>. QED
      BY <1>3, <3>1 DEF AskChunk, FilesInv, DeletionsInv, RowHasFile, InProgress, OnDisk, Done
  <2>3. CASE sweep[w].unasked # {}
    <3>1. PICK chunk \in SUBSET sweep[w].unasked :
              sweep' = [sweep EXCEPT ![w].unasked = @ \ chunk,
                                     ![w].known = @ \cup (chunk \cap rows)]
      BY <1>3, <2>3 DEF AskChunk
    <3>2. /\ sweep'[w].candidates = sweep[w].candidates
          /\ sweep'[w].pc = "ask"
          /\ sweep'[w].unasked = sweep[w].unasked \ chunk
          /\ sweep'[w].known = sweep[w].known \cup (chunk \cap rows)
          /\ \A v \in Sweep \ {w} : sweep'[v] = sweep[v]
      BY <2>1, <3>1 DEF TypeOK, Run
    <3>3. UNCHANGED <<disk, rows, upload, request, lost>>
      BY <1>3 DEF AskChunk
    <3>4. SweepsInv'
      BY <2>1, <3>2, <3>3 DEF FilesInv, SweepsInv, Idle, Done
    <3>. QED
      BY <3>3, <3>4 DEF FilesInv, DeletionsInv, RowHasFile, InProgress, OnDisk, Done
  <2>. QED
    BY <2>2, <2>3
<1>4. CASE UnlinkOrphan(w)
  <2>1. sweep[w] \in Run /\ sweep[w].pc = "unlink" /\ sweep[w] # Idle
    BY <1>1, <1>4 DEF UnlinkOrphan, Idle, Run
  <2>2. UNCHANGED <<rows, upload, lost, request>>
    BY <1>4 DEF UnlinkOrphan
  <2>3. DeletionsInv'
    BY <2>2 DEF FilesInv, DeletionsInv, Done
  <2>4. CASE sweep[w].candidates \ sweep[w].known = {}
    <3>1. sweep' = [sweep EXCEPT ![w] = Idle] /\ UNCHANGED disk
      BY <1>4, <2>4 DEF UnlinkOrphan
    <3>. QED
      BY <2>2, <2>3, <3>1 DEF TypeOK, FilesInv, SweepsInv, RowHasFile, InProgress, OnDisk, Done
  <2>5. CASE sweep[w].candidates \ sweep[w].known # {}
    <3>1. PICK f \in sweep[w].candidates \ sweep[w].known :
              DeleteFile(f) /\ sweep' = [sweep EXCEPT ![w].candidates = @ \ {f}]
      BY <1>4, <2>5 DEF UnlinkOrphan
    <3>2. f \in File /\ Done(f) /\ f \notin rows
      BY <2>1 DEF FilesInv, SweepsInv, Run
    <3>3. SweepsInv'
      BY <2>1, <2>2, <3>1 DEF TypeOK, FilesInv, SweepsInv, Run, Done
    <3>. QED
      BY <2>2, <2>3, <3>1, <3>2, <3>3, DeleteFileKeeps DEF FilesInv
  <2>. QED
    BY <2>4, <2>5
<1>5. CASE SweepFails(w)
  BY <1>5 DEF TypeOK, FilesInv, RowHasFile, DeletionsInv, SweepsInv, InProgress, OnDisk,
              Done, SweepFails
<1>. QED
  BY <1>2, <1>3, <1>4, <1>5 DEF Sweeping

LEMMA TickKeeps ==
  ASSUME TypeOK, FilesInv, Tick
  PROVE  FilesInv'
<1>1. \A f \in File : /\ f \in OnDisk' <=> f \in OnDisk
                      /\ InProgress(f) => disk'[f] <= MIN_AGE
  BY AgeType, BoundAssumption DEF TypeOK, Tick, OnDisk
<1>2. UNCHANGED <<rows, upload, request, sweep, lost>>
  BY DEF Tick
<1>. QED
  BY <1>1, <1>2 DEF FilesInv, RowHasFile, DeletionsInv, SweepsInv, InProgress, OnDisk, Done

\* Every row has its file, and so has every upload that may still commit: no
\* deletion of a comment and no sweep, however their steps fall, takes it away.
THEOREM RowHasFileAlways == Spec => []RowHasFile
<1>1. Init => FilesInv
  BY DEF Init, FilesInv, RowHasFile, DeletionsInv, SweepsInv, InProgress, OnDisk, Done
<1>2. TypeOK /\ FilesInv /\ [Next]_vars => FilesInv'
  <2>. SUFFICES ASSUME TypeOK, FilesInv, [Next]_vars
                PROVE  FilesInv'
    OBVIOUS
  <2>1. CASE UNCHANGED vars
    BY <2>1 DEF vars, FilesInv, RowHasFile, DeletionsInv, SweepsInv, InProgress, OnDisk, Done
  <2>. QED
    BY <2>1, TickKeeps, UploadKeeps, DeletionKeeps, SweepKeeps DEF Next, Breaking
<1>3. FilesInv => RowHasFile
  BY DEF FilesInv
<1>. QED
  BY <1>1, <1>2, <1>3, TypeCorrect, PTL DEF Spec
=============================================================================
