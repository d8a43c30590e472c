----------------------------- MODULE FormsProofs -----------------------------
(***************************************************************************)
(* Theorems of Forms: for every form of the table, any number of Saves, of *)
(* openings and of changes by others.                                      *)
(***************************************************************************)
EXTENDS Forms, TLAPS

-----------------------------------------------------------------------------
(* The table. *)

Attributes(f) ==
    /\ f.parts \in Part
    /\ f.lives \in {"opened", "kept"}
    /\ f.ends \in {"call", "hook"}
    /\ f.then \in {"close", "clear", "stay"}
    /\ f.refused \in {"stay", "close"}
    /\ f.shows \in {"invalidate", "answer", "none"}
    /\ f.rest \in {"stop", "collect"}

LEMMA FormAttributes ==
  \A f \in Form : Attributes(f) /\ (f # MemberRole => f.guarded = TRUE)
<1>. DEFINE Good(f) == Attributes(f) /\ f.guarded = TRUE
<1>1. /\ Good(EditDialog) /\ Good(AssignDialog) /\ Good(TagsDialog)
      /\ Good(StatusDialog) /\ Good(DeleteTicket) /\ Good(ClaimButton)
  BY DEF Attributes, Part, Opened, Kept, Inline, EditDialog, AssignDialog, TagsDialog,
         StatusDialog, DeleteTicket, ClaimButton
<1>2. /\ Good(CommentItem) /\ Good(Composer) /\ Good(UploadFile)
      /\ Good(DeleteFile) /\ Good(NewTicketPage)
  BY DEF Attributes, Part, Opened, Kept, Inline, CommentItem, Composer, UploadFile,
         DeleteFile, NewTicketPage
<1>3. /\ Good(RoleDialog) /\ Good(AddMemberDialog) /\ Good(RemoveMember)
      /\ Attributes(MemberRole) /\ Good(DeleteRole) /\ Good(ChangeUser)
  BY DEF Attributes, Part, Opened, Kept, Inline, RoleDialog, AddMemberDialog,
         RemoveMember, MemberRole, DeleteRole, ChangeUser
<1>4. /\ Good(ProfileCard) /\ Good(PreferencesCard) /\ Good(ReadAll)
      /\ Good(RegisterPage) /\ Good(CheckEmail) /\ Good(EmailForm) /\ Good(ResetPassword)
  BY DEF Attributes, Part, Opened, Kept, Inline, Visitor, ProfileCard, PreferencesCard,
         ReadAll, RegisterPage, CheckEmail, EmailForm, ResetPassword
<1>. HIDE DEF Good
<1>5. \A f \in Form : Good(f) \/ (f = MemberRole /\ Attributes(f))
  BY <1>1, <1>2, <1>3, <1>4 DEF Form
<1>. QED
  BY <1>5 DEF Good

LEMMA DialogAttributes ==
  \A f \in {EditDialog, AssignDialog, TagsDialog} :
      f.lives = "opened" /\ f.ends = "call" /\ f.refused = "stay"
BY DEF EditDialog, AssignDialog, TagsDialog, Opened

-----------------------------------------------------------------------------
(* The end of a part of a Save. *)

LEMMA ReplacedSave ==
  ASSUME NEW old \in Seq(Save), NEW k \in DOMAIN old, NEW x \in Save
  PROVE  LET new == [old EXCEPT ![k] = x]
         IN  /\ new \in Seq(Save) /\ DOMAIN new = DOMAIN old /\ Len(new) = Len(old)
             /\ \A j \in DOMAIN old \ {k} : new[j] = old[j]
             /\ new[k] = x
OBVIOUS

LEMMA AppendedSave ==
  ASSUME NEW old \in Seq(Save), NEW x \in Save
  PROVE  LET new == Append(old, x)
         IN  /\ new \in Seq(Save) /\ Len(new) = Len(old) + 1 /\ Len(old) \in Nat
             /\ DOMAIN new = 1 .. Len(old) + 1 /\ DOMAIN old = 1 .. Len(old)
             /\ \A j \in DOMAIN old : new[j] = old[j]
             /\ new[Len(old) + 1] = x
OBVIOUS

\* What Settle makes of Save k, and what it leaves alone.
LEMMA SettleSaves ==
  ASSUME TypeOK, NEW k \in DOMAIN saves, Pending(k),
         NEW ok \in BOOLEAN, NEW version \in Version, Settle(k, ok, version)
  PROVE  /\ saves' \in Seq(Save) /\ DOMAIN saves' = DOMAIN saves
         /\ Len(saves') = Len(saves)
         /\ \A j \in DOMAIN saves \ {k} : saves'[j] = saves[j]
         /\ saves'[k].opening = saves[k].opening
         /\ saves'[k].parts = saves[k].parts
         /\ saves'[k].done = saves[k].done
         /\ saves'[k].version \in {saves[k].version, version}
         /\ saves'[k].part \in {saves[k].part, saves[k].part + 1}
         /\ 1 \notin saves'[k].failed
         /\ \/ /\ saves'[k].outcome = "error"
               /\ UNCHANGED <<calls, page>> /\ ui' = AfterError
            \/ /\ saves'[k].outcome = "pending"
               /\ saves[k].part < saves[k].parts
               /\ saves'[k].part = saves[k].part + 1
               /\ calls' = calls \cup {<<k, saves[k].part + 1>>}
               /\ UNCHANGED <<ui, page>>
            \/ /\ saves'[k].outcome = "saved"
               /\ saves[k].part >= saves[k].parts
               /\ ui' = AfterSuccess(k) /\ page' = Refreshed(saves'[k].version)
               /\ UNCHANGED calls
         /\ saves'[k].outcome # "error" =>
               /\ saves[k].failed \subseteq saves'[k].failed
               /\ ok \/ saves[k].part \in saves'[k].failed
               /\ saves'[k].version =
                    IF saves[k].part = 1 THEN version ELSE saves[k].version
<1>. DEFINE s == saves[k]
            stamped == [s EXCEPT !.version = IF s.part = 1 THEN version ELSE @]
            next == Collect(stamped, ok)
<1>1. s \in Save /\ saves \in Seq(Save)
  BY DEF TypeOK
<1>2. stamped \in Save
  BY <1>1 DEF Save
<1>3. 1 \notin s.failed
  BY DEF TypeOK
<1>4. CASE EndsSave(s, ok)
  <2>1. saves' = [saves EXCEPT ![k].outcome = "error"]
    BY <1>4 DEF Settle
  <2>2. saves'[k] = [s EXCEPT !.outcome = "error"] /\ saves'[k] \in Save
    BY <1>1, <2>1 DEF Save
  <2>3. UNCHANGED <<calls, page>> /\ ui' = AfterError
    BY <1>4 DEF Settle
  <2>4. saves' \in Seq(Save) /\ DOMAIN saves' = DOMAIN saves
        /\ Len(saves') = Len(saves)
        /\ \A j \in DOMAIN saves \ {k} : saves'[j] = saves[j]
    BY <1>1, <2>1, <2>2, ReplacedSave
  <2>. QED
    BY <1>1, <1>3, <2>2, <2>3, <2>4 DEF Save
<1>5. CASE ~EndsSave(s, ok)
  <2>1. /\ next \in Save
        /\ next.opening = s.opening /\ next.parts = s.parts /\ next.done = s.done
        /\ next.part = s.part /\ next.outcome = s.outcome
        /\ s.failed \subseteq next.failed /\ 1 \notin next.failed
        /\ ok \/ s.part \in next.failed
        /\ next.version = IF s.part = 1 THEN version ELSE s.version
    <3>1. CASE ok
      BY <1>1, <1>2, <1>3, <3>1 DEF Collect, Save
    <3>2. CASE ~ok
      <4>1. s.part # 1
        BY <1>5, <3>2 DEF EndsSave
      <4>. QED
        BY <1>1, <1>2, <1>3, <3>2, <4>1 DEF Collect, Save
    <3>. QED
      BY <3>1, <3>2
  <2>. HIDE DEF next
  <2>2. CASE s.part < s.parts
    <3>1. /\ saves' = [saves EXCEPT ![k] = [next EXCEPT !.part = @ + 1]]
          /\ calls' = calls \cup {<<k, s.part + 1>>}
          /\ UNCHANGED <<ui, page>>
      BY <1>5, <2>2 DEF Settle, next
    <3>2. saves'[k] = [next EXCEPT !.part = @ + 1]
      BY <1>1, <3>1
    <3>3. saves'[k] \in Save
      BY <1>1, <2>1, <2>2, <3>2 DEF Save, Part
    <3>4. saves' \in Seq(Save) /\ DOMAIN saves' = DOMAIN saves
          /\ Len(saves') = Len(saves)
          /\ \A j \in DOMAIN saves \ {k} : saves'[j] = saves[j]
      BY <1>1, <3>1, <3>2, <3>3, ReplacedSave
    <3>. QED
      BY <1>1, <2>1, <2>2, <3>1, <3>2, <3>3, <3>4 DEF Pending, Save
  <2>3. CASE ~(s.part < s.parts)
    <3>1. /\ saves' = [saves EXCEPT ![k] = [next EXCEPT !.outcome = "saved"]]
          /\ ui' = AfterSuccess(k) /\ page' = Refreshed(next.version)
          /\ UNCHANGED calls
      BY <1>5, <2>3 DEF Settle, next
    <3>2. saves'[k] = [next EXCEPT !.outcome = "saved"]
      BY <1>1, <3>1
    <3>3. saves'[k] \in Save
      BY <1>1, <2>1, <3>2 DEF Save
    <3>4. saves' \in Seq(Save) /\ DOMAIN saves' = DOMAIN saves
          /\ Len(saves') = Len(saves)
          /\ \A j \in DOMAIN saves \ {k} : saves'[j] = saves[j]
      BY <1>1, <3>1, <3>2, <3>3, ReplacedSave
    <3>5. saves'[k].version = next.version /\ saves'[k].outcome = "saved"
          /\ saves'[k].failed = next.failed
      BY <2>1, <3>2 DEF Save
    <3>6. page' = Refreshed(saves'[k].version)
      BY <3>1, <3>5
    <3>7. s.part >= s.parts
      BY <1>1, <2>3 DEF Save, Part
    <3>8. saves'[k].opening = s.opening /\ saves'[k].parts = s.parts
          /\ saves'[k].done = s.done
      BY <2>1, <3>2 DEF Save
    <3>9. saves'[k].part = s.part
      BY <2>1, <3>2 DEF Save
    <3>. QED
      BY <2>1, <3>9, <3>1, <3>4, <3>5, <3>6, <3>7, <3>8
  <2>. QED
    BY <2>2, <2>3
<1>. QED
  BY <1>4, <1>5

-----------------------------------------------------------------------------
(* Type correctness.  Requests and answers belong to a Save. *)

CallsInv ==
    /\ \A c \in calls : c[1] \in DOMAIN saves
    /\ \A a \in answers : a.call[1] \in DOMAIN saves

LEMMA SavesTyped ==
  ASSUME TypeOK
  PROVE  /\ saves \in Seq(Save) /\ Len(saves) \in Nat /\ DOMAIN saves = 1 .. Len(saves)
         /\ \A k \in DOMAIN saves : saves[k] \in Save /\ k \in 1 .. MaxSends
BY BoundAssumption DEF TypeOK

LEMMA UiAfter ==
  ASSUME TypeOK, NEW k
  PROVE  /\ AfterSuccess(k) \in [open: BOOLEAN, opening: 0 .. MaxOpens, typed: BOOLEAN]
         /\ AfterError \in [open: BOOLEAN, opening: 0 .. MaxOpens, typed: BOOLEAN]
BY FormAttributes DEF TypeOK, AfterSuccess, AfterError, Attributes

LEMMA PageAfter ==
  ASSUME TypeOK, NEW version \in Version
  PROVE  Refreshed(version) \in [shown: Version, fetch: {"idle", "sent", "read", "failed"},
                                 copy: Version]
BY FormAttributes DEF TypeOK, Refreshed, Invalidate, Attributes

LEMMA SettleTypeOK ==
  ASSUME TypeOK, CallsInv, NEW k \in DOMAIN saves, Pending(k),
         NEW ok \in BOOLEAN, NEW version \in Version, Settle(k, ok, version),
         answers' \subseteq answers, UNCHANGED <<form, row, others>>, contested' \in BOOLEAN
  PROVE  TypeOK' /\ CallsInv'
<1>1. saves[k] \in Save /\ k \in 1 .. MaxSends
  BY SavesTyped
<1>2. /\ saves' \in Seq(Save) /\ Len(saves') = Len(saves) /\ DOMAIN saves' = DOMAIN saves
      /\ saves'[k] \in Save
      /\ \A j \in DOMAIN saves' : 1 \notin saves'[j].failed
  BY SettleSaves DEF TypeOK
<1>3. calls' \subseteq (1 .. MaxSends) \X Part /\ \A c \in calls' : c[1] \in DOMAIN saves
  <2>1. saves[k].part < saves[k].parts => saves[k].part + 1 \in Part
    BY <1>1 DEF Save, Part
  <2>2. calls' = calls \/ (/\ saves[k].part < saves[k].parts
                           /\ calls' = calls \cup {<<k, saves[k].part + 1>>})
    BY SettleSaves
  <2>. QED
    BY <1>1, <2>1, <2>2 DEF TypeOK, CallsInv
<1>4. saves'[k].version \in Version
  BY <1>2 DEF Save
<1>5. ui' \in [open: BOOLEAN, opening: 0 .. MaxOpens, typed: BOOLEAN]
  <2>1. ui' \in {ui, AfterError, AfterSuccess(k)}
    BY SettleSaves
  <2>. QED
    BY <2>1, UiAfter DEF TypeOK
<1>6. page' \in [shown: Version, fetch: {"idle", "sent", "read", "failed"}, copy: Version]
  <2>1. page' \in {page, Refreshed(saves'[k].version)}
    BY SettleSaves
  <2>. QED
    BY <1>4, <2>1, PageAfter DEF TypeOK
<1>. QED
  BY <1>1, <1>2, <1>3, <1>5, <1>6 DEF TypeOK, CallsInv

LEMMA UsingTypeOK == TypeOK /\ CallsInv /\ Using => TypeOK' /\ CallsInv'
<1>. SUFFICES ASSUME TypeOK, CallsInv, Using
              PROVE  TypeOK' /\ CallsInv'
  OBVIOUS
<1>1. CASE Open \/ Close \/ Type
  <2>1. ui' \in [open: BOOLEAN, opening: 0 .. MaxOpens, typed: BOOLEAN]
    <3>1. CASE Open
      <4>1. ui.opening + 1 \in 0 .. MaxOpens
        BY <3>1, BoundAssumption DEF TypeOK, Open
      <4>2. (form.lives = "kept" /\ ui.typed) \in BOOLEAN
        OBVIOUS
      <4>. QED
        BY <3>1, <4>1, <4>2 DEF Open
    <3>2. CASE Close \/ Type
      BY <3>2 DEF TypeOK, Close, Type
    <3>. QED
      BY <1>1, <3>1, <3>2
  <2>. QED
    BY <1>1, <2>1 DEF TypeOK, CallsInv, Open, Close, Type
<1>2. CASE Press
  <2>. DEFINE new(n) == [opening |-> ui.opening, part |-> 1, parts |-> n, done |-> {},
                         failed |-> {}, outcome |-> "pending", version |-> 0]
  <2>1. PICK n \in 1 .. form.parts : saves' = Append(saves, new(n))
    BY <1>2 DEF Press
  <2>2. n \in Part
    BY FormAttributes DEF TypeOK, Attributes, Part
  <2>3. new(n) \in Save
    BY <2>2 DEF TypeOK, Save, Part, Version
  <2>4. Len(saves) \in Nat /\ Len(saves) < MaxSends
    BY <1>2 DEF Press, TypeOK
  <2>. HIDE DEF new
  <2>5. /\ saves' \in Seq(Save) /\ Len(saves') = Len(saves) + 1
        /\ DOMAIN saves' = 1 .. Len(saves) + 1 /\ DOMAIN saves = 1 .. Len(saves)
        /\ \A j \in DOMAIN saves : saves'[j] = saves[j]
        /\ saves'[Len(saves) + 1] = new(n)
    BY <2>1, <2>3, AppendedSave DEF TypeOK
  <2>6. ASSUME NEW j \in DOMAIN saves'
        PROVE  1 \notin saves'[j].failed
    <3>1. j \in DOMAIN saves \/ j = Len(saves) + 1
      BY <2>4, <2>5
    <3>2. CASE j \in DOMAIN saves
      BY <2>5, <3>2 DEF TypeOK
    <3>3. CASE j = Len(saves) + 1
      <4>1. saves'[j] = new(n)
        BY <2>4, <2>5, <3>3
      <4>2. 1 \notin new(n).failed
        BY DEF new
      <4>. QED
        BY <4>1, <4>2
    <3>. QED
      BY <3>1, <3>2, <3>3
  <2>7. <<Len(saves) + 1, 1>> \in (1 .. MaxSends) \X Part
    BY <2>4, BoundAssumption DEF Part
  <2>8. TypeOK'
    <3>1. ui' \in [open: BOOLEAN, opening: 0 .. MaxOpens, typed: BOOLEAN]
      BY <1>2 DEF TypeOK, Press
    <3>2. calls' \subseteq (1 .. MaxSends) \X Part
      BY <1>2, <2>7 DEF TypeOK, Press
    <3>3. Len(saves') <= MaxSends
      BY <2>4, <2>5, BoundAssumption
    <3>4. UNCHANGED <<form, row, answers, page, others, contested>>
      BY <1>2 DEF Press
    <3>. QED
      BY <2>5, <2>6, <3>1, <3>2, <3>3, <3>4 DEF TypeOK
  <2>9. CallsInv'
    BY <1>2, <2>4, <2>5 DEF CallsInv, Press
  <2>. QED
    BY <2>8, <2>9
<1>. QED
  BY <1>1, <1>2 DEF Using

LEMMA ServingTypeOK ==
  ASSUME TypeOK, CallsInv, NEW c \in calls, Serve(c) \/ Refuse(c)
  PROVE  TypeOK' /\ CallsInv'
<1>1. c \in (1 .. MaxSends) \X Part /\ c[1] \in DOMAIN saves /\ c[2] \in Part
      /\ c[1] \in 1 .. MaxSends
  BY DEF TypeOK, CallsInv
<1>2. CASE Serve(c)
  <2>1. saves[c[1]] \in Save /\ 1 \notin saves[c[1]].failed
    BY <1>1 DEF TypeOK
  <2>. DEFINE x == [saves[c[1]] EXCEPT !.done = @ \cup {c[2]}]
  <2>2. x \in Save /\ x.failed = saves[c[1]].failed
    BY <1>1, <2>1 DEF Save
  <2>3. saves' = [saves EXCEPT ![c[1]] = x]
    BY <1>2 DEF Serve
  <2>. HIDE DEF x
  <2>4. saves' \in Seq(Save) /\ DOMAIN saves' = DOMAIN saves /\ Len(saves') = Len(saves)
        /\ \A j \in DOMAIN saves' : 1 \notin saves'[j].failed
    BY <1>1, <2>1, <2>2, <2>3, ReplacedSave DEF TypeOK
  <2>5. row' \in [word: Number, version: Version]
    BY <1>1, <1>2 DEF TypeOK, Serve, Number, Version
  <2>6. answers' \subseteq Answer
    <3>1. row'.version \in Version
      BY <2>5
    <3>2. [call |-> c, ok |-> TRUE, version |-> row'.version] \in Answer
      BY <1>1, <3>1 DEF Answer
    <3>. QED
      BY <1>2, <3>2 DEF TypeOK, Serve
  <2>. QED
    BY <1>1, <1>2, <2>4, <2>5, <2>6 DEF TypeOK, CallsInv, Serve
<1>3. CASE Refuse(c)
  <2>1. answers' \subseteq Answer
    <3>1. [call |-> c, ok |-> FALSE, version |-> row.version] \in Answer
      BY <1>1 DEF TypeOK, Answer
    <3>. QED
      BY <1>3, <3>1 DEF TypeOK, Refuse
  <2>. QED
    BY <1>1, <1>3, <2>1 DEF TypeOK, CallsInv, Refuse
<1>. QED
  BY <1>2, <1>3

LEMMA AnsweringTypeOK ==
  ASSUME TypeOK, CallsInv, NEW a \in answers, Receive(a) \/ Forget(a)
  PROVE  TypeOK' /\ CallsInv'
<1>1. CASE Receive(a)
  <2>1. /\ a.call[1] \in DOMAIN saves /\ Pending(a.call[1])
        /\ a.ok \in BOOLEAN /\ a.version \in Version
        /\ Settle(a.call[1], a.ok, a.version)
    BY <1>1 DEF TypeOK, CallsInv, Receive, Awaited, Answer
  <2>2. answers' \subseteq answers /\ UNCHANGED <<form, row, others, contested>>
        /\ contested' \in BOOLEAN
    BY <1>1 DEF Receive, TypeOK
  <2>. QED
    BY <2>1, <2>2, SettleTypeOK
<1>2. CASE Forget(a)
  BY <1>2 DEF TypeOK, CallsInv, Forget
<1>. QED
  BY <1>1, <1>2

LEMMA BreakingTypeOK ==
  ASSUME TypeOK, CallsInv, NEW k \in DOMAIN saves, Lose(k)
  PROVE  TypeOK' /\ CallsInv'
<1>1. /\ Pending(k) /\ Settle(k, FALSE, 0)
      /\ answers' \subseteq answers /\ UNCHANGED <<form, row, others>>
      /\ contested' \in BOOLEAN /\ 0 \in Version
  BY DEF Lose, TypeOK, Version
<1>. QED
  BY <1>1, SettleTypeOK

LEMMA ShowingTypeOK ==
  TypeOK /\ CallsInv /\ (Showing \/ SomebodyElse) => TypeOK' /\ CallsInv'
<1>. SUFFICES ASSUME TypeOK, CallsInv, Showing \/ SomebodyElse
              PROVE  TypeOK' /\ CallsInv'
  OBVIOUS
<1>1. CASE Showing
  <2>1. page' \in [shown: Version, fetch: {"idle", "sent", "read", "failed"}, copy: Version]
    BY <1>1 DEF TypeOK, Showing, Refetch, FetchRead, FetchStore, FetchFails
  <2>2. UNCHANGED <<form, row, ui, saves, calls, answers, others, contested>>
    BY <1>1 DEF Showing, Refetch, FetchRead, FetchStore, FetchFails
  <2>. QED
    BY <2>1, <2>2 DEF TypeOK, CallsInv
<1>2. CASE SomebodyElse
  <2>1. row' \in [word: Number, version: Version] /\ others' \in 0 .. MaxOthers
    BY <1>2, BoundAssumption DEF TypeOK, SomebodyElse, Number, Version
  <2>2. UNCHANGED <<form, ui, saves, calls, answers, page>> /\ contested' \in BOOLEAN
    BY <1>2 DEF SomebodyElse
  <2>. QED
    BY <2>1, <2>2 DEF TypeOK, CallsInv
<1>. QED
  BY <1>1, <1>2

LEMMA TypesInit == Init => TypeOK /\ CallsInv
<1>. SUFFICES ASSUME Init
              PROVE  TypeOK /\ CallsInv
  OBVIOUS
<1>1. saves \in Seq(Save) /\ Len(saves) = 0 /\ DOMAIN saves = {}
  BY DEF Init
<1>2. 0 \in Number /\ 0 \in Version /\ 0 \in 0 .. MaxOpens /\ 0 \in 0 .. MaxOthers
  BY BoundAssumption DEF Number, Version
<1>3. /\ row \in [word: Number, version: Version]
      /\ ui \in [open: BOOLEAN, opening: 0 .. MaxOpens, typed: BOOLEAN]
      /\ page \in [shown: Version, fetch: {"idle", "sent", "read", "failed"}, copy: Version]
      /\ others \in 0 .. MaxOthers /\ contested \in BOOLEAN
  BY <1>2 DEF Init
<1>. QED
  BY <1>1, <1>3, BoundAssumption DEF Init, TypeOK, CallsInv

LEMMA TypesStep == TypeOK /\ CallsInv /\ [Next]_vars => TypeOK' /\ CallsInv'
<1>. SUFFICES ASSUME TypeOK, CallsInv, [Next]_vars
              PROVE  TypeOK' /\ CallsInv'
  OBVIOUS
<1>1. CASE UNCHANGED vars
  BY <1>1 DEF vars, TypeOK, CallsInv
<1>. QED
  BY <1>1, UsingTypeOK, ServingTypeOK, AnsweringTypeOK, BreakingTypeOK, ShowingTypeOK
     DEF Next, Serving, Answering, Breaking

\* The form, its Saves, the requests on their way and the query keep their types.
THEOREM TypeCorrect == Spec => []TypeOK
BY TypesInit, TypesStep, PTL DEF Spec

LEMMA TypesAlways == Spec => [](TypeOK /\ CallsInv)
BY TypesInit, TypesStep, PTL DEF Spec

-----------------------------------------------------------------------------
(* The steps by what they do to the Saves. *)

\* A step that leaves the Saves and their requests alone.
Aside == UNCHANGED <<form, saves, calls>> /\ answers' \subseteq answers

LEMMA PressAppends ==
  ASSUME TypeOK, Press
  PROVE  /\ CanPress(form) /\ ui.open
         /\ Len(saves) \in Nat /\ DOMAIN saves = 1 .. Len(saves)
         /\ DOMAIN saves' = 1 .. Len(saves) + 1 /\ Len(saves') = Len(saves) + 1
         /\ saves'[Len(saves) + 1].opening = ui.opening
         /\ saves'[Len(saves) + 1].part = 1
         /\ saves'[Len(saves) + 1].outcome = "pending"
         /\ saves'[Len(saves) + 1].done = {}
         /\ saves'[Len(saves) + 1].version = 0
         /\ \A j \in DOMAIN saves : saves'[j] = saves[j]
         /\ calls' = calls \cup {<<Len(saves) + 1, 1>>}
         /\ UNCHANGED <<form, row, answers, page, contested>>
<1>1. saves \in Seq(Save)
  BY DEF TypeOK
<1>2. PICK n \in 1 .. form.parts :
        saves' = Append(saves, [opening |-> ui.opening, part |-> 1, parts |-> n,
                                done |-> {}, failed |-> {}, outcome |-> "pending",
                                version |-> 0])
  BY DEF Press
<1>. QED
  BY <1>1, <1>2 DEF Press

LEMMA ServeMarks ==
  ASSUME TypeOK, CallsInv, NEW c \in calls, Serve(c)
  PROVE  LET k == c[1] IN
         /\ k \in DOMAIN saves /\ c[2] \in Part
         /\ DOMAIN saves' = DOMAIN saves
         /\ \A j \in DOMAIN saves \ {k} : saves'[j] = saves[j]
         /\ saves'[k].opening = saves[k].opening /\ saves'[k].part = saves[k].part
         /\ saves'[k].parts = saves[k].parts /\ saves'[k].failed = saves[k].failed
         /\ saves'[k].outcome = saves[k].outcome /\ saves'[k].version = saves[k].version
         /\ saves'[k].done = saves[k].done \cup {c[2]}
<1>1. c \in (1 .. MaxSends) \X Part /\ c[1] \in DOMAIN saves /\ c[2] \in Part
  BY DEF TypeOK, CallsInv
<1>2. saves[c[1]] \in Save /\ saves \in Seq(Save)
  BY <1>1, SavesTyped
<1>3. saves' = [saves EXCEPT ![c[1]].done = @ \cup {c[2]}]
  BY DEF Serve
<1>. QED
  BY <1>1, <1>2, <1>3 DEF Save

\* Receive and Lose settle the part that a Save waits for.
Settling(k) ==
    \E ok \in BOOLEAN, version \in Version :
        /\ k \in DOMAIN saves /\ Pending(k)
        /\ Settle(k, ok, version)
        /\ answers' \subseteq answers
        /\ UNCHANGED <<form, row>>
        /\ \/ \E a \in answers : a.call = <<k, saves[k].part>> /\ a.ok = ok
                                                      /\ a.version = version
           \/ ok = FALSE /\ version = 0

Answered(k) == contested' = contested /\ \E a \in answers : a.call = <<k, saves[k].part>>

LEMMA Steps ==
  ASSUME TypeOK, CallsInv, [Next]_vars
  PROVE  \/ Aside /\ (Open \/ Close \/ Type \/ SomebodyElse \/ Showing \/ UNCHANGED vars
                        \/ \E a \in answers : Forget(a))
         \/ Press
         \/ \E c \in calls : Serve(c) \/ Refuse(c)
         \/ \E k \in DOMAIN saves : Settling(k) /\ (Lose(k) \/ Answered(k))
<1>1. CASE Open \/ Close \/ Type \/ SomebodyElse \/ Showing \/ UNCHANGED vars
           \/ \E a \in answers : Forget(a)
  BY <1>1 DEF Aside, Open, Close, Type, SomebodyElse, Showing, vars, Forget, Refetch,
              FetchRead, FetchStore, FetchFails
<1>2. ASSUME NEW a \in answers, Receive(a)
      PROVE  \E k \in DOMAIN saves : Settling(k) /\ Answered(k)
  <2>1. /\ a.call \in (1 .. MaxSends) \X Part /\ a.ok \in BOOLEAN /\ a.version \in Version
        /\ a.call[1] \in DOMAIN saves
    BY DEF TypeOK, CallsInv, Answer
  <2>2. a.call = <<a.call[1], saves[a.call[1]].part>> /\ Pending(a.call[1])
    BY <1>2, <2>1 DEF Receive, Awaited
  <2>3. Settling(a.call[1])
    BY <1>2, <2>1, <2>2 DEF Settling, Receive
  <2>. QED
    BY <1>2, <2>1, <2>2, <2>3 DEF Receive, Answered
<1>3. ASSUME NEW k \in DOMAIN saves, Lose(k)
      PROVE  Settling(k) /\ Lose(k)
  BY <1>3 DEF Settling, Lose, Version
<1>. QED
  BY <1>1, <1>2, <1>3 DEF Next, Using, Serving, Answering, Breaking

-----------------------------------------------------------------------------
(* What is announced was done. *)

DoneInv ==
    /\ \A a \in answers : a.ok = TRUE => a.call[2] \in saves[a.call[1]].done
    /\ \A k \in DOMAIN saves : saves[k].outcome # "error" =>
          \A p \in 1 .. saves[k].parts :
              p < saves[k].part \/ saves[k].outcome = "saved"
                  => p \in saves[k].done \cup saves[k].failed

LEMMA DoneStep == TypeOK /\ CallsInv /\ DoneInv /\ [Next]_vars => DoneInv'
<1>. SUFFICES ASSUME TypeOK, CallsInv, DoneInv, [Next]_vars
              PROVE  DoneInv'
  OBVIOUS
<1>1. CASE Aside
  BY <1>1 DEF Aside, DoneInv
<1>2. CASE Press
  <2>1. \A a \in answers : a.call[1] \in DOMAIN saves
    BY DEF CallsInv
  <2>2. ASSUME NEW k \in DOMAIN saves', NEW p \in 1 .. saves'[k].parts,
               saves'[k].outcome # "error", p < saves'[k].part \/ saves'[k].outcome = "saved"
        PROVE  p \in saves'[k].done \cup saves'[k].failed
    <3>1. k \in DOMAIN saves
      BY <1>2, <2>2, PressAppends
    <3>. QED
      BY <1>2, <2>2, <3>1, PressAppends DEF DoneInv
  <2>. QED
    BY <1>2, <2>1, <2>2, PressAppends DEF DoneInv
<1>3. ASSUME NEW c \in calls, Serve(c) \/ Refuse(c)
      PROVE  DoneInv'
  <2>1. CASE Serve(c)
    <3>1. answers' = answers \cup {[call |-> c, ok |-> TRUE, version |-> row'.version]}
      BY <2>1 DEF Serve
    <3>2. \A j \in DOMAIN saves : saves[j].done \subseteq saves'[j].done
      BY <2>1, ServeMarks
    <3>3. \A a \in answers : a.call[1] \in DOMAIN saves
      BY DEF CallsInv
    <3>4. c[2] \in saves'[c[1]].done
      BY <2>1, ServeMarks
    <3>5. \A a \in answers' : a.ok = TRUE => a.call[2] \in saves'[a.call[1]].done
      BY <3>1, <3>2, <3>3, <3>4 DEF DoneInv
    <3>6. \A j \in DOMAIN saves :
            /\ saves'[j].part = saves[j].part /\ saves'[j].parts = saves[j].parts
            /\ saves'[j].outcome = saves[j].outcome /\ saves'[j].failed = saves[j].failed
      BY <2>1, ServeMarks
    <3>7. DOMAIN saves' = DOMAIN saves
      BY <2>1, ServeMarks
    <3>. QED
      BY <3>2, <3>5, <3>6, <3>7 DEF DoneInv
  <2>2. CASE Refuse(c)
    BY <2>2 DEF Refuse, DoneInv
  <2>. QED
    BY <1>3, <2>1, <2>2
<1>4. ASSUME NEW k \in DOMAIN saves, Settling(k)
      PROVE  DoneInv'
  <2>1. PICK ok \in BOOLEAN, version \in Version :
            /\ Pending(k) /\ Settle(k, ok, version) /\ answers' \subseteq answers
            /\ (\E a \in answers : a.call = <<k, saves[k].part>> /\ a.ok = ok) \/ ok = FALSE
    BY <1>4 DEF Settling
  <2>2. ASSUME ok = TRUE
        PROVE  saves[k].part \in saves[k].done
    <3>1. PICK a \in answers : a.call = <<k, saves[k].part>> /\ a.ok = TRUE
      BY <2>1, <2>2
    <3>2. a.call[1] = k /\ a.call[2] = saves[k].part
      BY <3>1
    <3>. QED
      BY <3>1, <3>2 DEF DoneInv
  <2>3. saves[k] \in Save /\ saves[k].part \in Nat /\ saves[k].parts \in Nat
    BY SavesTyped DEF Save, Part
  <2>4. \A j \in DOMAIN saves : saves'[j].done = saves[j].done
    BY <2>1, SettleSaves
  <2>5. \A a \in answers' : a.ok = TRUE => a.call[2] \in saves'[a.call[1]].done
    BY <2>1, <2>4 DEF DoneInv, CallsInv
  <2>6. ASSUME saves'[k].outcome # "error", NEW p \in 1 .. saves'[k].parts,
               p < saves'[k].part \/ saves'[k].outcome = "saved"
        PROVE  p \in saves'[k].done \cup saves'[k].failed
    <3>1. saves'[k].parts = saves[k].parts /\ saves[k].failed \subseteq saves'[k].failed
          /\ (ok = TRUE \/ saves[k].part \in saves'[k].failed)
      BY <2>1, <2>6, SettleSaves
    <3>2. p <= saves[k].part
      BY <2>1, <2>3, <2>6, <3>1, SettleSaves
    <3>3. p < saves[k].part => p \in saves[k].done \cup saves[k].failed
      BY <2>1, <2>6, <3>1 DEF DoneInv, Pending
    <3>4. p = saves[k].part => p \in saves'[k].done \cup saves'[k].failed
      BY <2>2, <2>4, <3>1
    <3>5. p \in Nat
      BY <2>3, <3>1
    <3>. QED
      BY <2>3, <2>4, <3>1, <3>2, <3>3, <3>4, <3>5
  <2>7. DOMAIN saves' = DOMAIN saves /\ \A j \in DOMAIN saves \ {k} : saves'[j] = saves[j]
    BY <2>1, SettleSaves
  <2>. QED
    BY <2>5, <2>6, <2>7 DEF DoneInv
<1>. QED
  BY <1>1, <1>2, <1>3, <1>4, Steps

\* Of a Save that was announced every part was done or named as failed, however
\* slow, refused or lost its requests and answers were.
THEOREM PartialIsToldAlways == Spec => []PartialIsTold
<1>1. Init => DoneInv
  BY DEF Init, DoneInv
<1>2. DoneInv => PartialIsTold
  BY DEF DoneInv, PartialIsTold
<1>. QED
  BY <1>1, <1>2, TypesAlways, DoneStep, PTL DEF Spec

-----------------------------------------------------------------------------
(* What was saved is shown.  A fetch that has read is dropped by the next   *)
(* success, so the one that is stored has read every Save announced so far. *)

Saved(k) == saves[k].outcome = "saved"

VersionsInv ==
    /\ \A k \in DOMAIN saves : saves[k].version <= row.version
    /\ \A a \in answers : a.version <= row.version
    /\ page.fetch = "read" /\ form.shows = "invalidate" =>
            \A k \in DOMAIN saves : Saved(k) => page.copy >= saves[k].version
    /\ SavedIsShown

LEMMA VersionsStep == TypeOK /\ CallsInv /\ VersionsInv /\ [Next]_vars => VersionsInv'
<1>. SUFFICES ASSUME TypeOK, CallsInv, VersionsInv, [Next]_vars
              PROVE  VersionsInv'
  OBVIOUS
<1>0. /\ row.version \in Nat /\ page.shown \in Nat /\ page.copy \in Nat
      /\ \A k \in DOMAIN saves : saves[k].version \in Nat
      /\ \A a \in answers : a.version \in Nat
  BY SavesTyped DEF TypeOK, Answer, Save, Version
<1>1. CASE Aside /\ (Open \/ Close \/ Type \/ UNCHANGED vars \/ \E a \in answers : Forget(a))
  <2>1. UNCHANGED <<row, page, form, saves>> /\ answers' \subseteq answers
    BY <1>1 DEF Aside, Open, Close, Type, vars, Forget
  <2>. QED
    BY <2>1 DEF VersionsInv, SavedIsShown, Saved
<1>2. CASE Aside /\ SomebodyElse
  <2>1. UNCHANGED <<page, form, saves, answers>> /\ row'.version = row.version + 1
    BY <1>2 DEF SomebodyElse
  <2>. QED
    BY <1>0, <2>1 DEF VersionsInv, SavedIsShown, Saved
<1>3. CASE Aside /\ Showing
  <2>1. UNCHANGED <<row, form, saves, answers>>
    BY <1>3 DEF Showing, Refetch, FetchRead, FetchStore, FetchFails
  <2>2. CASE Refetch \/ FetchFails
    BY <2>1, <2>2 DEF Refetch, FetchFails, TypeOK, VersionsInv, SavedIsShown, Saved
  <2>3. CASE FetchRead
    BY <1>0, <2>1, <2>3 DEF FetchRead, TypeOK, VersionsInv, SavedIsShown, Saved
  <2>4. CASE FetchStore
    BY <1>0, <2>1, <2>4 DEF FetchStore, TypeOK, VersionsInv, SavedIsShown, Saved
  <2>. QED
    BY <1>3, <2>2, <2>3, <2>4 DEF Showing
<1>4. CASE Press
  <2>1. UNCHANGED <<row, page, form, answers>>
    BY <1>4, PressAppends
  <2>2. \A k \in DOMAIN saves' :
            /\ saves'[k].version <= row.version
            /\ saves'[k].outcome = "saved" => k \in DOMAIN saves /\ saves'[k] = saves[k]
    BY <1>0, <1>4, PressAppends DEF VersionsInv
  <2>. QED
    BY <2>1, <2>2 DEF VersionsInv, SavedIsShown, Saved
<1>5. ASSUME NEW c \in calls, Serve(c) \/ Refuse(c)
      PROVE  VersionsInv'
  <2>1. CASE Serve(c)
    <3>1. /\ UNCHANGED <<page, form>>
          /\ row'.version = row.version \/ row'.version = row.version + 1
          /\ answers' = answers \cup {[call |-> c, ok |-> TRUE, version |-> row'.version]}
      BY <2>1 DEF Serve
    <3>2. /\ DOMAIN saves' = DOMAIN saves
          /\ \A k \in DOMAIN saves : /\ saves'[k].version = saves[k].version
                                     /\ saves'[k].outcome = saves[k].outcome
      BY <2>1, ServeMarks
    <3>. QED
      BY <1>0, <3>1, <3>2 DEF VersionsInv, SavedIsShown, Saved
  <2>2. CASE Refuse(c)
    BY <1>0, <2>2 DEF Refuse, VersionsInv, SavedIsShown, Saved
  <2>. QED
    BY <1>5, <2>1, <2>2
<1>6. ASSUME NEW k \in DOMAIN saves, Settling(k)
      PROVE  VersionsInv'
  <2>1. PICK ok \in BOOLEAN, version \in Version :
            /\ Pending(k) /\ Settle(k, ok, version) /\ answers' \subseteq answers
            /\ UNCHANGED <<form, row>>
            /\ (\E a \in answers : a.version = version) \/ version = 0
    BY <1>6 DEF Settling
  <2>2. version <= row.version
    BY <1>0, <2>1 DEF VersionsInv
  <2>3. DOMAIN saves' = DOMAIN saves /\ \A j \in DOMAIN saves \ {k} : saves'[j] = saves[j]
    BY <2>1, SettleSaves
  <2>4. saves'[k].version \in Nat /\ saves'[k].version <= row.version
    <3>1. saves'[k].version \in {saves[k].version, version}
      BY <2>1, SettleSaves
    <3>. QED
      BY <1>0, <2>1, <2>2, <3>1 DEF VersionsInv, Version
  <2>5. \/ saves'[k].outcome # "saved" /\ page' = page
        \/ saves'[k].outcome = "saved" /\ page' = Refreshed(saves'[k].version)
    BY <2>1, SettleSaves
  <2>6. CASE saves'[k].outcome # "saved" /\ page' = page
    BY <1>0, <2>1, <2>3, <2>4, <2>6 DEF VersionsInv, SavedIsShown, Saved
  <2>7. CASE saves'[k].outcome = "saved" /\ page' = Refreshed(saves'[k].version)
    <3>1. form.shows = "invalidate" => page'.fetch = "sent"
      BY <2>7 DEF Refreshed, Invalidate, TypeOK
    <3>. QED
      BY <1>0, <2>1, <2>3, <2>4, <3>1 DEF VersionsInv, SavedIsShown, Saved
  <2>. QED
    BY <2>5, <2>6, <2>7
<1>. QED
  BY <1>1, <1>2, <1>3, <1>4, <1>5, <1>6, Steps

\* A page whose query rests shows every Save that it has announced, or something
\* newer, whatever fetches were under way, failed or were dropped.
THEOREM SavedIsShownAlways == Spec => []SavedIsShown
<1>1. Init => VersionsInv
  BY DEF Init, VersionsInv, SavedIsShown, Saved
<1>2. VersionsInv => SavedIsShown
  BY DEF VersionsInv
<1>. QED
  BY <1>1, <1>2, TypesAlways, VersionsStep, PTL DEF Spec

-----------------------------------------------------------------------------
(* The last word wins.  As long as no request is given up on, the request of *)
(* a Save is on its way only while its form waits, and a guarded form waits  *)
(* for one Save at a time.                                                   *)

SameForm(j, k) == form.lives = "kept" \/ saves[j].opening = saves[k].opening

OrderInv ==
    /\ \A a \in answers : a.call \notin calls /\ a.call[2] <= saves[a.call[1]].part
    /\ \A c \in calls : c[2] <= saves[c[1]].part
    /\ ~contested => \A c \in calls : Pending(c[1]) /\ saves[c[1]].part = c[2]
    /\ form # MemberRole =>
          \A j, k \in DOMAIN saves : j < k /\ SameForm(j, k) => ~Pending(j)
    /\ row.word \in DOMAIN saves \cup {0}
    /\ LastWordWins

LEMMA OrderStep == TypeOK /\ CallsInv /\ OrderInv /\ [Next]_vars => OrderInv'
<1>. SUFFICES ASSUME TypeOK, CallsInv, OrderInv, [Next]_vars
              PROVE  OrderInv'
  OBVIOUS
<1>0. /\ DOMAIN saves = 1 .. Len(saves) /\ Len(saves) \in Nat
      /\ \A k \in DOMAIN saves : saves[k].part \in Part /\ saves[k] \in Save
      /\ row.word \in Nat
  BY SavesTyped DEF TypeOK, Save, Number
<1>1. CASE Aside /\ ~SomebodyElse
           /\ (Open \/ Close \/ Type \/ Showing \/ UNCHANGED vars
               \/ \E a \in answers : Forget(a))
  <2>1. UNCHANGED <<row, contested>>
    BY <1>1 DEF Open, Close, Type, Showing, vars, Forget, Refetch, FetchRead, FetchStore,
                FetchFails
  <2>. QED
    BY <1>1, <2>1 DEF Aside, OrderInv, LastWordWins, SameForm, Pending
<1>2. CASE Aside /\ SomebodyElse
  BY <1>2 DEF Aside, SomebodyElse, OrderInv, LastWordWins, SameForm, Pending
<1>3. CASE Press
  <2>. DEFINE new == Len(saves) + 1
  <2>1. /\ UNCHANGED <<form, row, answers, contested>>
        /\ DOMAIN saves' = DOMAIN saves \cup {new} /\ new \notin DOMAIN saves
        /\ \A j \in DOMAIN saves : saves'[j] = saves[j] /\ j < new
        /\ calls' = calls \cup {<<new, 1>>}
        /\ saves'[new].opening = ui.opening /\ saves'[new].part = 1
        /\ saves'[new].outcome = "pending" /\ saves'[new].done = {}
    BY <1>0, <1>3, PressAppends
  <2>2. form # MemberRole => ~Busy
    BY <1>3, PressAppends, FormAttributes DEF CanPress, TypeOK
  <2>. HIDE DEF new
  <2>3. \A a \in answers : a.call # <<new, 1>> /\ a.call[1] \in DOMAIN saves
    BY <2>1 DEF CallsInv
  <2>4. (\A a \in answers : a.call \notin calls /\ a.call[2] <= saves[a.call[1]].part)'
    BY <2>1, <2>3 DEF OrderInv
  <2>5. (~contested => \A c \in calls : Pending(c[1]) /\ saves[c[1]].part = c[2])'
    BY <2>1 DEF OrderInv, CallsInv, Pending
  <2>6. ASSUME form # MemberRole, NEW j \in DOMAIN saves', NEW k \in DOMAIN saves',
               j < k, SameForm(j, k)'
        PROVE  ~Pending(j)'
    <3>1. j \in DOMAIN saves
      BY <1>0, <2>1, <2>6 DEF new
    <3>2. CASE k \in DOMAIN saves
      BY <2>1, <2>6, <3>1, <3>2 DEF OrderInv, SameForm, Pending
    <3>3. CASE k = new
      BY <2>1, <2>2, <2>6, <3>1, <3>3 DEF Busy, SameForm, Pending
    <3>. QED
      BY <2>1, <3>2, <3>3
  <2>10. (\A c \in calls : c[2] <= saves[c[1]].part)'
    BY <2>1 DEF OrderInv, CallsInv
  <2>7. ASSUME ~contested, form # MemberRole, row.word > 0,
               NEW k \in row.word + 1 .. new,
               form.lives = "kept" \/ saves'[k].opening = saves'[row.word].opening
        PROVE  1 \notin saves'[k].done
    <3>1. row.word \in DOMAIN saves
      BY <1>0, <2>7 DEF OrderInv
    <3>2. k \in DOMAIN saves \/ k = new
      BY <1>0, <2>7, <3>1 DEF new
    <3>3. CASE k \in DOMAIN saves
      BY <1>0, <2>1, <2>7, <3>1, <3>3 DEF OrderInv, LastWordWins
    <3>. QED
      BY <2>1, <3>2, <3>3
  <2>8. Len(saves') = new
    BY <1>3, PressAppends DEF new
  <2>9. LastWordWins'
    BY <2>1, <2>7, <2>8 DEF LastWordWins
  <2>. QED
    BY <2>1, <2>4, <2>5, <2>6, <2>9, <2>10 DEF OrderInv
<1>4. ASSUME NEW c \in calls, Serve(c) \/ Refuse(c)
      PROVE  OrderInv'
  <2>1. /\ UNCHANGED <<form, contested>> /\ calls' = calls \ {c}
        /\ \A a \in answers' : a \in answers \/ a.call = c
    BY <1>4 DEF Serve, Refuse
  <2>2. CASE Refuse(c)
    BY <2>1, <2>2 DEF Refuse, OrderInv, LastWordWins, SameForm, Pending
  <2>3. CASE Serve(c)
    <3>1. /\ c[1] \in DOMAIN saves /\ DOMAIN saves' = DOMAIN saves
          /\ \A k \in DOMAIN saves :
                /\ saves'[k].opening = saves[k].opening /\ saves'[k].part = saves[k].part
                /\ saves'[k].outcome = saves[k].outcome
      BY <2>3, ServeMarks
    <3>2. \A a \in answers : a.call[1] \in DOMAIN saves
      BY DEF CallsInv
    <3>3. (\A a \in answers : a.call \notin calls /\ a.call[2] <= saves[a.call[1]].part)'
      BY <2>1, <3>1, <3>2 DEF OrderInv
    <3>4. /\ (\A d \in calls : d[2] <= saves[d[1]].part)'
          /\ (~contested => \A d \in calls : Pending(d[1]) /\ saves[d[1]].part = d[2])'
      BY <2>1, <3>1 DEF OrderInv, CallsInv, Pending
    <3>5. (form # MemberRole =>
             \A j, k \in DOMAIN saves : j < k /\ SameForm(j, k) => ~Pending(j))'
      BY <2>1, <3>1 DEF OrderInv, SameForm, Pending
    <3>6. CASE c[2] = 1
      <4>1. row'.word = c[1]
        BY <2>3, <3>6 DEF Serve
      <4>2. ASSUME ~contested, form # MemberRole, NEW k \in c[1] + 1 .. Len(saves),
                   form.lives = "kept" \/ saves[k].opening = saves[c[1]].opening
            PROVE  FALSE
        <5>1. Pending(c[1])
          BY <4>2 DEF OrderInv
        <5>2. k \in DOMAIN saves /\ c[1] < k
          BY <1>0, <3>1, <4>2
        <5>. QED
          BY <3>1, <4>2, <5>1, <5>2 DEF OrderInv, SameForm
      <4>3. Len(saves') = Len(saves)
        BY <2>3 DEF Serve, TypeOK
      <4>4. \A k \in c[1] + 1 .. Len(saves) : k \in DOMAIN saves
        BY <1>0, <3>1
      <4>5. LastWordWins'
        BY <2>1, <3>1, <4>1, <4>2, <4>3, <4>4 DEF LastWordWins
      <4>. QED
        BY <3>1, <3>3, <3>4, <3>5, <4>1, <4>5 DEF OrderInv
    <3>7. CASE c[2] # 1
      <4>1. row' = row /\ Len(saves') = Len(saves)
        BY <2>3, <3>7 DEF Serve, TypeOK
      <4>2. \A k \in DOMAIN saves : 1 \in saves'[k].done => 1 \in saves[k].done
        BY <2>3, <3>7, ServeMarks
      <4>3. row.word > 0 => \A k \in row.word + 1 .. Len(saves) : k \in DOMAIN saves
        BY <1>0
      <4>4. row.word > 0 => row.word \in DOMAIN saves
        BY DEF OrderInv
      <4>5. LastWordWins'
        BY <2>1, <3>1, <4>1, <4>2, <4>3, <4>4 DEF OrderInv, LastWordWins
      <4>. QED
        BY <3>1, <3>3, <3>4, <3>5, <4>1, <4>5 DEF OrderInv
    <3>. QED
      BY <3>6, <3>7
  <2>. QED
    BY <1>4, <2>2, <2>3
<1>5. ASSUME NEW k \in DOMAIN saves, Settling(k), Lose(k) \/ Answered(k)
      PROVE  OrderInv'
  <2>1. PICK ok \in BOOLEAN, version \in Version :
            /\ Pending(k) /\ Settle(k, ok, version) /\ answers' \subseteq answers
            /\ UNCHANGED <<form, row>>
    BY <1>5 DEF Settling
  <2>2. /\ DOMAIN saves' = DOMAIN saves /\ Len(saves') = Len(saves)
        /\ \A j \in DOMAIN saves : /\ saves'[j].opening = saves[j].opening
                                   /\ saves'[j].done = saves[j].done
                                   /\ ~Pending(j) => saves'[j] = saves[j]
                                   /\ j # k => saves'[j] = saves[j]
    BY <2>1, SettleSaves
  <2>3. \/ calls' = calls
        \/ /\ calls' = calls \cup {<<k, saves[k].part + 1>>}
           /\ saves'[k].part = saves[k].part + 1 /\ saves'[k].outcome = "pending"
    BY <2>1, SettleSaves
  <2>4. LastWordWins'
    <3>1. row.word > 0 => \A j \in row.word + 1 .. Len(saves) : j \in DOMAIN saves
      BY <1>0
    <3>2. row.word > 0 => row.word \in DOMAIN saves
      BY DEF OrderInv
    <3>3. contested => contested'
      BY <1>5 DEF Lose, Answered
    <3>. QED
      BY <2>1, <2>2, <3>1, <3>2, <3>3 DEF OrderInv, LastWordWins
  <2>5. (form # MemberRole =>
           \A i, j \in DOMAIN saves : i < j /\ SameForm(i, j) => ~Pending(i))'
    BY <2>1, <2>2 DEF OrderInv, SameForm, Pending
  <2>6. saves[k].part \in Nat /\ saves'[k].part \in Nat /\ saves[k].part <= saves'[k].part
    <3>1. saves'[k].part \in {saves[k].part, saves[k].part + 1}
      BY <2>1, SettleSaves
    <3>. QED
      BY <1>0, <3>1 DEF Part
  <2>7. ASSUME NEW a \in answers'
        PROVE  a.call \notin calls' /\ a.call[2] <= saves'[a.call[1]].part
    <3>1. a \in answers /\ a.call \in (1 .. MaxSends) \X Part /\ a.call[1] \in DOMAIN saves
      BY <2>1, <2>7 DEF TypeOK, CallsInv, Answer
    <3>2. a.call[2] \in Nat /\ a.call[2] <= saves[a.call[1]].part
      BY <3>1 DEF OrderInv, Part
    <3>3. a.call[2] <= saves'[a.call[1]].part
      BY <2>2, <2>6, <3>1, <3>2
    <3>4. a.call # <<k, saves[k].part + 1>>
      BY <2>6, <3>1, <3>2
    <3>. QED
      BY <2>3, <3>1, <3>3, <3>4 DEF OrderInv
  <2>8. ASSUME NEW c \in calls'
        PROVE  c[2] <= saves'[c[1]].part
    <3>1. CASE c \in calls
      <4>1. c[1] \in DOMAIN saves /\ c[2] \in Nat /\ c[2] <= saves[c[1]].part
        BY <3>1 DEF CallsInv, TypeOK, OrderInv, Part
      <4>. QED
        BY <2>2, <2>6, <4>1
    <3>2. CASE c \notin calls
      BY <2>3, <2>6, <2>8, <3>2
    <3>. QED
      BY <3>1, <3>2
  <2>9. ASSUME ~contested', NEW c \in calls'
        PROVE  Pending(c[1])' /\ saves'[c[1]].part = c[2]
    <3>1. ~contested /\ \E a \in answers : a.call = <<k, saves[k].part>>
      <4>1. CASE Lose(k)
        <5>1. contested' = TRUE \/ (contested' = contested
                                    /\ \E a \in answers : a.call = <<k, saves[k].part>>)
          BY <4>1 DEF Lose
        <5>. QED
          BY <2>9, <5>1
      <4>2. CASE Answered(k)
        BY <2>9, <4>2 DEF Answered
      <4>. QED
        BY <1>5, <4>1, <4>2
    <3>2. <<k, saves[k].part>> \notin calls
      BY <3>1 DEF OrderInv
    <3>3. CASE c \in calls
      <4>1. /\ c[1] \in DOMAIN saves /\ c = <<c[1], c[2]>>
            /\ Pending(c[1]) /\ saves[c[1]].part = c[2]
        BY <3>1, <3>3 DEF CallsInv, TypeOK, OrderInv
      <4>2. c[1] # k
        BY <3>2, <3>3, <4>1
      <4>. QED
        BY <2>2, <4>1, <4>2 DEF Pending
    <3>4. CASE c \notin calls
      BY <2>3, <2>9, <3>4 DEF Pending
    <3>. QED
      BY <3>3, <3>4
  <2>. QED
    BY <2>1, <2>2, <2>4, <2>5, <2>7, <2>8, <2>9 DEF OrderInv
<1>. QED
  BY <1>1, <1>2, <1>3, <1>4, <1>5, Steps

\* Of two Saves of one component the earlier never undoes the later, for every
\* form but the role select of a team member, as long as nobody else writes and
\* no request is given up on.
THEOREM LastWordWinsAlways == Spec => []LastWordWins
<1>1. Init => OrderInv
  BY DEF Init, OrderInv, LastWordWins
<1>2. OrderInv => LastWordWins
  BY DEF OrderInv
<1>. QED
  BY <1>1, <1>2, TypesAlways, OrderStep, PTL DEF Spec

-----------------------------------------------------------------------------
(* Who closes a dialog. *)

\* A dialog of the ticket page is closed by its user or by the answer to a Save
\* of the opening that is on the screen, never by that to an earlier one.
THEOREM ClosedByItsOwnAlways == Spec => ClosedByItsOwn
<1>1. TypeOK /\ CallsInv /\ [Next]_vars => [ClosedByItsOwnStep]_vars
  <2>. SUFFICES ASSUME TypeOK, CallsInv, [Next]_vars,
                       form \in {EditDialog, AssignDialog, TagsDialog}, ui.open, ~ui'.open,
                       NEW j \in DOMAIN saves, Pending(j), saves'[j].outcome # "pending"
                PROVE  saves[j].opening = ui.opening
    BY DEF ClosedByItsOwnStep
  <2>1. CASE Aside
    BY <2>1 DEF Aside, Pending
  <2>2. CASE Press
    BY <2>2, PressAppends DEF Pending
  <2>3. ASSUME NEW c \in calls, Serve(c) \/ Refuse(c)
        PROVE  FALSE
    BY <2>3 DEF Serve, Refuse
  <2>4. ASSUME NEW k \in DOMAIN saves, Settling(k)
        PROVE  saves[j].opening = ui.opening
    <3>1. PICK ok \in BOOLEAN, version \in Version : Pending(k) /\ Settle(k, ok, version)
      BY <2>4 DEF Settling
    <3>2. j = k
      BY <3>1, SettleSaves DEF Pending
    <3>3. ui' \in {ui, AfterError, AfterSuccess(k)}
      BY <3>1, SettleSaves
    <3>4. AfterError = ui
      BY DialogAttributes DEF AfterError
    <3>5. Heard(k)
      BY <3>3, <3>4 DEF AfterSuccess
    <3>. QED
      BY <3>2, <3>5, DialogAttributes DEF Heard
  <2>. QED
    BY <2>1, <2>2, <2>3, <2>4, Steps
<1>. QED
  BY <1>1, TypesAlways, PTL DEF Spec, ClosedByItsOwn
=============================================================================
