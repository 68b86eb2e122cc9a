-------------------------- MODULE VerificationProofs --------------------------
(***************************************************************************)
(* Proofs about Verification, for any owners, documents and requests in    *)
(* progress: approvals were vetted, edits survive reviews, decisions stay  *)
(* whole, an uploader is told the truth and the audit log tells it.  And   *)
(* about Configuration: what the audit log tells of a form can be found.   *)
(***************************************************************************)
EXTENDS Verification, Configuration, TLAPS

-----------------------------------------------------------------------------
(* Types                                                                   *)

Steps == {"idle", "edit", "invalidate", "approve", "reject", "save", "post", "load",
          "store", "upload", "enqueue", "again", "delete", "audit"}

Job == [pc: Steps, owner: Owner \cup {None}, seen: Profile \cup DocType \cup {None},
        doc: DocId \cup {None}, deed: Deed \cup {None}]

\* What a request has at each of its steps.
JobFits(j) ==
  /\ j \in Job
  /\ j.pc = "idle" => j = Idle
  /\ j.pc # "idle" => j.owner \in Owner
  /\ j.pc = "edit" => j.seen \in Profile \cup {None}
  /\ j.pc \in {"approve", "reject", "save", "post"} => j.seen \in Profile
  /\ j.pc = "post" => j.owner \in Company
  /\ j.pc \in {"load", "store", "invalidate"} => j.owner \in Student
  /\ j.pc = "store" => j.seen \in Profile \cup {None}
  /\ j.pc = "upload" => j.seen \in DocType
  /\ j.pc = "edit" => j.deed \in {None, "edited"}
  /\ j.pc \in {"approve", "save"} => j.deed = "APPROVED"
  /\ j.pc = "reject" => j.deed = "REJECTED"
  /\ j.pc = "audit" => j.deed \in Deed

JobsFit == /\ DOMAIN job = Worker
           /\ job = [w \in Worker |-> job[w]]
           /\ \A w \in Worker : JobFits(job[w])

\* A review is of a row that is there, and rows of profiles stay.
RowsStay == \A w \in Worker :
  job[w].pc \in {"approve", "reject", "save"} => profile[job[w].owner] # None

TypeInv == /\ TypeOK /\ JobsFit /\ RowsStay
           /\ edits \in 0..MaxEdits /\ edited \in [Owner -> 0..MaxEdits]
           /\ faults \in 0..MaxFaults

LEMMA IdleFits == JobFits(Idle)
BY DEF JobFits, Idle, Job, Steps

LEMMA BeginFits ==
  ASSUME JobsFit, NEW w \in Worker, NEW pc, NEW o, NEW seen, NEW i, NEW deed,
         Begin(w, pc, o, seen, i, deed),
         JobFits([pc |-> pc, owner |-> o, seen |-> seen, doc |-> i, deed |-> deed])
  PROVE  JobsFit'
BY DEF JobsFit, Begin

LEMMA EndFits ==
  ASSUME JobsFit, NEW w \in Worker, End(w)
  PROVE  JobsFit'
BY IdleFits DEF JobsFit, End

LEMMA GotoFits ==
  ASSUME JobsFit, NEW w \in Worker, NEW pc, Goto(w, pc), JobFits([job[w] EXCEPT !.pc = pc])
  PROVE  JobsFit'
BY DEF JobsFit, Goto

LEMMA RecordedFits ==
  ASSUME JobsFit, NEW w \in Worker, job[w].pc # "idle", Recorded(w)
  PROVE  JobsFit'
<1>1. CASE job[w].deed = None
  BY <1>1, EndFits DEF Recorded
<1>2. CASE job[w].deed # None
  <2>1. JobFits([job[w] EXCEPT !.pc = "audit"])
    BY <1>2 DEF JobsFit, JobFits, Job, Steps
  <2> QED BY <1>2, <2>1, GotoFits DEF Recorded
<1> QED BY <1>1, <1>2

LEMMA SavedFits ==
  ASSUME JobsFit, NEW w \in Worker, job[w].pc # "idle", Saved(w)
  PROVE  JobsFit'
<1>1. CASE job[w].owner \in Student
  <2>1. JobFits([job[w] EXCEPT !.pc = "invalidate"])
    BY <1>1 DEF JobsFit, JobFits, Job, Steps
  <2> QED BY <1>1, <2>1, GotoFits DEF Saved
<1>2. CASE job[w].owner \notin Student
  BY <1>2, RecordedFits DEF Saved
<1> QED BY <1>1, <1>2

LEMMA TypeInit == Init => TypeInv
BY VerificationAssumption, IdleFits
   DEF Init, TypeInv, TypeOK, JobsFit, RowsStay, Idle

\* A request that begins with the row it has read.
LEMMA BeginTypes ==
  ASSUME TypeInv, NEW w \in Worker, NEW pc, NEW o, NEW seen, NEW i, NEW deed,
         Begin(w, pc, o, seen, i, deed),
         JobFits([pc |-> pc, owner |-> o, seen |-> seen, doc |-> i, deed |-> deed]),
         pc \in {"approve", "reject", "save"} => profile[o] # None,
         UNCHANGED <<rows, history, faults>>
  PROVE  TypeInv'
<1>1. JobsFit'
  BY BeginFits DEF TypeInv
<1>2. \A v \in Worker : job'[v] = Idle \/ job'[v].owner \in Owner
  BY <1>1, Zenon DEF JobsFit, JobFits
<1>3. RowsStay'
  BY DEF TypeInv, RowsStay, JobsFit, Begin, rows
<1> QED BY <1>1, <1>2, <1>3 DEF TypeInv, TypeOK, rows, history

\* What ends, goes on or has saved leaves the reviews in progress with rows.
LEMMA RowsStayStep ==
  ASSUME TypeInv, NEW w \in Worker, \A o \in Owner : profile[o] # None => profile'[o] # None,
         \/ End(w)
         \/ \E pc : /\ Goto(w, pc)
                   /\ \/ pc \notin {"approve", "reject", "save"}
                      \/ job[w].pc \in {"approve", "reject", "save"}
         \/ Saved(w) \/ Recorded(w)
         \/ UNCHANGED job
  PROVE  RowsStay'
<1>1. \A v \in Worker : job[v].pc \in {"approve", "reject", "save"}
                         => job[v].owner \in Owner /\ profile'[job[v].owner] # None
  BY DEF TypeInv, RowsStay, JobsFit, JobFits
<1>2. CASE End(w) \/ UNCHANGED job
  BY <1>1, <1>2 DEF RowsStay, End, Idle, TypeInv, JobsFit
<1>3. ASSUME NEW pc, Goto(w, pc), \/ pc \notin {"approve", "reject", "save"}
                                 \/ job[w].pc \in {"approve", "reject", "save"}
      PROVE  RowsStay'
  <2>1. /\ DOMAIN job = Worker /\ DOMAIN job' = Worker
        /\ \A v \in Worker : job'[v] = IF v = w THEN [job[v] EXCEPT !.pc = pc] ELSE job[v]
        /\ job[w] \in Job
    BY <1>3 DEF Goto, TypeInv, JobsFit, JobFits
  <2>2. job'[w].pc = pc /\ job'[w].owner = job[w].owner
    BY <2>1 DEF Job
  <2> QED BY <1>1, <1>3, <2>1, <2>2 DEF RowsStay
<1>4. CASE Saved(w) \/ Recorded(w)
  BY <1>2, <1>3, <1>4 DEF Saved, Recorded
<1> QED BY <1>2, <1>3, <1>4

\* A request that ends or goes on, and changes what keeps its type.
LEMMA StepTypes ==
  ASSUME JobsFit', RowsStay',
         profile' \in [Owner -> Profile \cup {None}], active' \in [Owner -> BOOLEAN],
         doc' \in [DocId -> Document \cup {None}],
         cache' \in [Student -> BOOLEAN \cup {None}],
         audit' \subseteq AuditLog,
         vetted' \subseteq Owner, posted' \subseteq Company,
         edits' \in 0..MaxEdits, edited' \in [Owner -> 0..MaxEdits],
         faults' \in 0..MaxFaults
  PROVE  TypeInv'
<1>1. \A v \in Worker : job'[v] = Idle \/ job'[v].owner \in Owner
  BY Zenon DEF JobsFit, JobFits
<1> QED BY <1>1 DEF TypeInv, TypeOK

\* The requests that begin, each with what it takes along.
LEMMA BeginningsType ==
  ASSUME TypeInv, NEW w \in Worker,
         \/ \E o \in Owner : StartEdit(w, o) \/ ConsoleEdit(w, o)
         \/ \E d \in {"approve", "reject"} : \/ \E s \in Student : StudentReview(w, s, d)
                                             \/ \E c \in Company : CompanyReview(w, c, d)
         \/ \E c \in Company : \/ StartPost(w, c)
                               \/ \E type \in DocType : StartUpload(w, c, type)
         \/ \E s \in Student : \/ OpenMarketplace(w, s)
                               \/ \E type \in DocType : StudentUpload(w, s, type)
  PROVE  TypeInv'
<1>1. ASSUME NEW o \in Owner, StartEdit(w, o) \/ ConsoleEdit(w, o) PROVE TypeInv'
  <2>1. ASSUME NEW deed \in {None, "edited"}
        PROVE  JobFits([pc |-> "edit", owner |-> o, seen |-> profile[o], doc |-> None,
                        deed |-> deed])
    BY DEF TypeInv, TypeOK, JobFits, Job, Steps, Deed
  <2> QED BY <1>1, <2>1, BeginTypes DEF StartEdit, ConsoleEdit
<1>2. ASSUME NEW o \in Owner, NEW d \in {"approve", "reject"}, BeginReview(w, o, d)
      PROVE  TypeInv'
  <2>1. JobFits([pc |-> d, owner |-> o, seen |-> profile[o], doc |-> None,
                 deed |-> IF d = "approve" THEN "APPROVED" ELSE "REJECTED"])
    BY <1>2 DEF TypeInv, TypeOK, JobFits, Job, Steps, Deed, BeginReview
  <2> QED BY <1>2, <2>1, BeginTypes DEF BeginReview
<1>3. ASSUME NEW c \in Company, StartPost(w, c) PROVE TypeInv'
  <2>1. JobFits([pc |-> "post", owner |-> c, seen |-> profile[c], doc |-> None,
                 deed |-> None])
    BY <1>3 DEF TypeInv, TypeOK, JobFits, Job, Steps, StartPost, Owner
  <2> QED BY <1>3, <2>1, BeginTypes DEF StartPost
<1>4. ASSUME NEW o \in Owner, NEW type \in DocType,
             StartUpload(w, o, type) \/ StudentUpload(w, o, type)
      PROVE  TypeInv'
  <2>1. JobFits([pc |-> "upload", owner |-> o, seen |-> type, doc |-> None,
                 deed |-> None])
    BY DEF JobFits, Job, Steps
  <2> QED BY <1>4, <2>1, BeginTypes DEF StartUpload, StudentUpload
<1>5. ASSUME NEW s \in Student, OpenMarketplace(w, s) PROVE TypeInv'
  <2>1. JobFits([pc |-> "load", owner |-> s, seen |-> None, doc |-> None,
                 deed |-> None])
    BY DEF JobFits, Job, Steps, Owner
  <2> QED BY <1>5, <2>1, BeginTypes DEF OpenMarketplace
<1> QED BY <1>1, <1>2, <1>3, <1>4, <1>5
    DEF StudentReview, CompanyReview, Owner

\* The steps of requests that change profiles.
LEMMA ProfileStepsType ==
  ASSUME TypeInv, NEW w \in Worker,
         SaveEdit(w) \/ SaveApproval(w) \/ SaveRejection(w)
  PROVE  TypeInv'
<1> DEFINE o == job[w].owner
<1>1. job[w].pc # "idle" /\ JobFits(job[w]) /\ o \in Owner
  BY DEF TypeInv, JobsFit, JobFits, SaveEdit, SaveApproval, SaveRejection, At
<1>2. CASE SaveEdit(w)
  <2> DEFINE read == IF job[w].seen = None THEN NewProfile(o) ELSE job[w].seen
  <2>1. read \in Profile
    BY <1>1, <1>2, VerificationAssumption DEF JobFits, SaveEdit, At, NewProfile, Profile
  <2>2. edits + 1 \in 0..MaxEdits
    BY <1>2, VerificationAssumption DEF SaveEdit, TypeInv
  <2>3. [read EXCEPT !.data = edits + 1] \in Profile
    BY <2>1, <2>2 DEF Profile
  <2>4. profile' \in [Owner -> Profile \cup {None}] /\ edits' \in 0..MaxEdits
        /\ edited' \in [Owner -> 0..MaxEdits]
    <3> HIDE DEF read
    <3> QED BY <1>2, <2>2, <2>3 DEF SaveEdit, TypeInv, TypeOK, read
  <2>5. JobsFit'
    BY <1>1, <1>2, EndFits, SavedFits DEF SaveEdit, TypeInv
  <2>6. \A x \in Owner : profile[x] # None => profile'[x] # None
    <3>1. [read EXCEPT !.data = edits + 1] # None
      BY <2>3, VerificationAssumption
    <3> QED BY <1>2, <2>3, <3>1 DEF SaveEdit, TypeInv, TypeOK
  <2>7. RowsStay'
    BY <1>2, <2>6, RowsStayStep DEF SaveEdit
  <2> QED BY <1>2, <2>4, <2>5, <2>7, StepTypes DEF SaveEdit, TypeInv, TypeOK
<1>3. CASE SaveApproval(w)
  <2>0. profile[o] \in Profile
    BY <1>1, <1>3 DEF SaveApproval, At, TypeInv, TypeOK, RowsStay
  <2>1. JobsFit' BY <1>1, <1>3, SavedFits DEF SaveApproval, TypeInv
  <2>2. profile' \in [Owner -> Profile \cup {None}]
    BY <1>3, <1>1, <2>0 DEF SaveApproval, Reviewed, TypeInv, TypeOK, Profile
  <2>3. RowsStay'
    <3>0. profile'[o] \in Profile /\ \A x \in Owner \ {o} : profile'[x] = profile[x]
      BY <1>3, <1>1, <2>0 DEF SaveApproval, Reviewed, TypeInv, TypeOK, Profile
    <3>1. \A x \in Owner : profile[x] # None => profile'[x] # None
      BY <3>0, VerificationAssumption
    <3> QED BY <1>3, <3>1, RowsStayStep DEF SaveApproval
  <2> QED BY <1>3, <2>1, <2>2, <2>3, StepTypes DEF SaveApproval, TypeInv, TypeOK, history
<1>4. CASE SaveRejection(w)
  <2>0. profile[o] \in Profile
    BY <1>1, <1>4 DEF SaveRejection, At, TypeInv, TypeOK, RowsStay
  <2>1. JobsFit' BY <1>1, <1>4, SavedFits DEF SaveRejection, TypeInv
  <2>2. profile' \in [Owner -> Profile \cup {None}]
    BY <1>4, <1>1, <2>0 DEF SaveRejection, Reviewed, TypeInv, TypeOK, Profile
  <2>3. RowsStay'
    <3>0. profile'[o] \in Profile /\ \A x \in Owner \ {o} : profile'[x] = profile[x]
      BY <1>4, <1>1, <2>0 DEF SaveRejection, Reviewed, TypeInv, TypeOK, Profile
    <3>1. \A x \in Owner : profile[x] # None => profile'[x] # None
      BY <3>0, VerificationAssumption
    <3> QED BY <1>4, <3>1, RowsStayStep DEF SaveRejection
  <2> QED BY <1>4, <2>1, <2>2, <2>3, StepTypes DEF SaveRejection, TypeInv, TypeOK, history
<1> QED BY <1>2, <1>3, <1>4

\* The steps of requests that leave profiles alone, and crashes.
LEMMA OtherStepsType ==
  ASSUME TypeInv, NEW w \in Worker,
         \/ Invalidate(w) \/ WriteAudit(w) \/ CheckDocuments(w) \/ RequireApproved(w)
         \/ LoadStatus(w) \/ StoreStatus(w)
         \/ StoreDocument(w) \/ RefuseFile(w) \/ SendScan(w)
         \/ SendRaises(w) \/ SendRaisesAgain(w)
         \/ DeleteRow(w) \/ Crash(w)
  PROVE  TypeInv'
<1>0. ASSUME faults < MaxFaults PROVE faults + 1 \in 0..MaxFaults
  BY <1>0, VerificationAssumption DEF TypeInv
<1>1. JobFits(job[w]) /\ job[w] \in Job
  BY DEF TypeInv, JobsFit, JobFits
<1>2. ASSUME UNCHANGED profile, End(w) PROVE JobsFit' /\ RowsStay'
  BY <1>2, EndFits, RowsStayStep DEF TypeInv
<1>3. ASSUME NEW pc, UNCHANGED profile, Goto(w, pc), JobFits([job[w] EXCEPT !.pc = pc]),
             \/ pc \notin {"approve", "reject", "save"}
             \/ job[w].pc \in {"approve", "reject", "save"}
      PROVE  JobsFit' /\ RowsStay'
  BY <1>3, GotoFits, RowsStayStep DEF TypeInv
<1>4. ASSUME NEW j, UNCHANGED profile, job' = [job EXCEPT ![w] = j], JobFits(j),
             j.pc \in {"store", "enqueue"}
      PROVE  JobsFit' /\ RowsStay'
  BY <1>4 DEF TypeInv, JobsFit, RowsStay
<1>5. CASE Invalidate(w)
  <2>1. cache' \in [Student -> BOOLEAN \cup {None}]
    BY <1>5 DEF Invalidate, TypeInv, TypeOK
  <2>2. JobsFit' /\ RowsStay'
    BY <1>5, RecordedFits, RowsStayStep DEF Invalidate, At, TypeInv
  <2> QED BY <1>5, <2>1, <2>2, StepTypes DEF Invalidate, TypeInv, TypeOK, history
<1>6. CASE CheckDocuments(w)
  <2>1. job[w].owner \in Owner
    BY <1>1, <1>6 DEF CheckDocuments, At, JobFits
  <2>2. JobFits([job[w] EXCEPT !.pc = "save"])
    BY <1>1, <1>6 DEF CheckDocuments, At, JobFits, Job, Steps
  <2>3. JobsFit' /\ RowsStay'
    BY <1>2, <1>3, <1>6, <2>2 DEF CheckDocuments, rows, At
  <2> QED BY <1>6, <2>1, <2>3, StepTypes DEF CheckDocuments, TypeInv, TypeOK, rows
<1>7. CASE RequireApproved(w)
  <2>1. job[w].owner \in Company
    BY <1>1, <1>7 DEF RequireApproved, At, JobFits
  <2> QED BY <1>2, <1>7, <2>1, StepTypes DEF RequireApproved, TypeInv, TypeOK, rows
<1>8. CASE LoadStatus(w)
  <2> DEFINE j == [job[w] EXCEPT !.pc = "store", !.seen = profile[job[w].owner]]
  <2>1. JobFits(j) /\ j.pc = "store"
    BY <1>1, <1>8 DEF LoadStatus, At, JobFits, Job, Steps, TypeInv, TypeOK, Owner
  <2>2. job' = [job EXCEPT ![w] = j]
    BY <1>8 DEF LoadStatus
  <2>3. JobsFit' /\ RowsStay'
    <3> HIDE DEF j
    <3> QED BY <1>4, <1>8, <2>1, <2>2 DEF LoadStatus, rows
  <2> QED BY <1>8, <2>3, StepTypes DEF LoadStatus, TypeInv, TypeOK, rows, history
<1>9. CASE StoreStatus(w)
  <2> DEFINE approved == job[w].seen # None /\ job[w].seen.status = "APPROVED"
  <2>1. approved \in BOOLEAN
    OBVIOUS
  <2>2. cache' \in [Student -> BOOLEAN \cup {None}]
    <3>1. cache' = [cache EXCEPT ![job[w].owner] = approved]
      BY <1>9 DEF StoreStatus
    <3> HIDE DEF approved
    <3> QED BY <2>1, <3>1 DEF TypeInv, TypeOK
  <2> QED BY <1>2, <1>9, <2>2, StepTypes DEF StoreStatus, TypeInv, TypeOK, history
<1>10. CASE StoreDocument(w)
  <2>1. job[w].owner \in Owner /\ job[w].seen \in DocType
    BY <1>1, <1>10 DEF StoreDocument, At, JobFits
  <2>2. PICK i \in FreshKey :
          /\ doc' = [doc EXCEPT ![i] = [owner |-> job[w].owner, type |-> job[w].seen,
                                        file |-> TRUE, scan |-> "none", answer |-> "none"]]
          /\ job' = [job EXCEPT ![w].pc = "enqueue", ![w].doc = i]
    BY <1>10 DEF StoreDocument
  <2>3. doc' \in [DocId -> Document \cup {None}]
    BY <2>1, <2>2 DEF TypeInv, TypeOK, Document
  <2> DEFINE j == [job[w] EXCEPT !.pc = "enqueue", !.doc = i]
  <2>4. JobFits(j) /\ j.pc = "enqueue"
    BY <1>1, <2>1 DEF FreshKey, JobFits, Job, Steps, Owner
  <2>5. job' = [job EXCEPT ![w] = j]
    BY <2>2
  <2>6. JobsFit' /\ RowsStay'
    <3> HIDE DEF j
    <3> QED BY <1>4, <1>10, <2>4, <2>5 DEF StoreDocument
  <2> QED BY <1>10, <2>3, <2>6, StepTypes DEF StoreDocument, TypeInv, TypeOK, history
<1>11. ASSUME NEW i, NEW scan \in BOOLEAN, NEW answer \in {"ok", "error"},
              Answer(i, scan, answer)
       PROVE  doc' \in [DocId -> Document \cup {None}]
  <2>1. CASE i \in DocId /\ doc[i] # None
    <3> DEFINE new == [doc[i] EXCEPT !.scan = IF scan THEN "queued" ELSE doc[i].scan,
                                     !.answer = answer]
    <3>1. doc[i] \in Document
      BY <2>1 DEF TypeInv, TypeOK
    <3>2. (IF scan THEN "queued" ELSE doc[i].scan) \in {"none", "queued", "CLEAN", "ERROR"}
      BY <3>1 DEF Document
    <3>3. new \in Document
      BY <3>1, <3>2 DEF Document
    <3>4. doc' = [doc EXCEPT ![i] = new]
      BY <1>11, <2>1 DEF Answer
    <3> HIDE DEF new
    <3> QED BY <3>3, <3>4 DEF TypeInv, TypeOK
  <2>2. CASE ~(i \in DocId /\ doc[i] # None)
    BY <1>11, <2>2 DEF Answer, TypeInv, TypeOK
  <2> QED BY <2>1, <2>2
<1>12. CASE RefuseFile(w)
  BY <1>2, <1>12, StepTypes DEF RefuseFile, TypeInv, TypeOK, rows, history
<1>13. CASE SendScan(w)
  BY <1>2, <1>11, <1>13, StepTypes DEF SendScan, TypeInv, TypeOK, history
<1>14. CASE SendRaises(w)
  <2>1. JobFits([job[w] EXCEPT !.pc = "again"])
    BY <1>1, <1>14 DEF SendRaises, At, JobFits, Job, Steps
  <2> QED BY <1>0, <1>3, <1>14, <2>1, StepTypes DEF SendRaises, TypeInv, TypeOK, rows, history
<1>15. CASE SendRaisesAgain(w)
  BY <1>0, <1>2, <1>11, <1>15, StepTypes DEF SendRaisesAgain, TypeInv, TypeOK, history
<1>16. CASE DeleteRow(w)
  <2>1. doc' \in [DocId -> Document \cup {None}]
    BY <1>16 DEF DeleteRow, TypeInv, TypeOK
  <2> QED BY <1>2, <1>16, <2>1, StepTypes DEF DeleteRow, TypeInv, TypeOK, history
<1>17. CASE Crash(w)
  BY <1>0, <1>2, <1>17, StepTypes DEF Crash, TypeInv, TypeOK, rows, history
<1>18. CASE WriteAudit(w)
  <2>1. audit' \subseteq AuditLog
    BY <1>1, <1>18 DEF WriteAudit, At, JobFits, AuditLog, TypeInv, TypeOK
  <2> QED BY <1>2, <1>18, <2>1, StepTypes DEF WriteAudit, TypeInv, TypeOK, history
<1> QED BY <1>5, <1>6, <1>7, <1>8, <1>9, <1>10, <1>12, <1>13, <1>14, <1>15, <1>16, <1>17,
           <1>18

\* Requests that begin by writing, and what needs no request.
LEMMA GlobalStepsType ==
  ASSUME TypeInv,
         \/ \E w \in Worker : \/ \E i \in DocId : DeleteFile(w, i)
                              \/ \E o \in Owner : Deactivate(w, o)
         \/ \E s \in Student : StatusExpires(s)
         \/ \E i \in DocId : ScanDocument(i)
  PROVE  TypeInv'
<1>1. ASSUME NEW w \in Worker, NEW i \in DocId, DeleteFile(w, i) PROVE TypeInv'
  <2>1. doc[i] \in Document /\ doc[i].owner \in Company
    BY <1>1 DEF DeleteFile, TypeInv, TypeOK, Document
  <2>2. doc' \in [DocId -> Document \cup {None}]
    BY <1>1, <2>1 DEF DeleteFile, TypeInv, TypeOK, Document
  <2>3. JobFits([pc |-> "delete", owner |-> doc[i].owner, seen |-> None, doc |-> i,
                 deed |-> None])
    BY <2>1 DEF JobFits, Job, Steps, Owner
  <2>4. JobsFit'
    BY <1>1, <2>3, BeginFits DEF DeleteFile, TypeInv
  <2>5. RowsStay'
    BY <1>1 DEF DeleteFile, Begin, TypeInv, RowsStay, JobsFit
  <2> QED BY <1>1, <2>2, <2>4, <2>5, StepTypes DEF DeleteFile, TypeInv, TypeOK, history
<1>2. ASSUME UNCHANGED job PROVE JobsFit'
  BY <1>2 DEF TypeInv, JobsFit
<1>3. ASSUME UNCHANGED <<profile, job>> PROVE RowsStay'
  BY <1>3 DEF TypeInv, RowsStay
<1>4. ASSUME NEW w \in Worker, NEW o \in Owner, Deactivate(w, o) PROVE TypeInv'
  <2>1. JobFits([pc |-> "audit", owner |-> o, seen |-> None, doc |-> None,
                 deed |-> "deactivated"])
    BY DEF JobFits, Job, Steps, Deed
  <2>2. JobsFit'
    BY <1>4, <2>1, BeginFits DEF Deactivate, TypeInv
  <2>3. RowsStay'
    BY <1>4 DEF Deactivate, Begin, TypeInv, RowsStay, JobsFit
  <2>4. active' \in [Owner -> BOOLEAN]
    BY <1>4 DEF Deactivate, TypeInv, TypeOK
  <2> QED BY <1>4, <2>2, <2>3, <2>4, StepTypes DEF Deactivate, TypeInv, TypeOK, history
<1>5. ASSUME NEW s \in Student, StatusExpires(s) PROVE TypeInv'
  BY <1>2, <1>3, <1>5, StepTypes DEF StatusExpires, TypeInv, TypeOK, history
<1>6. ASSUME NEW i \in DocId, ScanDocument(i) PROVE TypeInv'
  <2>1. doc' \in [DocId -> Document \cup {None}]
    BY <1>6 DEF ScanDocument, TypeInv, TypeOK, Document
  <2> QED BY <1>2, <1>3, <1>6, <2>1, StepTypes DEF ScanDocument, TypeInv, TypeOK, history
<1> QED BY <1>1, <1>4, <1>5, <1>6

LEMMA TypeStep == TypeInv /\ [Next]_vars => TypeInv'
<1> SUFFICES ASSUME TypeInv, [Next]_vars PROVE TypeInv'
  OBVIOUS
<1>1. CASE UNCHANGED vars
  <2>1. JobsFit' /\ RowsStay'
    BY <1>1 DEF vars, TypeInv, JobsFit, RowsStay
  <2> QED BY <1>1, <2>1, StepTypes DEF vars, TypeInv, TypeOK
<1>2. CASE Next
  BY <1>2, BeginningsType, ProfileStepsType, OtherStepsType, GlobalStepsType
     DEF Next, StudentEdit, CompanyEdit, Owner
<1> QED BY <1>1, <1>2

\* Profiles, documents, the cached status and requests in progress always hold
\* values of the kinds the code writes.
THEOREM VerificationTypeCorrect == Spec => []TypeOK
<1>1. TypeInv => TypeOK
  BY DEF TypeInv
<1> QED BY <1>1, TypeInit, TypeStep, PTL DEF Spec

-----------------------------------------------------------------------------
(* Approvals were vetted: what a request has read, or has checked, bounds what *)
(* it may write or be granted later                                            *)

Vetted(shown, o) == o \in Company /\ shown # None /\ shown.status = "APPROVED" => o \in vetted

VetInv ==
  /\ \A o \in Owner : Vetted(profile[o], o)
  /\ \A w \in Worker :
       /\ job[w].pc \in {"edit", "post"} => Vetted(job[w].seen, job[w].owner)
       /\ job[w].pc = "save" => job[w].owner \in vetted
  /\ posted \subseteq vetted

LEMMA VetInit == Init => VetInv
BY DEF Init, VetInv, Vetted, Idle

LEMMA VettedNew == ASSUME NEW o PROVE Vetted(NewProfile(o), o)
BY VerificationAssumption DEF Vetted, NewProfile

\* A step that approves and admits nobody, and after which requests have read
\* what they had read before, or the rows of now.
LEMMA VetKept ==
  ASSUME TypeInv, VetInv, vetted \subseteq vetted', posted' = posted,
         \A o \in Owner : Vetted(profile'[o], o),
         \A v \in Worker :
           \/ job'[v] = job[v]
           \/ job'[v].pc \notin {"edit", "post", "save"}
           \/ job'[v].pc \in {"edit", "post"} /\ job'[v].seen = profile[job'[v].owner]
                /\ job'[v].owner \in Owner
           \/ job'[v].pc = "save" /\ job'[v].owner \in vetted'
  PROVE  VetInv'
BY DEF VetInv, Vetted

LEMMA VetStep == TypeInv /\ VetInv /\ [Next]_vars => VetInv'
<1> SUFFICES ASSUME TypeInv, VetInv, [Next]_vars PROVE VetInv'
  OBVIOUS
<1>1. \A o \in Owner : Vetted(profile[o], o)
  BY DEF VetInv
<1>2. \A v \in Worker : DOMAIN job = Worker /\ job[v] \in Job
  BY DEF TypeInv, JobsFit, JobFits
<1>3. ASSUME NEW w \in Worker, End(w) PROVE \A v \in Worker : job'[v] = job[v] \/ job'[v].pc = "idle"
  BY <1>2, <1>3 DEF End, Idle
<1>4. ASSUME NEW w \in Worker, NEW pc, Goto(w, pc)
      PROVE  \A v \in Worker : job'[v] = job[v] \/ (v = w /\ job'[v].pc = pc /\ job'[v].owner = job[v].owner)
  BY <1>2, <1>4 DEF Goto, Job
<1>5. ASSUME NEW w \in Worker, NEW pc, NEW o, NEW seen, NEW i, NEW deed,
             Begin(w, pc, o, seen, i, deed)
      PROVE  \A v \in Worker : job'[v] = job[v] \/
               (job'[v].pc = pc /\ job'[v].owner = o /\ job'[v].seen = seen)
  BY <1>2, <1>5 DEF Begin
<1>6. ASSUME NEW w \in Worker, Saved(w)
      PROVE  \A v \in Worker : job'[v] = job[v] \/ job'[v].pc \in {"idle", "invalidate", "audit"}
  BY <1>3, <1>4, <1>6 DEF Saved, Recorded
<1>7. ASSUME UNCHANGED <<profile, vetted, posted>>,
             \A v \in Worker :
               \/ job'[v] = job[v]
               \/ job'[v].pc \notin {"edit", "post", "save"}
               \/ job'[v].pc \in {"edit", "post"} /\ job'[v].seen = profile[job'[v].owner]
                    /\ job'[v].owner \in Owner
      PROVE  VetInv'
  BY <1>1, <1>7, VetKept
<1>8. CASE UNCHANGED vars
  BY <1>7, <1>8 DEF vars
<1>9. ASSUME NEW w \in Worker, NEW o \in Owner, StartEdit(w, o) \/ ConsoleEdit(w, o)
      PROVE  VetInv'
  BY <1>5, <1>7, <1>9 DEF StartEdit, ConsoleEdit, rows, history
<1>10. ASSUME NEW w \in Worker, NEW o \in Owner, NEW d \in {"approve", "reject"},
              BeginReview(w, o, d)
       PROVE  VetInv'
  <2>1. Begin(w, d, o, profile[o], None, IF d = "approve" THEN "APPROVED" ELSE "REJECTED")
    BY <1>10 DEF BeginReview
  <2>2. \A v \in Worker : job'[v] = job[v] \/ job'[v].pc = d
    BY <1>5, <2>1
  <2> QED BY <1>7, <1>10, <2>2 DEF BeginReview, rows, history
<1>11. ASSUME NEW w \in Worker, NEW c \in Company, StartPost(w, c) PROVE VetInv'
  BY <1>5, <1>7, <1>11 DEF StartPost, rows, history, Owner
<1>12. ASSUME NEW w \in Worker, NEW o \in Owner, NEW type \in DocType,
              StartUpload(w, o, type) \/ StudentUpload(w, o, type)
       PROVE  VetInv'
  BY <1>5, <1>7, <1>12 DEF StartUpload, StudentUpload, rows, history
<1>13. ASSUME NEW w \in Worker, NEW s \in Student, OpenMarketplace(w, s) PROVE VetInv'
  BY <1>5, <1>7, <1>13 DEF OpenMarketplace, rows, history
<1>14. ASSUME NEW w \in Worker, SaveEdit(w) PROVE VetInv'
  <2> DEFINE o == job[w].owner
             read == IF job[w].seen = None THEN NewProfile(o) ELSE job[w].seen
             new == [read EXCEPT !.data = edits + 1]
  <2>1. o \in Owner /\ (job[w].seen # None => job[w].seen \in Profile)
        /\ Vetted(job[w].seen, o)
    BY <1>14 DEF SaveEdit, At, TypeInv, JobsFit, JobFits, VetInv
  <2>2. CASE job[w].seen = None /\ profile[o] # None
    BY <1>3, <1>7, <1>14, <2>2 DEF SaveEdit
  <2>3. CASE ~(job[w].seen = None /\ profile[o] # None)
    <3>1. /\ profile' = [profile EXCEPT ![o] = new]
          /\ Saved(w) /\ vetted' = vetted /\ posted' = posted
      BY <1>14, <2>3 DEF SaveEdit
    <3>2. Vetted(read, o) /\ new.status = read.status /\ read # None
      <4>1. read \in Profile
        BY <2>1, VerificationAssumption DEF NewProfile, Profile
      <4>2. new.status = read.status
        BY <4>1 DEF Profile
      <4>3. Vetted(read, o)
        <5> HIDE DEF o
        <5> QED BY <2>1, VettedNew
      <4> QED BY <4>1, <4>2, <4>3, VerificationAssumption
    <3>3. Vetted(new, o)
      <4> HIDE DEF new, read
      <4> QED BY <3>2 DEF Vetted
    <3>4. \A x \in Owner : Vetted(profile'[x], x)
      <4> HIDE DEF new
      <4> QED BY <1>1, <2>1, <3>1, <3>3 DEF TypeInv, TypeOK
    <3> QED BY <1>6, <3>1, <3>4, VetKept
  <2> QED BY <2>2, <2>3
<1>15. ASSUME NEW w \in Worker, Invalidate(w) PROVE VetInv'
  BY <1>3, <1>4, <1>7, <1>15 DEF Invalidate, Recorded, history
<1>16. ASSUME NEW w \in Worker, CheckDocuments(w) PROVE VetInv'
  <2>1. vetted \subseteq vetted' /\ UNCHANGED <<profile, posted>>
    BY <1>16 DEF CheckDocuments, rows
  <2>2. \A o \in Owner : Vetted(profile'[o], o)
    BY <1>1, <2>1
  <2>3. \A v \in Worker : \/ job'[v] = job[v]
                          \/ job'[v].pc = "idle"
                          \/ job'[v].pc = "save" /\ job'[v].owner \in vetted'
    BY <1>3, <1>4, <1>16 DEF CheckDocuments
  <2> QED BY <2>1, <2>2, <2>3, VetKept
<1>17. ASSUME NEW w \in Worker, SaveApproval(w) PROVE VetInv'
  <2>1. job[w].owner \in vetted /\ job[w].owner \in Owner
    BY <1>17 DEF SaveApproval, At, VetInv, TypeInv, JobsFit, JobFits
  <2>2. \A x \in Owner : Vetted(profile'[x], x)
    BY <1>1, <1>17, <2>1 DEF SaveApproval, Reviewed, Vetted, TypeInv, TypeOK, history
  <2> QED BY <1>6, <1>17, <2>2, VetKept DEF SaveApproval, history
<1>18. ASSUME NEW o \in Owner, profile[o] \in Profile,
              profile'[o].status = "REJECTED", \A x \in Owner \ {o} : profile'[x] = profile[x]
       PROVE  \A x \in Owner : Vetted(profile'[x], x)
  BY <1>1, <1>18 DEF Vetted
<1>19. ASSUME NEW w \in Worker, SaveRejection(w) PROVE VetInv'
  <2> DEFINE o == job[w].owner
  <2>1. o \in Owner /\ profile[o] \in Profile
    BY <1>19 DEF SaveRejection, At, TypeInv, TypeOK, RowsStay, JobsFit, JobFits
  <2>2. profile'[o].status = "REJECTED" /\ \A x \in Owner \ {o} : profile'[x] = profile[x]
    BY <1>19, <2>1 DEF SaveRejection, Reviewed, TypeInv, TypeOK, Profile
  <2>3. \A x \in Owner : Vetted(profile'[x], x)
    <3> HIDE DEF o
    <3> QED BY <1>18, <2>1, <2>2
  <2> QED BY <1>6, <1>19, <2>3, VetKept DEF SaveRejection, history
<1>20. ASSUME NEW w \in Worker, NEW o \in Owner, Deactivate(w, o) PROVE VetInv'
  <2>1. \A v \in Worker : job'[v] = job[v] \/ job'[v].pc = "audit"
    BY <1>5, <1>20 DEF Deactivate
  <2> QED BY <1>7, <1>20, <2>1 DEF Deactivate, history
<1>21. ASSUME NEW w \in Worker, RequireApproved(w) PROVE VetInv'
  <2>1. job[w].owner \in Company /\ job[w].seen \in Profile /\ Vetted(job[w].seen, job[w].owner)
    BY <1>21 DEF RequireApproved, At, TypeInv, JobsFit, JobFits, VetInv
  <2>2. posted' \subseteq vetted
    BY <1>21, <2>1, VerificationAssumption DEF RequireApproved, Vetted, VetInv
  <2>3. UNCHANGED <<profile, vetted>> /\ \A v \in Worker : job'[v] = job[v] \/ job'[v].pc = "idle"
    BY <1>3, <1>21 DEF RequireApproved, rows
  <2> QED BY <2>2, <2>3 DEF VetInv, Vetted
<1>22. ASSUME NEW w \in Worker, LoadStatus(w) \/ StoreDocument(w) PROVE VetInv'
  <2>1. \A v \in Worker : job'[v] = job[v] \/ job'[v].pc \in {"store", "enqueue"}
    BY <1>2, <1>22 DEF LoadStatus, StoreDocument, Job
  <2> QED BY <1>7, <1>22, <2>1 DEF LoadStatus, StoreDocument, rows, history
<1>23. ASSUME NEW w \in Worker,
              \/ StoreStatus(w) \/ RefuseFile(w) \/ SendScan(w) \/ SendRaisesAgain(w)
              \/ DeleteRow(w) \/ WriteAudit(w) \/ Crash(w)
       PROVE  VetInv'
  <2>1. End(w) /\ UNCHANGED <<profile, vetted, posted>>
    BY <1>23 DEF StoreStatus, RefuseFile, SendScan, SendRaisesAgain, DeleteRow, WriteAudit,
                 Crash, rows, history
  <2> QED BY <1>3, <1>7, <2>1
<1>24. ASSUME NEW w \in Worker, SendRaises(w) PROVE VetInv'
  BY <1>4, <1>7, <1>24 DEF SendRaises, rows, history
<1>25. ASSUME NEW w \in Worker, NEW i \in DocId, DeleteFile(w, i) PROVE VetInv'
  <2>1. Begin(w, "delete", doc[i].owner, None, i, None)
    BY <1>25 DEF DeleteFile
  <2>2. \A v \in Worker : job'[v] = job[v] \/ job'[v].pc = "delete"
    BY <1>5, <2>1
  <2> QED BY <1>7, <1>25, <2>2 DEF DeleteFile, history
<1>26. ASSUME UNCHANGED <<profile, job, vetted, posted>> PROVE VetInv'
  BY <1>7, <1>26
<1>27. CASE \/ \E s \in Student : StatusExpires(s)
            \/ \E i \in DocId : ScanDocument(i)
  BY <1>26, <1>27 DEF StatusExpires, ScanDocument, history
<1>28. CASE Next
  BY <1>9, <1>10, <1>11, <1>12, <1>13, <1>14, <1>15, <1>16, <1>17, <1>19, <1>20, <1>21,
     <1>22, <1>23, <1>24, <1>25, <1>27, <1>28
  DEF Next, StudentEdit, CompanyEdit, StudentReview, CompanyReview, Owner
<1> QED BY <1>8, <1>28

\* However edits, reviews and deletions of documents interleave, an approved
\* company was approved with its documents there.
THEOREM ApprovalsAreVetted == Spec => []ApprovedWasVetted
<1>1. VetInv /\ TypeInv => ApprovedWasVetted
  BY DEF VetInv, Vetted, ApprovedWasVetted, Owner
<1> QED BY <1>1, TypeInit, TypeStep, VetInit, VetStep, PTL DEF Spec

\* Only such a company was ever let in to post a slot.
THEOREM PostingIsVetted == Spec => []PostedWasVetted
<1>1. VetInv => PostedWasVetted
  BY DEF VetInv, PostedWasVetted
<1> QED BY <1>1, TypeInit, TypeStep, VetInit, VetStep, PTL DEF Spec

-----------------------------------------------------------------------------
(* Edits, decisions and answers: what every single step keeps              *)

Whole(shown) == shown # None => /\ shown.reason <=> shown.status = "REJECTED"
                                /\ shown.reason => shown.reviewed

\* What an edit has read was whole too, and comes back with its save.
ContentInv ==
  /\ NoEditIsLost /\ ReviewIsWhole /\ AnsweredMeansQueued
  /\ \A w \in Worker : job[w].pc = "edit" => Whole(job[w].seen)

LEMMA ContentInit == Init => ContentInv
BY DEF Init, ContentInv, NoEditIsLost, ReviewIsWhole, AnsweredMeansQueued, Idle

\* Steps that leave the rows of profiles alone.
LEMMA ContentKept ==
  ASSUME TypeInv, ContentInv, UNCHANGED <<profile, edited>>, AnsweredMeansQueued',
         \A v \in Worker :
           \/ job'[v] = job[v]
           \/ job'[v].pc # "edit"
           \/ job'[v].owner \in Owner /\ job'[v].seen = profile[job'[v].owner]
  PROVE  ContentInv'
BY DEF ContentInv, NoEditIsLost, ReviewIsWhole, Whole

\* Steps that change the row of one profile into a whole one with its last edit.
LEMMA ContentSaved ==
  ASSUME TypeInv, ContentInv, NEW o \in Owner, UNCHANGED doc,
         profile'[o] # None => profile'[o].data = edited'[o] /\ Whole(profile'[o]),
         \A x \in Owner \ {o} : profile'[x] = profile[x] /\ edited'[x] = edited[x],
         \A v \in Worker : job'[v] = job[v] \/ job'[v].pc # "edit"
  PROVE  ContentInv'
BY DEF ContentInv, NoEditIsLost, ReviewIsWhole, AnsweredMeansQueued, Whole

\* A decision on a row writes all columns of the review and keeps the edit.
LEMMA DecisionIsWhole ==
  ASSUME TypeInv, ContentInv, NEW o \in Owner, NEW status \in {"APPROVED", "REJECTED"},
         profile[o] # None,
         profile' = [profile EXCEPT ![o] = [@ EXCEPT !.status = status,
                                                     !.reason = status = "REJECTED",
                                                     !.reviewed = TRUE]]
  PROVE  /\ profile'[o].data = profile[o].data
         /\ Whole(profile'[o])
         /\ \A x \in Owner \ {o} : profile'[x] = profile[x]
<1>1. profile[o] \in Profile /\ DOMAIN profile = Owner
  BY DEF TypeInv, TypeOK
<1>2. profile'[o] = [profile[o] EXCEPT !.status = status, !.reason = status = "REJECTED",
                                       !.reviewed = TRUE]
  BY <1>1
<1>3. /\ profile'[o].data = profile[o].data /\ profile'[o].status = status
      /\ profile'[o].reason <=> status = "REJECTED"
      /\ profile'[o].reviewed
  BY <1>1, <1>2 DEF Profile
<1>4. \A x \in Owner \ {o} : profile'[x] = profile[x]
  BY <1>1
<1> QED BY <1>3, <1>4 DEF Whole

LEMMA ContentStep == TypeInv /\ ContentInv /\ [Next]_vars => ContentInv'
<1> SUFFICES ASSUME TypeInv, ContentInv, [Next]_vars PROVE ContentInv'
  OBVIOUS
<1>1. AnsweredMeansQueued /\ NoEditIsLost
  BY DEF ContentInv
<1>2. \A v \in Worker : DOMAIN job = Worker /\ job[v] \in Job
  BY DEF TypeInv, JobsFit, JobFits
<1>3. ASSUME NEW w \in Worker, End(w) PROVE \A v \in Worker : job'[v] = job[v] \/ job'[v].pc # "edit"
  BY <1>2, <1>3 DEF End, Idle
<1>4. ASSUME NEW w \in Worker, NEW pc, pc # "edit", Goto(w, pc)
      PROVE  \A v \in Worker : job'[v] = job[v] \/ job'[v].pc # "edit"
  BY <1>2, <1>4 DEF Goto, Job
<1>5. ASSUME NEW w \in Worker, NEW pc, NEW o, NEW seen, NEW i, NEW deed,
             Begin(w, pc, o, seen, i, deed)
      PROVE  \A v \in Worker : job'[v] = job[v] \/
               (job'[v].pc = pc /\ job'[v].owner = o /\ job'[v].seen = seen)
  BY <1>2, <1>5 DEF Begin
<1>6. ASSUME NEW w \in Worker, Saved(w)
      PROVE  \A v \in Worker : job'[v] = job[v] \/ job'[v].pc # "edit"
  BY <1>3, <1>4, <1>6 DEF Saved, Recorded
<1>7. ASSUME UNCHANGED doc PROVE AnsweredMeansQueued'
  BY <1>1, <1>7 DEF AnsweredMeansQueued
<1>8. CASE UNCHANGED vars
  BY <1>7, <1>8, ContentKept DEF vars
<1>9. ASSUME NEW w \in Worker, NEW o \in Owner, StartEdit(w, o) \/ ConsoleEdit(w, o)
      PROVE  ContentInv'
  BY <1>5, <1>7, <1>9, ContentKept DEF StartEdit, ConsoleEdit, rows, history
<1>10. ASSUME NEW w \in Worker, NEW o \in Owner, NEW d \in {"approve", "reject"},
              BeginReview(w, o, d)
       PROVE  ContentInv'
  <2>1. \A v \in Worker : job'[v] = job[v] \/ job'[v].pc # "edit"
    BY <1>5, <1>10 DEF BeginReview
  <2> QED BY <1>7, <1>10, <2>1, ContentKept DEF BeginReview, rows, history
<1>11. ASSUME NEW w \in Worker, NEW c, StartPost(w, c) PROVE ContentInv'
  BY <1>5, <1>7, <1>11, ContentKept DEF StartPost, rows, history
<1>12. ASSUME NEW w \in Worker, NEW o, NEW type,
              StartUpload(w, o, type) \/ StudentUpload(w, o, type)
       PROVE  ContentInv'
  BY <1>5, <1>7, <1>12, ContentKept DEF StartUpload, StudentUpload, rows, history
<1>13. ASSUME NEW w \in Worker, NEW s, OpenMarketplace(w, s) PROVE ContentInv'
  BY <1>5, <1>7, <1>13, ContentKept DEF OpenMarketplace, rows, history
<1>14. ASSUME NEW w \in Worker, SaveEdit(w) PROVE ContentInv'
  <2> DEFINE o == job[w].owner
             read == IF job[w].seen = None THEN NewProfile(o) ELSE job[w].seen
             new == [read EXCEPT !.data = edits + 1]
  <2>1. o \in Owner /\ (job[w].seen # None => job[w].seen \in Profile)
        /\ Whole(job[w].seen)
    BY <1>14 DEF SaveEdit, At, TypeInv, JobsFit, JobFits, ContentInv
  <2>2. CASE job[w].seen = None /\ profile[o] # None
    BY <1>3, <1>7, <1>14, <2>2, ContentKept DEF SaveEdit
  <2>3. CASE ~(job[w].seen = None /\ profile[o] # None)
    <3>1. /\ profile' = [profile EXCEPT ![o] = new]
          /\ edited' = [edited EXCEPT ![o] = edits + 1]
          /\ Saved(w) /\ doc' = doc
      BY <1>14, <2>3 DEF SaveEdit
    <3>2. read \in Profile /\ Whole(read)
      BY <2>1, VerificationAssumption DEF NewProfile, Profile, Whole
    <3>3. Whole(new) /\ new.data = edits + 1
      <4> HIDE DEF read
      <4> QED BY <3>2, VerificationAssumption DEF Whole, Profile
    <3>4. /\ profile'[o] = new /\ edited'[o] = edits + 1
          /\ \A x \in Owner \ {o} : profile'[x] = profile[x] /\ edited'[x] = edited[x]
      <4> HIDE DEF new
      <4> QED BY <2>1, <3>1 DEF TypeInv, TypeOK
    <3> HIDE DEF new, o
    <3> QED BY <1>6, <2>1, <3>1, <3>3, <3>4, ContentSaved
  <2> QED BY <2>2, <2>3
<1>15. ASSUME NEW w \in Worker,
              \/ Invalidate(w) \/ RequireApproved(w) \/ StoreStatus(w) \/ RefuseFile(w)
              \/ WriteAudit(w) \/ Crash(w)
       PROVE  ContentInv'
  <2>1. (End(w) \/ Goto(w, "audit")) /\ UNCHANGED <<profile, edited, doc>>
    BY <1>15 DEF Invalidate, Recorded, RequireApproved, StoreStatus, RefuseFile,
                 WriteAudit, Crash, rows, history
  <2> QED BY <1>3, <1>4, <1>7, <2>1, ContentKept
<1>16. ASSUME NEW w \in Worker, CheckDocuments(w) PROVE ContentInv'
  BY <1>3, <1>4, <1>7, <1>16, ContentKept DEF CheckDocuments, rows
<1>17. ASSUME NEW w \in Worker, NEW status \in {"APPROVED", "REJECTED"},
              job[w].owner \in Owner, profile[job[w].owner] # None,
              Reviewed(w, status), Saved(w), UNCHANGED <<doc, edited>>
       PROVE  ContentInv'
  <2> DEFINE o == job[w].owner
  <2>1. o \in Owner /\ profile[o] # None
    BY <1>17
  <2>2. profile' = [profile EXCEPT ![o] = [@ EXCEPT !.status = status,
                                                     !.reason = status = "REJECTED",
                                                     !.reviewed = TRUE]]
    BY <1>17 DEF Reviewed
  <2>3. \A v \in Worker : job'[v] = job[v] \/ job'[v].pc # "edit"
    BY <1>6, <1>17
  <2> HIDE DEF o
  <2>4. /\ profile'[o].data = profile[o].data
        /\ Whole(profile'[o])
        /\ \A x \in Owner \ {o} : profile'[x] = profile[x]
    BY <2>1, <2>2, DecisionIsWhole
  <2>5. profile[o].data = edited[o]
    BY <1>1, <2>1 DEF NoEditIsLost
  <2> QED BY <1>17, <2>1, <2>3, <2>4, <2>5, ContentSaved
<1>18. ASSUME NEW w \in Worker, SaveApproval(w) \/ SaveRejection(w) PROVE ContentInv'
  <2>1. job[w].owner \in Owner /\ profile[job[w].owner] # None
    BY <1>18 DEF SaveApproval, SaveRejection, At, TypeInv, RowsStay, JobsFit, JobFits
  <2> QED BY <1>17, <1>18, <2>1 DEF SaveApproval, SaveRejection, history
<1>19. ASSUME NEW w \in Worker, NEW o \in Owner, Deactivate(w, o) PROVE ContentInv'
  <2>1. \A v \in Worker : job'[v] = job[v] \/ job'[v].pc = "audit"
    BY <1>5, <1>19 DEF Deactivate
  <2> QED BY <1>7, <1>19, <2>1, ContentKept DEF Deactivate, history
<1>20. ASSUME NEW w \in Worker, LoadStatus(w) PROVE ContentInv'
  <2>1. \A v \in Worker : job'[v] = job[v] \/ job'[v].pc # "edit"
    BY <1>2, <1>20 DEF LoadStatus, Job
  <2> QED BY <1>7, <1>20, <2>1, ContentKept DEF LoadStatus, rows, history
<1>21. ASSUME NEW w \in Worker, StoreDocument(w) PROVE ContentInv'
  <2>1. \A v \in Worker : job'[v] = job[v] \/ job'[v].pc # "edit"
    BY <1>2, <1>21 DEF StoreDocument, Job
  <2>2. PICK i \in FreshKey :
          doc' = [doc EXCEPT ![i] = [owner |-> job[w].owner, type |-> job[w].seen,
                                     file |-> TRUE, scan |-> "none", answer |-> "none"]]
    BY <1>21 DEF StoreDocument
  <2>3. AnsweredMeansQueued'
    BY <1>1, <2>2 DEF AnsweredMeansQueued, TypeInv, TypeOK
  <2> QED BY <1>21, <2>1, <2>3, ContentKept DEF StoreDocument, history
<1>22. ASSUME NEW w \in Worker, SendScan(w) PROVE ContentInv'
  <2>1. AnsweredMeansQueued'
    BY <1>1, <1>22 DEF SendScan, Answer, AnsweredMeansQueued, TypeInv, TypeOK, Document
  <2> QED BY <1>3, <1>22, <2>1, ContentKept DEF SendScan, history
<1>23. ASSUME NEW w \in Worker, SendRaises(w) PROVE ContentInv'
  BY <1>4, <1>7, <1>23, ContentKept DEF SendRaises, rows, history
<1>24. ASSUME NEW w \in Worker, SendRaisesAgain(w) PROVE ContentInv'
  <2>1. AnsweredMeansQueued'
    BY <1>1, <1>24 DEF SendRaisesAgain, Answer, AnsweredMeansQueued, TypeInv, TypeOK, Document
  <2> QED BY <1>3, <1>24, <2>1, ContentKept DEF SendRaisesAgain, history
<1>25. ASSUME NEW w \in Worker, NEW i \in DocId, DeleteFile(w, i) PROVE ContentInv'
  <2>1. AnsweredMeansQueued'
    BY <1>1, <1>25 DEF DeleteFile, AnsweredMeansQueued, TypeInv, TypeOK, Document
  <2>2. Begin(w, "delete", doc[i].owner, None, i, None)
    BY <1>25 DEF DeleteFile
  <2>3. \A v \in Worker : job'[v] = job[v] \/ job'[v].pc = "delete"
    BY <1>5, <2>2
  <2> QED BY <1>25, <2>1, <2>3, ContentKept DEF DeleteFile, history
<1>26. ASSUME NEW w \in Worker, DeleteRow(w) PROVE ContentInv'
  <2>1. AnsweredMeansQueued'
    BY <1>1, <1>26 DEF DeleteRow, AnsweredMeansQueued, TypeInv, TypeOK
  <2> QED BY <1>3, <1>26, <2>1, ContentKept DEF DeleteRow, history
<1>27. ASSUME NEW i \in DocId, ScanDocument(i) PROVE ContentInv'
  <2>1. AnsweredMeansQueued'
    BY <1>1, <1>27 DEF ScanDocument, AnsweredMeansQueued, TypeInv, TypeOK, Document
  <2> QED BY <1>27, <2>1, ContentKept DEF ScanDocument, history
<1>28. CASE \E s \in Student : StatusExpires(s)
  BY <1>7, <1>28, ContentKept DEF StatusExpires, history
<1>29. CASE Next
  BY <1>9, <1>10, <1>11, <1>12, <1>13, <1>14, <1>15, <1>16, <1>18, <1>19, <1>20, <1>21,
     <1>22, <1>23, <1>24, <1>25, <1>26, <1>27, <1>28, <1>29
  DEF Next, StudentEdit, CompanyEdit, StudentReview, CompanyReview, Owner
<1> QED BY <1>8, <1>29

\* A review that runs beside an edit of the same profile never undoes it.
THEOREM EditsSurvive == Spec => []NoEditIsLost
<1>1. ContentInv => NoEditIsLost
  BY DEF ContentInv
<1> QED BY <1>1, TypeInit, TypeStep, ContentInit, ContentStep, PTL DEF Spec

\* The columns of a review belong to one decision, whatever stale edits bring
\* back and whoever else decides.
THEOREM DecisionsStayWhole == Spec => []ReviewIsWhole
<1>1. ContentInv => ReviewIsWhole
  BY DEF ContentInv
<1> QED BY <1>1, TypeInit, TypeStep, ContentInit, ContentStep, PTL DEF Spec

\* An uploader who is told so has the scan of the document queued.
THEOREM UploadersAreToldTheTruth == Spec => []AnsweredMeansQueued
<1>1. ContentInv => AnsweredMeansQueued
  BY DEF ContentInv
<1> QED BY <1>1, TypeInit, TypeStep, ContentInit, ContentStep, PTL DEF Spec
-----------------------------------------------------------------------------
(* The audit log: its rows are true, and no decision goes untold            *)

\* What a row of the audit log claims has been done.
Told(e) == /\ e.action = "APPROVED" => e.owner \in vetted
           /\ e.action = "edited" => edited[e.owner] > 0
           /\ e.action = "deactivated" => ~active[e.owner]

EntryOf(j) == [action |-> j.deed, owner |-> j.owner]
Recording == {"invalidate", "audit"}

\* The decision that a row shows is in the log, or about to be.
Logged(action, o) == LET entry == [action |-> action, owner |-> o]
                     IN  entry \in audit \/ Owed(entry)

Shown(seen, o) == seen.reviewed => seen.status \in Deed /\ Logged(seen.status, o)

AuditInv ==
  /\ \A e \in audit : Told(e)
  /\ \A w \in Worker : job[w].pc \in Recording /\ job[w].deed # None => Told(EntryOf(job[w]))
  /\ faults = 0 =>
       /\ \A o \in Owner : profile[o] # None => Shown(profile[o], o)
       /\ \A w \in Worker : job[w].pc = "edit" /\ job[w].seen # None
                              => Shown(job[w].seen, job[w].owner)

LEMMA AuditInit == Init => AuditInv
BY DEF Init, AuditInv, Recording, Idle

\* What has been done stays done.
LEMMA DeedsStay ==
  ASSUME TypeInv, [Next]_vars
  PROVE  /\ vetted \subseteq vetted'
         /\ \A o \in Owner : ~active[o] => ~active'[o]
         /\ \A o \in Owner : edited[o] > 0 => edited'[o] > 0
         /\ audit \subseteq audit'
<1> DEFINE Goal == /\ vetted \subseteq vetted'
                   /\ \A o \in Owner : ~active[o] => ~active'[o]
                   /\ \A o \in Owner : edited[o] > 0 => edited'[o] > 0
                   /\ audit \subseteq audit'
<1>1. CASE UNCHANGED vars  BY <1>1 DEF vars
<1>2. ASSUME NEW w \in Worker, SaveEdit(w) PROVE Goal
  BY <1>2, VerificationAssumption DEF SaveEdit, TypeInv
<1>3. ASSUME NEW w \in Worker, CheckDocuments(w) PROVE Goal
  BY <1>3 DEF CheckDocuments, rows
<1>4. ASSUME NEW w \in Worker, NEW o \in Owner, Deactivate(w, o) PROVE Goal
  BY <1>4 DEF Deactivate, history, TypeInv, TypeOK
<1>5. ASSUME NEW w \in Worker, WriteAudit(w) PROVE Goal
  BY <1>5 DEF WriteAudit, history
<1>6. ASSUME NEW w \in Worker,
             \/ \E o \in Owner : StartEdit(w, o) \/ ConsoleEdit(w, o)
             \/ \E o, d : BeginReview(w, o, d)
             \/ \E o : StartPost(w, o) \/ OpenMarketplace(w, o)
             \/ \E o, type : StartUpload(w, o, type) \/ StudentUpload(w, o, type)
      PROVE  Goal
  BY <1>6 DEF StartEdit, ConsoleEdit, BeginReview, StartPost, OpenMarketplace,
              StartUpload, StudentUpload, rows, history
<1>7. ASSUME NEW w \in Worker,
             \/ Invalidate(w) \/ SaveApproval(w) \/ SaveRejection(w) \/ RequireApproved(w)
             \/ LoadStatus(w) \/ StoreStatus(w) \/ StoreDocument(w) \/ RefuseFile(w)
             \/ SendScan(w) \/ SendRaises(w) \/ SendRaisesAgain(w) \/ DeleteRow(w) \/ Crash(w)
             \/ \E i \in DocId : DeleteFile(w, i)
      PROVE  Goal
  BY <1>7 DEF Invalidate, SaveApproval, SaveRejection, RequireApproved, LoadStatus,
     StoreStatus, StoreDocument, RefuseFile, SendScan, SendRaises, SendRaisesAgain,
     DeleteRow, Crash, DeleteFile, rows, history
<1>8. CASE (\E s \in Student : StatusExpires(s)) \/ \E i \in DocId : ScanDocument(i)
  BY <1>8 DEF StatusExpires, ScanDocument, history
<1> QED BY <1>1, <1>2, <1>3, <1>4, <1>5, <1>6, <1>7, <1>8
        DEF Next, StudentEdit, CompanyEdit, StudentReview, CompanyReview, Owner

LEMMA ToldStays ==
  ASSUME TypeInv, [Next]_vars, NEW e, e.owner \in Owner, Told(e)
  PROVE  Told(e)'
BY DeedsStay DEF Told

\* What a step leaves of the request of v: all of it, or what the audit log
\* still needs, unless it died.
Carried(v) ==
  \/ job'[v] = job[v]
  \/ job[v].pc \notin Recording
  \/ faults' > 0
  \/ /\ job'[v].pc \in Recording
     /\ job'[v].deed = job[v].deed /\ job'[v].owner = job[v].owner
  \/ job[v].deed = None
  \/ EntryOf(job[v]) \in audit'

\* One step takes one request on.
LEMMA RequestCarried ==
  ASSUME TypeInv, [Next]_vars, NEW v \in Worker
  PROVE  Carried(v)
<1>0. DOMAIN job = Worker /\ \A x \in Worker : job[x] \in Job /\ JobFits(job[x])
  BY DEF TypeInv, JobsFit, JobFits
<1>1. CASE UNCHANGED <<job>>  BY <1>1 DEF Carried
<1>2. ASSUME NEW w \in Worker, NEW pc, NEW o, NEW seen, NEW i, NEW deed,
             Begin(w, pc, o, seen, i, deed)
      PROVE  Carried(v)
  BY <1>0, <1>2 DEF Begin, Idle, Carried, Recording
<1>3. ASSUME NEW w \in Worker, job[w].pc \notin Recording, NEW j,
             job' = [job EXCEPT ![w] = j]
      PROVE  Carried(v)
  BY <1>0, <1>3 DEF Carried
<1>4. ASSUME NEW w \in Worker, job[w].pc \notin Recording,
             \/ End(w) \/ Saved(w)
             \/ \E pc : Goto(w, pc)
      PROVE  Carried(v)
  BY <1>3, <1>4 DEF End, Saved, Recorded, Goto
<1>5. ASSUME NEW w \in Worker,
             \/ SaveEdit(w) \/ CheckDocuments(w) \/ SaveApproval(w) \/ SaveRejection(w)
      PROVE  Carried(v)
  BY <1>4, <1>5 DEF SaveEdit, CheckDocuments, SaveApproval, SaveRejection, At, Recording
<1>6. ASSUME NEW w \in Worker,
             \/ RequireApproved(w) \/ StoreStatus(w) \/ RefuseFile(w) \/ SendScan(w)
             \/ SendRaises(w) \/ SendRaisesAgain(w) \/ DeleteRow(w)
      PROVE  Carried(v)
  BY <1>4, <1>6 DEF RequireApproved, StoreStatus, RefuseFile, SendScan, SendRaises,
                    SendRaisesAgain, DeleteRow, At, Recording
<1>7. ASSUME NEW w \in Worker, LoadStatus(w) \/ StoreDocument(w) PROVE Carried(v)
  BY <1>0, <1>7 DEF LoadStatus, StoreDocument, At, Recording, Carried
<1>8. ASSUME NEW w \in Worker, Invalidate(w) PROVE Carried(v)
  <2>1. CASE v # w
    BY <1>0, <1>8, <2>1 DEF Invalidate, Recorded, End, Goto, Carried
  <2>2. CASE v = w /\ job[w].deed # None
    BY <1>0, <1>8, <2>2 DEF Invalidate, Recorded, Goto, Carried, Recording, Job
  <2> QED BY <2>1, <2>2 DEF Carried
<1>9. ASSUME NEW w \in Worker, WriteAudit(w) PROVE Carried(v)
  <2>1. CASE v # w
    BY <1>0, <1>9, <2>1 DEF WriteAudit, End, Carried
  <2>2. CASE v = w
    BY <1>9, <2>2 DEF WriteAudit, EntryOf, Carried
  <2> QED BY <2>1, <2>2
<1>10. ASSUME NEW w \in Worker, Crash(w) PROVE Carried(v)
  BY <1>0, <1>10, VerificationAssumption DEF Crash, TypeInv, Carried
<1>11. ASSUME NEW w \in Worker,
              \/ \E o \in Owner : \/ StartEdit(w, o) \/ ConsoleEdit(w, o) \/ Deactivate(w, o)
              \/ \E o, d : BeginReview(w, o, d)
              \/ \E o : StartPost(w, o) \/ OpenMarketplace(w, o)
              \/ \E o, type : StartUpload(w, o, type) \/ StudentUpload(w, o, type)
              \/ \E i \in DocId : DeleteFile(w, i)
       PROVE  Carried(v)
  BY <1>2, <1>11 DEF StartEdit, ConsoleEdit, Deactivate, BeginReview, StartPost,
     OpenMarketplace, StartUpload, StudentUpload, DeleteFile
<1>12. CASE (\E s \in Student : StatusExpires(s)) \/ \E i \in DocId : ScanDocument(i)
  BY <1>1, <1>12 DEF StatusExpires, ScanDocument
<1>13. CASE UNCHANGED vars  BY <1>1, <1>13 DEF vars
<1> QED BY <1>5, <1>6, <1>7, <1>8, <1>9, <1>10, <1>11, <1>12, <1>13
        DEF Next, StudentEdit, CompanyEdit, StudentReview, CompanyReview, Owner

\* As long as no request died, what is logged or owed stays so.
LEMMA LoggedStays ==
  ASSUME TypeInv, [Next]_vars, faults' = 0, NEW action \in Deed, NEW o, Logged(action, o)
  PROVE  Logged(action, o)'
<1> DEFINE entry == [action |-> action, owner |-> o]
<1>1. CASE entry \in audit
  BY <1>1, DeedsStay DEF Logged
<1>2. CASE Owed(entry)
  <2>1. PICK w \in Worker : /\ job[w].pc \in Recording
                            /\ job[w].deed = action /\ job[w].owner = o
    BY <1>2 DEF Owed, Recording
  <2>2. job[w].deed # None
    BY <2>1, VerificationAssumption
  <2>3. CASE EntryOf(job[w]) \in audit'
    BY <2>1, <2>3 DEF EntryOf, Logged
  <2>4. CASE /\ job'[w].pc \in Recording
             /\ job'[w].deed = job[w].deed /\ job'[w].owner = job[w].owner
    BY <2>1, <2>4 DEF Logged, Owed, Recording
  <2> QED BY <2>1, <2>2, <2>3, <2>4, RequestCarried DEF Carried
<1> QED BY <1>1, <1>2 DEF Logged

\* Who writes the log and the profiles, and how a request comes to have
\* something to record or to save.
Effects(v) ==
  /\ audit' = audit \/ \E w \in Worker : WriteAudit(w)
  /\ profile' = profile
       \/ \E w \in Worker : SaveEdit(w) \/ SaveApproval(w) \/ SaveRejection(w)
  /\ job'[v].pc \in Recording =>
       \/ job'[v] = job[v]
       \/ /\ job[v].pc \in Recording
          /\ job'[v].deed = job[v].deed /\ job'[v].owner = job[v].owner
       \/ /\ SaveEdit(v) \/ SaveApproval(v) \/ SaveRejection(v)
          /\ job'[v].deed = job[v].deed /\ job'[v].owner = job[v].owner
       \/ Deactivate(v, job'[v].owner) /\ job'[v].deed = "deactivated"
  /\ job'[v].pc = "edit" =>
       \/ job'[v] = job[v]
       \/ /\ profile' = profile /\ job'[v].owner \in Owner
          /\ job'[v].seen = profile[job'[v].owner]

LEMMA StepEffects ==
  ASSUME TypeInv, [Next]_vars, NEW v \in Worker
  PROVE  Effects(v)
<1>0. DOMAIN job = Worker /\ \A x \in Worker : job[x] \in Job /\ JobFits(job[x])
  BY DEF TypeInv, JobsFit, JobFits
<1>1. ASSUME UNCHANGED <<job, profile, audit>> PROVE Effects(v)
  BY <1>1 DEF Effects
<1>2. ASSUME NEW w \in Worker, NEW pc, NEW o \in Owner, NEW seen, NEW i, NEW deed,
             Begin(w, pc, o, seen, i, deed), UNCHANGED <<profile, audit>>,
             pc = "edit" => seen = profile[o],
             pc \in Recording => Deactivate(w, o) /\ deed = "deactivated"
      PROVE  Effects(v)
  BY <1>0, <1>2 DEF Begin, Effects
<1>3. ASSUME NEW w \in Worker, NEW j, job' = [job EXCEPT ![w] = j],
             UNCHANGED <<profile, audit>>, j.pc \notin Recording, j.pc # "edit"
      PROVE  Effects(v)
  BY <1>0, <1>3 DEF Effects
<1>e. ASSUME NEW w \in Worker, End(w), UNCHANGED <<profile, audit>> PROVE Effects(v)
  <2>1. Idle.pc \notin Recording /\ Idle.pc # "edit"
    BY DEF Idle, Recording
  <2> QED BY <1>3, <1>e, <2>1 DEF End
<1>4. ASSUME NEW w \in Worker, SaveEdit(w) \/ SaveApproval(w) \/ SaveRejection(w)
      PROVE  Effects(v)
  <2>1. audit' = audit
    BY <1>4 DEF SaveEdit, SaveApproval, SaveRejection
  <2>2. ASSUME v # w PROVE job'[v] = job[v]
    BY <1>0, <1>4, <2>2 DEF SaveEdit, SaveApproval, SaveRejection, Saved, Recorded, Goto, End
  <2>3. ASSUME v = w
        PROVE  /\ job'[v].pc \in Recording =>
                    job'[v].deed = job[v].deed /\ job'[v].owner = job[v].owner
               /\ job'[v].pc # "edit"
    <3>1. End(w) \/ Goto(w, "invalidate") \/ Goto(w, "audit")
      BY <1>4 DEF SaveEdit, SaveApproval, SaveRejection, Saved, Recorded
    <3> QED BY <1>0, <2>3, <3>1 DEF End, Goto, Idle, Recording, Job
  <2> QED BY <1>4, <2>1, <2>2, <2>3 DEF Effects
<1>5. ASSUME NEW w \in Worker, CheckDocuments(w) PROVE Effects(v)
  <2>1. End(w) \/ Goto(w, "save")
    BY <1>5 DEF CheckDocuments
  <2>2. [job[w] EXCEPT !.pc = "save"].pc = "save"
    BY <1>0 DEF Job
  <2> QED BY <1>3, <1>5, <2>1, <2>2 DEF CheckDocuments, End, Goto, Idle, Recording, rows
<1>6. ASSUME NEW w \in Worker,
             \/ RequireApproved(w) \/ StoreStatus(w) \/ RefuseFile(w) \/ SendScan(w)
             \/ SendRaisesAgain(w) \/ DeleteRow(w) \/ Crash(w)
      PROVE  Effects(v)
  <2>1. End(w) /\ UNCHANGED <<profile, audit>>
    BY <1>6 DEF RequireApproved, StoreStatus, RefuseFile, SendScan, SendRaisesAgain,
                DeleteRow, Crash, rows
  <2> QED BY <1>e, <2>1
<1>7. ASSUME NEW w \in Worker, SendRaises(w) PROVE Effects(v)
  <2>1. [job[w] EXCEPT !.pc = "again"].pc = "again"
    BY <1>0 DEF Job
  <2> QED BY <1>3, <1>7, <2>1 DEF SendRaises, Goto, Recording, rows
<1>8. ASSUME NEW w \in Worker, LoadStatus(w) PROVE Effects(v)
  <2> DEFINE j == [job[w] EXCEPT !.pc = "store", !.seen = profile[job[w].owner]]
  <2>1. j.pc = "store" /\ job' = [job EXCEPT ![w] = j] /\ UNCHANGED <<profile, audit>>
    BY <1>0, <1>8 DEF LoadStatus, Job, rows
  <2> HIDE DEF j
  <2> QED BY <1>3, <2>1 DEF Recording
<1>9. ASSUME NEW w \in Worker, StoreDocument(w) PROVE Effects(v)
  <2>1. PICK i : job' = [job EXCEPT ![w].pc = "enqueue", ![w].doc = i]
    BY <1>9 DEF StoreDocument
  <2> DEFINE j == [job[w] EXCEPT !.pc = "enqueue", !.doc = i]
  <2>2. j.pc = "enqueue" /\ job' = [job EXCEPT ![w] = j] /\ UNCHANGED <<profile, audit>>
    BY <1>0, <1>9, <2>1 DEF StoreDocument, Job
  <2> HIDE DEF j
  <2> QED BY <1>3, <2>2 DEF Recording
<1>10. ASSUME NEW w \in Worker, Invalidate(w) PROVE Effects(v)
  <2>1. UNCHANGED <<profile, audit>> /\ job[w].pc \in Recording
    BY <1>10 DEF Invalidate, At, Recording
  <2>2. CASE End(w)
    BY <1>e, <2>1, <2>2
  <2>3. CASE Goto(w, "audit")
    BY <1>0, <2>1, <2>3 DEF Goto, Effects, Job
  <2> QED BY <1>10, <2>2, <2>3 DEF Invalidate, Recorded
<1>11. ASSUME NEW w \in Worker, WriteAudit(w) PROVE Effects(v)
  BY <1>0, <1>11 DEF WriteAudit, End, Idle, Effects, Recording
<1>12. ASSUME NEW w \in Worker, NEW o \in Owner,
              \/ StartEdit(w, o) \/ ConsoleEdit(w, o) \/ Deactivate(w, o)
              \/ StartPost(w, o) \/ OpenMarketplace(w, o)
              \/ \E d \in {"approve", "reject"} : BeginReview(w, o, d)
              \/ \E type \in DocType : StartUpload(w, o, type) \/ StudentUpload(w, o, type)
       PROVE  Effects(v)
  <2>1. CASE StartEdit(w, o) \/ ConsoleEdit(w, o)
    BY <1>2, <2>1 DEF StartEdit, ConsoleEdit, rows, Recording
  <2>2. CASE Deactivate(w, o)
    BY <1>2, <2>2 DEF Deactivate
  <2>3. CASE StartPost(w, o) \/ OpenMarketplace(w, o)
    BY <1>2, <2>3 DEF StartPost, OpenMarketplace, rows, Recording
  <2>4. ASSUME NEW d \in {"approve", "reject"}, BeginReview(w, o, d) PROVE Effects(v)
    <3>1. d # "edit" /\ d \notin Recording
      BY DEF Recording
    <3> QED BY <1>2, <2>4, <3>1 DEF BeginReview, rows
  <2>5. CASE \E type \in DocType : StartUpload(w, o, type) \/ StudentUpload(w, o, type)
    BY <1>2, <2>5 DEF StartUpload, StudentUpload, rows, Recording
  <2> QED BY <1>12, <2>1, <2>2, <2>3, <2>4, <2>5
<1>13. ASSUME NEW w \in Worker, NEW i \in DocId, DeleteFile(w, i) PROVE Effects(v)
  BY <1>2, <1>13 DEF DeleteFile, Recording, Owner
<1>14. CASE (\E s \in Student : StatusExpires(s)) \/ \E i \in DocId : ScanDocument(i)
  BY <1>1, <1>14 DEF StatusExpires, ScanDocument
<1>15. CASE UNCHANGED vars  BY <1>1, <1>15 DEF vars
<1> QED BY <1>4, <1>5, <1>6, <1>7, <1>8, <1>9, <1>10, <1>11, <1>12, <1>13, <1>14, <1>15
        DEF Next, StudentEdit, CompanyEdit, StudentReview, CompanyReview, Owner

\* The row of a profile after a step shows a decision that is logged or owed.
LEMMA ShownStays ==
  ASSUME TypeInv, AuditInv, [Next]_vars, faults = 0, faults' = 0,
         NEW o \in Owner, NEW after, after = profile'[o], after # None
  PROVE  Shown(after, o)'
<1>0. \A x \in Worker : job[x] \in Job /\ JobFits(job[x])
  BY DEF TypeInv, JobsFit, JobFits
<1>1. ASSUME NEW seen, Shown(seen, o) PROVE Shown(seen, o)'
  BY <1>1, LoggedStays DEF Shown
<1>2. CASE profile'[o] = profile[o]
  <2>1. Shown(profile[o], o)
    BY <1>2 DEF AuditInv
  <2> QED BY <1>1, <1>2, <2>1
<1>3. ASSUME NEW w \in Worker, SaveEdit(w), profile'[o] # profile[o] PROVE Shown(after, o)'
  <2> DEFINE read == IF job[w].seen = None THEN NewProfile(o) ELSE job[w].seen
             new == [read EXCEPT !.data = edits + 1]
  <2>1. /\ job[w].pc = "edit" /\ job[w].owner = o
        /\ profile' = [profile EXCEPT ![o] = new]
    BY <1>3 DEF SaveEdit, At, TypeInv, TypeOK
  <2>2. read \in Profile
    BY <1>0, <2>1, VerificationAssumption DEF JobFits, NewProfile, Profile
  <2>3. new.status = read.status /\ new.reviewed = read.reviewed
    BY <2>2 DEF Profile
  <2>4. profile'[o] = new
    BY <2>1 DEF TypeInv, TypeOK
  <2>5. CASE job[w].seen = None
    <3>1. read.reviewed = FALSE  BY <2>5 DEF NewProfile
    <3> QED BY <2>3, <2>4, <3>1 DEF Shown
  <2>6. CASE job[w].seen # None
    <3>1. Shown(read, o)
      BY <2>1, <2>6 DEF AuditInv
    <3>2. PICK old : old = read /\ Shown(old, o)
      BY <3>1
    <3>3. Shown(old, o)'
      BY <1>1, <3>2
    <3> QED BY <2>3, <2>4, <3>2, <3>3 DEF Shown
  <2> QED BY <2>5, <2>6
<1>4. ASSUME NEW w \in Worker, SaveApproval(w) \/ SaveRejection(w),
             profile'[o] # profile[o]
      PROVE  Shown(after, o)'
  <2>1. job[w].owner = o /\ profile[o] \in Profile
    BY <1>0, <1>4 DEF SaveApproval, SaveRejection, Reviewed, At, JobFits, TypeInv, TypeOK,
                      RowsStay
  <2>2. PICK status \in {"APPROVED", "REJECTED"} :
          job[w].deed = status /\ Reviewed(w, status) /\ Saved(w)
    BY <1>0, <1>4 DEF SaveApproval, SaveRejection, At, JobFits
  <2>3. profile'[o].status = status
    BY <2>1, <2>2 DEF Reviewed, Profile, TypeInv, TypeOK
  <2>4. status # None /\ status \in Deed
    BY VerificationAssumption DEF Deed
  <2>5. Goto(w, "invalidate") \/ Goto(w, "audit")
    BY <2>2, <2>4 DEF Saved, Recorded
  <2>6. job'[w].pc \in Recording /\ job'[w].deed = status /\ job'[w].owner = o
    BY <1>0, <2>1, <2>2, <2>5 DEF Goto, Recording, Job, TypeInv, JobsFit
  <2>7. Logged(status, o)'
    BY <2>6 DEF Logged, Owed, Recording
  <2> QED BY <2>3, <2>4, <2>7 DEF Shown
<1>5. ASSUME NEW w \in Worker PROVE Effects(w)
  BY <1>5, StepEffects
<1>6. CASE Worker = {}
  BY <1>2, <1>6 DEF Next, StatusExpires, ScanDocument, vars
<1> QED BY <1>2, <1>3, <1>4, <1>5, <1>6 DEF Effects

LEMMA AuditStep == TypeInv /\ VetInv /\ AuditInv /\ [Next]_vars => AuditInv'
<1> SUFFICES ASSUME TypeInv, VetInv, AuditInv, [Next]_vars PROVE AuditInv'
  OBVIOUS
<1>0. /\ \A x \in Worker : job[x] \in Job /\ JobFits(job[x])
      /\ \A x \in Worker : JobFits(job'[x])
  BY TypeStep DEF TypeInv, JobsFit, JobFits
<1>1. \A v \in Worker : Effects(v)
  BY StepEffects
<1>2. ASSUME NEW w \in Worker, job[w].pc \in Recording, job[w].deed # None,
             NEW e, e = EntryOf(job[w])
      PROVE  Told(e)'
  <2>1. Told(e) /\ e.owner \in Owner
    BY <1>0, <1>2 DEF AuditInv, JobFits, Recording, EntryOf
  <2> QED BY <2>1, ToldStays
<1>3. ASSUME NEW e \in audit' PROVE Told(e)'
  <2>1. CASE e \in audit
    <3>1. Told(e) /\ e.owner \in Owner
      BY <2>1 DEF AuditInv, TypeInv, TypeOK, AuditLog
    <3> QED BY <3>1, ToldStays
  <2>2. ASSUME NEW w \in Worker, WriteAudit(w), e \notin audit PROVE Told(e)'
    <3>1. /\ e = EntryOf(job[w]) /\ job[w].pc \in Recording /\ job[w].deed \in Deed
      BY <1>0, <2>2 DEF WriteAudit, At, EntryOf, Recording, JobFits
    <3> QED BY <1>2, <3>1, VerificationAssumption
  <2>3. CASE Worker = {}
    BY <2>1, <2>3 DEF Next, StatusExpires, ScanDocument, vars
  <2> QED BY <1>1, <2>1, <2>2, <2>3 DEF Effects
<1>4. ASSUME NEW v \in Worker, job'[v].pc \in Recording, job'[v].deed # None,
             NEW e, e = EntryOf(job'[v])
      PROVE  Told(e)'
  <2>0. e.action = job'[v].deed /\ e.owner = job'[v].owner /\ e.owner \in Owner
    BY <1>0, <1>4 DEF EntryOf, JobFits, Recording
  <2>1. CASE /\ job[v].pc \in Recording
             /\ job'[v].deed = job[v].deed /\ job'[v].owner = job[v].owner
    BY <1>2, <1>4, <2>1 DEF EntryOf
  <2>2. CASE /\ SaveEdit(v)
             /\ job'[v].deed = job[v].deed /\ job'[v].owner = job[v].owner
    <3>1. job[v].deed = "edited" /\ e.owner = job[v].owner
      BY <1>0, <1>4, <2>0, <2>2 DEF SaveEdit, At, JobFits
    <3>2. ~End(v)
      BY <1>0, <1>4, <2>2 DEF End, Idle, Recording, TypeInv, JobsFit
    <3>3. edited'[e.owner] = edits + 1 /\ edits + 1 > 0
      BY <2>0, <2>2, <3>1, <3>2, VerificationAssumption DEF SaveEdit, TypeInv
    <3> QED BY <2>0, <2>2, <3>1, <3>3 DEF Told
  <2>3. CASE /\ SaveApproval(v)
             /\ job'[v].deed = job[v].deed /\ job'[v].owner = job[v].owner
    <3>1. e.action = "APPROVED" /\ e.owner \in vetted
      BY <1>0, <2>0, <2>3 DEF SaveApproval, At, JobFits, VetInv
    <3> QED BY <3>1, DeedsStay DEF Told
  <2>4. CASE /\ SaveRejection(v)
             /\ job'[v].deed = job[v].deed /\ job'[v].owner = job[v].owner
    BY <1>0, <2>0, <2>4 DEF SaveRejection, At, JobFits, Told
  <2>5. CASE Deactivate(v, job'[v].owner) /\ job'[v].deed = "deactivated"
    <3>1. ~active'[e.owner]
      BY <2>0, <2>5 DEF Deactivate, TypeInv, TypeOK
    <3> QED BY <2>0, <2>5, <3>1 DEF Told
  <2>6. CASE job'[v] = job[v]
    BY <1>2, <1>4, <2>6
  <2> QED BY <1>1, <1>4, <2>1, <2>2, <2>3, <2>4, <2>5, <2>6 DEF Effects
<1>5. ASSUME faults' = 0 PROVE faults = 0
  <2>1. \/ faults' = faults \/ faults' = faults + 1
    BY DEF Next, vars, rows, history, StartEdit, StudentEdit, CompanyEdit, ConsoleEdit,
       Deactivate, StudentReview, CompanyReview, BeginReview, SaveEdit, Invalidate,
       WriteAudit, CheckDocuments, SaveApproval, SaveRejection, StartPost, StartUpload,
       RequireApproved, OpenMarketplace, StudentUpload, LoadStatus, StoreStatus,
       StoreDocument, RefuseFile, SendScan, SendRaises, SendRaisesAgain, DeleteFile,
       DeleteRow, Crash, StatusExpires, ScanDocument
  <2> QED BY <1>5, <2>1, VerificationAssumption DEF TypeInv
<1>6. ASSUME faults' = 0, NEW o \in Owner, NEW after, after = profile'[o], after # None
      PROVE  Shown(after, o)'
  BY <1>5, <1>6, ShownStays
<1>7. ASSUME faults' = 0, NEW v \in Worker, job'[v].pc = "edit", NEW seen,
             seen = job'[v].seen, seen # None, NEW o, o = job'[v].owner
      PROVE  Shown(seen, o)'
  <2>1. Shown(seen, o)
    <3>1. CASE job'[v] = job[v]
      BY <1>5, <1>7, <3>1 DEF AuditInv
    <3>2. CASE o \in Owner /\ seen = profile[o]
      BY <1>5, <1>7, <3>2 DEF AuditInv
    <3> QED BY <1>1, <1>7, <3>1, <3>2 DEF Effects
  <2> QED BY <1>7, <2>1, LoggedStays DEF Shown
<1> QED BY <1>3, <1>4, <1>6, <1>7 DEF AuditInv

\* The audit log tells of deeds that were done and, as long as no request died,
\* of every decision that a profile shows, whatever stale edits bring back.
THEOREM AuditTellsTheTruth == Spec => []AuditMatchesDeeds
<1>1. AuditInv => AuditMatchesDeeds
  BY DEF AuditInv, AuditMatchesDeeds, Told, Shown, Logged
<1> QED BY <1>1, TypeInit, TypeStep, VetInit, VetStep, AuditInit, AuditStep, PTL DEF Spec

-----------------------------------------------------------------------------
(* Configuration: what the audit log tells of a form can be found           *)

\* The rows that the request of a has saved.
Written(a) == IF Does(a, "audit") THEN fields[request[a].form]
              ELSE IF Does(a, "template") THEN {}
              ELSE {k \in Setting : k < request[a].key}

Open(a) == ~Does(a, "idle")

\* A form that is not over, with what has been saved of it.
FormFits(a) ==
  LET n == request[a].form
  IN  /\ n \in 1..forms /\ n \notin over
      /\ Does(a, "get") \/ Does(a, "save") => request[a].key \in Setting /\ fields[n] = Setting
      /\ Does(a, "template") => fields[n] = {request[a].key}
      /\ \A k \in Written(a) : Stands(n, k)

ConfigInv ==
  /\ ConfigTypeOK
  /\ \A a \in Admins : Open(a) => FormFits(a)
  /\ \A a, b \in Admins : Open(a) /\ Open(b) /\ request[a].form = request[b].form => a = b
  /\ over \subseteq 1..forms
  /\ \A n \in Form : before[n] \subseteq over
  /\ AuditedFormsStand

LEMMA ConfigStart == ConfigInit => ConfigInv
BY ConfigurationAssumption
   DEF ConfigInit, ConfigInv, ConfigTypeOK, NoRequest, Form, Key, Setting, NoRow, Default, Open,
       Does, AuditedFormsStand

\* Which row a step writes, and with what.
RowStep ==
  \/ row' = row
  \/ \E k \in Key : row' = [row EXCEPT ![k] = Default] /\ row[k] = NoRow
  \/ \E a \in Admins : /\ Open(a)
                       /\ row' = [row EXCEPT ![request[a].key] = request[a].form]

LEMMA ConfigRows ==
  ASSUME ConfigInv, [ConfigNext]_configVars
  PROVE  /\ RowStep
         /\ \A n \in 1..forms : fields'[n] = fields[n] /\ before'[n] = before[n]
         /\ over \subseteq over' /\ forms' \in Nat /\ forms' >= forms
<1> DEFINE Frame == /\ \A n \in 1..forms : fields'[n] = fields[n] /\ before'[n] = before[n]
                    /\ over \subseteq over' /\ forms' \in Nat /\ forms' >= forms
<1>0. forms \in 0..MaxForms /\ MaxForms \in Nat /\ row \in [Key -> Form \cup {Default, NoRow}]
      /\ \A a \in Admins : request[a].key \in Key
  BY ConfigurationAssumption DEF ConfigInv, ConfigTypeOK
<1>1. ASSUME UNCHANGED <<row, over, sent>> PROVE RowStep /\ Frame
  BY <1>0, <1>1 DEF RowStep, sent
<1>2. ASSUME NEW a \in Admins, NEW pc, NEW keys, NEW k, Send(a, pc, keys, k)
      PROVE  RowStep /\ Frame
  <2>1. \A n \in 1..forms : fields'[n] = fields[n] /\ before'[n] = before[n]
    BY <1>0, <1>2 DEF Send, ConfigInv, ConfigTypeOK, Form
  <2> QED BY <1>0, <1>2, <2>1 DEF Send, RowStep
<1>3. ASSUME NEW a \in Admins, GetSetting(a) PROVE RowStep /\ Frame
  <2> DEFINE k == request[a].key
  <2>0. k \in Key /\ DOMAIN row = Key
    BY <1>0
  <2>1. row' = [row EXCEPT ![k] = IF row[k] = NoRow THEN Default ELSE row[k]]
    BY <1>3, <2>0 DEF GetSetting
  <2>2. Frame
    BY <1>0, <1>3 DEF GetSetting, sent
  <2> HIDE DEF k
  <2>3. CASE row[k] = NoRow
    <3>1. row' = [row EXCEPT ![k] = Default]
      BY <2>1, <2>3
    <3> QED BY <2>0, <2>2, <2>3, <3>1 DEF RowStep
  <2>4. CASE row[k] # NoRow
    <3>1. row' = row  BY <1>0, <2>0, <2>1, <2>4
    <3> QED BY <2>2, <3>1 DEF RowStep
  <2> QED BY <2>3, <2>4
<1>4. ASSUME NEW a \in Admins, SaveSetting(a) \/ SaveTemplate(a) PROVE RowStep /\ Frame
  <2>1. Open(a) /\ row' = [row EXCEPT ![request[a].key] = request[a].form]
        /\ UNCHANGED <<over, forms, fields, before>>
    BY <1>4 DEF SaveSetting, SaveTemplate, Open, Does, sent
  <2>2. RowStep  BY <2>1 DEF RowStep
  <2>3. Frame  BY <1>0, <2>1
  <2> QED BY <2>2, <2>3
<1>5. ASSUME NEW a \in Admins,
             SettingRaises(a) \/ TemplateRefused(a) \/ LogForm(a) \/ AdminDies(a)
      PROVE  RowStep /\ Frame
  BY <1>0, <1>5 DEF SettingRaises, TemplateRefused, LogForm, AdminDies, Over, sent, RowStep
<1> QED BY <1>1, <1>2, <1>3, <1>4, <1>5
        DEF ConfigNext, configVars, SendSettings, SendTemplate, sent

\* A row that shows a form, or one that was not over before, goes on to do so:
\* only forms that are not over are written.
LEMMA StandsStays ==
  ASSUME ConfigInv, [ConfigNext]_configVars, NEW n \in 1..forms, NEW k \in Key, Stands(n, k)
  PROVE  Stands(n, k)'
<1>1. /\ forms \in 0..MaxForms /\ row \in [Key -> Form \cup {Default, NoRow}]
      /\ n \in Form /\ before[n] \subseteq over /\ before'[n] = before[n]
  BY ConfigRows, ConfigurationAssumption DEF ConfigInv, ConfigTypeOK, Form
<1>2. row[k] \in Form /\ row[k] # NoRow
  BY ConfigurationAssumption DEF Stands, NoRow, Form
<1>3. CASE row'[k] = row[k]
  BY <1>1, <1>3 DEF Stands
<1>4. ASSUME NEW a \in Admins, Open(a), row'[k] = request[a].form PROVE Stands(n, k)'
  <2>1. request[a].form \in Form /\ request[a].form \notin over
    BY <1>1, <1>4, ConfigurationAssumption DEF ConfigInv, FormFits, Form
  <2> QED BY <1>1, <1>4, <2>1 DEF Stands
<1> QED BY <1>1, <1>2, <1>3, <1>4, ConfigRows DEF RowStep

\* The form of a request is new, or the one it had, of which the rows that are
\* saved stand; and no other request has it.
LEMMA ConfigStep == ConfigInv /\ [ConfigNext]_configVars => ConfigInv'
<1> SUFFICES ASSUME ConfigInv, [ConfigNext]_configVars PROVE ConfigInv'
  OBVIOUS
<1> USE ConfigurationAssumption
<1>0. /\ row \in [Key -> Form \cup {Default, NoRow}]
      /\ request \in [Admins -> [pc: {"idle", "get", "save", "template", "audit"},
                                 form: Form \cup {0}, key: Key]]
      /\ log \subseteq over /\ over \subseteq 1..forms /\ over \subseteq Form
      /\ forms \in 0..MaxForms /\ forms \in Nat
      /\ fields \in [Form -> SUBSET Key] /\ before \in [Form -> SUBSET Form]
      /\ 1 \in Setting /\ Setting \subseteq Key
  BY DEF ConfigInv, ConfigTypeOK, Key, Setting
<1>1. \A a \in Admins : Open(a) => FormFits(a)
  BY DEF ConfigInv
<1>2. \A n \in 1..forms, k \in Key : Stands(n, k) => Stands(n, k)'
  BY StandsStays
<1>3. CASE UNCHANGED configVars
  BY <1>3 DEF configVars, ConfigInv, ConfigTypeOK, Open, Does, FormFits, Written, Stands,
              AuditedFormsStand
<1>4. ASSUME NEW b \in Admins, Open(b), request'[b] = request[b], request[b].form \notin over'
      PROVE  FormFits(b)'
  <2>1. PICK n \in 1..forms : n = request[b].form /\ n \notin over'
    BY <1>1, <1>4 DEF FormFits
  <2>2. fields'[n] = fields[n] /\ fields[n] \in SUBSET Key /\ n \in 1..forms'
    BY <1>0, <2>1, ConfigRows DEF Form
  <2>3. \A k \in Written(b) : k \in Key /\ Stands(n, k)
    BY <1>0, <1>1, <1>4, <2>1, <2>2 DEF FormFits, Written
  <2>4. \A k \in Written(b) : Stands(n, k)'
    BY <1>2, <2>1, <2>3
  <2>5. Written(b)' = Written(b)
    BY <1>4, <2>1, <2>2 DEF Written, Does
  <2>6. /\ Does(b, "get") \/ Does(b, "save") => request[b].key \in Setting /\ fields[n] = Setting
        /\ Does(b, "template") => fields[n] = {request[b].key}
    BY <1>1, <1>4, <2>1 DEF FormFits
  <2> QED BY <1>4, <2>1, <2>2, <2>4, <2>5, <2>6 DEF FormFits, Does
<1>5. ASSUME NEW n \in log PROVE \A k \in fields'[n] : Stands(n, k)'
  <2>1. n \in 1..forms /\ fields'[n] = fields[n] /\ fields[n] \subseteq Key
    BY <1>0, ConfigRows DEF Form
  <2> QED BY <1>2, <2>1 DEF ConfigInv, AuditedFormsStand
<1>6. ASSUME NEW a \in Admins, NEW pc \in {"get", "template"}, NEW keys \in SUBSET Key,
             NEW k \in keys, Send(a, pc, keys, k),
             pc = "get" => keys = Setting /\ k = 1, pc = "template" => keys = {k}
      PROVE  ConfigInv'
  <2>1. /\ forms' = forms + 1 /\ forms' \in Form /\ forms' \in 0..MaxForms
        /\ request'[a] = [pc |-> pc, form |-> forms', key |-> k]
        /\ \A b \in Admins \ {a} : request'[b] = request[b]
        /\ fields'[forms'] = keys /\ before'[forms'] = over
        /\ UNCHANGED <<row, log, over>> /\ ~Open(a)
    BY <1>0, <1>6 DEF Send, Form, Open
  <2>2. ConfigTypeOK'
    BY <1>0, <1>6, <2>1 DEF ConfigTypeOK, Send, Form
  <2>3. FormFits(a)'
    <3>1. Written(a)' = {}
      BY <1>0, <1>6, <2>1 DEF Written, Does, Setting
    <3>2. forms' \in 1..forms' /\ forms' \notin over'
      BY <1>0, <2>1
    <3> QED BY <1>0, <1>6, <2>1, <3>1, <3>2 DEF FormFits, Does
  <2>4. \A b \in Admins \ {a} : Open(b)' => Open(b) /\ FormFits(b)'
    BY <1>1, <1>4, <2>1 DEF Open, Does, FormFits
  <2>5. \A b \in Admins \ {a} : Open(b) => request[b].form # forms'
    BY <1>0, <1>1, <2>1 DEF FormFits
  <2>6. \A b, c \in Admins : Open(b)' /\ Open(c)' /\ request'[b].form = request'[c].form => b = c
    <3>1. \A b, c \in Admins : Open(b) /\ Open(c) /\ request[b].form = request[c].form => b = c
      BY DEF ConfigInv
    <3> QED BY <2>1, <2>4, <2>5, <3>1
  <2>7. \A n \in Form : before'[n] \subseteq over'
    BY <1>0, <1>6, <2>1 DEF Send, ConfigInv
  <2>8. over' \subseteq 1..forms' /\ AuditedFormsStand'
    BY <1>0, <1>5, <2>1 DEF AuditedFormsStand
  <2> QED BY <2>2, <2>3, <2>4, <2>6, <2>7, <2>8 DEF ConfigInv
<1>7. ASSUME NEW a \in Admins, NEW j, Open(a), request' = [request EXCEPT ![a] = j],
             j \in [pc: {"get", "save", "audit"}, form: Form, key: Key],
             j.form = request[a].form, UNCHANGED <<log, over, sent>>,
             row' \in [Key -> Form \cup {Default, NoRow}],
             j.pc = "audit" => \A k \in fields[j.form] : Stands(j.form, k)',
             j.pc # "audit" => /\ j.key \in Setting /\ fields[j.form] = Setting
                               /\ \A k \in Setting : k < j.key => Stands(j.form, k)'
      PROVE  ConfigInv'
  <2>1. /\ request'[a] = j /\ \A b \in Admins \ {a} : request'[b] = request[b]
        /\ UNCHANGED <<log, over, forms, fields, before>>
    BY <1>0, <1>7 DEF sent
  <2>2. ConfigTypeOK'
    BY <1>0, <1>7, <2>1 DEF ConfigTypeOK
  <2>3. FormFits(a)'
    <3>1. j.form \in 1..forms /\ j.form \notin over
      BY <1>1, <1>7 DEF FormFits
    <3>2. \A k \in Written(a)' : Stands(j.form, k)'
      BY <1>7, <2>1 DEF Written, Does
    <3> QED BY <1>7, <2>1, <3>1, <3>2 DEF FormFits, Does
  <2>4. \A b \in Admins \ {a} : Open(b)' => Open(b) /\ FormFits(b)'
    BY <1>1, <1>4, <2>1 DEF Open, Does, FormFits
  <2>5. \A b, c \in Admins : Open(b)' /\ Open(c)' /\ request'[b].form = request'[c].form => b = c
    <3>1. \A b, c \in Admins : Open(b) /\ Open(c) /\ request[b].form = request[c].form => b = c
      BY DEF ConfigInv
    <3>2. \A b \in Admins : Open(b)' => Open(b) /\ request'[b].form = request[b].form
      BY <1>7, <2>1, <2>4
    <3> QED BY <3>1, <3>2
  <2>6. AuditedFormsStand'
    BY <1>5, <2>1 DEF AuditedFormsStand
  <2> QED BY <1>0, <2>1, <2>2, <2>3, <2>4, <2>5, <2>6 DEF ConfigInv
<1>8. ASSUME NEW a \in Admins, Open(a), Over(a), UNCHANGED <<row, sent>>,
             \/ log' = log
             \/ Does(a, "audit") /\ log' = log \cup {request[a].form}
      PROVE  ConfigInv'
  <2>1. /\ request'[a] = NoRequest /\ \A b \in Admins \ {a} : request'[b] = request[b]
        /\ UNCHANGED <<row, forms, fields, before>>
        /\ over' = over \cup {request[a].form} /\ request[a].form \in 1..forms
    BY <1>0, <1>1, <1>8 DEF Over, sent, FormFits
  <2>2. ConfigTypeOK'
    <3>1. NoRequest \in [pc: {"idle", "get", "save", "template", "audit"},
                         form: Form \cup {0}, key: Key]
      BY <1>0 DEF NoRequest
    <3>2. log' \subseteq over' /\ over' \subseteq Form
      <4>1. request[a].form \in Form
        BY <1>0, <2>1 DEF Form
      <4>2. log' \subseteq log \cup {request[a].form}
        BY <1>8
      <4> QED BY <1>0, <2>1, <4>1, <4>2
    <3>3. request' \in [Admins -> [pc: {"idle", "get", "save", "template", "audit"},
                                   form: Form \cup {0}, key: Key]]
      BY <1>0, <1>8, <3>1 DEF Over
    <3> QED BY <1>0, <2>1, <3>2, <3>3 DEF ConfigTypeOK
  <2>3. ~Open(a)'
    BY <2>1 DEF NoRequest, Open, Does
  <2>4. \A b, c \in Admins : Open(b) /\ Open(c) /\ request[b].form = request[c].form => b = c
    BY DEF ConfigInv
  <2>5. \A b \in Admins \ {a} : Open(b)' => Open(b) /\ FormFits(b)'
    BY <1>1, <1>4, <1>8, <2>1, <2>4 DEF Open, Does, FormFits
  <2>6. \A b, c \in Admins : Open(b)' /\ Open(c)' /\ request'[b].form = request'[c].form => b = c
    BY <2>1, <2>3, <2>4, <2>5
  <2>7. AuditedFormsStand'
    <3>1. ASSUME Does(a, "audit"), NEW n, n = request[a].form
          PROVE  \A k \in fields'[n] : Stands(n, k)'
      <4>1. n \in 1..forms /\ fields'[n] = fields[n] /\ fields[n] \subseteq Key
        BY <1>0, <2>1, <3>1 DEF Form
      <4>2. \A k \in fields[n] : Stands(n, k)
        BY <1>1, <1>8, <3>1 DEF FormFits, Written
      <4> QED BY <1>2, <4>1, <4>2
    <3> QED BY <1>5, <1>8, <3>1 DEF AuditedFormsStand
  <2>8. over' \subseteq 1..forms' /\ \A n \in Form : before'[n] \subseteq over'
    BY <1>0, <2>1 DEF ConfigInv
  <2> QED BY <2>2, <2>3, <2>5, <2>6, <2>7, <2>8 DEF ConfigInv
<1>9. ASSUME NEW a \in Admins, SendSettings(a) PROVE ConfigInv'
  BY <1>0, <1>6, <1>9 DEF SendSettings
<1>10. ASSUME NEW a \in Admins, NEW t \in Templates, SendTemplate(a, t) PROVE ConfigInv'
  BY <1>6, <1>10 DEF SendTemplate, Key
<1>11. ASSUME NEW a \in Admins,
              SettingRaises(a) \/ TemplateRefused(a) \/ LogForm(a) \/ AdminDies(a)
       PROVE  ConfigInv'
  BY <1>8, <1>11 DEF SettingRaises, TemplateRefused, LogForm, AdminDies, Open, Does
<1>12. ASSUME NEW a \in Admins, GetSetting(a) \/ SaveSetting(a) PROVE ConfigInv'
  <2>0. PICK k, n : k = request[a].key /\ n = request[a].form
    OBVIOUS
  <2>1. /\ Open(a) /\ k \in Setting /\ k \in Key /\ n \in 1..forms /\ n \in Form
        /\ fields[n] = Setting
        /\ \A l \in Setting : l < k => Stands(n, l)
        /\ UNCHANGED <<log, over, sent>>
    BY <1>0, <1>1, <1>12, <2>0 DEF GetSetting, SaveSetting, Open, FormFits, Written, Does, Form
  <2>2. \A l \in Setting : l < k => Stands(n, l)'
    <3> SUFFICES ASSUME NEW l \in Setting, l < k PROVE Stands(n, l)'
      OBVIOUS
    <3> QED BY <1>0, <1>2, <2>1
  <2>3. CASE GetSetting(a)
    <3> DEFINE j == [request[a] EXCEPT !.pc = "save", !.key = k]
    <3>1. row' \in [Key -> Form \cup {Default, NoRow}] /\ request' = [request EXCEPT ![a] = j]
      BY <1>0, <2>0, <2>1, <2>3 DEF GetSetting, Proceed
    <3>2. j \in [pc: {"get", "save", "audit"}, form: Form, key: Key]
          /\ j.form = n /\ j.key = k /\ j.pc = "save"
      BY <1>0, <2>0, <2>1
    <3> HIDE DEF j
    <3> QED BY <1>7, <2>0, <2>1, <2>2, <3>1, <3>2
  <2>4. CASE SaveSetting(a)
    <3> DEFINE j == IF k = SettingCount THEN [request[a] EXCEPT !.pc = "audit", !.key = k]
                    ELSE [request[a] EXCEPT !.pc = "get", !.key = k + 1]
    <3>1. row' = [row EXCEPT ![k] = n] /\ request' = [request EXCEPT ![a] = j]
      BY <2>0, <2>4 DEF SaveSetting, Proceed
    <3>2. Stands(n, k)' /\ row' \in [Key -> Form \cup {Default, NoRow}]
      BY <1>0, <2>1, <3>1 DEF Stands
    <3>3. \A l \in Setting : l <= k => Stands(n, l)'
      BY <1>0, <2>1, <2>2, <3>2 DEF Setting
    <3>4. CASE k = SettingCount
      <4>1. j \in [pc: {"get", "save", "audit"}, form: Form, key: Key]
            /\ j.form = n /\ j.pc = "audit"
        BY <1>0, <2>0, <2>1, <3>4
      <4>2. \A l \in fields[n] : Stands(n, l)'
        BY <2>1, <3>3, <3>4 DEF Setting
      <4> HIDE DEF j
      <4> QED BY <1>7, <2>0, <2>1, <3>1, <3>2, <4>1, <4>2
    <3>5. CASE k # SettingCount
      <4>1. k + 1 \in Setting /\ k + 1 \in Key
        BY <1>0, <2>1, <3>5 DEF Setting
      <4>2. j \in [pc: {"get", "save", "audit"}, form: Form, key: Key]
            /\ j.form = n /\ j.pc = "get" /\ j.key = k + 1
        BY <1>0, <2>0, <2>1, <3>5, <4>1
      <4>3. \A l \in Setting : l < k + 1 => Stands(n, l)'
        BY <2>1, <3>3 DEF Setting
      <4> HIDE DEF j
      <4> QED BY <1>7, <2>0, <2>1, <3>1, <3>2, <4>1, <4>2, <4>3
    <3> QED BY <3>4, <3>5
  <2> QED BY <1>12, <2>3, <2>4
<1>13. ASSUME NEW a \in Admins, SaveTemplate(a) PROVE ConfigInv'
  <2>0. PICK t, n : t = request[a].key /\ n = request[a].form
    OBVIOUS
  <2> DEFINE j == [request[a] EXCEPT !.pc = "audit", !.key = t]
  <2>1. /\ Open(a) /\ t \in Key /\ n \in 1..forms /\ n \in Form /\ fields[n] = {t}
        /\ UNCHANGED <<log, over, sent>>
    BY <1>0, <1>1, <1>13, <2>0 DEF SaveTemplate, Open, FormFits, Does, Form
  <2>2. row' = [row EXCEPT ![t] = n] /\ request' = [request EXCEPT ![a] = j]
    BY <1>13, <2>0 DEF SaveTemplate, Proceed
  <2>3. Stands(n, t)' /\ row' \in [Key -> Form \cup {Default, NoRow}]
    BY <1>0, <2>1, <2>2 DEF Stands
  <2>4. j \in [pc: {"get", "save", "audit"}, form: Form, key: Key]
        /\ j.form = n /\ j.pc = "audit"
    BY <1>0, <2>0, <2>1
  <2> HIDE DEF j
  <2> QED BY <1>7, <2>0, <2>1, <2>2, <2>3, <2>4
<1> QED BY <1>3, <1>9, <1>10, <1>11, <1>12, <1>13 DEF ConfigNext

\* What the audit log says was saved can be found, for any number of
\* administrators, settings, templates and forms: no row is left as it was
\* before a form that the log tells of.
THEOREM LoggedFormsStand == ConfigSpec => []AuditedFormsStand
<1>1. ConfigInv => AuditedFormsStand
  BY DEF ConfigInv
<1> QED BY <1>1, ConfigStart, ConfigStep, PTL DEF ConfigSpec

\* Settings, templates, forms and the requests about them always hold values of
\* the kinds the code writes.
THEOREM ConfigTypeCorrect == ConfigSpec => []ConfigTypeOK
<1>1. ConfigInv => ConfigTypeOK
  BY DEF ConfigInv
<1> QED BY <1>1, ConfigStart, ConfigStep, PTL DEF ConfigSpec
=============================================================================
