---------------------------- MODULE Verification ----------------------------
(***************************************************************************)
(* Profiles of companies and students, their documents and their review:   *)
(* apps/companies, apps/students and apps/documents, the console's pages   *)
(* that review and edit (core/views.py) with their audit log, and the      *)
(* cached verification status of a student.  Requests read first and write *)
(* later; in between others write.                                         *)
(***************************************************************************)
EXTENDS Naturals

CONSTANTS Company, Student,
          DocType,    \* the document types a company has to upload
          DocId,      \* keys of document rows
          Worker,     \* requests in progress at the same time
          MaxEdits,   \* bound: saved edits of profiles
          MaxFaults,  \* bound: crashes, and calls that Redis refuses
          None

Owner == Company \cup Student

Profile == [status: {"PENDING", "APPROVED", "REJECTED"},
            reason: BOOLEAN,     \* rejection_reason is not empty
            reviewed: BOOLEAN,   \* reviewed_by is set
            data: 0..MaxEdits]   \* the columns of the profile form

\* What an administrator does to a profile and the audit log tells of.
Deed == {"APPROVED", "REJECTED", "edited", "deactivated"}

ASSUME VerificationAssumption ==
  /\ Company \cap Student = {} /\ None \notin Owner \cup DocType \cup DocId
  /\ None \notin Profile \cup Deed
  /\ MaxEdits \in Nat /\ MaxFaults \in Nat

VARIABLES
  profile,  \* profile[o]: the profile row, or None
  active,   \* active[o]: is_active of the account
  doc,      \* doc[i]: a document row, or None
  cache,    \* cache[s]: the verification status in Redis, or None
  audit,    \* the rows of the audit log about profiles
  job,      \* job[w]: the request of worker w
  edits,    \* history: saved edits so far, and edited[o] the last one of o
  edited,
  vetted,   \* history: companies approved with all documents there
  posted,   \* history: companies that were let in to post a slot
  faults

vars == <<profile, active, doc, cache, audit, job, edits, edited, vetted, posted, faults>>
rows == <<profile, active, doc, cache, audit>>
history == <<edits, edited, vetted, posted>>

\* The defaults of the two models.
NewProfile(o) == [status |-> IF o \in Student THEN "APPROVED" ELSE "PENDING",
                  reason |-> FALSE, reviewed |-> FALSE, data |-> 0]

\* scan is "none" while no task is queued; answer is what the uploader was told.
Document == [owner: Owner, type: DocType, file: BOOLEAN,
             scan: {"none", "queued", "CLEAN", "ERROR"}, answer: {"none", "ok", "error"}]

\* A row of the audit log; who did it and when is left out.
AuditLog == [action: Deed, owner: Owner]

\* deed: what the request will have done, when the audit log is to tell of it.
Idle == [pc |-> "idle", owner |-> None, seen |-> None, doc |-> None, deed |-> None]

Init == /\ profile = [o \in Owner |-> None]
        /\ active \in [Owner -> BOOLEAN]
        /\ doc = [i \in DocId |-> None]
        /\ cache = [s \in Student |-> None]
        /\ audit = {}
        /\ job = [w \in Worker |-> Idle]
        /\ edits = 0
        /\ edited = [o \in Owner |-> 0]
        /\ vetted = {}
        /\ posted = {}
        /\ faults = 0

HasType(o, type) == \E i \in DocId : doc[i] # None /\ doc[i].owner = o /\ doc[i].type = type

\* _missing_docs: students need no document.
Complete(o) == o \in Student \/ \A type \in DocType : HasType(o, type)

Begin(w, pc, o, seen, i, deed) ==
  /\ job[w] = Idle
  /\ job' = [job EXCEPT ![w] = [pc |-> pc, owner |-> o, seen |-> seen, doc |-> i,
                                deed |-> deed]]

At(w, pc) == job[w].pc = pc
Goto(w, pc) == job' = [job EXCEPT ![w].pc = pc]
End(w) == job' = [job EXCEPT ![w] = Idle]

\* The views of the console write the audit log after everything else.
Recorded(w) == IF job[w].deed = None THEN End(w) ELSE Goto(w, "audit")

\* The receivers of post_save: a student's cached status is deleted first.
Saved(w) == IF job[w].owner \in Student THEN Goto(w, "invalidate") ELSE Recorded(w)

-----------------------------------------------------------------------------
(* Editing a profile: the owner's page and the console's two edit pages *)

StartEdit(w, o) == /\ active[o]
                   /\ Begin(w, "edit", o, profile[o], None, None)
                   /\ UNCHANGED <<rows, history, faults>>

ConsoleEdit(w, o) == /\ profile[o] # None
                     /\ Begin(w, "edit", o, profile[o], None, "edited")
                     /\ UNCHANGED <<rows, history, faults>>
StudentEdit(w, s) == ConsoleEdit(w, s)
CompanyEdit(w, c) == ConsoleEdit(w, c)

\* form.save() writes every column of the row as it was read.  A second first
\* profile of one user is refused by the unique key.
SaveEdit(w) ==
  LET o == job[w].owner
      read == IF job[w].seen = None THEN NewProfile(o) ELSE job[w].seen
  IN  /\ At(w, "edit")
      /\ edits < MaxEdits
      /\ IF job[w].seen = None /\ profile[o] # None
         THEN End(w) /\ UNCHANGED <<profile, edits, edited>>
         ELSE /\ profile' = [profile EXCEPT ![o] = [read EXCEPT !.data = edits + 1]]
              /\ edits' = edits + 1
              /\ edited' = [edited EXCEPT ![o] = edits + 1]
              /\ Saved(w)
      /\ UNCHANGED <<active, doc, cache, audit, vetted, posted, faults>>

Invalidate(w) == /\ At(w, "invalidate")
                 /\ cache' = [cache EXCEPT ![job[w].owner] = None]
                 /\ Recorded(w)
                 /\ UNCHANGED <<profile, active, doc, audit, history, faults>>

WriteAudit(w) ==
  /\ At(w, "audit")
  /\ audit' = audit \cup {[action |-> job[w].deed, owner |-> job[w].owner]}
  /\ End(w)
  /\ UNCHANGED <<profile, active, doc, cache, history, faults>>

-----------------------------------------------------------------------------
(* Review *)

BeginReview(w, o, decision) ==
  /\ profile[o] # None
  /\ Begin(w, decision, o, profile[o], None,
           IF decision = "approve" THEN "APPROVED" ELSE "REJECTED")
  /\ UNCHANGED <<rows, history, faults>>

\* The POST of the two review pages.
StudentReview(w, s, decision) == BeginReview(w, s, decision)
CompanyReview(w, c, decision) == BeginReview(w, c, decision)

\* Mutant: the documents are not looked at.
SkipDocuments(w) == /\ At(w, "approve")
                    /\ Goto(w, "save")
                    /\ vetted' = IF Complete(job[w].owner) THEN vetted \cup {job[w].owner}
                                                           ELSE vetted
                    /\ UNCHANGED <<rows, edits, edited, posted, faults>>

CheckDocuments(w) ==
  /\ At(w, "approve")
  /\ IF Complete(job[w].owner)
     THEN Goto(w, "save") /\ vetted' = vetted \cup {job[w].owner}
     ELSE End(w) /\ UNCHANGED vetted
  /\ UNCHANGED <<rows, edits, edited, posted, faults>>

\* Mutant: the review saves the whole row it has read.
ReviewedWholeRow(w, status) ==
  profile' = [profile EXCEPT ![job[w].owner] =
    [job[w].seen EXCEPT !.status = status, !.reason = status = "REJECTED", !.reviewed = TRUE]]

\* save(update_fields=...): the columns of the review and no others.
Reviewed(w, status) ==
  profile' = [profile EXCEPT ![job[w].owner] =
    [@ EXCEPT !.status = status, !.reason = status = "REJECTED", !.reviewed = TRUE]]

\* Mutant: an approval is not written to the audit log.
SaveApprovalUnaudited(w) ==
  /\ At(w, "save")
  /\ Reviewed(w, "APPROVED")
  /\ IF job[w].owner \in Student
     THEN job' = [job EXCEPT ![w].pc = "invalidate", ![w].deed = None] ELSE End(w)
  /\ UNCHANGED <<active, doc, cache, audit, history, faults>>

SaveApproval(w) == /\ At(w, "save")
                   /\ Reviewed(w, "APPROVED")
                   /\ Saved(w)
                   /\ UNCHANGED <<active, doc, cache, audit, history, faults>>

\* Mutant: update_fields does not name the reason.
SaveRejectionSilently(w) ==
  /\ At(w, "reject")
  /\ profile' = [profile EXCEPT ![job[w].owner] =
                   [@ EXCEPT !.status = "REJECTED", !.reviewed = TRUE]]
  /\ Saved(w)
  /\ UNCHANGED <<active, doc, cache, audit, history, faults>>

\* A rejection without a reason changes nothing.
SaveRejection(w) == /\ At(w, "reject")
                    /\ Reviewed(w, "REJECTED")
                    /\ Saved(w)
                    /\ UNCHANGED <<active, doc, cache, audit, history, faults>>

Deactivate(w, o) == /\ profile[o] # None
                    /\ active' = [active EXCEPT ![o] = FALSE]
                    /\ Begin(w, "audit", o, None, None, "deactivated")
                    /\ UNCHANGED <<profile, doc, cache, audit, history, faults>>

-----------------------------------------------------------------------------
(* What a review opens: posting slots, and the marketplace *)

StartPost(w, c) == /\ active[c] /\ profile[c] # None
                   /\ Begin(w, "post", c, profile[c], None, None)
                   /\ UNCHANGED <<rows, history, faults>>

\* Mutant: only the documents are required.
PostWithDocuments(w) ==
  /\ At(w, "post")
  /\ posted' = IF Complete(job[w].owner) THEN posted \cup {job[w].owner} ELSE posted
  /\ End(w)
  /\ UNCHANGED <<rows, edits, edited, vetted, faults>>

\* _require_approved_company: the documents of now, the approval as read before.
RequireApproved(w) ==
  /\ At(w, "post")
  /\ posted' = IF Complete(job[w].owner) /\ job[w].seen.status = "APPROVED"
               THEN posted \cup {job[w].owner} ELSE posted
  /\ End(w)
  /\ UNCHANGED <<rows, edits, edited, vetted, faults>>

\* marketplace: the cached status, or a load of it.
OpenMarketplace(w, s) == /\ active[s] /\ cache[s] = None
                         /\ Begin(w, "load", s, None, None, None)
                         /\ UNCHANGED <<rows, history, faults>>

LoadStatus(w) == /\ At(w, "load")
                 /\ job' = [job EXCEPT ![w].pc = "store", ![w].seen = profile[job[w].owner]]
                 /\ UNCHANGED <<rows, history, faults>>

StoreStatus(w) ==
  /\ At(w, "store")
  /\ cache' = [cache EXCEPT ![job[w].owner] =
                 job[w].seen # None /\ job[w].seen.status = "APPROVED"]
  /\ End(w)
  /\ UNCHANGED <<profile, active, doc, audit, history, faults>>

\* VERIFICATION_CACHE_TTL is over.
StatusExpires(s) == /\ cache[s] # None
                    /\ cache' = [cache EXCEPT ![s] = None]
                    /\ UNCHANGED <<profile, active, doc, audit, job, history, faults>>

-----------------------------------------------------------------------------
(* Documents: upload_document, enqueue_once, the scan, delete_document *)

\* The form offers the types the company has no document of.
StartUpload(w, c, type) == /\ active[c] /\ ~HasType(c, type)
                           /\ Begin(w, "upload", c, type, None, None)
                           /\ UNCHANGED <<rows, history, faults>>

\* The student's vault: any type, any number of times, and no deletion.
StudentUpload(w, s, type) == /\ active[s]
                             /\ Begin(w, "upload", s, type, None, None)
                             /\ UNCHANGED <<rows, history, faults>>

\* UUIDs: no row has the key, and no request still means an earlier row by it.
FreshKey == {i \in DocId : doc[i] = None /\ \A w \in Worker : job[w].doc # i}

\* Document.save with validate_upload; a refused file changes nothing.
StoreDocument(w) ==
  /\ At(w, "upload")
  /\ \E i \in FreshKey :
       /\ doc' = [doc EXCEPT ![i] = [owner |-> job[w].owner, type |-> job[w].seen,
                                     file |-> TRUE, scan |-> "none", answer |-> "none"]]
       /\ job' = [job EXCEPT ![w].pc = "enqueue", ![w].doc = i]
  /\ UNCHANGED <<profile, active, cache, audit, history, faults>>

RefuseFile(w) == /\ At(w, "upload")
                 /\ End(w)
                 /\ UNCHANGED <<rows, history, faults>>

Answer(i, scan, answer) ==
  doc' = IF doc[i] = None THEN doc
         ELSE [doc EXCEPT ![i].scan = IF scan THEN "queued" ELSE doc[i].scan,
                          ![i].answer = answer]

\* enqueue_once: the mark is set, the task is sent and the uploader told so.
SendScan(w) == /\ At(w, "enqueue") \/ At(w, "again")
               /\ Answer(job[w].doc, TRUE, "ok")
               /\ End(w)
               /\ UNCHANGED <<profile, active, cache, audit, history, faults>>

\* Setting the mark or sending the task raises: the outer handler sends again.
SendRaises(w) == /\ At(w, "enqueue")
                 /\ faults < MaxFaults
                 /\ faults' = faults + 1
                 /\ Goto(w, "again")
                 /\ UNCHANGED <<rows, history>>

\* Mutant: the handler of enqueue_once swallows the second exception.
SendGivesUp(w) == /\ At(w, "again")
                  /\ faults < MaxFaults
                  /\ faults' = faults + 1
                  /\ Answer(job[w].doc, FALSE, "ok")
                  /\ End(w)
                  /\ UNCHANGED <<profile, active, cache, audit, history>>

\* The second send raises too: an error page, and a document without a scan.
SendRaisesAgain(w) == /\ At(w, "again")
                      /\ faults < MaxFaults
                      /\ faults' = faults + 1
                      /\ Answer(job[w].doc, FALSE, "error")
                      /\ End(w)
                      /\ UNCHANGED <<profile, active, cache, audit, history>>

\* documents.scan: _deep_scan passes or rejects the file, which must be there.
ScanDocument(i) ==
  /\ doc[i] # None
  /\ doc[i].scan = "queued"
  /\ \E verdict \in {"CLEAN", "ERROR"} :
       /\ verdict = "CLEAN" => doc[i].file
       /\ doc' = [doc EXCEPT ![i].scan = verdict]
  /\ UNCHANGED <<profile, active, cache, audit, job, history, faults>>

\* delete_document is a page of companies.
DeleteFile(w, i) == /\ doc[i] # None
                    /\ doc[i].owner \in Company /\ active[doc[i].owner]
                    /\ Begin(w, "delete", doc[i].owner, None, i, None)
                    /\ doc' = [doc EXCEPT ![i].file = FALSE]
                    /\ UNCHANGED <<profile, active, cache, audit, history, faults>>

DeleteRow(w) == /\ At(w, "delete")
                /\ doc' = [doc EXCEPT ![job[w].doc] = None]
                /\ End(w)
                /\ UNCHANGED <<profile, active, cache, audit, history, faults>>

Crash(w) == /\ job[w] # Idle
            /\ faults < MaxFaults
            /\ faults' = faults + 1
            /\ End(w)
            /\ UNCHANGED <<rows, history>>

-----------------------------------------------------------------------------
Next ==
  \/ \E w \in Worker :
       \/ \E o \in Owner : StartEdit(w, o) \/ Deactivate(w, o)
       \/ \E s \in Student : StudentEdit(w, s)
       \/ \E c \in Company : CompanyEdit(w, c)
       \/ \E d \in {"approve", "reject"} : \/ \E s \in Student : StudentReview(w, s, d)
                                           \/ \E c \in Company : CompanyReview(w, c, d)
       \/ SaveEdit(w) \/ Invalidate(w) \/ WriteAudit(w)
       \/ CheckDocuments(w) \/ SaveApproval(w) \/ SaveRejection(w)
       \/ \E c \in Company : StartPost(w, c) \/ \E type \in DocType : StartUpload(w, c, type)
       \/ RequireApproved(w)
       \/ \E s \in Student : \/ OpenMarketplace(w, s)
                              \/ \E type \in DocType : StudentUpload(w, s, type)
       \/ LoadStatus(w) \/ StoreStatus(w)
       \/ StoreDocument(w) \/ RefuseFile(w) \/ SendScan(w) \/ SendRaises(w) \/ SendRaisesAgain(w)
       \/ \E i \in DocId : DeleteFile(w, i)
       \/ DeleteRow(w) \/ Crash(w)
  \/ \E s \in Student : StatusExpires(s)
  \/ \E i \in DocId : ScanDocument(i)

Spec == Init /\ [][Next]_vars

-----------------------------------------------------------------------------
(* Properties *)

TypeOK == /\ profile \in [Owner -> Profile \cup {None}]
          /\ active \in [Owner -> BOOLEAN]
          /\ doc \in [DocId -> Document \cup {None}]
          /\ cache \in [Student -> BOOLEAN \cup {None}]
          /\ audit \subseteq AuditLog
          /\ \A w \in Worker : job[w] = Idle \/ job[w].owner \in Owner
          /\ vetted \subseteq Owner /\ posted \subseteq Company

\* However edits, reviews and deletions of documents interleave, a company that
\* is APPROVED was at some time approved by an administrator with every required
\* document there.  It says no more: a stale save of the form can bring back
\* such an approval after a later rejection.
ApprovedWasVetted ==
  \A c \in Company : profile[c] # None /\ profile[c].status = "APPROVED" => c \in vetted

\* Only a company approved so at some time was ever let in to post a slot; it
\* may have been rejected since.
PostedWasVetted == posted \subseteq vetted

\* A review that runs beside an edit of the same profile never undoes the edit:
\* the profile shows what was saved last.
NoEditIsLost == \A o \in Owner : profile[o] # None => profile[o].data = edited[o]

\* The columns of a review belong to one decision, also when two administrators
\* decide at once or a stale edit brings back an older one.
ReviewIsWhole ==
  \A o \in Owner : profile[o] # None =>
    /\ profile[o].reason <=> profile[o].status = "REJECTED"
    /\ profile[o].reason => profile[o].reviewed

\* An uploader who is told that the document will be reviewed has its scan
\* queued, whatever Redis refused in between.
AnsweredMeansQueued ==
  \A i \in DocId : doc[i] # None /\ doc[i].answer = "ok" => doc[i].scan # "none"

\* The request in progress will write this row of the audit log.
Owed(entry) == \E w \in Worker : /\ job[w].pc \in {"invalidate", "audit"}
                                  /\ job[w].deed = entry.action
                                  /\ job[w].owner = entry.owner

\* The audit log tells of deeds that were done and, as long as no request died,
\* of every decision that a profile shows, also one that a stale edit brought
\* back.
AuditMatchesDeeds ==
  /\ \A e \in audit :
       /\ e.action = "APPROVED" => e.owner \in vetted
       /\ e.action = "edited" => edited[e.owner] > 0
       /\ e.action = "deactivated" => ~active[e.owner]
  /\ faults = 0 => \A o \in Owner :
       profile[o] # None /\ profile[o].reviewed =>
         LET decision == [action |-> profile[o].status, owner |-> o]
         IN  decision \in audit \/ Owed(decision)
=============================================================================
