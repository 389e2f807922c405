---------------------------- MODULE TailoredResumes ----------------------------
(***************************************************************************)
(* The documents of one application: which résumé and which letter reach   *)
(* the employer.  Attempts of the apply task tailor a résumé or reuse one, *)
(* fill the form with its file, park for review and, once approved, start  *)
(* from the top and submit.  Meanwhile the owner compares, chooses and     *)
(* edits, and a batch prepares documents overnight.  Every one of them     *)
(* reads the application's row early and writes what it changed late.      *)
(* Leases, fences and the ledger are ApplyLedger's; here one attempt runs   *)
(* at a time.                                                              *)
(***************************************************************************)
EXTENDS Integers, FiniteSets, FiniteSetsExt

CONSTANTS
  Postings,     \* what a posting, its projects and the base can read like
  Gainless,     \* those a targeted run has nothing to do for
  UsedModes,    \* TAILOR_MODE as the owner sets it
  MaxResumes, MaxLetters, MaxIncidents  \* bounds of the model

ASSUME TailoredAssumption ==
  /\ Gainless \subseteq Postings /\ UsedModes \subseteq {"rewrite", "targeted"}
  /\ {MaxResumes, MaxLetters, MaxIncidents} \subseteq Nat

VARIABLES
  application,  \* the row, as committed
  locked,       \* whether the attempt has written the row, which locks it
  resumes,      \* the tailored documents ever stored
  files,        \* storage reference -> the document whose bytes are there
  letterFile,   \* the letter whose bytes are under the application's key
  prepared,     \* match.tailored_resume_id
  now,          \* the posting, projects and base as they read now, and the mode
  attempt,      \* what the running attempt of the apply task has in hand
  errand,       \* what the owner's request has in hand
  batch,        \* the document a batch has stored and not committed
  letters, incidents, \* bounds
  reviewed,     \* history: what the owner approved
  sent,         \* history: what the employer received
  overwrote     \* history: a record was written over one its writer had not read

tailoredVars == <<application, locked, resumes, files, letterFile, prepared, now, attempt,
                  errand, batch, letters, incidents, reviewed, sent, overwrote>>

\* No tailored document: the profile's base is the one sent.
Base == 0
Unkeyed == [posting |-> "none", mode |-> "none"]

Documents == 1..MaxResumes
Stored == DOMAIN resumes
Reading == [posting : Postings, mode : UsedModes]
\* review_json, as far as it matters here.
Reviews == [pin : 0..MaxResumes, approved : BOOLEAN, offered : SUBSET Documents,
            letter : 0..MaxLetters]
ApplicationRows == [status : {"queued", "running", "needs_review", "submitted"},
                    attached : 0..MaxResumes, review : Reviews]
\* whole: no provider failed in it; holds: its PDF, where that is checked, has
\* what it says.
\* at: who stored it and has not committed, "database", or "gone".
ResumeRows == [key : Reading \cup {Unkeyed}, mode : UsedModes, whole : BOOLEAN, holds : BOOLEAN,
               ref : Documents, at : {"attempt", "batch", "database", "gone"}]
InHand == [phase : {"idle", "tailoring", "writing", "filling", "deciding"},
           row : ApplicationRows, read : Reading, attached : 0..MaxResumes,
           letter : 0..MaxLetters, bytes : 0..MaxResumes, letterBytes : 0..MaxLetters]
Errands == [kind : {"none", "compare", "select", "edit"}, review : Reviews]

TailoredTypeOK ==
  /\ application \in ApplicationRows
  /\ locked \in BOOLEAN
  /\ Stored = 1..Cardinality(Stored) /\ \A d \in Stored : resumes[d] \in ResumeRows
  /\ DOMAIN files \subseteq Documents /\ \A f \in DOMAIN files : files[f] \in Stored
  /\ letterFile \in 0..MaxLetters /\ letters \in 0..MaxLetters
  /\ prepared \in 0..MaxResumes /\ now \in Reading
  /\ attempt \in InHand /\ errand \in Errands
  /\ batch \in 0..MaxResumes
  /\ incidents \in 0..MaxIncidents
  /\ overwrote \in BOOLEAN

NewReview == [pin |-> 0, approved |-> FALSE, offered |-> {}, letter |-> 0]
NewRow == [status |-> "queued", attached |-> Base, review |-> NewReview]
EmptyHand(r) == [phase |-> "idle", row |-> NewRow, read |-> r, attached |-> Base, letter |-> 0,
                 bytes |-> 0, letterBytes |-> 0]
NoErrand == [kind |-> "none", review |-> NewReview]
Nothing == [resume |-> Base, letter |-> 0, pin |-> 0]
NothingSent == [resume |-> Base, bytes |-> 0, letter |-> 0, letterBytes |-> 0, pin |-> 0]

TailoredInit ==
  /\ application = NewRow /\ locked = FALSE
  /\ resumes = [d \in {} |-> Base] /\ files = [f \in {} |-> Base] /\ letterFile = 0
  /\ prepared = 0 /\ now \in {r \in Reading : r.mode = "rewrite"}
  /\ attempt = EmptyHand(now) /\ errand = NoErrand
  /\ batch = 0 /\ letters = 0 /\ incidents = 0
  /\ reviewed = Nothing /\ sent = NothingSent /\ overwrote = FALSE

Incident == incidents < MaxIncidents /\ incidents' = incidents + 1

-----------------------------------------------------------------------------
(* Storing and finding documents. *)

\* What a transaction of `who` sees.
SeenBy(who) == {d \in Stored : resumes[d].at \in {"database", who}}
\* _next_version: one more than the highest the transaction sees; the file's
\* name is made of it, and nothing keeps two rows from one version.
NextVersion(who) == Max({0} \cup {resumes[d].ref : d \in SeenBy(who)}) + 1

\* publish_tailored: the bytes are stored before the row, which is not yet
\* committed.  Only a whole document has a key.
StoredBy(who, d, key, whole, holds, mode) ==
  LET ref == NextVersion(who)
  IN /\ d = Cardinality(Stored) + 1 /\ d <= MaxResumes
     /\ resumes' = [e \in Stored \cup {d} |->
          IF e = d THEN [key |-> key, mode |-> mode, whole |-> whole, holds |-> holds,
                          ref |-> ref, at |-> who]
          ELSE resumes[e]]
     /\ files' = [f \in DOMAIN files \cup {ref} |-> IF f = ref THEN d ELSE files[f]]

Committed(who) ==
  [d \in Stored |-> IF resumes[d].at = who THEN [resumes[d] EXCEPT !.at = "database"] ELSE resumes[d]]
RolledBackOf(who) ==
  [d \in Stored |-> IF resumes[d].at = who THEN [resumes[d] EXCEPT !.at = "gone"] ELSE resumes[d]]

\* find_cached: the newest of those with this key.
Cached(who, key) ==
  LET found == {d \in SeenBy(who) : resumes[d].key = key}
  IN IF found = {} THEN {} ELSE {Max(found)}

\* Mutant: the key stays on a document that failed its check.
KeyStays(key, complete, holds) == IF complete THEN key ELSE Unkeyed

\* The key a document is left with: one a provider failed in was never given
\* it, and one that does not hold what it says is taken out again.
KeyOf(key, complete, holds) == IF complete /\ holds THEN key ELSE Unkeyed

-----------------------------------------------------------------------------
(* An attempt of the apply task. *)

Phase(phase) == attempt.phase = phase
\* handle_apply: a queued application is started, which locks its row; a
\* running one is resumed from the copy that was read, and the first change of
\* it that reaches the database locks the row.
BeginAttempt ==
  /\ Phase("idle") /\ application.status \in {"queued", "running"}
  /\ locked' = (application.status = "queued")
  /\ attempt' = [phase |-> "tailoring", row |-> application, read |-> now,
                 attached |-> application.attached, letter |-> 0, bytes |-> 0, letterBytes |-> 0]
  /\ UNCHANGED <<application, resumes, files, letterFile, prepared, now, errand, batch, letters,
                 incidents, reviewed, sent, overwrote>>

\* The attempt goes on to the letter with this document; the change, if it is
\* one, is flushed by the next query.
Attaches(d) ==
  /\ locked' = (locked \/ d # attempt.row.attached)
  /\ attempt' = [attempt EXCEPT !.phase = "filling", !.attached = d]

\* The owner's choice, where the row still points at it.
PinHolds(row) == row.review.pin # 0 /\ row.review.pin = row.attached

\* Only an ordinary run takes what a batch prepared, and only of its own mode.
PreparedFor(read) ==
  /\ read.mode = "rewrite" /\ prepared # 0
  /\ resumes[prepared].mode = read.mode

NothingToGain(read) == read.mode = "targeted" /\ read.posting \in Gainless

\* _tailor, as far as it asks no model.
ReuseResume ==
  /\ Phase("tailoring")
  /\ LET row == attempt.row
         read == attempt.read
     IN \/ PinHolds(row) /\ Attaches(row.attached)
        \/ ~PinHolds(row) /\ PreparedFor(read) /\ Attaches(prepared)
        \/ /\ ~PinHolds(row) /\ ~PreparedFor(read) /\ NothingToGain(read)
           /\ Attaches(Base)
        \/ /\ ~PinHolds(row) /\ ~PreparedFor(read) /\ ~NothingToGain(read)
           /\ \E d \in Cached("attempt", read) : Attaches(d)
        \/ /\ ~PinHolds(row) /\ ~PreparedFor(read) /\ ~NothingToGain(read)
           /\ Cached("attempt", read) = {}
           /\ attempt' = [attempt EXCEPT !.phase = "writing"] /\ UNCHANGED locked
  /\ UNCHANGED <<application, resumes, files, letterFile, prepared, now, errand, batch, letters,
                 incidents, reviewed, sent, overwrote>>

\* The model has answered, for all bullets or not for all, and the document is
\* stored; a targeted one is read back and dropped if it does not hold what it
\* says, for the base.
TailorResume ==
  /\ Phase("writing")
  /\ \E complete \in BOOLEAN, holds \in BOOLEAN :
       LET d == Cardinality(Stored) + 1
           read == attempt.read
       IN /\ read.mode = "rewrite" => holds
          /\ StoredBy("attempt", d, KeyOf(read, complete, holds), complete, holds, read.mode)
          /\ Attaches(IF holds THEN d ELSE Base)
  /\ UNCHANGED <<application, letterFile, prepared, now, errand, batch, letters, incidents, reviewed, sent, overwrote>>

\* An error leaves attached what was.
TailoringFails ==
  /\ Phase("writing") /\ Attaches(attempt.row.attached)
  /\ UNCHANGED <<application, resumes, files, letterFile, prepared, now, errand, batch, letters,
                 incidents, reviewed, sent, overwrote>>

\* _cover_letter: the letter there is, or a new one under the same name, or
\* none, when the guard refuses what was written.
LetterOf ==
  LET has == attempt.row.review.letter
  IN IF has # 0 THEN {has} ELSE {0} \cup {n \in {letters + 1} : n <= MaxLetters}

\* The letter is written and the files are put in the form: the attached
\* document's, or the base.
FillForm ==
  /\ Phase("filling")
  /\ \E letter \in LetterOf :
       LET d == attempt.attached
       IN /\ letterFile' = IF letter > letters THEN letter ELSE letterFile
          /\ letters' = Max({letters, letter})
          /\ attempt' = [phase |-> "deciding", row |-> attempt.row, read |-> attempt.read,
                         attached |-> d, letter |-> letter,
                         bytes |-> IF d = Base THEN Base ELSE files[resumes[d].ref],
                         letterBytes |-> IF letter = 0 THEN 0 ELSE letterFile']
  /\ UNCHANGED <<application, locked, resumes, files, prepared, now, errand, batch,
                 incidents, reviewed, sent, overwrote>>

\* Of the attempt's copy, only what it changed is written: the whole review
\* record, and the document when it is another.
WrittenBy(status) ==
  LET hand == attempt
  IN [status |-> status,
      attached |-> IF hand.attached # hand.row.attached THEN hand.attached
                   ELSE application.attached,
      review |-> [hand.row.review EXCEPT !.letter = hand.letter]]

\* _decide: without the owner's approval in its copy, or with a form that is not
\* complete, the attempt parks; otherwise it submits.
Decide ==
  /\ Phase("deciding")
  /\ LET hand == attempt
     IN /\ overwrote' = (overwrote \/ hand.row.review # application.review)
        /\ \/ /\ application' = WrittenBy("needs_review") /\ UNCHANGED sent
           \/ /\ hand.row.review.approved
              /\ application' = WrittenBy("submitted")
              /\ sent' = [resume |-> hand.attached, bytes |-> hand.bytes,
                          letter |-> hand.letter, letterBytes |-> hand.letterBytes,
                          pin |-> hand.row.review.pin]
  /\ resumes' = Committed("attempt") /\ locked' = FALSE
  /\ attempt' = EmptyHand(now)
  /\ UNCHANGED <<files, letterFile, prepared, now, errand, batch, letters, incidents, reviewed>>

\* An attempt dies, or finds its claim gone: what it has not committed is
\* undone, the files it stored stay as they are.
FallOver ==
  /\ ~Phase("idle")
  /\ Incident
  /\ attempt' = EmptyHand(now)
  /\ resumes' = RolledBackOf("attempt") /\ locked' = FALSE
  /\ UNCHANGED <<application, files, letterFile, prepared, now, errand, batch, letters,
                 reviewed, sent, overwrote>>

-----------------------------------------------------------------------------
(* The owner. *)

\* A request reads the row, without a lock.  Choosing is open whatever the
\* status is, to whom a comparison was shown.
BeginErrand(kind) ==
  /\ errand.kind = "none" /\ Incident
  /\ kind \in {"compare", "edit"} => application.status = "needs_review"
  /\ kind = "select" => application.review.offered # {}
  /\ errand' = [kind |-> kind, review |-> application.review]
  /\ UNCHANGED <<application, locked, resumes, files, letterFile, prepared, now, attempt, batch,
                 letters, reviewed, sent, overwrote>>

\* What the request does to the copy it read is written as a whole.
Returns(attached, review) ==
  /\ ~locked
  /\ application' = [status |-> application.status, attached |-> attached, review |-> review]
  /\ overwrote' = (overwrote \/ errand.review # application.review)
  /\ errand' = NoErrand
  /\ UNCHANGED <<locked, letterFile, prepared, now, attempt, batch, letters, incidents, reviewed, sent>>

\* compare_tailoring: minutes later, with documents of other models.
OfferComparison ==
  /\ errand.kind = "compare"
  /\ LET d == Cardinality(Stored) + 1
         review == errand.review
     IN \/ /\ StoredBy("database", d, Unkeyed, TRUE, TRUE, now.mode)
           /\ Returns(application.attached, [review EXCEPT !.offered = {d}])
        \/ /\ UNCHANGED <<resumes, files>>
           /\ Returns(application.attached, [review EXCEPT !.offered = Cached("database", now)])

SelectTailoring ==
  /\ errand.kind = "select" /\ UNCHANGED <<resumes, files>>
  /\ \E d \in errand.review.offered :
       Returns(d, [errand.review EXCEPT !.pin = d])

\* edit_application_resume: the edit is a document of its own, and pinned.
EditResume ==
  /\ errand.kind = "edit"
  /\ LET d == Cardinality(Stored) + 1
     IN /\ StoredBy("database", d, Unkeyed, TRUE, TRUE, now.mode)
        /\ Returns(d, [errand.review EXCEPT !.pin = d])

\* review_application, which locks the row and reads it again.
Approve ==
  /\ application.status = "needs_review" /\ ~locked
  /\ application' = [status |-> "running", attached |-> application.attached,
                     review |-> [application.review EXCEPT !.approved = TRUE]]
  /\ reviewed' = [resume |-> application.attached, letter |-> application.review.letter,
                  pin |-> application.review.pin]
  /\ UNCHANGED <<locked, resumes, files, letterFile, prepared, now, attempt, errand, batch,
                 letters, incidents, sent, overwrote>>

-----------------------------------------------------------------------------
(* The batch, and what changes by itself. *)

\* The batch finds or makes a document for the posting, if none is prepared.
\* What a model failed in, and what does not hold what it says, it leaves.
BatchTailors ==
  /\ batch = 0 /\ prepared = 0 /\ ~NothingToGain(now)
  /\ IF Cached("batch", now) # {}
     THEN /\ batch' \in Cached("batch", now) /\ UNCHANGED <<resumes, files>>
     ELSE LET d == Cardinality(Stored) + 1
          IN \E holds \in BOOLEAN :
               /\ now.mode = "rewrite" => holds
               /\ StoredBy("batch", d, KeyOf(now, TRUE, holds), TRUE, holds, now.mode)
               /\ batch' = IF holds THEN d ELSE 0
  /\ UNCHANGED <<application, locked, letterFile, prepared, now, attempt, errand, letters,
                 incidents, reviewed, sent, overwrote>>

\* The end of the batch commits what it stored and prepared, or it dies before.
BatchEnds ==
  /\ \E d \in Stored : d = batch \/ resumes[d].at = "batch"
  /\ batch' = 0
  /\ \/ /\ prepared' = IF batch = 0 THEN prepared ELSE batch
        /\ resumes' = Committed("batch") /\ UNCHANGED incidents
     \/ /\ Incident
        /\ resumes' = RolledBackOf("batch") /\ UNCHANGED prepared
  /\ UNCHANGED <<application, locked, files, letterFile, now, attempt, errand, letters,
                 reviewed, sent, overwrote>>

\* The posting, the projects or the base read differently, or the owner sets
\* the other mode.
TimesTurn ==
  /\ Incident
  /\ \E r \in Reading : r # now /\ now' = r
  /\ UNCHANGED <<application, locked, resumes, files, letterFile, prepared, attempt, errand,
                 batch, letters, reviewed, sent, overwrote>>

AttemptStep ==
  \/ BeginAttempt \/ ReuseResume \/ TailorResume \/ TailoringFails
  \/ FillForm \/ Decide \/ FallOver
OwnerStep ==
  \/ \E kind \in {"compare", "select", "edit"} : BeginErrand(kind)
  \/ OfferComparison \/ SelectTailoring \/ EditResume \/ Approve

WasSent == application.status = "submitted"
\* Bound: what happens after the submission is left out.
TailoredNext ==
  /\ ~WasSent
  /\ AttemptStep \/ OwnerStep \/ BatchTailors \/ BatchEnds \/ TimesTurn

TailoredSpec == TailoredInit /\ [][TailoredNext]_tailoredVars

-----------------------------------------------------------------------------
\* No other document was ever stored under this one's name.
Unshared(d) == \A e \in Stored \ {d} : resumes[e].ref # resumes[d].ref

\* A document whose PDF did not hold what it says reaches no employer, over
\* whatever attempts, batches and caches; nor is one a provider failed in
\* found again.
NoneRefusedSent ==
  /\ WasSent /\ sent.bytes # Base /\ Unshared(sent.bytes) => resumes[sent.bytes].holds
  /\ \A d \in Stored : resumes[d].at = "database" /\ resumes[d].key # Unkeyed =>
                           resumes[d].whole /\ resumes[d].holds

\* What the owner chose or edited last is what is sent, and its bytes, unless
\* a writer put an older review record over it or another's file took its name.
ChoiceIsSent ==
  WasSent /\ ~overwrote =>
    /\ reviewed.pin # 0 => sent.pin # 0
    /\ sent.pin # 0 => /\ sent.resume = sent.pin
                       /\ Unshared(sent.pin) => sent.bytes = sent.pin

\* The letter that is sent is the one that was approved, though the attempt
\* that sends it starts from the top.
LetterIsSent ==
  WasSent /\ ~overwrote /\ reviewed.letter # 0 =>
    /\ sent.letter = reviewed.letter
    /\ sent.letterBytes = sent.letter

DocumentsHold == NoneRefusedSent /\ ChoiceIsSent /\ LetterIsSent

\* The résumé that is sent is the one attached when the owner approved.
ReviewedIsSent == WasSent => sent.resume = reviewed.resume
=============================================================================
