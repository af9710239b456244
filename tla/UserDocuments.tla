--------------------------- MODULE UserDocuments ---------------------------
(***************************************************************************)
(* The documents a user writes about a report: guided reviews (assessments *)
(* of windows and feedback on them) and manual corrections. PostgreSQL     *)
(* keeps the document; vod-web keeps a file of it, which every request     *)
(* that changes the document first restores from the database, then reads, *)
(* changes and writes, before it saves the result in the database: all of  *)
(* it under one mutex of the process. Requests that list a document        *)
(* restore the file, or save it in the database, without that mutex.       *)
(***************************************************************************)
EXTENDS Naturals, FiniteSets

CONSTANTS
  Documents,   \* the (owner, kind, vod_label, report_run_id) of a document
  Slots,       \* windows of a guided review; every correction has its own
  Requests,    \* the HTTP requests
  OpOf,        \* what each asks: "assess", "feedback", "correct", "list"
  DocOf,       \* of which document
  SlotOf,      \* for which slot
  None,
  MaxFaults    \* bound on failed calls and restarts

ASSUME DocumentAssumption ==
  /\ OpOf \in [Requests -> {"assess", "feedback", "correct", "list"}]
  /\ DocOf \in [Requests -> Documents]
  /\ SlotOf \in [Requests -> Slots]
  /\ None \notin Requests
  /\ MaxFaults \in Nat
  /\ IsFiniteSet(Requests)

VARIABLES
  db,       \* user_documents: the body of every document
  file,     \* the file of every document on the disk of vod-web
  mutex,    \* guidedMu: the request that holds it, or None
  req,      \* where every request is, and the copy of the document it holds
  turn,     \* history: the order in which the requests took the mutex
  racing,   \* history: the lists in flight when a request saved its change
  known,    \* history: what was answered and unraced when a list began
  faults

vars == <<db, file, mutex, req, turn, racing, known, faults>>

Answers == {"ok", "error", "refused", "gone"}
Steps == {"idle", "lock", "hydrate", "restore", "change", "write", "save",
          "find", "copy", "read", "keep"}

\* What was written last into a slot, and the feedback on it.
Entry == [by : Requests \cup {None}, feedback : Requests \cup {None}]
NoEntry == [by |-> None, feedback |-> None]

\* A document without entries is not stored: the file or the row is missing.
Document == [Slots -> Entry]
Empty == [s \in Slots |-> NoEntry]

Request == [pc : Steps \cup Answers, doc : Document]

Changes(r) == OpOf[r] # "list"
Answered(r) == req[r].pc \in Answers
Listing(r) == req[r].pc \in {"copy", "read", "keep"}

\* The change r made, or a later one of the same kind, is in the document.
Holds(document, r) ==
  LET entry == document[SlotOf[r]]
      last == IF OpOf[r] = "feedback" THEN entry.feedback ELSE entry.by IN
  last # None /\ turn[last] >= turn[r]

\* Acknowledged changes that no list could have undone when they were saved.
Settled == {r \in Requests : Changes(r) /\ req[r].pc = "ok" /\ racing[r] = {}}

Init ==
  /\ db = [d \in Documents |-> Empty]
  /\ file = [d \in Documents |-> Empty]
  /\ mutex = None
  /\ req = [r \in Requests |-> [pc |-> "idle", doc |-> Empty]]
  /\ turn = [r \in Requests |-> 0]
  /\ racing = [r \in Requests |-> {}]
  /\ known = [r \in Requests |-> {}]
  /\ faults = 0

Fault ==
  /\ faults < MaxFaults
  /\ faults' = faults + 1

Move(r, pc, doc) == req' = [req EXCEPT ![r] = [pc |-> pc, doc |-> doc]]
Answer(r, answer) == Move(r, answer, Empty)
Keep == UNCHANGED <<turn, racing, known>>

-----------------------------------------------------------------------------
(* handleCreateCoachAssessment, handleCoachFeedback, handleCreateCorrection *)

\* guidedMu.Lock.
Lock(r) ==
  /\ Changes(r)
  /\ req[r].pc = "idle"
  /\ mutex = None
  /\ mutex' = r
  /\ turn' = [turn EXCEPT ![r] = 1 + Cardinality({q \in Requests : turn[q] > 0})]
  /\ Move(r, "hydrate", Empty)
  /\ UNCHANGED <<db, file, racing, known, faults>>

\* Mutant: the file is trusted as it is.
HydrateNothing(r) ==
  /\ req[r].pc = "hydrate"
  /\ Move(r, "change", Empty)
  /\ UNCHANGED <<db, file, mutex, faults>> /\ Keep

\* hydrateGuidedReviews, hydrateManualCorrections: the row is read ...
Hydrate(r) ==
  /\ req[r].pc = "hydrate"
  /\ \/ /\ Move(r, IF db[DocOf[r]] = Empty THEN "change" ELSE "restore", db[DocOf[r]])
        /\ UNCHANGED <<mutex, faults>>
     \/ Fault /\ mutex' = None /\ Answer(r, "error")
  /\ UNCHANGED <<db, file>> /\ Keep

\* ... and replaces the file (a temporary file renamed over it).
Restore(r) ==
  /\ req[r].pc = "restore"
  /\ \/ /\ file' = [file EXCEPT ![DocOf[r]] = req[r].doc]
        /\ Move(r, "change", Empty)
        /\ UNCHANGED <<mutex, faults>>
     \/ Fault /\ mutex' = None /\ Answer(r, "error") /\ UNCHANGED file
  /\ UNCHANGED db /\ Keep

\* SaveGuidedAssessment replaces the assessment of its window and keeps the
\* feedback; SaveCoachFeedback rates it; AppendManualCorrection appends.
Put(document, r) ==
  IF OpOf[r] = "feedback"
    THEN [document EXCEPT ![SlotOf[r]].feedback = r]
    ELSE [document EXCEPT ![SlotOf[r]].by = r]

\* Feedback needs an assessment of its window.
Refused(document, r) == OpOf[r] = "feedback" /\ document[SlotOf[r]].by = None

\* Mutant: a refusal forgets the mutex.
ChangeKeepsMutex(r) ==
  /\ req[r].pc = "change"
  /\ IF Refused(file[DocOf[r]], r)
       THEN Answer(r, "refused")
       ELSE Move(r, "write", Put(file[DocOf[r]], r))
  /\ UNCHANGED <<db, file, mutex, faults>> /\ Keep

\* The file is read and changed in memory.
Change(r) ==
  /\ req[r].pc = "change"
  /\ \/ /\ ~Refused(file[DocOf[r]], r)
        /\ Move(r, "write", Put(file[DocOf[r]], r))
        /\ UNCHANGED <<mutex, faults>>
     \/ /\ Refused(file[DocOf[r]], r)
        /\ mutex' = None
        /\ Answer(r, "refused")
        /\ UNCHANGED faults
     \/ Fault /\ mutex' = None /\ Answer(r, "error")
  /\ UNCHANGED <<db, file>> /\ Keep

\* Mutant: the mutex covers the file only.
WriteUnlocks(r) ==
  /\ req[r].pc = "write"
  /\ file' = [file EXCEPT ![DocOf[r]] = req[r].doc]
  /\ mutex' = None
  /\ Move(r, "save", req[r].doc)
  /\ UNCHANGED <<db, faults>> /\ Keep

\* writeGuidedReviews, SaveManualCorrections.
Write(r) ==
  /\ req[r].pc = "write"
  /\ \/ /\ file' = [file EXCEPT ![DocOf[r]] = req[r].doc]
        /\ Move(r, "save", req[r].doc)
        /\ UNCHANGED <<mutex, faults>>
     \/ Fault /\ mutex' = None /\ Answer(r, "error") /\ UNCHANGED file
  /\ UNCHANGED db /\ Keep

\* saveUserDocument and guidedMu.Unlock. A call that fails may have saved.
Save(r) ==
  /\ req[r].pc = "save"
  /\ \/ /\ db' = [db EXCEPT ![DocOf[r]] = req[r].doc]
        /\ Answer(r, "ok")
        /\ racing' = [racing EXCEPT ![r] =
             {q \in Requests : Listing(q) /\ DocOf[q] = DocOf[r]}]
        /\ UNCHANGED faults
     \/ /\ Fault
        /\ db' = [db EXCEPT ![DocOf[r]] = req[r].doc] \/ UNCHANGED db
        /\ Answer(r, "error")
        /\ UNCHANGED racing
  /\ mutex' = None
  /\ UNCHANGED <<file, turn, known>>

-----------------------------------------------------------------------------
(* handleListCoachAssessments, handleListCorrections: loadGuidedReviews and *)
(* loadManualCorrections, without the mutex.                                *)

\* The row is read.
Find(r) ==
  /\ OpOf[r] = "list"
  /\ req[r].pc = "idle"
  /\ known' = [known EXCEPT ![r] = Settled]
  /\ \/ /\ Move(r, IF db[DocOf[r]] = Empty THEN "read" ELSE "copy", db[DocOf[r]])
        /\ UNCHANGED faults
     \/ Fault /\ Answer(r, "error")
  /\ UNCHANGED <<db, file, mutex, turn, racing>>

\* A stored document replaces the file and is the answer (kept in req).
Copy(r) ==
  /\ req[r].pc = "copy"
  /\ \/ /\ file' = [file EXCEPT ![DocOf[r]] = req[r].doc]
        /\ Move(r, "ok", req[r].doc)
        /\ UNCHANGED faults
     \/ Fault /\ Answer(r, "error") /\ UNCHANGED file
  /\ UNCHANGED <<db, mutex>> /\ Keep

\* No row: the file is read and, unless it is empty, ...
Read(r) ==
  /\ req[r].pc = "read"
  /\ \/ /\ Move(r, IF file[DocOf[r]] = Empty THEN "ok" ELSE "keep", file[DocOf[r]])
        /\ UNCHANGED faults
     \/ Fault /\ Answer(r, "error")
  /\ UNCHANGED <<db, file, mutex>> /\ Keep

\* ... saved in the database.
KeepFile(r) ==
  /\ req[r].pc = "keep"
  /\ \/ /\ db' = [db EXCEPT ![DocOf[r]] = req[r].doc]
        /\ Move(r, "ok", req[r].doc)
        /\ UNCHANGED faults
     \/ /\ Fault
        /\ db' = [db EXCEPT ![DocOf[r]] = req[r].doc] \/ UNCHANGED db
        /\ Answer(r, "error")
  /\ UNCHANGED <<file, mutex>> /\ Keep

-----------------------------------------------------------------------------
\* vod-web restarts, with its disk or with an empty one.
Restart ==
  /\ Fault
  /\ mutex' = None
  /\ req' = [r \in Requests |->
       IF req[r].pc = "idle" \/ Answered(r) THEN req[r]
         ELSE [pc |-> "gone", doc |-> Empty]]
  /\ file' = [d \in Documents |-> Empty] \/ UNCHANGED file
  /\ UNCHANGED db /\ Keep

Handler(r) ==
  \/ Lock(r) \/ Hydrate(r) \/ Restore(r) \/ Change(r) \/ Write(r) \/ Save(r)
  \/ Find(r) \/ Copy(r) \/ Read(r) \/ KeepFile(r)

Next == (\E r \in Requests : Handler(r)) \/ Restart

Spec == Init /\ [][Next]_vars

\* Go schedules every handler that can run, and its mutex hands itself over
\* to a waiter that starves.
FairSpec == Spec /\ \A r \in Requests : WF_vars(Handler(r)) /\ SF_vars(Lock(r))

-----------------------------------------------------------------------------
\* Every variable keeps values of its kind.
DocumentsTypeOK ==
  /\ db \in [Documents -> Document]
  /\ file \in [Documents -> Document]
  /\ mutex \in Requests \cup {None}
  /\ req \in [Requests -> Request]
  /\ turn \in [Requests -> Nat]
  /\ racing \in [Requests -> SUBSET Requests]
  /\ known \in [Requests -> SUBSET Requests]
  /\ faults \in 0..MaxFaults

\* A change answered with success stays in the database, itself or replaced
\* by a later one, whatever fails or restarts afterwards; only a list that
\* had read the document before the change was saved can undo it (the list
\* restores the file while the next change holds the mutex).
AcknowledgedChangesSurvive == \A r \in Settled : Holds(db[DocOf[r]], r)

\* A list shows every change that was answered with success before it began
\* and that no other list could undo.
ListsShowWhatWasAnswered ==
  \A q \in Requests : OpOf[q] = "list" /\ req[q].pc = "ok" =>
    \A r \in known[q] : DocOf[r] = DocOf[q] => Holds(req[q].doc, r)

\* Feedback is refused for want of an assessment only if none of its window
\* was settled before the feedback had its turn.
RefusalsAreJustified ==
  \A f \in Requests : req[f].pc = "refused" =>
    \A r \in Settled :
      (DocOf[r] = DocOf[f] /\ SlotOf[r] = SlotOf[f] /\ OpOf[r] = "assess")
        => turn[r] > turn[f]

\* Whoever asks after a change was acknowledged is answered in view of it.
AnswersAreCurrent == ListsShowWhatWasAnswered /\ RefusalsAreJustified

\* Every request is answered, or lost in a restart: no path through a
\* handler keeps the mutex.
EveryRequestEnds == \A r \in Requests : <>Answered(r)

-----------------------------------------------------------------------------
(* The inductive invariant behind them.                                     *)

Inside == {"hydrate", "restore", "change", "write", "save"}

\* Who is inside is alone there, and only changes get in.
InsideHolds ==
  \A r \in Requests :
    /\ req[r].pc \in Inside <=> mutex = r
    /\ req[r].pc \in Inside \cup {"refused"} => Changes(r)
    /\ Listing(r) => ~Changes(r)

\* Turns are given in order, and the holder's is the last.
Begun == {q \in Requests : turn[q] > 0}
TurnsGrow ==
  /\ \A r \in Requests : turn[r] <= Cardinality(Begun)
  /\ \A r \in Requests : req[r].pc = "idle" => turn[r] = 0
  /\ \A r \in Requests : mutex = r =>
       turn[r] > 0 /\ \A q \in Requests \ {r} : turn[q] < turn[r]

\* Who writes has made its change.
WritesOwn ==
  \A r \in Requests : req[r].pc \in {"write", "save"} => Holds(req[r].doc, r)

\* A settled change is in the database, in every copy of the document that is
\* on its way there, and in the file whenever a change reads it.
SettledIsHeld ==
  \A r \in Settled :
    /\ turn[r] > 0
    /\ Holds(db[DocOf[r]], r)
    /\ \A q \in Requests : DocOf[q] = DocOf[r] =>
         /\ req[q].pc \in {"restore", "write", "save", "copy"} => Holds(req[q].doc, r)
         /\ req[q].pc = "change" => Holds(file[DocOf[r]], r)
         /\ req[q].pc \notin {"read", "keep"}

KnownIsSettled == \A q \in Requests : known[q] \subseteq Settled

DocumentsInv ==
  /\ DocumentsTypeOK
  /\ InsideHolds
  /\ TurnsGrow
  /\ WritesOwn
  /\ SettledIsHeld
  /\ KnownIsSettled
  /\ AnswersAreCurrent

=============================================================================
