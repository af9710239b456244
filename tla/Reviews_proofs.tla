--------------------------- MODULE Reviews_proofs ---------------------------
(***************************************************************************)
(* Theorems about reviews, what a match's review shows and what is kept of *)
(* it.                                                                     *)
(*                                                                         *)
(* Documents: an acknowledged change is lost only to a list that was in    *)
(* flight when it was saved, and whoever asks later is answered in view of *)
(* it.  The mutex orders the changes; what a list that begins after a      *)
(* change may write back contains the change, and so does every file a     *)
(* later change reads.                                                     *)
(*                                                                         *)
(* The match: whatever was recorded, the windows under review never        *)
(* overlap and fit the budget, the evidence of each is the nearest, the    *)
(* rounds partition the recording, and no verdict blames without an answer *)
(* that says so.  A detector is a fold over ranked frames, a boundary one  *)
(* over anchors or targets; that its result has a property is shown by the *)
(* least prefix of the fold that lacks it.                                 *)
(*                                                                         *)
(* The evaluation: labels take events in turn, again a fold; what each     *)
(* turn left gives that no better event is left over, and that the counts  *)
(* per type, sums over the parts of a set, add up.                         *)
(***************************************************************************)
EXTENDS UserDocuments, MatchReview, FiniteSetTheorems, WellFoundedInduction, TLAPS


-----------------------------------------------------------------------------
(* Data.                                                                    *)

LEMMA EmptyFacts ==
  /\ NoEntry \in Entry
  /\ Empty \in Document
  /\ \A s \in Slots : Empty[s].by = None /\ Empty[s].feedback = None
BY DEF NoEntry, Entry, Empty, Document

\* Nothing is in an empty document.
LEMMA EmptyHoldsNothing ==
  ASSUME NEW r \in Requests
  PROVE  ~Holds(Empty, r)
BY EmptyFacts, DocumentAssumption DEF Holds

LEMMA PutFacts ==
  ASSUME NEW document \in Document, NEW m \in Requests
  PROVE  /\ Put(document, m) \in Document
         /\ Put(document, m)[SlotOf[m]].by =
              IF OpOf[m] = "feedback" THEN document[SlotOf[m]].by ELSE m
         /\ Put(document, m)[SlotOf[m]].feedback =
              IF OpOf[m] = "feedback" THEN m ELSE document[SlotOf[m]].feedback
         /\ \A s \in Slots : s # SlotOf[m] => Put(document, m)[s] = document[s]
<1>1. SlotOf[m] \in Slots /\ document[SlotOf[m]] \in Entry
  BY DocumentAssumption DEF Document
<1>2. CASE OpOf[m] = "feedback"
  <2>1. Put(document, m) = [document EXCEPT ![SlotOf[m]] = [@ EXCEPT !.feedback = m]]
    BY <1>2 DEF Put
  <2>2. [document[SlotOf[m]] EXCEPT !.feedback = m] \in Entry
    BY <1>1 DEF Entry
  <2>3. QED
    BY <1>1, <1>2, <2>1, <2>2 DEF Document, Entry
<1>3. CASE OpOf[m] # "feedback"
  <2>1. Put(document, m) = [document EXCEPT ![SlotOf[m]] = [@ EXCEPT !.by = m]]
    BY <1>3 DEF Put
  <2>2. [document[SlotOf[m]] EXCEPT !.by = m] \in Entry
    BY <1>1 DEF Entry
  <2>3. QED
    BY <1>1, <1>3, <2>1, <2>2 DEF Document, Entry
<1>4. QED
  BY <1>2, <1>3

\* Who has put its change has put it; a later change replaces an earlier one
\* or leaves it where it is.
LEMMA PutHolds ==
  ASSUME NEW document \in Document, NEW m \in Requests, NEW r \in Requests,
         turn \in [Requests -> Nat], turn[r] <= turn[m],
         r = m \/ Holds(document, r)
  PROVE  Holds(Put(document, m), r)
<1>1. m # None /\ SlotOf[m] \in Slots /\ SlotOf[r] \in Slots
  BY DocumentAssumption
<1>2. /\ Put(document, m)[SlotOf[r]].feedback \in {m, document[SlotOf[r]].feedback}
      /\ Put(document, m)[SlotOf[r]].by \in {m, document[SlotOf[r]].by}
  <2>1. CASE SlotOf[r] = SlotOf[m]
    BY <2>1, PutFacts
  <2>2. CASE SlotOf[r] # SlotOf[m]
    BY <2>2, <1>1, PutFacts
  <2>3. QED
    BY <2>1, <2>2
<1>3. CASE r = m
  <2>1. /\ OpOf[m] = "feedback" => Put(document, m)[SlotOf[m]].feedback = m
        /\ OpOf[m] # "feedback" => Put(document, m)[SlotOf[m]].by = m
    BY PutFacts
  <2>2. QED
    BY <1>1, <1>3, <2>1 DEF Holds
<1>4. CASE Holds(document, r)
  <2>1. CASE OpOf[r] = "feedback"
    BY <1>1, <1>2, <1>4, <2>1 DEF Holds
  <2>2. CASE OpOf[r] # "feedback"
    BY <1>1, <1>2, <1>4, <2>2 DEF Holds
  <2>3. QED
    BY <2>1, <2>2
<1>5. QED
  BY <1>3, <1>4

\* A document keeps its changes while turns are only given to those who had none.
LEMMA HoldsGrows ==
  ASSUME NEW document \in Document, NEW r \in Requests,
         turn \in [Requests -> Nat], turn' \in [Requests -> Nat],
         turn'[r] = turn[r], \A q \in Requests : turn[q] <= turn'[q],
         Holds(document, r)
  PROVE  Holds(document, r)'
<1>1. SlotOf[r] \in Slots /\ document[SlotOf[r]] \in Entry
  BY DocumentAssumption DEF Document
<1>2. document[SlotOf[r]].by \in Requests \cup {None} /\ document[SlotOf[r]].feedback \in Requests \cup {None}
  BY <1>1 DEF Entry
<1>3. CASE OpOf[r] = "feedback"
  BY <1>2, <1>3 DEF Holds
<1>4. CASE OpOf[r] # "feedback"
  BY <1>2, <1>4 DEF Holds
<1>5. QED
  BY <1>3, <1>4

-----------------------------------------------------------------------------
(* Steps of one request.                                                    *)

\* Request m goes from one step of its handler to the next, p, with document d.
Goes(m, p, d) ==
  /\ req[m].pc \notin Answers
  /\ p \in (Steps \cup Answers) \ {"idle", "lock", "hydrate"}
  /\ d \in Document
  /\ Move(m, p, d)
  /\ turn' = turn
  /\ db' \in [Documents -> Document]
  /\ file' \in [Documents -> Document]
  /\ faults' \in 0..MaxFaults
  /\ mutex' = IF p \in Inside \/ mutex # m THEN mutex ELSE None
  /\ p \in Inside \cup {"refused"} => mutex = m
  /\ p \in {"copy", "read", "keep"} => ~Changes(m)

LEMMA GoesFacts ==
  ASSUME DocumentsInv, NEW m \in Requests, NEW p, NEW d, Goes(m, p, d)
  PROVE  /\ req'[m] = [pc |-> p, doc |-> d]
         /\ \A q \in Requests : q # m => req'[q] = req[q]
         /\ req' \in [Requests -> Request]
         /\ mutex' \in Requests \cup {None}
         /\ InsideHolds'
         /\ TurnsGrow'
<1>1. /\ req \in [Requests -> Request] /\ mutex \in Requests \cup {None}
      /\ turn \in [Requests -> Nat] /\ [pc |-> p, doc |-> d] \in Request
  BY DEF DocumentsInv, DocumentsTypeOK, Goes, Request
<1>2. /\ req'[m] = [pc |-> p, doc |-> d]
      /\ \A q \in Requests : q # m => req'[q] = req[q]
      /\ req' \in [Requests -> Request]
  BY <1>1 DEF Goes, Move
<1>3. mutex' \in Requests \cup {None}
  BY <1>1 DEF Goes
<1>4. InsideHolds'
  <2> SUFFICES ASSUME NEW r \in Requests
               PROVE  /\ req'[r].pc \in Inside <=> mutex' = r
                      /\ req'[r].pc \in Inside \cup {"refused"} => Changes(r)
                      /\ req'[r].pc \in {"copy", "read", "keep"} => ~Changes(r)
    BY DEF InsideHolds, Listing, Changes
  <2>1. /\ req[r].pc \in Inside <=> mutex = r
        /\ req[r].pc \in Inside \cup {"refused"} => Changes(r)
        /\ req[r].pc \in {"copy", "read", "keep"} => ~Changes(r)
        /\ req[m].pc \in Inside <=> mutex = m
        /\ req[m].pc \in Inside => Changes(m)
    BY DEF DocumentsInv, InsideHolds, Listing
  <2>2. None \notin Requests
    BY DocumentAssumption
  <2>3. CASE r = m
    BY <1>2, <2>1, <2>2, <2>3 DEF Goes
  <2>4. CASE r # m
    BY <1>2, <2>1, <2>2, <2>4 DEF Goes
  <2>5. QED
    BY <2>3, <2>4
<1>5. TurnsGrow'
  <2>1. Begun' = Begun
    BY DEF Goes, Begun
  <2>2. \A r \in Requests : req'[r].pc = "idle" => req[r].pc = "idle"
    BY <1>2 DEF Goes
  <2>3. \A r \in Requests : mutex' = r => mutex = r
    BY DocumentAssumption DEF Goes
  <2>4. QED
    BY <2>1, <2>2, <2>3 DEF DocumentsInv, TurnsGrow, Goes
<1>6. QED
  BY <1>2, <1>3, <1>4, <1>5

\* The settled changes of a step that settles none.
LEMMA SettledStays ==
  ASSUME DocumentsInv, NEW m \in Requests, NEW p, NEW d, Goes(m, p, d),
         racing' = racing, p = "ok" => ~Changes(m)
  PROVE  Settled' = Settled
<1>1. \A q \in Requests : req'[q].pc = "ok" /\ Changes(q) <=> req[q].pc = "ok" /\ Changes(q)
  <2>1. req'[m] = [pc |-> p, doc |-> d] /\ \A q \in Requests : q # m => req'[q] = req[q]
    BY GoesFacts
  <2>2. req[m].pc # "ok"
    BY DEF Goes, Answers
  <2>3. QED
    BY <2>1, <2>2
<1>2. QED
  BY <1>1 DEF Settled, Changes

\* What is left to show of such a step.
LEMMA GoesHolds ==
  ASSUME DocumentsInv, NEW m \in Requests, NEW p, NEW d, Goes(m, p, d),
         Settled \subseteq Settled', SettledIsHeld',
         Settled' \subseteq Settled \/ (mutex = m /\ Settled' \subseteq Settled \cup {m}),
         racing' \in [Requests -> SUBSET Requests],
         known' \in [Requests -> SUBSET Requests],
         \A q \in Requests : known'[q] \subseteq Settled,
         \A q \in Requests : q # m => known'[q] = known[q],
         p \in {"write", "save"} => Holds(d, m),
         p = "ok" /\ OpOf[m] = "list" =>
           \A r \in Settled : DocOf[r] = DocOf[m] => Holds(d, r),
         p = "refused" =>
           \A r \in Settled : DocOf[r] = DocOf[m] /\ SlotOf[r] = SlotOf[m] => OpOf[r] # "assess"
  PROVE  DocumentsInv'
<1>1. /\ turn \in [Requests -> Nat] /\ turn' = turn
      /\ \A doc, r : Holds(doc, r)' <=> Holds(doc, r)
  BY DEF DocumentsInv, DocumentsTypeOK, Goes, Holds
<1>g. /\ req'[m] = [pc |-> p, doc |-> d]
      /\ \A q \in Requests : q # m => req'[q] = req[q]
      /\ InsideHolds' /\ TurnsGrow'
  BY GoesFacts
<1>2. DocumentsTypeOK'
  BY <1>1, GoesFacts DEF DocumentsTypeOK, Goes
<1>3. WritesOwn'
  <2> SUFFICES ASSUME NEW r \in Requests, req'[r].pc \in {"write", "save"}
               PROVE  Holds(req'[r].doc, r)
    BY <1>1 DEF WritesOwn
  <2>1. CASE r = m
    BY <2>1, <1>g
  <2>2. CASE r # m
    BY <2>2, <1>g DEF DocumentsInv, WritesOwn
  <2>3. QED
    BY <2>1, <2>2
<1>4. KnownIsSettled'
  BY DEF KnownIsSettled
<1>5. ListsShowWhatWasAnswered'
  <2> SUFFICES ASSUME NEW q \in Requests, OpOf[q] = "list", req'[q].pc = "ok",
                      NEW r \in known'[q], DocOf[r] = DocOf[q]
               PROVE  Holds(req'[q].doc, r)
    BY <1>1 DEF ListsShowWhatWasAnswered
  <2>1. CASE q = m
    <3>1. p = "ok" /\ req'[q].doc = d /\ r \in Settled
      BY <2>1, <1>g
    <3>2. QED
      BY <2>1, <3>1
  <2>2. CASE q # m
    <3>1. req[q].pc = "ok" /\ req'[q].doc = req[q].doc /\ r \in known[q]
      BY <2>2, <1>g
    <3>2. QED
      BY <3>1 DEF DocumentsInv, AnswersAreCurrent, ListsShowWhatWasAnswered
  <2>3. QED
    BY <2>1, <2>2
<1>6. RefusalsAreJustified'
  <2> SUFFICES ASSUME NEW f \in Requests, req'[f].pc = "refused", NEW r \in Settled',
                      DocOf[r] = DocOf[f], SlotOf[r] = SlotOf[f], OpOf[r] = "assess"
               PROVE  turn[r] > turn[f]
    BY <1>1 DEF RefusalsAreJustified
  <2>1. CASE f = m
    <3>1. p = "refused"
      BY <2>1, <1>g
    <3>2. m \notin Settled'
      BY <2>1 DEF Settled
    <3>3. QED
      BY <2>1, <3>1, <3>2
  <2>2. CASE f # m /\ r \in Settled
    <3>1. req[f].pc = "refused"
      BY <2>2, <1>g
    <3>2. QED
      BY <2>2, <3>1 DEF DocumentsInv, AnswersAreCurrent, RefusalsAreJustified
  <2>3. CASE f # m /\ r = m /\ r \notin Settled
    <3>1. mutex = m
      BY <2>3
    <3>2. QED
      BY <2>3, <3>1, <1>1 DEF DocumentsInv, TurnsGrow
  <2>4. QED
    BY <2>1, <2>2, <2>3
<1>7. QED
  BY <1>2, <1>3, <1>4, <1>5, <1>6, <1>g DEF DocumentsInv, AnswersAreCurrent

\* The settled changes stay where they are looked for.
LEMMA GoesKeepsSettled ==
  ASSUME DocumentsInv, NEW m \in Requests, NEW p, NEW d, Goes(m, p, d),
         Settled' = Settled,
         \A r \in Settled : Holds(db'[DocOf[r]], r),
         \A r \in Settled : Holds(file[DocOf[r]], r) => Holds(file'[DocOf[r]], r),
         \A r \in Settled : DocOf[r] = DocOf[m] =>
           /\ p \in {"restore", "write", "save", "copy"} => Holds(d, r)
           /\ p = "change" => Holds(file'[DocOf[r]], r)
           /\ p \notin {"read", "keep"}
  PROVE  SettledIsHeld'
<1>1. \A doc, r : Holds(doc, r)' <=> Holds(doc, r)
  BY DEF Goes, Holds
<1>g. /\ req'[m] = [pc |-> p, doc |-> d]
      /\ \A q \in Requests : q # m => req'[q] = req[q]
  BY GoesFacts
<1> SUFFICES ASSUME NEW r \in Settled
             PROVE  /\ turn[r] > 0
                    /\ \A q \in Requests : DocOf[q] = DocOf[r] =>
                         /\ req'[q].pc \in {"restore", "write", "save", "copy"} => Holds(req'[q].doc, r)
                         /\ req'[q].pc = "change" => Holds(file'[DocOf[r]], r)
                         /\ req'[q].pc \notin {"read", "keep"}
  BY <1>1 DEF SettledIsHeld, Goes
<1>2. turn[r] > 0
  BY DEF DocumentsInv, SettledIsHeld
<1>3. ASSUME NEW q \in Requests, DocOf[q] = DocOf[r]
      PROVE  /\ req'[q].pc \in {"restore", "write", "save", "copy"} => Holds(req'[q].doc, r)
             /\ req'[q].pc = "change" => Holds(file'[DocOf[r]], r)
             /\ req'[q].pc \notin {"read", "keep"}
  <2>1. CASE q = m
    BY <1>3, <1>g, <2>1
  <2>2. CASE q # m
    <3>1. /\ req[q].pc \in {"restore", "write", "save", "copy"} => Holds(req[q].doc, r)
          /\ req[q].pc = "change" => Holds(file[DocOf[r]], r)
          /\ req[q].pc \notin {"read", "keep"}
      BY <1>3 DEF DocumentsInv, SettledIsHeld
    <3>2. QED
      BY <1>g, <2>2, <3>1
  <2>3. QED
    BY <2>1, <2>2
<1>4. QED
  BY <1>2, <1>3

\* A step that settles no change.
LEMMA GoesKeeps ==
  ASSUME DocumentsInv, NEW m \in Requests, NEW p, NEW d, Goes(m, p, d),
         racing' = racing, p = "ok" => ~Changes(m),
         known' = known \/ (p # "ok" /\ known' = [known EXCEPT ![m] = Settled]),
         \A r \in Settled : Holds(db'[DocOf[r]], r),
         \A r \in Settled : Holds(file[DocOf[r]], r) => Holds(file'[DocOf[r]], r),
         \A r \in Settled : DocOf[r] = DocOf[m] =>
           /\ p \in {"restore", "write", "save", "copy", "ok"} => Holds(d, r)
           /\ p = "change" => Holds(file'[DocOf[r]], r)
           /\ p \notin {"read", "keep"},
         p \in {"write", "save"} => Holds(d, m),
         p = "refused" =>
           \A r \in Settled : DocOf[r] = DocOf[m] /\ SlotOf[r] = SlotOf[m] => OpOf[r] # "assess"
  PROVE  DocumentsInv'
<1>1. Settled' = Settled
  BY SettledStays
<1>2. SettledIsHeld'
  BY <1>1, GoesKeepsSettled
<1>3. /\ known \in [Requests -> SUBSET Requests]
      /\ racing \in [Requests -> SUBSET Requests]
      /\ \A q \in Requests : known[q] \subseteq Settled
  BY DEF DocumentsInv, DocumentsTypeOK, KnownIsSettled
<1>4. Settled \subseteq Requests
  BY DEF Settled
<1>5. /\ known' \in [Requests -> SUBSET Requests]
      /\ \A q \in Requests : known'[q] \subseteq Settled
      /\ \A q \in Requests : q # m => known'[q] = known[q]
  BY <1>3, <1>4
<1>6. p = "ok" /\ OpOf[m] = "list" =>
        \A r \in Settled : DocOf[r] = DocOf[m] => Holds(d, r)
  OBVIOUS
<1>7. QED
  BY <1>1, <1>2, <1>3, <1>5, <1>6, GoesHolds

-----------------------------------------------------------------------------
(* The steps of a change.                                                   *)

LEMMA Facts ==
  ASSUME DocumentsInv, NEW m \in Requests
  PROVE  /\ DocOf[m] \in Documents /\ m # None
         /\ db \in [Documents -> Document] /\ db[DocOf[m]] \in Document
         /\ file \in [Documents -> Document] /\ file[DocOf[m]] \in Document
         /\ req[m].doc \in Document /\ Empty \in Document
         /\ faults \in 0..MaxFaults
         /\ \A doc \in Document :
              /\ [db EXCEPT ![DocOf[m]] = doc] \in [Documents -> Document]
              /\ [file EXCEPT ![DocOf[m]] = doc] \in [Documents -> Document]
         /\ req[m].pc \in {"hydrate", "restore", "change", "write", "save"} => mutex = m /\ Changes(m)
         /\ mutex = m => req[m].pc \in Inside
         /\ req[m].pc \in {"copy", "read", "keep"} => ~Changes(m)
<1>1. DocOf[m] \in Documents /\ m # None
  BY DocumentAssumption
<1>2. /\ db \in [Documents -> Document] /\ file \in [Documents -> Document]
      /\ req[m] \in Request /\ faults \in 0..MaxFaults
  BY DEF DocumentsInv, DocumentsTypeOK
<1>3. req[m].doc \in Document /\ Empty \in Document
  BY <1>2, EmptyFacts DEF Request
<1>4. QED
  BY <1>1, <1>2, <1>3 DEF DocumentsInv, InsideHolds, Inside, Listing

\* What is known of the settled changes of a document before a step on it.
LEMMA SettledFacts ==
  ASSUME DocumentsInv, NEW m \in Requests, NEW r \in Settled
  PROVE  /\ r \in Requests /\ turn[r] > 0
         /\ Holds(db[DocOf[r]], r)
         /\ DocOf[r] = DocOf[m] =>
              /\ req[m].pc \in {"restore", "write", "save", "copy"} => Holds(req[m].doc, r)
              /\ req[m].pc = "change" => Holds(file[DocOf[m]], r)
              /\ req[m].pc \notin {"read", "keep"}
              /\ db[DocOf[m]] # Empty
<1>1. r \in Requests
  BY DEF Settled
<1>2. /\ turn[r] > 0
      /\ Holds(db[DocOf[r]], r)
      /\ DocOf[r] = DocOf[m] =>
           /\ req[m].pc \in {"restore", "write", "save", "copy"} => Holds(req[m].doc, r)
           /\ req[m].pc = "change" => Holds(file[DocOf[m]], r)
           /\ req[m].pc \notin {"read", "keep"}
  BY DEF DocumentsInv, SettledIsHeld
<1>3. DocOf[r] = DocOf[m] => db[DocOf[m]] # Empty
  BY <1>1, <1>2, EmptyHoldsNothing
<1>4. QED
  BY <1>1, <1>2, <1>3

\* A step that fails and answers an error.
LEMMA FailingKeeps ==
  ASSUME DocumentsInv, NEW m \in Requests, Fault, Answer(m, "error"),
         req[m].pc \notin Answers,
         mutex' = IF mutex = m THEN None ELSE mutex,
         UNCHANGED <<file, turn, racing>>,
         known' = known \/ known' = [known EXCEPT ![m] = Settled],
         db' \in [Documents -> Document],
         \A r \in Settled : Holds(db'[DocOf[r]], r)
  PROVE  DocumentsInv'
<1>1. faults' \in 0..MaxFaults
  BY Facts, DocumentAssumption DEF Fault
<1>2. Goes(m, "error", Empty)
  BY <1>1, Facts DEF Goes, Answer, Answers, Steps, Inside
<1>3. QED
  BY <1>2, GoesKeeps

LEMMA HydrateKeeps ==
  ASSUME DocumentsInv, NEW m \in Requests, Hydrate(m)
  PROVE  DocumentsInv'
<1>1. /\ req[m].pc = "hydrate" /\ mutex = m /\ Changes(m) /\ req[m].pc \notin Answers
      /\ UNCHANGED <<db, file, turn, racing, known>>
  BY Facts DEF Hydrate, Keep, Answers
<1>2. \A r \in Settled : Holds(db'[DocOf[r]], r)
  BY <1>1, SettledFacts
<1>3. CASE Fault /\ mutex' = None /\ Answer(m, "error")
  BY <1>1, <1>2, <1>3, Facts, FailingKeeps
<1>4. CASE Move(m, "change", db[DocOf[m]]) /\ db[DocOf[m]] = Empty /\ UNCHANGED <<mutex, faults>>
  <2>1. Goes(m, "change", db[DocOf[m]])
    BY <1>1, <1>4, Facts DEF Goes, Answers, Steps, Inside
  <2>2. \A r \in Settled : DocOf[r] # DocOf[m]
    BY <1>4, SettledFacts
  <2>3. QED
    BY <1>1, <1>2, <2>1, <2>2, GoesKeeps
<1>5. CASE Move(m, "restore", db[DocOf[m]]) /\ UNCHANGED <<mutex, faults>>
  <2>1. Goes(m, "restore", db[DocOf[m]])
    BY <1>1, <1>5, Facts DEF Goes, Answers, Steps, Inside
  <2>2. \A r \in Settled : DocOf[r] = DocOf[m] => Holds(db[DocOf[m]], r)
    BY SettledFacts
  <2>3. QED
    BY <1>1, <1>2, <2>1, <2>2, GoesKeeps
<1>6. QED
  BY <1>3, <1>4, <1>5 DEF Hydrate

LEMMA RestoreKeeps ==
  ASSUME DocumentsInv, NEW m \in Requests, Restore(m)
  PROVE  DocumentsInv'
<1>1. /\ req[m].pc = "restore" /\ mutex = m /\ Changes(m) /\ req[m].pc \notin Answers
      /\ UNCHANGED <<db, turn, racing, known>>
  BY Facts DEF Restore, Keep, Answers
<1>2. \A r \in Settled : Holds(db'[DocOf[r]], r)
  BY <1>1, SettledFacts
<1>3. CASE Fault /\ mutex' = None /\ Answer(m, "error") /\ UNCHANGED file
  BY <1>1, <1>2, <1>3, Facts, FailingKeeps
<1>4. CASE /\ file' = [file EXCEPT ![DocOf[m]] = req[m].doc]
           /\ Move(m, "change", Empty) /\ UNCHANGED <<mutex, faults>>
  <2>1. Goes(m, "change", Empty)
    BY <1>1, <1>4, Facts DEF Goes, Answers, Steps, Inside
  <2>2. \A r \in Settled : DocOf[r] = DocOf[m] => Holds(file'[DocOf[r]], r)
    BY <1>1, <1>4, Facts, SettledFacts
  <2>3. \A r \in Settled : Holds(file[DocOf[r]], r) => Holds(file'[DocOf[r]], r)
    BY <1>4, <2>2, Facts
  <2>4. QED
    BY <1>1, <1>2, <2>1, <2>2, <2>3, GoesKeeps
<1>5. QED
  BY <1>3, <1>4 DEF Restore

LEMMA ChangeKeeps ==
  ASSUME DocumentsInv, NEW m \in Requests, Change(m)
  PROVE  DocumentsInv'
<1>1. /\ req[m].pc = "change" /\ mutex = m /\ Changes(m) /\ req[m].pc \notin Answers
      /\ UNCHANGED <<db, file, turn, racing, known>>
  BY Facts DEF Change, Keep, Answers
<1>2. \A r \in Settled : Holds(db'[DocOf[r]], r)
  BY <1>1, SettledFacts
<1>3. CASE Fault /\ mutex' = None /\ Answer(m, "error")
  BY <1>1, <1>2, <1>3, Facts, FailingKeeps
<1>4. CASE /\ Move(m, "write", Put(file[DocOf[m]], m)) /\ UNCHANGED <<mutex, faults>>
  <2>1. file[DocOf[m]] \in Document /\ turn \in [Requests -> Nat]
    BY Facts DEF DocumentsInv, DocumentsTypeOK
  <2>2. Goes(m, "write", Put(file[DocOf[m]], m))
    BY <1>1, <1>4, <2>1, Facts, PutFacts DEF Goes, Answers, Steps, Inside
  <2>3. Holds(Put(file[DocOf[m]], m), m)
    BY <2>1, PutHolds
  <2>4. \A r \in Settled : DocOf[r] = DocOf[m] => Holds(Put(file[DocOf[m]], m), r)
    <3> SUFFICES ASSUME NEW r \in Settled, DocOf[r] = DocOf[m]
                 PROVE  Holds(Put(file[DocOf[m]], m), r)
      OBVIOUS
    <3>1. r \in Requests /\ Holds(file[DocOf[m]], r)
      BY <1>1, SettledFacts
    <3>2. turn[r] <= turn[m]
      BY <1>1, <2>1, <3>1 DEF DocumentsInv, TurnsGrow
    <3>3. QED
      BY <2>1, <3>1, <3>2, PutHolds
  <2>5. QED
    BY <1>1, <1>2, <2>2, <2>3, <2>4, GoesKeeps
<1>5. CASE /\ Refused(file[DocOf[m]], m) /\ mutex' = None /\ Answer(m, "refused")
           /\ UNCHANGED faults
  <2>1. Goes(m, "refused", Empty)
    BY <1>1, <1>5, Facts DEF Goes, Answer, Answers, Steps, Inside
  <2>2. \A r \in Settled : DocOf[r] = DocOf[m] /\ SlotOf[r] = SlotOf[m] => OpOf[r] # "assess"
    BY <1>1, <1>5, SettledFacts DEF Refused, Holds
  <2>3. QED
    BY <1>1, <1>2, <2>1, <2>2, GoesKeeps
<1>6. QED
  BY <1>3, <1>4, <1>5 DEF Change

LEMMA WriteKeeps ==
  ASSUME DocumentsInv, NEW m \in Requests, Write(m)
  PROVE  DocumentsInv'
<1>1. /\ req[m].pc = "write" /\ mutex = m /\ Changes(m) /\ req[m].pc \notin Answers
      /\ UNCHANGED <<db, turn, racing, known>>
  BY Facts DEF Write, Keep, Answers
<1>2. \A r \in Settled : Holds(db'[DocOf[r]], r)
  BY <1>1, SettledFacts
<1>3. CASE Fault /\ mutex' = None /\ Answer(m, "error") /\ UNCHANGED file
  BY <1>1, <1>2, <1>3, Facts, FailingKeeps
<1>4. CASE /\ file' = [file EXCEPT ![DocOf[m]] = req[m].doc]
           /\ Move(m, "save", req[m].doc) /\ UNCHANGED <<mutex, faults>>
  <2>1. Goes(m, "save", req[m].doc)
    BY <1>1, <1>4, Facts DEF Goes, Answers, Steps, Inside
  <2>2. \A r \in Settled : DocOf[r] = DocOf[m] => Holds(req[m].doc, r)
    BY <1>1, SettledFacts
  <2>3. \A r \in Settled : Holds(file[DocOf[r]], r) => Holds(file'[DocOf[r]], r)
    BY <1>4, <2>2, Facts
  <2>4. Holds(req[m].doc, m)
    BY <1>1 DEF DocumentsInv, WritesOwn
  <2>5. QED
    BY <1>1, <1>2, <2>1, <2>2, <2>3, <2>4, GoesKeeps
<1>5. QED
  BY <1>3, <1>4 DEF Write

\* The one step that settles a change: its holder writes a document that has
\* it and all that were settled before, and no list is under way that knew an
\* older one.
LEMMA SaveKeeps ==
  ASSUME DocumentsInv, NEW m \in Requests, Save(m)
  PROVE  DocumentsInv'
<1>1. /\ req[m].pc = "save" /\ mutex = m /\ Changes(m) /\ req[m].pc \notin Answers
      /\ mutex' = None
      /\ UNCHANGED <<file, turn, known>>
  BY Facts DEF Save, Answers
<1>2. \A r \in Settled : DocOf[r] = DocOf[m] => Holds(req[m].doc, r)
  BY <1>1, SettledFacts
<1>3. ASSUME db' = [db EXCEPT ![DocOf[m]] = req[m].doc]
      PROVE  /\ db' \in [Documents -> Document]
             /\ \A r \in Settled : Holds(db'[DocOf[r]], r)
  <2>1. db' \in [Documents -> Document]
    BY <1>3, Facts
  <2>2. ASSUME NEW r \in Settled PROVE Holds(db'[DocOf[r]], r)
    BY <1>2, <1>3, Facts, SettledFacts
  <2>3. QED
    BY <2>1, <2>2
<1>4. CASE /\ Fault /\ Answer(m, "error") /\ UNCHANGED racing
           /\ db' = [db EXCEPT ![DocOf[m]] = req[m].doc] \/ UNCHANGED db
  <2>1. db' \in [Documents -> Document] /\ \A r \in Settled : Holds(db'[DocOf[r]], r)
    BY <1>3, <1>4, Facts, SettledFacts
  <2>2. QED
    BY <1>1, <1>4, <2>1, FailingKeeps
<1>5. CASE /\ db' = [db EXCEPT ![DocOf[m]] = req[m].doc]
           /\ Answer(m, "ok")
           /\ racing' = [racing EXCEPT ![m] =
                {q \in Requests : Listing(q) /\ DocOf[q] = DocOf[m]}]
           /\ UNCHANGED faults
  <2>1. Goes(m, "ok", Empty)
    BY <1>1, <1>3, <1>5, Facts DEF Goes, Answer, Answers, Steps, Inside
  <2>2. /\ req'[m] = [pc |-> "ok", doc |-> Empty]
        /\ \A q \in Requests : q # m => req'[q] = req[q]
    BY <2>1, GoesFacts
  <2>3. racing \in [Requests -> SUBSET Requests] /\ known \in [Requests -> SUBSET Requests]
    BY DEF DocumentsInv, DocumentsTypeOK
  <2>4. /\ racing' \in [Requests -> SUBSET Requests]
        /\ \A q \in Requests : q # m => racing'[q] = racing[q]
        /\ racing'[m] = {q \in Requests : Listing(q) /\ DocOf[q] = DocOf[m]}
    BY <1>5, <2>3
  <2>5. m \notin Settled
    BY <1>1 DEF Settled
  <2>6. Settled \subseteq Settled' /\ Settled' \subseteq Settled \cup {m}
    BY <2>2, <2>4, <2>5 DEF Settled, Changes
  <2>7. \A doc, r : Holds(doc, r)' <=> Holds(doc, r)
    BY <1>1 DEF Holds
  <2>8. ASSUME NEW r \in Settled'
        PROVE  /\ turn[r] > 0
               /\ Holds(db'[DocOf[r]], r)
               /\ \A q \in Requests : DocOf[q] = DocOf[r] =>
                    /\ req'[q].pc \in {"restore", "write", "save", "copy"} => Holds(req'[q].doc, r)
                    /\ req'[q].pc = "change" => Holds(file[DocOf[r]], r)
                    /\ req'[q].pc \notin {"read", "keep"}
    <3>1. CASE r \in Settled
      <4>1. turn[r] > 0 /\ Holds(db'[DocOf[r]], r)
        BY <1>3, <1>5, <3>1, SettledFacts
      <4>2. ASSUME NEW q \in Requests, DocOf[q] = DocOf[r], q # m
            PROVE  /\ req[q].pc \in {"restore", "write", "save", "copy"} => Holds(req[q].doc, r)
                   /\ req[q].pc = "change" => Holds(file[DocOf[r]], r)
                   /\ req[q].pc \notin {"read", "keep"}
        BY <3>1, <4>2 DEF DocumentsInv, SettledIsHeld
      <4>3. QED
        BY <2>2, <4>1, <4>2
    <3>2. CASE r = m /\ r \notin Settled
      <4>1. turn[m] > 0
        BY <1>1 DEF DocumentsInv, TurnsGrow
      <4>2. Holds(req[m].doc, m)
        BY <1>1 DEF DocumentsInv, WritesOwn
      <4>3. db'[DocOf[m]] = req[m].doc
        BY <1>5, Facts
      <4>4. racing'[m] = {}
        <5>1. (racing[m] = {})'
          BY <3>2 DEF Settled
        <5>2. QED
          BY <5>1
      <4>5. ASSUME NEW q \in Requests, q # m, DocOf[q] = DocOf[m]
            PROVE  req[q].pc \notin {"restore", "write", "save", "copy", "change", "read", "keep"}
        <5>1. ~Listing(q)
          BY <2>4, <4>4, <4>5
        <5>2. req[q].pc \notin Inside
          BY <1>1, <4>5 DEF DocumentsInv, InsideHolds
        <5>3. QED
          BY <5>1, <5>2 DEF Listing, Inside
      <4>6. QED
        BY <2>2, <3>2, <4>1, <4>2, <4>3, <4>5
    <3>3. QED
      BY <2>6, <3>1, <3>2
  <2>9. SettledIsHeld'
    BY <1>1, <2>7, <2>8 DEF SettledIsHeld
  <2>10. \A q \in Requests : known'[q] \subseteq Settled
    BY <1>1 DEF DocumentsInv, KnownIsSettled
  <2>11. OpOf[m] # "list"
    BY <1>1 DEF Changes
  <2>12. QED
    BY <1>1, <2>1, <2>3, <2>4, <2>6, <2>9, <2>10, <2>11, GoesHolds
<1>6. QED
  BY <1>4, <1>5 DEF Save

-----------------------------------------------------------------------------
(* The steps of a list.                                                     *)

LEMMA FindKeeps ==
  ASSUME DocumentsInv, NEW m \in Requests, Find(m)
  PROVE  DocumentsInv'
<1>1. /\ req[m].pc = "idle" /\ mutex # m /\ ~Changes(m) /\ req[m].pc \notin Answers
      /\ known' = [known EXCEPT ![m] = Settled]
      /\ UNCHANGED <<db, file, mutex, turn, racing>>
  BY Facts DEF Find, Answers, Inside, Changes
<1>2. \A r \in Settled : Holds(db'[DocOf[r]], r)
  BY <1>1, SettledFacts
<1>3. CASE Fault /\ Answer(m, "error")
  BY <1>1, <1>2, <1>3, Facts, FailingKeeps
<1>4. CASE Move(m, "read", db[DocOf[m]]) /\ db[DocOf[m]] = Empty /\ UNCHANGED faults
  <2>1. Goes(m, "read", db[DocOf[m]])
    BY <1>1, <1>4, Facts DEF Goes, Answers, Steps, Inside
  <2>2. \A r \in Settled : DocOf[r] # DocOf[m]
    BY <1>4, SettledFacts
  <2>3. QED
    BY <1>1, <1>2, <2>1, <2>2, GoesKeeps
<1>5. CASE Move(m, "copy", db[DocOf[m]]) /\ UNCHANGED faults
  <2>1. Goes(m, "copy", db[DocOf[m]])
    BY <1>1, <1>5, Facts DEF Goes, Answers, Steps, Inside
  <2>2. \A r \in Settled : DocOf[r] = DocOf[m] => Holds(db[DocOf[m]], r)
    BY SettledFacts
  <2>3. /\ \A r \in Settled : DocOf[r] = DocOf[m] =>
             /\ "copy" \in {"restore", "write", "save", "copy", "ok"} => Holds(db[DocOf[m]], r)
             /\ "copy" = "change" => Holds(file'[DocOf[r]], r)
             /\ "copy" \notin {"read", "keep"}
        /\ \A r \in Settled : Holds(file[DocOf[r]], r) => Holds(file'[DocOf[r]], r)
    BY <1>1, <2>2
  <2>4. racing' = racing /\ "copy" # "ok" /\ known' = [known EXCEPT ![m] = Settled]
    BY <1>1
  <2>5. QED
    BY <1>2, <2>1, <2>3, <2>4, GoesKeeps
<1>6. QED
  BY <1>3, <1>4, <1>5 DEF Find

LEMMA CopyKeeps ==
  ASSUME DocumentsInv, NEW m \in Requests, Copy(m)
  PROVE  DocumentsInv'
<1>1. /\ req[m].pc = "copy" /\ mutex # m /\ ~Changes(m) /\ req[m].pc \notin Answers
      /\ UNCHANGED <<db, mutex, turn, racing, known>>
  BY Facts DEF Copy, Keep, Answers, Inside
<1>2. \A r \in Settled : Holds(db'[DocOf[r]], r)
  BY <1>1, SettledFacts
<1>3. CASE Fault /\ Answer(m, "error") /\ UNCHANGED file
  BY <1>1, <1>2, <1>3, Facts, FailingKeeps
<1>4. CASE /\ file' = [file EXCEPT ![DocOf[m]] = req[m].doc]
           /\ Move(m, "ok", req[m].doc) /\ UNCHANGED faults
  <2>1. Goes(m, "ok", req[m].doc)
    BY <1>1, <1>4, Facts DEF Goes, Answers, Steps, Inside
  <2>2. \A r \in Settled : DocOf[r] = DocOf[m] => Holds(req[m].doc, r)
    BY <1>1, SettledFacts
  <2>3. \A r \in Settled : Holds(file[DocOf[r]], r) => Holds(file'[DocOf[r]], r)
    BY <1>4, <2>2, Facts
  <2>4. QED
    BY <1>1, <1>2, <2>1, <2>2, <2>3, GoesKeeps
<1>5. QED
  BY <1>3, <1>4 DEF Copy

\* Who reads the file without a row, or is about to make it the row, does so
\* on a document without settled changes.
LEMMA ReadKeeps ==
  ASSUME DocumentsInv, NEW m \in Requests, Read(m) \/ KeepFile(m)
  PROVE  DocumentsInv'
<1>1. /\ req[m].pc \in {"read", "keep"} /\ mutex # m /\ ~Changes(m) /\ req[m].pc \notin Answers
      /\ UNCHANGED <<file, mutex, turn, racing, known>>
      /\ db' = db \/ db' = [db EXCEPT ![DocOf[m]] = req[m].doc]
  BY Facts DEF Read, KeepFile, Keep, Answers, Inside
<1>2. \A r \in Settled : DocOf[r] # DocOf[m]
  BY <1>1, SettledFacts
<1>3. db' \in [Documents -> Document] /\ \A r \in Settled : Holds(db'[DocOf[r]], r)
  BY <1>1, <1>2, Facts, SettledFacts
<1>4. CASE Fault /\ Answer(m, "error")
  BY <1>1, <1>3, <1>4, FailingKeeps
<1>5. ASSUME NEW p \in {"ok", "keep"}, NEW d \in Document, Move(m, p, d), UNCHANGED faults
      PROVE  DocumentsInv'
  <2>1. Goes(m, p, d)
    BY <1>1, <1>3, <1>5, Facts DEF Goes, Answers, Steps, Inside
  <2>2. QED
    BY <1>1, <1>2, <1>3, <2>1, GoesKeeps
<1>6. QED
  BY <1>4, <1>5, Facts DEF Read, KeepFile

-----------------------------------------------------------------------------
(* The steps that concern more than one request.                            *)

\* A turn that begins is later than all others.
LEMMA LockTurns ==
  ASSUME DocumentsInv, NEW m \in Requests, Lock(m)
  PROVE  /\ turn' \in [Requests -> Nat]
         /\ \A q \in Requests : q # m => turn'[q] = turn[q]
         /\ \A q \in Requests : turn[q] <= turn'[q]
         /\ turn'[m] > 0
         /\ \A q \in Requests : turn'[q] <= Cardinality(Begun')
         /\ \A q \in Requests : q # m => turn'[q] < turn'[m]
<1>1. /\ turn \in [Requests -> Nat]
      /\ turn' = [turn EXCEPT ![m] = 1 + Cardinality(Begun)]
      /\ turn[m] = 0
      /\ \A q \in Requests : turn[q] <= Cardinality(Begun)
  BY DEF DocumentsInv, DocumentsTypeOK, TurnsGrow, Lock, Begun
<1>2. IsFiniteSet(Begun) /\ Cardinality(Begun) \in Nat
  <2>1. Begun \subseteq Requests
    BY DEF Begun
  <2>2. QED
    BY <2>1, DocumentAssumption, FS_Subset, FS_CardinalityType
<1>3. /\ turn' \in [Requests -> Nat]
      /\ turn'[m] = 1 + Cardinality(Begun)
      /\ \A q \in Requests : q # m => turn'[q] = turn[q]
  BY <1>1, <1>2
<1>4. Begun' = Begun \cup {m} /\ m \notin Begun
  BY <1>1, <1>2, <1>3 DEF Begun
<1>5. Cardinality(Begun') = Cardinality(Begun) + 1
  BY <1>2, <1>4, FS_AddElement
<1>6. QED
  BY <1>1, <1>2, <1>3, <1>5

\* A document in which a settled change was found still has it.
LEMMA LockHolds ==
  ASSUME DocumentsInv, NEW m \in Requests, Lock(m),
         NEW document \in Document, NEW r \in Requests, r # m, Holds(document, r)
  PROVE  Holds(document, r)'
<1>1. turn \in [Requests -> Nat]
  BY DEF DocumentsInv, DocumentsTypeOK
<1>2. QED
  BY <1>1, LockTurns, HoldsGrows

LEMMA LockKeeps ==
  ASSUME DocumentsInv, NEW m \in Requests, Lock(m)
  PROVE  DocumentsInv'
<1>1. /\ req[m].pc = "idle" /\ mutex = None /\ mutex' = m /\ Changes(m)
      /\ UNCHANGED <<db, file, racing, known, faults>>
      /\ req' = [req EXCEPT ![m] = [pc |-> "hydrate", doc |-> Empty]]
  BY DEF Lock, Move
<1>2. /\ req \in [Requests -> Request] /\ [pc |-> "hydrate", doc |-> Empty] \in Request
  BY EmptyFacts DEF DocumentsInv, DocumentsTypeOK, Request, Steps
<1>3. /\ req' \in [Requests -> Request]
      /\ req'[m] = [pc |-> "hydrate", doc |-> Empty]
      /\ \A q \in Requests : q # m => req'[q] = req[q]
  BY <1>1, <1>2
<1>4. DocumentsTypeOK'
  BY <1>1, <1>3, LockTurns DEF DocumentsInv, DocumentsTypeOK
<1>5. /\ \A q \in Requests : req[q].pc \notin Inside
      /\ \A q \in Requests : Listing(q) => ~Changes(q)
      /\ \A q \in Requests : req[q].pc = "refused" => Changes(q)
  BY <1>1, DocumentAssumption DEF DocumentsInv, InsideHolds
<1>6. InsideHolds'
  <2> SUFFICES ASSUME NEW q \in Requests
               PROVE  /\ req'[q].pc \in Inside <=> m = q
                      /\ req'[q].pc \in Inside \cup {"refused"} => Changes(q)
                      /\ req'[q].pc \in {"copy", "read", "keep"} => ~Changes(q)
    BY <1>1 DEF InsideHolds, Listing, Changes
  <2>1. CASE q = m
    BY <1>1, <1>3, <2>1 DEF Inside
  <2>2. CASE q # m
    BY <1>3, <1>5, <2>2 DEF Listing
  <2>3. QED
    BY <2>1, <2>2
<1>7. TurnsGrow'
  <2>1. \A q \in Requests : req'[q].pc = "idle" => turn'[q] = 0
    BY <1>3, LockTurns DEF DocumentsInv, TurnsGrow
  <2>2. QED
    BY <1>1, <2>1, LockTurns DEF TurnsGrow
<1>8. Settled' = Settled
  BY <1>1, <1>3 DEF Settled, Changes
<1>9. m \notin Settled /\ Settled \subseteq Requests
  BY <1>1 DEF Settled
<1>10. WritesOwn'
  BY <1>3, <1>5 DEF WritesOwn, Inside
<1>11. SettledIsHeld'
  <2> SUFFICES ASSUME NEW r \in Settled
               PROVE  /\ turn'[r] > 0
                      /\ Holds(db[DocOf[r]], r)'
                      /\ \A q \in Requests : DocOf[q] = DocOf[r] =>
                           /\ req'[q].pc = "copy" => Holds(req[q].doc, r)'
                           /\ req'[q].pc \notin {"restore", "write", "save", "change", "read", "keep"}
    <3>1. \A q \in Requests : req'[q].pc = "copy" => req'[q] = req[q]
      BY <1>3
    <3>2. QED
      BY <1>1, <1>8, <3>1 DEF SettledIsHeld
  <2>1. turn'[r] > 0
    BY <1>9, LockTurns DEF DocumentsInv, SettledIsHeld
  <2>2. Holds(db[DocOf[r]], r)'
    <3>1. r \in Requests /\ r # m /\ Holds(db[DocOf[r]], r) /\ db[DocOf[r]] \in Document
      BY <1>9, Facts DEF DocumentsInv, SettledIsHeld
    <3>2. (Holds(db[DocOf[r]], r))' <=> \E doc \in Document : doc = db[DocOf[r]] /\ Holds(doc, r)'
      BY <1>1, <3>1
    <3>3. QED
      BY <3>1, <3>2, LockHolds
  <2>3. ASSUME NEW q \in Requests, DocOf[q] = DocOf[r]
        PROVE  /\ req'[q].pc = "copy" => Holds(req[q].doc, r)'
               /\ req'[q].pc \notin {"restore", "write", "save", "change", "read", "keep"}
    <3>1. req'[q].pc \notin {"restore", "write", "save", "change"}
      BY <1>3, <1>5 DEF Inside
    <3>2. req'[q].pc \in {"copy", "read", "keep"} => req[q] = req'[q]
      BY <1>3
    <3>3. /\ req[q].pc = "copy" => Holds(req[q].doc, r)
          /\ req[q].pc \notin {"read", "keep"}
      BY <2>3, <1>9, SettledFacts
    <3>4. ASSUME req[q].pc = "copy" PROVE (\E doc \in Document : doc = req[q].doc /\ Holds(doc, r)')
      BY <1>9, <3>3, <3>4, Facts, LockHolds
    <3>5. QED
      BY <3>1, <3>2, <3>3, <3>4
  <2>4. QED
    BY <2>1, <2>2, <2>3
<1>12. KnownIsSettled'
  BY <1>1, <1>8 DEF DocumentsInv, KnownIsSettled
<1>13. ListsShowWhatWasAnswered'
  <2> SUFFICES ASSUME NEW q \in Requests, OpOf[q] = "list", req'[q].pc = "ok",
                      NEW r \in known[q], DocOf[r] = DocOf[q]
               PROVE  Holds(req[q].doc, r)'
    BY <1>1 DEF ListsShowWhatWasAnswered
  <2>1. req'[q] = req[q]
    BY <1>3
  <2>2. Holds(req[q].doc, r) /\ req[q].doc \in Document
    BY <2>1, Facts DEF DocumentsInv, AnswersAreCurrent, ListsShowWhatWasAnswered
  <2>3. r \in Requests /\ r # m
    BY <1>9 DEF DocumentsInv, KnownIsSettled
  <2>4. \E doc \in Document : doc = req[q].doc /\ Holds(doc, r)'
    BY <2>2, <2>3, LockHolds
  <2>5. QED
    BY <2>1, <2>4
<1>14. RefusalsAreJustified'
  <2> SUFFICES ASSUME NEW f \in Requests, req'[f].pc = "refused", NEW r \in Settled,
                      DocOf[r] = DocOf[f], SlotOf[r] = SlotOf[f], OpOf[r] = "assess"
               PROVE  turn'[r] > turn'[f]
    BY <1>8 DEF RefusalsAreJustified
  <2>1. f # m /\ r # m /\ r \in Requests /\ req[f].pc = "refused"
    BY <1>3, <1>9
  <2>2. turn[r] > turn[f]
    BY <2>1 DEF DocumentsInv, AnswersAreCurrent, RefusalsAreJustified
  <2>3. QED
    BY <2>1, <2>2, LockTurns
<1>15. QED
  BY <1>4, <1>6, <1>7, <1>10, <1>11, <1>12, <1>13, <1>14 DEF DocumentsInv, AnswersAreCurrent

\* A restart drops what was under way and perhaps the files; nobody reads a file
\* before restoring it, but for documents without a row.
LEMMA RestartKeeps ==
  ASSUME DocumentsInv, Restart
  PROVE  DocumentsInv'
<1>1. /\ mutex' = None
      /\ req' = [r \in Requests |->
           IF req[r].pc = "idle" \/ Answered(r) THEN req[r]
             ELSE [pc |-> "gone", doc |-> Empty]]
      /\ UNCHANGED <<db, turn, racing, known>>
  BY DEF Restart, Keep
<1>2. \A q \in Requests :
        \/ req'[q] = req[q] /\ req[q].pc \in {"idle", "ok", "error", "refused", "gone"}
        \/ req'[q] = [pc |-> "gone", doc |-> Empty] /\ req[q].pc \notin Answers
  BY <1>1 DEF Answered, Answers
<1>3. DocumentsTypeOK'
  <2>1. req' \in [Requests -> Request]
    <3>1. [pc |-> "gone", doc |-> Empty] \in Request
      BY EmptyFacts DEF Request, Answers
    <3>2. req \in [Requests -> Request]
      BY DEF DocumentsInv, DocumentsTypeOK
    <3>3. QED
      BY <1>1, <3>1, <3>2
  <2>2. faults' \in 0..MaxFaults /\ file' \in [Documents -> Document]
    BY EmptyFacts, DocumentAssumption DEF Restart, Fault, DocumentsInv, DocumentsTypeOK
  <2>3. QED
    BY <1>1, <2>1, <2>2 DEF DocumentsInv, DocumentsTypeOK
<1>4. \A doc, r : Holds(doc, r)' <=> Holds(doc, r)
  BY <1>1 DEF Holds
<1>5. Settled' = Settled
  <2>1. \A q \in Requests : req'[q].pc = "ok" <=> req[q].pc = "ok"
    BY <1>2 DEF Answers
  <2>2. QED
    BY <1>1, <2>1 DEF Settled, Changes
<1>6. InsideHolds'
  <2>1. \A q \in Requests : req'[q].pc \notin Inside /\ req'[q].pc \notin {"copy", "read", "keep"}
    BY <1>2 DEF Inside
  <2>2. \A q \in Requests : req'[q].pc = "refused" => Changes(q)
    BY <1>2 DEF DocumentsInv, InsideHolds
  <2>3. QED
    BY <1>1, <2>1, <2>2, DocumentAssumption DEF InsideHolds, Listing, Changes
<1>7. TurnsGrow'
  <2>1. Begun' = Begun
    BY <1>1 DEF Begun
  <2>2. \A q \in Requests : req'[q].pc = "idle" => req[q].pc = "idle"
    BY <1>2
  <2>3. QED
    BY <1>1, <2>1, <2>2, DocumentAssumption DEF DocumentsInv, TurnsGrow
<1>8. \A q \in Requests : req'[q].pc \notin {"restore", "write", "save", "copy", "change", "read", "keep"}
  BY <1>2
<1>9. WritesOwn'
  BY <1>8 DEF WritesOwn
<1>10. SettledIsHeld'
  BY <1>1, <1>4, <1>5, <1>8 DEF DocumentsInv, SettledIsHeld
<1>11. KnownIsSettled'
  BY <1>1, <1>5 DEF DocumentsInv, KnownIsSettled
<1>12. ListsShowWhatWasAnswered'
  <2> SUFFICES ASSUME NEW q \in Requests, OpOf[q] = "list", req'[q].pc = "ok",
                      NEW r \in known[q], DocOf[r] = DocOf[q]
               PROVE  Holds(req'[q].doc, r)
    BY <1>1, <1>4 DEF ListsShowWhatWasAnswered
  <2>1. req'[q] = req[q]
    BY <1>2
  <2>2. QED
    BY <2>1 DEF DocumentsInv, AnswersAreCurrent, ListsShowWhatWasAnswered
<1>13. RefusalsAreJustified'
  <2>1. \A q \in Requests : req'[q].pc = "refused" => req[q].pc = "refused"
    BY <1>2
  <2>2. QED
    BY <1>1, <1>5, <2>1 DEF DocumentsInv, AnswersAreCurrent, RefusalsAreJustified
<1>14. QED
  BY <1>3, <1>6, <1>7, <1>9, <1>10, <1>11, <1>12, <1>13 DEF DocumentsInv, AnswersAreCurrent

-----------------------------------------------------------------------------
(* Theorems.                                                                *)

LEMMA InitGivesInvariant == Init => DocumentsInv
<1> SUFFICES ASSUME Init PROVE DocumentsInv
  OBVIOUS
<1>1. /\ \A q \in Requests : req[q] = [pc |-> "idle", doc |-> Empty]
      /\ mutex = None /\ turn = [r \in Requests |-> 0]
      /\ \A q \in Requests : known[q] = {}
  BY DEF Init
<1>2. DocumentsTypeOK
  <2>1. [pc |-> "idle", doc |-> Empty] \in Request
    BY EmptyFacts DEF Request, Steps
  <2>2. QED
    BY <2>1, EmptyFacts, DocumentAssumption DEF Init, DocumentsTypeOK
<1>3. Settled = {}
  BY <1>1 DEF Settled
<1>4. InsideHolds
  BY <1>1, DocumentAssumption DEF InsideHolds, Inside, Listing
<1>5. TurnsGrow
  <2>1. Begun = {}
    BY <1>1 DEF Begun
  <2>2. QED
    BY <1>1, <2>1, FS_EmptySet, DocumentAssumption DEF TurnsGrow
<1>6. WritesOwn /\ SettledIsHeld /\ KnownIsSettled /\ AnswersAreCurrent
  BY <1>1, <1>3 DEF WritesOwn, SettledIsHeld, KnownIsSettled, AnswersAreCurrent,
                    ListsShowWhatWasAnswered, RefusalsAreJustified
<1>7. QED
  BY <1>2, <1>4, <1>5, <1>6 DEF DocumentsInv

LEMMA StutterKeeps ==
  ASSUME DocumentsInv, UNCHANGED vars
  PROVE  DocumentsInv'
<1>1. \A doc, r : Holds(doc, r)' <=> Holds(doc, r)
  BY DEF Holds, vars
<1>2. Settled' = Settled /\ Begun' = Begun
  BY DEF Settled, Begun, Changes, vars
<1>3. /\ DocumentsTypeOK' /\ InsideHolds' /\ TurnsGrow' /\ KnownIsSettled'
  BY <1>2 DEF DocumentsInv, DocumentsTypeOK, InsideHolds, TurnsGrow, KnownIsSettled, Listing,
              Changes, vars
<1>4. WritesOwn' /\ SettledIsHeld' /\ ListsShowWhatWasAnswered' /\ RefusalsAreJustified'
  BY <1>1, <1>2 DEF DocumentsInv, WritesOwn, SettledIsHeld, AnswersAreCurrent,
                    ListsShowWhatWasAnswered, RefusalsAreJustified, vars
<1>5. QED
  BY <1>3, <1>4 DEF DocumentsInv, AnswersAreCurrent

LEMMA NextKeeps ==
  ASSUME DocumentsInv, [Next]_vars
  PROVE  DocumentsInv'
<1>1. ASSUME NEW r \in Requests, Handler(r) PROVE DocumentsInv'
  BY <1>1, LockKeeps, HydrateKeeps, RestoreKeeps, ChangeKeeps, WriteKeeps, SaveKeeps,
     FindKeeps, CopyKeeps, ReadKeeps DEF Handler
<1>2. QED
  BY <1>1, RestartKeeps, StutterKeeps DEF Next

\* The mutex, the copies in the hands of requests and the files agree with the
\* settled changes at all times.
THEOREM DocumentsInvariantHolds == Spec => []DocumentsInv
<1>1. DocumentsInv /\ [Next]_vars => DocumentsInv'
  BY NextKeeps
<1>2. QED
  BY <1>1, InitGivesInvariant, PTL DEF Spec

\* Every variable keeps values of its kind.
THEOREM DocumentsTypeCorrect == Spec => []DocumentsTypeOK
<1>1. DocumentsInv => DocumentsTypeOK
  BY DEF DocumentsInv
<1>2. QED
  BY <1>1, DocumentsInvariantHolds, PTL

\* An acknowledged change that no list was in flight at stays in the database,
\* for any number of requests, documents, failures and restarts.
THEOREM AcknowledgedChangesAreKept == Spec => []AcknowledgedChangesSurvive
<1>1. DocumentsInv => AcknowledgedChangesSurvive
  BY DEF DocumentsInv, SettledIsHeld, AcknowledgedChangesSurvive
<1>2. QED
  BY <1>1, DocumentsInvariantHolds, PTL

\* Lists show the changes settled before them, and feedback is refused only
\* when no assessment of its window was settled before its turn.
THEOREM LaterAnswersAreCurrent == Spec => []AnswersAreCurrent
<1>1. DocumentsInv => AnswersAreCurrent
  BY DEF DocumentsInv
<1>2. QED
  BY <1>1, DocumentsInvariantHolds, PTL

-----------------------------------------------------------------------------
(* Sorting.                                                                 *)

\* How many elements of S come before x in the order R.
Rank(S, R, x) == Cardinality({y \in S : <<y, x>> \in R})

\* In a finite set with a strict order that is total, the ranks are those of a
\* sequence: each from 0 on is somebody's.
LEMMA Ranks ==
  ASSUME NEW S, IsFiniteSet(S), NEW R,
         \A x \in S : <<x, x>> \notin R,
         \A x, y, z \in S : <<x, y>> \in R /\ <<y, z>> \in R => <<x, z>> \in R,
         \A x, y \in S : x = y \/ <<x, y>> \in R \/ <<y, x>> \in R
  PROVE  /\ Cardinality(S) \in Nat
         /\ \A x \in S : Rank(S, R, x) \in 0 .. Cardinality(S) - 1
         /\ \A x, y \in S : <<x, y>> \in R <=> Rank(S, R, x) < Rank(S, R, y)
         /\ \A k \in 1 .. Cardinality(S) : \E x \in S : Rank(S, R, x) = k - 1
<1> DEFINE n == Cardinality(S)
<1> DEFINE Below(x) == {y \in S : <<y, x>> \in R}
<1>1. n \in Nat
  BY FS_CardinalityType
<1>f. PICK f : f = [x \in S |-> Cardinality(Below(x))]
  OBVIOUS
<1>r. \A x \in S : f[x] = Rank(S, R, x)
  BY <1>f DEF Rank
<1>2. ASSUME NEW x \in S PROVE IsFiniteSet(Below(x)) /\ f[x] = Cardinality(Below(x)) /\ f[x] \in Nat
  BY <1>f, FS_Subset, FS_CardinalityType
<1>3. ASSUME NEW x \in S PROVE f[x] \in 0 .. n - 1
  <2> DEFINE B == Below(x)
  <2>1. B \in SUBSET S /\ B # S
    OBVIOUS
  <2>2. /\ IsFiniteSet(B) /\ f[x] = Cardinality(B) /\ f[x] \in Nat
    BY <1>2
  <2> HIDE DEF B
  <2>3. Cardinality(B) <= Cardinality(S) /\ Cardinality(S) # Cardinality(B)
    BY <2>1, FS_Subset
  <2>4. QED
    BY <1>1, <2>2, <2>3
<1>4. ASSUME NEW x \in S, NEW y \in S, <<x, y>> \in R
      PROVE  f[x] < f[y]
  <2> DEFINE B == Below(x)
  <2> DEFINE C == Below(y)
  <2>1. B \in SUBSET C /\ B # C
    BY <1>4
  <2>2. /\ IsFiniteSet(C) /\ f[x] = Cardinality(B) /\ f[x] \in Nat
        /\ f[y] = Cardinality(C) /\ f[y] \in Nat
    BY <1>2
  <2> HIDE DEF B, C
  <2>3. Cardinality(B) <= Cardinality(C) /\ Cardinality(C) # Cardinality(B)
    BY <2>1, <2>2, FS_Subset
  <2>4. QED
    BY <2>2, <2>3
<1>5. \A x \in S : f[x] \in Nat
  BY <1>2
<1>6. ASSUME NEW x \in S, NEW y \in S PROVE <<x, y>> \in R <=> f[x] < f[y]
  <2>1. f[x] \in Nat /\ f[y] \in Nat
    BY <1>5
  <2>2. CASE x = y
    BY <2>1, <2>2
  <2>3. CASE <<x, y>> \in R
    BY <1>4, <2>3
  <2>4. CASE <<y, x>> \in R
    <3>1. f[y] < f[x]
      BY <1>4, <2>4
    <3>2. ~(f[x] < f[y])
      BY <2>1, <3>1
    <3>3. <<x, y>> \notin R
      BY <1>4, <3>2
    <3>4. QED
      BY <3>2, <3>3
  <2>5. QED
    BY <2>2, <2>3, <2>4
<1>7. \A k \in 1 .. n : \E x \in S : f[x] = k - 1
  <2>1. f \in [S -> 0 .. n - 1]
    BY <1>f, <1>3
  <2>2. ASSUME NEW x \in S, NEW y \in S, f[x] = f[y] PROVE x = y
    BY <1>5, <1>6, <2>2
  <2>3. f \in Injection(S, 0 .. n - 1)
    BY <2>1, <2>2 DEF Injection, IsInjective
  <2>4. 0 \in Int /\ n - 1 \in Int
    BY <1>1
  <2>5. IsFiniteSet(0 .. n - 1) /\ Cardinality(0 .. n - 1) = n
    BY <1>1, <2>4, FS_Interval
  <2>6. f \in Surjection(S, 0 .. n - 1)
    BY <2>3, <2>5, FS_Injection
  <2>7. \A i \in 0 .. n - 1 : \E x \in S : f[x] = i
    BY <2>6 DEF Surjection
  <2>8. QED
    BY <1>1, <2>7
<1>8. QED
  BY <1>1, <1>r, <1>3, <1>6, <1>7

\* The largest number of a finite set is one of its numbers.
LEMMA MaxFacts ==
  ASSUME NEW T \in SUBSET Int, IsFiniteSet(T), T # {}
  PROVE  Max(T) \in T /\ \A y \in T : y <= Max(T)
<1> DEFINE R == {p \in T \X T : p[1] > p[2]}
<1> DEFINE n == Cardinality(T)
<1>1. \A x, y \in T : <<x, y>> \in R <=> x > y
  OBVIOUS
<1>2. /\ \A x \in T : <<x, x>> \notin R
      /\ \A x, y, z \in T : <<x, y>> \in R /\ <<y, z>> \in R => <<x, z>> \in R
      /\ \A x, y \in T : x = y \/ <<x, y>> \in R \/ <<y, x>> \in R
  BY <1>1
<1> HIDE DEF R
<1>3. /\ n \in Nat
      /\ \A x \in T : Rank(T, R, x) \in 0 .. n - 1
      /\ \A x, y \in T : <<x, y>> \in R <=> Rank(T, R, x) < Rank(T, R, y)
      /\ \A k \in 1 .. n : \E x \in T : Rank(T, R, x) = k - 1
  BY <1>2, Ranks
<1>4. n # 0
  BY FS_EmptySet
<1> HIDE DEF n
<1>5. 1 \in 1 .. n
  BY <1>3, <1>4
<1>6. PICK x \in T : Rank(T, R, x) = 1 - 1
  BY <1>3, <1>5
<1>7. ASSUME NEW y \in T PROVE x >= y
  <2>1. <<y, x>> \notin R
    BY <1>3, <1>6
  <2>2. QED
    BY <1>1, <2>1
<1>8. Max(T) \in T /\ \A y \in T : Max(T) >= y
  BY <1>7 DEF Max
<1>9. QED
  BY <1>8

\* A set of numbers has a least one.
LEMMA LeastNat ==
  ASSUME NEW T \in SUBSET Nat, T # {}
  PROVE  \E x \in T : \A y \in T : x <= y
<1> DEFINE R == OpToRel(<, Nat)
<1>1. \A x, y \in Nat : <<x, y>> \in R <=> x < y
  BY DEF OpToRel
<1>2. IsWellFoundedOn(R, Nat)
  BY NatLessThanWellFounded
<1> HIDE DEF R
<1>3. PICK x \in T : \A y \in T : <<y, x>> \notin R
  BY <1>2, WFMin
<1>4. ASSUME NEW y \in T PROVE x <= y
  <2>1. x \in Nat /\ y \in Nat
    OBVIOUS
  <2>2. ~(y < x)
    BY <1>1, <1>3, <2>1
  <2>3. QED
    BY <2>1, <2>2
<1>5. QED
  BY <1>4

-----------------------------------------------------------------------------
(* Folding.                                                                 *)

\* What a fold over the subsets of D computes with a step of its own.
Folds(g, D, base, step) ==
  g = [s \in SUBSET D |->
        IF s = {} THEN base ELSE step[<<g[s \ {Max(s)}], Max(s)>>]]

\* A function defined by recursion over the subsets of a finite set of numbers
\* exists: there is one on the sets of at most n elements, for every n.
LEMMA FoldExists ==
  ASSUME NEW D \in SUBSET Nat, IsFiniteSet(D), NEW A, NEW base \in A, NEW step \in [A \X D -> A]
  PROVE  \E g \in [SUBSET D -> A] : Folds(g, D, base, step)
<1> DEFINE Upto(n) == {s \in SUBSET D : Cardinality(s) <= n}
           Value(g, s) == IF s = {} THEN base ELSE step[<<g[s \ {Max(s)}], Max(s)>>]
           Good(n) == \E g \in [Upto(n) -> A] : \A s \in Upto(n) : g[s] = Value(g, s)
<1>1. ASSUME NEW s \in SUBSET D
      PROVE  /\ Cardinality(s) \in Nat
             /\ s # {} => Max(s) \in s /\ Cardinality(s \ {Max(s)}) = Cardinality(s) - 1
  <2>1. IsFiniteSet(s) /\ s \in SUBSET Nat
    BY FS_Subset
  <2>2. s # {} => Max(s) \in s
    BY <2>1, MaxFacts
  <2>3. QED
    BY <2>1, <2>2, FS_CardinalityType, FS_RemoveElement
<1>2. Good(0)
  <2>1. PICK g : g = [s \in Upto(0) |-> base]
    OBVIOUS
  <2>2. \A s \in Upto(0) : s = {}
    <3>1. ASSUME NEW s \in Upto(0) PROVE s = {}
      <4>1. s \in SUBSET D /\ Cardinality(s) <= 0
        OBVIOUS
      <4>2. IsFiniteSet(s)
        BY <4>1, FS_Subset
      <4>3. Cardinality(s) \in Nat
        BY <1>1, <4>1
      <4>4. Cardinality(s) = 0
        BY <4>1, <4>3
      <4>5. QED
        BY <4>2, <4>4, FS_EmptySet
    <3>2. QED
      BY <3>1
  <2>3. g \in [Upto(0) -> A] /\ \A s \in Upto(0) : g[s] = Value(g, s)
    BY <2>1, <2>2
  <2>4. QED
    BY <2>3
<1>3. ASSUME NEW n \in Nat, Good(n) PROVE Good(n + 1)
  <2>1. PICK g \in [Upto(n) -> A] : \A s \in Upto(n) : g[s] = Value(g, s)
    BY <1>3
  <2>2. PICK h : h = [s \in Upto(n + 1) |-> Value(g, s)]
    OBVIOUS
  <2>3. ASSUME NEW s \in Upto(n + 1), s # {}
        PROVE  s \ {Max(s)} \in Upto(n) /\ Max(s) \in D
    <3>1. s \in SUBSET D /\ Cardinality(s) <= n + 1
      OBVIOUS
    <3>2. /\ Max(s) \in s /\ Cardinality(s \ {Max(s)}) = Cardinality(s) - 1
          /\ Cardinality(s) \in Nat
      BY <1>1, <2>3, <3>1
    <3>3. Cardinality(s \ {Max(s)}) <= n
      BY <3>1, <3>2
    <3>4. QED
      BY <3>1, <3>2, <3>3
  <2>4. h \in [Upto(n + 1) -> A]
    BY <2>1, <2>2, <2>3
  <2>5. \A s \in Upto(n) : s \in Upto(n + 1) /\ h[s] = g[s]
    BY <1>1, <2>1, <2>2
  <2>6. \A s \in Upto(n + 1) : h[s] = Value(h, s)
    BY <2>2, <2>3, <2>5
  <2>7. QED
    BY <2>4, <2>6
<1> HIDE DEF Good
<1>4. \A n \in Nat : Good(n)
  <2> DEFINE T == {n \in Nat : ~Good(n)}
  <2>1. SUFFICES ASSUME T # {} PROVE FALSE
    OBVIOUS
  <2>2. PICK n \in T : \A m \in T : n <= m
    BY <2>1, LeastNat
  <2>3. n \in Nat /\ ~Good(n) /\ n # 0
    BY <1>2
  <2>4. n - 1 \in Nat /\ n - 1 \notin T
    BY <2>2, <2>3
  <2>5. Good(n - 1)
    BY <2>4
  <2>6. Good((n - 1) + 1)
    BY <1>3, <2>4, <2>5
  <2>7. (n - 1) + 1 = n
    BY <2>3
  <2>8. QED
    BY <2>3, <2>6, <2>7
<1>5. Cardinality(D) \in Nat /\ \A s \in SUBSET D : Cardinality(s) <= Cardinality(D)
  BY FS_CardinalityType, FS_Subset
<1>6. Upto(Cardinality(D)) = SUBSET D
  BY <1>5
<1>7. PICK g \in [SUBSET D -> A] : \A s \in SUBSET D : g[s] = Value(g, s)
  BY <1>4, <1>5, <1>6 DEF Good
<1>8. g = [s \in SUBSET D |-> Value(g, s)]
  BY <1>7
<1>9. QED
  BY <1>7, <1>8 DEF Folds

-----------------------------------------------------------------------------
(* Folding from left to right.                                              *)

\* Induction up to n, over the set of what holds.
LEMMA Upwards ==
  ASSUME NEW n \in Nat, NEW P, 0 \in P, \A k \in 1 .. n : k - 1 \in P => k \in P
  PROVE  0 .. n \subseteq P
<1> DEFINE T == {k \in 0 .. n : k \notin P}
<1>1. SUFFICES ASSUME T # {} PROVE FALSE
  OBVIOUS
<1>2. T \in SUBSET Nat
  OBVIOUS
<1>3. PICK k \in T : \A m \in T : k <= m
  BY <1>1, <1>2, LeastNat
<1>4. k \in 1 .. n /\ k - 1 \in 0 .. n /\ k - 1 \notin T
  BY <1>3
<1>5. k - 1 \in P
  BY <1>4
<1>6. QED
  BY <1>3, <1>4, <1>5

\* What is said of 1 .. k as a set whose largest element is taken off.
LEMMA PrefixFacts ==
  ASSUME NEW n \in Nat, NEW k \in 1 .. n
  PROVE  /\ Max(1 .. k) = k /\ (1 .. k) \ {k} = 1 .. k - 1
         /\ 1 .. k \in SUBSET (1 .. n) /\ 1 .. k # {}
<1>1. k \in Nat /\ k \in 1 .. k
  OBVIOUS
<1>a. IsFiniteSet(1 .. k)
  BY <1>1, FS_Interval
<1>b. 1 .. k \in SUBSET Int /\ 1 .. k # {}
  BY <1>1
<1>2. IsFiniteSet(1 .. k) /\ 1 .. k \in SUBSET Int /\ 1 .. k # {}
  BY <1>a, <1>b
<1>3. PICK m : m = Max(1 .. k) /\ m \in 1 .. k /\ \A y \in 1 .. k : y <= m
  BY <1>2, MaxFacts
<1>4. m = k
  BY <1>1, <1>3
<1>5. QED
  BY <1>1, <1>2, <1>3, <1>4

\* What is left of a set of indices is a smaller one, so the fold has a value there.
LEMMA FoldSteps ==
  ASSUME NEW n \in Nat, NEW A, NEW g \in [SUBSET (1 .. n) -> A], NEW s \in SUBSET (1 .. n), s # {}
  PROVE  g[s \ {Max(s)}] \in A /\ Max(s) \in 1 .. n
<1>1. IsFiniteSet(1 .. n)
  BY FS_Interval
<1>a. IsFiniteSet(s)
  BY <1>1, FS_Subset
<1>b. s \in SUBSET Int
  OBVIOUS
<1>2. IsFiniteSet(s) /\ s \in SUBSET Int
  BY <1>a, <1>b
<1>3. Max(s) \in s
  BY <1>2, MaxFacts
<1>4. QED
  BY <1>3

\* What a fold over 1 .. n computes, one step after the other.
Runs1(acc, n, A, base, step) ==
  /\ acc \in [0 .. n -> A]
  /\ acc[0] = base
  /\ \A k \in 1 .. n : acc[k] = step[<<acc[k - 1], k>>]

\* A fold, its values given by v.
FoldOf(g, n, base, v) == g = [s \in SUBSET (1 .. n) |-> IF s = {} THEN base ELSE v[s]]

StepTyped(n, A, step) == step \in [A \X (1 .. n) -> A]

\* A fold over 1 .. n is the last of n steps, each taken from the one before it.
LEMMA FoldRuns ==
  ASSUME NEW n \in Nat, NEW A, NEW base \in A, NEW step, StepTyped(n, A, step), NEW g, NEW v,
         FoldOf(g, n, base, v),
         \A k \in 1 .. n : g[1 .. k - 1] \in A => v[1 .. k] = step[<<g[1 .. k - 1], k>>]
  PROVE  \E acc : Runs1(acc, n, A, base, step) /\ acc[n] = g[1 .. n]
<1>1. g[1 .. 0] = base
  <2>1. 1 .. 0 = {}
    OBVIOUS
  <2>2. g[{}] = base
    BY DEF FoldOf
  <2>3. QED
    BY <2>1, <2>2
<1>2. ASSUME NEW k \in 1 .. n, g[1 .. k - 1] \in A
      PROVE  g[1 .. k] = step[<<g[1 .. k - 1], k>>] /\ g[1 .. k] \in A
  <2>1. g[1 .. k] = v[1 .. k]
    BY PrefixFacts DEF FoldOf
  <2>2. v[1 .. k] = step[<<g[1 .. k - 1], k>>]
    BY <1>2
  <2>3. step[<<g[1 .. k - 1], k>>] \in A
    BY <1>2 DEF StepTyped
  <2>4. QED
    BY <2>1, <2>2, <2>3
<1>3. PICK P : P = {k \in 0 .. n : g[1 .. k] \in A}
  OBVIOUS
<1>4. 0 \in P /\ \A k \in 1 .. n : k - 1 \in P => k \in P
  <2>1. 0 \in P
    BY <1>1, <1>3
  <2>2. ASSUME NEW k \in 1 .. n, k - 1 \in P PROVE k \in P
    <3>1. g[1 .. k - 1] \in A
      BY <1>3, <2>2
    <3>2. g[1 .. k] \in A
      BY <1>2, <3>1, Zenon
    <3>3. k \in 0 .. n
      OBVIOUS
    <3>4. QED
      BY <1>3, <3>2, <3>3
  <2>3. QED
    BY <2>1, <2>2
<1>5. \A k \in 0 .. n : g[1 .. k] \in A
  BY <1>3, <1>4, Upwards
<1>6. PICK acc : acc = [k \in 0 .. n |-> g[1 .. k]]
  OBVIOUS
<1>7. acc \in [0 .. n -> A] /\ acc[0] = base /\ acc[n] = g[1 .. n]
  BY <1>1, <1>5, <1>6
<1>8. ASSUME NEW k \in 1 .. n PROVE acc[k] = step[<<acc[k - 1], k>>]
  <2>1. k - 1 \in 0 .. n /\ k \in 0 .. n
    OBVIOUS
  <2>2. acc[k - 1] = g[1 .. k - 1] /\ acc[k] = g[1 .. k]
    BY <1>6, <2>1
  <2>3. QED
    BY <1>2, <1>5, <2>1, <2>2
<1>9. QED
  BY <1>7, <1>8 DEF Runs1

-----------------------------------------------------------------------------
(* Picking windows.                                                         *)

\* What the search has picked once it has considered w.
Considered(picked, w, existing, padding, spacing, limit) ==
  IF \/ Len(picked) >= limit
     \/ OverlapsAny(existing, w, padding)
     \/ OverlapsAny(picked, w, spacing)
    THEN picked ELSE Append(picked, w)

\* Pick takes the ranked windows one after another: the fold of FoldLeftDomain,
\* written out.
LEMMA PickIsFold ==
  ASSUME NEW ranked, NEW existing, NEW padding, NEW spacing, NEW limit
  PROVE  Pick(ranked, existing, padding, spacing, limit) =
           (CHOOSE g : g = [s \in SUBSET DOMAIN ranked |->
              IF s = {} THEN <<>>
              ELSE Considered(g[s \ {Max(s)}], ranked[Max(s)], existing, padding, spacing, limit)])[DOMAIN ranked]
BY DEF Pick, FoldLeft, MapThenFoldSet, Considered

\* Windows that begin before they end.
Spans(W) == \A w \in W : w.from \in Int /\ w.to \in Int /\ w.from <= w.to

\* What any search may have picked: windows of W within the limit, clear of
\* those there are and of each other.
PickedFrom(W, existing, padding, spacing, limit, picked) ==
  /\ picked \in Seq(W)
  /\ Len(picked) <= limit
  /\ \A k \in 1 .. Len(picked) : ~OverlapsAny(existing, picked[k], padding)
  /\ \A j, k \in 1 .. Len(picked) : j # k => ~Overlaps(picked[j], picked[k], spacing)

\* Two windows overlap each other or neither does.
LEMMA OverlapIsMutual ==
  ASSUME NEW W, Spans(W), NEW w \in W, NEW v \in W, NEW padding \in Nat
  PROVE  Overlaps(w, v, padding) <=> Overlaps(v, w, padding)
<1>1. w.from \in Int /\ w.to \in Int /\ v.from \in Int /\ v.to \in Int
  BY DEF Spans
<1>2. QED
  BY <1>1 DEF Overlaps

\* What a sequence has after one more element.
LEMMA AppendFacts ==
  ASSUME NEW W, NEW s \in Seq(W), NEW w \in W, NEW t, t = Append(s, w)
  PROVE  /\ t \in Seq(W) /\ Len(t) = Len(s) + 1 /\ Len(s) \in Nat
         /\ \A k \in 1 .. Len(s) : t[k] = s[k]
         /\ t[Len(t)] = w
         /\ \A k \in 1 .. Len(t) : k \in 1 .. Len(s) \/ k = Len(t)
OBVIOUS

\* Considering one more window keeps the picked ones apart, far enough from the
\* existing ones and within the limit.
LEMMA ConsideredKeeps ==
  ASSUME NEW W, Spans(W), NEW existing, NEW padding, NEW spacing \in Nat, NEW limit \in Nat,
         NEW picked, PickedFrom(W, existing, padding, spacing, limit, picked), NEW w \in W
  PROVE  PickedFrom(W, existing, padding, spacing, limit,
                    Considered(picked, w, existing, padding, spacing, limit))
<1>1. picked \in Seq(W) /\ Len(picked) \in Nat /\ Len(picked) <= limit
  BY DEF PickedFrom
<1>2. CASE \/ Len(picked) >= limit
           \/ OverlapsAny(existing, w, padding)
           \/ OverlapsAny(picked, w, spacing)
  BY <1>2 DEF Considered
<1>3. CASE ~ (\/ Len(picked) >= limit
              \/ OverlapsAny(existing, w, padding)
              \/ OverlapsAny(picked, w, spacing))
  <2>1. PICK t : t = Append(picked, w) /\ t = Considered(picked, w, existing, padding, spacing, limit)
    BY <1>3 DEF Considered
  <2>2. /\ t \in Seq(W) /\ Len(t) = Len(picked) + 1
        /\ \A k \in 1 .. Len(picked) : t[k] = picked[k]
        /\ t[Len(t)] = w
        /\ \A k \in 1 .. Len(t) : k \in 1 .. Len(picked) \/ k = Len(t)
    <3>1. picked \in Seq(W) /\ t = Append(picked, w)
      BY <1>1, <2>1
    <3>2. QED
      BY <3>1, AppendFacts
  <2>3. Len(t) <= limit
    BY <1>1, <1>3, <2>2
  <2>4. ASSUME NEW k \in 1 .. Len(t) PROVE ~OverlapsAny(existing, t[k], padding)
    BY <1>3, <2>2 DEF PickedFrom
  <2>5. ASSUME NEW k \in 1 .. Len(picked)
        PROVE  ~Overlaps(t[k], w, spacing) /\ ~Overlaps(w, t[k], spacing)
    <3>1. k \in DOMAIN picked /\ picked[k] \in W /\ t[k] = picked[k]
      BY <1>1, <2>2
    <3>2. ~Overlaps(w, picked[k], spacing)
      BY <1>3, <3>1 DEF OverlapsAny
    <3>3. QED
      BY <3>1, <3>2, OverlapIsMutual
  <2>6. ASSUME NEW j \in 1 .. Len(t), NEW k \in 1 .. Len(t), j # k
        PROVE  ~Overlaps(t[j], t[k], spacing)
    <3>1. CASE j \in 1 .. Len(picked) /\ k \in 1 .. Len(picked)
      BY <2>2, <2>6, <3>1 DEF PickedFrom
    <3>2. CASE j = Len(t) /\ k \in 1 .. Len(picked)
      BY <2>2, <2>5, <3>2
    <3>3. CASE k = Len(t) /\ j \in 1 .. Len(picked)
      BY <2>2, <2>5, <3>3
    <3>4. QED
      BY <2>2, <2>6, <3>1, <3>2, <3>3
  <2>7. PickedFrom(W, existing, padding, spacing, limit, t)
    BY <2>2, <2>3, <2>4, <2>6 DEF PickedFrom
  <2>8. QED
    BY <2>1, <2>7
<1>4. QED
  BY <1>2, <1>3

\* What a search picks, whatever it ranks: by induction over the candidates.
LEMMA PickFacts ==
  ASSUME NEW W, Spans(W), NEW ranked \in Seq(W), NEW existing, NEW padding,
         NEW spacing \in Nat, NEW limit \in Nat
  PROVE  PickedFrom(W, existing, padding, spacing, limit,
                    Pick(ranked, existing, padding, spacing, limit))
<1> DEFINE n == Len(ranked)
           D == 1 .. n
           A == Seq(W)
           Next1(p, x) == Considered(p, ranked[x], existing, padding, spacing, limit)
           Fold(g) == g = [s \in SUBSET D |-> IF s = {} THEN <<>> ELSE Next1(g[s \ {Max(s)}], Max(s))]
<1>1. n \in Nat /\ DOMAIN ranked = D /\ \A k \in D : ranked[k] \in W
  OBVIOUS
<1>2. D \in SUBSET Nat /\ IsFiniteSet(D)
  BY <1>1, FS_Interval
<1>3. \E g : Fold(g)
  <2>1. PICK step : step = [p \in A \X D |-> Next1(p[1], p[2])]
    OBVIOUS
  <2>2. ASSUME NEW p \in A, NEW x \in D PROVE Next1(p, x) \in A
    <3>1. Append(p, ranked[x]) \in A
      BY <1>1
    <3>2. QED
      BY <3>1 DEF Considered
  <2>3. step \in [A \X D -> A]
    BY <2>1, <2>2
  <2>4. <<>> \in A
    OBVIOUS
  <2> HIDE DEF Next1, A, D
  <2>5. PICK g \in [SUBSET D -> A] : Folds(g, D, <<>>, step)
    BY <1>2, <2>3, <2>4, FoldExists
  <2>6. ASSUME NEW s \in SUBSET D, s # {}
        PROVE  step[<<g[s \ {Max(s)}], Max(s)>>] = Next1(g[s \ {Max(s)}], Max(s))
    <3>0. IsFiniteSet(D) /\ s \in SUBSET D
      BY <1>2
    <3>1. IsFiniteSet(s)
      BY <3>0, FS_Subset
    <3>a. s \in SUBSET Int /\ s # {}
      BY <1>2, <2>6
    <3>. Max(s) \in s
      BY <3>1, <3>a, MaxFacts
    <3>2. g[s \ {Max(s)}] \in A /\ Max(s) \in D
      BY <3>1
    <3>3. QED
      BY <2>1, <3>2
  <2>7. Fold(g)
    BY <2>5, <2>6 DEF Folds
  <2>8. QED
    BY <2>7
<1>4. PICK g : g = CHOOSE h : Fold(h)
  OBVIOUS
<1>5. Fold(g)
  BY <1>3, <1>4
<1>6. Pick(ranked, existing, padding, spacing, limit) = g[D]
  BY <1>1, <1>4, PickIsFold
<1> DEFINE Good(k) == PickedFrom(W, existing, padding, spacing, limit, g[1 .. k])
<1>7. Good(0)
  <2>1. 1 .. 0 = {}
    OBVIOUS
  <2>2. g[1 .. 0] = <<>>
    BY <1>5, <2>1
  <2>3. QED
    BY <2>2 DEF PickedFrom
<1>8. ASSUME NEW k \in 0 .. n - 1, Good(k) PROVE Good(k + 1)
  <2>0. k \in Int /\ 0 <= k /\ k + 1 <= n
    BY <1>1
  <2>1. 1 .. k + 1 \in SUBSET D /\ 1 .. k + 1 # {} /\ k + 1 \in D
    <3> HIDE DEF n
    <3>1. k + 1 \in D /\ k + 1 \in 1 .. k + 1
      BY <1>1, <2>0
    <3>2. \A i \in 1 .. k + 1 : i \in D
      BY <1>1, <2>0
    <3>3. QED
      BY <3>1, <3>2
  <2>2. Max(1 .. k + 1) = k + 1
    <3>1. IsFiniteSet(1 .. k + 1) /\ 1 .. k + 1 \in SUBSET Int
      BY <1>1, FS_Interval
    <3>2. PICK m : m = Max(1 .. k + 1) /\ m \in 1 .. k + 1 /\ \A y \in 1 .. k + 1 : y <= m
      BY <2>1, <3>1, MaxFacts
    <3>3. QED
      BY <1>1, <3>2
  <2>3. (1 .. k + 1) \ {k + 1} = 1 .. k
    BY <1>1
  <2>4. g[1 .. k + 1] = Next1(g[1 .. k], k + 1)
    BY <1>5, <2>1, <2>2, <2>3
  <2>5. ranked[k + 1] \in W
    BY <1>1, <2>1
  <2>6. QED
    BY <1>8, <2>4, <2>5, ConsideredKeeps
<1> HIDE DEF Good
<1>9. \A k \in 0 .. n : Good(k)
  <2> DEFINE T == {k \in 0 .. n : ~Good(k)}
  <2>1. SUFFICES ASSUME T # {} PROVE FALSE
    OBVIOUS
  <2>t. T \in SUBSET Nat
    BY <1>1
  <2> HIDE DEF T
  <2>2. PICK k \in T : \A m \in T : k <= m
    BY <2>t, <2>1, LeastNat
  <2> USE DEF T
  <2>3. k \in Nat /\ k # 0 /\ k <= n /\ ~Good(k)
    BY <1>1, <1>7, <2>2
  <2>4. k - 1 \in 0 .. n - 1 /\ k - 1 \in 0 .. n /\ k - 1 \notin T /\ (k - 1) + 1 = k
    BY <1>1, <2>2, <2>3
  <2>5. Good(k - 1)
    BY <2>4
  <2>6. QED
    BY <1>8, <2>3, <2>4, <2>5
<1>10. QED
  BY <1>1, <1>6, <1>9 DEF Good

-----------------------------------------------------------------------------
(* Orders.                                                                  *)

\* A strict order in which any two elements of S compare.
TotalOrder(S, R) ==
  /\ \A x \in S : <<x, x>> \notin R
  /\ \A x, y, z \in S : <<x, y>> \in R /\ <<y, z>> \in R => <<x, z>> \in R
  /\ \A x, y \in S : x = y \/ <<x, y>> \in R \/ <<y, x>> \in R

\* The k-th element has k - 1 before it.
Arranged(q, S, R) ==
  /\ q \in [1 .. Cardinality(S) -> S]
  /\ \A k \in 1 .. Cardinality(S) : Rank(S, R, q[k]) = k - 1

\* A sequence with every element of S once, in the order R.
InOrder(q, S, R) ==
  /\ q \in Seq(S)
  /\ Len(q) = Cardinality(S)
  /\ \A j, k \in 1 .. Len(q) : j < k => <<q[j], q[k]>> \in R
  /\ \A x \in S : \E k \in 1 .. Len(q) : q[k] = x

\* A sequence that lists a totally ordered set by rank is sorted by that order.
LEMMA ArrangedIsInOrder ==
  ASSUME NEW S, IsFiniteSet(S), NEW R, TotalOrder(S, R), NEW q, Arranged(q, S, R)
  PROVE  InOrder(q, S, R)
<1> DEFINE n == Cardinality(S)
<1>1. /\ n \in Nat
      /\ \A x \in S : Rank(S, R, x) \in 0 .. n - 1
      /\ \A x, y \in S : <<x, y>> \in R <=> Rank(S, R, x) < Rank(S, R, y)
      /\ \A k \in 1 .. n : \E x \in S : Rank(S, R, x) = k - 1
  BY Ranks DEF TotalOrder
<1>2. q \in [1 .. n -> S] /\ \A k \in 1 .. n : q[k] \in S /\ Rank(S, R, q[k]) = k - 1
  BY DEF Arranged
<1> HIDE DEF n
<1>3. q \in Seq(S) /\ Len(q) = n
  BY <1>1, <1>2
<1>4. ASSUME NEW j \in 1 .. n, NEW k \in 1 .. n, j < k PROVE <<q[j], q[k]>> \in R
  BY <1>1, <1>2, <1>4
<1>5. ASSUME NEW x \in S PROVE \E k \in 1 .. n : q[k] = x
  <2>1. PICK k : k = Rank(S, R, x) + 1
    OBVIOUS
  <2>2. k \in 1 .. n /\ Rank(S, R, x) = k - 1
    BY <1>1, <2>1
  <2>3. q[k] \in S /\ Rank(S, R, q[k]) = k - 1
    BY <1>2, <2>2
  <2>4. ~(<<q[k], x>> \in R) /\ ~(<<x, q[k]>> \in R)
    BY <1>1, <2>2, <2>3
  <2>5. q[k] = x
    BY <2>3, <2>4 DEF TotalOrder
  <2>6. QED
    BY <2>2, <2>5
<1>6. QED
  BY <1>3, <1>4, <1>5 DEF InOrder, n

\* There is something to arrange: every place has its element.
LEMMA PlacesExist ==
  ASSUME NEW S, IsFiniteSet(S), NEW R, TotalOrder(S, R)
  PROVE  /\ Cardinality(S) \in Nat
         /\ \A k \in 1 .. Cardinality(S) : \E x \in S : Rank(S, R, x) = k - 1
BY Ranks DEF TotalOrder

\* The first of a finite set that is not empty.
LEMMA FirstExists ==
  ASSUME NEW S, IsFiniteSet(S), S # {}, NEW R, TotalOrder(S, R)
  PROVE  \E x \in S : \A y \in S : <<y, x>> \notin R
<1> DEFINE n == Cardinality(S)
<1>1. /\ n \in Nat
      /\ \A x \in S : Rank(S, R, x) \in 0 .. n - 1
      /\ \A x, y \in S : <<x, y>> \in R <=> Rank(S, R, x) < Rank(S, R, y)
      /\ \A k \in 1 .. n : \E x \in S : Rank(S, R, x) = k - 1
  BY Ranks DEF TotalOrder
<1>2. n # 0
  BY FS_EmptySet
<1> HIDE DEF n
<1>3. 1 \in 1 .. n
  BY <1>1, <1>2
<1>4. PICK x \in S : Rank(S, R, x) = 1 - 1
  BY <1>1, <1>3
<1>5. QED
  BY <1>1, <1>4

\* The least number of a finite set is one of its numbers.
LEMMA MinFacts ==
  ASSUME NEW T \in SUBSET Int, IsFiniteSet(T), T # {}
  PROVE  Min(T) \in T /\ \A y \in T : Min(T) <= y
<1>1. PICK R : R = {p \in T \X T : p[1] < p[2]}
  OBVIOUS
<1>2. \A x, y \in T : <<x, y>> \in R <=> x < y
  BY <1>1
<1>3. TotalOrder(T, R)
  BY <1>2 DEF TotalOrder
<1>4. PICK x \in T : \A y \in T : <<y, x>> \notin R
  BY <1>3, FirstExists
<1>5. ASSUME NEW y \in T PROVE x <= y
  <2>1. x \in Int /\ y \in Int
    OBVIOUS
  <2>2. <<y, x>> \notin R
    BY <1>4
  <2>3. ~(y < x)
    BY <1>2, <2>2
  <2>4. QED
    BY <2>1, <2>3
<1>6. QED
  BY <1>4, <1>5 DEF Min

\* Max and Min of two numbers.
LEMMA PairFacts ==
  ASSUME NEW a \in Int, NEW b \in Int
  PROVE  /\ Max({a, b}) \in {a, b} /\ Max({a, b}) >= a /\ Max({a, b}) >= b
         /\ Min({a, b}) \in {a, b} /\ Min({a, b}) <= a /\ Min({a, b}) <= b
<1>1. IsFiniteSet({a, b})
  <2>1. IsFiniteSet({a}) /\ {a, b} = {a} \cup {b}
    BY FS_Singleton
  <2>2. QED
    BY <2>1, FS_AddElement
<1>2. {a, b} \in SUBSET Int /\ {a, b} # {}
  OBVIOUS
<1>3. Max({a, b}) \in {a, b} /\ \A y \in {a, b} : y <= Max({a, b})
  BY <1>1, <1>2, MaxFacts
<1>4. Min({a, b}) \in {a, b} /\ \A y \in {a, b} : Min({a, b}) <= y
  BY <1>1, <1>2, MinFacts
<1>5. QED
  BY <1>3, <1>4

\* The first of the best: value gives the score of every element of S.
LEMMA BestFacts ==
  ASSUME NEW S \in SUBSET Int, IsFiniteSet(S), S # {}, NEW value, \A i \in S : value[i] \in Int
  PROVE  /\ Min({i \in S : \A j \in S : value[j] <= value[i]}) \in S
         /\ \A j \in S : value[j] <= value[Min({i \in S : \A k \in S : value[k] <= value[i]})]
<1> DEFINE T == {i \in S : \A j \in S : value[j] <= value[i]}
<1>1. PICK R : R = {p \in S \X S : value[p[1]] > value[p[2]] \/ (value[p[1]] = value[p[2]] /\ p[1] < p[2])}
  OBVIOUS
<1>2. \A x, y \in S : <<x, y>> \in R <=> value[x] > value[y] \/ (value[x] = value[y] /\ x < y)
  BY <1>1
<1>3. TotalOrder(S, R)
  BY <1>2 DEF TotalOrder
<1>4. PICK x \in S : \A y \in S : <<y, x>> \notin R
  BY <1>3, FirstExists
<1>5. x \in T
  <2>1. ASSUME NEW y \in S PROVE value[y] <= value[x]
    <3>1. value[x] \in Int /\ value[y] \in Int
      OBVIOUS
    <3>2. <<y, x>> \notin R
      BY <1>4
    <3>3. ~(value[y] > value[x])
      BY <1>2, <3>2
    <3>4. QED
      BY <3>1, <3>3
  <2>2. QED
    BY <2>1
<1>6. IsFiniteSet(T) /\ T \in SUBSET Int
  BY FS_Subset
<1>7. T # {}
  BY <1>5
<1> HIDE DEF T
<1>8. Min(T) \in T
  BY <1>6, <1>7, MinFacts
<1>9. QED
  BY <1>8 DEF T

-----------------------------------------------------------------------------
(* Frames.                                                                  *)

Phases == {"unknown", "buy", "death", "scoreboard", "round_end", "fight", "rotate", "hold", "midround"}

Frame ==
  [at : Nat, text : SUBSET Texts, read : SUBSET Texts, buy : Nat, board : Nat, report : Nat,
   ended : Nat, combat : Nat, hit : BOOLEAN, motion : Nat, hud : Nat, phase : Phases]

\* The frames are in the order of time.
InTime(fs) ==
  /\ fs \in Seq(Frame)
  /\ \A j, k \in 1 .. Len(fs) : j <= k => fs[j].at <= fs[k].at

\* What the sampler makes of a look is a frame at its own time.
LEMMA ObservationTyped ==
  ASSUME NEW look \in Look, NEW at \in Nat
  PROVE  Observation(look, at) \in Frame /\ Observation(look, at).at = at
<1>1. /\ look.text \in SUBSET Texts /\ look.buy \in Nat /\ look.board \in Nat /\ look.report \in Nat
      /\ look.combat \in Nat /\ look.hit \in BOOLEAN /\ look.motion \in Nat /\ look.hud \in Nat
  BY DEF Look
<1>2. {} \in SUBSET Texts /\ 0 \in Nat /\ "unknown" \in Phases
  BY DEF Phases
<1>3. Observation(look, at) \in Frame
  BY <1>1, <1>2 DEF Observation, Frame
<1>4. QED
  BY <1>3 DEF Observation

\* Frame times are multiples of the interval, and later frames are no earlier.
LEMMA TimesGrow ==
  ASSUME NEW interval \in Nat, NEW i \in Nat, NEW j \in Nat, i <= j
  PROVE  interval * i \in Nat /\ interval * i <= interval * j
<1>1. j - i \in Nat /\ interval * (j - i) \in Nat
  OBVIOUS
<1>2. interval * j = interval * i + interval * (j - i)
  OBVIOUS
<1>3. interval * i \in Nat /\ interval * j \in Nat
  OBVIOUS
<1>4. QED
  BY <1>1, <1>2, <1>3

\* The sampled frames follow the clock (SampleTimeline, the report's frames).
LEMMA ObservationsInTime ==
  ASSUME NEW count \in Nat, NEW names \in SUBSET (DOMAIN Looks \cup {Broken}),
         NEW seen \in [1 .. count -> names], NEW interval \in Nat
  PROVE  InTime(Observations(seen, interval))
<1> DEFINE S == {i \in DOMAIN seen : seen[i] # Broken}
           n == Cardinality(S)
<1>1. S \in SUBSET (1 .. count) /\ \A i \in S : seen[i] \in DOMAIN Looks
  OBVIOUS
<1>2. IsFiniteSet(S)
  <2>1. IsFiniteSet(1 .. count)
    BY FS_Interval
  <2>2. QED
    BY <1>1, <2>1, FS_Subset
<1>3. PICK q : q = Sorted(S, LAMBDA i, j : i < j)
  OBVIOUS
<1>4. PICK R : R = {p \in S \X S : p[1] < p[2]}
  OBVIOUS
<1>5. \A i, j \in S : <<i, j>> \in R <=> i < j
  BY <1>4
<1>6. \A i, j \in S : i \in Nat /\ j \in Nat /\ i >= 1
  BY <1>1
<1>7. TotalOrder(S, R)
  BY <1>5, <1>6 DEF TotalOrder
<1>8. Arranged(q, S, R)
  <2>1. ASSUME NEW x \in S PROVE Cardinality({y \in S : y < x}) = Rank(S, R, x)
    <3>1. {y \in S : y < x} = {y \in S : <<y, x>> \in R}
      BY <1>5
    <3>2. QED
      BY <3>1 DEF Rank
  <2>2. q = [k \in 1 .. n |-> CHOOSE x \in S : Cardinality({y \in S : y < x}) = k - 1]
    BY <1>3 DEF Sorted
  <2> HIDE DEF S
  <2>3. \A k \in 1 .. n : \E x \in S : Rank(S, R, x) = k - 1
    BY <1>2, <1>7, PlacesExist
  <2>4. \A k \in 1 .. n : q[k] \in S /\ Rank(S, R, q[k]) = k - 1
    BY <2>1, <2>2, <2>3
  <2>5. QED
    BY <2>2, <2>4 DEF Arranged
<1>9. InOrder(q, S, R)
  BY <1>2, <1>7, <1>8, ArrangedIsInOrder
<1>10. Observations(seen, interval) =
         [k \in DOMAIN q |-> Observation(Looks[seen[q[k]]], interval * (q[k] - 1))]
  BY <1>3 DEF Observations
<1> HIDE DEF S
<1>a. q \in Seq(S) /\ \A j, k \in 1 .. Len(q) : j < k => <<q[j], q[k]>> \in R
  BY <1>9 DEF InOrder
<1>b. DOMAIN q = 1 .. Len(q) /\ Len(q) \in Nat /\ \A k \in 1 .. Len(q) : q[k] \in S
  BY <1>a
<1>11. /\ q \in Seq(S) /\ DOMAIN q = 1 .. Len(q) /\ Len(q) \in Nat
       /\ \A k \in 1 .. Len(q) : q[k] \in S
       /\ \A j, k \in 1 .. Len(q) : j < k => q[j] < q[k]
  BY <1>5, <1>a, <1>b
<1>12. ASSUME NEW k \in 1 .. Len(q)
       PROVE  /\ Observation(Looks[seen[q[k]]], interval * (q[k] - 1)) \in Frame
              /\ Observation(Looks[seen[q[k]]], interval * (q[k] - 1)).at = interval * (q[k] - 1)
  <2>1. q[k] - 1 \in Nat /\ interval * (q[k] - 1) \in Nat
    BY <1>6, <1>11, TimesGrow
  <2>2. Looks[seen[q[k]]] \in Look
    BY <1>1, <1>11, ReviewAssumption
  <2>3. QED
    BY <2>1, <2>2, ObservationTyped
<1>13. PICK fs : fs = Observations(seen, interval)
  OBVIOUS
<1>14. DOMAIN fs = 1 .. Len(q) /\ fs \in Seq(Frame) /\ Len(fs) = Len(q)
       /\ \A k \in 1 .. Len(q) : fs[k].at = interval * (q[k] - 1)
  BY <1>10, <1>11, <1>12, <1>13
<1>15. ASSUME NEW j \in 1 .. Len(fs), NEW k \in 1 .. Len(fs), j <= k PROVE fs[j].at <= fs[k].at
  <2>0. j \in 1 .. Len(q) /\ k \in 1 .. Len(q) /\ (j = k \/ j < k)
    BY <1>14, <1>15
  <2>1. q[j] - 1 \in Nat /\ q[k] - 1 \in Nat /\ q[j] - 1 <= q[k] - 1
    BY <1>6, <1>11, <2>0
  <2>2. QED
    BY <1>14, <2>1, TimesGrow
<1>16. QED
  BY <1>13, <1>14, <1>15 DEF InTime

\* The same frames, seen again: only what was read or measured differs.
LEMMA StaysInTime ==
  ASSUME NEW fs, InTime(fs), NEW gs, gs = [i \in DOMAIN fs |-> gs[i]],
         \A i \in DOMAIN fs : gs[i] \in Frame /\ gs[i].at = fs[i].at
  PROVE  InTime(gs)
<1>1. fs \in Seq(Frame) /\ Len(fs) \in Nat /\ DOMAIN fs = 1 .. Len(fs)
  BY DEF InTime
<1>2. gs \in Seq(Frame) /\ Len(gs) = Len(fs)
  BY <1>1
<1>3. QED
  BY <1>1, <1>2 DEF InTime

\* A raised signal is a number.
LEMMA AtLeastTyped ==
  ASSUME NEW value \in Nat, NEW bound \in Nat
  PROVE  AtLeast(value, bound) \in Nat
BY DEF AtLeast

\* A frame stays one when what is read or measured changes.
WithTexts(f, t, b, c, r, e) ==
  [f EXCEPT !.read = t, !.buy = b, !.board = c, !.report = r, !.ended = e]
WithStates(f, b, c, e) == [f EXCEPT !.buy = b, !.board = c, !.ended = e]
WithPhase(f, phase) == [f EXCEPT !.phase = phase]

\* The text recogniser changes what a frame shows and never when it was.
LEMMA TextsChange ==
  ASSUME NEW f \in Frame, NEW t \in SUBSET Texts,
         NEW b \in Nat, NEW c \in Nat, NEW r \in Nat, NEW e \in Nat
  PROVE  WithTexts(f, t, b, c, r, e) \in Frame /\ WithTexts(f, t, b, c, r, e).at = f.at
BY DEF Frame, WithTexts

\* The propagation of states changes what a frame shows and never when it was.
LEMMA StatesChange ==
  ASSUME NEW f \in Frame, NEW b \in Nat, NEW c \in Nat, NEW e \in Nat
  PROVE  WithStates(f, b, c, e) \in Frame /\ WithStates(f, b, c, e).at = f.at
BY DEF Frame, WithStates

\* The classifier sets a phase and nothing else.
LEMMA PhaseChanges ==
  ASSUME NEW f \in Frame, NEW phase \in Phases
  PROVE  WithPhase(f, phase) \in Frame /\ WithPhase(f, phase).at = f.at
BY DEF Frame, WithPhase

\* The parts of a frame the detectors read.
LEMMA SignalsTyped ==
  ASSUME NEW f \in Frame
  PROVE  f.at \in Nat /\ f.buy \in Nat /\ f.board \in Nat /\ f.report \in Nat /\ f.ended \in Nat
         /\ f.combat \in Nat /\ f.motion \in Nat /\ f.text \in SUBSET Texts
BY DEF Frame

\* Texts enrich a frame and leave it at its time.
LEMMA EnrichTyped ==
  ASSUME NEW f \in Frame, NEW signals \in SUBSET Texts
  PROVE  Enrich(f, signals) \in Frame /\ Enrich(f, signals).at = f.at
<1> DEFINE b == IF "buy_phase" \in signals THEN AtLeast(f.buy, 96) ELSE f.buy
           c == IF "scoreboard" \in signals THEN AtLeast(f.board, 94) ELSE f.board
           r == IF "death_report" \in signals THEN AtLeast(f.report, 99)
                ELSE IF "combat_report" \in signals THEN AtLeast(f.report, 98) ELSE f.report
           e == IF "round_end" \in signals THEN AtLeast(f.ended, 98) ELSE f.ended
<1>1. b \in Nat /\ c \in Nat /\ r \in Nat /\ e \in Nat
  BY SignalsTyped, AtLeastTyped
<1>2. Enrich(f, signals) = WithTexts(f, signals, b, c, r, e)
  BY DEF Enrich, WithTexts
<1> HIDE DEF b, c, r, e
<1>3. QED
  BY <1>1, <1>2, TextsChange

\* After text recognition, whatever of it failed, the frames still follow the clock.
LEMMA RecognizedInTime ==
  ASSUME NEW fs, InTime(fs), NEW failed
  PROVE  InTime(Recognized(fs, failed))
<1> DEFINE gs == Recognized(fs, failed)
<1>1. ASSUME NEW i \in DOMAIN fs
      PROVE  gs[i] \in Frame /\ gs[i].at = fs[i].at
  <2>1. PICK f \in Frame : f = fs[i]
    BY DEF InTime
  <2>2. PICK signals : signals = f.text \cap Task(fs, i)
    OBVIOUS
  <2>3. signals \in SUBSET Texts
    BY <2>2, SignalsTyped
  <2>4. Enrich(f, signals) \in Frame /\ Enrich(f, signals).at = f.at
    BY <2>3, EnrichTyped
  <2>5. gs[i] = f \/ gs[i] = Enrich(f, signals)
    BY <2>1, <2>2 DEF Recognized
  <2>6. QED
    BY <2>1, <2>4, <2>5
<1>2. gs = [i \in DOMAIN fs |-> gs[i]]
  BY DEF Recognized
<1> HIDE DEF gs
<1>3. QED
  BY <1>1, <1>2, StaysInTime DEF gs

\* After the propagation of states the frames still follow the clock.
LEMMA PropagateInTime ==
  ASSUME NEW fs, InTime(fs)
  PROVE  InTime(Propagate(fs))
<1> DEFINE gs == Propagate(fs)
<1>1. ASSUME NEW i \in DOMAIN fs
      PROVE  gs[i] \in Frame /\ gs[i].at = fs[i].at
  <2>1. PICK f \in Frame : f = fs[i]
    BY DEF InTime
  <2> DEFINE Buying == Near(fs, "buy_phase", 5000) \cup Between(fs, "buy_phase", 32000)
             Boarded == Near(fs, "scoreboard", 2000)
             Ended == Near(fs, "round_end", 4000)
             b == IF i \in Buying THEN AtLeast(f.buy, 90) ELSE f.buy
             c == IF i \in Boarded THEN AtLeast(f.board, 80) ELSE f.board
             e == IF i \in Ended THEN AtLeast(f.ended, 90) ELSE f.ended
  <2>2. gs[i] = WithStates(f, b, c, e)
    BY <2>1 DEF Propagate, WithStates
  <2>a. f.buy \in Nat /\ f.board \in Nat /\ f.ended \in Nat
    BY SignalsTyped
  <2>b. AtLeast(f.buy, 90) \in Nat /\ AtLeast(f.board, 80) \in Nat /\ AtLeast(f.ended, 90) \in Nat
    BY <2>a, AtLeastTyped
  <2> HIDE DEF Buying, Boarded, Ended
  <2>3. b \in Nat /\ c \in Nat /\ e \in Nat
    BY <2>a, <2>b
  <2> HIDE DEF b, c, e, gs
  <2>4. WithStates(f, b, c, e) \in Frame /\ WithStates(f, b, c, e).at = f.at
    BY <2>3, StatesChange
  <2>5. QED
    BY <2>1, <2>2, <2>4
<1>2. gs = [i \in DOMAIN fs |-> gs[i]]
  BY DEF Propagate
<1> HIDE DEF gs
<1>3. QED
  BY <1>1, <1>2, StaysInTime DEF gs

\* After the classification of phases the frames still follow the clock.
LEMMA ClassifyInTime ==
  ASSUME NEW fs, InTime(fs)
  PROVE  InTime(Classify(fs))
<1> DEFINE gs == Classify(fs)
<1>1. ASSUME NEW i \in DOMAIN fs
      PROVE  gs[i] \in Frame /\ gs[i].at = fs[i].at
  <2>1. PICK f \in Frame : f = fs[i]
    BY DEF InTime
  <2>2. PICK phase \in Phases : gs[i] = WithPhase(f, phase)
    BY <2>1 DEF Classify, Phases, WithPhase
  <2>3. QED
    BY <2>1, <2>2, PhaseChanges
<1>2. gs = [i \in DOMAIN fs |-> gs[i]]
  BY DEF Classify
<1> HIDE DEF gs
<1>3. QED
  BY <1>1, <1>2, StaysInTime DEF gs

-----------------------------------------------------------------------------
(* Windows.                                                                 *)

LeadOf(k) == IF k = "death_review" THEN 5000 ELSE 4000
LagOf(k) == IF k = "low_activity" THEN 4000 ELSE 3000

\* A window peaks between its ends, and its evidence is that of the frame it
\* peaks in.
ReviewWindow(fs, w) ==
  /\ w = [kind |-> w.kind, from |-> w.from, to |-> w.to, peak |-> w.peak, score |-> w.score,
          round |-> w.round, evidence |-> w.evidence]
  /\ w.kind \in DecisionKinds
  /\ w.from \in Nat /\ w.to \in Nat /\ w.peak \in Nat /\ w.score \in Int
  /\ w.from <= w.peak /\ w.peak <= w.to
  /\ \E p \in DOMAIN fs :
       w.peak = fs[p].at /\ w.evidence = Evidence(fs, p, LeadOf(w.kind), LagOf(w.kind))

\* The elements of a sequence.
Members(u) == {u[k] : k \in 1 .. Len(u)}

\* A sequence is one of its own members.
LEMMA OwnElements ==
  ASSUME NEW A, NEW u \in Seq(A)
  PROVE  u \in Seq(Members(u))
BY DEF Members

\* Windows that keep clear of each other.
Tidy(fs, ws) ==
  /\ ws \in Seq(Members(ws))
  /\ \A k \in 1 .. Len(ws) : ReviewWindow(fs, ws[k])
  /\ \A j, k \in 1 .. Len(ws) : j # k => ~Overlaps(ws[j], ws[k], 0)

\* What a search adds: they keep clear of those there were, too.
Found(fs, existing, limit, ws) ==
  /\ Tidy(fs, ws)
  /\ Len(ws) <= limit
  /\ \A j \in 1 .. Len(existing) : \A k \in 1 .. Len(ws) : ~Overlaps(ws[k], existing[j], 0)

\* A window around a frame, from a time before to a time after it, is a window of
\* the timeline.
LEMMA WindowFacts ==
  ASSUME NEW fs, InTime(fs), NEW p \in DOMAIN fs, NEW k \in DecisionKinds,
         NEW from \in Int, NEW to \in Int, from <= fs[p].at, fs[p].at <= to, NEW score \in Int
  PROVE  /\ ReviewWindow(fs, Window(k, fs, p, from, to, score, LeadOf(k), LagOf(k)))
         /\ Window(k, fs, p, from, to, score, LeadOf(k), LagOf(k)).peak = fs[p].at
         /\ Window(k, fs, p, from, to, score, LeadOf(k), LagOf(k)).score = score
<1>1. PICK w : w = Window(k, fs, p, from, to, score, LeadOf(k), LagOf(k))
  OBVIOUS
<1>2. PICK e : e = Evidence(fs, p, LeadOf(k), LagOf(k))
  OBVIOUS
<1>3. PICK m : m = Max({0, from})
  OBVIOUS
<1>a. 0 \in Int /\ from \in Int
  OBVIOUS
<1>b. m \in {0, from} /\ m >= 0
  BY <1>a, <1>3, PairFacts
<1>7. fs[p] \in Frame
  BY DEF InTime
<1>8. fs[p].at \in Nat
  BY <1>7, SignalsTyped
<1>4. m \in Nat /\ m <= fs[p].at /\ to \in Nat
  BY <1>b, <1>8
<1>5. w = [kind |-> k, from |-> m, to |-> to, peak |-> fs[p].at, score |-> score, round |-> 0,
           evidence |-> e]
  BY <1>1, <1>2, <1>3 DEF Window
<1>6. /\ w.kind = k /\ w.from = m /\ w.to = to /\ w.peak = fs[p].at /\ w.score = score
      /\ w.round = 0 /\ w.evidence = e
  BY <1>5
<1>9. ReviewWindow(fs, w)
  BY <1>2, <1>4, <1>5, <1>6, <1>8 DEF ReviewWindow
<1>10. QED
  BY <1>1, <1>6, <1>9

\* Windows that keep a distance do not overlap.
LEMMA PaddingHelps ==
  ASSUME NEW fs, NEW w, NEW v, ReviewWindow(fs, w), ReviewWindow(fs, v), NEW padding \in Nat,
         ~Overlaps(w, v, padding)
  PROVE  ~Overlaps(w, v, 0)
<1>1. w.from \in Int /\ w.to \in Int /\ v.from \in Int /\ v.to \in Int
  BY DEF ReviewWindow
<1>2. QED
  BY <1>1 DEF Overlaps

\* What Pick selects from windows of the timeline can be added to the windows found
\* so far: it stays apart from them and within its limit.
LEMMA PickIsFound ==
  ASSUME NEW fs, NEW ranked, ranked \in Seq(Members(ranked)),
         \A k \in 1 .. Len(ranked) : ReviewWindow(fs, ranked[k]),
         NEW existing, Tidy(fs, existing), NEW padding \in Nat, NEW spacing \in Nat, NEW limit \in Nat
  PROVE  Found(fs, existing, limit, Pick(ranked, existing, padding, spacing, limit))
<1>0. PICK W : W = Members(ranked) /\ ranked \in Seq(W)
  OBVIOUS
<1>a. \A w \in W : ReviewWindow(fs, w)
  BY <1>0 DEF Members
<1>1. PICK ws : ws = Pick(ranked, existing, padding, spacing, limit)
  OBVIOUS
<1>2. Spans(W)
  <2>1. ASSUME NEW w \in W PROVE w.from \in Int /\ w.to \in Int /\ w.from <= w.to
    BY <1>a DEF ReviewWindow
  <2>2. QED
    BY <2>1 DEF Spans
<1>3. PickedFrom(W, existing, padding, spacing, limit, ws)
  BY <1>0, <1>1, <1>2, PickFacts
<1>4. /\ ws \in Seq(W) /\ Len(ws) <= limit
      /\ \A k \in 1 .. Len(ws) : ~OverlapsAny(existing, ws[k], padding)
      /\ \A j, k \in 1 .. Len(ws) : j # k => ~Overlaps(ws[j], ws[k], spacing)
  BY <1>3 DEF PickedFrom
<1>5. \A k \in 1 .. Len(ws) : ws[k] \in W /\ ReviewWindow(fs, ws[k])
  BY <1>a, <1>4
<1>6. ws \in Seq(Members(ws))
  BY <1>4, OwnElements
<1>7. \A j, k \in 1 .. Len(ws) : j # k => ~Overlaps(ws[j], ws[k], 0)
  BY <1>4, <1>5, PaddingHelps
<1>8. ASSUME NEW j \in 1 .. Len(existing), NEW k \in 1 .. Len(ws)
      PROVE  ~Overlaps(ws[k], existing[j], 0)
  <2>1. j \in DOMAIN existing /\ ReviewWindow(fs, existing[j])
    BY DEF Tidy
  <2>2. ~Overlaps(ws[k], existing[j], padding)
    BY <1>4, <2>1 DEF OverlapsAny
  <2>3. QED
    BY <1>5, <2>1, <2>2, PaddingHelps
<1>9. QED
  BY <1>1, <1>4, <1>5, <1>6, <1>7, <1>8 DEF Found, Tidy

Joined(u, s, t) ==
  /\ Len(s) \in Nat /\ Len(t) \in Nat /\ Len(u) = Len(s) + Len(t)
  /\ u \in Seq(Members(u))
  /\ \A k \in 1 .. Len(u) :
       \/ k \in 1 .. Len(s) /\ u[k] = s[k]
       \/ k - Len(s) \in 1 .. Len(t) /\ u[k] = t[k - Len(s)]

\* Two sequences, one after the other.
LEMMA ConcatFacts ==
  ASSUME NEW A, NEW s \in Seq(A), NEW B, NEW t \in Seq(B)
  PROVE  Joined(s \o t, s, t)
<1>0. PICK u : u = s \o t
  OBVIOUS
<1>1. s \in Seq(A \cup B) /\ t \in Seq(A \cup B)
  OBVIOUS
<1>2. u \in Seq(A \cup B) /\ Len(s) \in Nat /\ Len(t) \in Nat /\ Len(u) = Len(s) + Len(t)
  BY <1>0, <1>1
<1>3. u \in Seq(Members(u))
  BY <1>2, OwnElements
<1>4. \A k \in 1 .. Len(u) :
              \/ k \in 1 .. Len(s) /\ u[k] = s[k]
              \/ k - Len(s) \in 1 .. Len(t) /\ u[k] = t[k - Len(s)]
  BY <1>0, <1>1, <1>2
<1>5. QED
  BY <1>0, <1>2, <1>3, <1>4 DEF Joined

\* A search after another.
LEMMA FoundJoins ==
  ASSUME NEW fs, NEW existing, Tidy(fs, existing), NEW limit \in Nat, NEW ws,
         Found(fs, existing, limit, ws)
  PROVE  /\ Tidy(fs, existing \o ws)
         /\ Len(existing) \in Nat /\ Len(ws) \in Nat /\ Len(ws) <= limit
         /\ Len(existing \o ws) = Len(existing) + Len(ws)
<1>1. PICK u : u = existing \o ws
  OBVIOUS
<1>2. existing \in Seq(Members(existing)) /\ ws \in Seq(Members(ws))
  BY DEF Tidy, Found
<1>3. /\ Len(existing) \in Nat /\ Len(ws) \in Nat /\ Len(u) = Len(existing) + Len(ws)
      /\ u \in Seq(Members(u))
      /\ \A k \in 1 .. Len(u) :
           \/ k \in 1 .. Len(existing) /\ u[k] = existing[k]
           \/ k - Len(existing) \in 1 .. Len(ws) /\ u[k] = ws[k - Len(existing)]
  <2>1. PICK A, B : existing \in Seq(A) /\ ws \in Seq(B)
    BY <1>2
  <2>2. Joined(existing \o ws, existing, ws)
    BY <2>1, ConcatFacts
  <2>3. QED
    BY <1>1, <2>2 DEF Joined
<1>4. \A k \in 1 .. Len(existing) : ReviewWindow(fs, existing[k])
  BY DEF Tidy
<1>5. /\ \A k \in 1 .. Len(ws) : ReviewWindow(fs, ws[k])
      /\ \A j, k \in 1 .. Len(ws) : j # k => ~Overlaps(ws[j], ws[k], 0)
      /\ \A j \in 1 .. Len(existing) : \A k \in 1 .. Len(ws) : ~Overlaps(ws[k], existing[j], 0)
  BY DEF Found, Tidy
<1>6. \A k \in 1 .. Len(u) : ReviewWindow(fs, u[k])
  BY <1>3, <1>4, <1>5
<1>7. ASSUME NEW j \in 1 .. Len(existing), NEW k \in 1 .. Len(ws)
      PROVE  ~Overlaps(existing[j], ws[k], 0)
  <2>0. ReviewWindow(fs, existing[j]) /\ ReviewWindow(fs, ws[k])
    BY <1>4, <1>5
  <2>1. /\ existing[j].from \in Int /\ existing[j].to \in Int
        /\ ws[k].from \in Int /\ ws[k].to \in Int
    BY <2>0 DEF ReviewWindow
  <2>2. ~Overlaps(ws[k], existing[j], 0)
    BY <1>5
  <2>3. QED
    BY <2>1, <2>2 DEF Overlaps
<1>8. ASSUME NEW j \in 1 .. Len(u), NEW k \in 1 .. Len(u), j # k
      PROVE  ~Overlaps(u[j], u[k], 0)
  <2>1. CASE j \in 1 .. Len(existing) /\ u[j] = existing[j] /\ k \in 1 .. Len(existing) /\ u[k] = existing[k]
    BY <1>8, <2>1 DEF Tidy
  <2>2. CASE j \in 1 .. Len(existing) /\ u[j] = existing[j]
             /\ k - Len(existing) \in 1 .. Len(ws) /\ u[k] = ws[k - Len(existing)]
    BY <1>7, <2>2
  <2>3. CASE k \in 1 .. Len(existing) /\ u[k] = existing[k]
             /\ j - Len(existing) \in 1 .. Len(ws) /\ u[j] = ws[j - Len(existing)]
    BY <1>5, <2>3
  <2>4. CASE /\ j - Len(existing) \in 1 .. Len(ws) /\ u[j] = ws[j - Len(existing)]
             /\ k - Len(existing) \in 1 .. Len(ws) /\ u[k] = ws[k - Len(existing)]
    <3>1. j - Len(existing) # k - Len(existing)
      BY <1>3, <1>8
    <3>2. QED
      BY <1>5, <2>4, <3>1
  <2>5. QED
    BY <1>3, <2>1, <2>2, <2>3, <2>4
<1>9. QED
  BY <1>1, <1>3, <1>6, <1>8 DEF Tidy, Found

\* A sequence has finitely many members.
LEMMA MembersAreFinite ==
  ASSUME NEW A, NEW u \in Seq(A)
  PROVE  IsFiniteSet(Members(u))
<1>1. PICK n \in Nat : n = Len(u)
  OBVIOUS
<1>2. u \in [1 .. n -> Members(u)]
  BY <1>1 DEF Members
<1>3. \A x \in Members(u) : \E k \in 1 .. n : u[k] = x
  BY <1>1 DEF Members
<1>4. u \in Surjection(1 .. n, Members(u))
  BY <1>2, <1>3 DEF Surjection
<1>5. IsFiniteSet(1 .. n)
  BY FS_Interval
<1>6. QED
  BY <1>4, <1>5, FS_Surjection

-----------------------------------------------------------------------------
(* Ranking.                                                                 *)

\* By descending value, equal ones by when they are.
ByValue(S, value, at) ==
  [k \in 1 .. Cardinality(S) |->
    CHOOSE x \in S :
      Cardinality({y \in S : value[y] > value[x] \/ (value[y] = value[x] /\ at[y] < at[x])}) = k - 1]

\* Of two elements the one with the greater value is ahead, or as great and earlier.
Ahead(x, y, value, at) == value[x] > value[y] \/ (value[x] = value[y] /\ at[x] < at[y])

\* Every element once, none behind one it is ahead of.
Descends(q, S, value, at) ==
  /\ \A j, k \in 1 .. Len(q) : j < k => Ahead(q[j], q[k], value, at) /\ q[j] # q[k]
  /\ \A x \in S : \E k \in 1 .. Len(q) : q[k] = x

\* Ranking by value, then by time, lists every element once.
LEMMA ByValueFacts ==
  ASSUME NEW S, IsFiniteSet(S), NEW value \in [S -> Int], NEW at \in [S -> Int],
         \A x, y \in S : at[x] = at[y] => x = y
  PROVE  /\ ByValue(S, value, at) \in Seq(S)
         /\ Len(ByValue(S, value, at)) = Cardinality(S)
         /\ Descends(ByValue(S, value, at), S, value, at)
<1>2. PICK R : R = {p \in S \X S : value[p[1]] > value[p[2]] \/ (value[p[1]] = value[p[2]] /\ at[p[1]] < at[p[2]])}
  OBVIOUS
<1>3. \A x, y \in S : <<y, x>> \in R <=> value[y] > value[x] \/ (value[y] = value[x] /\ at[y] < at[x])
  BY <1>2
<1>4. TotalOrder(S, R)
  <2>1. \A x \in S : at[x] \in Int /\ value[x] \in Int
    OBVIOUS
  <2>2. ASSUME NEW x \in S PROVE <<x, x>> \notin R
    BY <1>3, <2>1
  <2>3. ASSUME NEW x \in S, NEW y \in S, NEW z \in S, <<x, y>> \in R, <<y, z>> \in R
        PROVE  <<x, z>> \in R
    BY <1>3, <2>1, <2>3
  <2>4. ASSUME NEW x \in S, NEW y \in S PROVE x = y \/ <<x, y>> \in R \/ <<y, x>> \in R
    BY <1>3, <2>1
  <2>5. QED
    BY <2>2, <2>3, <2>4 DEF TotalOrder
<1>5. PICK q : q = ByValue(S, value, at)
  OBVIOUS
<1>6. ASSUME NEW x \in S
      PROVE  Cardinality({y \in S : value[y] > value[x] \/ (value[y] = value[x] /\ at[y] < at[x])}) = Rank(S, R, x)
  <2>1. {y \in S : value[y] > value[x] \/ (value[y] = value[x] /\ at[y] < at[x])} = {y \in S : <<y, x>> \in R}
    BY <1>3
  <2>2. QED
    BY <2>1 DEF Rank
<1>7. \A k \in 1 .. Cardinality(S) : \E x \in S : Rank(S, R, x) = k - 1
  BY <1>4, PlacesExist
<1>8. Arranged(q, S, R)
  BY <1>5, <1>6, <1>7 DEF ByValue, Arranged
<1>9. InOrder(q, S, R)
  BY <1>4, <1>8, ArrangedIsInOrder
<1>10. Descends(q, S, value, at)
  <2>1. ASSUME NEW j \in 1 .. Len(q), NEW k \in 1 .. Len(q), j < k
        PROVE  Ahead(q[j], q[k], value, at) /\ q[j] # q[k]
    <3>1. q[j] \in S /\ q[k] \in S /\ <<q[j], q[k]>> \in R
      BY <1>9, <2>1 DEF InOrder
    <3>2. PICK x \in S, y \in S : x = q[j] /\ y = q[k]
      BY <3>1
    <3>3. <<x, y>> \in R /\ x # y
      BY <1>4, <3>1, <3>2 DEF TotalOrder
    <3>4. Ahead(x, y, value, at)
      BY <1>3, <3>3 DEF Ahead
    <3>5. QED
      BY <3>2, <3>3, <3>4
  <2>2. QED
    BY <1>9, <2>1 DEF InOrder, Descends
<1>11. QED
  BY <1>5, <1>9, <1>10 DEF InOrder

\* The windows of ranked frames are a sequence, too.
LEMMA MappedFacts ==
  ASSUME NEW S, NEW q \in Seq(S), NEW W, NEW ranked, DOMAIN ranked = DOMAIN q,
         ranked \in [DOMAIN q -> W]
  PROVE  ranked \in Seq(W)
<1>1. DOMAIN q = 1 .. Len(q) /\ Len(q) \in Nat
  OBVIOUS
<1>2. QED
  BY <1>1

\* The budgets: 1 to 20 windows, of which deaths take at most seven, whatever the
\* request asked for.
LEMMA LimitFacts ==
  ASSUME budget \in Int
  PROVE  /\ Limit \in 1 .. 20
         /\ DeathBudget \in 1 .. 7 /\ DeathBudget <= Limit
         /\ CombatBudget \in Nat /\ DecisionBudget \in Nat
<1>1. PICK m : m = Max({1, budget})
  OBVIOUS
<1>2. m \in Int /\ m >= 1
  BY <1>1, PairFacts
<1>3. Limit \in {m, 20} /\ Limit <= 20
  <2>1. 20 \in Int
    OBVIOUS
  <2>2. Min({m, 20}) \in {m, 20} /\ Min({m, 20}) <= 20
    BY <1>2, <2>1, PairFacts
  <2>3. QED
    BY <1>1, <2>2 DEF Limit
<1>4. Limit \in 1 .. 20
  BY <1>2, <1>3
<1>5. PICK l : l = Limit
  OBVIOUS
<1>7. (34 * l + 99) \div 100 \in 1 .. 7 /\ (34 * l + 99) \div 100 <= l
  BY <1>4, <1>5
<1>8. DeathBudget \in 1 .. 7 /\ DeathBudget <= Limit
  <2>1. PICK x \in Int : x = (34 * l + 99) \div 100
    BY <1>7
  <2>2. DeathBudget = Max({1, x})
    BY <1>5, <2>1 DEF DeathBudget
  <2>3. Max({1, x}) \in {1, x} /\ Max({1, x}) >= 1
    BY PairFacts
  <2>4. QED
    BY <1>4, <1>5, <1>7, <2>1, <2>2, <2>3
<1>9. (40 * l + 99) \div 100 \in Int /\ (16 * l + 50) \div 100 \in Int
  BY <1>4, <1>5
<1>10. CombatBudget \in Nat
  <2>1. PICK x \in Int : x = (40 * l + 99) \div 100
    BY <1>9
  <2>2. CombatBudget = Max({1, x})
    BY <1>5, <2>1 DEF CombatBudget
  <2>3. Max({1, x}) \in {1, x} /\ Max({1, x}) >= 1
    BY PairFacts
  <2>4. QED
    BY <2>2, <2>3
<1>11. DecisionBudget \in Nat
  <2>1. PICK x \in Int : x = (16 * l + 50) \div 100
    BY <1>9
  <2>2. DecisionBudget = Max({2, x}) \/ DecisionBudget = 1
    BY <1>5, <2>1 DEF DecisionBudget
  <2>3. Max({2, x}) \in {2, x} /\ Max({2, x}) >= 2
    BY PairFacts
  <2>4. QED
    BY <2>2, <2>3
<1>12. QED
  BY <1>4, <1>8, <1>10, <1>11

\* A spike is one of the frames.
LEMMA SpikesAreFrames ==
  ASSUME NEW fs, NEW signal, NEW parts, NEW whole, NEW floor
  PROVE  Spikes(fs, signal, parts, whole, floor) \in SUBSET DOMAIN fs
BY DEF Spikes

-----------------------------------------------------------------------------
(* The searches.                                                            *)

\* What the detectors may rely on of frames that follow the clock.
LEMMA FrameFacts ==
  ASSUME NEW fs, InTime(fs)
  PROVE  /\ Len(fs) \in Nat /\ DOMAIN fs = 1 .. Len(fs) /\ fs \in Seq(Frame)
         /\ \A i \in DOMAIN fs : fs[i] \in Frame /\ fs[i].at \in Nat /\ fs[i].report \in Nat
                                 /\ fs[i].combat \in Nat /\ fs[i].motion \in Nat
<1>1. fs \in Seq(Frame)
  BY DEF InTime
<1>2. Len(fs) \in Nat /\ DOMAIN fs = 1 .. Len(fs) /\ \A i \in DOMAIN fs : fs[i] \in Frame
  BY <1>1
<1>3. QED
  BY <1>1, <1>2, SignalsTyped

\* The clearest of a set of frames is one of them.
LEMMA BestFrame ==
  ASSUME NEW fs, NEW n \in Nat, NEW S \in SUBSET (1 .. n), S # {}, \A i \in S : fs[i].report \in Nat
  PROVE  Min({i \in S : \A j \in S : fs[j].report <= fs[i].report}) \in S
<1>1. IsFiniteSet(S)
  <2>1. IsFiniteSet(1 .. n)
    BY FS_Interval
  <2>2. QED
    BY <2>1, FS_Subset
<1>2. PICK value : value = [i \in S |-> fs[i].report]
  OBVIOUS
<1>3. S \in SUBSET Int /\ \A i \in S : value[i] \in Int
  BY <1>2
<1>4. Min({i \in S : \A j \in S : value[j] <= value[i]}) \in S
  BY <1>1, <1>3, BestFacts
<1>5. {i \in S : \A j \in S : value[j] <= value[i]}
        = {i \in S : \A j \in S : fs[j].report <= fs[i].report}
  BY <1>2
<1>6. QED
  BY <1>4, <1>5

\* The strongest come first, whatever they are ranked for.
LEMMA StrongestByValue ==
  ASSUME NEW fs, NEW S, NEW signal
  PROVE  Strongest(S, fs, signal) = ByValue(S, [i \in S |-> fs[i][signal]], [i \in S |-> i])
<1>1. PICK value : value = [i \in S |-> fs[i][signal]]
  OBVIOUS
<1>2. PICK at : at = [i \in S |-> i]
  OBVIOUS
<1>3. ASSUME NEW x \in S
      PROVE  {y \in S : value[y] > value[x] \/ (value[y] = value[x] /\ at[y] < at[x])}
               = {y \in S : fs[y][signal] > fs[x][signal] \/ (fs[y][signal] = fs[x][signal] /\ y < x)}
  BY <1>1, <1>2
<1>4. PICK q : q = ByValue(S, value, at)
  OBVIOUS
<1>5. Strongest(S, fs, signal) =
        [k \in 1 .. Cardinality(S) |->
          CHOOSE x \in S :
            Cardinality({y \in S : fs[y][signal] > fs[x][signal] \/ (fs[y][signal] = fs[x][signal] /\ y < x)}) = k - 1]
  BY DEF Strongest, Ranked, Sorted
<1>6. Strongest(S, fs, signal) = q
  <2>1. \A x \in S :
          Cardinality({y \in S : value[y] > value[x] \/ (value[y] = value[x] /\ at[y] < at[x])})
            = Cardinality({y \in S : fs[y][signal] > fs[x][signal] \/ (fs[y][signal] = fs[x][signal] /\ y < x)})
    BY <1>3
  <2>2. QED
    BY <1>4, <1>5, <2>1 DEF ByValue
<1>7. QED
  BY <1>1, <1>2, <1>4, <1>6, Zenon

\* The strongest signals first: still frames of the timeline.
LEMMA StrongestFacts ==
  ASSUME NEW fs, NEW n \in Nat, NEW S \in SUBSET (1 .. n), NEW signal,
         \A i \in S : fs[i][signal] \in Int
  PROVE  /\ Strongest(S, fs, signal) \in Seq(S)
         /\ Len(Strongest(S, fs, signal)) = Cardinality(S)
         /\ \E value, at : /\ value = [i \in S |-> fs[i][signal]] /\ at = [i \in S |-> i]
                          /\ Descends(Strongest(S, fs, signal), S, value, at)
<1>1. PICK value : value = [i \in S |-> fs[i][signal]]
  OBVIOUS
<1>a. PICK at : at = [i \in S |-> i]
  OBVIOUS
<1>b. IsFiniteSet(S)
  <2>1. IsFiniteSet(1 .. n)
    BY FS_Interval
  <2>2. QED
    BY <2>1, FS_Subset
<1>2. value \in [S -> Int] /\ at \in [S -> Int] /\ \A x, y \in S : at[x] = at[y] => x = y
  BY <1>1, <1>a
<1>3. Strongest(S, fs, signal) = ByValue(S, value, at)
  <2>1. Strongest(S, fs, signal) = ByValue(S, [i \in S |-> fs[i][signal]], [i \in S |-> i])
    BY StrongestByValue
  <2>2. QED
    BY <1>1, <1>a, <2>1, Zenon
<1>4. /\ ByValue(S, value, at) \in Seq(S) /\ Len(ByValue(S, value, at)) = Cardinality(S)
      /\ Descends(ByValue(S, value, at), S, value, at)
  BY <1>b, <1>2, ByValueFacts
<1>5. QED
  BY <1>1, <1>a, <1>3, <1>4, Zenon

\* A death is seen at a frame.
LEMMA DeathPeaksAreFrames ==
  ASSUME NEW fs, InTime(fs)
  PROVE  DeathPeaks(fs) \in SUBSET (1 .. Len(fs))
<1>1. /\ Len(fs) \in Nat /\ DOMAIN fs = 1 .. Len(fs)
      /\ \A i \in DOMAIN fs : fs[i].at \in Nat /\ fs[i].report \in Nat
  BY FrameFacts
<1>2. ASSUME NEW p \in DeathPeaks(fs) PROVE p \in 1 .. Len(fs)
  <2>1. PICK c \in DeathRuns(fs) : p = BestOf(Onset(fs, c), LAMBDA i : fs[i].report)
    BY DEF DeathPeaks
  <2>2. c[1] \in DOMAIN fs /\ c[2] \in DOMAIN fs /\ c[1] <= c[2]
    BY DEF DeathRuns, Stretches, Runs
  <2>3. Onset(fs, c) \in SUBSET (1 .. Len(fs)) /\ c[1] \in Onset(fs, c)
    BY <1>1, <2>2 DEF Onset
  <2>4. PICK S \in SUBSET (1 .. Len(fs)) : S = Onset(fs, c) /\ S # {}
    BY <2>3
  <2>5. p = BestOf(S, LAMBDA i : fs[i].report)
    BY <2>1, <2>4
  <2>6. p \in S
    BY <1>1, <2>4, <2>5, BestFrame DEF BestOf
  <2>7. QED
    BY <2>6
<1>3. QED
  BY <1>2

\* The deaths of a match are windows of its timeline and do not overlap
\* (deathReviewWindows).
LEMMA DeathsAreFound ==
  ASSUME NEW fs, InTime(fs)
  PROVE  Tidy(fs, DeathReviewWindows(fs))
<1> DEFINE S == DeathPeaks(fs)
<1>1. /\ Len(fs) \in Nat /\ DOMAIN fs = 1 .. Len(fs)
      /\ \A i \in DOMAIN fs : fs[i].at \in Nat /\ fs[i].report \in Nat
  BY FrameFacts
<1>2. S \in SUBSET (1 .. Len(fs))
  BY DeathPeaksAreFrames
<1>5. PICK q : q = Strongest(S, fs, "report")
  OBVIOUS
<1>6. q \in Seq(S)
  <2>1. \A i \in S : fs[i]["report"] \in Int
    BY <1>1, <1>2
  <2> HIDE DEF S
  <2>2. QED
    BY <1>1, <1>2, <1>5, <2>1, StrongestFacts
<1>8. PICK W : W = {Death(fs, p) : p \in S}
  OBVIOUS
<1>9. ASSUME NEW p \in S PROVE ReviewWindow(fs, Death(fs, p))
  <2>1. p \in DOMAIN fs /\ fs[p].at \in Nat /\ fs[p].report \in Int
    BY <1>1, <1>2
  <2>2. "death_review" \in DecisionKinds /\ LeadOf("death_review") = 5000 /\ LagOf("death_review") = 3000
    BY DEF DecisionKinds, LeadOf, LagOf
  <2>3. fs[p].at - 10000 \in Int /\ fs[p].at + 8000 \in Int /\ fs[p].at - 10000 <= fs[p].at
        /\ fs[p].at <= fs[p].at + 8000
    BY <2>1
  <2>4. Death(fs, p) = Window("death_review", fs, p, fs[p].at - 10000, fs[p].at + 8000, fs[p].report, 5000, 3000)
    BY DEF Death
  <2>5. QED
    BY <2>1, <2>2, <2>3, <2>4, WindowFacts
<1>10. PICK ranked : ranked = [k \in DOMAIN q |-> Death(fs, q[k])]
  OBVIOUS
<1>11. DeathReviewWindows(fs) = Pick(ranked, <<>>, 5000, 5000, Len(fs))
  BY <1>5, <1>10 DEF DeathReviewWindows
<1> HIDE DEF S
<1>12. ranked \in [DOMAIN q -> W]
  BY <1>6, <1>8, <1>10
<1>13. ranked \in Seq(W)
  BY <1>6, <1>12, MappedFacts
<1>14. \A w \in W : ReviewWindow(fs, w)
  BY <1>8, <1>9
<1>15. Tidy(fs, <<>>)
  BY DEF Tidy, Members
<1>16. ranked \in Seq(Members(ranked)) /\ \A k \in 1 .. Len(ranked) : ReviewWindow(fs, ranked[k])
  BY <1>13, <1>14, OwnElements
<1>17. Found(fs, <<>>, Len(fs), Pick(ranked, <<>>, 5000, 5000, Len(fs)))
  BY <1>1, <1>15, <1>16, PickIsFound
<1>18. QED
  BY <1>11, <1>17 DEF Found

\* None of the windows is that of a death.
NoDeaths(ws) == \A k \in 1 .. Len(ws) : ws[k].kind # "death_review"

\* A search that ranks no death picks none.
LEMMA NoDeathPicked ==
  ASSUME NEW fs, NEW ranked, ranked \in Seq(Members(ranked)),
         \A k \in 1 .. Len(ranked) : ReviewWindow(fs, ranked[k]),
         NoDeaths(ranked), NEW existing, NEW padding, NEW spacing \in Nat, NEW limit \in Nat
  PROVE  NoDeaths(Pick(ranked, existing, padding, spacing, limit))
<1>1. PICK W : W = Members(ranked)
  OBVIOUS
<1>2. ASSUME NEW w \in W
      PROVE  w.from \in Int /\ w.to \in Int /\ w.from <= w.to /\ w.kind # "death_review"
  <2>1. PICK k \in 1 .. Len(ranked) : w = ranked[k]
    BY <1>1 DEF Members
  <2>2. ReviewWindow(fs, w)
    BY <2>1
  <2>3. w.from \in Nat /\ w.to \in Nat /\ w.peak \in Nat /\ w.from <= w.peak /\ w.peak <= w.to
    BY <2>2 DEF ReviewWindow
  <2>4. QED
    BY <2>1, <2>3 DEF NoDeaths
<1>3. Spans(W) /\ ranked \in Seq(W)
  BY <1>1, <1>2 DEF Spans
<1>4. PICK picked : picked = Pick(ranked, existing, padding, spacing, limit)
  OBVIOUS
<1>5. picked \in Seq(W)
  BY <1>3, <1>4, PickFacts DEF PickedFrom
<1>6. QED
  BY <1>2, <1>4, <1>5 DEF NoDeaths

\* Fights stay apart from the windows found before and within their budget
\* (highImpactReviewWindows).
LEMMA FightsAreFound ==
  ASSUME NEW fs, InTime(fs), NEW existing, Tidy(fs, existing), NEW limit \in Nat
  PROVE  /\ Found(fs, existing, limit, HighImpactWindows(fs, existing, limit))
         /\ NoDeaths(HighImpactWindows(fs, existing, limit))
<1> DEFINE S == {i \in Spikes(fs, "combat", 17, 25, 20) :
                   /\ Compatible(fs[i]) /\ fs[i].hit
                   /\ fs[i].board < 48 /\ fs[i].buy < 48 /\ fs[i].report < 58 /\ fs[i].ended < 48}
<1>1. /\ Len(fs) \in Nat /\ DOMAIN fs = 1 .. Len(fs)
      /\ \A i \in DOMAIN fs : fs[i].at \in Nat /\ fs[i].combat \in Nat
  BY FrameFacts
<1>2. S \in SUBSET (1 .. Len(fs))
  BY <1>1 DEF Spikes
<1>3. PICK q : q = Strongest(S, fs, "combat")
  OBVIOUS
<1>4. q \in Seq(S)
  <2>1. \A i \in S : fs[i]["combat"] \in Int
    BY <1>1, <1>2
  <2> HIDE DEF S
  <2>2. QED
    BY <1>1, <1>2, <1>3, <2>1, StrongestFacts
<1> DEFINE Shown(i) == Window("combat_spike", fs, i, fs[i].at - 8000, fs[i].at + 10000, fs[i].combat, 4000, 3000)
<1>5. PICK W : W = {Shown(i) : i \in S}
  BY Zenon
<1>6. ASSUME NEW i \in S PROVE ReviewWindow(fs, Shown(i))
  <2>1. i \in DOMAIN fs /\ fs[i].at \in Nat /\ fs[i].combat \in Int
    BY <1>1, <1>2
  <2>2. "combat_spike" \in DecisionKinds /\ LeadOf("combat_spike") = 4000 /\ LagOf("combat_spike") = 3000
    BY DEF DecisionKinds, LeadOf, LagOf
  <2>3. fs[i].at - 8000 \in Int /\ fs[i].at + 10000 \in Int /\ fs[i].at - 8000 <= fs[i].at
        /\ fs[i].at <= fs[i].at + 10000
    BY <2>1
  <2>4. QED
    BY <2>1, <2>2, <2>3, WindowFacts, SMTT(30)
<1>k. ASSUME NEW i \in S PROVE Shown(i).kind # "death_review"
  BY DEF Window
<1>7. PICK ranked : ranked = [k \in DOMAIN q |-> Shown(q[k])]
  BY Zenon
<1>8. HighImpactWindows(fs, existing, limit) = Pick(ranked, existing, 0, 6000, limit)
  BY <1>3, <1>7 DEF HighImpactWindows
<1> HIDE DEF S, Shown
<1>9. ranked \in [DOMAIN q -> W]
  BY <1>4, <1>5, <1>7
<1>10. ranked \in Seq(W)
  BY <1>4, <1>9, MappedFacts
<1>11. \A w \in W : ReviewWindow(fs, w)
  BY <1>5, <1>6
<1>n. \A w \in W : w.kind # "death_review"
  BY <1>5, <1>k
<1>d. NoDeaths(ranked)
  BY <1>10, <1>n DEF NoDeaths
<1>12. ranked \in Seq(Members(ranked)) /\ \A k \in 1 .. Len(ranked) : ReviewWindow(fs, ranked[k])
  BY <1>10, <1>11, OwnElements
<1>13. Found(fs, existing, limit, Pick(ranked, existing, 0, 6000, limit))
  BY <1>12, PickIsFound
<1>14. NoDeaths(Pick(ranked, existing, 0, 6000, limit))
  <2>1. PICK spacing \in Nat : spacing = 6000
    OBVIOUS
  <2>2. NoDeaths(Pick(ranked, existing, 0, spacing, limit))
    BY <1>12, <1>d, NoDeathPicked
  <2>3. QED
    BY <2>1, <2>2
<1>15. QED
  BY <1>8, <1>13, <1>14

\* Rotations stay apart from the windows found before and within their budget
\* (rotationReviewWindows).
LEMMA RotationsAreFound ==
  ASSUME NEW fs, InTime(fs), NEW existing, Tidy(fs, existing), NEW limit \in Nat
  PROVE  /\ Found(fs, existing, limit, RotationWindows(fs, existing, limit))
         /\ NoDeaths(RotationWindows(fs, existing, limit))
<1> DEFINE S == {i \in Spikes(fs, "motion", 11, 20, 22) :
                   /\ Len(fs) * fs[i].combat <= Total(fs, "combat") + 12 * Len(fs)
                   /\ Compatible(fs[i]) /\ NoOverlay(fs[i], 42)
                   /\ ~BlockingOverlayNear(fs, i)}
<1>1. /\ Len(fs) \in Nat /\ DOMAIN fs = 1 .. Len(fs)
      /\ \A i \in DOMAIN fs : fs[i].at \in Nat /\ fs[i].motion \in Nat
  BY FrameFacts
<1>2. S \in SUBSET (1 .. Len(fs))
  BY <1>1 DEF Spikes
<1>3. PICK q : q = Strongest(S, fs, "motion")
  OBVIOUS
<1>4. q \in Seq(S)
  <2>1. \A i \in S : fs[i]["motion"] \in Int
    BY <1>1, <1>2
  <2> HIDE DEF S
  <2>2. QED
    BY <1>1, <1>2, <1>3, <2>1, StrongestFacts
<1> DEFINE Shown(i) == Window("rotation_spike", fs, i, fs[i].at - 6000, fs[i].at + 8000, fs[i].motion, 4000, 3000)
<1>5. PICK W : W = {Shown(i) : i \in S}
  BY Zenon
<1>6. ASSUME NEW i \in S PROVE ReviewWindow(fs, Shown(i))
  <2>1. i \in DOMAIN fs /\ fs[i].at \in Nat /\ fs[i].motion \in Int
    BY <1>1, <1>2
  <2>2. "rotation_spike" \in DecisionKinds /\ LeadOf("rotation_spike") = 4000 /\ LagOf("rotation_spike") = 3000
    BY DEF DecisionKinds, LeadOf, LagOf
  <2>3. fs[i].at - 6000 \in Int /\ fs[i].at + 8000 \in Int /\ fs[i].at - 6000 <= fs[i].at
        /\ fs[i].at <= fs[i].at + 8000
    BY <2>1
  <2>4. QED
    BY <2>1, <2>2, <2>3, WindowFacts, SMTT(30)
<1>k. ASSUME NEW i \in S PROVE Shown(i).kind # "death_review"
  BY DEF Window
<1>7. PICK ranked : ranked = [k \in DOMAIN q |-> Shown(q[k])]
  BY Zenon
<1>8. RotationWindows(fs, existing, limit) = Pick(ranked, existing, 5000, 5000, limit)
  BY <1>3, <1>7 DEF RotationWindows
<1> HIDE DEF S, Shown
<1>9. ranked \in [DOMAIN q -> W]
  BY <1>4, <1>5, <1>7
<1>10. ranked \in Seq(W)
  BY <1>4, <1>9, MappedFacts
<1>11. \A w \in W : ReviewWindow(fs, w)
  BY <1>5, <1>6
<1>n. \A w \in W : w.kind # "death_review"
  BY <1>5, <1>k
<1>d. NoDeaths(ranked)
  BY <1>10, <1>n DEF NoDeaths
<1>12. ranked \in Seq(Members(ranked)) /\ \A k \in 1 .. Len(ranked) : ReviewWindow(fs, ranked[k])
  BY <1>10, <1>11, OwnElements
<1>13. Found(fs, existing, limit, Pick(ranked, existing, 5000, 5000, limit))
  BY <1>12, PickIsFound
<1>14. NoDeaths(Pick(ranked, existing, 5000, 5000, limit))
  <2>1. PICK spacing \in Nat, padding \in Nat : spacing = 5000 /\ padding = 5000
    OBVIOUS
  <2>2. NoDeaths(Pick(ranked, existing, padding, spacing, limit))
    BY <1>12, <1>d, NoDeathPicked
  <2>3. QED
    BY <2>1, <2>2
<1>15. QED
  BY <1>8, <1>13, <1>14

\* A stretch is known by its first frame.
LEMMA StretchFacts ==
  ASSUME NEW n \in Nat, NEW S \in SUBSET (1 .. n)
  PROVE  /\ IsFiniteSet(Stretches(S))
         /\ \A c \in Stretches(S) : c[1] \in S /\ c[2] \in S /\ c[1] <= c[2]
         /\ \A c, d \in Stretches(S) : c[1] = d[1] => c = d
<1>1. ASSUME NEW c \in Stretches(S)
      PROVE  /\ c \in S \X S /\ c[1] \in S /\ c[2] \in S /\ c[1] <= c[2]
             /\ \A i \in c[1] .. c[2] - 1 : i + 1 \in S
             /\ c[2] + 1 \notin S
             /\ c[1] \in Nat /\ c[2] \in Nat
  <2>1. /\ c \in S \X S /\ c[1] \in S /\ c[2] \in S /\ c[1] <= c[2]
        /\ \A i \in c[1] .. c[2] - 1 : i + 1 \in S
        /\ c[2] + 1 \notin S
    BY DEF Stretches, Runs
  <2>2. \A i \in S : i \in Nat
    OBVIOUS
  <2>3. QED
    BY <2>1, <2>2
<1>2. ASSUME NEW c \in Stretches(S), NEW d \in Stretches(S), c[1] = d[1]
      PROVE  ~(c[2] < d[2])
  <2>1. SUFFICES ASSUME c[2] < d[2] PROVE FALSE
    OBVIOUS
  <2>2. c[2] \in Nat /\ d[2] \in Nat /\ c[1] \in Nat /\ d[1] <= c[2]
    BY <1>1, <1>2
  <2>3. c[2] \in d[1] .. d[2] - 1
    BY <1>2, <2>1, <2>2
  <2>4. QED
    BY <1>1, <2>3
<1>3. ASSUME NEW c \in Stretches(S), NEW d \in Stretches(S), c[1] = d[1]
      PROVE  c = d
  <2>1. c[2] \in Nat /\ d[2] \in Nat /\ c \in S \X S /\ d \in S \X S
    BY <1>1
  <2>2. ~(c[2] < d[2]) /\ ~(d[2] < c[2])
    BY <1>2, <1>3
  <2>3. c[2] = d[2]
    BY <2>1, <2>2
  <2>4. QED
    BY <1>3, <2>1, <2>3
<1>4. IsFiniteSet(Stretches(S))
  <2>1. IsFiniteSet(1 .. n)
    BY FS_Interval
  <2>2. IsFiniteSet(S)
    BY <2>1, FS_Subset
  <2>3. IsFiniteSet(S \X S)
    BY <2>2, FS_Product
  <2>4. Stretches(S) \in SUBSET (S \X S)
    BY <1>1
  <2>5. QED
    BY <2>3, <2>4, FS_Subset
<1>5. QED
  BY <1>1, <1>3, <1>4

\* How a passive stretch ranks is a number.
LEMMA HoldScoreTyped ==
  ASSUME NEW fs, NEW c, NEW d \in Int, HoldLength(fs, c) = d
  PROVE  HoldScore(fs, c) \in Int
<1>1. PICK most \in Int : most = 45000
  OBVIOUS
<1>2. Min({most, d}) \in {most, d}
  BY PairFacts
<1>3. Min({most, d}) \in Int
  BY <1>2
<1>4. HoldScore(fs, c) = Min({most, d})
  BY <1>1 DEF HoldScore
<1>5. QED
  BY <1>3, <1>4

\* Passive stretches stay apart from the windows found before and within their
\* budget (passiveReviewWindows).
LEMMA HoldsAreFound ==
  ASSUME NEW fs, InTime(fs), NEW existing, Tidy(fs, existing), NEW limit \in Nat
  PROVE  /\ Found(fs, existing, limit, PassiveWindows(fs, existing, limit))
         /\ NoDeaths(PassiveWindows(fs, existing, limit))
<1> DEFINE S == {i \in DOMAIN fs :
                   /\ 2 * fs[i].motion <= 5 \/ 2 * Len(fs) * fs[i].motion <= Total(fs, "motion")
                   /\ fs[i].combat < 24 /\ Compatible(fs[i]) /\ NoOverlay(fs[i], 42)}
           H == HoldStretches(fs)
           Duration(c) == HoldLength(fs, c)
           Score(c) == HoldScore(fs, c)
<1>1. /\ Len(fs) \in Nat /\ DOMAIN fs = 1 .. Len(fs)
      /\ \A i \in DOMAIN fs : fs[i].at \in Nat
  BY FrameFacts
<1>2. S \in SUBSET (1 .. Len(fs)) /\ \A i \in S : i \in DOMAIN fs /\ i \in Nat /\ fs[i].at \in Nat
  BY <1>1
<1> HIDE DEF S
<1>3. /\ IsFiniteSet(H)
      /\ \A c \in H : c[1] \in S /\ c[2] \in S /\ c[1] <= c[2] /\ Duration(c) >= 8000
      /\ \A c, d \in H : c[1] = d[1] => c = d
  <2>1. /\ IsFiniteSet(Stretches(S))
        /\ \A c \in Stretches(S) : c[1] \in S /\ c[2] \in S /\ c[1] <= c[2]
        /\ \A c, d \in Stretches(S) : c[1] = d[1] => c = d
    <3>1. PICK n \in Nat : n = Len(fs)
      BY <1>1
    <3>2. S \in SUBSET (1 .. n)
      BY <1>2, <3>1, Zenon
    <3>3. QED
      BY <3>2, StretchFacts
  <2>2. H \in SUBSET Stretches(S) /\ \A c \in H : Duration(c) >= 8000
    BY DEF HoldStretches, S
  <2>3. IsFiniteSet(H)
    BY <2>1, <2>2, FS_Subset
  <2>4. QED
    BY <2>1, <2>2, <2>3
<1> HIDE DEF H
<1>4. ASSUME NEW c \in H
      PROVE  Duration(c) \in Int /\ Score(c) \in Int /\ c[1] \in Int
  <2>0. c[1] \in S /\ c[2] \in S
    BY <1>3
  <2>a. fs[c[1]].at \in Nat /\ fs[c[2]].at \in Nat /\ c[1] \in Nat
    BY <1>2, <2>0
  <2>1. Duration(c) \in Int /\ c[1] \in Int
    BY <2>a DEF HoldLength
  <2>2. PICK d \in Int : d = Duration(c)
    BY <2>1
  <2>3. HoldScore(fs, c) \in Int
    BY <2>2, HoldScoreTyped
  <2>4. QED
    BY <2>1, <2>3
<1>v. PICK value : value = [c \in H |-> Score(c)]
  OBVIOUS
<1>a. PICK at : at = [c \in H |-> c[1]]
  OBVIOUS
<1>5. DOMAIN value = H /\ DOMAIN at = H /\ \A c \in H : value[c] = Score(c) /\ at[c] = c[1]
  BY <1>v, <1>a
<1>6. value \in [H -> Int] /\ at \in [H -> Int] /\ \A c, d \in H : at[c] = at[d] => c = d
  <2>1. value \in [H -> Int] /\ at \in [H -> Int]
    BY <1>4, <1>v, <1>a
  <2>2. QED
    BY <1>3, <1>5, <2>1
<1>7. PICK q : q = LongestFirst(H, fs)
  OBVIOUS
<1>8. ByValue(H, value, at) \in Seq(H)
  BY <1>3, <1>6, ByValueFacts
<1>9. q = ByValue(H, value, at)
  <2>1. \A x \in H :
          Cardinality({y \in H : value[y] > value[x] \/ (value[y] = value[x] /\ at[y] < at[x])})
            = Cardinality({y \in H : Score(y) > Score(x) \/ (Score(y) = Score(x) /\ y[1] < x[1])})
    <3>1. ASSUME NEW x \in H
          PROVE  {y \in H : value[y] > value[x] \/ (value[y] = value[x] /\ at[y] < at[x])}
                  = {y \in H : Score(y) > Score(x) \/ (Score(y) = Score(x) /\ y[1] < x[1])}
      BY <1>5
    <3>2. QED
      BY <3>1
  <2>2. q = [k \in 1 .. Cardinality(H) |->
               CHOOSE x \in H :
                 Cardinality({y \in H : Score(y) > Score(x) \/ (Score(y) = Score(x) /\ y[1] < x[1])}) = k - 1]
    BY <1>7 DEF LongestFirst, Ranked, Sorted
  <2>3. ByValue(H, value, at) = [k \in 1 .. Cardinality(H) |->
               CHOOSE x \in H :
                 Cardinality({y \in H : value[y] > value[x] \/ (value[y] = value[x] /\ at[y] < at[x])}) = k - 1]
    BY DEF ByValue
  <2>4. \A k : (CHOOSE x \in H :
                 Cardinality({y \in H : Score(y) > Score(x) \/ (Score(y) = Score(x) /\ y[1] < x[1])}) = k - 1)
              = (CHOOSE x \in H :
                 Cardinality({y \in H : value[y] > value[x] \/ (value[y] = value[x] /\ at[y] < at[x])}) = k - 1)
    BY <2>1
  <2>5. QED
    BY <2>2, <2>3, <2>4
<1>10. q \in Seq(H)
  BY <1>8, <1>9
<1>11. PICK W : W = {Hold(fs, c) : c \in H}
  OBVIOUS
<1>12. ASSUME NEW c \in H PROVE ReviewWindow(fs, Hold(fs, c))
  <2>1. PICK p : p = (c[1] + c[2]) \div 2
    OBVIOUS
  <2>a. c[1] \in S /\ c[2] \in S /\ c[1] <= c[2]
    BY <1>3
  <2>2. c[1] \in DOMAIN fs /\ c[2] \in DOMAIN fs /\ c[1] <= c[2]
    BY <1>2, <2>a
  <2>3. p \in DOMAIN fs /\ c[1] <= p /\ p <= c[2]
    BY <1>1, <2>1, <2>2
  <2>4. fs[c[1]].at \in Int /\ fs[c[2]].at \in Int
    BY <1>1, <2>2
  <2>5. fs[c[1]].at <= fs[p].at /\ fs[p].at <= fs[c[2]].at
    BY <1>1, <2>2, <2>3 DEF InTime
  <2>6. "low_activity" \in DecisionKinds /\ LeadOf("low_activity") = 4000 /\ LagOf("low_activity") = 4000
    BY DEF DecisionKinds, LeadOf, LagOf
  <2>7. Score(c) \div 450 \in Int
    BY <1>4
  <2>8. ReviewWindow(fs, Window("low_activity", fs, p, fs[c[1]].at, fs[c[2]].at, Score(c) \div 450, 4000, 4000))
    BY <2>3, <2>4, <2>5, <2>6, <2>7, WindowFacts
  <2>9. QED
    BY <2>1, <2>8 DEF Hold
<1>k. ASSUME NEW c \in H PROVE Hold(fs, c).kind # "death_review"
  BY DEF Hold, Window
<1>13. PICK ranked : ranked = [k \in DOMAIN q |-> Hold(fs, q[k])]
  OBVIOUS
<1>14. PassiveWindows(fs, existing, limit) = <<>>
         \/ PassiveWindows(fs, existing, limit) = Pick(ranked, existing, 4000, 4000, limit)
  BY <1>7, <1>13 DEF PassiveWindows, H
<1>15. ranked \in [DOMAIN q -> W]
  BY <1>10, <1>11, <1>13
<1>16. ranked \in Seq(W)
  BY <1>10, <1>15, MappedFacts
<1>17. \A w \in W : ReviewWindow(fs, w)
  BY <1>11, <1>12
<1>n. \A w \in W : w.kind # "death_review"
  BY <1>11, <1>k
<1>d. NoDeaths(ranked)
  BY <1>16, <1>n DEF NoDeaths
<1>18. ranked \in Seq(Members(ranked)) /\ \A k \in 1 .. Len(ranked) : ReviewWindow(fs, ranked[k])
  BY <1>16, <1>17, OwnElements
<1>19. Found(fs, existing, limit, Pick(ranked, existing, 4000, 4000, limit))
  BY <1>18, PickIsFound
<1>20. Found(fs, existing, limit, <<>>)
  BY DEF Found, Tidy, Members
<1>21. NoDeaths(Pick(ranked, existing, 4000, 4000, limit)) /\ NoDeaths(<<>>)
  <2>1. NoDeaths(Pick(ranked, existing, 4000, 4000, limit))
    <3>1. PICK spacing \in Nat, padding \in Nat : spacing = 4000 /\ padding = 4000
      OBVIOUS
    <3>2. NoDeaths(Pick(ranked, existing, padding, spacing, limit))
      BY <1>18, <1>d, NoDeathPicked
    <3>3. QED
      BY <3>1, <3>2
  <2>2. NoDeaths(<<>>)
    BY DEF NoDeaths
  <2>3. QED
    BY <2>1, <2>2
<1>22. QED
  BY <1>14, <1>19, <1>20, <1>21

-----------------------------------------------------------------------------
(* Deaths by round.                                                         *)

\* The buckets the deaths of a match are thinned by are as many as the budget and
\* none is empty.
LEMMA QuotientsGrow ==
  ASSUME NEW n \in Nat, NEW l \in 1 .. 7, l < n, NEW u \in Nat, NEW v \in Nat
  PROVE  /\ u \div l \in Nat
         /\ u \div l + 1 <= (u + n) \div l
         /\ u <= v => u \div l <= v \div l
         /\ 0 \div l = 0 /\ (l * n) \div l = n
<1>1. CASE l = 1
  BY <1>1
<1>2. CASE l = 2
  BY <1>2
<1>3. CASE l = 3
  BY <1>3
<1>4. CASE l = 4
  BY <1>4
<1>5. CASE l = 5
  BY <1>5
<1>6. CASE l = 6
  BY <1>6
<1>7. CASE l = 7
  BY <1>7
<1>8. QED
  BY <1>1, <1>2, <1>3, <1>4, <1>5, <1>6, <1>7

\* The buckets follow each other and are not empty.
LEMMA BucketFacts ==
  ASSUME NEW n \in Nat, NEW l \in 1 .. 7, l < n, NEW b \in 1 .. l
  PROVE  /\ Bucket(n, l, b) \in SUBSET (1 .. n) /\ Bucket(n, l, b) # {}
         /\ \A c \in b + 1 .. l : \A x \in Bucket(n, l, b) : \A y \in Bucket(n, l, c) : x < y
<1>1. \A i, j \in Nat : i <= j => i * n \in Nat /\ i * n <= j * n
  <2>1. ASSUME NEW i \in Nat, NEW j \in Nat, i <= j PROVE i * n \in Nat /\ i * n <= j * n
    <3>1. n * i \in Nat /\ n * i <= n * j
      BY <2>1, TimesGrow
    <3>2. n * i = i * n /\ n * j = j * n
      OBVIOUS
    <3>3. QED
      BY <3>1, <3>2
  <2>2. QED
    BY <2>1
<1>2. \A i \in Nat : (i + 1) * n = i * n + n
  OBVIOUS
<1>3. PICK low : low = ((b - 1) * n) \div l
  OBVIOUS
<1>4. PICK high : high = (b * n) \div l
  OBVIOUS
<1>5. b - 1 \in Nat /\ b \in Nat /\ b <= l /\ l \in Nat
  OBVIOUS
<1>6. (b - 1) * n \in Nat /\ b * n \in Nat /\ b * n = (b - 1) * n + n /\ b * n <= l * n /\ l * n \in Nat
  <2>1. (b - 1) + 1 = b
    BY <1>5
  <2>2. QED
    BY <1>1, <1>2, <1>5, <2>1
<1>7. low \in Nat /\ low + 1 <= high /\ high <= n
  <2>1. low \in Nat /\ low + 1 <= high
    BY <1>3, <1>4, <1>6, QuotientsGrow
  <2>2. high <= (l * n) \div l
    BY <1>4, <1>6, QuotientsGrow
  <2>3. (l * n) \div l = n
    BY <1>6, QuotientsGrow
  <2>4. QED
    BY <2>1, <2>2, <2>3
<1>8. Bucket(n, l, b) = low + 1 .. high
  BY <1>3, <1>4 DEF Bucket
<1>9. Bucket(n, l, b) \in SUBSET (1 .. n) /\ Bucket(n, l, b) # {}
  <2>1. high \in Int
    BY <1>4, <1>6, QuotientsGrow
  <2>2. high \in low + 1 .. high
    BY <1>7, <2>1
  <2>3. \A x \in low + 1 .. high : x \in 1 .. n
    BY <1>7, <2>1
  <2>4. QED
    BY <1>8, <2>2, <2>3
<1>10. ASSUME NEW c \in b + 1 .. l, NEW x \in Bucket(n, l, b), NEW y \in Bucket(n, l, c)
       PROVE  x < y
  <2>1. c - 1 \in Nat /\ b <= c - 1 /\ c - 1 <= l
    BY <1>5
  <2>2. (c - 1) * n \in Nat /\ b * n <= (c - 1) * n
    BY <1>1, <1>5, <2>1
  <2>3. PICK next : next = ((c - 1) * n) \div l
    OBVIOUS
  <2>4. high <= next /\ next \in Nat /\ high \in Nat
    BY <1>4, <1>6, <2>2, <2>3, QuotientsGrow
  <2>5. x \in low + 1 .. high /\ y \in next + 1 .. (c * n) \div l
    BY <1>8, <2>3 DEF Bucket
  <2>6. x <= high /\ next + 1 <= y /\ x \in Int /\ y \in Int
    BY <2>5
  <2>7. QED
    BY <2>4, <2>6
<1>11. QED
  BY <1>9, <1>10

\* Windows taken out of tidy ones, none twice, are tidy.
LEMMA TidyParts ==
  ASSUME NEW fs, NEW ws, Tidy(fs, ws), NEW n \in Nat, NEW index \in [1 .. n -> 1 .. Len(ws)],
         \A b, c \in 1 .. n : b # c => index[b] # index[c],
         NEW vs, vs \in [1 .. n -> Members(ws)], \A b \in 1 .. n : vs[b] = ws[index[b]]
  PROVE  Tidy(fs, vs) /\ Len(vs) = n
<1>1. vs \in Seq(Members(ws)) /\ Len(vs) = n
  OBVIOUS
<1>2. vs \in Seq(Members(vs))
  BY <1>1, OwnElements
<1>3. ASSUME NEW b \in 1 .. n PROVE ReviewWindow(fs, vs[b])
  <2>1. index[b] \in 1 .. Len(ws) /\ vs[b] = ws[index[b]]
    OBVIOUS
  <2>2. QED
    BY <2>1 DEF Tidy
<1>4. ASSUME NEW b \in 1 .. n, NEW c \in 1 .. n, b # c PROVE ~Overlaps(vs[b], vs[c], 0)
  <2>1. /\ index[b] \in 1 .. Len(ws) /\ index[c] \in 1 .. Len(ws) /\ index[b] # index[c]
        /\ vs[b] = ws[index[b]] /\ vs[c] = ws[index[c]]
    BY <1>4
  <2>2. QED
    BY <2>1 DEF Tidy
<1>5. QED
  BY <1>1, <1>2, <1>3, <1>4 DEF Tidy

\* Tidy windows differ in when they peak and in when they begin.
LEMMA TidyMembers ==
  ASSUME NEW fs, NEW ws, Tidy(fs, ws)
  PROVE  /\ Len(ws) \in Nat /\ DOMAIN ws = 1 .. Len(ws) /\ ToSet(ws) = Members(ws)
         /\ IsFiniteSet(Members(ws)) /\ Cardinality(Members(ws)) <= Len(ws)
         /\ \A w \in Members(ws) : ReviewWindow(fs, w)
         /\ \A w, v \in Members(ws) : w # v =>
              /\ ~Overlaps(w, v, 0) /\ w.peak # v.peak /\ w.from # v.from
<1>1. ws \in Seq(Members(ws))
  BY DEF Tidy
<1>2. Len(ws) \in Nat /\ DOMAIN ws = 1 .. Len(ws)
  BY <1>1
<1>3. ToSet(ws) = Members(ws)
  BY <1>2 DEF ToSet, Members
<1>4. IsFiniteSet(Members(ws)) /\ Cardinality(Members(ws)) <= Len(ws)
  <2>1. ws \in [1 .. Len(ws) -> Members(ws)]
    BY <1>1
  <2>2. \A w \in Members(ws) : \E k \in 1 .. Len(ws) : ws[k] = w
    BY DEF Members
  <2>3. ws \in Surjection(1 .. Len(ws), Members(ws))
    BY <2>1, <2>2 DEF Surjection
  <2>4. IsFiniteSet(1 .. Len(ws)) /\ Cardinality(1 .. Len(ws)) = Len(ws)
    <3>1. PICK n \in Nat : n = Len(ws)
      BY <1>2
    <3>2. n \in Int /\ 1 \in Int
      OBVIOUS
    <3>3. IsFiniteSet(1 .. n) /\ Cardinality(1 .. n) = IF 1 > n THEN 0 ELSE n - 1 + 1
      BY <3>2, FS_Interval
    <3>4. (IF 1 > n THEN 0 ELSE n - 1 + 1) = n
      BY <3>1
    <3>5. QED
      BY <3>1, <3>3, <3>4, SMTT(30)
  <2>5. QED
    BY <2>3, <2>4, FS_Surjection
<1>5. \A w \in Members(ws) : ReviewWindow(fs, w)
  BY DEF Members, Tidy
<1>6. ASSUME NEW w \in Members(ws), NEW v \in Members(ws), w # v
      PROVE  ~Overlaps(w, v, 0) /\ w.peak # v.peak /\ w.from # v.from
  <2>1. PICK j \in 1 .. Len(ws), k \in 1 .. Len(ws) : w = ws[j] /\ v = ws[k]
    BY DEF Members
  <2>2. ~Overlaps(w, v, 0)
    BY <1>6, <2>1 DEF Tidy
  <2>3. /\ w.from \in Nat /\ w.to \in Nat /\ w.peak \in Nat /\ w.from <= w.peak /\ w.peak <= w.to
        /\ v.from \in Nat /\ v.to \in Nat /\ v.peak \in Nat /\ v.from <= v.peak /\ v.peak <= v.to
    BY <1>5 DEF ReviewWindow
  <2>4. QED
    BY <2>2, <2>3 DEF Overlaps
<1>7. QED
  BY <1>2, <1>3, <1>4, <1>5, <1>6

\* Tidy windows in an order, of which some may have been left out.
LEMMA OrderedTidy ==
  ASSUME NEW fs, NEW ws, Tidy(fs, ws), NEW D \in SUBSET Members(ws), NEW R, TotalOrder(D, R),
         NEW q, InOrder(q, D, R)
  PROVE  /\ Tidy(fs, q) /\ Len(q) \in Nat /\ Len(q) <= Len(ws)
         /\ \A k \in 1 .. Len(q) : q[k] \in D
<1>1. q \in Seq(D) /\ \A j, k \in 1 .. Len(q) : j < k => <<q[j], q[k]>> \in R
  BY DEF InOrder
<1>2. Len(q) \in Nat /\ \A k \in 1 .. Len(q) : q[k] \in D /\ q[k] \in Members(ws)
  BY <1>1
<1>3. /\ \A w \in Members(ws) : ReviewWindow(fs, w)
      /\ \A w, v \in Members(ws) : w # v => ~Overlaps(w, v, 0)
      /\ IsFiniteSet(Members(ws)) /\ Cardinality(Members(ws)) <= Len(ws) /\ Len(ws) \in Nat
  BY TidyMembers
<1>4. ASSUME NEW j \in 1 .. Len(q), NEW k \in 1 .. Len(q), j # k PROVE q[j] # q[k]
  <2>1. <<q[j], q[k]>> \in R \/ <<q[k], q[j]>> \in R
    BY <1>1, <1>2, <1>4
  <2>2. QED
    BY <1>2, <2>1 DEF TotalOrder
<1>5. q \in Seq(Members(q))
  BY <1>1, OwnElements
<1>6. Len(q) <= Len(ws)
  <2>1. Cardinality(D) <= Cardinality(Members(ws)) /\ Cardinality(D) \in Nat
    BY <1>3, FS_Subset, FS_CardinalityType
  <2>2. Len(q) = Cardinality(D) /\ Cardinality(Members(ws)) \in Nat
    BY <1>3, FS_CardinalityType DEF InOrder
  <2>3. QED
    BY <1>3, <2>1, <2>2
<1>7. QED
  BY <1>2, <1>3, <1>4, <1>5, <1>6 DEF Tidy

\* A round number is written into each window and nothing else is touched.
LEMMA RoundsAreAssigned ==
  ASSUME NEW fs, NEW ws, Tidy(fs, ws), NEW segments
  PROVE  /\ Tidy(fs, AssignRounds(ws, segments))
         /\ Len(AssignRounds(ws, segments)) = Len(ws)
         /\ \A k \in 1 .. Len(ws) :
              /\ AssignRounds(ws, segments)[k].from = ws[k].from
              /\ AssignRounds(ws, segments)[k].to = ws[k].to
              /\ AssignRounds(ws, segments)[k].peak = ws[k].peak
              /\ AssignRounds(ws, segments)[k].kind = ws[k].kind
              /\ AssignRounds(ws, segments)[k].score = ws[k].score
              /\ AssignRounds(ws, segments)[k].round = RoundOf(segments, ws[k])
<1>1. PICK vs : vs = AssignRounds(ws, segments)
  OBVIOUS
<1>2. Len(ws) \in Nat /\ DOMAIN ws = 1 .. Len(ws)
  BY TidyMembers
<1>3. ASSUME NEW k \in 1 .. Len(ws)
      PROVE  /\ ReviewWindow(fs, vs[k]) /\ vs[k].from = ws[k].from /\ vs[k].to = ws[k].to
             /\ vs[k].peak = ws[k].peak /\ vs[k].kind = ws[k].kind /\ vs[k].score = ws[k].score
             /\ vs[k].round = RoundOf(segments, ws[k])
  <2>1. PICK w : w = ws[k] /\ ReviewWindow(fs, w)
    BY DEF Tidy
  <2>2. PICK r : vs[k] = [w EXCEPT !.round = r] /\ r = RoundOf(segments, w)
    BY <1>1, <1>2, <2>1 DEF AssignRounds
  <2>3. w = [kind |-> w.kind, from |-> w.from, to |-> w.to, peak |-> w.peak, score |-> w.score,
             round |-> w.round, evidence |-> w.evidence]
    BY <2>1 DEF ReviewWindow
  <2>4. vs[k] = [kind |-> w.kind, from |-> w.from, to |-> w.to, peak |-> w.peak, score |-> w.score,
                 round |-> r, evidence |-> w.evidence]
    BY <2>2, <2>3
  <2>5. /\ vs[k].kind = w.kind /\ vs[k].from = w.from /\ vs[k].to = w.to /\ vs[k].peak = w.peak
        /\ vs[k].score = w.score /\ vs[k].round = r /\ vs[k].evidence = w.evidence
    BY <2>4
  <2>6. QED
    BY <2>1, <2>2, <2>4, <2>5 DEF ReviewWindow
<1>4. vs \in [1 .. Len(ws) -> {vs[k] : k \in 1 .. Len(ws)}] /\ DOMAIN vs = 1 .. Len(ws)
  BY <1>1, <1>2 DEF AssignRounds
<1>5. Len(vs) = Len(ws) /\ vs \in Seq(Members(vs))
  <2>1. PICK A : vs \in [1 .. Len(ws) -> A]
    BY <1>4
  <2>2. vs \in Seq(A) /\ Len(vs) = Len(ws)
    BY <1>2, <2>1
  <2>3. QED
    BY <2>2, OwnElements
<1>6. ASSUME NEW j \in 1 .. Len(ws), NEW k \in 1 .. Len(ws), j # k PROVE ~Overlaps(vs[j], vs[k], 0)
  <2>1. ~Overlaps(ws[j], ws[k], 0)
    BY <1>6 DEF Tidy
  <2>2. QED
    BY <1>3, <2>1 DEF Overlaps
<1>7. QED
  BY <1>1, <1>3, <1>5, <1>6 DEF Tidy

\* A window of S before which none of S is in its round.
FirstDeath(w, S) == w \in S /\ (w.round > 0 => \A v \in S : v.round = w.round => ~(v.peak < w.peak))

FirstDeaths(ws, S) == \A k \in 1 .. Len(ws) : FirstDeath(ws[k], S)

\* The first death of each round: windows that already were apart.
LEMMA FirstDeathsAreTidy ==
  ASSUME NEW fs, NEW ws, Tidy(fs, ws)
  PROVE  /\ Tidy(fs, FirstOfEachRound(ToSet(ws)))
         /\ FirstDeaths(FirstOfEachRound(ToSet(ws)), Members(ws))
<1> DEFINE S == Members(ws)
           D == {w \in S : ~(w.round > 0 /\ \E v \in S : v.round = w.round /\ v.peak < w.peak)}
<1>1. ToSet(ws) = S
  BY TidyMembers
<1>2. PICK q : q = FirstOfEachRound(S)
  OBVIOUS
<1>3. q = [k \in 1 .. Cardinality(D) |->
             CHOOSE x \in D : Cardinality({y \in D : y.peak < x.peak}) = k - 1]
  BY <1>2 DEF FirstOfEachRound, Sorted
<1>4. D \in SUBSET S
  OBVIOUS
<1>a. \A w \in D : FirstDeath(w, S)
  BY DEF FirstDeath
<1> HIDE DEF D
<1>5. IsFiniteSet(D)
  BY <1>4, TidyMembers, FS_Subset
<1>6. \A w \in D : w.peak \in Nat
  BY <1>4, TidyMembers DEF ReviewWindow
<1>7. \A w, v \in D : w # v => w.peak # v.peak
  BY <1>4, TidyMembers
<1>8. PICK R : R = {p \in D \X D : p[1].peak < p[2].peak}
  OBVIOUS
<1>9. \A w, v \in D : <<w, v>> \in R <=> w.peak < v.peak
  BY <1>8
<1>10. TotalOrder(D, R)
  BY <1>6, <1>7, <1>9 DEF TotalOrder
<1>11. Arranged(q, D, R)
  <2>1. ASSUME NEW x \in D PROVE Cardinality({y \in D : y.peak < x.peak}) = Rank(D, R, x)
    <3>1. {y \in D : y.peak < x.peak} = {y \in D : <<y, x>> \in R}
      BY <1>9
    <3>2. QED
      BY <3>1 DEF Rank
  <2>2. \A k \in 1 .. Cardinality(D) : \E x \in D : Rank(D, R, x) = k - 1
    BY <1>5, <1>10, PlacesExist
  <2>3. QED
    BY <1>3, <2>1, <2>2 DEF Arranged
<1>12. InOrder(q, D, R)
  BY <1>5, <1>10, <1>11, ArrangedIsInOrder
<1>13. Tidy(fs, q) /\ \A k \in 1 .. Len(q) : q[k] \in D
  BY <1>4, <1>10, <1>12, OrderedTidy
<1>14. FirstDeaths(q, S)
  BY <1>13, <1>a DEF FirstDeaths
<1>15. QED
  BY <1>1, <1>2, <1>13, <1>14

\* Thinning keeps as many windows as the budget says, apart as before.
LEMMA ThinnedIsTidy ==
  ASSUME NEW fs, NEW ws, Tidy(fs, ws), NEW l \in 1 .. 7, l < Len(ws)
  PROVE  /\ Tidy(fs, Thinned(ws, l)) /\ Len(Thinned(ws, l)) = l
         /\ \A b \in 1 .. l : Thinned(ws, l)[b] \in Members(ws)
<1>1. PICK n : n = Len(ws)
  OBVIOUS
<1>2. n \in Nat /\ \A k \in 1 .. n : ReviewWindow(fs, ws[k]) /\ ws[k] \in Members(ws)
  BY <1>1, TidyMembers DEF Tidy, Members
<1>3. \A k \in 1 .. n : ws[k].score \in Int
  BY <1>2 DEF ReviewWindow
<1>4. PICK value : value = [k \in 1 .. n |-> ws[k].score]
  OBVIOUS
<1>5. PICK index : index = [b \in 1 .. l |-> BestOf(Bucket(n, l, b), LAMBDA k : ws[k].score)]
  OBVIOUS
<1>6. ASSUME NEW b \in 1 .. l PROVE index[b] \in Bucket(n, l, b) /\ index[b] \in 1 .. n
  <2>1. PICK S \in SUBSET (1 .. n) : S = Bucket(n, l, b) /\ S # {}
    BY <1>1, <1>2, BucketFacts
  <2>2. IsFiniteSet(S)
    <3>1. IsFiniteSet(1 .. n)
      BY <1>2, FS_Interval
    <3>2. QED
      BY <3>1, FS_Subset
  <2>3. S \in SUBSET Int /\ \A i \in S : value[i] \in Int
    BY <1>3, <1>4
  <2>4. Min({i \in S : \A j \in S : value[j] <= value[i]}) \in S
    BY <2>1, <2>2, <2>3, BestFacts
  <2>5. {i \in S : \A j \in S : value[j] <= value[i]} = {i \in S : \A j \in S : ws[j].score <= ws[i].score}
    BY <1>4
  <2>6. index[b] = BestOf(S, LAMBDA k : ws[k].score)
    BY <1>5, <2>1
  <2>7. index[b] \in S
    BY <2>4, <2>5, <2>6 DEF BestOf
  <2>8. QED
    BY <2>1, <2>7
<1>7. ASSUME NEW b \in 1 .. l, NEW c \in 1 .. l, b # c PROVE index[b] # index[c]
  <2>1. index[b] \in Bucket(n, l, b) /\ index[c] \in Bucket(n, l, c) /\ index[b] \in Nat /\ index[c] \in Nat
    BY <1>6
  <2>2. CASE c > b
    <3>1. c \in b + 1 .. l
      BY <2>2
    <3>2. index[b] < index[c]
      BY <1>1, <1>2, <2>1, <3>1, BucketFacts
    <3>3. QED
      BY <2>1, <3>2
  <2>3. CASE b > c
    <3>1. b \in c + 1 .. l
      BY <2>3
    <3>2. index[c] < index[b]
      BY <1>1, <1>2, <2>1, <3>1, BucketFacts
    <3>3. QED
      BY <2>1, <3>2
  <2>4. QED
    BY <1>7, <2>2, <2>3
<1>8. index \in [1 .. l -> 1 .. Len(ws)]
  BY <1>1, <1>5, <1>6
<1>9. PICK vs : vs = Thinned(ws, l)
  OBVIOUS
<1>10. vs = [b \in 1 .. l |-> ws[index[b]]]
  BY <1>1, <1>5, <1>9 DEF Thinned
<1>11. vs \in [1 .. l -> Members(ws)] /\ \A b \in 1 .. l : vs[b] = ws[index[b]]
  BY <1>2, <1>6, <1>10
<1>12. l \in Nat
  OBVIOUS
<1>13. Tidy(fs, vs) /\ Len(vs) = l
  BY <1>7, <1>8, <1>11, <1>12, TidyParts, SMTT(30)
<1>14. QED
  BY <1>9, <1>11, <1>13

-----------------------------------------------------------------------------
(* The review of a recording.                                               *)

\* The deaths under review are at most as many as their budget, and apart
\* (selectDeathWindowsByRound).
LEMMA DeathsFitTheBudget ==
  ASSUME NEW fs, InTime(fs), NEW segments, NEW l \in 1 .. 7
  PROVE  /\ Tidy(fs, SelectDeathWindowsByRound(AssignRounds(DeathReviewWindows(fs), segments), l))
         /\ Len(SelectDeathWindowsByRound(AssignRounds(DeathReviewWindows(fs), segments), l)) <= l
         /\ FirstDeaths(SelectDeathWindowsByRound(AssignRounds(DeathReviewWindows(fs), segments), l),
                        Members(AssignRounds(DeathReviewWindows(fs), segments)))
<1>1. PICK deaths : deaths = AssignRounds(DeathReviewWindows(fs), segments)
  OBVIOUS
<1>2. Tidy(fs, deaths)
  BY <1>1, DeathsAreFound, RoundsAreAssigned
<1>3. PICK selected : selected = FirstOfEachRound(ToSet(deaths))
  OBVIOUS
<1>4. Tidy(fs, selected) /\ FirstDeaths(selected, Members(deaths))
  BY <1>2, <1>3, FirstDeathsAreTidy
<1>5. Len(selected) \in Nat
  BY <1>4, TidyMembers
<1>6. CASE Len(selected) <= l
  BY <1>1, <1>3, <1>4, <1>6 DEF SelectDeathWindowsByRound
<1>7. CASE l < Len(selected)
  <2>1. PICK thin : thin = Thinned(selected, l)
    OBVIOUS
  <2>2. Tidy(fs, thin) /\ Len(thin) = l /\ \A b \in 1 .. l : thin[b] \in Members(selected)
    BY <1>4, <1>7, <2>1, ThinnedIsTidy
  <2>3. FirstDeaths(thin, Members(deaths))
    BY <1>4, <2>2 DEF FirstDeaths, Members
  <2>4. SelectDeathWindowsByRound(deaths, l) = thin
    BY <1>3, <1>5, <1>7, <2>1 DEF SelectDeathWindowsByRound
  <2>5. QED
    BY <1>1, <2>2, <2>3, <2>4
<1>8. QED
  BY <1>5, <1>6, <1>7

\* Within the budget, and clear of each other.
Affordable(fs, ws) == Tidy(fs, ws) /\ Len(ws) <= Limit

\* Whatever deaths there are were there before.
NoNewDeaths(u, ws) == \A k \in 1 .. Len(u) : u[k].kind = "death_review" => u[k] \in Members(ws)

\* Each further search adds windows only within what the budget has left, so the
\* review never has more than its limit.
LEMMA SearchesAreAffordable ==
  ASSUME budget \in Int, NEW fs, InTime(fs), NEW ws, Affordable(fs, ws)
  PROVE  /\ Affordable(fs, WithFights(fs, ws))
         /\ Affordable(fs, WithHolds(fs, ws))
         /\ Affordable(fs, WithRotations(fs, ws))
         /\ NoNewDeaths(WithFights(fs, ws), ws)
         /\ NoNewDeaths(WithHolds(fs, ws), ws)
         /\ NoNewDeaths(WithRotations(fs, ws), ws)
<1>1. Limit \in Nat /\ CombatBudget \in Nat /\ DecisionBudget \in Nat
  BY LimitFacts
<1>2. Tidy(fs, ws) /\ Len(ws) \in Nat /\ Len(ws) <= Limit
  BY TidyMembers DEF Affordable
<1>3. PICK left : left = Left(ws)
  OBVIOUS
<1>4. left \in Nat /\ Len(ws) + left = Limit
  BY <1>1, <1>2, <1>3 DEF Left
<1>d. ASSUME NEW limit \in Nat, NEW vs, Found(fs, ws, limit, vs), NoDeaths(vs)
      PROVE  NoNewDeaths(ws \o vs, ws)
  <2>1. Tidy(fs, vs)
    BY <1>d DEF Found
  <2>2. ws \in Seq(Members(ws)) /\ vs \in Seq(Members(vs))
    BY <1>2, <2>1 DEF Tidy
  <2>3. PICK u : u = ws \o vs /\ Joined(u, ws, vs)
    BY <2>2, ConcatFacts
  <2>4. ASSUME NEW k \in 1 .. Len(u), u[k].kind = "death_review" PROVE u[k] \in Members(ws)
    <3>1. CASE k \in 1 .. Len(ws) /\ u[k] = ws[k]
      BY <3>1 DEF Members
    <3>2. CASE k - Len(ws) \in 1 .. Len(vs) /\ u[k] = vs[k - Len(ws)]
      BY <1>d, <2>4, <3>2 DEF NoDeaths
    <3>3. QED
      BY <2>3, <3>1, <3>2 DEF Joined
  <2>5. QED
    BY <2>3, <2>4 DEF NoNewDeaths
<1>5. ASSUME NEW limit \in Nat, limit <= left, NEW vs, Found(fs, ws, limit, vs)
      PROVE  Affordable(fs, ws \o vs)
  <2>1. Tidy(fs, ws \o vs) /\ Len(vs) \in Nat /\ Len(vs) <= limit /\ Len(ws \o vs) = Len(ws) + Len(vs)
    BY <1>2, <1>5, FoundJoins
  <2>2. Len(ws \o vs) <= Limit
    BY <1>1, <1>2, <1>4, <1>5, <2>1
  <2>3. QED
    BY <2>1, <2>2 DEF Affordable
<1>6. PICK m : m = Min({left, CombatBudget})
  OBVIOUS
<1>7. m \in Nat /\ m <= left
  <2>1. left \in Int /\ CombatBudget \in Int
    BY <1>1, <1>4
  <2>2. m \in {left, CombatBudget} /\ m <= left
    BY <1>6, <2>1, PairFacts
  <2>3. QED
    BY <1>1, <1>4, <2>2
<1>8. PICK h : h = Min({left, DecisionBudget})
  OBVIOUS
<1>9. h \in Nat /\ h <= left
  <2>1. left \in Int /\ DecisionBudget \in Int
    BY <1>1, <1>4
  <2>2. h \in {left, DecisionBudget} /\ h <= left
    BY <1>8, <2>1, PairFacts
  <2>3. QED
    BY <1>1, <1>4, <2>2
<1>10. Affordable(fs, WithFights(fs, ws)) /\ NoNewDeaths(WithFights(fs, ws), ws)
  <2>1. Found(fs, ws, m, HighImpactWindows(fs, ws, m)) /\ NoDeaths(HighImpactWindows(fs, ws, m))
    BY <1>2, <1>7, FightsAreFound
  <2>2. WithFights(fs, ws) = ws \o HighImpactWindows(fs, ws, m)
    BY <1>3, <1>6 DEF WithFights
  <2>3. QED
    BY <1>5, <1>d, <1>7, <2>1, <2>2
<1>11. Affordable(fs, WithHolds(fs, ws)) /\ NoNewDeaths(WithHolds(fs, ws), ws)
  <2>1. Found(fs, ws, h, PassiveWindows(fs, ws, h)) /\ NoDeaths(PassiveWindows(fs, ws, h))
    BY <1>2, <1>9, HoldsAreFound
  <2>2. WithHolds(fs, ws) = ws \o PassiveWindows(fs, ws, h)
    BY <1>3, <1>8 DEF WithHolds
  <2>3. QED
    BY <1>5, <1>d, <1>9, <2>1, <2>2
<1>12. Affordable(fs, WithRotations(fs, ws)) /\ NoNewDeaths(WithRotations(fs, ws), ws)
  <2>1. Found(fs, ws, left, RotationWindows(fs, ws, left)) /\ NoDeaths(RotationWindows(fs, ws, left))
    BY <1>2, <1>4, RotationsAreFound
  <2>2. WithRotations(fs, ws) = ws \o RotationWindows(fs, ws, left)
    BY <1>3 DEF WithRotations
  <2>3. QED
    BY <1>4, <1>5, <1>d, <2>1, <2>2
<1>13. QED
  BY <1>10, <1>11, <1>12

\* No window begins before the one before it has ended.
InTurn(ws) == \A j, k \in 1 .. Len(ws) : j < k => ws[j].to < ws[k].from

\* The windows under review are put into the order of their times.
LEMMA SortedInTurn ==
  ASSUME NEW fs, NEW ws, Tidy(fs, ws)
  PROVE  /\ Tidy(fs, SortWindows(ws)) /\ Len(SortWindows(ws)) <= Len(ws) /\ InTurn(SortWindows(ws))
         /\ \A k \in 1 .. Len(SortWindows(ws)) : SortWindows(ws)[k] \in Members(ws)
<1> DEFINE S == Members(ws)
<1>1. /\ ToSet(ws) = S /\ IsFiniteSet(S)
      /\ \A w \in S : ReviewWindow(fs, w)
      /\ \A w, v \in S : w # v => ~Overlaps(w, v, 0) /\ w.from # v.from
  BY TidyMembers
<1>2. PICK q : q = SortWindows(ws)
  OBVIOUS
<1>3. q = [k \in 1 .. Cardinality(S) |->
             CHOOSE x \in S :
               Cardinality({y \in S : y.from < x.from \/ (y.from = x.from /\ y.score > x.score)}) = k - 1]
  BY <1>1, <1>2 DEF SortWindows, Sorted
<1>4. \A w \in S : w.from \in Nat /\ w.to \in Nat /\ w.from <= w.to
  <2>1. ASSUME NEW w \in S PROVE w.from \in Nat /\ w.to \in Nat /\ w.from <= w.to
    BY <1>1 DEF ReviewWindow
  <2>2. QED
    BY <2>1
<1>5. PICK R : R = {p \in S \X S : p[1].from < p[2].from}
  OBVIOUS
<1> HIDE DEF S
<1>6. \A w, v \in S : <<w, v>> \in R <=> w.from < v.from
  BY <1>5
<1>7. TotalOrder(S, R)
  BY <1>1, <1>4, <1>6 DEF TotalOrder
<1>8. Arranged(q, S, R)
  <2>1. ASSUME NEW x \in S
        PROVE  Cardinality({y \in S : y.from < x.from \/ (y.from = x.from /\ y.score > x.score)}) = Rank(S, R, x)
    <3>1. ASSUME NEW y \in S
          PROVE  y.from < x.from \/ (y.from = x.from /\ y.score > x.score) <=> <<y, x>> \in R
      <4>1. CASE y = x
        <5>1. x.score \in Int /\ y.score \in Int
          BY <1>1 DEF ReviewWindow
        <5>2. QED
          BY <1>4, <1>6, <4>1, <5>1
      <4>2. CASE y # x
        BY <1>1, <1>6, <4>2
      <4>3. QED
        BY <4>1, <4>2
    <3>2. {y \in S : y.from < x.from \/ (y.from = x.from /\ y.score > x.score)} = {y \in S : <<y, x>> \in R}
      BY <3>1
    <3>3. QED
      BY <3>2 DEF Rank
  <2>2. \A k \in 1 .. Cardinality(S) : \E x \in S : Rank(S, R, x) = k - 1
    BY <1>1, <1>7, PlacesExist
  <2>3. QED
    BY <1>3, <2>1, <2>2 DEF Arranged
<1>9. InOrder(q, S, R)
  BY <1>1, <1>7, <1>8, ArrangedIsInOrder
<1>10. Tidy(fs, q) /\ Len(q) <= Len(ws) /\ Len(q) \in Nat /\ \A k \in 1 .. Len(q) : q[k] \in S
  BY <1>7, <1>9, OrderedTidy DEF S
<1>11. ASSUME NEW j \in 1 .. Len(q), NEW k \in 1 .. Len(q), j < k PROVE q[j].to < q[k].from
  <2>1. q[j].from < q[k].from
    BY <1>6, <1>9, <1>10, <1>11 DEF InOrder
  <2>2. ~Overlaps(q[j], q[k], 0)
    BY <1>10, <1>11 DEF Tidy
  <2>3. /\ q[j].from \in Nat /\ q[j].to \in Nat /\ q[j].from <= q[j].to
        /\ q[k].from \in Nat /\ q[k].to \in Nat /\ q[k].from <= q[k].to
    BY <1>4, <1>10
  <2>4. QED
    BY <2>1, <2>2, <2>3 DEF Overlaps
<1>12. InTurn(q)
  BY <1>11 DEF InTurn
<1>13. \A k \in 1 .. Len(q) : q[k] \in Members(ws)
  BY <1>10 DEF S
<1>14. QED
  BY <1>2, <1>10, <1>12, <1>13

\* The windows of a review: within the limit, apart, and in the order of the match
\* (buildReviewWindows).
LEMMA ReviewIsInTurn ==
  ASSUME budget \in Int, NEW fs, InTime(fs), NEW segments
  PROVE  Affordable(fs, ReviewWindows(fs, segments)) /\ InTurn(ReviewWindows(fs, segments))
<1>1. /\ Limit \in Nat /\ DeathBudget \in 1 .. 7 /\ DeathBudget <= Limit
  BY LimitFacts
<1>2. PICK a : a = SelectDeathWindowsByRound(AssignRounds(DeathReviewWindows(fs), segments), DeathBudget)
  OBVIOUS
<1>3. Tidy(fs, a) /\ Len(a) <= DeathBudget
  BY <1>1, <1>2, DeathsFitTheBudget
<1>4. Affordable(fs, a)
  <2>1. Len(a) \in Nat
    BY <1>3, TidyMembers
  <2>2. QED
    BY <1>1, <1>3, <2>1 DEF Affordable
<1>5. PICK b : b = WithFights(fs, a) /\ Affordable(fs, b)
  BY <1>4, SearchesAreAffordable
<1>6. PICK c : c = WithHolds(fs, b) /\ Affordable(fs, c)
  BY <1>5, SearchesAreAffordable
<1>7. PICK d : d = WithRotations(fs, c) /\ Affordable(fs, d)
  BY <1>6, SearchesAreAffordable
<1>8. ReviewWindows(fs, segments) = SortWindows(d)
  BY <1>2, <1>5, <1>6, <1>7 DEF ReviewWindows
<1>9. Tidy(fs, SortWindows(d)) /\ Len(SortWindows(d)) <= Len(d) /\ InTurn(SortWindows(d))
  BY <1>7, SortedInTurn DEF Affordable
<1>10. Len(SortWindows(d)) \in Nat /\ Len(d) \in Nat /\ Len(d) <= Limit
  BY <1>7, <1>9, TidyMembers DEF Affordable
<1>11. QED
  BY <1>1, <1>8, <1>9, <1>10 DEF Affordable

-----------------------------------------------------------------------------
(* Evidence.                                                                *)

OffFrom(fs, i, t) == Off(fs[i], t)

\* Of frames in the order of time, none is nearer than the one found.
NoneNearer(fs, i, S, t) ==
  IF S = {} THEN i = 0 ELSE i \in S /\ \A j \in S : OffFrom(fs, i, t) <= OffFrom(fs, j, t)

\* The distance of a frame from a time is a number.
LEMMA OffTyped ==
  ASSUME NEW fs, InTime(fs), NEW t \in Int, NEW i \in 1 .. Len(fs)
  PROVE  fs[i].at \in Nat /\ OffFrom(fs, i, t) \in Int
<1>1. fs[i] \in Frame
  BY DEF InTime
<1>2. fs[i].at \in Nat
  BY <1>1, SignalsTyped
<1>3. QED
  BY <1>2 DEF OffFrom, Off

\* Before a time later frames are closer to it, after it earlier ones are.
LEMMA OffGrows ==
  ASSUME NEW fs, InTime(fs), NEW t \in Int, NEW i \in 1 .. Len(fs), NEW j \in 1 .. Len(fs), i <= j
  PROVE  /\ fs[j].at <= t => OffFrom(fs, j, t) <= OffFrom(fs, i, t)
         /\ fs[i].at >= t => OffFrom(fs, i, t) <= OffFrom(fs, j, t)
<1>1. fs[i].at \in Nat /\ fs[j].at \in Nat
  BY OffTyped
<1>2. fs[i].at <= fs[j].at
  BY DEF InTime
<1>3. QED
  BY <1>1, <1>2 DEF OffFrom, Off

\* The frames nearest to a wanted time.
Closest(fs, S, t) == {i \in S : \A j \in S : OffFrom(fs, i, t) <= OffFrom(fs, j, t)}

\* Unless nothing is offered something is closest.
LEMMA ClosestExists ==
  ASSUME NEW fs, InTime(fs), NEW t \in Int, NEW S \in SUBSET (1 .. Len(fs)), S # {}
  PROVE  /\ Closest(fs, S, t) # {} /\ Closest(fs, S, t) \in SUBSET S /\ IsFiniteSet(Closest(fs, S, t))
         /\ Closest(fs, S, t) \in SUBSET Int
<1>1. IsFiniteSet(S) /\ S \in SUBSET Int
  <2>1. Len(fs) \in Nat
    BY DEF InTime
  <2>2. IsFiniteSet(1 .. Len(fs))
    BY <2>1, FS_Interval
  <2>3. IsFiniteSet(S)
    BY <2>2, FS_Subset
  <2>4. QED
    BY <2>3
<1>2. PICK value : value = [i \in S |-> 0 - OffFrom(fs, i, t)]
  OBVIOUS
<1>3. \A i \in S : value[i] \in Int /\ value[i] = 0 - OffFrom(fs, i, t) /\ OffFrom(fs, i, t) \in Int
  BY <1>2, OffTyped
<1>4. PICK T : T = {i \in S : \A j \in S : value[j] <= value[i]}
  OBVIOUS
<1>5. PICK m : m \in S /\ \A j \in S : value[j] <= value[m]
  BY <1>1, <1>3, <1>4, BestFacts
<1>a. \A j \in S : OffFrom(fs, m, t) <= OffFrom(fs, j, t)
  BY <1>3, <1>5
<1>6. m \in Closest(fs, S, t)
  BY <1>5, <1>a DEF Closest
<1>7. Closest(fs, S, t) \in SUBSET S
  BY DEF Closest
<1>8. QED
  BY <1>1, <1>6, <1>7, FS_Subset

\* No frame before the peak is closer to the wanted time than the one chosen
\* (evidence before the decision).
LEMMA NearestBefore ==
  ASSUME NEW fs, InTime(fs), NEW p \in DOMAIN fs, NEW t \in Int,
         NEW i, i = IF Closest(fs, Preceding(fs, p, t), t) = {} THEN 0
                    ELSE Max(Closest(fs, Preceding(fs, p, t), t))
  PROVE  NoneNearer(fs, i, 1 .. p - 1, t)
<1>1. PICK S : S = Preceding(fs, p, t)
  OBVIOUS
<1>2. p \in 1 .. Len(fs) /\ Len(fs) \in Nat /\ S \in SUBSET (1 .. p - 1)
  BY <1>1 DEF InTime, Preceding
<1>3. CASE p = 1
  <2>1. 1 .. p - 1 = {}
    BY <1>3
  <2>2. Closest(fs, S, t) = {}
    BY <1>2, <2>1 DEF Closest
  <2>3. QED
    BY <1>1, <2>1, <2>2 DEF NoneNearer
<1>4. CASE p # 1
  <2>1. p - 1 \in S
    BY <1>1, <1>2, <1>4 DEF Preceding
  <2>2. S \in SUBSET (1 .. Len(fs)) /\ S # {}
    BY <1>2, <2>1
  <2>3. PICK C : C = Closest(fs, S, t)
    OBVIOUS
  <2>4. C # {} /\ C \in SUBSET S /\ IsFiniteSet(C) /\ C \in SUBSET Int
    BY <2>2, <2>3, ClosestExists
  <2>5. i = Max(C)
    BY <1>1, <2>3, <2>4
  <2>6. Max(C) \in C
    BY <2>4, MaxFacts
  <2>7. i \in S /\ \A j \in S : OffFrom(fs, i, t) <= OffFrom(fs, j, t)
    BY <2>3, <2>5, <2>6 DEF Closest
  <2>8. ASSUME NEW j \in 1 .. p - 1, j \notin S PROVE OffFrom(fs, i, t) <= OffFrom(fs, j, t)
    <3>1. PICK L : L = {k \in 1 .. p - 1 : fs[k].at < t}
      OBVIOUS
    <3>2. PICK m \in j + 1 .. p - 1 : ~(fs[m].at >= t)
      BY <1>1, <2>8 DEF Preceding
    <3>3. m \in 1 .. Len(fs) /\ m \in 1 .. p - 1 /\ m > j /\ m \in Nat
      BY <1>2
    <3>a. fs[m].at \in Nat
      BY <3>3, OffTyped
    <3>4. m \in L
      BY <3>1, <3>2, <3>3, <3>a
    <3>5. L \in SUBSET Int /\ IsFiniteSet(L)
      <4>1. IsFiniteSet(1 .. p - 1)
        BY <1>2, FS_Interval
      <4>2. L \in SUBSET (1 .. p - 1)
        BY <3>1
      <4>3. L \in SUBSET Int
        BY <1>2, <4>2
      <4>4. QED
        BY <4>1, <4>2, <4>3, FS_Subset
    <3>6. Max(L) \in L /\ \A y \in L : y <= Max(L)
      BY <3>4, <3>5, MaxFacts
    <3>7. PICK k : k = Max(L)
      OBVIOUS
    <3>8. k \in 1 .. p - 1 /\ fs[k].at < t /\ k >= m /\ k \in 1 .. Len(fs)
      BY <1>2, <3>1, <3>3, <3>4, <3>6, <3>7
    <3>9. ASSUME NEW q \in k + 1 .. p - 1 PROVE fs[q].at >= t
      <4>1. q \in 1 .. p - 1 /\ q > k /\ q \in 1 .. Len(fs) /\ q \in Int /\ k \in Int
        BY <1>2, <3>8
      <4>2. q \notin L
        BY <3>6, <3>7, <4>1
      <4>3. ~(fs[q].at < t)
        BY <3>1, <4>1, <4>2
      <4>4. fs[q].at \in Nat
        BY <4>1, OffTyped
      <4>5. QED
        BY <4>3, <4>4
    <3>10. k \in S
      BY <1>1, <3>8, <3>9 DEF Preceding
    <3>c. fs[k].at \in Nat
      BY <3>8, OffTyped
    <3>b. k \in 1 .. Len(fs) /\ fs[k].at <= t
      BY <3>8, <3>c
    <3>d. j \in 1 .. Len(fs) /\ j \in Int /\ k \in Int
      BY <1>2, <3>8
    <3>11. j \in 1 .. Len(fs) /\ j <= k /\ fs[k].at \in Nat
      BY <3>3, <3>8, <3>c, <3>d
    <3>12. OffFrom(fs, k, t) <= OffFrom(fs, j, t)
      BY <3>8, <3>b, <3>11, OffGrows
    <3>13. OffFrom(fs, i, t) <= OffFrom(fs, k, t)
      BY <2>7, <3>10
    <3>14. OffFrom(fs, i, t) \in Int /\ OffFrom(fs, k, t) \in Int /\ OffFrom(fs, j, t) \in Int
      BY <2>2, <2>7, <3>8, <3>11, OffTyped
    <3>15. QED
      BY <3>12, <3>13, <3>14
  <2>9. i \in 1 .. p - 1 /\ \A j \in 1 .. p - 1 : OffFrom(fs, i, t) <= OffFrom(fs, j, t)
    BY <1>2, <2>7, <2>8
  <2>10. QED
    BY <2>9 DEF NoneNearer
<1>5. QED
  BY <1>3, <1>4

\* No frame after the peak is closer to the wanted time than the one chosen
\* (evidence after the decision).
LEMMA NearestAfter ==
  ASSUME NEW fs, InTime(fs), NEW p \in DOMAIN fs, NEW t \in Int,
         NEW i, i = IF Closest(fs, Following(fs, p, t), t) = {} THEN 0
                    ELSE Min(Closest(fs, Following(fs, p, t), t))
  PROVE  NoneNearer(fs, i, p + 1 .. Len(fs), t)
<1>1. PICK S : S = Following(fs, p, t)
  OBVIOUS
<1>2. p \in 1 .. Len(fs) /\ Len(fs) \in Nat /\ S \in SUBSET (p + 1 .. Len(fs))
  BY <1>1 DEF InTime, Following
<1>3. CASE p = Len(fs)
  <2>1. p + 1 .. Len(fs) = {}
    BY <1>2, <1>3
  <2>2. Closest(fs, S, t) = {}
    BY <1>2, <2>1 DEF Closest
  <2>3. QED
    BY <1>1, <2>1, <2>2 DEF NoneNearer
<1>4. CASE p # Len(fs)
  <2>1. p + 1 \in S
    BY <1>1, <1>2, <1>4 DEF Following
  <2>2. S \in SUBSET (1 .. Len(fs)) /\ S # {}
    BY <1>2, <2>1
  <2>3. PICK C : C = Closest(fs, S, t)
    OBVIOUS
  <2>4. C # {} /\ C \in SUBSET S /\ IsFiniteSet(C) /\ C \in SUBSET Int
    BY <2>2, <2>3, ClosestExists
  <2>5. i = Min(C)
    BY <1>1, <2>3, <2>4
  <2>6. Min(C) \in C
    BY <2>4, MinFacts
  <2>7. i \in S /\ \A j \in S : OffFrom(fs, i, t) <= OffFrom(fs, j, t)
    BY <2>3, <2>5, <2>6 DEF Closest
  <2>8. ASSUME NEW j \in p + 1 .. Len(fs), j \notin S PROVE OffFrom(fs, i, t) <= OffFrom(fs, j, t)
    <3>1. PICK L : L = {k \in p + 1 .. Len(fs) : fs[k].at > t}
      OBVIOUS
    <3>2. PICK m \in p + 1 .. j - 1 : ~(fs[m].at <= t)
      BY <1>1, <2>8 DEF Following
    <3>3. m \in 1 .. Len(fs) /\ m \in p + 1 .. Len(fs) /\ m < j /\ m \in Nat
      BY <1>2
    <3>a. fs[m].at \in Nat
      BY <3>3, OffTyped
    <3>4. m \in L
      BY <3>1, <3>2, <3>3, <3>a
    <3>5. L \in SUBSET Int /\ IsFiniteSet(L)
      <4>1. IsFiniteSet(p + 1 .. Len(fs))
        BY <1>2, FS_Interval
      <4>2. L \in SUBSET (p + 1 .. Len(fs))
        BY <3>1
      <4>3. L \in SUBSET Int
        BY <1>2, <4>2
      <4>4. QED
        BY <4>1, <4>2, <4>3, FS_Subset
    <3>6. Min(L) \in L /\ \A y \in L : Min(L) <= y
      BY <3>4, <3>5, MinFacts
    <3>7. PICK k : k = Min(L)
      OBVIOUS
    <3>8. k \in p + 1 .. Len(fs) /\ fs[k].at > t /\ k <= m /\ k \in 1 .. Len(fs)
      BY <1>2, <3>1, <3>3, <3>4, <3>6, <3>7
    <3>9. ASSUME NEW q \in p + 1 .. k - 1 PROVE fs[q].at <= t
      <4>1. q \in p + 1 .. Len(fs) /\ q < k /\ q \in 1 .. Len(fs) /\ q \in Int /\ k \in Int
        BY <1>2, <3>8
      <4>2. q \notin L
        BY <3>6, <3>7, <4>1
      <4>3. ~(fs[q].at > t)
        BY <3>1, <4>1, <4>2
      <4>4. fs[q].at \in Nat
        BY <4>1, OffTyped
      <4>5. QED
        BY <4>3, <4>4
    <3>10. k \in S
      BY <1>1, <3>8, <3>9 DEF Following
    <3>c. fs[k].at \in Nat
      BY <3>8, OffTyped
    <3>b. k \in 1 .. Len(fs) /\ fs[k].at >= t
      BY <3>8, <3>c
    <3>d. j \in 1 .. Len(fs) /\ j \in Int /\ k \in Int
      BY <1>2, <3>8
    <3>11. j \in 1 .. Len(fs) /\ k <= j /\ fs[k].at \in Nat
      BY <3>3, <3>8, <3>c, <3>d
    <3>12. OffFrom(fs, k, t) <= OffFrom(fs, j, t)
      BY <3>8, <3>b, <3>11, OffGrows
    <3>13. OffFrom(fs, i, t) <= OffFrom(fs, k, t)
      BY <2>7, <3>10
    <3>14. OffFrom(fs, i, t) \in Int /\ OffFrom(fs, k, t) \in Int /\ OffFrom(fs, j, t) \in Int
      BY <2>2, <2>7, <3>8, <3>11, OffTyped
    <3>15. QED
      BY <3>12, <3>13, <3>14
  <2>9. i \in p + 1 .. Len(fs) /\ \A j \in p + 1 .. Len(fs) : OffFrom(fs, i, t) <= OffFrom(fs, j, t)
    BY <1>2, <2>7, <2>8
  <2>10. QED
    BY <2>9 DEF NoneNearer
<1>5. QED
  BY <1>3, <1>4

-----------------------------------------------------------------------------
(* The decisions of the report.                                             *)

Decision(ws, i) == [kind |-> ws[i].kind, at |-> ws[i].peak, id |-> i]

\* A decision for every window has the kind of its window.
LEMMA DecisionsAreOfTheWindows ==
  ASSUME NEW fs, NEW ws, Tidy(fs, ws)
  PROVE  \A d \in DOMAIN BuildReview(ws) : BuildReview(ws)[d].kind \in DecisionKinds
<1> DEFINE S == {Decision(ws, i) : i \in DOMAIN ws}
<1>1. Len(ws) \in Nat /\ DOMAIN ws = 1 .. Len(ws) /\ \A i \in 1 .. Len(ws) : ReviewWindow(fs, ws[i])
  BY TidyMembers DEF Tidy
<1>2. PICK q : q = BuildReview(ws)
  OBVIOUS
<1>3. S = {[kind |-> ws[i].kind, at |-> ws[i].peak, id |-> i] : i \in DOMAIN ws}
  BY DEF Decision
<1>4. q = [k \in 1 .. Cardinality(S) |->
             CHOOSE x \in S : Cardinality({y \in S : y.at < x.at \/ (y.at = x.at /\ y.id < x.id)}) = k - 1]
  <2>1. PICK D : D = {[kind |-> ws[i].kind, at |-> ws[i].peak, id |-> i] : i \in DOMAIN ws}
    OBVIOUS
  <2>2. q = Sorted(D, LAMBDA d, e : d.at < e.at \/ (d.at = e.at /\ d.id < e.id))
    BY <1>2, <2>1 DEF BuildReview
  <2>3. q = [k \in 1 .. Cardinality(D) |->
               CHOOSE x \in D : Cardinality({y \in D : y.at < x.at \/ (y.at = x.at /\ y.id < x.id)}) = k - 1]
    BY <2>2 DEF Sorted
  <2>4. D = S
    BY <1>3, <2>1
  <2>5. QED
    BY <2>3, <2>4
<1>5. PICK u : u = [i \in 1 .. Len(ws) |-> Decision(ws, i)]
  OBVIOUS
<1>6. u \in Seq(S) /\ Members(u) = S
  <2>1. DOMAIN u = 1 .. Len(ws) /\ \A i \in 1 .. Len(ws) : u[i] \in S /\ u[i] = Decision(ws, i)
    BY <1>1, <1>5
  <2>2. u \in Seq(S) /\ Len(u) = Len(ws)
    BY <1>1, <1>5
  <2>3. QED
    BY <1>1, <2>1, <2>2 DEF Members
<1>7. IsFiniteSet(S)
  BY <1>6, MembersAreFinite
<1>8. ASSUME NEW x \in S
      PROVE  x.kind \in DecisionKinds /\ x.at \in Nat /\ x.id \in Nat /\ x = Decision(ws, x.id)
  <2>1. PICK i \in 1 .. Len(ws) : x = Decision(ws, i)
    BY <1>1
  <2>2. ws[i].kind \in DecisionKinds /\ ws[i].peak \in Nat
    BY <1>1 DEF ReviewWindow
  <2>3. QED
    BY <2>1, <2>2 DEF Decision
<1> HIDE DEF S
<1>9. PICK R : R = {p \in S \X S : p[1].at < p[2].at \/ (p[1].at = p[2].at /\ p[1].id < p[2].id)}
  OBVIOUS
<1>10. \A x, y \in S : <<x, y>> \in R <=> x.at < y.at \/ (x.at = y.at /\ x.id < y.id)
  BY <1>9
<1>11. TotalOrder(S, R)
  <2>1. \A x, y \in S : x.id = y.id => x = y
    BY <1>8
  <2>2. \A x, y \in S : x.at \in Nat /\ x.id \in Nat
    BY <1>8
  <2>3. QED
    BY <1>10, <2>1, <2>2 DEF TotalOrder
<1>12. \A x \in S : Cardinality({y \in S : y.at < x.at \/ (y.at = x.at /\ y.id < x.id)}) = Rank(S, R, x)
  <2>1. ASSUME NEW x \in S
        PROVE  {y \in S : y.at < x.at \/ (y.at = x.at /\ y.id < x.id)} = {y \in S : <<y, x>> \in R}
    BY <1>10
  <2>2. QED
    BY <2>1 DEF Rank
<1>13. \A k \in 1 .. Cardinality(S) : \E x \in S : Rank(S, R, x) = k - 1
  BY <1>7, <1>11, PlacesExist
<1>14. \A k \in 1 .. Cardinality(S) : q[k] \in S
  BY <1>4, <1>12, <1>13
<1>15. DOMAIN q = 1 .. Cardinality(S)
  BY <1>4
<1>16. QED
  BY <1>2, <1>8, <1>14, <1>15

-----------------------------------------------------------------------------
(* The rules.                                                               *)

Confirms(a, fact) == \A q \in DOMAIN fact : a[q] = fact[q]

\* The wait that is blamed whatever it gained.
DespiteInformation(k, a) ==
  /\ k = "low_activity"
  /\ a["purpose_clear"] = "no" /\ a["safe_space_available"] = "yes" /\ a["information_gained"] # "no"

\* What the verdict is to claim.
Blamed(k, a) ==
  /\ a[Denied(k)] # "no"
  /\ \A q \in Required(k) : Known(a, q)
  /\ (\E fact \in Adverse(k) : Confirms(a, fact)) \/ DespiteInformation(k, a)

\* When the contact rules blame the player.
LEMMA CombatBlame ==
  ASSUME NEW a, NEW outcome
  PROVE  Actionable(AssessCombat(a, outcome)) <=>
           \/ a["tradeable"] = "no" \/ a["crosshair_ready"] = "no"
           \/ a["utility_available"] = "yes" /\ a["utility_used"] = "no"
           \/ a["escape_route"] = "no" /\ outcome = "death"
BY DEF Actionable, AssessCombat, Conclusion, Neutral

\* When the rotation rules blame the player.
LEMMA RotationBlame ==
  ASSUME NEW a
  PROVE  Actionable(AssessRotation(a)) <=>
           \/ a["teammate_spacing"] = "no" \/ a["sound_safe"] = "no"
           \/ a["new_information"] = "no" /\ a["objective_pressure"] = "no"
BY DEF Actionable, AssessRotation, Conclusion, Neutral

\* When the tempo rules blame the player.
LEMMA TempoBlame ==
  ASSUME NEW a
  PROVE  Actionable(AssessTempo(a)) <=>
           \/ a["team_aligned"] = "no"
           \/ a["purpose_clear"] = "no" /\ a["safe_space_available"] = "yes"
           \/ a["purpose_clear"] = "no" /\ a["information_gained"] = "no"
BY DEF Actionable, AssessTempo, Conclusion, Neutral

\* What the answers must say for a fact about contact to be confirmed.
LEMMA ContactFacts ==
  ASSUME NEW a
  PROVE  /\ Confirms(a, [tradeable |-> "no"]) <=> a["tradeable"] = "no"
         /\ Confirms(a, [crosshair_ready |-> "no"]) <=> a["crosshair_ready"] = "no"
         /\ Confirms(a, [utility_available |-> "yes", utility_used |-> "no"])
              <=> a["utility_available"] = "yes" /\ a["utility_used"] = "no"
         /\ Confirms(a, [escape_route |-> "no", outcome |-> "death"])
              <=> a["escape_route"] = "no" /\ a["outcome"] = "death"
         /\ Confirms(a, [escape_route |-> "no"]) <=> a["escape_route"] = "no"
BY DEF Confirms

\* What the answers must say for a fact about movement to be confirmed.
LEMMA MovementFacts ==
  ASSUME NEW a
  PROVE  /\ Confirms(a, [teammate_spacing |-> "no"]) <=> a["teammate_spacing"] = "no"
         /\ Confirms(a, [sound_safe |-> "no"]) <=> a["sound_safe"] = "no"
         /\ Confirms(a, [new_information |-> "no", objective_pressure |-> "no"])
              <=> a["new_information"] = "no" /\ a["objective_pressure"] = "no"
         /\ Confirms(a, [team_aligned |-> "no"]) <=> a["team_aligned"] = "no"
         /\ Confirms(a, [purpose_clear |-> "no", safe_space_available |-> "yes", information_gained |-> "no"])
              <=> /\ a["purpose_clear"] = "no" /\ a["safe_space_available"] = "yes"
                  /\ a["information_gained"] = "no"
         /\ Confirms(a, [purpose_clear |-> "no", information_gained |-> "no"])
              <=> a["purpose_clear"] = "no" /\ a["information_gained"] = "no"
BY DEF Confirms

\* What the answers must say for a wait to be one where there was safe space.
LEMMA UnproductiveFacts ==
  ASSUME NEW a
  PROVE  Confirms(a, [purpose_clear |-> "no", safe_space_available |-> "yes"])
           <=> a["purpose_clear"] = "no" /\ a["safe_space_available"] = "yes"
BY DEF Confirms

\* The rules that apply once everything is known.
Judged(k, a) ==
  CASE k = "combat_spike" -> AssessCombat(a, a["outcome"])
    [] k = "death_review" -> AssessCombat(a, "death")
    [] k = "rotation_spike" -> AssessRotation(a)
    [] k = "low_activity" -> AssessTempo(a)

\* Every rule blames exactly on a fact the answers confirm, or a wait whatever it
\* gained: the rules as written against the table of adverse facts.
LEMMA JudgedByFacts ==
  ASSUME NEW a, NEW k \in DecisionKinds
  PROVE  Actionable(Judged(k, a)) <=>
           (\E fact \in Adverse(k) : Confirms(a, fact)) \/ DespiteInformation(k, a)
<1>1. CASE k = "combat_spike"
  <2>1. Adverse("combat_spike") =
          {[tradeable |-> "no"], [crosshair_ready |-> "no"],
           [utility_available |-> "yes", utility_used |-> "no"]}
            \cup {[escape_route |-> "no", outcome |-> "death"]}
    BY Zenon DEF Adverse
  <2>2. Judged("combat_spike", a) = AssessCombat(a, a["outcome"])
    BY Zenon DEF Judged
  <2>3. (\E fact \in Adverse("combat_spike") : Confirms(a, fact)) <=>
          \/ Confirms(a, [tradeable |-> "no"]) \/ Confirms(a, [crosshair_ready |-> "no"])
          \/ Confirms(a, [utility_available |-> "yes", utility_used |-> "no"])
          \/ Confirms(a, [escape_route |-> "no", outcome |-> "death"])
    BY <2>1, Zenon
  <2>4. Actionable(AssessCombat(a, a["outcome"])) <=>
          \E fact \in Adverse("combat_spike") : Confirms(a, fact)
    BY <2>3, CombatBlame, ContactFacts
  <2>5. QED
    BY <1>1, <2>2, <2>4 DEF DespiteInformation
<1>2. CASE k = "death_review"
  <2>1. Adverse("death_review") =
          {[tradeable |-> "no"], [crosshair_ready |-> "no"],
           [utility_available |-> "yes", utility_used |-> "no"]} \cup {[escape_route |-> "no"]}
    BY Zenon DEF Adverse
  <2>2. Judged("death_review", a) = AssessCombat(a, "death")
    BY Zenon DEF Judged
  <2>3. (\E fact \in Adverse("death_review") : Confirms(a, fact)) <=>
          \/ Confirms(a, [tradeable |-> "no"]) \/ Confirms(a, [crosshair_ready |-> "no"])
          \/ Confirms(a, [utility_available |-> "yes", utility_used |-> "no"])
          \/ Confirms(a, [escape_route |-> "no"])
    BY <2>1, Zenon
  <2>4. Actionable(AssessCombat(a, "death")) <=>
          \E fact \in Adverse("death_review") : Confirms(a, fact)
    BY <2>3, CombatBlame, ContactFacts
  <2>5. QED
    BY <1>2, <2>2, <2>4 DEF DespiteInformation
<1>3. CASE k = "rotation_spike"
  <2>1. Adverse("rotation_spike") =
          {[teammate_spacing |-> "no"], [sound_safe |-> "no"],
           [new_information |-> "no", objective_pressure |-> "no"]}
    BY Zenon DEF Adverse
  <2>2. Judged("rotation_spike", a) = AssessRotation(a)
    BY Zenon DEF Judged
  <2>3. (\E fact \in Adverse("rotation_spike") : Confirms(a, fact)) <=>
          \/ Confirms(a, [teammate_spacing |-> "no"]) \/ Confirms(a, [sound_safe |-> "no"])
          \/ Confirms(a, [new_information |-> "no", objective_pressure |-> "no"])
    BY <2>1, Zenon
  <2>4. QED
    BY <1>3, <2>2, <2>3, RotationBlame, MovementFacts DEF DespiteInformation
<1>4. CASE k = "low_activity"
  <2>1. Adverse("low_activity") =
          {[team_aligned |-> "no"],
           [purpose_clear |-> "no", safe_space_available |-> "yes", information_gained |-> "no"],
           [purpose_clear |-> "no", information_gained |-> "no"]}
    BY Zenon DEF Adverse
  <2>2. Judged("low_activity", a) = AssessTempo(a)
    BY Zenon DEF Judged
  <2>3. (\E fact \in Adverse("low_activity") : Confirms(a, fact)) <=>
          \/ Confirms(a, [team_aligned |-> "no"])
          \/ Confirms(a, [purpose_clear |-> "no", safe_space_available |-> "yes", information_gained |-> "no"])
          \/ Confirms(a, [purpose_clear |-> "no", information_gained |-> "no"])
    BY <2>1, Zenon
  <2>4. QED
    BY <1>4, <2>2, <2>3, TempoBlame, MovementFacts DEF DespiteInformation
<1>5. QED
  BY <1>1, <1>2, <1>3, <1>4 DEF DecisionKinds

\* Whatever the answers are, the rules blame when they are to.
LEMMA RulesAreFair ==
  ASSUME NEW a, NEW k \in DecisionKinds
  PROVE  Actionable(AssessDecision(k, a)) <=> Blamed(k, a)
<1>1. CASE a[Denied(k)] = "no"
  <2>1. AssessDecision(k, a) = NotApplicable(k)
    BY <1>1, Zenon DEF AssessDecision
  <2>2. ~Actionable(NotApplicable(k))
    BY DEF Actionable, NotApplicable, Conclusion
  <2>3. QED
    BY <1>1, <2>1, <2>2 DEF Blamed
<1>2. CASE a[Denied(k)] # "no" /\ MissingRequired(k, a)
  <2>1. AssessDecision(k, a) = Pending
    BY <1>2, Zenon DEF AssessDecision
  <2>2. ~Actionable(Pending)
    BY DEF Actionable, Pending, Conclusion
  <2>3. QED
    BY <1>2, <2>1, <2>2 DEF Blamed, MissingRequired
<1>3. CASE a[Denied(k)] # "no" /\ ~MissingRequired(k, a)
  <2>1. AssessDecision(k, a) = Judged(k, a)
    BY <1>3, Zenon DEF AssessDecision, Judged
  <2>2. QED
    BY <1>3, <2>1, JudgedByFacts DEF Blamed, MissingRequired
<1>4. QED
  BY <1>1, <1>2, <1>3

-----------------------------------------------------------------------------
(* The boundaries of the rounds.                                            *)

\* Boundaries from the first frame to the last; only the first round may be empty.
Cuts(fs, bounds) ==
  /\ bounds \in Seq(Int) /\ Len(bounds) >= 2
  /\ bounds[1] = First(fs) /\ bounds[Len(bounds)] = Last(fs).at
  /\ \A j, k \in 1 .. Len(bounds) : j < k =>
       bounds[j] <= bounds[k] /\ (j > 1 => bounds[j] < bounds[k])

\* Some of them, not yet the last.
SomeCuts(fs, bounds) ==
  /\ bounds \in Seq(Int) /\ Len(bounds) >= 1
  /\ bounds[1] = First(fs)
  /\ \A j, k \in 1 .. Len(bounds) : j < k => bounds[j] < bounds[k]
  /\ \A j \in 2 .. Len(bounds) : bounds[j] < Last(fs).at

\* The first and the last moment of a recording.
LEMMA EndsAreTyped ==
  ASSUME NEW fs, InTime(fs), fs # <<>>
  PROVE  /\ Len(fs) \in Nat /\ Len(fs) >= 1 /\ DOMAIN fs = 1 .. Len(fs)
         /\ First(fs) \in Nat /\ Last(fs).at \in Nat /\ First(fs) <= Last(fs).at
         /\ Length(fs) \in Nat /\ Length(fs) = Last(fs).at - First(fs)
<1>1. fs \in Seq(Frame) /\ Len(fs) \in Nat /\ DOMAIN fs = 1 .. Len(fs)
  BY DEF InTime
<1>2. Len(fs) >= 1
  BY <1>1
<1>3. 1 \in 1 .. Len(fs) /\ Len(fs) \in 1 .. Len(fs)
  BY <1>1, <1>2
<1>4. fs[1].at \in Nat /\ fs[Len(fs)].at \in Nat
  BY <1>1, <1>3, FrameFacts
<1>5. fs[1].at <= fs[Len(fs)].at
  BY <1>2, <1>3 DEF InTime
<1>6. QED
  BY <1>1, <1>2, <1>4, <1>5 DEF First, Last, Length

\* With the end of the recording the boundaries are complete.
LEMMA CutsEnd ==
  ASSUME NEW fs, InTime(fs), fs # <<>>, NEW bounds, SomeCuts(fs, bounds)
  PROVE  Cuts(fs, Append(bounds, Last(fs).at))
<1>1. PICK e \in Int : e = Last(fs).at /\ First(fs) <= e /\ First(fs) \in Int
  BY EndsAreTyped
<1>2. PICK t : t = Append(bounds, e)
  OBVIOUS
<1>3. bounds \in Seq(Int) /\ Len(bounds) >= 1 /\ bounds[1] = First(fs)
  BY DEF SomeCuts
<1>4. /\ t \in Seq(Int) /\ Len(t) = Len(bounds) + 1 /\ Len(bounds) \in Nat
      /\ \A k \in 1 .. Len(bounds) : t[k] = bounds[k]
      /\ t[Len(t)] = e
      /\ \A k \in 1 .. Len(t) : k \in 1 .. Len(bounds) \/ k = Len(t)
  BY <1>2, <1>3, AppendFacts
<1>5. 1 \in 1 .. Len(bounds) /\ t[1] = First(fs) /\ Len(t) >= 2
  BY <1>3, <1>4
<1>6. ASSUME NEW j \in 1 .. Len(t), NEW k \in 1 .. Len(t), j < k
      PROVE  t[j] <= t[k] /\ (j > 1 => t[j] < t[k])
  <2>1. j \in 1 .. Len(bounds) /\ t[j] = bounds[j] /\ bounds[j] \in Int
    BY <1>3, <1>4, <1>6
  <2>2. CASE k \in 1 .. Len(bounds)
    <3>1. t[k] = bounds[k] /\ bounds[k] \in Int /\ bounds[j] < bounds[k]
      BY <1>3, <1>4, <1>6, <2>1, <2>2 DEF SomeCuts
    <3>2. QED
      BY <2>1, <3>1
  <2>3. CASE k = Len(t)
    <3>1. t[k] = e
      BY <1>4, <2>3
    <3>2. CASE j = 1
      BY <1>1, <1>5, <3>1, <3>2
    <3>3. CASE j # 1
      <4>1. j \in 2 .. Len(bounds)
        BY <1>4, <2>1, <3>3
      <4>2. bounds[j] < e
        BY <1>1, <4>1 DEF SomeCuts
      <4>3. QED
        BY <1>1, <2>1, <3>1, <4>2
    <3>4. QED
      BY <3>2, <3>3
  <2>4. QED
    BY <1>4, <2>2, <2>3
<1>7. Cuts(fs, t)
  BY <1>1, <1>4, <1>5, <1>6 DEF Cuts
<1>8. QED
  BY <1>1, <1>2, <1>7

\* A later boundary before the end may be added.
LEMMA CutsGrow ==
  ASSUME NEW fs, InTime(fs), fs # <<>>, NEW bounds, SomeCuts(fs, bounds), NEW t \in Int,
         Last(bounds) < t, t < Last(fs).at
  PROVE  SomeCuts(fs, Append(bounds, t)) /\ Last(Append(bounds, t)) = t
         /\ Len(Append(bounds, t)) = Len(bounds) + 1
<1>1. PICK u : u = Append(bounds, t)
  OBVIOUS
<1>2. bounds \in Seq(Int) /\ Len(bounds) >= 1 /\ bounds[1] = First(fs) /\ bounds[Len(bounds)] < t
  BY DEF SomeCuts, Last
<1>3. /\ u \in Seq(Int) /\ Len(u) = Len(bounds) + 1 /\ Len(bounds) \in Nat
      /\ \A k \in 1 .. Len(bounds) : u[k] = bounds[k]
      /\ u[Len(u)] = t
      /\ \A k \in 1 .. Len(u) : k \in 1 .. Len(bounds) \/ k = Len(u)
  BY <1>1, <1>2, AppendFacts
<1>4. \A k \in 1 .. Len(bounds) : bounds[k] \in Int /\ bounds[k] < t
  <2>1. ASSUME NEW k \in 1 .. Len(bounds) PROVE bounds[k] \in Int /\ bounds[k] < t
    <3>1. bounds[k] \in Int /\ Len(bounds) \in 1 .. Len(bounds) /\ bounds[Len(bounds)] \in Int
      BY <1>2, <1>3
    <3>2. CASE k = Len(bounds)
      BY <1>2, <3>1, <3>2
    <3>3. CASE k # Len(bounds)
      <4>1. k < Len(bounds)
        BY <1>3, <3>3
      <4>2. bounds[k] < bounds[Len(bounds)]
        BY <3>1, <4>1 DEF SomeCuts
      <4>3. QED
        BY <1>2, <3>1, <4>2
    <3>4. QED
      BY <3>2, <3>3
  <2>2. QED
    BY <2>1
<1>5. ASSUME NEW j \in 1 .. Len(u), NEW k \in 1 .. Len(u), j < k PROVE u[j] < u[k]
  <2>1. j \in 1 .. Len(bounds) /\ u[j] = bounds[j]
    BY <1>3, <1>5
  <2>2. CASE k \in 1 .. Len(bounds)
    BY <1>3, <1>5, <2>1, <2>2 DEF SomeCuts
  <2>3. CASE k = Len(u)
    BY <1>3, <1>4, <2>1, <2>3
  <2>4. QED
    BY <1>3, <2>2, <2>3
<1>6. ASSUME NEW j \in 2 .. Len(u) PROVE u[j] < Last(fs).at
  <2>1. CASE j = Len(u)
    BY <1>3, <2>1
  <2>2. CASE j # Len(u)
    <3>1. j \in 2 .. Len(bounds) /\ j \in 1 .. Len(bounds)
      BY <1>3, <2>2
    <3>2. QED
      BY <1>3, <3>1 DEF SomeCuts
  <2>3. QED
    BY <2>1, <2>2
<1>7. 1 \in 1 .. Len(bounds)
  BY <1>2, <1>3
<1>8. SomeCuts(fs, u) /\ Last(u) = t
  BY <1>2, <1>3, <1>5, <1>6, <1>7 DEF SomeCuts, Last
<1>9. QED
  BY <1>1, <1>3, <1>8

\* Numbers are ordered by size.
LEMMA NumbersOrdered ==
  ASSUME NEW S \in SUBSET Nat, NEW R, R = {p \in S \X S : p[1] < p[2]}
  PROVE  TotalOrder(S, R) /\ \A i, j \in S : <<i, j>> \in R <=> i < j
<1>1. \A i, j \in S : <<i, j>> \in R <=> i < j
  OBVIOUS
<1>2. \A i \in S : i \in Nat
  OBVIOUS
<1>3. TotalOrder(S, R)
  BY <1>1, <1>2 DEF TotalOrder
<1>4. QED
  BY <1>1, <1>3

\* By size.
BySize(S) ==
  [k \in 1 .. Cardinality(S) |-> CHOOSE x \in S : Cardinality({y \in S : y < x}) = k - 1]

\* A finite set of numbers, sorted.
LEMMA NumbersSorted ==
  ASSUME NEW S \in SUBSET Nat, IsFiniteSet(S)
  PROVE  /\ BySize(S) \in Seq(S) /\ Len(BySize(S)) = Cardinality(S)
         /\ \A j, k \in 1 .. Len(BySize(S)) : j < k => BySize(S)[j] < BySize(S)[k]
         /\ \A x \in S : \E k \in 1 .. Len(BySize(S)) : BySize(S)[k] = x
<1>1. PICK R : R = {p \in S \X S : p[1] < p[2]}
  OBVIOUS
<1>2. TotalOrder(S, R) /\ \A i, j \in S : <<i, j>> \in R <=> i < j
  BY <1>1, NumbersOrdered
<1>3. PICK q : q = BySize(S)
  OBVIOUS
<1>5. Arranged(q, S, R)
  <2>1. ASSUME NEW x \in S PROVE Cardinality({y \in S : y < x}) = Rank(S, R, x)
    <3>1. {y \in S : y < x} = {y \in S : <<y, x>> \in R}
      BY <1>2
    <3>2. QED
      BY <3>1 DEF Rank
  <2>2. q = [k \in 1 .. Cardinality(S) |-> CHOOSE x \in S : Cardinality({y \in S : y < x}) = k - 1]
    BY <1>3 DEF BySize
  <2>3. \A k \in 1 .. Cardinality(S) : \E x \in S : Rank(S, R, x) = k - 1
    BY <1>2, PlacesExist
  <2>4. \A k \in 1 .. Cardinality(S) : q[k] \in S /\ Rank(S, R, q[k]) = k - 1
    BY <2>1, <2>2, <2>3
  <2>5. QED
    BY <2>2, <2>4 DEF Arranged
<1>6. InOrder(q, S, R)
  BY <1>2, <1>5, ArrangedIsInOrder
<1>7. q \in Seq(S) /\ \A k \in 1 .. Len(q) : q[k] \in S
  <2>1. q \in Seq(S)
    BY <1>6 DEF InOrder
  <2>2. QED
    BY <2>1
<1>8. QED
  BY <1>2, <1>3, <1>6, <1>7 DEF InOrder

BuyClusters(fs, B) == Runs(B, LAMBDA i, j : fs[j].at - fs[i].at <= 12000)

\* A buy phase begins and ends with a frame that shows it.
LEMMA ClustersAreFrames ==
  ASSUME NEW fs, NEW B, NEW c \in BuyClusters(fs, B)
  PROVE  c[1] \in B /\ c[2] \in B
BY DEF BuyClusters, Runs

Starts(fs) ==
  {fs[c[1]].at :
     c \in {c \in BuyClusters(fs, {i \in DOMAIN fs : fs[i].buy >= 90 /\ fs[i].hud >= 24}) :
              c[1] < c[2] \/ fs[c[1]].buy >= 95}}

\* The anchors are the starts of the buy phases, sorted.
LEMMA AnchorsAreStarts ==
  ASSUME NEW fs
  PROVE  Anchors(fs) = BySize(Starts(fs))
BY DEF Anchors, BuyClusters, Starts, Sorted, BySize

\* A sequence is one over any larger set, too.
LEMMA WiderSeq ==
  ASSUME NEW S, NEW T, S \in SUBSET T, NEW q \in Seq(S)
  PROVE  q \in Seq(T)
OBVIOUS

\* Anchors are times.
LEMMA AnchorsTyped ==
  ASSUME NEW fs, InTime(fs)
  PROVE  Anchors(fs) \in Seq(Int)
<1>1. Len(fs) \in Nat /\ DOMAIN fs = 1 .. Len(fs) /\ \A i \in DOMAIN fs : fs[i].at \in Nat
  BY FrameFacts
<1>2. PICK ats : ats = [i \in 1 .. Len(fs) |-> fs[i].at]
  OBVIOUS
<1>3. ats \in Seq(Nat) /\ Len(ats) = Len(fs) /\ \A i \in 1 .. Len(fs) : ats[i] = fs[i].at
  BY <1>1, <1>2
<1>4. IsFiniteSet(Members(ats)) /\ Members(ats) \in SUBSET Nat
  <2>1. IsFiniteSet(Members(ats))
    BY <1>3, MembersAreFinite
  <2>2. QED
    BY <1>3, <2>1 DEF Members
<1>5. PICK S : S = Starts(fs)
  OBVIOUS
<1>a. Anchors(fs) = BySize(S)
  BY <1>5, AnchorsAreStarts
<1>b. S \in SUBSET Members(ats)
  <2>1. PICK B : B = {i \in DOMAIN fs : fs[i].buy >= 90 /\ fs[i].hud >= 24}
    OBVIOUS
  <2>2. PICK C : C = {c \in BuyClusters(fs, B) : c[1] < c[2] \/ fs[c[1]].buy >= 95}
    OBVIOUS
  <2>3. S = {fs[c[1]].at : c \in C}
    BY <1>5, <2>1, <2>2 DEF Starts
  <2>4. ASSUME NEW c \in C PROVE fs[c[1]].at \in Members(ats)
    <3>1. c[1] \in B
      BY <2>2, ClustersAreFrames
    <3>2. c[1] \in 1 .. Len(fs)
      BY <1>1, <2>1, <3>1
    <3>3. QED
      BY <1>3, <3>2 DEF Members
  <2>5. QED
    BY <2>3, <2>4
<1>6. S \in SUBSET Nat /\ IsFiniteSet(S)
  BY <1>4, <1>b, FS_Subset
<1>7. Anchors(fs) \in Seq(S)
  BY <1>a, <1>6, NumbersSorted
<1>8. S \in SUBSET Int
  BY <1>6
<1>9. QED
  BY <1>7, <1>8, WiderSeq

\* The boundaries once an anchor has been considered.
AnchorAdded(fs, bounds, t) ==
  IF t - First(fs) <= 12000 \/ t - Last(bounds) < 35000 \/ Last(fs).at - t < 20000
    THEN bounds ELSE Append(bounds, t)

\* The anchored boundaries as a fold over the anchors.
LEMMA AnchoredIsFold ==
  ASSUME NEW fs
  PROVE  AnchoredBoundaries(fs) =
           Append((CHOOSE g : g = [s \in SUBSET DOMAIN Anchors(fs) |->
                     IF s = {} THEN <<First(fs)>>
                     ELSE AnchorAdded(fs, g[s \ {Max(s)}], Anchors(fs)[Max(s)])])[DOMAIN Anchors(fs)],
                  Last(fs).at)
BY DEF AnchoredBoundaries, FoldLeft, MapThenFoldSet, AnchorAdded

\* The start of the recording is the first boundary.
LEMMA StartCut ==
  ASSUME NEW fs, InTime(fs), fs # <<>>
  PROVE  SomeCuts(fs, <<First(fs)>>) /\ Last(<<First(fs)>>) = First(fs)
<1>1. PICK f \in Int : f = First(fs)
  BY EndsAreTyped
<1>2. <<f>> \in Seq(Int) /\ Len(<<f>>) = 1 /\ <<f>>[1] = f
  OBVIOUS
<1>3. QED
  BY <1>1, <1>2 DEF SomeCuts, Last

\* The anchored boundaries lie in the recording, each after the one before.
LEMMA AnchoredCuts ==
  ASSUME NEW fs, InTime(fs), fs # <<>>
  PROVE  Cuts(fs, AnchoredBoundaries(fs))
<1> DEFINE n == Len(Anchors(fs))
           D == 1 .. n
           A == {b \in Seq(Int) : SomeCuts(fs, b)}
           Next1(b, x) == AnchorAdded(fs, b, Anchors(fs)[x])
           Fold(g) == g = [s \in SUBSET D |->
                            IF s = {} THEN <<First(fs)>> ELSE Next1(g[s \ {Max(s)}], Max(s))]
<1>1. n \in Nat /\ DOMAIN Anchors(fs) = D /\ \A k \in D : Anchors(fs)[k] \in Int
  BY AnchorsTyped
<1>2. D \in SUBSET Nat /\ IsFiniteSet(D)
  BY <1>1, FS_Interval
<1>3. <<First(fs)>> \in A
  BY StartCut DEF SomeCuts
<1>4. ASSUME NEW b \in A, NEW x \in D PROVE Next1(b, x) \in A
  <2>1. PICK t \in Int : t = Anchors(fs)[x]
    BY <1>1
  <2>2. SomeCuts(fs, b)
    OBVIOUS
  <2>3. Last(fs).at \in Int
    BY EndsAreTyped
  <2>4. Last(b) \in Int
    BY <2>2 DEF SomeCuts, Last
  <2>5. CASE t - First(fs) <= 12000 \/ t - Last(b) < 35000 \/ Last(fs).at - t < 20000
    BY <2>1, <2>5 DEF AnchorAdded
  <2>6. CASE ~(t - First(fs) <= 12000 \/ t - Last(b) < 35000 \/ Last(fs).at - t < 20000)
    <3>1. Last(b) < t /\ t < Last(fs).at
      BY <2>3, <2>4, <2>6
    <3>2. SomeCuts(fs, Append(b, t))
      BY <2>2, <3>1, CutsGrow
    <3>3. Next1(b, x) = Append(b, t)
      BY <2>1, <2>6 DEF AnchorAdded
    <3>4. QED
      BY <3>2, <3>3 DEF SomeCuts
  <2>7. QED
    BY <2>5, <2>6
<1>5. PICK step : step = [p \in A \X D |-> Next1(p[1], p[2])]
  OBVIOUS
<1>6. step \in [A \X D -> A] /\ \A b \in A : \A x \in D : step[<<b, x>>] = Next1(b, x)
  BY <1>4, <1>5
<1>h. \A b \in A : SomeCuts(fs, b)
  OBVIOUS
<1> HIDE DEF Next1, A, n
<1>7. \E g : Fold(g)
  <2>1. PICK g \in [SUBSET D -> A] : Folds(g, D, <<First(fs)>>, step)
    BY <1>2, <1>3, <1>6, FoldExists
  <2>2. ASSUME NEW s \in SUBSET D, s # {}
        PROVE  step[<<g[s \ {Max(s)}], Max(s)>>] = Next1(g[s \ {Max(s)}], Max(s))
    <3>1. g[s \ {Max(s)}] \in A /\ Max(s) \in D
      BY <1>1, <2>2, FoldSteps
    <3>2. QED
      BY <1>6, <3>1
  <2>3. Fold(g)
    BY <2>1, <2>2 DEF Folds
  <2>4. QED
    BY <2>3
<1>8. PICK g : g = CHOOSE h : Fold(h)
  OBVIOUS
<1>9. Fold(g)
  BY <1>7, <1>8
<1>10. AnchoredBoundaries(fs) = Append(g[D], Last(fs).at)
  BY <1>1, <1>8, AnchoredIsFold DEF Next1
<1>11. PICK v : v = [s \in SUBSET D |-> Next1(g[s \ {Max(s)}], Max(s))]
  OBVIOUS
<1>12. FoldOf(g, n, <<First(fs)>>, v) /\ StepTyped(n, A, step)
  BY <1>6, <1>9, <1>11 DEF FoldOf, StepTyped
<1>13. ASSUME NEW k \in D, g[1 .. k - 1] \in A PROVE v[1 .. k] = step[<<g[1 .. k - 1], k>>]
  <2>1. Max(1 .. k) = k /\ (1 .. k) \ {k} = 1 .. k - 1 /\ 1 .. k \in SUBSET D
    BY <1>1, PrefixFacts
  <2>2. v[1 .. k] = Next1(g[1 .. k - 1], k)
    BY <1>11, <2>1
  <2>3. QED
    BY <1>6, <1>13, <2>2
<1>14. PICK acc : Runs1(acc, n, A, <<First(fs)>>, step) /\ acc[n] = g[D]
  BY <1>1, <1>3, <1>12, <1>13, FoldRuns
<1>15. n \in 0 .. n
  BY <1>1
<1>16. g[D] \in A
  BY <1>14, <1>15 DEF Runs1
<1>17. QED
  BY <1>10, <1>16, <1>h, CutsEnd

\* There are 1 to 26 rounds, more than one only in a long recording.
LEMMA CountFacts ==
  ASSUME NEW length \in Nat
  PROVE  /\ EstimateRoundCount(length) \in Nat
         /\ EstimateRoundCount(length) >= 1 /\ EstimateRoundCount(length) <= 26
         /\ EstimateRoundCount(length) > 1 => length >= 95000
<1>1. CASE length < 180000
  BY <1>1 DEF EstimateRoundCount
<1>2. CASE length >= 180000
  <2>1. PICK x \in Int : x = (2 * length + 105000) \div 210000
    OBVIOUS
  <2>2. PICK y \in Int : y = Max({2, x}) /\ y >= 2
    <3>1. 2 \in Int
      OBVIOUS
    <3>2. Max({2, x}) \in {2, x} /\ Max({2, x}) >= 2
      BY <2>1, <3>1, PairFacts
    <3>3. QED
      BY <2>1, <3>1, <3>2
  <2>3. PICK z \in Int : z = Min({26, y}) /\ z \in {26, y} /\ z <= 26
    <3>1. 26 \in Int
      OBVIOUS
    <3>2. Min({26, y}) \in {26, y} /\ Min({26, y}) <= 26
      BY <2>2, <3>1, PairFacts
    <3>3. QED
      BY <2>2, <3>2
  <2>4. EstimateRoundCount(length) = z
    BY <1>2, <2>1, <2>2, <2>3 DEF EstimateRoundCount
  <2>5. QED
    BY <1>2, <2>2, <2>3, <2>4
<1>3. QED
  BY <1>1, <1>2

\* Quotients add up to no more than that of the sum.
LEMMA Quotients ==
  ASSUME NEW x \in Nat, NEW y \in Nat, NEW c \in Nat, c >= 1
  PROVE  /\ x \div c \in Nat
         /\ x \div c + y \div c <= (x + y) \div c
         /\ (x * c) \div c = x
OBVIOUS

\* An estimated round is not empty.
LEMMA LongRounds ==
  ASSUME NEW length \in Nat, NEW c \in Nat, c >= 1, c <= 26, length >= 95000
  PROVE  length \div c >= 3
<1>1. PICK q : q = length \div c
  OBVIOUS
<1>2. q \in Nat /\ length < c * q + c
  BY <1>1
<1>3. ASSUME q < 3 PROVE FALSE
  <2>1. q = 0 \/ q = 1 \/ q = 2
    BY <1>2, <1>3
  <2>2. QED
    BY <1>2, <2>1
<1>4. QED
  BY <1>1, <1>2, <1>3

\* The length of a round when there are count of them.
Cadence(fs, count) == Length(fs) \div count

\* Where the k-th of count boundaries is aimed at.
Target(fs, count, k) == First(fs) + (Length(fs) * k) \div count

\* Consecutive targets are a round's length apart, from the start to the end.
LEMMA TargetsGrow ==
  ASSUME NEW fs, InTime(fs), fs # <<>>, NEW count \in Nat, count >= 1, count <= 26, NEW k \in 1 .. count
  PROVE  /\ Target(fs, count, k) \in Int /\ Target(fs, count, k - 1) \in Int
         /\ Target(fs, count, k - 1) + Cadence(fs, count) <= Target(fs, count, k)
         /\ Target(fs, count, 0) = First(fs) /\ Target(fs, count, count) = Last(fs).at
<1>1. PICK L \in Nat : L = Length(fs) /\ First(fs) \in Nat /\ Last(fs).at = First(fs) + L
  BY EndsAreTyped
<1>2. count \in Nat /\ count >= 1 /\ k \in Nat /\ k - 1 \in Nat
  OBVIOUS
<1>3. L * (k - 1) \in Nat /\ L * k \in Nat /\ L * k = L * (k - 1) + L
  <2>1. L * (k - 1) \in Nat /\ L * k \in Nat
    BY <1>2, TimesGrow
  <2>2. L * k = L * (k - 1) + L
    BY <1>2
  <2>3. QED
    BY <2>1, <2>2
<1>4. /\ (L * (k - 1)) \div count + L \div count <= (L * k) \div count
      /\ (L * (k - 1)) \div count \in Nat /\ (L * k) \div count \in Nat /\ L \div count \in Nat
  BY <1>2, <1>3, Quotients
<1>5. (L * 0) \div count = 0 /\ (L * count) \div count = L
  <2>1. L * 0 = 0 /\ 0 \div count = 0
    BY <1>2
  <2>2. (L * count) \div count = L
    BY <1>2, Quotients
  <2>3. QED
    BY <2>1, <2>2
<1>6. PICK F \in Nat : F = First(fs)
  BY <1>1
<1>7. PICK a \in Nat : a = (L * (k - 1)) \div count
  BY <1>4
<1>8. PICK b \in Nat : b = (L * k) \div count
  BY <1>4
<1>9. PICK d \in Nat : d = L \div count
  BY <1>4
<1>10. a + d <= b
  BY <1>4, <1>7, <1>8, <1>9
<1>11. Target(fs, count, k - 1) = F + a
  BY <1>1, <1>6, <1>7 DEF Target
<1>12. Target(fs, count, k) = F + b
  BY <1>1, <1>6, <1>8 DEF Target
<1>13. Target(fs, count, 0) = F + 0
  BY <1>1, <1>5, <1>6 DEF Target
<1>14. Target(fs, count, count) = F + L
  BY <1>1, <1>5, <1>6 DEF Target
<1>15. Cadence(fs, count) = d
  BY <1>1, <1>9 DEF Cadence
<1>16. Target(fs, count, k) \in Int /\ Target(fs, count, k - 1) \in Int
  BY <1>11, <1>12
<1>17. Target(fs, count, k - 1) + Cadence(fs, count) <= Target(fs, count, k)
  BY <1>10, <1>11, <1>12, <1>15
<1>18. Target(fs, count, 0) = First(fs)
  BY <1>6, <1>13
<1>19. Target(fs, count, count) = Last(fs).at
  BY <1>1, <1>6, <1>14
<1>20. QED
  BY <1>16, <1>17, <1>18, <1>19

\* A score is a number.
LEMMA ClampTyped ==
  ASSUME NEW score \in Int
  PROVE  Clamp(score) \in Int
<1>1. PICK m : m = Min({10000, score})
  OBVIOUS
<1>2. m \in Int
  <2>1. 10000 \in Int
    OBVIOUS
  <2>2. Min({10000, score}) \in {10000, score}
    BY <2>1, PairFacts
  <2>3. QED
    BY <1>1, <2>2
<1>3. 0 \in Int
  OBVIOUS
<1>4. Max({0, m}) \in {0, m}
  BY <1>2, <1>3, PairFacts
<1>5. QED
  BY <1>1, <1>2, <1>4 DEF Clamp

\* How calm a frame is, is a number.
LEMMA CalmTyped ==
  ASSUME NEW f \in Frame
  PROVE  Calm(f) \in Int
<1>1. f.combat \in Nat /\ f.motion \in Nat
  BY SignalsTyped
<1>2. PICK quiet : quiet = Clamp(10000 - 62 * f.combat - 38 * f.motion)
  OBVIOUS
<1>3. 10000 - 62 * f.combat - 38 * f.motion \in Int
  BY <1>1
<1>4. quiet \in Int
  BY <1>2, <1>3, ClampTyped
<1>5. quiet + 800 \in Int /\ quiet + 300 \in Int /\ quiet - 1200 \in Int
  BY <1>4
<1>6. Clamp(quiet + 800) \in Int /\ Clamp(quiet + 300) \in Int /\ Clamp(quiet - 1200) \in Int
  BY <1>5, ClampTyped
<1>7. Calm(f) \in {Clamp(quiet + 800), Clamp(quiet + 300), Clamp(quiet - 1200), quiet}
  BY <1>2 DEF Calm
<1>8. QED
  BY <1>4, <1>6, <1>7

\* The calm near a target lies within the radius.
LEMMA SnapFacts ==
  ASSUME NEW fs, InTime(fs), NEW target \in Int, NEW radius \in Nat
  PROVE  /\ Snap(fs, target, radius) \in Int
         /\ Snap(fs, target, radius) <= target + radius
<1>1. Len(fs) \in Nat /\ DOMAIN fs = 1 .. Len(fs) /\ \A i \in DOMAIN fs : fs[i] \in Frame /\ fs[i].at \in Nat
  BY FrameFacts
<1>2. PICK S : S = {i \in DOMAIN fs : target - radius <= fs[i].at /\ fs[i].at <= target + radius}
  OBVIOUS
<1>3. CASE S = {}
  BY <1>2, <1>3 DEF Snap
<1>4. CASE S # {}
  <2>1. IsFiniteSet(S) /\ S \in SUBSET Int
    <3>1. IsFiniteSet(1 .. Len(fs))
      BY <1>1, FS_Interval
    <3>2. S \in SUBSET (1 .. Len(fs))
      BY <1>1, <1>2
    <3>3. IsFiniteSet(S)
      BY <3>1, <3>2, FS_Subset
    <3>4. QED
      BY <3>2, <3>3
  <2>2. PICK value : value = [i \in S |-> Calm(fs[i])]
    OBVIOUS
  <2>3. \A i \in S : value[i] \in Int /\ value[i] = Calm(fs[i])
    BY <1>1, <1>2, <2>2, CalmTyped
  <2>4. Min({i \in S : \A j \in S : value[j] <= value[i]}) \in S
    BY <1>4, <2>1, <2>3, BestFacts
  <2>5. {i \in S : \A j \in S : value[j] <= value[i]} = {i \in S : \A j \in S : Calm(fs[j]) <= Calm(fs[i])}
    BY <2>3
  <2>6. PICK b : b = BestOf(S, LAMBDA i : Calm(fs[i]))
    OBVIOUS
  <2>7. b \in S
    BY <2>4, <2>5, <2>6 DEF BestOf
  <2>8. Snap(fs, target, radius) = fs[b].at
    BY <1>2, <1>4, <2>6 DEF Snap
  <2>9. b \in DOMAIN fs /\ fs[b].at <= target + radius
    BY <1>2, <2>7
  <2>10. QED
    BY <1>1, <2>8, <2>9
<1>5. QED
  BY <1>3, <1>4

\* No target is after the end.
LEMMA TargetsBelow ==
  ASSUME NEW fs, InTime(fs), fs # <<>>, NEW count \in Nat, count >= 1, count <= 26, NEW k \in 1 .. count
  PROVE  Target(fs, count, k) \in Int /\ Target(fs, count, k) <= Last(fs).at
<1>1. PICK L \in Nat : L = Length(fs) /\ First(fs) \in Nat /\ Last(fs).at = First(fs) + L
  BY EndsAreTyped
<1>2. count \in Nat /\ count >= 1 /\ k \in Nat /\ k <= count
  OBVIOUS
<1>3. PICK x \in Nat : x = L * k
  BY <1>2, TimesGrow
<1>4. PICK y \in Nat : L * count = x + y
  <2>1. L * count \in Nat /\ L * k <= L * count
    BY <1>2, TimesGrow
  <2>2. L * count - x \in Nat
    BY <1>3, <2>1
  <2>3. QED
    BY <1>3, <2>1, <2>2
<1>5. PICK a \in Nat : a = x \div count
  BY <1>2, <1>3, Quotients
<1>6. y \div count \in Nat /\ a + y \div count <= (x + y) \div count
  BY <1>2, <1>3, <1>4, <1>5, Quotients
<1>7. (x + y) \div count = L
  BY <1>2, <1>4, Quotients
<1>8. a <= L
  BY <1>5, <1>6, <1>7
<1>9. Target(fs, count, k) = First(fs) + a
  BY <1>1, <1>3, <1>5 DEF Target
<1>10. QED
  BY <1>1, <1>5, <1>8, <1>9

\* The k-th boundary aimed at the calm near its target, but not too close to its
\* neighbours.
EstimateAdded(fs, count, bounds, k) ==
  LET cadence == Cadence(fs, count)
      snapped == Snap(fs, Target(fs, count, k), Min({22000, (24 * cadence) \div 100}))
      low == Last(bounds) + Min({45000, (55 * cadence) \div 100})
      high == Last(fs).at - Min({30000, (38 * cadence) \div 100})
  IN  Append(bounds, IF snapped < low \/ snapped > high THEN Target(fs, count, k) ELSE snapped)

UpTo(n) == [k \in 1 .. n |-> k]

\* The k-th estimated boundary is aimed at the k-th of as many rounds.
Aims(fs) == UpTo(EstimateRoundCount(Length(fs)) - 1)

EstimateNext(fs, bounds, k) == EstimateAdded(fs, EstimateRoundCount(Length(fs)), bounds, k)

\* The estimated boundaries as a fold over the targets.
LEMMA EstimatedIsFold ==
  ASSUME NEW fs
  PROVE  EstimatedBoundaries(fs) =
           Append((CHOOSE g : g = [s \in SUBSET DOMAIN Aims(fs) |->
                     IF s = {} THEN <<First(fs)>>
                     ELSE EstimateNext(fs, g[s \ {Max(s)}], Aims(fs)[Max(s)])])[DOMAIN Aims(fs)],
                  Last(fs).at)
BY DEF EstimatedBoundaries, FoldLeft, MapThenFoldSet, EstimateAdded, Target, UpTo, Cadence, Aims, EstimateNext

\* A share of the cadence, at most so many milliseconds.
LEMMA ShareFacts ==
  ASSUME NEW cadence \in Nat, NEW q \in Nat, q < cadence, NEW most \in Nat, most >= 1
  PROVE  /\ Min({most, q}) \in Nat /\ Min({most, q}) < cadence
         /\ q >= 1 => Min({most, q}) >= 1
<1>1. most \in Int /\ q \in Int
  OBVIOUS
<1>2. Min({most, q}) \in {most, q} /\ Min({most, q}) <= q
  BY <1>1, PairFacts
<1>3. QED
  BY <1>2

\* The length of a round is a number; of more than one, not zero.
LEMMA CadenceTyped ==
  ASSUME NEW fs, InTime(fs), fs # <<>>, NEW count \in Nat, count >= 1, count <= 26
  PROVE  /\ Cadence(fs, count) \in Nat
         /\ Length(fs) >= 95000 => Cadence(fs, count) >= 3
<1>1. PICK L \in Nat : L = Length(fs)
  BY EndsAreTyped
<1>2. L \div count \in Nat
  OBVIOUS
<1>3. L >= 95000 => L \div count >= 3
  BY LongRounds
<1>4. QED
  BY <1>1, <1>2, <1>3 DEF Cadence

\* How far from its target an estimated boundary may end up.
Reach(fs, count) == Min({22000, (24 * Cadence(fs, count)) \div 100})

\* The reach is a number.
LEMMA ReachTyped ==
  ASSUME NEW fs, InTime(fs), fs # <<>>, NEW count \in Nat, count >= 1, count <= 26
  PROVE  Reach(fs, count) \in Nat
<1>1. PICK c \in Nat : c = Cadence(fs, count)
  <2>1. Cadence(fs, count) \in Nat
    BY CadenceTyped
  <2>2. QED
    BY <2>1
<1>2. PICK q \in Nat : q = (24 * c) \div 100
  OBVIOUS
<1>3. PICK most \in Int : most = 22000
  OBVIOUS
<1>i. most \in Int /\ q \in Int
  OBVIOUS
<1>4. Min({most, q}) \in {most, q}
  BY <1>i, PairFacts
<1>5. Reach(fs, count) = Min({22000, q})
  BY <1>1, <1>2 DEF Reach
<1>6. QED
  BY <1>3, <1>4, <1>5

\* An estimated boundary is a time.
LEMMA EstimateTyped ==
  ASSUME NEW fs, InTime(fs), fs # <<>>, NEW count \in Nat, count >= 1, count <= 26, NEW k \in 1 .. count, NEW bounds \in Seq(Int)
  PROVE  EstimateAdded(fs, count, bounds, k) \in Seq(Int)
<1>a. Target(fs, count, k) \in Int /\ Reach(fs, count) \in Nat
  BY TargetsBelow, ReachTyped
<1>1. PICK b \in Int : b = Target(fs, count, k)
  BY <1>a
<1>2. PICK R \in Nat : R = Reach(fs, count)
  BY <1>a
<1>b. Snap(fs, b, R) \in Int
  BY SnapFacts
<1>3. PICK s \in Int : s = Snap(fs, b, R)
  BY <1>b
<1>4. EstimateAdded(fs, count, bounds, k) = Append(bounds, b) \/ EstimateAdded(fs, count, bounds, k) = Append(bounds, s)
  BY <1>1, <1>2, <1>3 DEF EstimateAdded, Reach
<1>5. Append(bounds, b) \in Seq(Int) /\ Append(bounds, s) \in Seq(Int)
  OBVIOUS
<1>6. QED
  BY <1>4, <1>5

\* A boundary that keeps its distance from both neighbours fits between them.
LEMMA SnapFits ==
  ASSUME NEW a \in Int, NEW b \in Int, NEW E \in Int, NEW last \in Int, NEW s \in Int, NEW t \in Int,
         NEW cadence \in Nat, NEW R \in Nat, NEW l \in Nat, NEW h \in Nat,
         R < cadence, l >= 1, h >= 1, a + cadence <= b, b + cadence <= E,
         last <= a + R, s <= b + R, t = IF s < last + l \/ s > E - h THEN b ELSE s
  PROVE  last < t /\ t < E /\ t <= b + R
<1>1. last < b /\ b < E /\ b <= b + R
  OBVIOUS
<1>2. CASE s < last + l \/ s > E - h
  BY <1>1, <1>2
<1>3. CASE ~(s < last + l \/ s > E - h)
  <2>1. t = s /\ s >= last + l /\ s <= E - h
    BY <1>3
  <2>2. last < s /\ s < E
    BY <2>1
  <2>3. QED
    BY <2>1, <2>2
<1>4. QED
  BY <1>2, <1>3

\* One estimated boundary more.
LEMMA EstimateGrows ==
  ASSUME NEW fs, InTime(fs), fs # <<>>, NEW count \in Nat, count >= 1, count <= 26, count > 1 => Length(fs) >= 95000,
         NEW k \in 1 .. count - 1, NEW bounds, SomeCuts(fs, bounds),
         Last(bounds) <= Target(fs, count, k - 1) + Reach(fs, count)
  PROVE  /\ SomeCuts(fs, EstimateAdded(fs, count, bounds, k))
         /\ Last(EstimateAdded(fs, count, bounds, k)) <= Target(fs, count, k) + Reach(fs, count)
<1>1. /\ count \in Nat /\ count >= 1 /\ count > 1 /\ k \in 1 .. count /\ k + 1 \in 1 .. count
      /\ Length(fs) >= 95000
  OBVIOUS
<1>t. /\ Last(fs).at \in Int
      /\ Target(fs, count, k - 1) \in Int /\ Target(fs, count, k) \in Int
      /\ Target(fs, count, k - 1) + Cadence(fs, count) <= Target(fs, count, k)
  <2>1. Last(fs).at \in Nat
    BY EndsAreTyped
  <2>2. /\ Target(fs, count, k) \in Int /\ Target(fs, count, k - 1) \in Int
        /\ Target(fs, count, k - 1) + Cadence(fs, count) <= Target(fs, count, k)
    BY <1>1, TargetsGrow
  <2>3. QED
    BY <2>1, <2>2
<1>2. Cadence(fs, count) \in Nat /\ Cadence(fs, count) >= 3
  BY <1>1, CadenceTyped
<1>3. PICK cadence \in Nat : cadence = Cadence(fs, count) /\ cadence >= 3
  BY <1>2
<1>4. PICK R \in Nat : R = Reach(fs, count) /\ R < cadence
  <2>1. PICK q \in Nat : q = (24 * cadence) \div 100 /\ q < cadence
    BY <1>3
  <2>2. 22000 \in Nat /\ 22000 >= 1
    OBVIOUS
  <2>3. Min({22000, q}) \in Nat /\ Min({22000, q}) < cadence
    BY <2>1, <2>2, ShareFacts
  <2>4. Reach(fs, count) = Min({22000, q})
    BY <1>3, <2>1 DEF Reach
  <2>5. QED
    BY <2>3, <2>4
<1>5. PICK l \in Nat : l = Min({45000, (55 * cadence) \div 100}) /\ l >= 1
  <2>1. PICK q \in Nat : q = (55 * cadence) \div 100 /\ q < cadence /\ q >= 1
    BY <1>3
  <2>2. 45000 \in Nat /\ 45000 >= 1
    OBVIOUS
  <2>3. Min({45000, q}) \in Nat /\ Min({45000, q}) < cadence /\ Min({45000, q}) >= 1
    BY <2>1, <2>2, ShareFacts
  <2>4. Min({45000, (55 * cadence) \div 100}) = Min({45000, q})
    BY <1>3, <2>1
  <2>5. QED
    BY <2>3, <2>4
<1>6. PICK h \in Nat : h = Min({30000, (38 * cadence) \div 100}) /\ h >= 1
  <2>1. PICK q \in Nat : q = (38 * cadence) \div 100 /\ q < cadence /\ q >= 1
    BY <1>3
  <2>2. 30000 \in Nat /\ 30000 >= 1
    OBVIOUS
  <2>3. Min({30000, q}) \in Nat /\ Min({30000, q}) < cadence /\ Min({30000, q}) >= 1
    BY <2>1, <2>2, ShareFacts
  <2>4. Min({30000, (38 * cadence) \div 100}) = Min({30000, q})
    BY <1>3, <2>1
  <2>5. QED
    BY <2>3, <2>4
<1>7. PICK E \in Int : E = Last(fs).at
  BY <1>t
<1>8. PICK a \in Int : a = Target(fs, count, k - 1)
  BY <1>t
<1>9. PICK b \in Int : b = Target(fs, count, k) /\ a + cadence <= b
  BY <1>3, <1>8, <1>t
<1>10. b + cadence <= E
  <2>1. PICK c \in Int : c = Target(fs, count, k + 1) /\ b + cadence <= c
    <3>1. k + 1 - 1 = k /\ k + 1 \in 1 .. count
      BY <1>1
    <3>2. /\ Target(fs, count, k + 1) \in Int
          /\ Target(fs, count, k + 1 - 1) + Cadence(fs, count) <= Target(fs, count, k + 1)
      BY <1>1, TargetsGrow
    <3>3. QED
      BY <1>3, <1>9, <3>1, <3>2
  <2>2. Target(fs, count, k + 1) <= Last(fs).at
    BY <1>1, TargetsBelow
  <2>3. QED
    BY <1>3, <1>7, <2>1, <2>2
<1>b. Last(bounds) \in Int
  BY DEF SomeCuts, Last
<1>11. PICK last \in Int : last = Last(bounds) /\ last <= a + R
  BY <1>4, <1>8, <1>b
<1>s. Snap(fs, b, R) \in Int /\ Snap(fs, b, R) <= b + R
  BY SnapFacts
<1>12. PICK s \in Int : s = Snap(fs, b, R) /\ s <= b + R
  BY <1>s
<1>13. PICK t \in Int : t = IF s < last + l \/ s > E - h THEN b ELSE s
  OBVIOUS
<1>n. R < cadence /\ l >= 1 /\ h >= 1 /\ a + cadence <= b
  BY <1>4, <1>5, <1>6, <1>9
<1>m. last <= a + R /\ s <= b + R
  BY <1>11, <1>12
<1>14. last < t /\ t < E /\ t <= b + R
  BY <1>n, <1>m, <1>10, <1>13, SnapFits
<1>15. EstimateAdded(fs, count, bounds, k) = Append(bounds, t)
  BY <1>3, <1>4, <1>5, <1>6, <1>7, <1>9, <1>11, <1>12, <1>13 DEF EstimateAdded, Reach
<1>16. SomeCuts(fs, Append(bounds, t)) /\ Last(Append(bounds, t)) = t
  BY <1>7, <1>11, <1>14, CutsGrow
<1>17. QED
  BY <1>4, <1>9, <1>14, <1>15, <1>16

\* The estimated boundaries lie in the recording, each after the one before.
LEMMA EstimatedCuts ==
  ASSUME NEW fs, InTime(fs), fs # <<>>
  PROVE  Cuts(fs, EstimatedBoundaries(fs))
<1>1. PICK count : count = EstimateRoundCount(Length(fs))
  OBVIOUS
<1>2. count \in Nat /\ count >= 1 /\ count <= 26 /\ (count > 1 => Length(fs) >= 95000)
  <2>1. Length(fs) \in Nat
    BY EndsAreTyped
  <2>2. QED
    BY <1>1, <2>1, CountFacts
<1>3. PICK n \in Nat : n = count - 1
  BY <1>2
<1>r. Reach(fs, count) \in Nat
  BY <1>2, ReachTyped
<1>5. PICK R \in Nat : R = Reach(fs, count)
  BY <1>r
<1> DEFINE D == 1 .. n
           A == Seq(Int)
           Next1(b, x) == EstimateNext(fs, b, Aims(fs)[x])
           Fold(g) == g = [s \in SUBSET D |->
                            IF s = {} THEN <<First(fs)>> ELSE Next1(g[s \ {Max(s)}], Max(s))]
<1>7. DOMAIN Aims(fs) = D /\ \A k \in D : Aims(fs)[k] = k
  BY <1>1, <1>3 DEF UpTo, Aims
<1>8. D \in SUBSET Nat /\ IsFiniteSet(D) /\ D \in SUBSET (1 .. count)
  BY <1>2, <1>3, FS_Interval
<1>9. <<First(fs)>> \in A /\ SomeCuts(fs, <<First(fs)>>)
  BY StartCut DEF SomeCuts
<1>10. ASSUME NEW b \in A, NEW x \in D PROVE Next1(b, x) \in A
  BY <1>1, <1>2, <1>7, <1>8, EstimateTyped DEF EstimateNext
<1>11. PICK step : step = [p \in A \X D |-> Next1(p[1], p[2])]
  OBVIOUS
<1>12. step \in [A \X D -> A] /\ \A b \in A : \A x \in D : step[<<b, x>>] = Next1(b, x)
  BY <1>10, <1>11
<1>h. \A b : \A x \in D : Next1(b, x) = EstimateAdded(fs, count, b, x)
  BY <1>1, <1>7 DEF EstimateNext
<1> HIDE DEF Next1, A
<1>13. \E g : Fold(g)
  <2>1. PICK g \in [SUBSET D -> A] : Folds(g, D, <<First(fs)>>, step)
    BY <1>8, <1>9, <1>12, FoldExists
  <2>2. ASSUME NEW s \in SUBSET D, s # {}
        PROVE  step[<<g[s \ {Max(s)}], Max(s)>>] = Next1(g[s \ {Max(s)}], Max(s))
    <3>1. g[s \ {Max(s)}] \in A /\ Max(s) \in D
      BY <2>2, FoldSteps
    <3>2. QED
      BY <1>12, <3>1
  <2>3. Fold(g)
    BY <2>1, <2>2 DEF Folds
  <2>4. QED
    BY <2>3
<1>14. PICK g : g = CHOOSE h : Fold(h)
  OBVIOUS
<1>15. Fold(g)
  BY <1>13, <1>14
<1>16. EstimatedBoundaries(fs) = Append(g[D], Last(fs).at)
  BY <1>7, <1>14, EstimatedIsFold DEF Next1
<1>17. PICK v : v = [s \in SUBSET D |-> Next1(g[s \ {Max(s)}], Max(s))]
  OBVIOUS
<1>18. FoldOf(g, n, <<First(fs)>>, v) /\ StepTyped(n, A, step)
  BY <1>12, <1>15, <1>17 DEF FoldOf, StepTyped
<1>19. ASSUME NEW k \in D, g[1 .. k - 1] \in A PROVE v[1 .. k] = step[<<g[1 .. k - 1], k>>]
  <2>1. Max(1 .. k) = k /\ (1 .. k) \ {k} = 1 .. k - 1 /\ 1 .. k \in SUBSET D
    BY PrefixFacts
  <2>2. v[1 .. k] = Next1(g[1 .. k - 1], k)
    BY <1>17, <2>1
  <2>3. QED
    BY <1>12, <1>19, <2>2
<1>20. PICK acc : Runs1(acc, n, A, <<First(fs)>>, step) /\ acc[n] = g[D]
  BY <1>9, <1>18, <1>19, FoldRuns
<1>21. PICK P : P = {k \in 0 .. n : SomeCuts(fs, acc[k]) /\ Last(acc[k]) <= Target(fs, count, k) + R}
  OBVIOUS
<1>22. 0 \in P
  <2>1. acc[0] = <<First(fs)>> /\ 0 \in 0 .. n
    BY <1>20 DEF Runs1
  <2>2. Last(<<First(fs)>>) = First(fs) /\ First(fs) \in Int
    <3>1. First(fs) \in Int
      BY EndsAreTyped
    <3>2. Last(<<First(fs)>>) = First(fs)
      BY StartCut
    <3>3. QED
      BY <3>1, <3>2
  <2>3. Target(fs, count, 0) = First(fs)
    <3>1. 1 \in 1 .. count
      BY <1>2
    <3>2. QED
      BY <1>2, <3>1, TargetsGrow
  <2>4. QED
    BY <1>5, <1>9, <1>21, <2>1, <2>2, <2>3
<1>23. ASSUME NEW k \in 1 .. n, k - 1 \in P PROVE k \in P
  <2>1. k - 1 \in 0 .. n /\ k \in 0 .. n
    OBVIOUS
  <2>2. acc[k - 1] \in A /\ acc[k] = step[<<acc[k - 1], k>>]
    BY <1>20, <2>1 DEF Runs1
  <2>3. acc[k] = EstimateAdded(fs, count, acc[k - 1], k)
    BY <1>7, <1>12, <1>h, <2>2
  <2>4. SomeCuts(fs, acc[k - 1]) /\ Last(acc[k - 1]) <= Target(fs, count, k - 1) + R
    BY <1>21, <1>23
  <2>5. k \in 1 .. count - 1
    BY <1>3
  <2>6. SomeCuts(fs, acc[k]) /\ Last(acc[k]) <= Target(fs, count, k) + R
    BY <1>2, <1>5, <2>3, <2>4, <2>5, EstimateGrows
  <2>7. QED
    BY <1>21, <2>1, <2>6
<1>24. n \in P
  <2>1. 0 .. n \subseteq P
    BY <1>22, <1>23, Upwards
  <2>2. QED
    BY <2>1
<1>25. SomeCuts(fs, g[D])
  BY <1>20, <1>21, <1>24
<1>26. QED
  BY <1>16, <1>25, CutsEnd

\* However they were found, the boundaries cut the recording.
LEMMA BoundariesCut ==
  ASSUME NEW fs, InTime(fs), fs # <<>>
  PROVE  Cuts(fs, Boundaries(fs))
BY AnchoredCuts, EstimatedCuts DEF Boundaries

-----------------------------------------------------------------------------
(* Rounds.                                                                  *)

\* Every moment of the recording is in exactly one round.
LEMMA MomentsHaveARound ==
  ASSUME NEW fs, NEW bounds, Cuts(fs, bounds), NEW t \in Int, bounds[1] <= t, t <= bounds[Len(bounds)]
  PROVE  \E r \in 1 .. Len(bounds) - 1 :
           InRound(bounds, r, t) /\ \A q \in 1 .. Len(bounds) - 1 : InRound(bounds, q, t) => q = r
<1>1. PICK n \in Nat : n = Len(bounds) /\ n >= 2
  BY DEF Cuts
<1>2. \A j \in 1 .. n : bounds[j] \in Int
  BY <1>1 DEF Cuts
<1>3. \A j, k \in 1 .. n : j < k => bounds[j] <= bounds[k]
  BY <1>1 DEF Cuts
<1>4. PICK S : S = {j \in 1 .. n - 1 : bounds[j] <= t}
  OBVIOUS
<1>5. IsFiniteSet(S) /\ S \in SUBSET Int /\ S # {}
  <2>1. IsFiniteSet(1 .. n - 1)
    BY <1>1, FS_Interval
  <2>2. S \in SUBSET (1 .. n - 1)
    BY <1>4
  <2>3. IsFiniteSet(S)
    BY <2>1, <2>2, FS_Subset
  <2>4. 1 \in S
    BY <1>1, <1>4
  <2>5. S \in SUBSET Int
    BY <2>2
  <2>6. QED
    BY <2>3, <2>4, <2>5
<1>6. PICK r \in S : \A j \in S : j <= r
  BY <1>5, MaxFacts
<1>7. r \in 1 .. n - 1 /\ bounds[r] <= t /\ r + 1 \in 1 .. n /\ r + 1 \in Int
  BY <1>1, <1>4, <1>6
<1>8. InRound(bounds, r, t)
  <2>1. CASE r + 1 = n
    <3>1. t <= bounds[r + 1] /\ bounds[r + 1] \in Int
      BY <1>1, <1>2, <1>7, <2>1
    <3>2. t < bounds[r + 1] \/ t = bounds[r + 1]
      BY <3>1
    <3>3. QED
      BY <1>1, <1>7, <2>1, <3>2 DEF InRound
  <2>2. CASE r + 1 # n
    <3>1. r + 1 \in 1 .. n - 1
      BY <1>1, <1>7, <2>2
    <3>2. r + 1 \notin S
      BY <1>6, <1>7
    <3>3. ~(bounds[r + 1] <= t) /\ bounds[r + 1] \in Int
      BY <1>2, <1>4, <1>7, <3>1, <3>2
    <3>4. t < bounds[r + 1]
      BY <3>3
    <3>5. QED
      BY <1>7, <3>4 DEF InRound
  <2>3. QED
    BY <2>1, <2>2
<1>9. ASSUME NEW q \in 1 .. n - 1, InRound(bounds, q, t) PROVE q = r
  <2>1. q \in S /\ q \in Int
    BY <1>4, <1>9 DEF InRound
  <2>2. q <= r
    BY <1>6, <2>1
  <2>3. ASSUME q < r PROVE FALSE
    <3>1. q + 1 \in 1 .. n /\ q + 1 <= r /\ r \in 1 .. n /\ q + 1 # n
      BY <1>1, <1>7, <2>1, <2>3
    <3>2. bounds[q + 1] \in Int /\ bounds[r] \in Int
      BY <1>2, <3>1
    <3>3. bounds[q + 1] <= bounds[r]
      <4>1. CASE q + 1 = r
        BY <3>2, <4>1
      <4>2. CASE q + 1 # r
        <5>1. q + 1 < r
          BY <3>1, <4>2
        <5>2. QED
          BY <1>3, <3>1, <5>1
      <4>3. QED
        BY <4>1, <4>2
    <3>4. t < bounds[q + 1]
      BY <1>1, <1>9, <3>1 DEF InRound
    <3>5. QED
      BY <1>7, <3>2, <3>3, <3>4
  <2>4. QED
    BY <1>7, <2>1, <2>2, <2>3
<1>10. QED
  BY <1>1, <1>7, <1>8, <1>9

\* What the rounds say.
LEMMA SegmentFacts ==
  ASSUME NEW fs, NEW bounds, Cuts(fs, bounds), NEW ws, NEW segments, segments = RoundSegments(fs, bounds, ws)
  PROVE  /\ DOMAIN segments = 1 .. Len(bounds) - 1 /\ Len(segments) = Len(bounds) - 1
         /\ Len(bounds) \in Nat /\ Len(bounds) >= 2
         /\ \A r \in 1 .. Len(bounds) - 1 :
              /\ segments[r].from = bounds[r] /\ segments[r].to = bounds[r + 1]
              /\ \A i : i \in segments[r].frames <=> i \in DOMAIN fs /\ InRound(bounds, r, fs[i].at)
              /\ \A k : k \in segments[r].windows <=> k \in DOMAIN ws /\ InRound(bounds, r, ws[k].peak)
<1>1. PICK n \in Nat : n = Len(bounds) /\ n >= 2
  BY DEF Cuts
<1>2. /\ DOMAIN segments = 1 .. n - 1
      /\ \A r \in 1 .. n - 1 :
           segments[r] = [from |-> bounds[r], to |-> bounds[r + 1],
                          frames |-> {i \in DOMAIN fs : InRound(bounds, r, fs[i].at)},
                          windows |-> {k \in DOMAIN ws : InRound(bounds, r, ws[k].peak)}]
  BY <1>1 DEF RoundSegments
<1>3. n - 1 \in Nat
  BY <1>1
<1>4. Len(segments) = n - 1
  BY <1>1, <1>3 DEF RoundSegments
<1>5. ASSUME NEW r \in 1 .. n - 1
      PROVE  /\ segments[r].from = bounds[r] /\ segments[r].to = bounds[r + 1]
             /\ segments[r].frames = {i \in DOMAIN fs : InRound(bounds, r, fs[i].at)}
             /\ segments[r].windows = {k \in DOMAIN ws : InRound(bounds, r, ws[k].peak)}
  BY <1>2
<1>6. QED
  BY <1>1, <1>2, <1>4, <1>5

\* The number of a window is that of the round it peaks in.
LEMMA RoundOfIs ==
  ASSUME NEW fs, NEW bounds, Cuts(fs, bounds), NEW ws, NEW segments, segments = RoundSegments(fs, bounds, ws),
         NEW w, NEW r \in 1 .. Len(bounds) - 1, InRound(bounds, r, w.peak),
         \A q \in 1 .. Len(bounds) - 1 : InRound(bounds, q, w.peak) => q = r
  PROVE  RoundOf(segments, w) = r
<1>1. PICK n \in Nat : n = Len(bounds) /\ n >= 2
  BY SegmentFacts
<1>2. /\ DOMAIN segments = 1 .. n - 1 /\ Len(segments) = n - 1
      /\ \A q \in 1 .. n - 1 : segments[q].from = bounds[q] /\ segments[q].to = bounds[q + 1]
  BY <1>1, SegmentFacts
<1>3. PICK C : C = {q \in DOMAIN segments :
                      /\ segments[q].from <= w.peak
                      /\ w.peak < segments[q].to \/ (q = Len(segments) /\ w.peak = segments[q].to)}
  OBVIOUS
<1>4. ASSUME NEW q \in 1 .. n - 1
      PROVE  q \in C <=> InRound(bounds, q, w.peak)
  <2>1. q = Len(segments) <=> q + 1 = Len(bounds)
    BY <1>1, <1>2
  <2>2. QED
    BY <1>2, <1>3, <2>1 DEF InRound
<1>5. C = {r}
  BY <1>1, <1>2, <1>3, <1>4
<1>6. Min({r}) = r
  <2>1. IsFiniteSet({r})
    BY FS_Singleton
  <2>2. {r} \in SUBSET Int /\ {r} # {}
    BY <1>1
  <2>3. Min({r}) \in {r}
    BY <2>1, <2>2, MinFacts
  <2>4. QED
    BY <2>3
<1>7. QED
  BY <1>3, <1>5, <1>6 DEF RoundOf

-----------------------------------------------------------------------------
(* The invariant.                                                           *)

Stages == {"sampled", "read", "cut", "done", "reported", "assessing", "evaluated"}

\* The frames are in the order of time; the windows are only there once they
\* are selected and until they are reported, tidy, affordable and in turn; the
\* decisions have kinds that can be reviewed; and the verdict on the one under
\* review is that of the rules.
WindowsInv ==
  /\ stage \in Stages
  /\ budget \in Int
  /\ InTime(frames)
  /\ stage # "done" => windows = <<>>
  /\ Affordable(frames, windows) /\ InTurn(windows)

VerdictInv ==
  /\ \A d \in DOMAIN decisions : decisions[d].kind \in DecisionKinds
  /\ kind \in DecisionKinds \cup {""}
  /\ kind # "" => result = AssessDecision(kind, answers)
  /\ stage # "assessing" => kind = "" /\ answers = <<>>

\* A review without windows is affordable and in order.
LEMMA NoWindows == budget \in Int => \A fs : Affordable(fs, <<>>) /\ InTurn(<<>>)
<1> SUFFICES ASSUME budget \in Int, NEW fs PROVE Affordable(fs, <<>>) /\ InTurn(<<>>)
  OBVIOUS
<1>1. Len(<<>>) = 0 /\ 1 .. Len(<<>>) = {} /\ <<>> \in Seq(Members(<<>>))
  OBVIOUS
<1>2. Tidy(fs, <<>>)
  BY <1>1 DEF Tidy
<1>3. Limit \in Nat
  BY LimitFacts
<1>4. QED
  BY <1>1, <1>2, <1>3 DEF Affordable, InTurn

\* A timeline without frames follows the clock.
LEMMA NoFrames == InTime(<<>>)
<1>1. Len(<<>>) = 0 /\ 1 .. Len(<<>>) = {} /\ <<>> \in Seq(Frame)
  OBVIOUS
<1>2. QED
  BY <1>1 DEF InTime

\* Nothing is asked where there is no question.
LEMMA NothingDecided == DOMAIN <<>> = {}
OBVIOUS

\* The first states satisfy the invariant.
LEMMA ReviewBegins ==
  ASSUME MatchInit
  PROVE  WindowsInv /\ VerdictInv
<1>1. PICK sample \in Samples :
        /\ \E seen \in [1 .. sample.count -> sample.names] : frames = Observations(seen, sample.every)
        /\ budget \in Budgets \cup {DefaultBudget(sample.every * (sample.count - 1))}
  BY DEF MatchInit, ReviewInit
<1>2. /\ sample.count \in Nat /\ sample.every \in Nat
      /\ sample.names \in SUBSET (DOMAIN Looks \cup {Broken})
      /\ Budgets \subseteq Int
  BY ReviewAssumption
<1>3. PICK seen \in [1 .. sample.count -> sample.names] : frames = Observations(seen, sample.every)
  BY <1>1
<1>4. InTime(frames)
  BY <1>2, <1>3, ObservationsInTime
<1>5. budget \in Int
  BY <1>1, <1>2 DEF DefaultBudget
<1>6. stage = "sampled" /\ windows = <<>> /\ decisions = <<>> /\ kind = ""
  BY DEF MatchInit, ReviewInit, NoDecision
<1>7. Affordable(frames, windows) /\ InTurn(windows)
  BY <1>5, <1>6, NoWindows
<1>8. WindowsInv
  BY <1>4, <1>5, <1>6, <1>7 DEF WindowsInv, Stages
<1>b. answers = <<>>
  BY DEF MatchInit, NoDecision
<1>9. VerdictInv
  BY <1>6, <1>b, NothingDecided DEF VerdictInv
<1>10. QED
  BY <1>8, <1>9

\* A budget that stays, or goes while there are no windows.
LEMMA SameLimit ==
  ASSUME budget' = budget
  PROVE  Limit' = Limit
BY DEF Limit

\* Round numbers change neither the order nor the number of the windows.
LEMMA AssignedInTurn ==
  ASSUME budget \in Int, NEW fs, NEW ws, Affordable(fs, ws), InTurn(ws), NEW segments
  PROVE  Affordable(fs, AssignRounds(ws, segments)) /\ InTurn(AssignRounds(ws, segments))
<1>1. Tidy(fs, ws) /\ Len(ws) <= Limit
  BY DEF Affordable
<1>2. PICK vs : vs = AssignRounds(ws, segments)
  OBVIOUS
<1>3. /\ Tidy(fs, vs) /\ Len(vs) = Len(ws)
      /\ \A k \in 1 .. Len(ws) : vs[k].from = ws[k].from /\ vs[k].to = ws[k].to
  BY <1>1, <1>2, RoundsAreAssigned
<1>4. QED
  BY <1>1, <1>2, <1>3 DEF Affordable, InTurn

\* Every step of a review keeps the windows' part of the invariant.
LEMMA WindowsKept ==
  ASSUME WindowsInv, [MatchNext]_matchVars
  PROVE  WindowsInv'
<1>0. budget \in Int /\ InTime(frames) /\ (stage # "done" => windows = <<>>)
  BY DEF WindowsInv
<1>a. ASSUME stage' \in Stages, budget' \in Int, InTime(frames'), windows' = <<>>
      PROVE  WindowsInv'
  <2>1. (budget \in Int => \A fs : Affordable(fs, <<>>) /\ InTurn(<<>>))'
    BY NoWindows, PTL
  <2>2. QED
    BY <1>a, <2>1 DEF WindowsInv
<1>b. ASSUME UNCHANGED reviewVars
      PROVE  WindowsInv'
  BY <1>b, SameLimit DEF WindowsInv, reviewVars, Affordable, Tidy, InTurn
<1>1. ASSUME Recognize PROVE WindowsInv'
  <2>1. InTime(frames')
    <3>1. CASE UNCHANGED frames
      BY <1>0, <3>1
    <3>2. ASSUME NEW failed, frames' = Propagate(Recognized(frames, failed)) PROVE InTime(frames')
      BY <1>0, <3>2, RecognizedInTime, PropagateInTime
    <3>3. QED
      BY <1>1, <3>1, <3>2 DEF Recognize
  <2>2. stage' \in Stages /\ budget' \in Int /\ windows' = <<>>
    BY <1>0, <1>1 DEF Recognize, Stages
  <2>3. QED
    BY <1>a, <2>1, <2>2
<1>2. ASSUME Unreadable PROVE WindowsInv'
  BY <1>0, <1>2, <1>a DEF Unreadable, Stages
<1>3. ASSUME Segment PROVE WindowsInv'
  <2>1. InTime(frames')
    BY <1>0, <1>3, ClassifyInTime DEF Segment
  <2>2. stage' \in Stages /\ budget' \in Int /\ windows' = <<>>
    BY <1>0, <1>3 DEF Segment, Stages
  <2>3. QED
    BY <1>a, <2>1, <2>2
<1>4. ASSUME Select PROVE WindowsInv'
  <2>1. PICK ws : ws = ReviewWindows(frames, rounds)
    OBVIOUS
  <2>2. Affordable(frames, ws) /\ InTurn(ws)
    BY <1>0, <2>1, ReviewIsInTurn
  <2>3. PICK vs : vs = AssignRounds(ws, rounds)
    OBVIOUS
  <2>4. Affordable(frames, vs) /\ InTurn(vs)
    BY <1>0, <2>2, <2>3, AssignedInTurn
  <2>5. windows' = vs /\ stage' = "done" /\ frames' = frames /\ budget' = budget
    BY <1>4, <2>1, <2>3 DEF Select
  <2>6. Limit' = Limit
    BY <2>5, SameLimit
  <2>7. (Affordable(frames, windows) /\ InTurn(windows))'
    BY <2>4, <2>5, <2>6 DEF Affordable, InTurn, Tidy
  <2>8. QED
    BY <1>0, <2>5, <2>7 DEF WindowsInv, Stages
<1>5. ASSUME Report PROVE WindowsInv'
  BY <1>0, <1>5, <1>a, NoFrames DEF Report, Stages
<1>6. ASSUME OpenDecision PROVE WindowsInv'
  BY <1>0, <1>6, <1>a DEF OpenDecision, Stages
<1>7. ASSUME OpenEvaluation PROVE WindowsInv'
  BY <1>0, <1>7, <1>a DEF OpenEvaluation, Stages
<1>8. ASSUME Assess \/ UNCHANGED matchVars PROVE WindowsInv'
  BY <1>8, <1>b DEF Assess, matchVars
<1>9. QED
  BY <1>1, <1>2, <1>3, <1>4, <1>5, <1>6, <1>7, <1>8 DEF MatchNext, Analyze, ReviewNext

\* The question that denies a kind is asked of it, and required.
LEMMA QuestionsOfKinds ==
  ASSUME NEW k \in DecisionKinds
  PROVE  /\ Denied(k) \in Questions(k) /\ Denied(k) \in Required(k)
         /\ Required(k) \subseteq AllQuestions /\ Denied(k) \in AllQuestions
<1>1. Denied(k) \in Questions(k) /\ Denied(k) \in Required(k)
  <2>1. CASE k = "death_review"
    <3>1. Denied("death_review") = "death_confirmed" /\ Questions("death_review") = DeathQuestions
      BY Zenon DEF Denied, Questions
    <3>2. QED
      BY <2>1, <3>1 DEF Required, DeathQuestions
  <2>2. CASE k = "combat_spike"
    <3>1. Denied("combat_spike") = "fight_occurred" /\ Questions("combat_spike") = CombatQuestions
      BY Zenon DEF Denied, Questions
    <3>2. QED
      BY <2>2, <3>1 DEF Required, CombatQuestions
  <2>3. CASE k = "rotation_spike"
    <3>1. Denied("rotation_spike") = "movement_was_rotation" /\ Questions("rotation_spike") = RotationQuestions
      BY Zenon DEF Denied, Questions
    <3>2. QED
      BY <2>3, <3>1 DEF Required, RotationQuestions
  <2>4. CASE k = "low_activity"
    <3>1. Denied("low_activity") = "window_is_hold" /\ Questions("low_activity") = TempoQuestions
      BY Zenon DEF Denied, Questions
    <3>2. QED
      BY <2>4, <3>1 DEF Required, TempoQuestions
  <2>5. QED
    BY <2>1, <2>2, <2>3, <2>4 DEF DecisionKinds
<1>2. Questions(k) \subseteq AllQuestions /\ Required(k) \subseteq Questions(k)
  BY DEF AllQuestions, Required
<1>3. QED
  BY <1>1, <1>2

\* A decision with no answers waits for them.
LEMMA StartsPending ==
  ASSUME NEW k \in DecisionKinds, NEW a, a = [q \in Questions(k) |-> "unknown"]
  PROVE  AssessDecision(k, a) = Pending
<1>1. Denied(k) \in Questions(k) /\ Denied(k) \in Required(k)
  BY QuestionsOfKinds
<1>2. a[Denied(k)] = "unknown"
  BY <1>1
<1>3. a[Denied(k)] # "no" /\ MissingRequired(k, a)
  BY <1>1, <1>2 DEF MissingRequired, Known
<1>4. QED
  BY <1>3, Zenon DEF AssessDecision

\* Every step of a review keeps the verdict's part of the invariant.
LEMMA VerdictKept ==
  ASSUME WindowsInv, VerdictInv, [MatchNext]_matchVars
  PROVE  VerdictInv'
<1>1. CASE Analyze
  <2>1. stage # "assessing" /\ stage' # "assessing"
    BY <1>1 DEF Analyze, ReviewNext, Recognize, Unreadable, Segment, Select
  <2>2. QED
    BY <1>1, <2>1 DEF Analyze, assessmentVars, VerdictInv
<1>2. CASE Report
  <2>1. Tidy(frames, windows)
    BY DEF WindowsInv, Affordable
  <2>2. \A d \in DOMAIN decisions' : decisions'[d].kind \in DecisionKinds
    BY <1>2, <2>1, DecisionsAreOfTheWindows DEF Report
  <2>3. QED
    BY <1>2, <2>2 DEF Report, assessmentVars, VerdictInv
<1>3. CASE OpenDecision
  <2>1. PICK d \in DOMAIN decisions : Open(decisions[d].kind)
    BY <1>3 DEF OpenDecision
  <2>2. decisions[d].kind \in DecisionKinds
    BY DEF VerdictInv
  <2>3. PICK k \in DecisionKinds : k = decisions[d].kind
    BY <2>2
  <2>4. kind' = k /\ answers' = [q \in Questions(k) |-> "unknown"] /\ result' = Pending
    BY <2>1, <2>3 DEF Open
  <2>5. result' = AssessDecision(kind', answers')
    BY <2>4, StartsPending
  <2>6. QED
    BY <1>3, <2>4, <2>5, NothingDecided DEF OpenDecision, VerdictInv
<1>4. CASE OpenEvaluation
  BY <1>4, NothingDecided DEF OpenEvaluation, assessmentVars, VerdictInv
<1>5. CASE Assess
  <2>1. PICK q, value : AnswerQuestion(q, value)
    BY <1>5 DEF Assess, AssessNext
  <2>2. kind' = kind /\ result' = AssessDecision(kind, answers') /\ decisions' = decisions
        /\ stage' = stage /\ kind # ""
    BY <1>5, <2>1 DEF Assess, AnswerQuestion, reviewVars
  <2>3. QED
    BY <2>2 DEF VerdictInv
<1>6. CASE UNCHANGED matchVars
  BY <1>6 DEF matchVars, assessmentVars, reviewVars, VerdictInv
<1>7. QED
  BY <1>1, <1>2, <1>3, <1>4, <1>5, <1>6 DEF MatchNext

\* The invariant of the match review holds.
THEOREM ReviewInvariantHolds == MatchSpec => [](WindowsInv /\ VerdictInv)
<1>1. MatchInit => WindowsInv /\ VerdictInv
  BY ReviewBegins
<1>2. WindowsInv /\ VerdictInv /\ [MatchNext]_matchVars => (WindowsInv /\ VerdictInv)'
  BY WindowsKept, VerdictKept
<1>3. QED
  BY <1>1, <1>2, PTL DEF MatchSpec

\* The windows under review never overlap, lie in the order of the match and are at
\* most as many as the limit, for any timeline and any budget (buildReviewWindows).
THEOREM TheTimelineIsShared == MatchSpec => []WindowsShareTheTimeline
<1>1. WindowsInv => WindowsShareTheTimeline
  <2> SUFFICES ASSUME WindowsInv PROVE WindowsShareTheTimeline
    OBVIOUS
  <2>1. Tidy(frames, windows) /\ Len(windows) <= Limit /\ InTurn(windows)
    BY DEF WindowsInv, Affordable
  <2>2. DOMAIN windows = 1 .. Len(windows)
    BY <2>1, TidyMembers
  <2>3. QED
    BY <2>1, <2>2 DEF WindowsShareTheTimeline, InTurn
<1>2. QED
  BY <1>1, ReviewInvariantHolds, PTL

\* The frames shown as evidence before and after a decision are those closest to
\* the times the reviewer asks for, on the right side of its peak (windowEvidence).
THEOREM TheEvidenceIsTheNearest == MatchSpec => []EvidenceIsNearest
<1>1. WindowsInv => EvidenceIsNearest
  <2> SUFFICES ASSUME WindowsInv PROVE EvidenceIsNearest
    OBVIOUS
  <2>1. InTime(frames) /\ Tidy(frames, windows)
    BY DEF WindowsInv, Affordable
  <2>2. DOMAIN windows = 1 .. Len(windows)
    BY <2>1, TidyMembers
  <2>3. ASSUME NEW k \in DOMAIN windows
        PROVE  LET w == windows[k]
                   e == w.evidence
               IN  /\ frames[e.event].at = w.peak
                   /\ NoneNearer(frames, e.before, 1 .. e.event - 1, w.peak - LeadOf(w.kind))
                   /\ NoneNearer(frames, e.after, e.event + 1 .. Len(frames), w.peak + LagOf(w.kind))
    <3>1. PICK w : w = windows[k] /\ ReviewWindow(frames, w)
      BY <2>1, <2>2 DEF Tidy
    <3>2. PICK p \in DOMAIN frames :
            w.peak = frames[p].at /\ w.evidence = Evidence(frames, p, LeadOf(w.kind), LagOf(w.kind))
      BY <3>1 DEF ReviewWindow
    <3>3. PICK s, t : s = w.peak - LeadOf(w.kind) /\ t = w.peak + LagOf(w.kind)
      OBVIOUS
    <3>4. s \in Int /\ t \in Int
      BY <3>1, <3>3 DEF ReviewWindow, LeadOf, LagOf
    <3>5. PICK b, a :
            /\ b = IF Closest(frames, Preceding(frames, p, s), s) = {} THEN 0
                   ELSE Max(Closest(frames, Preceding(frames, p, s), s))
            /\ a = IF Closest(frames, Following(frames, p, t), t) = {} THEN 0
                   ELSE Min(Closest(frames, Following(frames, p, t), t))
      OBVIOUS
    <3>6. w.evidence = [before |-> b, event |-> p, after |-> a]
      BY <3>2, <3>3, <3>5 DEF Evidence, Closest, OffFrom
    <3>7. NoneNearer(frames, b, 1 .. p - 1, s)
      BY <2>1, <3>4, <3>5, NearestBefore
    <3>8. NoneNearer(frames, a, p + 1 .. Len(frames), t)
      BY <2>1, <3>4, <3>5, NearestAfter
    <3>9. w.evidence.before = b /\ w.evidence.event = p /\ w.evidence.after = a
      BY <3>6
    <3>10. QED
      BY <3>1, <3>2, <3>3, <3>7, <3>8, <3>9
  <2>4. QED
    BY <2>3 DEF EvidenceIsNearest, NoneNearer, OffFrom, LeadOf, LagOf
<1>2. QED
  BY <1>1, ReviewInvariantHolds, PTL

\* A verdict blames the player exactly on the grounds it gives, all questions answered,
\* but for a wait where there was safe space, blamed whatever it gained (AssessDecision
\* and its rules).
THEOREM BlameIsAlwaysConfirmed == MatchSpec => []BlameIsConfirmed
<1>1. VerdictInv => BlameIsConfirmed
  <2> SUFFICES ASSUME VerdictInv, kind # "" PROVE
        Actionable(result) <=>
          /\ answers[Denied(kind)] # "no"
          /\ \A q \in Required(kind) : Known(answers, q)
          /\ (\E fact \in Adverse(kind) : Confirmed(fact)) \/ BlamedDespiteInformation
    BY DEF BlameIsConfirmed
  <2>1. kind \in DecisionKinds /\ result = AssessDecision(kind, answers)
    BY DEF VerdictInv
  <2>2. Actionable(AssessDecision(kind, answers)) <=> Blamed(kind, answers)
    BY <2>1, RulesAreFair
  <2>3. QED
    <3>1. BlamedDespiteInformation <=> DespiteInformation(kind, answers)
      <4>1. Confirmed([purpose_clear |-> "no", safe_space_available |-> "yes"])
              <=> answers["purpose_clear"] = "no" /\ answers["safe_space_available"] = "yes"
        BY UnproductiveFacts DEF Confirmed, Confirms
      <4>2. QED
        BY <4>1, Zenon DEF BlamedDespiteInformation, DespiteInformation
    <3>2. QED
      BY <2>1, <2>2, <3>1 DEF Blamed, Confirmed, Confirms
<1>2. QED
  BY <1>1, ReviewInvariantHolds, PTL

-----------------------------------------------------------------------------
(* The rounds of a review.                                                  *)

\* Which round a window is in depends on its peak and the boundaries alone.
LEMMA SameRounds ==
  ASSUME NEW fs, NEW bounds, Cuts(fs, bounds), NEW ws, NEW vs,
         NEW segments, segments = RoundSegments(fs, bounds, ws),
         NEW others, others = RoundSegments(fs, bounds, vs), NEW w, NEW v, w.peak = v.peak
  PROVE  RoundOf(segments, w) = RoundOf(others, v)
<1>1. PICK n \in Nat : n = Len(bounds) /\ n >= 2
  BY SegmentFacts
<1>2. /\ DOMAIN segments = 1 .. n - 1 /\ Len(segments) = n - 1
      /\ \A q \in 1 .. n - 1 : segments[q].from = bounds[q] /\ segments[q].to = bounds[q + 1]
  BY <1>1, SegmentFacts
<1>3. /\ DOMAIN others = 1 .. n - 1 /\ Len(others) = n - 1
      /\ \A q \in 1 .. n - 1 : others[q].from = bounds[q] /\ others[q].to = bounds[q + 1]
  BY <1>1, SegmentFacts
<1>4. PICK C, D :
        /\ C = {q \in DOMAIN segments :
                 /\ segments[q].from <= w.peak
                 /\ w.peak < segments[q].to \/ (q = Len(segments) /\ w.peak = segments[q].to)}
        /\ D = {q \in DOMAIN others :
                 /\ others[q].from <= v.peak
                 /\ v.peak < others[q].to \/ (q = Len(others) /\ v.peak = others[q].to)}
  OBVIOUS
<1>5. C = D
  BY <1>2, <1>3, <1>4
<1>6. RoundOf(segments, w) = IF C = {} THEN 0 ELSE Min(C)
  BY <1>4 DEF RoundOf
<1>7. RoundOf(others, v) = IF D = {} THEN 0 ELSE Min(D)
  BY <1>4 DEF RoundOf
<1>8. QED
  BY <1>5, <1>6, <1>7

\* What was classified or recognized is there, if anything was.
LEMMA FramesRemain ==
  ASSUME NEW fs, InTime(fs), fs # <<>>, NEW gs, DOMAIN gs = DOMAIN fs
  PROVE  gs # <<>>
<1>1. 1 \in DOMAIN fs
  BY EndsAreTyped
<1>2. QED
  BY <1>1, NothingDecided

\* Once there are rounds they are those of the boundaries, for the windows
\* there are, and every window is numbered by them.
RoundsInv ==
  /\ stage \in {"sampled", "read"} => rounds = <<>>
  /\ stage \in {"read", "cut"} => frames # <<>>
  /\ stage = "cut" => rounds = RoundSegments(frames, Boundaries(frames), <<>>)
  /\ rounds = <<>> \/ (frames # <<>> /\ rounds = RoundSegments(frames, Boundaries(frames), windows))
  /\ \A k \in DOMAIN windows : windows[k].round = RoundOf(rounds, windows[k])

\* Every step of a review keeps the rounds' part of the invariant.
LEMMA RoundsKept ==
  ASSUME WindowsInv, RoundsInv, [MatchNext]_matchVars
  PROVE  RoundsInv'
<1>0. /\ budget \in Int /\ InTime(frames) /\ (stage # "done" => windows = <<>>)
      /\ DOMAIN <<>> = {}
  BY NothingDecided DEF WindowsInv
<1>a. ASSUME stage' \notin {"read", "cut"}, windows' = <<>>, rounds' = <<>>
      PROVE  RoundsInv'
  BY <1>0, <1>a DEF RoundsInv
<1>b. ASSUME UNCHANGED <<frames, windows, rounds>>, stage' \notin {"sampled", "read", "cut"}
      PROVE  RoundsInv'
  BY <1>b DEF RoundsInv
<1>c. ASSUME UNCHANGED reviewVars
      PROVE  RoundsInv'
  BY <1>c DEF RoundsInv, reviewVars
<1>1. ASSUME Recognize PROVE RoundsInv'
  <2>1. PICK gs : gs = frames'
    OBVIOUS
  <2>2. DOMAIN gs = DOMAIN frames
    <3>1. CASE UNCHANGED frames
      BY <2>1, <3>1
    <3>2. CASE \E failed \in {{}} \cup {{i} : i \in Tasks(frames)} :
                  frames' = Propagate(Recognized(frames, failed))
      <4>1. PICK failed : frames' = Propagate(Recognized(frames, failed))
        BY <3>2
      <4>2. PICK hs : hs = Recognized(frames, failed)
        OBVIOUS
      <4>3. DOMAIN hs = DOMAIN frames
        BY <4>2 DEF Recognized
      <4>4. DOMAIN Propagate(hs) = DOMAIN hs
        BY DEF Propagate
      <4>5. gs = Propagate(hs)
        BY <2>1, <4>1, <4>2
      <4>6. QED
        BY <4>3, <4>4, <4>5
    <3>3. QED
      BY <1>1, <3>1, <3>2 DEF Recognize
  <2>3. gs # <<>>
    BY <1>0, <1>1, <2>2, FramesRemain DEF Recognize
  <2>4. stage' = "read" /\ rounds' = <<>> /\ windows' = <<>>
    BY <1>0, <1>1 DEF Recognize, RoundsInv
  <2>5. QED
    BY <1>0, <2>1, <2>3, <2>4 DEF RoundsInv
<1>2. ASSUME Unreadable PROVE RoundsInv'
  <2>1. stage' = "done" /\ rounds' = <<>> /\ windows' = <<>>
    BY <1>0, <1>2 DEF Unreadable, RoundsInv
  <2>2. QED
    BY <1>a, <2>1
<1>3. ASSUME Segment PROVE RoundsInv'
  <2>1. PICK gs : gs = Classify(frames)
    OBVIOUS
  <2>2. DOMAIN gs = DOMAIN frames
    BY <2>1 DEF Classify
  <2>3. gs # <<>>
    BY <1>0, <1>3, <2>2, FramesRemain DEF Segment, RoundsInv
  <2>4. /\ stage' = "cut" /\ frames' = gs /\ windows' = <<>>
        /\ rounds' = RoundSegments(gs, Boundaries(gs), <<>>)
    BY <1>0, <1>3, <2>1 DEF Segment
  <2>5. rounds' = RoundSegments(frames', Boundaries(frames'), <<>>)
    BY <2>4
  <2>6. QED
    BY <1>0, <2>3, <2>4, <2>5 DEF RoundsInv
<1>4. ASSUME Select PROVE RoundsInv'
  <2>1. PICK ws : ws = ReviewWindows(frames, rounds)
    OBVIOUS
  <2>2. Tidy(frames, ws)
    BY <1>0, <2>1, ReviewIsInTurn DEF Affordable
  <2>3. PICK vs : vs = AssignRounds(ws, rounds)
    OBVIOUS
  <2>4. PICK bounds : bounds = Boundaries(frames)
    OBVIOUS
  <2>5. frames # <<>> /\ rounds = RoundSegments(frames, bounds, <<>>) /\ Cuts(frames, bounds)
    BY <1>0, <1>4, <2>4, BoundariesCut DEF Select, RoundsInv
  <2>6. PICK segments : segments = RoundSegments(frames, bounds, vs)
    OBVIOUS
  <2>7. windows' = vs /\ stage' = "done" /\ frames' = frames /\ rounds' = segments
    BY <1>4, <2>1, <2>3, <2>4, <2>6 DEF Select
  <2>8. DOMAIN vs = 1 .. Len(ws)
    BY <2>2, <2>3, TidyMembers DEF AssignRounds
  <2>9. ASSUME NEW k \in DOMAIN vs PROVE vs[k].round = RoundOf(segments, vs[k])
    <3>1. vs[k].peak = ws[k].peak /\ vs[k].round = RoundOf(rounds, ws[k])
      BY <2>2, <2>3, <2>8, RoundsAreAssigned
    <3>2. RoundOf(rounds, ws[k]) = RoundOf(segments, vs[k])
      BY <2>5, <2>6, <3>1, SameRounds
    <3>3. QED
      BY <3>1, <3>2
  <2>10. rounds' = RoundSegments(frames', Boundaries(frames'), windows')
    BY <2>4, <2>6, <2>7
  <2>11. \A k \in DOMAIN windows' : windows'[k].round = RoundOf(rounds', windows'[k])
    BY <2>7, <2>9
  <2>12. QED
    BY <2>5, <2>7, <2>10, <2>11 DEF RoundsInv
<1>5. ASSUME Report PROVE RoundsInv'
  BY <1>5, <1>a DEF Report
<1>6. ASSUME OpenDecision PROVE RoundsInv'
  BY <1>6, <1>b DEF OpenDecision
<1>7. ASSUME OpenEvaluation PROVE RoundsInv'
  BY <1>7, <1>b DEF OpenEvaluation
<1>8. ASSUME Assess \/ UNCHANGED matchVars PROVE RoundsInv'
  BY <1>8, <1>c DEF Assess, matchVars
<1>9. QED
  BY <1>1, <1>2, <1>3, <1>4, <1>5, <1>6, <1>7, <1>8 DEF MatchNext, Analyze, ReviewNext

\* The invariant of the rounds holds.
THEOREM RoundsInvariantHolds == MatchSpec => [](WindowsInv /\ RoundsInv)
<1>1. MatchInit => RoundsInv
  <2> SUFFICES ASSUME MatchInit PROVE RoundsInv
    OBVIOUS
  <2>1. stage = "sampled" /\ rounds = <<>> /\ windows = <<>>
    BY DEF MatchInit, ReviewInit
  <2>2. QED
    BY <2>1, NothingDecided DEF RoundsInv
<1>2. WindowsInv /\ RoundsInv /\ [MatchNext]_matchVars => RoundsInv'
  BY RoundsKept
<1>3. MatchSpec => []WindowsInv
  BY ReviewInvariantHolds, PTL
<1>4. QED
  BY <1>1, <1>2, <1>3, PTL DEF MatchSpec

\* Every frame and every window is in one round.
LEMMA FramesHaveARound ==
  ASSUME NEW fs, InTime(fs), fs # <<>>, NEW bounds, Cuts(fs, bounds), NEW i \in DOMAIN fs
  PROVE  \E r \in 1 .. Len(bounds) - 1 :
           /\ InRound(bounds, r, fs[i].at)
           /\ \A q \in 1 .. Len(bounds) - 1 : InRound(bounds, q, fs[i].at) => q = r
<1>1. PICK t \in Int : t = fs[i].at
  BY FrameFacts
<1>2. bounds[1] = First(fs) /\ bounds[Len(bounds)] = Last(fs).at
  BY DEF Cuts
<1>3. First(fs) <= t /\ t <= Last(fs).at
  <2>1. /\ 1 \in 1 .. Len(fs) /\ i \in 1 .. Len(fs) /\ Len(fs) \in 1 .. Len(fs)
        /\ 1 <= i /\ i <= Len(fs)
    BY EndsAreTyped
  <2>2. fs[1].at <= fs[i].at /\ fs[i].at <= fs[Len(fs)].at
    BY <2>1 DEF InTime
  <2>3. QED
    BY <1>1, <2>2 DEF First, Last
<1>4. QED
  BY <1>1, <1>2, <1>3, MomentsHaveARound

\* The rounds of a review follow each other without a gap and share neither a
\* frame nor a window (buildRoundSegments), for any recording.
THEOREM TheRoundsPartition == MatchSpec => []RoundsPartition
<1>1. WindowsInv /\ RoundsInv => RoundsPartition
  <2> SUFFICES ASSUME WindowsInv, RoundsInv, rounds # <<>> PROVE RoundsPartition
    BY DEF RoundsPartition
  <2>1. PICK bounds : bounds = Boundaries(frames)
    OBVIOUS
  <2>2. frames # <<>> /\ rounds = RoundSegments(frames, bounds, windows) /\ InTime(frames)
    BY <2>1 DEF RoundsInv, WindowsInv
  <2>3. Cuts(frames, bounds)
    BY <2>1, <2>2, BoundariesCut
  <2>4. PICK n \in Nat : n = Len(bounds) /\ n >= 2
    BY <2>3 DEF Cuts
  <2>5. /\ DOMAIN rounds = 1 .. n - 1 /\ Len(rounds) = n - 1
        /\ \A r \in 1 .. n - 1 :
             /\ rounds[r].from = bounds[r] /\ rounds[r].to = bounds[r + 1]
             /\ \A i : i \in rounds[r].frames <=> i \in DOMAIN frames /\ InRound(bounds, r, frames[i].at)
             /\ \A k : k \in rounds[r].windows <=> k \in DOMAIN windows /\ InRound(bounds, r, windows[k].peak)
    BY <2>2, <2>3, <2>4, SegmentFacts
  <2>6. rounds[1].from = First(frames) /\ rounds[Len(rounds)].to = Last(frames).at
    <3>1. 1 \in 1 .. n - 1 /\ n - 1 \in 1 .. n - 1 /\ n - 1 + 1 = n
      BY <2>4
    <3>2. rounds[1].from = bounds[1] /\ rounds[n - 1].to = bounds[n]
      BY <2>5, <3>1
    <3>3. QED
      BY <2>3, <2>4, <2>5, <3>2 DEF Cuts
  <2>7. ASSUME NEW r \in DOMAIN rounds, r > 1
        PROVE  rounds[r].from = rounds[r - 1].to /\ rounds[r].from < rounds[r].to
    <3>1. r \in 1 .. n - 1 /\ r - 1 \in 1 .. n - 1 /\ r - 1 + 1 = r
      BY <2>4, <2>5, <2>7
    <3>2. rounds[r].from = bounds[r] /\ rounds[r].to = bounds[r + 1] /\ rounds[r - 1].to = bounds[r]
      BY <2>5, <3>1
    <3>3. r \in 1 .. n /\ r + 1 \in 1 .. n /\ r < r + 1
      BY <2>4, <3>1
    <3>4. bounds[r] < bounds[r + 1]
      BY <2>3, <2>4, <2>7, <3>3 DEF Cuts
    <3>5. QED
      BY <3>2, <3>4
  <2>8. ASSUME NEW i \in DOMAIN frames
        PROVE  Cardinality({r \in DOMAIN rounds : i \in rounds[r].frames}) = 1
    <3>1. PICK r \in 1 .. n - 1 :
            /\ InRound(bounds, r, frames[i].at)
            /\ \A q \in 1 .. n - 1 : InRound(bounds, q, frames[i].at) => q = r
      BY <2>2, <2>3, <2>4, FramesHaveARound
    <3>2. {q \in DOMAIN rounds : i \in rounds[q].frames} = {r}
      BY <2>5, <2>8, <3>1
    <3>3. QED
      BY <3>2, FS_Singleton
  <2>9. ASSUME NEW k \in DOMAIN windows
        PROVE  {r \in DOMAIN rounds : k \in rounds[r].windows} = {windows[k].round}
    <3>1. PICK w : w = windows[k] /\ ReviewWindow(frames, w)
      <4>1. Tidy(frames, windows)
        BY DEF WindowsInv, Affordable
      <4>2. k \in 1 .. Len(windows)
        BY <4>1, TidyMembers
      <4>3. QED
        BY <4>1, <4>2 DEF Tidy
    <3>2. PICK i \in DOMAIN frames : w.peak = frames[i].at
      BY <3>1 DEF ReviewWindow
    <3>3. PICK r \in 1 .. n - 1 :
            /\ InRound(bounds, r, w.peak)
            /\ \A q \in 1 .. n - 1 : InRound(bounds, q, w.peak) => q = r
      BY <2>2, <2>3, <2>4, <3>2, FramesHaveARound
    <3>4. RoundOf(rounds, w) = r
      BY <2>2, <2>3, <2>4, <3>3, RoundOfIs
    <3>5. w.round = r
      BY <2>9, <3>1, <3>4 DEF RoundsInv
    <3>6. {q \in DOMAIN rounds : k \in rounds[q].windows} = {r}
      BY <2>5, <2>9, <3>1, <3>3
    <3>7. QED
      BY <3>1, <3>5, <3>6
  <2>10. QED
    BY <2>6, <2>7, <2>8, <2>9 DEF RoundsPartition
<1>2. QED
  BY <1>1, RoundsInvariantHolds, PTL

-----------------------------------------------------------------------------
(* Deaths.                                                                  *)

\* What the search has picked after each candidate.
Trace(acc, ranked, existing, padding, spacing, limit) ==
  /\ acc[0] = <<>>
  /\ \A k \in 1 .. Len(ranked) : acc[k] = Considered(acc[k - 1], ranked[k], existing, padding, spacing, limit)

\* Pick in steps: what is picked of the first m windows, for every m.
LEMMA PickRuns ==
  ASSUME NEW W, NEW ranked \in Seq(W), NEW existing, NEW padding, NEW spacing, NEW limit
  PROVE  \E acc : /\ Trace(acc, ranked, existing, padding, spacing, limit)
                  /\ Pick(ranked, existing, padding, spacing, limit) = acc[Len(ranked)]
<1> DEFINE n == Len(ranked)
           D == 1 .. n
           A == Seq(W)
           Next1(p, x) == Considered(p, ranked[x], existing, padding, spacing, limit)
           Fold(g) == g = [s \in SUBSET D |-> IF s = {} THEN <<>> ELSE Next1(g[s \ {Max(s)}], Max(s))]
<1>1. n \in Nat /\ DOMAIN ranked = D /\ \A k \in D : ranked[k] \in W
  OBVIOUS
<1>2. D \in SUBSET Nat /\ IsFiniteSet(D)
  BY <1>1, FS_Interval
<1>3. <<>> \in A
  OBVIOUS
<1>4. ASSUME NEW p \in A, NEW x \in D PROVE Next1(p, x) \in A
  <2>1. Append(p, ranked[x]) \in A
    BY <1>1
  <2>2. QED
    BY <2>1 DEF Considered
<1>5. PICK step : step = [p \in A \X D |-> Next1(p[1], p[2])]
  OBVIOUS
<1>6. step \in [A \X D -> A] /\ \A p \in A : \A x \in D : step[<<p, x>>] = Next1(p, x)
  BY <1>4, <1>5
<1> HIDE DEF Next1, A, n
<1>7. \E g : Fold(g)
  <2>1. PICK g \in [SUBSET D -> A] : Folds(g, D, <<>>, step)
    BY <1>2, <1>3, <1>6, FoldExists
  <2>2. ASSUME NEW s \in SUBSET D, s # {}
        PROVE  step[<<g[s \ {Max(s)}], Max(s)>>] = Next1(g[s \ {Max(s)}], Max(s))
    <3>1. g[s \ {Max(s)}] \in A /\ Max(s) \in D
      BY <1>1, <2>2, FoldSteps
    <3>2. QED
      BY <1>6, <3>1
  <2>3. Fold(g)
    BY <2>1, <2>2 DEF Folds
  <2>4. QED
    BY <2>3
<1>8. PICK g : g = CHOOSE h : Fold(h)
  OBVIOUS
<1>9. Fold(g)
  BY <1>7, <1>8
<1>10. Pick(ranked, existing, padding, spacing, limit) = g[D]
  BY <1>1, <1>8, PickIsFold DEF Next1
<1>11. PICK v : v = [s \in SUBSET D |-> Next1(g[s \ {Max(s)}], Max(s))]
  OBVIOUS
<1>12. FoldOf(g, n, <<>>, v) /\ StepTyped(n, A, step)
  BY <1>6, <1>9, <1>11 DEF FoldOf, StepTyped
<1>13. ASSUME NEW k \in D, g[1 .. k - 1] \in A PROVE v[1 .. k] = step[<<g[1 .. k - 1], k>>]
  <2>1. Max(1 .. k) = k /\ (1 .. k) \ {k} = 1 .. k - 1 /\ 1 .. k \in SUBSET D
    BY <1>1, PrefixFacts
  <2>2. v[1 .. k] = Next1(g[1 .. k - 1], k)
    BY <1>11, <2>1
  <2>3. QED
    BY <1>6, <1>13, <2>2
<1>14. PICK acc : Runs1(acc, n, A, <<>>, step) /\ acc[n] = g[D]
  BY <1>1, <1>3, <1>12, <1>13, FoldRuns
<1>15. acc[0] = <<>> /\ \A k \in D : acc[k] = Next1(acc[k - 1], k)
  <2>1. acc[0] = <<>> /\ \A k \in D : acc[k] = step[<<acc[k - 1], k>>]
    BY <1>14 DEF Runs1
  <2>2. \A k \in D : k - 1 \in 0 .. n
    BY <1>1
  <2>3. \A k \in D : acc[k - 1] \in A
    BY <1>14, <2>2 DEF Runs1
  <2>4. QED
    BY <1>6, <2>1, <2>3
<1>16. Trace(acc, ranked, existing, padding, spacing, limit)
  BY <1>15 DEF Trace, Next1, n
<1>17. QED
  BY <1>10, <1>14, <1>16 DEF n

\* Whoever was ranked so far was picked or overlaps a candidate ahead of it.
AheadOrPicked(ranked, picked, spacing, k) ==
  /\ picked \in Seq(Members(ranked)) /\ Len(picked) <= k
  /\ \A i \in 1 .. Len(picked) : \E j \in 1 .. k : picked[i] = ranked[j]
  /\ \A j \in 1 .. k :
       \/ \E i \in 1 .. Len(picked) : picked[i] = ranked[j]
       \/ \E i \in 1 .. j - 1 : Overlaps(ranked[j], ranked[i], spacing)

\* One more window is picked, or overlaps one ahead of it in the ranking.
LEMMA OneMoreConsidered ==
  ASSUME NEW ranked, ranked \in Seq(Members(ranked)), NEW padding, NEW spacing,
         NEW limit \in Nat, Len(ranked) <= limit,
         NEW k \in 1 .. Len(ranked), NEW picked, AheadOrPicked(ranked, picked, spacing, k - 1)
  PROVE  AheadOrPicked(ranked, Considered(picked, ranked[k], <<>>, padding, spacing, limit), spacing, k)
<1>1. PICK w : w = ranked[k] /\ w \in Members(ranked)
  BY DEF Members
<1>2. /\ picked \in Seq(Members(ranked)) /\ Len(picked) \in Nat /\ Len(picked) <= k - 1
      /\ DOMAIN picked = 1 .. Len(picked) /\ k \in Nat /\ Len(ranked) \in Nat /\ k <= Len(ranked)
      /\ \A i \in 1 .. Len(picked) : \E j \in 1 .. k - 1 : picked[i] = ranked[j]
  BY DEF AheadOrPicked
<1>3. ~(Len(picked) >= limit) /\ ~OverlapsAny(<<>>, w, padding)
  <2>1. DOMAIN <<>> = {}
    OBVIOUS
  <2>2. ~OverlapsAny(<<>>, w, padding)
    BY <2>1 DEF OverlapsAny
  <2>3. QED
    BY <1>2, <2>2
<1>4. \A j \in 1 .. k : j \in 1 .. k - 1 \/ j = k
  BY <1>2
<1>5. \A j \in 1 .. k - 1 : j \in 1 .. k
  BY <1>2
<1>6. CASE OverlapsAny(picked, w, spacing)
  <2>1. PICK i \in 1 .. Len(picked) : Overlaps(w, picked[i], spacing)
    BY <1>2, <1>6 DEF OverlapsAny
  <2>2. PICK j \in 1 .. k - 1 : picked[i] = ranked[j]
    BY <1>2
  <2>3. Overlaps(ranked[k], ranked[j], spacing)
    BY <1>1, <2>1, <2>2
  <2>4. Considered(picked, ranked[k], <<>>, padding, spacing, limit) = picked
    BY <1>1, <1>6 DEF Considered
  <2>5. j \in 1 .. k - 1 /\ Len(picked) <= k
    BY <1>2
  <2>6. \A m \in 1 .. k :
          \/ \E q \in 1 .. Len(picked) : picked[q] = ranked[m]
          \/ \E q \in 1 .. m - 1 : Overlaps(ranked[m], ranked[q], spacing)
    <3>1. ASSUME NEW m \in 1 .. k, m # k
          PROVE  \/ \E q \in 1 .. Len(picked) : picked[q] = ranked[m]
                 \/ \E q \in 1 .. m - 1 : Overlaps(ranked[m], ranked[q], spacing)
      BY <1>4, <3>1 DEF AheadOrPicked
    <3>2. \E q \in 1 .. k - 1 : Overlaps(ranked[k], ranked[q], spacing)
      BY <2>3
    <3>3. QED
      BY <3>1, <3>2
  <2>7. AheadOrPicked(ranked, picked, spacing, k)
    BY <1>2, <1>5, <2>5, <2>6 DEF AheadOrPicked
  <2>8. QED
    BY <2>4, <2>7
<1>7. CASE ~OverlapsAny(picked, w, spacing)
  <2>1. PICK t : t = Append(picked, w)
    OBVIOUS
  <2>2. /\ t \in Seq(Members(ranked)) /\ Len(t) = Len(picked) + 1
        /\ \A i \in 1 .. Len(picked) : t[i] = picked[i]
        /\ t[Len(t)] = w
        /\ \A i \in 1 .. Len(t) : i \in 1 .. Len(picked) \/ i = Len(t)
    BY <1>1, <1>2, <2>1, AppendFacts
  <2>3. Considered(picked, ranked[k], <<>>, padding, spacing, limit) = t
    BY <1>1, <1>3, <1>7, <2>1 DEF Considered
  <2>4. Len(t) <= k /\ Len(t) \in 1 .. Len(t) /\ \A i \in 1 .. Len(picked) : i \in 1 .. Len(t)
    BY <1>2, <2>2
  <2>5. k \in 1 .. k
    BY <1>2
  <2>6. ASSUME NEW i \in 1 .. Len(t) PROVE \E j \in 1 .. k : t[i] = ranked[j]
    <3>1. CASE i \in 1 .. Len(picked)
      BY <1>2, <1>5, <2>2, <3>1
    <3>2. CASE i = Len(t)
      BY <1>1, <2>2, <2>5, <3>2
    <3>3. QED
      BY <2>2, <3>1, <3>2
  <2>7. ASSUME NEW j \in 1 .. k
        PROVE  \/ \E i \in 1 .. Len(t) : t[i] = ranked[j]
               \/ \E i \in 1 .. j - 1 : Overlaps(ranked[j], ranked[i], spacing)
    <3>1. CASE j = k
      BY <1>1, <2>2, <2>4, <3>1
    <3>2. CASE j \in 1 .. k - 1
      BY <2>2, <2>4, <3>2 DEF AheadOrPicked
    <3>3. QED
      BY <1>4, <3>1, <3>2
  <2>8. AheadOrPicked(ranked, t, spacing, k)
    BY <2>2, <2>4, <2>6, <2>7 DEF AheadOrPicked
  <2>9. QED
    BY <2>3, <2>8
<1>8. QED
  BY <1>6, <1>7

\* While there is room for all, a ranked window left out overlaps one ranked ahead
\* of it.
LEMMA UnpickedOverlap ==
  ASSUME NEW ranked, ranked \in Seq(Members(ranked)), NEW padding, NEW spacing,
         NEW limit \in Nat, Len(ranked) <= limit
  PROVE  AheadOrPicked(ranked, Pick(ranked, <<>>, padding, spacing, limit), spacing, Len(ranked))
<1>1. PICK n \in Nat : n = Len(ranked)
  OBVIOUS
<1>2. PICK acc : /\ Trace(acc, ranked, <<>>, padding, spacing, limit)
                 /\ Pick(ranked, <<>>, padding, spacing, limit) = acc[n]
  BY <1>1, PickRuns
<1>3. PICK P : P = {k \in 0 .. n : AheadOrPicked(ranked, acc[k], spacing, k)}
  OBVIOUS
<1>4. 0 \in P
  <2>1. acc[0] = <<>>
    BY <1>2 DEF Trace
  <2>2. <<>> \in Seq(Members(ranked)) /\ Len(<<>>) = 0 /\ 1 .. 0 = {}
    OBVIOUS
  <2>3. AheadOrPicked(ranked, <<>>, spacing, 0)
    BY <2>2 DEF AheadOrPicked
  <2>4. QED
    BY <1>1, <1>3, <2>1, <2>3
<1>5. ASSUME NEW k \in 1 .. n, k - 1 \in P PROVE k \in P
  <2>1. PICK picked : picked = acc[k - 1] /\ AheadOrPicked(ranked, picked, spacing, k - 1)
    BY <1>3, <1>5
  <2>2. acc[k] = Considered(picked, ranked[k], <<>>, padding, spacing, limit)
    BY <1>1, <1>2, <2>1 DEF Trace
  <2>3. AheadOrPicked(ranked, acc[k], spacing, k)
    BY <1>1, <2>1, <2>2, OneMoreConsidered
  <2>4. k \in 0 .. n
    BY <1>1
  <2>5. QED
    BY <1>3, <2>3, <2>4
<1>6. 0 .. n \subseteq P
  BY <1>1, <1>4, <1>5, Upwards
<1>7. AheadOrPicked(ranked, acc[n], spacing, n)
  BY <1>1, <1>3, <1>6
<1>8. QED
  BY <1>1, <1>2, <1>7

\* A death left out: another one is too near, and clearer, or as clear and earlier.
Supplanted(fs, p) ==
  \E q \in DeathPeaks(fs) :
    /\ \/ fs[q].report > fs[p].report
       \/ fs[q].report = fs[p].report /\ q < p
    /\ Overlaps(Death(fs, p), Death(fs, q), 5000)

\* A death is a window of the search, or is left out for a nearby one that is clearer or as clear and earlier.
LEMMA DeathsAreShownOrHidden ==
  ASSUME NEW fs, InTime(fs), NEW p \in DeathPeaks(fs)
  PROVE  Death(fs, p) \in Members(DeathReviewWindows(fs)) \/ Supplanted(fs, p)
<1>1. /\ Len(fs) \in Nat /\ DOMAIN fs = 1 .. Len(fs)
      /\ \A i \in DOMAIN fs : fs[i].at \in Nat /\ fs[i].report \in Nat
  BY FrameFacts
<1>2. PICK S : S = DeathPeaks(fs) /\ S \in SUBSET (1 .. Len(fs))
  BY DeathPeaksAreFrames
<1>3. IsFiniteSet(S) /\ Cardinality(S) \in Nat /\ Cardinality(S) <= Len(fs)
  <2>1. PICK n \in Nat : n = Len(fs)
    BY <1>1
  <2>2. IsFiniteSet(1 .. n) /\ Cardinality(1 .. n) = IF 1 > n THEN 0 ELSE n - 1 + 1
    BY FS_Interval
  <2>3. (IF 1 > n THEN 0 ELSE n - 1 + 1) = n /\ S \in SUBSET (1 .. n)
    BY <1>2, <2>1
  <2>4. IsFiniteSet(S) /\ Cardinality(S) <= Cardinality(1 .. n)
    BY <2>2, <2>3, FS_Subset
  <2>5. Cardinality(S) \in Nat
    BY <2>4, FS_CardinalityType
  <2>6. QED
    BY <2>1, <2>2, <2>3, <2>4, <2>5
<1>4. PICK q : q = Strongest(S, fs, "report")
  OBVIOUS
<1>5. PICK value, at : /\ q \in Seq(S) /\ Len(q) = Cardinality(S)
                       /\ value = [i \in S |-> fs[i]["report"]] /\ at = [i \in S |-> i]
                       /\ Descends(q, S, value, at)
  <2>1. \A i \in S : fs[i]["report"] \in Int
    BY <1>1, <1>2
  <2>2. QED
    BY <1>1, <1>2, <1>4, <2>1, StrongestFacts
<1>6. PICK ranked : ranked = [k \in DOMAIN q |-> Death(fs, q[k])]
  OBVIOUS
<1>7. /\ ranked \in Seq(Members(ranked)) /\ Len(ranked) = Len(q) /\ Len(q) \in Nat /\ Len(q) <= Len(fs)
      /\ \A k \in 1 .. Len(q) : q[k] \in S /\ ranked[k] = Death(fs, q[k])
  <2>1. PICK W : W = {Death(fs, i) : i \in S}
    OBVIOUS
  <2>2. DOMAIN q = 1 .. Len(q) /\ Len(q) \in Nat /\ \A k \in 1 .. Len(q) : q[k] \in S
    BY <1>5
  <2>3. ranked \in [DOMAIN q -> W]
    BY <1>6, <2>1, <2>2
  <2>4. ranked \in Seq(W)
    BY <1>5, <2>3, MappedFacts
  <2>5. ranked \in Seq(Members(ranked))
    BY <2>4, OwnElements
  <2>6. Len(ranked) = Len(q)
    BY <2>2, <2>3, <2>4
  <2>7. QED
    BY <1>3, <1>5, <1>6, <2>2, <2>5, <2>6
<1>8. PICK padding \in Nat : padding = 5000
  OBVIOUS
<1>9. PICK picked : /\ picked = DeathReviewWindows(fs)
                    /\ AheadOrPicked(ranked, picked, padding, Len(ranked))
  <2>1. PICK picked : picked = Pick(ranked, <<>>, padding, padding, Len(fs))
    OBVIOUS
  <2>2. AheadOrPicked(ranked, picked, padding, Len(ranked))
    BY <1>1, <1>7, <2>1, UnpickedOverlap
  <2>3. DeathReviewWindows(fs) = picked
    BY <1>2, <1>4, <1>6, <1>8, <2>1 DEF DeathReviewWindows
  <2>4. QED
    BY <2>2, <2>3
<1>10. PICK j \in 1 .. Len(q) : q[j] = p
  BY <1>2, <1>5 DEF Descends
<1>11. ranked[j] = Death(fs, p) /\ j \in 1 .. Len(ranked)
  BY <1>7, <1>10
<1>12. CASE \E i \in 1 .. Len(picked) : picked[i] = ranked[j]
  BY <1>9, <1>11, <1>12 DEF Members
<1>13. CASE \E i \in 1 .. j - 1 : Overlaps(ranked[j], ranked[i], padding)
  <2>1. PICK i \in 1 .. j - 1 : Overlaps(ranked[j], ranked[i], padding)
    BY <1>13
  <2>2. i \in 1 .. Len(q) /\ i < j
    BY <1>7, <1>10
  <2>3. Ahead(q[i], q[j], value, at)
    BY <1>5, <1>10, <2>2 DEF Descends
  <2>4. PICK o \in S : o = q[i] /\ ranked[i] = Death(fs, o)
    BY <1>7, <2>2
  <2>5. fs[o].report > fs[p].report \/ (fs[o].report = fs[p].report /\ o < p)
    BY <1>2, <1>5, <1>10, <2>3, <2>4 DEF Ahead
  <2>6. Overlaps(Death(fs, p), Death(fs, o), 5000)
    BY <1>8, <1>11, <2>1, <2>4
  <2>7. QED
    BY <1>2, <2>4, <2>5, <2>6 DEF Supplanted
<1>14. QED
  BY <1>9, <1>11, <1>12, <1>13 DEF AheadOrPicked

\* The deaths of a review are first in their rounds: the other searches add none.
LEMMA ReviewedDeathsAreFirst ==
  ASSUME budget \in Int, NEW fs, InTime(fs), NEW segments
  PROVE  \A k \in 1 .. Len(ReviewWindows(fs, segments)) :
           ReviewWindows(fs, segments)[k].kind = "death_review" =>
             FirstDeath(ReviewWindows(fs, segments)[k], Members(AssignRounds(DeathReviewWindows(fs), segments)))
<1>1. /\ Limit \in Nat /\ DeathBudget \in 1 .. 7 /\ DeathBudget <= Limit
  BY LimitFacts
<1>s. PICK S : S = Members(AssignRounds(DeathReviewWindows(fs), segments))
  OBVIOUS
<1>2. PICK a : a = SelectDeathWindowsByRound(AssignRounds(DeathReviewWindows(fs), segments), DeathBudget)
  OBVIOUS
<1>3. Tidy(fs, a) /\ Len(a) <= DeathBudget /\ FirstDeaths(a, S)
  BY <1>1, <1>2, <1>s, DeathsFitTheBudget
<1>4. Affordable(fs, a)
  <2>1. Len(a) \in Nat
    BY <1>3, TidyMembers
  <2>2. QED
    BY <1>1, <1>3, <2>1 DEF Affordable
<1>5. PICK b : b = WithFights(fs, a) /\ Affordable(fs, b) /\ NoNewDeaths(b, a)
  BY <1>4, SearchesAreAffordable
<1>6. PICK c : c = WithHolds(fs, b) /\ Affordable(fs, c) /\ NoNewDeaths(c, b)
  BY <1>5, SearchesAreAffordable
<1>7. PICK d : d = WithRotations(fs, c) /\ Affordable(fs, d) /\ NoNewDeaths(d, c)
  BY <1>6, SearchesAreAffordable
<1>8. PICK ws : ws = ReviewWindows(fs, segments) /\ ws = SortWindows(d)
  BY <1>2, <1>5, <1>6, <1>7 DEF ReviewWindows
<1>9. \A k \in 1 .. Len(ws) : ws[k] \in Members(d)
  BY <1>7, <1>8, SortedInTurn DEF Affordable
<1>10. ASSUME NEW k \in 1 .. Len(ws), ws[k].kind = "death_review" PROVE FirstDeath(ws[k], S)
  <2>1. PICK w : w = ws[k] /\ w \in Members(d) /\ w.kind = "death_review"
    BY <1>9, <1>10
  <2>2. w \in Members(c)
    BY <1>7, <2>1 DEF NoNewDeaths, Members
  <2>3. w \in Members(b)
    BY <1>6, <2>1, <2>2 DEF NoNewDeaths, Members
  <2>4. w \in Members(a)
    BY <1>5, <2>1, <2>3 DEF NoNewDeaths, Members
  <2>5. FirstDeath(w, S)
    BY <1>3, <2>4 DEF FirstDeaths, Members
  <2>6. QED
    BY <2>1, <2>5
<1>11. QED
  BY <1>8, <1>10, <1>s

\* Every death found has a round.
LEMMA DeathsAreInRounds ==
  ASSUME NEW fs, InTime(fs), fs # <<>>, NEW bounds, Cuts(fs, bounds),
         NEW segments, segments = RoundSegments(fs, bounds, <<>>),
         NEW w \in Members(AssignRounds(DeathReviewWindows(fs), segments))
  PROVE  w.round = RoundOf(segments, w) /\ w.round \in Nat /\ w.round > 0 /\ w.peak \in Nat
<1>1. PICK found : found = DeathReviewWindows(fs) /\ Tidy(fs, found)
  BY DeathsAreFound
<1>2. PICK deaths : deaths = AssignRounds(found, segments)
  OBVIOUS
<1>3. /\ Tidy(fs, deaths) /\ Len(deaths) = Len(found)
      /\ \A k \in 1 .. Len(found) : deaths[k].peak = found[k].peak /\ deaths[k].round = RoundOf(segments, found[k])
  BY <1>1, <1>2, RoundsAreAssigned
<1>4. PICK k \in 1 .. Len(found) : w = deaths[k]
  BY <1>1, <1>2, <1>3 DEF Members
<1>5. w.peak = found[k].peak /\ w.round = RoundOf(segments, found[k]) /\ ReviewWindow(fs, w)
  BY <1>3, <1>4 DEF Tidy
<1>6. RoundOf(segments, w) = RoundOf(segments, found[k])
  BY <1>5, SameRounds
<1>7. PICK i \in DOMAIN fs : w.peak = fs[i].at
  BY <1>5 DEF ReviewWindow
<1>8. PICK r \in 1 .. Len(bounds) - 1 :
        /\ InRound(bounds, r, w.peak)
        /\ \A q \in 1 .. Len(bounds) - 1 : InRound(bounds, q, w.peak) => q = r
  BY <1>7, FramesHaveARound
<1>9. RoundOf(segments, w) = r
  BY <1>8, RoundOfIs
<1>10. r \in Nat /\ r > 0
  OBVIOUS
<1>11. w.peak \in Nat
  BY <1>5 DEF ReviewWindow
<1>12. QED
  BY <1>5, <1>6, <1>9, <1>10, <1>11

\* Deaths are reviewed once a round, and none that was not left out is earlier.
FirstOfRounds(fs, segments, ws) ==
  \A k \in DOMAIN ws : ws[k].kind = "death_review" =>
    /\ \A j \in DOMAIN ws : ws[j].kind = "death_review" /\ ws[j].round = ws[k].round => j = k
    /\ \A p \in DeathPeaks(fs) :
         RoundOf(segments, [peak |-> fs[p].at]) = ws[k].round /\ fs[p].at < ws[k].peak => Supplanted(fs, p)

\* A death among the windows found is numbered by the round it happened in.
LEMMA ShownDeathFacts ==
  ASSUME NEW fs, InTime(fs), NEW bounds, Cuts(fs, bounds),
         NEW segments, segments = RoundSegments(fs, bounds, <<>>),
         NEW vs, NEW others, others = RoundSegments(fs, bounds, vs),
         NEW p \in DeathPeaks(fs), Death(fs, p) \in Members(DeathReviewWindows(fs))
  PROVE  \E v \in Members(AssignRounds(DeathReviewWindows(fs), segments)) :
           v.peak = fs[p].at /\ v.round = RoundOf(others, [peak |-> fs[p].at])
<1>1. PICK found : found = DeathReviewWindows(fs) /\ Tidy(fs, found)
  BY DeathsAreFound
<1>2. PICK deaths : deaths = AssignRounds(found, segments)
  OBVIOUS
<1>3. /\ Len(deaths) = Len(found)
      /\ \A k \in 1 .. Len(found) : deaths[k].peak = found[k].peak /\ deaths[k].round = RoundOf(segments, found[k])
  BY <1>1, <1>2, RoundsAreAssigned
<1>4. PICK k \in 1 .. Len(found) : found[k] = Death(fs, p)
  BY <1>1 DEF Members
<1>5. Death(fs, p).peak = fs[p].at
  BY DEF Death, Window
<1>6. PICK v, u : v = deaths[k] /\ u = [peak |-> fs[p].at]
  OBVIOUS
<1>7. v.peak = fs[p].at /\ u.peak = fs[p].at /\ found[k].peak = fs[p].at /\ v.round = RoundOf(segments, found[k])
  BY <1>3, <1>4, <1>5, <1>6
<1>8. RoundOf(segments, found[k]) = RoundOf(others, u)
  BY <1>7, SameRounds
<1>9. v \in Members(deaths)
  BY <1>3, <1>6 DEF Members
<1>10. QED
  BY <1>1, <1>2, <1>6, <1>7, <1>8, <1>9

\* The windows of a review hold one death of a round at most, the first one shown.
LEMMA ReviewedOncePerRound ==
  ASSUME budget \in Int, NEW fs, InTime(fs), fs # <<>>, NEW bounds, Cuts(fs, bounds),
         NEW segments, segments = RoundSegments(fs, bounds, <<>>),
         NEW vs, vs = AssignRounds(ReviewWindows(fs, segments), segments),
         NEW others, others = RoundSegments(fs, bounds, vs)
  PROVE  FirstOfRounds(fs, others, vs)
<1>1. PICK ws : ws = ReviewWindows(fs, segments) /\ Tidy(fs, ws)
  BY ReviewIsInTurn DEF Affordable
<1>2. PICK S : S = Members(AssignRounds(DeathReviewWindows(fs), segments))
  OBVIOUS
<1>3. /\ Tidy(fs, vs) /\ Len(vs) = Len(ws)
      /\ \A k \in 1 .. Len(ws) :
           vs[k].peak = ws[k].peak /\ vs[k].kind = ws[k].kind /\ vs[k].round = RoundOf(segments, ws[k])
  BY <1>1, RoundsAreAssigned
<1>4. Len(ws) \in Nat /\ DOMAIN ws = 1 .. Len(ws) /\ DOMAIN vs = 1 .. Len(ws)
  BY <1>1, <1>3, TidyMembers
<1>5. ASSUME NEW k \in 1 .. Len(ws), vs[k].kind = "death_review"
      PROVE  /\ ws[k] \in S /\ ws[k].round = vs[k].round /\ ws[k].peak = vs[k].peak /\ vs[k].peak \in Nat
             /\ \A v \in S : v.round = vs[k].round => ~(v.peak < vs[k].peak)
  <2>1. FirstDeath(ws[k], S)
    BY <1>1, <1>2, <1>3, <1>5, ReviewedDeathsAreFirst
  <2>2. ws[k] \in S
    BY <2>1 DEF FirstDeath
  <2>3. PICK w : w = ws[k] /\ w \in S
    BY <2>2
  <2>4. w.round = RoundOf(segments, w) /\ w.round > 0 /\ w.peak \in Nat
    BY <1>2, <2>3, DeathsAreInRounds
  <2>5. vs[k].round = w.round /\ vs[k].peak = w.peak
    BY <1>3, <2>3, <2>4
  <2>6. \A v \in S : v.round = w.round => ~(v.peak < w.peak)
    BY <2>1, <2>3, <2>4 DEF FirstDeath
  <2>7. QED
    BY <2>3, <2>4, <2>5, <2>6
<1>6. ASSUME NEW k \in 1 .. Len(ws), NEW j \in 1 .. Len(ws), vs[k].kind = "death_review",
             vs[j].kind = "death_review", vs[j].round = vs[k].round, j # k
      PROVE  FALSE
  <2>1. ~(vs[j].peak < vs[k].peak) /\ vs[j].peak \in Nat
    BY <1>5, <1>6
  <2>2. ~(vs[k].peak < vs[j].peak) /\ vs[k].peak \in Nat
    BY <1>5, <1>6
  <2>3. vs[j].peak = vs[k].peak
    BY <2>1, <2>2
  <2>4. ~Overlaps(vs[j], vs[k], 0) /\ ReviewWindow(fs, vs[j]) /\ ReviewWindow(fs, vs[k])
    BY <1>3, <1>6 DEF Tidy
  <2>5. vs[j].from \in Nat /\ vs[j].to \in Nat /\ vs[j].from <= vs[j].peak /\ vs[j].peak <= vs[j].to
    BY <2>4 DEF ReviewWindow
  <2>6. vs[k].from \in Nat /\ vs[k].to \in Nat /\ vs[k].from <= vs[k].peak /\ vs[k].peak <= vs[k].to
    BY <2>4 DEF ReviewWindow
  <2>7. QED
    BY <2>2, <2>3, <2>4, <2>5, <2>6, SMTT(30) DEF Overlaps
<1>7. ASSUME NEW k \in 1 .. Len(ws), vs[k].kind = "death_review", NEW p \in DeathPeaks(fs),
             RoundOf(others, [peak |-> fs[p].at]) = vs[k].round, fs[p].at < vs[k].peak
      PROVE  Supplanted(fs, p)
  <2>1. Death(fs, p) \in Members(DeathReviewWindows(fs)) \/ Supplanted(fs, p)
    BY DeathsAreShownOrHidden
  <2>2. ASSUME Death(fs, p) \in Members(DeathReviewWindows(fs)) PROVE FALSE
    <3>1. PICK v \in S : v.peak = fs[p].at /\ v.round = RoundOf(others, [peak |-> fs[p].at])
      BY <1>2, <2>2, ShownDeathFacts
    <3>2. v.round = vs[k].round /\ v.peak < vs[k].peak
      BY <1>7, <3>1
    <3>3. QED
      BY <1>5, <1>7, <3>2
  <2>3. QED
    BY <2>1, <2>2
<1>8. QED
  BY <1>4, <1>6, <1>7 DEF FirstOfRounds

\* Every step leaves the deaths first in their rounds.
LEMMA DeathsKept ==
  ASSUME WindowsInv, RoundsInv, FirstOfRounds(frames, rounds, windows), [MatchNext]_matchVars
  PROVE  FirstOfRounds(frames, rounds, windows)'
<1>0. budget \in Int /\ InTime(frames) /\ (stage # "done" => windows = <<>>) /\ DOMAIN <<>> = {}
  BY NothingDecided DEF WindowsInv
<1>a. ASSUME windows' = <<>>
      PROVE  FirstOfRounds(frames, rounds, windows)'
  BY <1>0, <1>a DEF FirstOfRounds
<1>b. ASSUME UNCHANGED <<frames, windows, rounds>>
      PROVE  FirstOfRounds(frames, rounds, windows)'
  <2>1. frames' = frames /\ windows' = windows /\ rounds' = rounds
    BY <1>b
  <2>2. FirstOfRounds(frames', rounds', windows')
    BY <2>1
  <2>3. QED
    BY <2>2
<1>1. ASSUME Recognize PROVE FirstOfRounds(frames, rounds, windows)'
  BY <1>0, <1>1, <1>a DEF Recognize
<1>2. ASSUME Unreadable PROVE FirstOfRounds(frames, rounds, windows)'
  BY <1>0, <1>2, <1>a DEF Unreadable
<1>3. ASSUME Segment PROVE FirstOfRounds(frames, rounds, windows)'
  BY <1>0, <1>3, <1>a DEF Segment
<1>4. ASSUME Select PROVE FirstOfRounds(frames, rounds, windows)'
  <2>1. PICK vs : vs = AssignRounds(ReviewWindows(frames, rounds), rounds)
    OBVIOUS
  <2>2. PICK bounds : bounds = Boundaries(frames)
    OBVIOUS
  <2>3. frames # <<>> /\ rounds = RoundSegments(frames, bounds, <<>>) /\ Cuts(frames, bounds)
    BY <1>0, <1>4, <2>2, BoundariesCut DEF Select, RoundsInv
  <2>4. PICK segments : segments = RoundSegments(frames, bounds, vs)
    OBVIOUS
  <2>5. windows' = vs /\ frames' = frames /\ rounds' = segments
    BY <1>4, <2>1, <2>2, <2>4 DEF Select
  <2>6. FirstOfRounds(frames, segments, vs)
    BY <1>0, <2>1, <2>3, <2>4, ReviewedOncePerRound
  <2>7. FirstOfRounds(frames', rounds', windows')
    BY <2>5, <2>6
  <2>8. QED
    BY <2>7
<1>5. ASSUME Report PROVE FirstOfRounds(frames, rounds, windows)'
  BY <1>5, <1>a DEF Report
<1>6. ASSUME OpenDecision PROVE FirstOfRounds(frames, rounds, windows)'
  BY <1>6, <1>b DEF OpenDecision
<1>7. ASSUME OpenEvaluation PROVE FirstOfRounds(frames, rounds, windows)'
  BY <1>7, <1>b DEF OpenEvaluation
<1>8. ASSUME Assess \/ UNCHANGED matchVars PROVE FirstOfRounds(frames, rounds, windows)'
  BY <1>8, <1>b DEF Assess, matchVars, reviewVars
<1>9. QED
  BY <1>1, <1>2, <1>3, <1>4, <1>5, <1>6, <1>7, <1>8 DEF MatchNext, Analyze, ReviewNext

\* At most one death of a round is reviewed, and every earlier onset of its round
\* is too near one that is clearer, or as clear and earlier (buildDeathReviewWindows,
\* selectDeathWindowsByRound), for any recording.
THEOREM TheDeathsAreFirst == MatchSpec => []OneDeathPerRound
<1>1. MatchInit => FirstOfRounds(frames, rounds, windows)
  <2> SUFFICES ASSUME MatchInit PROVE FirstOfRounds(frames, rounds, windows)
    OBVIOUS
  <2>1. windows = <<>>
    BY DEF MatchInit, ReviewInit
  <2>2. QED
    BY <2>1, NothingDecided DEF FirstOfRounds
<1>2. WindowsInv /\ RoundsInv /\ FirstOfRounds(frames, rounds, windows) /\ [MatchNext]_matchVars
        => FirstOfRounds(frames, rounds, windows)'
  BY DeathsKept
<1>3. FirstOfRounds(frames, rounds, windows) => OneDeathPerRound
  BY DEF FirstOfRounds, OneDeathPerRound, Supplanted
<1>4. QED
  BY <1>1, <1>2, <1>3, RoundsInvariantHolds, PTL DEF MatchSpec

-----------------------------------------------------------------------------
(* Sums.                                                                    *)

\* What a sum over the subsets of K computes (MapThenSumSet), its terms given
\* by v.
SumOf(g, K, v) ==
  g = [s \in SUBSET K |-> IF s = {} THEN 0 ELSE v[s] + g[s \ {CHOOSE k \in s : TRUE}]]

\* A is made of B and C, which have nothing in common.
SplitsInto(A, B, C) == A = B \cup C /\ B \cap C = {}

\* The parts of a finite set count what the set counts.
LEMMA PartsAreDisjoint ==
  ASSUME NEW A, IsFiniteSet(A), NEW B, NEW C, SplitsInto(A, B, C)
  PROVE  Cardinality(A) = Cardinality(B) + Cardinality(C) /\ Cardinality(B) \in Nat /\ Cardinality(C) \in Nat
<1>0. A = B \cup C /\ B \cap C = {}
  BY DEF SplitsInto
<1>1. IsFiniteSet(B) /\ IsFiniteSet(C)
  <2>1. B \in SUBSET A /\ C \in SUBSET A
    BY <1>0
  <2>2. QED
    BY <2>1, FS_Subset
<1>2. Cardinality(B) \in Nat /\ Cardinality(C) \in Nat
  BY <1>1, FS_CardinalityType
<1>3. Cardinality(B \cup C) = Cardinality(B) + Cardinality(C) - Cardinality(B \cap C)
  BY <1>1, FS_Union
<1>4. Cardinality(B \cap C) = 0
  BY <1>0, FS_EmptySet
<1>5. QED
  BY <1>0, <1>2, <1>3, <1>4

\* What CHOOSE takes from a set that is not empty is in it.
LEMMA ChosenIsIn ==
  ASSUME NEW s, s # {}
  PROVE  (CHOOSE k \in s : TRUE) \in s
<1>1. \E k : k \in s
  OBVIOUS
<1>2. QED
  BY <1>1, Zenon

\* The term of a subset of K is the number of elements of X in its chosen part.
CountsParts(v, K, X, part) ==
  \A s \in SUBSET K : s # {} => v[s] = Cardinality({x \in X : part[x] = (CHOOSE k \in s : TRUE)})

\* A sum over the parts of a finite set exists, and whatever function satisfies its
\* recursion counts the set.
LEMMA PartsAddUp ==
  ASSUME NEW X, IsFiniteSet(X), NEW part, NEW K, IsFiniteSet(K), \A x \in X : part[x] \in K,
         NEW v, CountsParts(v, K, X, part)
  PROVE  /\ \E g : SumOf(g, K, v)
         /\ \A g : SumOf(g, K, v) => g[K] = Cardinality(X)
<1>1. PICK size : size = [s \in SUBSET K |-> Cardinality({x \in X : part[x] \in s})]
  OBVIOUS
<1>2. PICK first : first = [s \in SUBSET K |-> CHOOSE k \in s : TRUE]
  OBVIOUS
<1>3. size[{}] = 0 /\ size[K] = Cardinality(X)
  <2>1. {x \in X : part[x] \in {}} = {} /\ {x \in X : part[x] \in K} = X
    OBVIOUS
  <2>2. QED
    BY <1>1, <2>1, FS_EmptySet
<1>4. ASSUME NEW s \in SUBSET K, s # {}
      PROVE  first[s] \in s /\ s \ {first[s]} \in SUBSET K /\ size[s] = v[s] + size[s \ {first[s]}]
  <2>1. PICK k : k = (CHOOSE j \in s : TRUE) /\ k \in s
    BY <1>4, ChosenIsIn
  <2>2. PICK A, B, C : /\ A = {x \in X : part[x] \in s} /\ B = {x \in X : part[x] = k}
                       /\ C = {x \in X : part[x] \in s \ {k}}
    OBVIOUS
  <2>3. IsFiniteSet(A) /\ SplitsInto(A, B, C)
    <3>1. A \in SUBSET X
      BY <2>2
    <3>2. A = B \cup C /\ B \cap C = {}
      BY <2>1, <2>2
    <3>3. QED
      BY <3>1, <3>2, FS_Subset DEF SplitsInto
  <2>4. Cardinality(A) = Cardinality(B) + Cardinality(C)
    BY <2>3, PartsAreDisjoint
  <2>5. v[s] = Cardinality({x \in X : part[x] = k})
    BY <1>4, <2>1 DEF CountsParts
  <2>6. first[s] = k
    BY <1>2, <2>1
  <2>7. s \ {k} \in SUBSET K
    OBVIOUS
  <2>8. size[s] = Cardinality(A) /\ size[s \ {k}] = Cardinality(C) /\ v[s] = Cardinality(B)
    BY <1>1, <2>2, <2>5, <2>7
  <2>9. QED
    BY <2>1, <2>6, <2>7, <2>8, <2>4
<1>5. SumOf(size, K, v)
  <2>1. ASSUME NEW s \in SUBSET K
        PROVE  size[s] = IF s = {} THEN 0 ELSE v[s] + size[s \ {CHOOSE k \in s : TRUE}]
    <3>1. CASE s = {}
      BY <1>3, <3>1
    <3>2. CASE s # {}
      <4>1. first[s] = CHOOSE k \in s : TRUE
        BY <1>2
      <4>2. size[s] = v[s] + size[s \ {first[s]}]
        BY <1>4, <3>2
      <4>3. QED
        BY <3>2, <4>1, <4>2
    <3>3. QED
      BY <3>1, <3>2
  <2>2. size = [s \in SUBSET K |-> size[s]]
    BY <1>1
  <2>3. QED
    BY <2>1, <2>2 DEF SumOf
<1>6. ASSUME NEW g, SumOf(g, K, v) PROVE g[K] = Cardinality(X)
  <2>1. \A s \in SUBSET K : g[s] = IF s = {} THEN 0 ELSE v[s] + g[s \ {first[s]}]
    BY <1>2, <1>6 DEF SumOf
  <2>2. PICK T : T = {n \in Nat : \E s \in SUBSET K : Cardinality(s) = n /\ g[s] # size[s]}
    OBVIOUS
  <2>3. ASSUME T # {} PROVE FALSE
    <3>1. T \in SUBSET Nat
      BY <2>2
    <3>2. PICK n \in T : \A m \in T : n <= m
      BY <2>3, <3>1, LeastNat
    <3>3. PICK s \in SUBSET K : Cardinality(s) = n /\ g[s] # size[s]
      BY <2>2, <3>2
    <3>4. s # {}
      BY <1>3, <2>1, <3>3
    <3>5. PICK r : r = s \ {first[s]}
      OBVIOUS
    <3>6. first[s] \in s /\ r \in SUBSET K /\ size[s] = v[s] + size[r]
      BY <1>4, <3>4, <3>5
    <3>7. g[s] = v[s] + g[r]
      BY <2>1, <3>4, <3>5
    <3>8. Cardinality(r) \in Nat /\ Cardinality(r) = n - 1
      <4>1. IsFiniteSet(s)
        BY FS_Subset
      <4>2. IsFiniteSet(r) /\ Cardinality(r) = Cardinality(s) - 1
        BY <3>5, <3>6, <4>1, FS_RemoveElement
      <4>3. QED
        BY <3>3, <4>2, FS_CardinalityType
    <3>9. Cardinality(r) \notin T
      BY <3>1, <3>2, <3>8
    <3>10. g[r] = size[r]
      BY <2>2, <3>6, <3>8, <3>9
    <3>11. QED
      BY <3>3, <3>6, <3>7, <3>10
  <2>4. Cardinality(K) \in Nat
    BY FS_CardinalityType
  <2>5. g[K] = size[K]
    BY <2>2, <2>3, <2>4
  <2>6. QED
    BY <1>3, <2>5
<1>7. QED
  BY <1>5, <1>6

-----------------------------------------------------------------------------
(* Matching.                                                                *)

\* Labels, or events, that say when.
Timed(q) == q \in Seq(Members(q)) /\ \A k \in 1 .. Len(q) : q[k].at \in Int

\* The nearest event is one the label may take, and no nearer one was free.
LEMMA NearestIsFree ==
  ASSUME NEW es, Timed(es), NEW label, label.at \in Int, NEW used, NEW reach,
         NEW n, n = Nearest(label, es, used, reach)
  PROVE  /\ n \in 0 .. Len(es) /\ Len(es) \in Nat /\ DOMAIN es = 1 .. Len(es)
         /\ n # 0 => n \in Free(label, es, used, reach)
         /\ \A e \in Free(label, es, used, reach) : n # 0 /\ Delta(label, es[n]) <= Delta(label, es[e])
<1>1. DOMAIN es = 1 .. Len(es) /\ Len(es) \in Nat
  BY DEF Timed
<1>2. PICK S : S = Free(label, es, used, reach) /\ S \in SUBSET (1 .. Len(es))
  BY <1>1 DEF Free
<1>3. S \in SUBSET Int /\ IsFiniteSet(S)
  <2>1. IsFiniteSet(1 .. Len(es))
    BY <1>1, FS_Interval
  <2>2. IsFiniteSet(S)
    BY <1>2, <2>1, FS_Subset
  <2>3. QED
    BY <1>2, <2>2
<1>4. \A e \in S : Delta(label, es[e]) \in Int
  <2>1. ASSUME NEW e \in S PROVE Delta(label, es[e]) \in Int
    <3>1. es[e].at \in Int
      BY <1>2 DEF Timed
    <3>2. QED
      BY <3>1 DEF Delta
  <2>2. QED
    BY <2>1
<1>5. CASE S = {}
  <2>1. n = 0
    BY <1>2, <1>5 DEF Nearest
  <2>2. QED
    BY <1>1, <1>2, <1>5, <2>1
<1>6. CASE S # {}
  <2>1. PICK T : T = {e \in S : \A f \in S : Delta(label, es[e]) <= Delta(label, es[f])}
    OBVIOUS
  <2>2. PICK value : value = [e \in S |-> 0 - Delta(label, es[e])]
    OBVIOUS
  <2>3. \A e \in S : value[e] \in Int /\ value[e] = 0 - Delta(label, es[e])
    BY <1>4, <2>2
  <2>4. PICK U : U = {e \in S : \A f \in S : value[f] <= value[e]}
    OBVIOUS
  <2>5. T = U
    BY <1>4, <2>1, <2>3, <2>4
  <2>6. n = Min(T)
    BY <1>2, <1>6, <2>1 DEF Nearest
  <2>7. Min(U) \in S /\ \A f \in S : value[f] <= value[Min(U)]
    BY <1>3, <1>6, <2>3, <2>4, BestFacts
  <2>8. n \in S /\ \A f \in S : Delta(label, es[n]) <= Delta(label, es[f])
    BY <1>4, <2>3, <2>5, <2>6, <2>7
  <2>9. n \in 1 .. Len(es)
    BY <1>2, <2>8
  <2>10. n \in 0 .. Len(es) /\ n # 0
    BY <1>1, <2>9
  <2>11. QED
    BY <1>1, <1>2, <2>8, <2>10
<1>7. QED
  BY <1>5, <1>6

\* The matches once a label has had its turn.
Matched(match, label, es, reach) == Append(match, Nearest(label, es, ToSet(match), reach))

\* The matching as the fold that FoldLeft is, written out.
LEMMA MatchIsFold ==
  ASSUME NEW ls, NEW es, NEW reach
  PROVE  MatchEvaluationLabels(ls, es, reach) =
           (CHOOSE g : g = [s \in SUBSET DOMAIN ls |->
              IF s = {} THEN <<>> ELSE Matched(g[s \ {Max(s)}], ls[Max(s)], es, reach)])[DOMAIN ls]
BY DEF MatchEvaluationLabels, FoldLeft, MapThenFoldSet, Matched

\* The matches after each label.
MatchTrace(acc, ls, es, reach) ==
  /\ acc[0] = <<>>
  /\ \A k \in 1 .. Len(ls) : acc[k] = Matched(acc[k - 1], ls[k], es, reach)

\* The matching is the last of the matches after each label.
LEMMA MatchRuns ==
  ASSUME NEW es, Timed(es), NEW ls, Timed(ls), NEW reach
  PROVE  \E acc : /\ MatchTrace(acc, ls, es, reach)
                  /\ MatchEvaluationLabels(ls, es, reach) = acc[Len(ls)]
<1> DEFINE n == Len(ls)
           D == 1 .. n
           A == Seq(0 .. Len(es))
           Next1(p, x) == Matched(p, ls[x], es, reach)
           Fold(g) == g = [s \in SUBSET D |-> IF s = {} THEN <<>> ELSE Next1(g[s \ {Max(s)}], Max(s))]
<1>1. n \in Nat /\ DOMAIN ls = D /\ \A k \in D : ls[k].at \in Int
  BY DEF Timed
<1>2. D \in SUBSET Nat /\ IsFiniteSet(D)
  BY <1>1, FS_Interval
<1>3. <<>> \in A
  OBVIOUS
<1>4. ASSUME NEW p \in A, NEW x \in D PROVE Next1(p, x) \in A
  <2>1. PICK m : m = Nearest(ls[x], es, ToSet(p), reach)
    OBVIOUS
  <2>2. m \in 0 .. Len(es)
    BY <1>1, <2>1, NearestIsFree
  <2>3. Append(p, m) \in A
    BY <2>2
  <2>4. QED
    BY <2>1, <2>3 DEF Matched
<1>5. PICK step : step = [p \in A \X D |-> Next1(p[1], p[2])]
  OBVIOUS
<1>6. step \in [A \X D -> A] /\ \A p \in A : \A x \in D : step[<<p, x>>] = Next1(p, x)
  BY <1>4, <1>5
<1> HIDE DEF Next1, A, n
<1>7. \E g : Fold(g)
  <2>1. PICK g \in [SUBSET D -> A] : Folds(g, D, <<>>, step)
    BY <1>2, <1>3, <1>6, FoldExists
  <2>2. ASSUME NEW s \in SUBSET D, s # {}
        PROVE  step[<<g[s \ {Max(s)}], Max(s)>>] = Next1(g[s \ {Max(s)}], Max(s))
    <3>1. g[s \ {Max(s)}] \in A /\ Max(s) \in D
      BY <1>1, <2>2, FoldSteps
    <3>2. QED
      BY <1>6, <3>1
  <2>3. Fold(g)
    BY <2>1, <2>2 DEF Folds
  <2>4. QED
    BY <2>3
<1>8. PICK g : g = CHOOSE h : Fold(h)
  OBVIOUS
<1>9. Fold(g)
  BY <1>7, <1>8
<1>10. MatchEvaluationLabels(ls, es, reach) = g[D]
  BY <1>1, <1>8, MatchIsFold DEF Next1
<1>11. PICK v : v = [s \in SUBSET D |-> Next1(g[s \ {Max(s)}], Max(s))]
  OBVIOUS
<1>12. FoldOf(g, n, <<>>, v) /\ StepTyped(n, A, step)
  BY <1>6, <1>9, <1>11 DEF FoldOf, StepTyped
<1>13. ASSUME NEW k \in D, g[1 .. k - 1] \in A PROVE v[1 .. k] = step[<<g[1 .. k - 1], k>>]
  <2>1. Max(1 .. k) = k /\ (1 .. k) \ {k} = 1 .. k - 1 /\ 1 .. k \in SUBSET D
    BY <1>1, PrefixFacts
  <2>2. v[1 .. k] = Next1(g[1 .. k - 1], k)
    BY <1>11, <2>1
  <2>3. QED
    BY <1>6, <1>13, <2>2
<1>14. PICK acc : Runs1(acc, n, A, <<>>, step) /\ acc[n] = g[D]
  BY <1>1, <1>3, <1>12, <1>13, FoldRuns
<1>15. acc[0] = <<>> /\ \A k \in D : acc[k] = Next1(acc[k - 1], k)
  <2>1. acc[0] = <<>> /\ \A k \in D : acc[k] = step[<<acc[k - 1], k>>]
    BY <1>14 DEF Runs1
  <2>2. \A k \in D : k - 1 \in 0 .. n
    BY <1>1
  <2>3. \A k \in D : acc[k - 1] \in A
    BY <1>14, <2>2 DEF Runs1
  <2>4. QED
    BY <1>6, <2>1, <2>3
<1>16. MatchTrace(acc, ls, es, reach)
  BY <1>15 DEF MatchTrace, Next1, n
<1>17. QED
  BY <1>10, <1>14, <1>16 DEF n

\* The l-th label took the nearest of the compatible events that those before
\* it had left.
TakesNearest(match, label, es, reach, l) ==
  /\ match[l] # 0 =>
       /\ match[l] \in DOMAIN es /\ LabelMatchesEvent(label, es[match[l]])
       /\ \A j \in 1 .. l - 1 : match[j] # match[l]
  /\ \A e \in DOMAIN es :
       (\A j \in 1 .. l - 1 : match[j] # e) /\ LabelMatchesEvent(label, es[e]) /\ Delta(label, es[e]) <= reach
         => match[l] # 0 /\ Delta(label, es[match[l]]) <= Delta(label, es[e])

MatchedInTurn(match, ls, es, reach, k) ==
  /\ match \in Seq(0 .. Len(es)) /\ Len(match) = k
  /\ \A l \in 1 .. k : TakesNearest(match, ls[l], es, reach, l)

\* One more label takes the nearest event that is left and disturbs no earlier match.
LEMMA OneMoreMatched ==
  ASSUME NEW es, Timed(es), NEW ls, Timed(ls), NEW reach,
         NEW k \in 1 .. Len(ls), NEW match, MatchedInTurn(match, ls, es, reach, k - 1)
  PROVE  MatchedInTurn(Matched(match, ls[k], es, reach), ls, es, reach, k)
<1>1. PICK n : n = Nearest(ls[k], es, ToSet(match), reach)
  OBVIOUS
<1>2. ls[k].at \in Int
  BY DEF Timed
<1>3. /\ n \in 0 .. Len(es) /\ DOMAIN es = 1 .. Len(es)
      /\ n # 0 => n \in Free(ls[k], es, ToSet(match), reach)
      /\ \A e \in Free(ls[k], es, ToSet(match), reach) : n # 0 /\ Delta(ls[k], es[n]) <= Delta(ls[k], es[e])
  BY <1>1, <1>2, NearestIsFree
<1>4. k \in Nat /\ Len(ls) \in Nat /\ \A l \in 1 .. k : l \in 1 .. k - 1 \/ l = k
  BY DEF Timed
<1>5. /\ match \in Seq(0 .. Len(es)) /\ Len(match) = k - 1 /\ DOMAIN match = 1 .. k - 1
      /\ \A l \in 1 .. k - 1 : TakesNearest(match, ls[l], es, reach, l)
  BY <1>4 DEF MatchedInTurn
<1>6. PICK t : t = Append(match, n) /\ t = Matched(match, ls[k], es, reach)
  BY <1>1 DEF Matched
<1>7. /\ t \in Seq(0 .. Len(es)) /\ Len(t) = k /\ t[k] = n /\ \A l \in 1 .. k - 1 : t[l] = match[l]
  <2>1. PICK V : V = 0 .. Len(es)
    OBVIOUS
  <2>2. PICK u \in Seq(V) : u = match
    BY <1>5, <2>1
  <2>3. PICK m \in V : m = n
    BY <1>3, <2>1
  <2>4. t = Append(u, m)
    BY <1>6, <2>2, <2>3
  <2>5. t \in Seq(V) /\ Len(t) = Len(u) + 1 /\ t[Len(t)] = m /\ \A l \in 1 .. Len(u) : t[l] = u[l]
    BY <2>4, AppendFacts
  <2>6. Len(match) = k - 1 /\ Len(match) + 1 = k
    BY <1>4, <1>5
  <2>7. QED
    BY <2>1, <2>2, <2>3, <2>5, <2>6
<1>8. ToSet(match) = {match[j] : j \in 1 .. k - 1}
  BY <1>5 DEF ToSet
<1>9. ASSUME NEW e
      PROVE  e \in Free(ls[k], es, ToSet(match), reach) <=>
               /\ e \in DOMAIN es /\ LabelMatchesEvent(ls[k], es[e]) /\ Delta(ls[k], es[e]) <= reach
               /\ \A j \in 1 .. k - 1 : t[j] # e
  <2>1. e \in ToSet(match) <=> \E j \in 1 .. k - 1 : match[j] = e
    BY <1>8
  <2>2. \A j \in 1 .. k - 1 : t[j] = match[j]
    BY <1>7
  <2>3. e \notin ToSet(match) <=> \A j \in 1 .. k - 1 : t[j] # e
    BY <2>1, <2>2
  <2>4. QED
    BY <2>3 DEF Free
<1>10. TakesNearest(t, ls[k], es, reach, k)
  BY <1>3, <1>7, <1>9 DEF TakesNearest
<1>11. ASSUME NEW l \in 1 .. k - 1 PROVE TakesNearest(t, ls[l], es, reach, l)
  <2>1. t[l] = match[l] /\ \A j \in 1 .. l - 1 : t[j] = match[j]
    BY <1>4, <1>7
  <2>2. TakesNearest(match, ls[l], es, reach, l)
    BY <1>5
  <2>3. QED
    BY <2>1, <2>2 DEF TakesNearest
<1>12. QED
  BY <1>4, <1>6, <1>7, <1>10, <1>11 DEF MatchedInTurn

\* However many labels there are, each took the nearest event its turn left it.
LEMMA LabelsAreMatchedInTurn ==
  ASSUME NEW es, Timed(es), NEW ls, Timed(ls), NEW reach
  PROVE  MatchedInTurn(MatchEvaluationLabels(ls, es, reach), ls, es, reach, Len(ls))
<1>1. PICK n \in Nat : n = Len(ls)
  BY DEF Timed
<1>2. PICK acc : MatchTrace(acc, ls, es, reach) /\ MatchEvaluationLabels(ls, es, reach) = acc[n]
  BY <1>1, MatchRuns
<1>3. PICK P : P = {k \in 0 .. n : MatchedInTurn(acc[k], ls, es, reach, k)}
  OBVIOUS
<1>4. 0 \in P
  <2>1. <<>> \in Seq(0 .. Len(es)) /\ Len(<<>>) = 0 /\ 1 .. 0 = {}
    OBVIOUS
  <2>2. MatchedInTurn(acc[0], ls, es, reach, 0)
    BY <1>2, <2>1 DEF MatchedInTurn, MatchTrace
  <2>3. QED
    BY <1>1, <1>3, <2>2
<1>5. ASSUME NEW k \in 1 .. n, k - 1 \in P PROVE k \in P
  <2>1. MatchedInTurn(acc[k - 1], ls, es, reach, k - 1)
    BY <1>3, <1>5
  <2>2. MatchedInTurn(acc[k], ls, es, reach, k)
    <3>1. acc[k] = Matched(acc[k - 1], ls[k], es, reach)
      BY <1>1, <1>2 DEF MatchTrace
    <3>2. QED
      BY <1>1, <2>1, <3>1, OneMoreMatched
  <2>3. k \in 0 .. n
    BY <1>1
  <2>4. QED
    BY <1>3, <2>2, <2>3
<1>6. 0 .. n \subseteq P
  BY <1>1, <1>4, <1>5, Upwards
<1>7. MatchedInTurn(acc[n], ls, es, reach, n)
  BY <1>1, <1>3, <1>6
<1>8. QED
  BY <1>1, <1>2, <1>7

-----------------------------------------------------------------------------
(* Events and labels.                                                       *)

\* The events kept once one more was looked at.
Kept(kept, event, ls, types) ==
  IF Wanted(event, ls, types) THEN Append(kept, event) ELSE kept

\* The events that count as the fold that FoldLeft is, written out.
LEMMA EvaluatedIsFold ==
  ASSUME NEW es, NEW ls, NEW types
  PROVE  EvaluatedEvents(es, ls, types) =
           (CHOOSE g : g = [s \in SUBSET DOMAIN es |->
              IF s = {} THEN <<>> ELSE Kept(g[s \ {Max(s)}], es[Max(s)], ls, types)])[DOMAIN es]
BY DEF EvaluatedEvents, FoldLeft, MapThenFoldSet, Kept

\* The events that count are some of the report's.
LEMMA EvaluatedAreTimed ==
  ASSUME NEW es, Timed(es), NEW ls, NEW types
  PROVE  Timed(EvaluatedEvents(es, ls, types))
<1> DEFINE n == Len(es)
           D == 1 .. n
           A == Seq(Members(es))
           Next1(p, x) == Kept(p, es[x], ls, types)
           Fold(g) == g = [s \in SUBSET D |-> IF s = {} THEN <<>> ELSE Next1(g[s \ {Max(s)}], Max(s))]
<1>1. n \in Nat /\ DOMAIN es = D /\ \A k \in D : es[k] \in Members(es)
  BY DEF Timed, Members
<1>2. D \in SUBSET Nat /\ IsFiniteSet(D)
  BY <1>1, FS_Interval
<1>3. <<>> \in A
  OBVIOUS
<1>4. ASSUME NEW p \in A, NEW x \in D PROVE Next1(p, x) \in A
  <2>1. Append(p, es[x]) \in A
    BY <1>1
  <2>2. QED
    BY <2>1 DEF Kept
<1>5. PICK step : step = [p \in A \X D |-> Next1(p[1], p[2])]
  OBVIOUS
<1>6. step \in [A \X D -> A] /\ \A p \in A : \A x \in D : step[<<p, x>>] = Next1(p, x)
  BY <1>4, <1>5
<1>0. \A p \in A : p \in Seq(Members(es))
  OBVIOUS
<1> HIDE DEF Next1, A, n
<1>7. \E g : Fold(g)
  <2>1. PICK g \in [SUBSET D -> A] : Folds(g, D, <<>>, step)
    BY <1>2, <1>3, <1>6, FoldExists
  <2>2. ASSUME NEW s \in SUBSET D, s # {}
        PROVE  step[<<g[s \ {Max(s)}], Max(s)>>] = Next1(g[s \ {Max(s)}], Max(s))
    <3>1. g[s \ {Max(s)}] \in A /\ Max(s) \in D
      BY <1>1, <2>2, FoldSteps
    <3>2. QED
      BY <1>6, <3>1
  <2>3. Fold(g)
    BY <2>1, <2>2 DEF Folds
  <2>4. QED
    BY <2>3
<1>8. PICK g : g = CHOOSE h : Fold(h)
  OBVIOUS
<1>9. Fold(g)
  BY <1>7, <1>8
<1>10. EvaluatedEvents(es, ls, types) = g[D]
  BY <1>1, <1>8, EvaluatedIsFold DEF Next1
<1>11. PICK v : v = [s \in SUBSET D |-> Next1(g[s \ {Max(s)}], Max(s))]
  OBVIOUS
<1>12. FoldOf(g, n, <<>>, v) /\ StepTyped(n, A, step)
  BY <1>6, <1>9, <1>11 DEF FoldOf, StepTyped
<1>13. ASSUME NEW k \in D, g[1 .. k - 1] \in A PROVE v[1 .. k] = step[<<g[1 .. k - 1], k>>]
  <2>1. Max(1 .. k) = k /\ (1 .. k) \ {k} = 1 .. k - 1 /\ 1 .. k \in SUBSET D
    BY <1>1, PrefixFacts
  <2>2. v[1 .. k] = Next1(g[1 .. k - 1], k)
    BY <1>11, <2>1
  <2>3. QED
    BY <1>6, <1>13, <2>2
<1>14. PICK acc : Runs1(acc, n, A, <<>>, step) /\ acc[n] = g[D]
  BY <1>1, <1>3, <1>12, <1>13, FoldRuns
<1>15. g[D] \in A
  <2>1. n \in 0 .. n
    BY <1>1
  <2>2. QED
    BY <1>14, <2>1 DEF Runs1
<1>16. PICK q : q = EvaluatedEvents(es, ls, types) /\ q \in Seq(Members(es))
  BY <1>10, <1>15, <1>0
<1>17. q \in Seq(Members(q)) /\ \A k \in 1 .. Len(q) : q[k] \in Members(es)
  BY <1>16, OwnElements
<1>18. \A e \in Members(es) : e.at \in Int
  BY DEF Timed, Members
<1>19. QED
  BY <1>16, <1>17, <1>18 DEF Timed

\* The indices of the labels, by time and then as they are listed.
LabelOrder(ls) ==
  [k \in 1 .. Cardinality(DOMAIN ls) |->
    CHOOSE l \in DOMAIN ls : Cardinality({j \in DOMAIN ls :
      ls[j].at < ls[l].at \/ (ls[j].at = ls[l].at /\ j < l)}) = k - 1]

\* SortedLabels, its order named.
LEMMA LabelsInOrder ==
  ASSUME NEW ls
  PROVE  SortedLabels(ls) = [k \in DOMAIN LabelOrder(ls) |-> ls[LabelOrder(ls)[k]]]
BY DEF SortedLabels, Sorted, LabelOrder

\* Sorting labels by time leaves labels that say when.
LEMMA LabelsAreSorted ==
  ASSUME NEW ls, Timed(ls)
  PROVE  Timed(SortedLabels(ls))
<1> DEFINE S == DOMAIN ls
<1>1. S = 1 .. Len(ls) /\ IsFiniteSet(S) /\ S \in SUBSET Int
  <2>1. DOMAIN ls = 1 .. Len(ls) /\ Len(ls) \in Nat
    BY DEF Timed
  <2>2. IsFiniteSet(1 .. Len(ls))
    BY <2>1, FS_Interval
  <2>3. QED
    BY <2>1, <2>2
<1>6. PICK q : /\ q = LabelOrder(ls)
               /\ q = [k \in 1 .. Cardinality(S) |->
                        CHOOSE l \in S : Cardinality({j \in S :
                          ls[j].at < ls[l].at \/ (ls[j].at = ls[l].at /\ j < l)}) = k - 1]
  BY DEF LabelOrder
<1> HIDE DEF S
<1>2. \A k \in S : ls[k].at \in Int
  BY <1>1 DEF Timed
<1>3. PICK R : R = {p \in S \X S : ls[p[1]].at < ls[p[2]].at \/ (ls[p[1]].at = ls[p[2]].at /\ p[1] < p[2])}
  OBVIOUS
<1>4. \A k, l \in S : <<k, l>> \in R <=> ls[k].at < ls[l].at \/ (ls[k].at = ls[l].at /\ k < l)
  BY <1>3
<1>5. TotalOrder(S, R)
  <2>1. PICK at : at = [k \in S |-> ls[k].at]
    OBVIOUS
  <2>2. \A k \in S : at[k] \in Int /\ k \in Int
    BY <1>1, <1>2, <2>1
  <2>3. \A k, l \in S : <<k, l>> \in R <=> at[k] < at[l] \/ (at[k] = at[l] /\ k < l)
    BY <1>4, <2>1
  <2>4. QED
    BY <2>2, <2>3 DEF TotalOrder
<1>7. \A l \in S : Cardinality({j \in S : ls[j].at < ls[l].at \/ (ls[j].at = ls[l].at /\ j < l)}) = Rank(S, R, l)
  <2>1. ASSUME NEW l \in S
        PROVE  Cardinality({j \in S : ls[j].at < ls[l].at \/ (ls[j].at = ls[l].at /\ j < l)}) = Rank(S, R, l)
    <3>1. {j \in S : ls[j].at < ls[l].at \/ (ls[j].at = ls[l].at /\ j < l)} = {j \in S : <<j, l>> \in R}
      BY <1>4
    <3>2. QED
      BY <3>1 DEF Rank
  <2>2. QED
    BY <2>1
<1>8. Arranged(q, S, R)
  <2>1. \A k \in 1 .. Cardinality(S) : \E l \in S : Rank(S, R, l) = k - 1
    BY <1>1, <1>5, PlacesExist
  <2>2. \A k \in 1 .. Cardinality(S) : q[k] \in S /\ Rank(S, R, q[k]) = k - 1
    BY <1>6, <1>7, <2>1
  <2>3. QED
    BY <1>6, <2>2 DEF Arranged
<1>9. q \in Seq(S) /\ Len(q) \in Nat /\ DOMAIN q = 1 .. Len(q) /\ \A k \in 1 .. Len(q) : q[k] \in S
  <2>1. q \in Seq(S)
    BY <1>1, <1>5, <1>8, ArrangedIsInOrder DEF InOrder
  <2>2. QED
    BY <2>1
<1>10. PICK sorted : sorted = SortedLabels(ls) /\ sorted = [k \in DOMAIN q |-> ls[q[k]]]
  BY <1>6, LabelsInOrder
<1>11. /\ sorted \in [1 .. Len(q) -> Members(ls)]
       /\ \A k \in 1 .. Len(q) : sorted[k] = ls[q[k]] /\ sorted[k].at \in Int
  BY <1>1, <1>2, <1>9, <1>10 DEF Members
<1>12. sorted \in Seq(Members(ls)) /\ Len(sorted) = Len(q)
  BY <1>9, <1>11
<1>13. sorted \in Seq(Members(sorted))
  BY <1>12, OwnElements
<1>14. QED
  BY <1>10, <1>11, <1>12, <1>13 DEF Timed

\* A function has finitely many values on a finite set.
LEMMA ImagesAreFinite ==
  ASSUME NEW D, IsFiniteSet(D), NEW f, NEW T, T = {f[x] : x \in D}
  PROVE  IsFiniteSet(T)
<1>1. PICK h : h = [x \in D |-> f[x]]
  OBVIOUS
<1>2. h \in [D -> T] /\ \A t \in T : \E x \in D : h[x] = t
  BY <1>1
<1>3. h \in Surjection(D, T)
  BY <1>2 DEF Surjection
<1>4. QED
  BY <1>3, FS_Surjection

\* The types of events have a rank, and it is theirs alone.
LEMMA TypesAreRanked ==
  ASSUME NEW t, \E i \in 1 .. 5 : EventTypes[i] = t
  PROVE  /\ (CHOOSE i \in 1 .. 5 : EventTypes[i] = t) \in Int
         /\ EventTypes[CHOOSE i \in 1 .. 5 : EventTypes[i] = t] = t
<1>0. 1 .. 5 \in SUBSET Int
  OBVIOUS
<1>1. PICK D : D = 1 .. 5 /\ D \in SUBSET Int
  BY <1>0
<1>2. PICK u : u = EventTypes
  OBVIOUS
<1>3. \E i \in D : u[i] = t
  BY <1>1, <1>2
<1>4. (CHOOSE i \in D : u[i] = t) \in D /\ u[CHOOSE i \in D : u[i] = t] = t
  BY <1>3
<1>5. QED
  BY <1>1, <1>2, <1>4

\* The types of events in the order of their ranks.
LEMMA TypesAreListed ==
  /\ EventTypes[1] = "combat_candidate" /\ EventTypes[2] = "death_state_confirmed"
  /\ EventTypes[3] = "tempo_candidate" /\ EventTypes[4] = "rotation_candidate"
  /\ EventTypes[5] = "round_estimate"
BY DEF EventTypes

\* What a report lists are finitely many events that say what and when.
LEMMA EventsAreTyped ==
  ASSUME NEW ws, NEW segments, NEW S,
         S = {[type |-> EventType(ws[k].kind), at |-> ws[k].peak] : k \in DOMAIN ws}
               \cup {[type |-> "round_estimate", at |-> segments[r].from] : r \in DOMAIN segments},
         IsFiniteSet(DOMAIN ws), \A k \in DOMAIN ws : ws[k].peak \in Int,
         IsFiniteSet(DOMAIN segments), \A r \in DOMAIN segments : segments[r].from \in Int
  PROVE  /\ IsFiniteSet(S)
         /\ \A d \in S : d = [type |-> d.type, at |-> d.at] /\ d.at \in Int /\ \E i \in 1 .. 5 : EventTypes[i] = d.type
<1>1. PICK f, g : /\ f = [k \in DOMAIN ws |-> [type |-> EventType(ws[k].kind), at |-> ws[k].peak]]
                  /\ g = [r \in DOMAIN segments |-> [type |-> "round_estimate", at |-> segments[r].from]]
  OBVIOUS
<1>2. PICK A, B : A = {f[k] : k \in DOMAIN ws} /\ B = {g[r] : r \in DOMAIN segments}
  OBVIOUS
<1>3. S = A \cup B
  BY <1>1, <1>2
<1>4. IsFiniteSet(A) /\ IsFiniteSet(B)
  BY <1>2, ImagesAreFinite
<1>5. IsFiniteSet(S)
  <2>1. IsFiniteSet(A \cup B)
    BY <1>4, FS_Union
  <2>2. QED
    BY <1>3, <2>1
<1>6. /\ EventTypes[1] = "combat_candidate" /\ EventTypes[2] = "death_state_confirmed"
      /\ EventTypes[3] = "tempo_candidate" /\ EventTypes[4] = "rotation_candidate"
      /\ EventTypes[5] = "round_estimate"
  BY TypesAreListed
<1>7. \A k : \E i \in 1 .. 5 : EventTypes[i] = EventType(k)
  <2>1. ASSUME NEW k PROVE \E i \in 1 .. 5 : EventTypes[i] = EventType(k)
    <3>1. EventType(k) \in {"combat_candidate", "death_state_confirmed", "tempo_candidate", "rotation_candidate"}
      BY DEF EventType
    <3>2. 1 \in 1 .. 5 /\ 2 \in 1 .. 5 /\ 3 \in 1 .. 5 /\ 4 \in 1 .. 5
      OBVIOUS
    <3>3. QED
      BY <1>6, <3>1, <3>2
  <2>2. QED
    BY <2>1
<1>8. ASSUME NEW d \in A
      PROVE  d = [type |-> d.type, at |-> d.at] /\ d.at \in Int /\ \E i \in 1 .. 5 : EventTypes[i] = d.type
  <2>1. PICK k \in DOMAIN ws : d = f[k]
    BY <1>2
  <2>2. d = [type |-> EventType(ws[k].kind), at |-> ws[k].peak]
    BY <1>1, <2>1
  <2>3. d.type = EventType(ws[k].kind) /\ d.at = ws[k].peak
    BY <2>2
  <2>4. QED
    BY <1>7, <2>2, <2>3
<1>9. ASSUME NEW d \in B
      PROVE  d = [type |-> d.type, at |-> d.at] /\ d.at \in Int /\ \E i \in 1 .. 5 : EventTypes[i] = d.type
  <2>1. PICK r \in DOMAIN segments : d = g[r]
    BY <1>2
  <2>2. d = [type |-> "round_estimate", at |-> segments[r].from]
    BY <1>1, <2>1
  <2>3. d.type = "round_estimate" /\ d.at = segments[r].from /\ 5 \in 1 .. 5
    BY <2>2
  <2>4. QED
    BY <1>6, <2>2, <2>3
<1>10. QED
  BY <1>3, <1>5, <1>8, <1>9

\* The events of a report in order (sortGameplayEvents) all say when.
LEMMA EventsAreTimed ==
  ASSUME NEW ws, NEW segments,
         IsFiniteSet(DOMAIN ws), \A k \in DOMAIN ws : ws[k].peak \in Int,
         IsFiniteSet(DOMAIN segments), \A r \in DOMAIN segments : segments[r].from \in Int
  PROVE  Timed(GameplayEvents(ws, segments))
<1> DEFINE S == {[type |-> EventType(ws[k].kind), at |-> ws[k].peak] : k \in DOMAIN ws}
                  \cup {[type |-> "round_estimate", at |-> segments[r].from] : r \in DOMAIN segments}
           Place(t) == CHOOSE i \in 1 .. 5 : EventTypes[i] = t
           Earlier(d, e) == d.at < e.at \/ (d.at = e.at /\ Place(d.type) < Place(e.type))
<1>1. /\ IsFiniteSet(S)
      /\ \A d \in S : d = [type |-> d.type, at |-> d.at] /\ d.at \in Int /\ \E i \in 1 .. 5 : EventTypes[i] = d.type
  BY EventsAreTyped
<1>2. PICK q : /\ q = GameplayEvents(ws, segments)
               /\ q = [k \in 1 .. Cardinality(S) |->
                        CHOOSE e \in S : Cardinality({d \in S : Earlier(d, e)}) = k - 1]
  BY DEF GameplayEvents, Sorted
<1> HIDE DEF S
<1>3. PICK place : place = [d \in S |-> Place(d.type)]
  OBVIOUS
<1>4. \A d \in S : place[d] \in Int /\ EventTypes[place[d]] = d.type
  BY <1>1, <1>3, TypesAreRanked
<1>5. \A d, e \in S : Earlier(d, e) <=> d.at < e.at \/ (d.at = e.at /\ place[d] < place[e])
  BY <1>3
<1> HIDE DEF Earlier
<1>6. PICK R : R = {p \in S \X S : Earlier(p[1], p[2])}
  OBVIOUS
<1>7. \A d, e \in S : <<d, e>> \in R <=> Earlier(d, e)
  BY <1>6
<1>8. TotalOrder(S, R)
  <2>1. \A d, e \in S : d.at = e.at /\ place[d] = place[e] => d = e
    BY <1>1, <1>4
  <2>2. PICK at : at = [d \in S |-> d.at]
    OBVIOUS
  <2>3. \A d \in S : at[d] \in Int /\ place[d] \in Int
    BY <1>1, <1>4, <2>2
  <2>4. \A d, e \in S : <<d, e>> \in R <=> at[d] < at[e] \/ (at[d] = at[e] /\ place[d] < place[e])
    BY <1>5, <1>7, <2>2
  <2>5. \A d, e \in S : at[d] = at[e] /\ place[d] = place[e] => d = e
    BY <2>1, <2>2
  <2>6. QED
    BY <2>3, <2>4, <2>5 DEF TotalOrder
<1>9. Arranged(q, S, R)
  <2>1. ASSUME NEW e \in S PROVE Cardinality({d \in S : Earlier(d, e)}) = Rank(S, R, e)
    <3>1. {d \in S : Earlier(d, e)} = {d \in S : <<d, e>> \in R}
      BY <1>7
    <3>2. QED
      BY <3>1 DEF Rank
  <2>2. \A k \in 1 .. Cardinality(S) : \E e \in S : Rank(S, R, e) = k - 1
    BY <1>1, <1>8, PlacesExist
  <2>3. \A k \in 1 .. Cardinality(S) : q[k] \in S /\ Rank(S, R, q[k]) = k - 1
    BY <1>2, <2>1, <2>2
  <2>4. QED
    BY <1>2, <2>3 DEF Arranged
<1>10. q \in Seq(S) /\ \A k \in 1 .. Len(q) : q[k] \in S
  <2>1. q \in Seq(S)
    BY <1>1, <1>8, <1>9, ArrangedIsInOrder DEF InOrder
  <2>2. QED
    BY <2>1
<1>11. q \in Seq(Members(q))
  BY <1>10, OwnElements
<1>12. QED
  BY <1>1, <1>2, <1>10, <1>11 DEF Timed

-----------------------------------------------------------------------------
(* Counting.                                                                *)

\* An evaluation counts under finitely many keys.
LEMMA KeysAreFinite ==
  ASSUME NEW ev, Timed(ev.labels), Timed(ev.predictions)
  PROVE  /\ IsFiniteSet(MetricKeys(ev))
         /\ IsFiniteSet(DOMAIN ev.labels) /\ Cardinality(DOMAIN ev.labels) = Len(ev.labels)
         /\ IsFiniteSet(DOMAIN ev.predictions) /\ Cardinality(DOMAIN ev.predictions) = Len(ev.predictions)
<1>1. ASSUME NEW q, Timed(q)
      PROVE  IsFiniteSet(DOMAIN q) /\ Cardinality(DOMAIN q) = Len(q)
  <2>1. PICK n \in Nat : n = Len(q) /\ DOMAIN q = 1 .. n
    BY <1>1 DEF Timed
  <2>2. IsFiniteSet(1 .. n) /\ Cardinality(1 .. n) = IF 1 > n THEN 0 ELSE n - 1 + 1
    BY FS_Interval
  <2>3. (IF 1 > n THEN 0 ELSE n - 1 + 1) = n
    OBVIOUS
  <2>4. QED
    BY <2>1, <2>2, <2>3
<1>2. PICK f, g : /\ f = [l \in DOMAIN ev.labels |-> LabelMetricKey(ev.labels[l])]
                  /\ g = [e \in DOMAIN ev.predictions |-> EventMetricKey(ev.predictions[e])]
  OBVIOUS
<1>3. PICK A, B : A = {f[l] : l \in DOMAIN ev.labels} /\ B = {g[e] : e \in DOMAIN ev.predictions}
  OBVIOUS
<1>4. MetricKeys(ev) = A \cup B
  BY <1>2, <1>3 DEF MetricKeys
<1>5. IsFiniteSet(A) /\ IsFiniteSet(B)
  BY <1>1, <1>3, ImagesAreFinite
<1>6. IsFiniteSet(A \cup B)
  BY <1>5, FS_Union
<1>7. QED
  BY <1>1, <1>4, <1>6

\* The labels counted per key are the labels.
LEMMA LabelsAddUp ==
  ASSUME NEW ev, Timed(ev.labels), Timed(ev.predictions)
  PROVE  MapThenSumSet(LAMBDA key : TypeMetrics(ev, key).labels, MetricKeys(ev)) = Len(ev.labels)
<1> DEFINE K == MetricKeys(ev)
           X == DOMAIN ev.labels
           Fold(g) == g = [s \in SUBSET K |->
                            IF s = {} THEN 0
                            ELSE TypeMetrics(ev, CHOOSE k \in s : TRUE).labels + g[s \ {CHOOSE k \in s : TRUE}]]
<1>1. MapThenSumSet(LAMBDA key : TypeMetrics(ev, key).labels, MetricKeys(ev)) = (CHOOSE g : Fold(g))[K]
  BY DEF MapThenSumSet, MapThenFoldSet
<1>2. PICK part : part = [l \in X |-> LabelMetricKey(ev.labels[l])]
  OBVIOUS
<1>3. IsFiniteSet(K) /\ IsFiniteSet(X) /\ Cardinality(X) = Len(ev.labels) /\ \A x \in X : part[x] \in K
  BY <1>2, KeysAreFinite DEF MetricKeys
<1>4. \A key : TypeMetrics(ev, key).labels = Cardinality({x \in X : part[x] = key})
  <2>1. ASSUME NEW key PROVE TypeMetrics(ev, key).labels = Cardinality({x \in X : part[x] = key})
    <3>1. {x \in X : part[x] = key} = {l \in DOMAIN ev.labels : LabelMetricKey(ev.labels[l]) = key}
      BY <1>2
    <3>2. QED
      BY <3>1 DEF TypeMetrics
  <2>2. QED
    BY <2>1
<1> HIDE DEF K, X
<1>5. PICK v : v = [s \in SUBSET K |-> TypeMetrics(ev, CHOOSE k \in s : TRUE).labels]
  OBVIOUS
<1>6. CountsParts(v, K, X, part)
  <2>1. ASSUME NEW s \in SUBSET K
        PROVE  v[s] = Cardinality({x \in X : part[x] = (CHOOSE k \in s : TRUE)})
    <3>1. v[s] = TypeMetrics(ev, CHOOSE k \in s : TRUE).labels
      BY <1>5
    <3>2. PICK key : key = CHOOSE k \in s : TRUE
      OBVIOUS
    <3>3. TypeMetrics(ev, key).labels = Cardinality({x \in X : part[x] = key})
      BY <1>4
    <3>4. QED
      BY <3>1, <3>2, <3>3
  <2>2. QED
    BY <2>1 DEF CountsParts
<1>7. (\E g : SumOf(g, K, v)) /\ \A g : SumOf(g, K, v) => g[K] = Cardinality(X)
  BY <1>3, <1>6, PartsAddUp
<1>8. \A g : SumOf(g, K, v) <=> Fold(g)
  BY <1>5 DEF SumOf
<1> HIDE DEF Fold
<1>9. \E g : Fold(g)
  BY <1>7, <1>8
<1>10. PICK g : g = (CHOOSE h : Fold(h)) /\ Fold(g)
  BY <1>9
<1>11. g[K] = Cardinality(X)
  BY <1>7, <1>8, <1>10
<1>12. QED
  BY <1>1, <1>3, <1>10, <1>11

\* The events counted per key are the events.
LEMMA EventsAddUp ==
  ASSUME NEW ev, Timed(ev.labels), Timed(ev.predictions)
  PROVE  MapThenSumSet(LAMBDA key : TypeMetrics(ev, key).predictions, MetricKeys(ev)) = Len(ev.predictions)
<1> DEFINE K == MetricKeys(ev)
           X == DOMAIN ev.predictions
           Fold(g) == g = [s \in SUBSET K |->
                            IF s = {} THEN 0
                            ELSE TypeMetrics(ev, CHOOSE k \in s : TRUE).predictions + g[s \ {CHOOSE k \in s : TRUE}]]
<1>1. MapThenSumSet(LAMBDA key : TypeMetrics(ev, key).predictions, MetricKeys(ev)) = (CHOOSE g : Fold(g))[K]
  BY DEF MapThenSumSet, MapThenFoldSet
<1>2. PICK part : part = [l \in X |-> EventMetricKey(ev.predictions[l])]
  OBVIOUS
<1>3. IsFiniteSet(K) /\ IsFiniteSet(X) /\ Cardinality(X) = Len(ev.predictions) /\ \A x \in X : part[x] \in K
  BY <1>2, KeysAreFinite DEF MetricKeys
<1>4. \A key : TypeMetrics(ev, key).predictions = Cardinality({x \in X : part[x] = key})
  <2>1. ASSUME NEW key PROVE TypeMetrics(ev, key).predictions = Cardinality({x \in X : part[x] = key})
    <3>1. {x \in X : part[x] = key} = {e \in DOMAIN ev.predictions : EventMetricKey(ev.predictions[e]) = key}
      BY <1>2
    <3>2. QED
      BY <3>1 DEF TypeMetrics
  <2>2. QED
    BY <2>1
<1> HIDE DEF K, X
<1>5. PICK v : v = [s \in SUBSET K |-> TypeMetrics(ev, CHOOSE k \in s : TRUE).predictions]
  OBVIOUS
<1>6. CountsParts(v, K, X, part)
  <2>1. ASSUME NEW s \in SUBSET K
        PROVE  v[s] = Cardinality({x \in X : part[x] = (CHOOSE k \in s : TRUE)})
    <3>1. v[s] = TypeMetrics(ev, CHOOSE k \in s : TRUE).predictions
      BY <1>5
    <3>2. PICK key : key = CHOOSE k \in s : TRUE
      OBVIOUS
    <3>3. TypeMetrics(ev, key).predictions = Cardinality({x \in X : part[x] = key})
      BY <1>4
    <3>4. QED
      BY <3>1, <3>2, <3>3
  <2>2. QED
    BY <2>1 DEF CountsParts
<1>7. (\E g : SumOf(g, K, v)) /\ \A g : SumOf(g, K, v) => g[K] = Cardinality(X)
  BY <1>3, <1>6, PartsAddUp
<1>8. \A g : SumOf(g, K, v) <=> Fold(g)
  BY <1>5 DEF SumOf
<1> HIDE DEF Fold
<1>9. \E g : Fold(g)
  BY <1>7, <1>8
<1>10. PICK g : g = (CHOOSE h : Fold(h)) /\ Fold(g)
  BY <1>9
<1>11. g[K] = Cardinality(X)
  BY <1>7, <1>8, <1>10
<1>12. QED
  BY <1>1, <1>3, <1>10, <1>11

\* The matches counted per key are the matches.
LEMMA MatchesAddUp ==
  ASSUME NEW ev, Timed(ev.labels), Timed(ev.predictions), DOMAIN ev.match = DOMAIN ev.labels
  PROVE  MapThenSumSet(LAMBDA key : TypeMetrics(ev, key).matches, MetricKeys(ev)) = Cardinality(Matches(ev))
<1> DEFINE K == MetricKeys(ev)
           X == Matches(ev)
           Fold(g) == g = [s \in SUBSET K |->
                            IF s = {} THEN 0
                            ELSE TypeMetrics(ev, CHOOSE k \in s : TRUE).matches + g[s \ {CHOOSE k \in s : TRUE}]]
<1>1. MapThenSumSet(LAMBDA key : TypeMetrics(ev, key).matches, MetricKeys(ev)) = (CHOOSE g : Fold(g))[K]
  BY DEF MapThenSumSet, MapThenFoldSet
<1>2. PICK part : part = [l \in X |-> LabelMetricKey(ev.labels[l])]
  OBVIOUS
<1>3. IsFiniteSet(K) /\ IsFiniteSet(X) /\ Cardinality(X) = Cardinality(Matches(ev)) /\ \A x \in X : part[x] \in K
  <2>1. X \in SUBSET DOMAIN ev.labels
    BY DEF Matches
  <2>2. IsFiniteSet(X)
    BY <2>1, KeysAreFinite, FS_Subset
  <2>3. \A x \in X : part[x] \in K
    BY <1>2, <2>1 DEF MetricKeys
  <2>4. QED
    BY <2>2, <2>3, KeysAreFinite
<1>4. \A key : TypeMetrics(ev, key).matches = Cardinality({x \in X : part[x] = key})
  <2>1. ASSUME NEW key PROVE TypeMetrics(ev, key).matches = Cardinality({x \in X : part[x] = key})
    <3>1. {x \in X : part[x] = key} = {l \in Matches(ev) : LabelMetricKey(ev.labels[l]) = key}
      BY <1>2
    <3>2. QED
      BY <3>1 DEF TypeMetrics
  <2>2. QED
    BY <2>1
<1> HIDE DEF K, X
<1>5. PICK v : v = [s \in SUBSET K |-> TypeMetrics(ev, CHOOSE k \in s : TRUE).matches]
  OBVIOUS
<1>6. CountsParts(v, K, X, part)
  <2>1. ASSUME NEW s \in SUBSET K
        PROVE  v[s] = Cardinality({x \in X : part[x] = (CHOOSE k \in s : TRUE)})
    <3>1. v[s] = TypeMetrics(ev, CHOOSE k \in s : TRUE).matches
      BY <1>5
    <3>2. PICK key : key = CHOOSE k \in s : TRUE
      OBVIOUS
    <3>3. TypeMetrics(ev, key).matches = Cardinality({x \in X : part[x] = key})
      BY <1>4
    <3>4. QED
      BY <3>1, <3>2, <3>3
  <2>2. QED
    BY <2>1 DEF CountsParts
<1>7. (\E g : SumOf(g, K, v)) /\ \A g : SumOf(g, K, v) => g[K] = Cardinality(X)
  BY <1>3, <1>6, PartsAddUp
<1>8. \A g : SumOf(g, K, v) <=> Fold(g)
  BY <1>5 DEF SumOf
<1> HIDE DEF Fold
<1>9. \E g : Fold(g)
  BY <1>7, <1>8
<1>10. PICK g : g = (CHOOSE h : Fold(h)) /\ Fold(g)
  BY <1>9
<1>11. g[K] = Cardinality(X)
  BY <1>7, <1>8, <1>10
<1>12. QED
  BY <1>1, <1>3, <1>10, <1>11

\* What the evaluation of a report always is.
Sound(ev) ==
  /\ Timed(ev.labels) /\ Timed(ev.predictions)
  /\ MatchedInTurn(ev.match, ev.labels, ev.predictions, ev.reach, Len(ev.labels))

\* Matched labels have compatible events, no two the same, and the rest of the events
\* are false positives.
LEMMA MatchFacts ==
  ASSUME NEW ev, Sound(ev)
  PROVE  /\ DOMAIN ev.match = DOMAIN ev.labels /\ DOMAIN ev.labels = 1 .. Len(ev.labels) /\ Len(ev.labels) \in Nat
         /\ \A l \in Matches(ev) : ev.match[l] \in DOMAIN ev.predictions
                                   /\ LabelMatchesEvent(ev.labels[l], ev.predictions[ev.match[l]])
         /\ \A j, l \in Matches(ev) : ev.match[j] = ev.match[l] => j = l
         /\ FalsePositives(ev) = DOMAIN ev.predictions \ {ev.match[l] : l \in Matches(ev)}
<1>1. DOMAIN ev.labels = 1 .. Len(ev.labels) /\ Len(ev.labels) \in Nat
  BY DEF Sound, Timed
<1>2. /\ ev.match \in Seq(0 .. Len(ev.predictions)) /\ Len(ev.match) = Len(ev.labels)
      /\ \A l \in 1 .. Len(ev.labels) : TakesNearest(ev.match, ev.labels[l], ev.predictions, ev.reach, l)
  BY DEF Sound, MatchedInTurn
<1>3. DOMAIN ev.match = 1 .. Len(ev.labels)
  BY <1>2
<1>4. ASSUME NEW l \in Matches(ev)
      PROVE  /\ l \in 1 .. Len(ev.labels)
             /\ ev.match[l] \in DOMAIN ev.predictions
             /\ LabelMatchesEvent(ev.labels[l], ev.predictions[ev.match[l]])
             /\ \A j \in 1 .. l - 1 : ev.match[j] # ev.match[l]
  BY <1>2, <1>3 DEF Matches, TakesNearest
<1>5. ASSUME NEW j \in Matches(ev), NEW l \in Matches(ev), ev.match[j] = ev.match[l] PROVE j = l
  <2>1. j \in 1 .. Len(ev.labels) /\ l \in 1 .. Len(ev.labels)
    BY <1>4
  <2>2. j \notin 1 .. l - 1 /\ l \notin 1 .. j - 1
    BY <1>4, <1>5
  <2>3. QED
    BY <1>1, <2>1, <2>2
<1>6. FalsePositives(ev) = DOMAIN ev.predictions \ {ev.match[l] : l \in Matches(ev)}
  <2>1. 0 \notin DOMAIN ev.predictions
    BY DEF Sound, Timed
  <2>2. ASSUME NEW e \in DOMAIN ev.predictions
        PROVE  e \in ToSet(ev.match) <=> e \in {ev.match[l] : l \in Matches(ev)}
    BY <2>1 DEF ToSet, Matches
  <2>3. QED
    BY <2>2 DEF FalsePositives
<1>7. QED
  BY <1>1, <1>3, <1>4, <1>5, <1>6

\* A set and its image under an injective function count the same.
LEMMA ImagesAreAsMany ==
  ASSUME NEW D, IsFiniteSet(D), NEW f, \A x, y \in D : f[x] = f[y] => x = y,
         NEW T, T = {f[x] : x \in D}
  PROVE  IsFiniteSet(T) /\ Cardinality(T) = Cardinality(D)
<1>1. PICK h : h = [x \in D |-> f[x]]
  OBVIOUS
<1>2. h \in [D -> T] /\ (\A x, y \in D : h[x] = h[y] => x = y) /\ \A t \in T : \E x \in D : h[x] = t
  BY <1>1
<1>3. h \in Bijection(D, T)
  <2>1. h \in Injection(D, T)
    BY <1>2 DEF Injection, IsInjective
  <2>2. h \in Surjection(D, T)
    BY <1>2 DEF Surjection
  <2>3. QED
    BY <2>1, <2>2 DEF Bijection
<1>4. IsFiniteSet(T)
  BY ImagesAreFinite
<1>5. ExistsBijection(D, T)
  BY <1>3 DEF ExistsBijection
<1>6. Cardinality(D) = Cardinality(T)
  BY <1>4, <1>5, FS_Bijection
<1>7. QED
  BY <1>4, <1>6

\* Every event is matched once or a false positive.
LEMMA EventsAreMatchedOrLeft ==
  ASSUME NEW ev, Sound(ev)
  PROVE  Cardinality(Matches(ev)) + Cardinality(FalsePositives(ev)) = Len(ev.predictions)
<1>1. PICK X : X = DOMAIN ev.predictions
  OBVIOUS
<1>2. IsFiniteSet(X) /\ Cardinality(X) = Len(ev.predictions) /\ IsFiniteSet(DOMAIN ev.labels)
  BY <1>1, KeysAreFinite DEF Sound
<1>3. PICK T : T = {ev.match[l] : l \in Matches(ev)}
  OBVIOUS
<1>4. T \in SUBSET X /\ FalsePositives(ev) = X \ T /\ Matches(ev) \in SUBSET DOMAIN ev.labels
  BY <1>1, <1>3, MatchFacts DEF Matches
<1>5. IsFiniteSet(Matches(ev))
  BY <1>2, <1>4, FS_Subset
<1>6. Cardinality(T) = Cardinality(Matches(ev))
  BY <1>3, <1>5, MatchFacts, ImagesAreAsMany
<1>7. PICK L : L = X \ T
  OBVIOUS
<1>8. SplitsInto(X, T, L)
  BY <1>4, <1>7 DEF SplitsInto
<1>9. Cardinality(X) = Cardinality(T) + Cardinality(L)
  BY <1>2, <1>8, PartsAreDisjoint
<1>10. QED
  BY <1>2, <1>4, <1>6, <1>7, <1>9

\* The events of a key are matched to a label of that key, left over, or taken
\* by a label that names a category only.
KeyEvents(ev, key) == {e \in DOMAIN ev.predictions : EventMetricKey(ev.predictions[e]) = key}
KeyMatches(ev, key) == {l \in Matches(ev) : LabelMetricKey(ev.labels[l]) = key}
KeyUnmatched(ev, key) == {e \in FalsePositives(ev) : EventMetricKey(ev.predictions[e]) = key}
KeyTaken(ev, key) ==
  {l \in Matches(ev) : ~Typed(ev.labels[l]) /\ EventMetricKey(ev.predictions[ev.match[l]]) = key}

\* The events of a type are its matches, its false positives and those a label by
\* category took.
LEMMA EventsOfAKey ==
  ASSUME NEW ev, Sound(ev), NEW key, "type" \in DOMAIN key
  PROVE  Cardinality(KeyEvents(ev, key)) =
           Cardinality(KeyMatches(ev, key)) + Cardinality(KeyUnmatched(ev, key)) + Cardinality(KeyTaken(ev, key))
<1>0. PICK P, M, U, C :
        P = KeyEvents(ev, key) /\ M = KeyMatches(ev, key) /\ U = KeyUnmatched(ev, key) /\ C = KeyTaken(ev, key)
  OBVIOUS
<1>1. IsFiniteSet(DOMAIN ev.predictions) /\ IsFiniteSet(DOMAIN ev.labels)
  BY KeysAreFinite DEF Sound
<1>2. IsFiniteSet(Matches(ev)) /\ IsFiniteSet(P)
  <2>1. Matches(ev) \in SUBSET DOMAIN ev.labels
    BY MatchFacts DEF Matches
  <2>2. P \in SUBSET DOMAIN ev.predictions
    BY <1>0 DEF KeyEvents
  <2>3. QED
    BY <1>1, <2>1, <2>2, FS_Subset
<1>3. ASSUME NEW l \in M
      PROVE  l \in Matches(ev) /\ Typed(ev.labels[l]) /\ EventMetricKey(ev.predictions[ev.match[l]]) = key
  <2>1. l \in Matches(ev) /\ LabelMetricKey(ev.labels[l]) = key
    BY <1>0 DEF KeyMatches
  <2>2. Typed(ev.labels[l])
    <3>1. SUFFICES ASSUME ~Typed(ev.labels[l]) PROVE FALSE
      OBVIOUS
    <3>2. key = [category |-> ev.labels[l].category]
      BY <2>1, <3>1 DEF LabelMetricKey
    <3>3. DOMAIN key = {"category"}
      BY <3>2
    <3>4. QED
      BY <3>3
  <2>3. LabelMatchesEvent(ev.labels[l], ev.predictions[ev.match[l]])
    BY <2>1, MatchFacts
  <2>4. QED
    BY <2>1, <2>2, <2>3 DEF LabelMatchesEvent
<1>4. ASSUME NEW l \in Matches(ev), EventMetricKey(ev.predictions[ev.match[l]]) = key
      PROVE  l \in M \cup C
  <2>1. CASE Typed(ev.labels[l])
    <3>1. LabelMatchesEvent(ev.labels[l], ev.predictions[ev.match[l]])
      BY MatchFacts
    <3>2. LabelMetricKey(ev.labels[l]) = key
      BY <1>4, <2>1, <3>1 DEF LabelMatchesEvent
    <3>3. QED
      BY <1>0, <3>2 DEF KeyMatches
  <2>2. CASE ~Typed(ev.labels[l])
    BY <1>0, <1>4, <2>2 DEF KeyTaken
  <2>3. QED
    BY <2>1, <2>2
<1>5. PICK B : B = M \cup C
  OBVIOUS
<1>6. PICK T : T = {ev.match[l] : l \in B}
  OBVIOUS
<1>7. B \in SUBSET Matches(ev) /\ M \in SUBSET B /\ C \in SUBSET B /\ M \cap C = {} /\ IsFiniteSet(B)
  <2>1. B \in SUBSET Matches(ev) /\ M \in SUBSET B /\ C \in SUBSET B
    BY <1>0, <1>5 DEF KeyMatches, KeyTaken
  <2>2. M \cap C = {}
    BY <1>0, <1>3 DEF KeyTaken
  <2>3. QED
    BY <1>2, <2>1, <2>2, FS_Subset
<1>8. SplitsInto(P, T, U)
  <2>1. ASSUME NEW l \in B
        PROVE  ev.match[l] \in DOMAIN ev.predictions /\ EventMetricKey(ev.predictions[ev.match[l]]) = key
    <3>1. l \in Matches(ev)
      BY <1>7
    <3>2. ev.match[l] \in DOMAIN ev.predictions
      BY <3>1, MatchFacts
    <3>3. EventMetricKey(ev.predictions[ev.match[l]]) = key
      BY <1>0, <1>3, <1>5 DEF KeyTaken
    <3>4. QED
      BY <3>2, <3>3
  <2>2. T \in SUBSET P
    BY <1>0, <1>6, <2>1 DEF KeyEvents
  <2>3. U \in SUBSET P
    BY <1>0 DEF FalsePositives, KeyUnmatched, KeyEvents
  <2>4. PICK W : W = {ev.match[l] : l \in Matches(ev)}
    OBVIOUS
  <2>5. FalsePositives(ev) = DOMAIN ev.predictions \ W
    BY <2>4, MatchFacts
  <2>6. T \cap U = {}
    BY <1>0, <1>6, <1>7, <2>4, <2>5 DEF KeyUnmatched
  <2>7. ASSUME NEW e \in P, e \notin U PROVE e \in T
    <3>1. e \in W /\ EventMetricKey(ev.predictions[e]) = key
      BY <1>0, <2>5, <2>7 DEF KeyEvents, KeyUnmatched
    <3>2. PICK l \in Matches(ev) : ev.match[l] = e
      BY <2>4, <3>1
    <3>3. l \in B
      BY <1>4, <1>5, <3>1, <3>2
    <3>4. QED
      BY <1>6, <3>2, <3>3
  <2>8. QED
    BY <2>2, <2>3, <2>6, <2>7 DEF SplitsInto
<1>9. Cardinality(T) = Cardinality(B)
  BY <1>6, <1>7, MatchFacts, ImagesAreAsMany
<1>10. Cardinality(P) = Cardinality(T) + Cardinality(U) /\ Cardinality(U) \in Nat
  BY <1>2, <1>8, PartsAreDisjoint
<1>11. Cardinality(B) = Cardinality(M) + Cardinality(C) /\ Cardinality(M) \in Nat /\ Cardinality(C) \in Nat
  <2>1. SplitsInto(B, M, C)
    BY <1>5, <1>7 DEF SplitsInto
  <2>2. QED
    BY <1>7, <2>1, PartsAreDisjoint
<1>12. QED
  BY <1>0, <1>9, <1>10, <1>11

\* The counts of an evaluation that was matched in turn add up.
LEMMA SoundAddsUp ==
  ASSUME Sound(evaluation)
  PROVE  CountsAddUp
<1>1. PICK ev : ev = evaluation /\ Sound(ev)
  OBVIOUS
<1>2. Timed(ev.labels) /\ Timed(ev.predictions) /\ DOMAIN ev.match = DOMAIN ev.labels
  BY <1>1, MatchFacts DEF Sound
<1>3. Cardinality(Matches(ev)) + Cardinality(FalsePositives(ev)) = Len(ev.predictions)
  BY <1>1, EventsAreMatchedOrLeft
<1>4. MapThenSumSet(LAMBDA key : TypeMetrics(ev, key).labels, MetricKeys(ev)) = Len(ev.labels)
  BY <1>2, LabelsAddUp
<1>5. MapThenSumSet(LAMBDA key : TypeMetrics(ev, key).predictions, MetricKeys(ev)) = Len(ev.predictions)
  BY <1>2, EventsAddUp
<1>6. MapThenSumSet(LAMBDA key : TypeMetrics(ev, key).matches, MetricKeys(ev)) = Cardinality(Matches(ev))
  BY <1>2, MatchesAddUp
<1>7. ASSUME NEW key, "type" \in DOMAIN key
      PROVE  TypeMetrics(ev, key).predictions =
               TypeMetrics(ev, key).matches
                 + Cardinality({e \in FalsePositives(ev) : EventMetricKey(ev.predictions[e]) = key})
                 + Cardinality({l \in Matches(ev) :
                     ~Typed(ev.labels[l]) /\ EventMetricKey(ev.predictions[ev.match[l]]) = key})
  <2>1. TypeMetrics(ev, key).predictions = Cardinality(KeyEvents(ev, key))
    BY DEF TypeMetrics, KeyEvents
  <2>2. TypeMetrics(ev, key).matches = Cardinality(KeyMatches(ev, key))
    BY DEF TypeMetrics, KeyMatches
  <2>3. QED
    BY <1>1, <1>7, <2>1, <2>2, EventsOfAKey DEF KeyUnmatched, KeyTaken
<1>8. QED
  BY <1>1, <1>3, <1>4, <1>5, <1>6, <1>7 DEF CountsAddUp

\* Matching in turn leaves no event over that suits a label better.
LEMMA SoundLeavesNoBetter ==
  ASSUME Sound(evaluation)
  PROVE  NoBetterEventLeftOver
<1>1. PICK ev : ev = evaluation /\ Sound(ev)
  OBVIOUS
<1>2. /\ DOMAIN ev.match = 1 .. Len(ev.labels) /\ Len(ev.labels) \in Nat
      /\ \A l \in 1 .. Len(ev.labels) : TakesNearest(ev.match, ev.labels[l], ev.predictions, ev.reach, l)
  BY <1>1, MatchFacts DEF Sound, MatchedInTurn
<1>3. ASSUME NEW l \in DOMAIN ev.match, NEW e \in FalsePositives(ev),
             LabelMatchesEvent(ev.labels[l], ev.predictions[e]),
             Delta(ev.labels[l], ev.predictions[e]) <= ev.reach
      PROVE  /\ l \in Matches(ev)
             /\ Delta(ev.labels[l], ev.predictions[ev.match[l]]) <= Delta(ev.labels[l], ev.predictions[e])
  <2>1. e \in DOMAIN ev.predictions /\ \A j \in DOMAIN ev.match : ev.match[j] # e
    BY DEF FalsePositives, ToSet
  <2>2. \A j \in 1 .. l - 1 : j \in DOMAIN ev.match
    BY <1>2
  <2>3. TakesNearest(ev.match, ev.labels[l], ev.predictions, ev.reach, l)
    BY <1>2
  <2>4. ev.match[l] # 0 /\ Delta(ev.labels[l], ev.predictions[ev.match[l]]) <= Delta(ev.labels[l], ev.predictions[e])
    BY <1>3, <2>1, <2>2, <2>3 DEF TakesNearest
  <2>5. QED
    BY <2>4 DEF Matches
<1>4. QED
  BY <1>1, <1>3 DEF NoBetterEventLeftOver

-----------------------------------------------------------------------------
(* The evaluation of a report.                                              *)

\* An empty list says when.
LEMMA NothingIsTimed == Timed(<<>>)
<1>1. Len(<<>>) = 0 /\ 1 .. Len(<<>>) = {} /\ <<>> \in Seq(Members(<<>>))
  OBVIOUS
<1>2. QED
  BY <1>1 DEF Timed

\* No evaluation is a sound one.
LEMMA NoEvaluationIsSound == Sound(NoEvaluation)
<1>1. /\ NoEvaluation.labels = <<>> /\ NoEvaluation.predictions = <<>>
      /\ NoEvaluation.match = <<>> /\ NoEvaluation.reach = 0
  BY DEF NoEvaluation
<1>2. Len(<<>>) = 0 /\ 1 .. 0 = {} /\ <<>> \in Seq(0 .. 0)
  OBVIOUS
<1>3. MatchedInTurn(<<>>, <<>>, <<>>, 0, 0)
  BY <1>2 DEF MatchedInTurn
<1>4. QED
  BY <1>1, <1>2, <1>3, NothingIsTimed DEF Sound

\* Evaluating labels against the events of a report matches them in turn.
LEMMA EvaluatedIsSound ==
  ASSUME Timed(events), NEW ls, Timed(ls), NEW types, NEW reach
  PROVE  Sound(EvaluateGameplayEvents(ls, types, reach))
<1>1. PICK sorted, predictions : sorted = SortedLabels(ls) /\ predictions = EvaluatedEvents(events, ls, types)
  OBVIOUS
<1>2. Timed(sorted) /\ Timed(predictions)
  BY <1>1, LabelsAreSorted, EvaluatedAreTimed
<1>3. PICK match : match = MatchEvaluationLabels(sorted, predictions, reach)
  OBVIOUS
<1>4. MatchedInTurn(match, sorted, predictions, reach, Len(sorted))
  BY <1>2, <1>3, LabelsAreMatchedInTurn
<1>5. PICK ev : /\ ev = EvaluateGameplayEvents(ls, types, reach)
                /\ ev = [labels |-> sorted, predictions |-> predictions, match |-> match, reach |-> reach]
  BY <1>1, <1>3 DEF EvaluateGameplayEvents
<1>6. ev.labels = sorted /\ ev.predictions = predictions /\ ev.match = match /\ ev.reach = reach
  BY <1>5
<1>7. QED
  BY <1>2, <1>4, <1>5, <1>6 DEF Sound

\* The labels of a reviewer say when.
LEMMA LabelsAreTimed ==
  ASSUME NEW ls \in LabelSets
  PROVE  Timed(ls)
<1>1. ls \in Seq(EvaluationLabel)
  BY LabelAssumption
<1>2. \A k \in 1 .. Len(ls) : ls[k] \in EvaluationLabel
  BY <1>1
<1>3. \A label \in EvaluationLabel : label.at \in Int
  BY DEF EvaluationLabel
<1>4. ls \in Seq(Members(ls))
  BY <1>1, OwnElements
<1>5. QED
  BY <1>2, <1>3, <1>4 DEF Timed

\* The events of a report are those of its windows and of its rounds.
LEMMA ReportedAreTimed ==
  ASSUME WindowsInv, RoundsInv
  PROVE  Timed(GameplayEvents(windows, rounds))
<1>1. IsFiniteSet(DOMAIN windows) /\ \A k \in DOMAIN windows : windows[k].peak \in Int
  <2>1. Tidy(frames, windows)
    BY DEF WindowsInv, Affordable
  <2>2. Len(windows) \in Nat /\ DOMAIN windows = 1 .. Len(windows)
    BY <2>1, TidyMembers
  <2>3. IsFiniteSet(1 .. Len(windows))
    BY <2>2, FS_Interval
  <2>4. ASSUME NEW k \in DOMAIN windows PROVE windows[k].peak \in Int
    <3>1. ReviewWindow(frames, windows[k])
      BY <2>1, <2>2 DEF Tidy
    <3>2. QED
      BY <3>1 DEF ReviewWindow
  <2>5. QED
    BY <2>2, <2>3, <2>4
<1>2. IsFiniteSet(DOMAIN rounds) /\ \A r \in DOMAIN rounds : rounds[r].from \in Int
  <2>1. CASE rounds = <<>>
    BY <2>1, NothingDecided, FS_EmptySet
  <2>2. CASE rounds # <<>>
    <3>1. PICK bounds : bounds = Boundaries(frames)
      OBVIOUS
    <3>2. frames # <<>> /\ rounds = RoundSegments(frames, bounds, windows) /\ InTime(frames)
      BY <2>2, <3>1 DEF RoundsInv, WindowsInv
    <3>3. Cuts(frames, bounds)
      BY <3>1, <3>2, BoundariesCut
    <3>4. PICK n \in Nat : n = Len(bounds) /\ n >= 2
      BY <3>3 DEF Cuts
    <3>5. DOMAIN rounds = 1 .. n - 1 /\ \A r \in 1 .. n - 1 : rounds[r].from = bounds[r]
      BY <3>2, <3>3, <3>4, SegmentFacts
    <3>6. IsFiniteSet(1 .. n - 1)
      BY <3>4, FS_Interval
    <3>7. \A r \in 1 .. n - 1 : bounds[r] \in Int
      BY <3>3, <3>4 DEF Cuts
    <3>8. QED
      BY <3>5, <3>6, <3>7
  <2>3. QED
    BY <2>1, <2>2
<1>3. QED
  BY <1>1, <1>2, EventsAreTimed

\* The events say when, and the evaluation is what matching in turn makes of them.
EvaluationInv == Timed(events) /\ Sound(evaluation)

\* Every step keeps the events timed and the evaluation sound.
LEMMA EvaluationKept ==
  ASSUME WindowsInv, RoundsInv, EvaluationInv, [MatchNext]_matchVars
  PROVE  EvaluationInv'
<1>a. ASSUME Timed(events'), evaluation' = evaluation
      PROVE  EvaluationInv'
  <2>1. Sound(evaluation')
    BY <1>a DEF EvaluationInv
  <2>2. QED
    BY <1>a, <2>1 DEF EvaluationInv
<1>1. ASSUME UNCHANGED evaluationVars PROVE EvaluationInv'
  <2>1. events' = events /\ evaluation' = evaluation
    BY <1>1 DEF evaluationVars
  <2>2. Timed(events')
    BY <2>1 DEF EvaluationInv
  <2>3. QED
    BY <1>a, <2>1, <2>2
<1>2. ASSUME Report PROVE EvaluationInv'
  <2>1. PICK q : q = GameplayEvents(windows, rounds) /\ Timed(q)
    BY ReportedAreTimed
  <2>2. events' = q /\ evaluation' = evaluation
    BY <1>2, <2>1 DEF Report
  <2>3. QED
    BY <1>a, <2>1, <2>2
<1>3. ASSUME OpenDecision PROVE EvaluationInv'
  <2>1. events' = <<>> /\ evaluation' = evaluation
    BY <1>3 DEF OpenDecision
  <2>2. QED
    BY <1>a, <2>1, NothingIsTimed
<1>4. ASSUME OpenEvaluation PROVE EvaluationInv'
  <2>1. PICK ls \in LabelSets, types \in TypeSets, requested \in Requested, annotated \in Annotated :
          Evaluate(ls, types, requested, annotated)
    BY <1>4 DEF OpenEvaluation
  <2>2. PICK ev : ev = EvaluateGameplayEvents(ls, types, Tolerance(requested, annotated)) /\ Sound(ev)
    BY EvaluatedIsSound, LabelsAreTimed DEF EvaluationInv
  <2>3. events' = events /\ evaluation' = ev
    BY <2>1, <2>2 DEF Evaluate
  <2>4. Timed(events') /\ Sound(evaluation')
    BY <2>2, <2>3 DEF EvaluationInv
  <2>5. QED
    BY <2>4 DEF EvaluationInv
<1>5. QED
  BY <1>1, <1>2, <1>3, <1>4 DEF MatchNext, Analyze, Assess, matchVars

\* Every label and every event of an evaluation is matched once or left over, no
\* event is left over that suits a label better than what it has, and the counts
\* per type add up (evaluate.go), for any recording, labels and types.
THEOREM TheEvaluationIsComplete == MatchSpec => []EvaluationIsComplete
<1>1. MatchInit => EvaluationInv
  <2> SUFFICES ASSUME MatchInit PROVE EvaluationInv
    OBVIOUS
  <2>1. events = <<>> /\ evaluation = NoEvaluation
    BY DEF MatchInit
  <2>2. QED
    BY <2>1, NothingIsTimed, NoEvaluationIsSound DEF EvaluationInv
<1>2. WindowsInv /\ RoundsInv /\ EvaluationInv /\ [MatchNext]_matchVars => EvaluationInv'
  BY EvaluationKept
<1>3. EvaluationInv => EvaluationIsComplete
  BY SoundLeavesNoBetter, SoundAddsUp DEF EvaluationInv, EvaluationIsComplete
<1>4. QED
  BY <1>1, <1>2, <1>3, RoundsInvariantHolds, PTL DEF MatchSpec

-----------------------------------------------------------------------------
(* Verdicts.                                                                *)

\* The severities in their order.
LEMMA WeightFacts ==
  /\ Weight("info") = 0 /\ Weight("low") = 1 /\ Weight("medium") = 2 /\ Weight("high") = 3
BY Zenon DEF Weight

\* A verdict without blame has no weight.
LEMMA NoBlameWeighs ==
  ASSUME NEW rule
  PROVE  /\ Weight(Neutral(rule).severity) = 0 /\ Weight(NotApplicable(rule).severity) = 0
         /\ Weight(Pending.severity) = 0
<1>1. Neutral(rule).severity = "info" /\ NotApplicable(rule).severity = "info" /\ Pending.severity = "info"
  BY DEF Neutral, NotApplicable, Pending, Conclusion
<1>2. QED
  BY <1>1, WeightFacts

\* How heavy the verdicts are.
LEMMA CombatWeight ==
  ASSUME NEW a, NEW outcome
  PROVE  Weight(AssessCombat(a, outcome).severity) =
           IF a["tradeable"] = "no" THEN IF outcome = "death" THEN 3 ELSE 2
           ELSE IF \/ a["crosshair_ready"] = "no"
                   \/ a["utility_available"] = "yes" /\ a["utility_used"] = "no"
                   \/ a["escape_route"] = "no" /\ outcome = "death" THEN 2 ELSE 0
<1>1. AssessCombat(a, outcome).severity =
           IF a["tradeable"] = "no" THEN IF outcome = "death" THEN "high" ELSE "medium"
           ELSE IF \/ a["crosshair_ready"] = "no"
                   \/ a["utility_available"] = "yes" /\ a["utility_used"] = "no"
                   \/ a["escape_route"] = "no" /\ outcome = "death" THEN "medium" ELSE "info"
  BY DEF AssessCombat, Neutral, Conclusion
<1>2. QED
  BY <1>1, WeightFacts

\* How severe the rotation rules are.
LEMMA RotationWeight ==
  ASSUME NEW a
  PROVE  Weight(AssessRotation(a).severity) =
           IF \/ a["teammate_spacing"] = "no"
              \/ a["new_information"] = "no" /\ a["objective_pressure"] = "no" THEN 2
           ELSE IF a["sound_safe"] = "no" THEN 1 ELSE 0
<1>1. AssessRotation(a).severity =
           IF \/ a["teammate_spacing"] = "no"
              \/ a["new_information"] = "no" /\ a["objective_pressure"] = "no" THEN "medium"
           ELSE IF a["sound_safe"] = "no" THEN "low" ELSE "info"
  BY DEF AssessRotation, Neutral, Conclusion
<1>2. QED
  BY <1>1, WeightFacts

\* How severe the tempo rules are.
LEMMA TempoWeight ==
  ASSUME NEW a
  PROVE  Weight(AssessTempo(a).severity) =
           IF \/ a["team_aligned"] = "no"
              \/ a["purpose_clear"] = "no" /\ a["safe_space_available"] = "yes" THEN 2
           ELSE IF a["purpose_clear"] = "no" /\ a["information_gained"] = "no" THEN 1 ELSE 0
<1>1. AssessTempo(a).severity =
           IF \/ a["team_aligned"] = "no"
              \/ a["purpose_clear"] = "no" /\ a["safe_space_available"] = "yes" THEN "medium"
           ELSE IF a["purpose_clear"] = "no" /\ a["information_gained"] = "no" THEN "low" ELSE "info"
  BY DEF AssessTempo, Neutral, Conclusion
<1>2. QED
  BY <1>1, WeightFacts

\* One answer turned against the player, in a fight, a death, a rotation, a hold.
Turns(a, b, q, v) == b[q] = v /\ \A p \in AllQuestions \ {q} : b[p] = a[p]

TurnedInContact(a, b, q) ==
  \/ q \in {"tradeable", "crosshair_ready", "utility_used", "escape_route"} /\ Turns(a, b, q, "no")
  \/ q = "utility_available" /\ Turns(a, b, q, "yes")

TurnedInRotation(a, b, q) ==
  q \in {"teammate_spacing", "sound_safe", "new_information", "objective_pressure"} /\ Turns(a, b, q, "no")

TurnedInTempo(a, b, q) ==
  \/ q \in {"team_aligned", "purpose_clear", "information_gained"} /\ Turns(a, b, q, "no")
  \/ q = "safe_space_available" /\ Turns(a, b, q, "yes")

\* The questions of every kind are questions.
LEMMA AllAreQuestions ==
  CombatQuestions \cup DeathQuestions \cup RotationQuestions \cup TempoQuestions \subseteq AllQuestions
<1>1. Questions("death_review") = DeathQuestions /\ Questions("combat_spike") = CombatQuestions
  BY Zenon DEF Questions
<1>2. Questions("rotation_spike") = RotationQuestions /\ Questions("low_activity") = TempoQuestions
  BY Zenon DEF Questions
<1>3. QED
  BY <1>1, <1>2 DEF AllQuestions, DecisionKinds

\* In contact an adverse answer never makes the verdict milder.
LEMMA ContactWorsens ==
  ASSUME NEW a, NEW b, NEW q, TurnedInContact(a, b, q), NEW outcome
  PROVE  Weight(AssessCombat(b, outcome).severity) >= Weight(AssessCombat(a, outcome).severity)
<1>1. ContactQuestions \subseteq AllQuestions
  BY AllAreQuestions DEF CombatQuestions
<1>2. \A p \in ContactQuestions : p = q \/ b[p] = a[p]
  BY <1>1 DEF TurnedInContact, Turns
<1>3. QED
  BY <1>2, CombatWeight DEF ContactQuestions, TurnedInContact, Turns

\* A contact that ends in death is never judged more mildly than one that does not.
LEMMA LosingWorsens ==
  ASSUME NEW a, NEW b, Turns(a, b, "outcome", "death"), NEW outcome
  PROVE  Weight(AssessCombat(b, "death").severity) >= Weight(AssessCombat(a, outcome).severity)
<1>1. ContactQuestions \subseteq AllQuestions \ {"outcome"}
  BY AllAreQuestions DEF CombatQuestions, ContactQuestions
<1>2. \A p \in ContactQuestions : b[p] = a[p]
  BY <1>1 DEF Turns
<1>3. QED
  BY <1>2, CombatWeight DEF ContactQuestions

\* On the move an adverse answer never makes the verdict milder.
LEMMA RotationWorsens ==
  ASSUME NEW a, NEW b, NEW q, TurnedInRotation(a, b, q)
  PROVE  Weight(AssessRotation(b).severity) >= Weight(AssessRotation(a).severity)
<1>1. \A p \in RotationQuestions : p = q \/ b[p] = a[p]
  BY AllAreQuestions DEF TurnedInRotation, Turns
<1>2. QED
  BY <1>1, RotationWeight DEF RotationQuestions, TurnedInRotation, Turns

\* An adverse answer about tempo never makes the verdict milder.
LEMMA TempoWorsens ==
  ASSUME NEW a, NEW b, NEW q, TurnedInTempo(a, b, q)
  PROVE  Weight(AssessTempo(b).severity) >= Weight(AssessTempo(a).severity)
<1>1. \A p \in TempoQuestions : p = q \/ b[p] = a[p]
  BY AllAreQuestions DEF TurnedInTempo, Turns
<1>2. QED
  BY <1>1, TempoWeight DEF TempoQuestions, TurnedInTempo, Turns

\* What an adverse fact asks of one question.
LEMMA AdverseAnswers ==
  ASSUME NEW k \in DecisionKinds, NEW fact \in Adverse(k), NEW q \in DOMAIN fact
  PROVE  /\ q \in Required(k) /\ q # Denied(k) /\ fact[q] # "unknown"
         /\ k = "combat_spike" =>
              \/ q \in {"tradeable", "crosshair_ready", "utility_used", "escape_route"} /\ fact[q] = "no"
              \/ q = "utility_available" /\ fact[q] = "yes"
              \/ q = "outcome" /\ fact[q] = "death"
         /\ k = "death_review" =>
              \/ q \in {"tradeable", "crosshair_ready", "utility_used", "escape_route"} /\ fact[q] = "no"
              \/ q = "utility_available" /\ fact[q] = "yes"
         /\ k = "rotation_spike" =>
              /\ q \in {"teammate_spacing", "sound_safe", "new_information", "objective_pressure"}
              /\ fact[q] = "no"
         /\ k = "low_activity" =>
              \/ q \in {"team_aligned", "purpose_clear", "information_gained"} /\ fact[q] = "no"
              \/ q = "safe_space_available" /\ fact[q] = "yes"
<1>1. CASE k = "combat_spike"
  <2>1. Adverse("combat_spike") =
          {[tradeable |-> "no"], [crosshair_ready |-> "no"],
           [utility_available |-> "yes", utility_used |-> "no"]}
            \cup {[escape_route |-> "no", outcome |-> "death"]}
    BY Zenon DEF Adverse
  <2>2. Questions("combat_spike") = CombatQuestions /\ Denied("combat_spike") = "fight_occurred"
    BY Zenon DEF Questions, Denied
  <2>3. \/ q \in {"tradeable", "crosshair_ready", "utility_used", "escape_route"} /\ fact[q] = "no"
        \/ q = "utility_available" /\ fact[q] = "yes"
        \/ q = "outcome" /\ fact[q] = "death"
    BY <1>1, <2>1
  <2>4. q \in Required(k) /\ q # Denied(k)
    BY <1>1, <2>2, <2>3 DEF Required, CombatQuestions, ContactQuestions
  <2>5. QED
    BY <1>1, <2>3, <2>4
<1>2. CASE k = "death_review"
  <2>1. Adverse("death_review") =
          {[tradeable |-> "no"], [crosshair_ready |-> "no"],
           [utility_available |-> "yes", utility_used |-> "no"]} \cup {[escape_route |-> "no"]}
    BY Zenon DEF Adverse
  <2>2. Questions("death_review") = DeathQuestions /\ Denied("death_review") = "death_confirmed"
    BY Zenon DEF Questions, Denied
  <2>3. \/ q \in {"tradeable", "crosshair_ready", "utility_used", "escape_route"} /\ fact[q] = "no"
        \/ q = "utility_available" /\ fact[q] = "yes"
    BY <1>2, <2>1
  <2>4. q \in Required(k) /\ q # Denied(k)
    BY <1>2, <2>2, <2>3 DEF Required, DeathQuestions, ContactQuestions
  <2>5. QED
    BY <1>2, <2>3, <2>4
<1>3. CASE k = "rotation_spike"
  <2>1. Adverse("rotation_spike") =
          {[teammate_spacing |-> "no"], [sound_safe |-> "no"],
           [new_information |-> "no", objective_pressure |-> "no"]}
    BY Zenon DEF Adverse
  <2>2. Questions("rotation_spike") = RotationQuestions /\ Denied("rotation_spike") = "movement_was_rotation"
    BY Zenon DEF Questions, Denied
  <2>3. /\ q \in {"teammate_spacing", "sound_safe", "new_information", "objective_pressure"}
        /\ fact[q] = "no"
    BY <1>3, <2>1
  <2>4. q \in Required(k) /\ q # Denied(k)
    BY <1>3, <2>2, <2>3 DEF Required, RotationQuestions
  <2>5. QED
    BY <1>3, <2>3, <2>4
<1>4. CASE k = "low_activity"
  <2>1. Adverse("low_activity") =
          {[team_aligned |-> "no"],
           [purpose_clear |-> "no", safe_space_available |-> "yes", information_gained |-> "no"],
           [purpose_clear |-> "no", information_gained |-> "no"]}
    BY Zenon DEF Adverse
  <2>2. Questions("low_activity") = TempoQuestions /\ Denied("low_activity") = "window_is_hold"
    BY Zenon DEF Questions, Denied
  <2>3. \/ q \in {"team_aligned", "purpose_clear", "information_gained"} /\ fact[q] = "no"
        \/ q = "safe_space_available" /\ fact[q] = "yes"
    BY <1>4, <2>1
  <2>4. q \in Required(k) /\ q # Denied(k)
    BY <1>4, <2>2, <2>3 DEF Required, TempoQuestions
  <2>5. QED
    BY <1>4, <2>3, <2>4
<1>5. QED
  BY <1>1, <1>2, <1>3, <1>4 DEF DecisionKinds

\* An adverse answer never makes the verdict of the rules milder, whatever was
\* decided on.
LEMMA JudgedWorsens ==
  ASSUME NEW k \in DecisionKinds, NEW fact \in Adverse(k), NEW q \in DOMAIN fact, NEW a, NEW b,
         Turns(a, b, q, fact[q])
  PROVE  Weight(Judged(k, b).severity) >= Weight(Judged(k, a).severity)
<1>1. CASE k = "combat_spike"
  <2>1. Judged("combat_spike", a) = AssessCombat(a, a["outcome"])
        /\ Judged("combat_spike", b) = AssessCombat(b, b["outcome"])
    BY Zenon DEF Judged
  <2>2. CASE q = "outcome"
    <3>1. Turns(a, b, "outcome", "death") /\ b["outcome"] = "death"
      BY <1>1, <2>2, AdverseAnswers DEF Turns
    <3>2. QED
      BY <1>1, <2>1, <3>1, LosingWorsens
  <2>3. CASE q # "outcome"
    <3>1. TurnedInContact(a, b, q)
      BY <1>1, <2>3, AdverseAnswers DEF TurnedInContact
    <3>2. "outcome" \in AllQuestions
      BY AllAreQuestions DEF CombatQuestions
    <3>3. b["outcome"] = a["outcome"]
      BY <2>3, <3>2 DEF Turns
    <3>4. QED
      BY <1>1, <2>1, <3>1, <3>3, ContactWorsens
  <2>4. QED
    BY <2>2, <2>3
<1>2. CASE k = "death_review"
  <2>1. Judged("death_review", a) = AssessCombat(a, "death")
        /\ Judged("death_review", b) = AssessCombat(b, "death")
    BY Zenon DEF Judged
  <2>2. TurnedInContact(a, b, q)
    BY <1>2, AdverseAnswers DEF TurnedInContact
  <2>3. QED
    BY <1>2, <2>1, <2>2, ContactWorsens
<1>3. CASE k = "rotation_spike"
  <2>1. Judged("rotation_spike", a) = AssessRotation(a) /\ Judged("rotation_spike", b) = AssessRotation(b)
    BY Zenon DEF Judged
  <2>2. TurnedInRotation(a, b, q)
    BY <1>3, AdverseAnswers DEF TurnedInRotation
  <2>3. QED
    BY <1>3, <2>1, <2>2, RotationWorsens
<1>4. CASE k = "low_activity"
  <2>1. Judged("low_activity", a) = AssessTempo(a) /\ Judged("low_activity", b) = AssessTempo(b)
    BY Zenon DEF Judged
  <2>2. TurnedInTempo(a, b, q)
    BY <1>4, AdverseAnswers DEF TurnedInTempo
  <2>3. QED
    BY <1>4, <2>1, <2>2, TempoWorsens
<1>5. QED
  BY <1>1, <1>2, <1>3, <1>4 DEF DecisionKinds

\* A verdict is one of the three forms of AssessDecision.
LEMMA VerdictForms ==
  ASSUME NEW k \in DecisionKinds, NEW a
  PROVE  /\ a[Denied(k)] = "no" => AssessDecision(k, a) = NotApplicable(k)
         /\ a[Denied(k)] # "no" /\ MissingRequired(k, a) => AssessDecision(k, a) = Pending
         /\ a[Denied(k)] # "no" /\ ~MissingRequired(k, a) => AssessDecision(k, a) = Judged(k, a)
BY Zenon DEF AssessDecision, Judged

\* The rules always come to a verdict.
LEMMA JudgedIsAVerdict ==
  ASSUME NEW k \in DecisionKinds, NEW a
  PROVE  Completed(Judged(k, a)) /\ Weight(Judged(k, a).severity) >= 0
<1>1. ASSUME NEW outcome
      PROVE  Completed(AssessCombat(a, outcome)) /\ Weight(AssessCombat(a, outcome).severity) >= 0
  <2>1. Completed(AssessCombat(a, outcome))
    BY DEF Completed, AssessCombat, Conclusion, Neutral
  <2>2. QED
    BY <2>1, CombatWeight
<1>2. Completed(AssessRotation(a)) /\ Completed(AssessTempo(a))
  BY DEF Completed, AssessRotation, AssessTempo, Conclusion, Neutral
<1>3. Weight(AssessRotation(a).severity) >= 0 /\ Weight(AssessTempo(a).severity) >= 0
  <2>1. Weight(AssessRotation(a).severity) \in 0 .. 2
    BY RotationWeight
  <2>2. Weight(AssessTempo(a).severity) \in 0 .. 2
    BY TempoWeight
  <2>3. QED
    BY <2>1, <2>2
<1>4. \/ \E outcome : Judged(k, a) = AssessCombat(a, outcome)
      \/ Judged(k, a) = AssessRotation(a) \/ Judged(k, a) = AssessTempo(a)
  <2>1. /\ Judged("combat_spike", a) = AssessCombat(a, a["outcome"])
        /\ Judged("death_review", a) = AssessCombat(a, "death")
    BY Zenon DEF Judged
  <2>2. /\ Judged("rotation_spike", a) = AssessRotation(a)
        /\ Judged("low_activity", a) = AssessTempo(a)
    BY Zenon DEF Judged
  <2>3. QED
    BY <2>1, <2>2 DEF DecisionKinds
<1>5. QED
  BY <1>1, <1>2, <1>3, <1>4

\* The same of the assessment as a whole, once the question had been answered.
LEMMA WorseWeighsMore ==
  ASSUME NEW k \in DecisionKinds, NEW fact \in Adverse(k), NEW q \in DOMAIN fact, NEW a, NEW b,
         Turns(a, b, q, fact[q]), Known(a, q)
  PROVE  Weight(AssessDecision(k, b).severity) >= Weight(AssessDecision(k, a).severity)
<1>1. q \in Required(k) /\ q # Denied(k) /\ b[q] # "unknown"
  BY AdverseAnswers DEF Turns
<1>2. Weight(AssessDecision(k, b).severity) >= 0
  BY VerdictForms, JudgedIsAVerdict, NoBlameWeighs
<1>3. CASE a[Denied(k)] = "no" \/ MissingRequired(k, a)
  <2>1. Weight(AssessDecision(k, a).severity) = 0
    BY <1>3, VerdictForms, NoBlameWeighs
  <2>2. QED
    BY <1>2, <2>1
<1>4. CASE a[Denied(k)] # "no" /\ ~MissingRequired(k, a)
  <2>1. Required(k) \subseteq AllQuestions /\ Denied(k) \in AllQuestions
    BY QuestionsOfKinds
  <2>2. b[Denied(k)] # "no" /\ ~MissingRequired(k, b)
    BY <1>1, <1>4, <2>1 DEF MissingRequired, Known, Turns
  <2>3. AssessDecision(k, a) = Judged(k, a) /\ AssessDecision(k, b) = Judged(k, b)
    BY <1>4, <2>2, VerdictForms
  <2>4. QED
    BY <2>3, JudgedWorsens
<1>5. QED
  BY <1>3, <1>4

\* A further answer takes a verdict back only if it denies the premise.
LEMMA VerdictsRemain ==
  ASSUME NEW k \in DecisionKinds, NEW a, NEW b, NEW q, q # Denied(k), Turns(a, b, q, b[q]),
         b[q] # "unknown", Completed(AssessDecision(k, a))
  PROVE  Completed(AssessDecision(k, b))
<1>1. Required(k) \subseteq AllQuestions /\ Denied(k) \in AllQuestions
  BY QuestionsOfKinds
<1>2. b[Denied(k)] = a[Denied(k)]
  BY <1>1 DEF Turns
<1>3. ~Completed(Pending) /\ Completed(NotApplicable(k))
  BY DEF Completed, Pending, NotApplicable, Conclusion
<1>4. CASE a[Denied(k)] = "no"
  BY <1>2, <1>3, <1>4, VerdictForms
<1>5. CASE a[Denied(k)] # "no"
  <2>1. ~MissingRequired(k, a)
    BY <1>3, <1>5, VerdictForms
  <2>2. ~MissingRequired(k, b)
    BY <1>1, <2>1 DEF MissingRequired, Known, Turns
  <2>3. AssessDecision(k, b) = Judged(k, b)
    BY <1>2, <1>5, <2>2, VerdictForms
  <2>4. QED
    BY <2>3, JudgedIsAVerdict
<1>6. QED
  BY <1>4, <1>5

\* Between two states of one decision one answer was given.
LEMMA OnlyAnswersTurn ==
  ASSUME VerdictInv, [MatchNext]_matchVars, kind' = kind, answers' # answers
  PROVE  /\ kind \in DecisionKinds
         /\ result = AssessDecision(kind, answers) /\ result' = AssessDecision(kind, answers')
         /\ \E q, value : answers' = [answers EXCEPT ![q] = value]
<1>1. Assess
  <2>1. CASE Analyze
    BY <2>1 DEF Analyze, assessmentVars
  <2>2. CASE Report
    BY <2>2 DEF Report, assessmentVars
  <2>3. CASE OpenDecision
    <3>1. stage = "reported" /\ \E d \in DOMAIN decisions : kind' = decisions[d].kind
      BY <2>3 DEF OpenDecision, Open
    <3>2. kind = "" /\ kind' \in DecisionKinds
      BY <3>1 DEF VerdictInv
    <3>3. QED
      BY <3>2 DEF DecisionKinds
  <2>4. CASE OpenEvaluation
    BY <2>4 DEF OpenEvaluation, assessmentVars
  <2>5. CASE UNCHANGED matchVars
    BY <2>5 DEF matchVars, assessmentVars
  <2>6. QED
    BY <2>1, <2>2, <2>3, <2>4, <2>5 DEF MatchNext
<1>2. PICK q, value : AnswerQuestion(q, value)
  BY <1>1 DEF Assess, AssessNext
<1>3. QED
  BY <1>2 DEF AnswerQuestion, VerdictInv

\* A changed answer is the one that was given.
LEMMA VerdictsStep ==
  ASSUME VerdictInv, [MatchNext]_matchVars, kind' = kind, NEW q \in DOMAIN answers,
         answers'[q] # answers[q]
  PROVE  /\ kind \in DecisionKinds
         /\ result = AssessDecision(kind, answers) /\ result' = AssessDecision(kind, answers')
         /\ Turns(answers, answers', q, answers'[q])
<1>1. answers' # answers
  OBVIOUS
<1>2. PICK p, value : answers' = [answers EXCEPT ![p] = value]
  BY <1>1, OnlyAnswersTurn
<1>3. p = q
  BY <1>2
<1>4. \A r : r # q => answers'[r] = answers[r]
  BY <1>2, <1>3
<1>5. QED
  BY <1>1, <1>4, OnlyAnswersTurn DEF Turns

\* Whatever answer is added or changed: an adverse one never makes the verdict
\* milder, and a verdict is taken back only with an answer, be it the denial that
\* there was such a decision.
THEOREM TheVerdictsAreFair == MatchSpec => VerdictsAreFair
<1>1. ASSUME VerdictInv, [MatchNext]_matchVars, NEW q \in DOMAIN answers,
             Completed(result), kind' = kind, answers' # answers, answers'[q] # "unknown",
             \A p \in DOMAIN answers \ {q} : answers'[p] = answers[p], q # Denied(kind)
      PROVE  Completed(result')
  <2>1. /\ kind \in DecisionKinds
        /\ result = AssessDecision(kind, answers) /\ result' = AssessDecision(kind, answers')
        /\ \E p, value : answers' = [answers EXCEPT ![p] = value]
    BY <1>1, OnlyAnswersTurn
  <2>2. PICK p, value : answers' = [answers EXCEPT ![p] = value]
    BY <2>1
  <2>3. \A r : r # q => answers'[r] = answers[r]
    BY <1>1, <2>2
  <2>4. Turns(answers, answers', q, answers'[q])
    BY <2>3 DEF Turns
  <2>5. QED
    BY <1>1, <2>1, <2>4, VerdictsRemain
<1>2. ASSUME VerdictInv, [MatchNext]_matchVars, NEW q \in DOMAIN answers, kind' = kind,
             Known(answers, q), NEW fact \in Adverse(kind), q \in DOMAIN fact,
             answers[q] # fact[q], answers'[q] = fact[q]
      PROVE  Weight(result'.severity) >= Weight(result.severity)
  <2>1. /\ kind \in DecisionKinds
        /\ result = AssessDecision(kind, answers) /\ result' = AssessDecision(kind, answers')
        /\ Turns(answers, answers', q, fact[q])
    BY <1>2, VerdictsStep
  <2>2. QED
    BY <1>2, <2>1, WorseWeighsMore
<1>3. VerdictInv /\ [MatchNext]_matchVars =>
        [ \A q \in DOMAIN answers :
            Completed(result) /\ kind' = kind /\ answers' # answers /\ answers'[q] # "unknown"
              /\ (\A p \in DOMAIN answers \ {q} : answers'[p] = answers[p])
              /\ q # Denied(kind)
              => Completed(result') ]_assessmentVars
  BY <1>1
<1>4. VerdictInv /\ [MatchNext]_matchVars =>
        [ \A q \in DOMAIN answers :
            /\ kind' = kind
            /\ Known(answers, q)
            /\ \E fact \in Adverse(kind) : q \in DOMAIN fact /\ answers[q] # fact[q] /\ answers'[q] = fact[q]
            => Weight(result'.severity) >= Weight(result.severity) ]_assessmentVars
  BY <1>2
<1>5. QED
  BY <1>3, <1>4, ReviewInvariantHolds, PTL DEF MatchSpec, VerdictsAreFair, VerdictsStay, WorseIsNotMilder

=============================================================================
