--------------------------- MODULE ResultsProofs ---------------------------
(***************************************************************************)
(* What holds of the results of a run for any events, keys, queue, budgets *)
(* and retries: the rules' gates stand, deliveries rest on a human word,   *)
(* and cancellation starts no review.  And of the outbox that sends them   *)
(* (O!), for any revisions, permission versions, attempts and workers:     *)
(* what it guarantees, and what needs one delivery at a time.              *)
(***************************************************************************)
EXTENDS RunResults, OutboxRecords, TLAPS, FiniteSetTheorems

\* The outbox shares no state with the results of the run.
CONSTANTS Workers, NoDelivery, MaxRequests
VARIABLES counted, frame
O == INSTANCE ActionOutbox

(* A document is a copy of what the rules decided, on both sides.          *)
Gates ==
    \A e \in Events :
        /\ copy[e].there => copy[e].decision = found[e]
        /\ store[e].there => store[e].decision = found[e]
        /\ found[e] = "none" => ~copy[e].there /\ ~store[e].there

(* A stored confirmation is the last human word, at the revision it made;  *)
(* the engine's copy holds none.                                           *)
Words ==
    \A e \in Events :
        /\ copy[e].human = "unreviewed"
        /\ store[e].human = "confirmed_by_user" =>
              word[e] = [says |-> "confirmed_by_user", revision |-> store[e].revision]

-----------------------------------------------------------------------------
(* What the operators on documents and tasks do to their fields.           *)
LEMMA EmptyDoc == NoDoc \in Doc /\ ~NoDoc.there /\ NoDoc.human = "unreviewed"
BY DEF NoDoc, Doc, Decisions, Notes

LEMMA NewDoc ==
  ASSUME NEW d \in {"supported", "inconclusive", "rejected"}, NEW s \in Starts \cup {0}
  PROVE  /\ Emitted(s, d) \in Doc /\ Emitted(s, d).there
         /\ Emitted(s, d).decision = d /\ Emitted(s, d).human = "unreviewed"
BY DEF Emitted, NoDoc, Doc, Decisions, Notes

(* The event that is written again has its start and its disposition.      *)
LEMMA UnsavedEvent ==
  ASSUME TypeOK, NEW e \in Unsaved
  PROVE  /\ e \in Events /\ found[e] \in {"supported", "inconclusive", "rejected"}
         /\ store[e].start \in Starts \cup {0}
BY DEF Unsaved, TypeOK, Doc

LEMMA ReviewedDoc ==
  ASSUME NEW doc \in Doc, NEW d \in Decisions
  PROVE  /\ Reviewed(doc, d) \in Doc
         /\ Reviewed(doc, d).there = doc.there
         /\ Reviewed(doc, d).decision = doc.decision
         /\ Reviewed(doc, d).human = d
         /\ Reviewed(doc, d).revision = doc.revision + 1
<1> DEFINE next == doc.revision + 1
<1>1. next \in Nat
  BY DEF Doc
<1>2. Reviewed(doc, d) = [doc EXCEPT !.human = d, !.revision = next]
  BY Zenon DEF Reviewed
<1> HIDE DEF next
<1>3. QED
  <2>1. /\ Reviewed(doc, d) \in Doc
        /\ Reviewed(doc, d).there = doc.there
        /\ Reviewed(doc, d).decision = doc.decision
        /\ Reviewed(doc, d).human = d
        /\ Reviewed(doc, d).revision = next
    BY <1>1, <1>2 DEF Doc
  <2>2. QED
    BY <2>1 DEF next

LEMMA AnnotatedDoc ==
  ASSUME NEW doc \in Doc, NEW note \in Notes
  PROVE  /\ Annotated(doc, note) \in Doc
         /\ Annotated(doc, note).there = doc.there
         /\ Annotated(doc, note).decision = doc.decision
         /\ Annotated(doc, note).human = doc.human
BY DEF Annotated, Doc

LEMMA NewTasks ==
  NoTask \in Task /\ Over \in Task /\ [NoTask EXCEPT !.at = "queued"] \in Task
BY DEF Task, NoTask, Over, Notes

LEMMA TaskSteps ==
  ASSUME NEW t \in Task
  PROVE  /\ \A at \in {"calling", "backoff"} : [t EXCEPT !.at = at] \in Task
         /\ \A note \in Notes : [t EXCEPT !.at = "answered", !.note = note] \in Task
         /\ [t EXCEPT !.at = "calling", !.tries = t.tries + 1] \in Task
<1>1. \A at \in {"calling", "backoff"} : [t EXCEPT !.at = at] \in Task
  BY DEF Task
<1>2. \A note \in Notes : [t EXCEPT !.at = "answered", !.note = note] \in Task
  BY DEF Task
<1>3. ASSUME NEW n \in Nat
      PROVE  [t EXCEPT !.at = "calling", !.tries = n] \in Task
  BY DEF Task
<1>4. t.tries + 1 \in Nat
  BY DEF Task
<1>5. QED
  BY <1>1, <1>2, <1>3, <1>4

(* Replacing one task, or one document, keeps the tables typed.            *)
LEMMA TaskPut ==
  ASSUME TypeOK, NEW e \in Events, NEW t \in Task, task' = [task EXCEPT ![e] = t]
  PROVE  task' \in [Events -> Task]
BY DEF TypeOK

-----------------------------------------------------------------------------
(* A review task's steps keep the types: they touch the task, its place    *)
(* and, at the end, the documents.                                         *)
LEMMA RaisedType ==
  ASSUME TypeOK, NEW e \in Events, Raised(e)
  PROVE  task' \in [Events -> Task] /\ slots' \in Nat
BY NewTasks, TaskPut DEF Raised, TypeOK

LEMMA ReviewType ==
  ASSUME TypeOK, NEW e \in Events, Reviewing(e)
  PROVE  TypeOK'
<1> DEFINE TaskOK == task' \in [Events -> Task] /\ slots' \in Nat
           Others == UNCHANGED <<engine, cancelled, store, human, reader>>
<1>0. task[e] \in Task
  BY DEF TypeOK
<1>1. ASSUME TaskOK, Others
      PROVE  TypeOK'
  BY <1>1 DEF TypeOK, engine, human
<1>2. CASE StartReview(e)
  <2>1. [task[e] EXCEPT !.at = "answered", !.note = "partial"] \in Task
    BY <1>0, TaskSteps DEF Notes
  <2>2. [task[e] EXCEPT !.at = "calling"] \in Task /\ Over \in Task
    BY <1>0, TaskSteps, NewTasks
  <2>3. PICK t \in Task : task' = [task EXCEPT ![e] = t]
    BY <1>2, <2>1, <2>2 DEF StartReview
  <2>4. slots' \in Nat
    BY <1>2 DEF StartReview, TypeOK
  <2>5. QED
    BY <1>1, <1>2, <2>3, <2>4, TaskPut DEF StartReview
<1>3. CASE Transient(e)
  <2>1. [task[e] EXCEPT !.at = "backoff"] \in Task
    BY <1>0, TaskSteps
  <2>2. CASE Raised(e)
    BY <1>1, <1>3, <2>2, RaisedType DEF Transient
  <2>3. CASE task' = [task EXCEPT ![e].at = "backoff"] /\ slots' = slots
    BY <1>1, <1>3, <2>1, <2>3, TaskPut DEF Transient, TypeOK
  <2>4. QED
    BY <1>3, <2>2, <2>3 DEF Transient
<1>4. CASE Permanent(e) \/ DeadlinePassed(e) \/ AnnotateFails(e)
  BY <1>1, <1>4, RaisedType DEF Permanent, DeadlinePassed, AnnotateFails
<1>5. CASE TryAgain(e)
  <2>1. [task[e] EXCEPT !.at = "calling", !.tries = task[e].tries + 1] \in Task
    BY <1>0, TaskSteps
  <2>2. task' = [task EXCEPT ![e] = [task[e] EXCEPT !.at = "calling", !.tries = task[e].tries + 1]]
    BY <1>0, <1>5 DEF TryAgain, TypeOK, Task
  <2>3. QED
    BY <1>1, <1>5, <2>1, <2>2, TaskPut DEF TryAgain, TypeOK
<1>6. CASE TimedOut(e) \/ \E note \in Verdicts : Answered(e, note)
  <2>1. PICK note \in Notes :
           task' = [task EXCEPT ![e] = [task[e] EXCEPT !.at = "answered", !.note = note]]
    BY <1>6, RunResultsAssumption DEF TimedOut, Answered, Notes
  <2>2. [task[e] EXCEPT !.at = "answered", !.note = note] \in Task
    BY <1>0, TaskSteps
  <2>3. slots' = slots /\ Others
    BY <1>6 DEF TimedOut, Answered
  <2>4. QED
    BY <1>1, <2>1, <2>2, <2>3, TaskPut DEF TypeOK
<1>7. CASE Annotate(e)
  <2>1. Annotated(copy[e], task[e].note) \in Doc
    BY <1>0, AnnotatedDoc DEF TypeOK, Task
  <2>2. copy' \in [Events -> Doc] /\ store' \in [Events -> Doc]
    BY <1>7, <2>1 DEF Annotate, TypeOK
  <2>3. task' \in [Events -> Task] /\ slots' \in Nat
    BY <1>7, NewTasks, TaskPut DEF Annotate, TypeOK
  <2>4. QED
    BY <1>7, <2>2, <2>3 DEF Annotate, TypeOK, human
<1>8. QED
  BY <1>2, <1>3, <1>4, <1>5, <1>6, <1>7 DEF Reviewing

-----------------------------------------------------------------------------
(* The run's own steps keep the types.                                     *)
LEMMA RunType ==
  ASSUME TypeOK, Run
  PROVE  TypeOK'
<1>1. CASE \E how \in {"completed", "cancelled", "failed"} : EndFrames(how)
  BY <1>1 DEF EndFrames, TypeOK, human
<1>2. ASSUME NEW e \in Events, NEW d \in {"supported", "inconclusive", "rejected"},
             NEW s \in Starts, NEW saved \in BOOLEAN, Emit(e, d, s, saved)
      PROVE  TypeOK'
  <2>1. Emitted(s, d) \in Doc
    BY NewDoc
  <2>2. copy' \in [Events -> Doc] /\ store' \in [Events -> Doc]
    BY <1>2, <2>1 DEF Emit, TypeOK
  <2>3. found' \in [Events -> {"none", "supported", "inconclusive", "rejected"}]
    BY <1>2 DEF Emit, TypeOK
  <2>4. QED
    BY <1>2, <2>2, <2>3 DEF Emit, TypeOK, human
<1>2a. ASSUME NEW e \in Events, NEW saved \in BOOLEAN, EmitAgain(e, saved)
       PROVE  TypeOK'
  <2> DEFINE event == Emitted(store[e].start, found[e])
  <2>1. event \in Doc
    BY <1>2a, NewDoc, UnsavedEvent DEF EmitAgain
  <2>2. copy' \in [Events -> Doc] /\ store' \in [Events -> Doc]
    BY <1>2a, <2>1 DEF EmitAgain, TypeOK
  <2>3. QED
    BY <1>2a, <2>2 DEF EmitAgain, TypeOK, human
<1>3. CASE EmitFails \/ EndReviews \/ Finalize
  BY <1>3 DEF EmitFails, EndReviews, Finalize, TypeOK, human
<1>4. CASE BeginReviews
  <2>1. task' \in [Events -> Task]
    BY <1>4, NewTasks DEF BeginReviews, TypeOK
  <2>2. QED
    BY <1>4, <2>1 DEF BeginReviews, TypeOK, human
<1>5. QED
  BY <1>1, <1>2, <1>2a, <1>3, <1>4 DEF Run

(* A review given to an event is a step of a client like the others.       *)
LEMMA ReviewStep ==
  ASSUME TypeOK, NEW e \in Events, NEW d \in Decisions, NEW n \in Nat, Review(e, d, n)
  PROVE  /\ TypeOK'
         /\ store' = [store EXCEPT ![e] = Reviewed(store[e], d)]
         /\ store[e].revision = n
         /\ word' = [word EXCEPT ![e] = [says |-> d, revision |-> n + 1]]
<1>1. store' = [store EXCEPT ![e] = Reviewed(store[e], d)] /\ store[e].revision = n
  BY DEF Review
<1>2. word' = [word EXCEPT ![e] = [says |-> d, revision |-> n + 1]]
  BY DEF Review
<1>3. store' \in [Events -> Doc]
  BY <1>1, ReviewedDoc DEF TypeOK
<1>4. word' \in [Events -> [says : Decisions \cup {"none"}, revision : Nat]]
  BY <1>2 DEF TypeOK
<1>5. QED
  BY <1>1, <1>2, <1>3, <1>4 DEF Review, TypeOK, engine

(* The clients' steps keep the types.                                      *)
LEMMA ClientType ==
  ASSUME TypeOK, Clients
  PROVE  TypeOK'
<1>1. CASE CancelRun \/ Enable
  BY <1>1 DEF CancelRun, Enable, TypeOK, engine, human
<1>2. CASE \E limit \in 1..PageSize : ReadPage(limit)
  BY <1>2 DEF ReadPage, TypeOK, engine, human
<1>3. ASSUME NEW e \in Events, NEW d \in Decisions, NEW n, Review(e, d, n)
      PROVE  TypeOK'
  <2>1. n \in Nat
    BY <1>3 DEF Review, TypeOK, Doc
  <2>2. QED
    BY <1>3, <2>1, ReviewStep
<1>4. ASSUME NEW e \in Events, NEW n \in 0..MaxReviews, NEW k \in Keys, CreateDelivery(e, n, k)
      PROVE  TypeOK'
  <2>1. [event |-> e, revision |-> n, key |-> k] \in [event : Events, revision : Nat, key : Keys]
    BY RunResultsAssumption
  <2>2. QED
    BY <1>4, <2>1 DEF CreateDelivery, TypeOK, engine
<1>5. QED
  BY <1>1, <1>2, <1>3, <1>4 DEF Clients, ReviewNow

LEMMA InitType == Init => TypeOK
<1> SUFFICES ASSUME Init
             PROVE  TypeOK
  OBVIOUS
<1>1. copy \in [Events -> Doc] /\ store \in [Events -> Doc]
  BY EmptyDoc DEF Init
<1>2. task \in [Events -> Task]
  BY NewTasks DEF Init
<1>3. word \in [Events -> [says : Decisions \cup {"none"}, revision : Nat]]
  BY DEF Init, Silence
<1>4. slots \in Nat
  BY RunResultsAssumption DEF Init
<1>5. QED
  BY <1>1, <1>2, <1>3, <1>4 DEF Init, TypeOK

LEMMA TypeStep == TypeOK /\ [Next]_vars => TypeOK'
<1> SUFFICES ASSUME TypeOK, [Next]_vars
             PROVE  TypeOK'
  OBVIOUS
<1>1. CASE UNCHANGED vars
  BY <1>1 DEF vars, engine, human, TypeOK
<1>2. QED
  BY <1>1, RunType, ReviewType, ClientType DEF Next

(* Whatever reviews, annotations and clients do, the tables are typed.     *)
THEOREM TypeCorrect == Spec => []TypeOK
BY InitType, TypeStep, PTL DEF Spec

-----------------------------------------------------------------------------
(* The gates: a document says what the rules decided of its event.         *)
GateInv == TypeOK /\ Gates /\ OnlySupportedIsDelivered

LEMMA GateStep == GateInv /\ [Next]_vars => GateInv'
<1> SUFFICES ASSUME GateInv, [Next]_vars
             PROVE  Gates' /\ OnlySupportedIsDelivered'
  BY TypeStep DEF GateInv
<1>0. TypeOK /\ Gates /\ OnlySupportedIsDelivered
  BY DEF GateInv
<1>1. ASSUME UNCHANGED <<found, copy, store, deliveries>>
      PROVE  Gates' /\ OnlySupportedIsDelivered'
  BY <1>0, <1>1 DEF Gates, OnlySupportedIsDelivered
<1>2. CASE UNCHANGED vars
  BY <1>1, <1>2 DEF vars, engine, human
<1>3. ASSUME NEW e \in Events, NEW d \in {"supported", "inconclusive", "rejected"},
             NEW s \in Starts, NEW saved \in BOOLEAN, Emit(e, d, s, saved)
      PROVE  Gates' /\ OnlySupportedIsDelivered'
  <2> DEFINE event == Emitted(s, d)
  <2>1. event.there /\ event.decision = d
    BY NewDoc
  <2>2. found' = [found EXCEPT ![e] = d] /\ found[e] = "none" /\ deliveries' = deliveries
    BY <1>3 DEF Emit, human
  <2>3. OnlySupportedIsDelivered'
    BY <1>0, <2>2 DEF OnlySupportedIsDelivered, TypeOK
  <2>4. CASE d = "rejected"
    BY <1>0, <1>3, <2>2, <2>3, <2>4 DEF Emit, Gates, TypeOK
  <2>5. CASE d # "rejected"
    <3>1. /\ copy' = [copy EXCEPT ![e] = event] \/ copy' = copy
          /\ store' = [store EXCEPT ![e] = event]
      BY <1>3, <2>5 DEF Emit
    <3> HIDE DEF event
    <3>2. QED
      BY <1>0, <2>1, <2>2, <2>3, <3>1 DEF Gates, TypeOK
  <2>6. QED
    BY <2>4, <2>5
<1>3a. ASSUME NEW e \in Events, NEW saved \in BOOLEAN, EmitAgain(e, saved)
       PROVE  Gates' /\ OnlySupportedIsDelivered'
  <2> DEFINE event == Emitted(store[e].start, found[e])
  <2>1. event.there /\ event.decision = found[e]
    BY <1>0, <1>3a, NewDoc, UnsavedEvent DEF EmitAgain
  <2>2. /\ copy' = [copy EXCEPT ![e] = event] \/ copy' = copy
        /\ store' = [store EXCEPT ![e] = event]
        /\ found' = found /\ deliveries' = deliveries
    BY <1>3a DEF EmitAgain, human
  <2>3. found[e] # "none"
    BY <1>3a DEF EmitAgain, Unsaved
  <2> HIDE DEF event
  <2>4. QED
    BY <1>0, <2>1, <2>2, <2>3 DEF Gates, OnlySupportedIsDelivered, TypeOK
<1>4. ASSUME NEW e \in Events, Annotate(e)
      PROVE  Gates' /\ OnlySupportedIsDelivered'
  <2> DEFINE updated == Annotated(copy[e], task[e].note)
  <2>1. updated.there = copy[e].there /\ updated.decision = copy[e].decision
    BY <1>0, AnnotatedDoc DEF TypeOK, Task
  <2>2. copy' = [copy EXCEPT ![e] = updated] /\ store' = [store EXCEPT ![e] = updated]
    BY <1>4 DEF Annotate
  <2>3. found' = found /\ deliveries' = deliveries
    BY <1>4 DEF Annotate, human
  <2> HIDE DEF updated
  <2>4. QED
    BY <1>0, <2>1, <2>2, <2>3 DEF Gates, OnlySupportedIsDelivered, TypeOK
<1>5. ASSUME NEW e \in Events, NEW d \in Decisions, NEW n, Review(e, d, n)
      PROVE  Gates' /\ OnlySupportedIsDelivered'
  <2>1. n \in Nat
    BY <1>0, <1>5 DEF Review, TypeOK, Doc
  <2>2. store' = [store EXCEPT ![e] = Reviewed(store[e], d)]
    BY <1>0, <1>5, <2>1, ReviewStep
  <2>3. /\ Reviewed(store[e], d).there = store[e].there
        /\ Reviewed(store[e], d).decision = store[e].decision
    BY <1>0, ReviewedDoc DEF TypeOK
  <2>4. UNCHANGED <<found, copy, deliveries>>
    BY <1>5 DEF Review, engine
  <2>5. QED
    BY <1>0, <2>2, <2>3, <2>4 DEF Gates, OnlySupportedIsDelivered, TypeOK
<1>6. ASSUME NEW e \in Events, NEW n, NEW k, CreateDelivery(e, n, k)
      PROVE  Gates' /\ OnlySupportedIsDelivered'
  <2>1. found[e] = "supported"
    BY <1>0, <1>6 DEF CreateDelivery, Eligible, Gates
  <2>2. UNCHANGED <<found, copy, store>>
    BY <1>6 DEF CreateDelivery, engine
  <2>3. \A d \in deliveries' \ deliveries : d.event = e
    BY <1>6 DEF CreateDelivery
  <2>4. QED
    BY <1>0, <2>1, <2>2, <2>3 DEF Gates, OnlySupportedIsDelivered
<1>7. CASE \E e \in Events : Reviewing(e) /\ ~Annotate(e)
  BY <1>1, <1>7 DEF Reviewing, StartReview, Transient, Permanent, TryAgain, DeadlinePassed,
    TimedOut, AnnotateFails, Answered, engine, human
<1>8. CASE \/ \E how \in {"completed", "cancelled", "failed"} : EndFrames(how)
           \/ EmitFails \/ BeginReviews \/ EndReviews \/ Finalize
           \/ CancelRun \/ Enable \/ \E limit \in 1..PageSize : ReadPage(limit)
  BY <1>1, <1>8 DEF EndFrames, EmitFails, BeginReviews, EndReviews, Finalize, CancelRun, Enable,
    ReadPage, engine, human
<1>9. QED
  BY <1>2, <1>3, <1>3a, <1>4, <1>5, <1>6, <1>7, <1>8 DEF Next, Run, Clients, ReviewNow

(* _run_reviews and eligibility: whatever a model review answers and       *)
(* whoever confirms, what is delivered the rules had found to be           *)
(* supported, for any events, keys and budgets.                            *)
THEOREM GatesStand == Spec => []OnlySupportedIsDelivered
<1>1. Init => GateInv
  BY InitType, EmptyDoc DEF Init, GateInv, Gates, OnlySupportedIsDelivered
<1>2. GateInv => OnlySupportedIsDelivered
  BY DEF GateInv
<1>3. QED
  BY <1>1, <1>2, GateStep, PTL DEF Spec

-----------------------------------------------------------------------------
(* The words: a stored confirmation is the last thing a human said.        *)
WordInv == TypeOK /\ Words

LEMMA WordStep == WordInv /\ [Next]_vars => WordInv'
<1> SUFFICES ASSUME WordInv, [Next]_vars
             PROVE  Words'
  BY TypeStep DEF WordInv
<1>0. TypeOK /\ Words
  BY DEF WordInv
<1>1. ASSUME UNCHANGED <<copy, store, word>>
      PROVE  Words'
  BY <1>0, <1>1 DEF Words
<1>2. CASE UNCHANGED vars
  BY <1>1, <1>2 DEF vars, engine, human
<1>3. ASSUME NEW e \in Events, NEW doc, doc.human = "unreviewed",
             copy' = [copy EXCEPT ![e] = doc] \/ copy' = copy,
             store' = [store EXCEPT ![e] = doc], word' = word
      PROVE  Words'
  BY <1>0, <1>3 DEF Words, TypeOK
<1>4. ASSUME NEW e \in Events, NEW d \in {"supported", "inconclusive", "rejected"},
             NEW s \in Starts, NEW saved \in BOOLEAN, Emit(e, d, s, saved)
      PROVE  Words'
  <2>1. CASE d = "rejected"
    BY <1>1, <1>4, <2>1 DEF Emit, human
  <2>2. CASE d # "rejected"
    <3> DEFINE event == Emitted(s, d)
    <3>1. event.human = "unreviewed"
      BY NewDoc
    <3>2. /\ copy' = [copy EXCEPT ![e] = event] \/ copy' = copy
          /\ store' = [store EXCEPT ![e] = event] /\ word' = word
      BY <1>4, <2>2 DEF Emit, human
    <3> HIDE DEF event
    <3>3. QED
      BY <1>3, <3>1, <3>2
  <2>3. QED
    BY <2>1, <2>2
<1>4a. ASSUME NEW e \in Events, NEW saved \in BOOLEAN, EmitAgain(e, saved)
       PROVE  Words'
  <2> DEFINE event == Emitted(store[e].start, found[e])
  <2>1. event.human = "unreviewed"
    BY <1>0, <1>4a, NewDoc, UnsavedEvent DEF EmitAgain
  <2>2. /\ copy' = [copy EXCEPT ![e] = event] \/ copy' = copy
        /\ store' = [store EXCEPT ![e] = event] /\ word' = word
    BY <1>4a DEF EmitAgain, human
  <2> HIDE DEF event
  <2>3. QED
    BY <1>3, <2>1, <2>2
<1>5. ASSUME NEW e \in Events, Annotate(e)
      PROVE  Words'
  <2> DEFINE updated == Annotated(copy[e], task[e].note)
  <2>1. updated.human = "unreviewed"
    BY <1>0, AnnotatedDoc DEF TypeOK, Task, Words
  <2>2. /\ copy' = [copy EXCEPT ![e] = updated] /\ store' = [store EXCEPT ![e] = updated]
        /\ word' = word
    BY <1>5 DEF Annotate, human
  <2> HIDE DEF updated
  <2>3. QED
    BY <1>3, <2>1, <2>2
<1>6. ASSUME NEW e \in Events, NEW d \in Decisions, NEW n, Review(e, d, n)
      PROVE  Words'
  <2>1. n \in Nat
    BY <1>0, <1>6 DEF Review, TypeOK, Doc
  <2>2. /\ store' = [store EXCEPT ![e] = Reviewed(store[e], d)]
        /\ store[e].revision = n
        /\ word' = [word EXCEPT ![e] = [says |-> d, revision |-> n + 1]]
    BY <1>0, <1>6, <2>1, ReviewStep
  <2>3. Reviewed(store[e], d).human = d /\ Reviewed(store[e], d).revision = store[e].revision + 1
    BY <1>0, ReviewedDoc DEF TypeOK
  <2>4. copy' = copy
    BY <1>6 DEF Review, engine
  <2>5. QED
    BY <1>0, <2>2, <2>3, <2>4 DEF Words, TypeOK
<1>7. CASE \E e \in Events : Reviewing(e) /\ ~Annotate(e)
  BY <1>1, <1>7 DEF Reviewing, StartReview, Transient, Permanent, TryAgain, DeadlinePassed,
    TimedOut, AnnotateFails, Answered, engine, human
<1>8. CASE \/ \E how \in {"completed", "cancelled", "failed"} : EndFrames(how)
           \/ EmitFails \/ BeginReviews \/ EndReviews \/ Finalize
           \/ CancelRun \/ Enable \/ \E limit \in 1..PageSize : ReadPage(limit)
           \/ \E e \in Events, n \in 0..MaxReviews, k \in Keys : CreateDelivery(e, n, k)
  BY <1>1, <1>8 DEF EndFrames, EmitFails, BeginReviews, EndReviews, Finalize, CancelRun, Enable,
    ReadPage, CreateDelivery, engine, human
<1>9. QED
  BY <1>2, <1>4, <1>4a, <1>5, <1>6, <1>7, <1>8 DEF Next, Run, Clients, ReviewNow

(* create_delivery and review: a delivery is made of an event only while   *)
(* the last human word on it is a confirmation, of the revision that word  *)
(* made, although the engine may replace the document at any time.         *)
THEOREM DeliveriesRestOnWords == Spec => DeliveriesAreConfirmed
<1> DEFINE Rests == \A d \in deliveries' \ deliveries :
                      word[d.event] = [says |-> "confirmed_by_user", revision |-> d.revision]
<1>1. Init => WordInv
  BY InitType, EmptyDoc DEF Init, WordInv, Words
<1>2. ASSUME WordInv, [Next]_vars
      PROVE  [Rests]_vars
  <2>1. CASE deliveries' = deliveries
    BY <2>1
  <2>2. ASSUME NEW e \in Events, NEW n, NEW k, CreateDelivery(e, n, k)
        PROVE  Rests
    <3>1. word[e] = [says |-> "confirmed_by_user", revision |-> n]
      BY <1>2, <2>2 DEF CreateDelivery, Eligible, WordInv, Words
    <3>2. \A d \in deliveries' \ deliveries : d.event = e /\ d.revision = n
      BY <2>2 DEF CreateDelivery
    <3>3. QED
      BY <3>1, <3>2
  <2>3. deliveries' = deliveries \/ \E e \in Events, n \in 0..MaxReviews, k \in Keys : CreateDelivery(e, n, k)
    BY <1>2 DEF Next, Run, Reviewing, Clients, ReviewNow, EndFrames, Emit, EmitAgain, EmitFails,
      BeginReviews, EndReviews, Finalize, CancelRun, Enable, ReadPage, Review, StartReview, Transient, Permanent,
      TryAgain, DeadlinePassed, TimedOut, Annotate, AnnotateFails, Answered, vars, human
  <2>4. QED
    BY <2>1, <2>2, <2>3
<1>3. QED
  BY <1>1, <1>2, WordStep, PTL DEF Spec, DeliveriesAreConfirmed

-----------------------------------------------------------------------------
(* review_one: a task that finds the run cancelled makes no call, and one  *)
(* that is calling or waiting stays in its own place.                      *)
LEMMA CancelledStep ==
  ASSUME TypeOK, [Next]_vars, cancelled
  PROVE  Busy' \subseteq Busy
<1>1. ASSUME task' = task
      PROVE  Busy' \subseteq Busy
  BY <1>1 DEF Busy
<1>2. ASSUME NEW e \in Events, e \in Busy \/ task'[e].at \notin {"calling", "backoff"},
             \A o \in Events \ {e} : task'[o] = task[o]
      PROVE  Busy' \subseteq Busy
  BY <1>2 DEF Busy
<1>3. ASSUME NEW e \in Events, Raised(e)
      PROVE  Busy' \subseteq Busy
  BY <1>2, <1>3 DEF Raised, Over, NoTask, TypeOK
<1>4. ASSUME NEW e \in Events, Reviewing(e)
      PROVE  Busy' \subseteq Busy
  <2>0. \A t : [task EXCEPT ![e] = t][e] = t /\ \A o \in Events \ {e} : [task EXCEPT ![e] = t][o] = task[o]
    BY DEF TypeOK
  <2>1. CASE StartReview(e)
    <3>1. task' = [task EXCEPT ![e] = Over]
      BY <2>1, Zenon DEF StartReview
    <3>2. Over.at = "done"
      BY DEF Over, NoTask
    <3>3. QED
      BY <1>2, <2>0, <3>1, <3>2
  <2>2. CASE Transient(e) \/ Permanent(e) \/ DeadlinePassed(e) \/ AnnotateFails(e)
    <3>1. CASE Raised(e)
      BY <1>3, <3>1
    <3>2. CASE e \in Busy /\ task' = [task EXCEPT ![e].at = "backoff"]
      BY <1>2, <3>2 DEF TypeOK
    <3>3. QED
      BY <2>2, <3>1, <3>2 DEF Transient, Permanent, DeadlinePassed, AnnotateFails, Busy
  <2>3. CASE TryAgain(e)
    BY <1>2, <2>3 DEF TryAgain, Busy, TypeOK
  <2>4. CASE TimedOut(e) \/ \E note \in Verdicts : Answered(e, note)
    BY <1>2, <2>4 DEF TimedOut, Answered, Busy, TypeOK
  <2>5. CASE Annotate(e)
    BY <1>2, <2>0, <2>5 DEF Annotate, Over, NoTask
  <2>6. QED
    BY <1>4, <2>1, <2>2, <2>3, <2>4, <2>5 DEF Reviewing
<1>5. CASE BeginReviews
  <2>1. \A e \in Events : task' = task \/ task'[e] = NoTask
    BY <1>5 DEF BeginReviews
  <2>2. NoTask.at = "none"
    BY DEF NoTask
  <2>3. QED
    BY <1>1, <2>1, <2>2 DEF Busy
<1>6. CASE UNCHANGED vars \/ Clients \/ (Run /\ ~BeginReviews)
  BY <1>1, <1>6 DEF vars, Clients, Run, ReviewNow, EndFrames, Emit, EmitAgain, EmitFails, EndReviews,
    Finalize, CancelRun, Enable, ReadPage, Review, CreateDelivery
<1>7. QED
  BY <1>4, <1>5, <1>6 DEF Next

(* From its cancellation on a run begins no review of a further event, for *)
(* any number of events, places and retries.                               *)
THEOREM CancellationStopsReviews == Spec => CancelStopsReviews
<1>1. TypeOK /\ [Next]_vars => [cancelled => Busy' \subseteq Busy]_vars
  BY CancelledStep
<1>2. QED
  BY <1>1, TypeCorrect, PTL DEF Spec, CancelStopsReviews

-----------------------------------------------------------------------------
(* The order of events: they are told apart by their ids, so of two one is *)
(* first.                                                                  *)
LEMMA LeastNumber ==
  ASSUME NEW X, X \subseteq Nat, X # {}
  PROVE  \E x \in X : \A y \in X : x <= y
<1>1. IsWellFoundedOn(OpToRel(<, Nat), Nat)
  BY NatLessThanWellFounded
<1>2. PICK x \in X : \A y \in X : ~(<<y, x>> \in OpToRel(<, Nat))
  BY <1>1, WFMin
<1>3. \A y \in X : ~(y < x)
  BY <1>2 DEF OpToRel
<1>4. QED
  BY <1>3

All == Events \cup Foreign

Later(d, e) == After(Key(d), Key(e))

LEMMA EventKeys ==
  ASSUME TypeOK, NEW e \in All
  PROVE  Key(e) \in Nat \X Nat /\ Key(e)[2] = e
<1>1. Min(Starts) \in Nat
  <2>1. PICK x \in Starts : \A y \in Starts : x <= y
    BY RunResultsAssumption, LeastNumber
  <2>2. Min(Starts) \in Starts
    BY <2>1 DEF Min
  <2>3. QED
    BY <2>2, RunResultsAssumption
<1>2. e \in Nat
  BY RunResultsAssumption DEF All
<1>3. e \in Events => store[e].start \in Nat
  <2> SUFFICES ASSUME e \in Events PROVE store[e].start \in Nat
    OBVIOUS
  <2>1. store[e] \in Doc
    BY DEF TypeOK
  <2>2. store[e].start \in Starts \cup {0}
    BY <2>1 DEF Doc
  <2>3. \A s \in Starts \cup {0} : s \in Nat
    BY RunResultsAssumption
  <2>4. QED
    BY <2>2, <2>3
<1>4. QED
  BY <1>1, <1>2, <1>3 DEF Key

LEMMA Order ==
  ASSUME TypeOK
  PROVE  /\ \A d \in All : ~Later(d, d)
         /\ \A d, e \in All : d = e \/ Later(d, e) \/ Later(e, d)
         /\ \A d, e, f \in All : Later(d, e) /\ Later(e, f) => Later(d, f)
<1>1. \A e \in All : Key(e) \in Nat \X Nat /\ Key(e)[2] = e
  BY EventKeys
<1>2. ASSUME NEW d \in All, NEW e \in All
      PROVE  ~Later(d, d) /\ (d = e \/ Later(d, e) \/ Later(e, d))
  <2>1. /\ Key(d)[1] \in Nat /\ Key(d)[2] \in Nat /\ Key(d)[2] = d
        /\ Key(e)[1] \in Nat /\ Key(e)[2] \in Nat /\ Key(e)[2] = e
    BY <1>1
  <2>2. QED
    BY <2>1 DEF Later, After
<1>3. ASSUME NEW d \in All, NEW e \in All, NEW f \in All, Later(d, e), Later(e, f)
      PROVE  Later(d, f)
  <2>1. /\ Key(d)[1] \in Nat /\ Key(d)[2] \in Nat /\ Key(e)[1] \in Nat /\ Key(e)[2] \in Nat
        /\ Key(f)[1] \in Nat /\ Key(f)[2] \in Nat
    BY <1>1
  <2>2. QED
    BY <1>3, <2>1 DEF Later, After
<1>4. QED
  BY <1>2, <1>3

Earlier(es, e) == {d \in es : Later(e, d)}

(* An event with the fewest before it has none, one with the most is the   *)
(* last, and the first n are closed towards the front.                     *)
LEMMA FewerBefore ==
  ASSUME TypeOK, NEW es, es \subseteq All, IsFiniteSet(es), NEW d \in es, NEW e \in es, Later(e, d)
  PROVE  /\ Cardinality(Earlier(es, d)) \in Nat /\ Cardinality(Earlier(es, e)) \in Nat
         /\ Cardinality(Earlier(es, d)) < Cardinality(Earlier(es, e))
         /\ Cardinality(Earlier(es, e)) < Cardinality(es)
<1>1. \A f \in es : IsFiniteSet(Earlier(es, f)) /\ Cardinality(Earlier(es, f)) \in Nat
  BY FS_Subset, FS_CardinalityType DEF Earlier
<1>2. Earlier(es, d) \subseteq Earlier(es, e) \ {d}
  BY Order DEF Earlier
<1>3. d \in Earlier(es, e)
  BY DEF Earlier
<1>4. /\ IsFiniteSet(Earlier(es, e) \ {d})
      /\ Cardinality(Earlier(es, e) \ {d}) = Cardinality(Earlier(es, e)) - 1
  BY <1>1, <1>3, FS_RemoveElement
<1>5. Cardinality(Earlier(es, d)) <= Cardinality(Earlier(es, e) \ {d})
  BY <1>2, <1>4, FS_Subset
<1>6. Earlier(es, e) \subseteq es \ {e}
  BY Order DEF Earlier
<1>7. IsFiniteSet(es \ {e}) /\ Cardinality(es \ {e}) = Cardinality(es) - 1
  BY FS_RemoveElement
<1>8. Cardinality(Earlier(es, e)) <= Cardinality(es \ {e})
  BY <1>6, <1>7, FS_Subset
<1>9. Cardinality(es) \in Nat
  BY FS_CardinalityType
<1>10. QED
  BY <1>1, <1>4, <1>5, <1>7, <1>8, <1>9

LEMMA FirstEvents ==
  ASSUME TypeOK, NEW es, es \subseteq All, IsFiniteSet(es), NEW n \in Nat
  PROVE  /\ First(n, es) \subseteq es
         /\ \A e \in First(n, es), d \in es : Later(e, d) => d \in First(n, es)
         /\ n > 0 /\ es # {} => First(n, es) # {}
         /\ Cardinality(es) <= n => First(n, es) = es
<1> DEFINE count(e) == Cardinality(Earlier(es, e))
<1>1. First(n, es) = {e \in es : count(e) < n}
  BY DEF First, Earlier, Later
<1>2. \A e \in es : /\ count(e) \in Nat /\ count(e) < Cardinality(es)
                    /\ \A d \in es : Later(e, d) => count(d) < count(e)
  <2>1. ASSUME NEW e \in es PROVE count(e) \in Nat /\ count(e) < Cardinality(es)
    <3>1. Earlier(es, e) \subseteq es \ {e}
      BY Order DEF Earlier
    <3>2. IsFiniteSet(es \ {e}) /\ Cardinality(es \ {e}) = Cardinality(es) - 1
      BY FS_RemoveElement
    <3>3. IsFiniteSet(Earlier(es, e)) /\ Cardinality(Earlier(es, e)) <= Cardinality(es \ {e})
      BY <3>1, <3>2, FS_Subset
    <3>4. Cardinality(es) \in Nat /\ Cardinality(Earlier(es, e)) \in Nat
      BY <3>3, FS_CardinalityType
    <3>5. QED
      BY <3>2, <3>3, <3>4
  <2>2. ASSUME NEW e \in es, NEW d \in es, Later(e, d) PROVE count(d) < count(e)
    BY <2>2, FewerBefore
  <2>3. QED
    BY <2>1, <2>2
<1> HIDE DEF count
<1>3. Cardinality(es) \in Nat
  BY FS_CardinalityType
<1>4. \A e \in First(n, es), d \in es : Later(e, d) => d \in First(n, es)
  BY <1>1, <1>2
<1>5. ASSUME n > 0, es # {} PROVE First(n, es) # {}
  <2>1. {count(e) : e \in es} \subseteq Nat /\ {count(e) : e \in es} # {}
    BY <1>2, <1>5
  <2>2. PICK x \in {count(e) : e \in es} : \A y \in {count(e) : e \in es} : x <= y
    BY <2>1, LeastNumber
  <2>3. PICK e \in es : x = count(e)
    BY <2>2
  <2>4. \A d \in es : ~Later(e, d)
    BY <1>2, <2>2, <2>3
  <2>5. Earlier(es, e) = {}
    BY <2>4 DEF Earlier
  <2>6. count(e) = 0
    BY <2>5, FS_EmptySet DEF count
  <2>7. QED
    BY <1>1, <1>5, <2>6
<1>6. ASSUME Cardinality(es) <= n PROVE First(n, es) = es
  BY <1>1, <1>2, <1>3, <1>6
<1>7. QED
  BY <1>1, <1>4, <1>5, <1>6

LEMMA LastEvent ==
  ASSUME TypeOK, NEW es, es \subseteq All, IsFiniteSet(es), es # {}
  PROVE  /\ LastOf(es) \in es
         /\ \A d \in es : d = LastOf(es) \/ Later(LastOf(es), d)
<1> DEFINE left(e) == Cardinality(es) - Cardinality(Earlier(es, e))
<1>1. Cardinality(es) \in Nat
  BY FS_CardinalityType
<1>2. \A e \in es : left(e) \in Nat
  <2> SUFFICES ASSUME NEW e \in es PROVE left(e) \in Nat
    OBVIOUS
  <2>1. IsFiniteSet(Earlier(es, e)) /\ Cardinality(Earlier(es, e)) <= Cardinality(es)
    BY FS_Subset DEF Earlier
  <2>2. Cardinality(Earlier(es, e)) \in Nat
    BY <2>1, FS_CardinalityType
  <2>3. QED
    BY <1>1, <2>1, <2>2
<1>3. \A d, e \in es : Later(e, d) => left(e) < left(d)
  <2> SUFFICES ASSUME NEW d \in es, NEW e \in es, Later(e, d) PROVE left(e) < left(d)
    OBVIOUS
  <2>1. /\ Cardinality(Earlier(es, d)) \in Nat /\ Cardinality(Earlier(es, e)) \in Nat
        /\ Cardinality(Earlier(es, d)) < Cardinality(Earlier(es, e))
    BY FewerBefore
  <2>2. QED
    BY <1>1, <2>1
<1> HIDE DEF left
<1>4. {left(e) : e \in es} \subseteq Nat /\ {left(e) : e \in es} # {}
  BY <1>2
<1>5. PICK x \in {left(e) : e \in es} : \A y \in {left(e) : e \in es} : x <= y
  BY <1>4, LeastNumber
<1>6. PICK l \in es : x = left(l)
  BY <1>5
<1>7. \A d \in es : ~Later(d, l)
  <2> SUFFICES ASSUME NEW d \in es, Later(d, l) PROVE FALSE
    OBVIOUS
  <2>1. left(d) < left(l) /\ left(d) \in Nat /\ left(l) \in Nat
    BY <1>2, <1>3
  <2>2. left(l) <= left(d)
    BY <1>5, <1>6
  <2>3. QED
    BY <2>1, <2>2
<1>8. \A d \in es : d = l \/ Later(l, d)
  BY <1>7, Order
<1>9. LastOf(es) = CHOOSE e \in es : \A d \in es : d = e \/ Later(e, d)
  BY DEF LastOf, Later
<1>10. QED
  BY <1>8, <1>9


(* What a client has read: everything stored up to its cursor, in order.   *)
(* It begins after the run has ended, when no event moves any more.        *)
NoReader == [at |-> "idle", cursor |-> <<-1, -1>>, got |-> <<>>]

Read == UNION ToSet(reader.got)

InOrder ==
    \A i, j \in DOMAIN reader.got : i < j =>
        \A d \in reader.got[i], e \in reader.got[j] : After(Key(e), Key(d))

UpToCursor == \A e \in Stored : e \in Read <=> ~After(Key(e), reader.cursor)

Settled == phase # "reviewing" => \A e \in Events : task[e].at \in {"none", "done"}

ReaderInv ==
    /\ TypeOK /\ Settled
    /\ reader.cursor \in Int \X Int /\ reader.got \in Seq(SUBSET Events)
    /\ reader.at \in {"idle", "paging", "done"}
    /\ phase # "ended" => reader = NoReader
    /\ reader.at = "idle" => reader = NoReader
    /\ selected =>
          /\ Read \subseteq Stored /\ InOrder
          /\ reader.at # "done" => UpToCursor
          /\ reader.at = "done" => Read = Stored

(* Only the reader moves the reader, and after the run has ended nothing   *)
(* moves an event.                                                         *)
LEMMA SettledStep ==
  ASSUME TypeOK, Settled, [Next]_vars
  PROVE  /\ Settled'
         /\ phase = "ended" => /\ phase' = "ended" /\ selected' = selected
                               /\ \A e \in Events : /\ store'[e].there = store[e].there
                                                    /\ store'[e].start = store[e].start
         /\ reader' = reader \/ \E limit \in 1..PageSize : ReadPage(limit)
<1>1. CASE UNCHANGED <<phase, selected, store, task, reader>>
  BY <1>1 DEF Settled
<1>2. CASE UNCHANGED vars
  BY <1>1, <1>2 DEF vars, engine
<1>3. CASE Run
  <2>1. reader' = reader /\ phase # "ended"
    BY <1>3 DEF Run, EndFrames, Emit, EmitAgain, EmitFails, BeginReviews, EndReviews, Finalize
  <2>2. Settled'
    <3>1. CASE BeginReviews \/ EndReviews \/ Finalize
      BY <3>1 DEF BeginReviews, EndReviews, Finalize, Settled
    <3>2. CASE \E e \in Events, saved \in BOOLEAN :
                  \/ \E d \in {"supported", "inconclusive", "rejected"}, s \in Starts : Emit(e, d, s, saved)
                  \/ EmitAgain(e, saved)
      BY <3>2 DEF Emit, EmitAgain, Settled
    <3>3. CASE EmitFails \/ \E how \in {"completed", "cancelled", "failed"} : EndFrames(how)
      BY <3>3 DEF EmitFails, EndFrames, Settled
    <3>4. QED
      BY <1>3, <3>1, <3>2, <3>3 DEF Run
  <2>3. QED
    BY <2>1, <2>2
<1>4. ASSUME NEW e \in Events, Reviewing(e)
      PROVE  /\ Settled' /\ reader' = reader /\ phase # "ended"
  <2>1. phase' = phase /\ reader' = reader
    BY <1>4 DEF Reviewing, StartReview, Transient, Permanent, TryAgain, DeadlinePassed, TimedOut,
      Annotate, AnnotateFails, Answered, engine
  <2>2. phase = "reviewing" \/ task[e].at \notin {"none", "done"}
    BY <1>4 DEF Reviewing, StartReview, Transient, Permanent, TryAgain, DeadlinePassed, TimedOut,
      Annotate, AnnotateFails, Answered, Busy
  <2>3. phase = "reviewing"
    BY <2>2 DEF Settled
  <2>4. QED
    BY <2>1, <2>3 DEF Settled
<1>5. ASSUME NEW e \in Events, NEW d \in Decisions, NEW n, Review(e, d, n)
      PROVE  /\ UNCHANGED <<phase, selected, task, reader>>
             /\ \A o \in Events : store'[o].there = store[o].there /\ store'[o].start = store[o].start
  <2>1. UNCHANGED <<phase, selected, task, reader>>
    BY <1>5 DEF Review, engine
  <2>2. store' = [store EXCEPT ![e] = Reviewed(store[e], d)]
    BY <1>5 DEF Review
  <2>3. store[e] \in Doc
    BY DEF TypeOK
  <2>4. Reviewed(store[e], d).there = store[e].there /\ Reviewed(store[e], d).start = store[e].start
    BY <2>3 DEF Reviewed, Doc
  <2>5. QED
    BY <2>1, <2>2, <2>4 DEF TypeOK
<1>6. CASE Clients
  <2>1. CASE CancelRun \/ Enable
    BY <1>1, <2>1 DEF CancelRun, Enable, engine
  <2>2. CASE \E limit \in 1..PageSize : ReadPage(limit)
    <3>1. UNCHANGED <<phase, selected, store, task>>
      BY <2>2 DEF ReadPage, engine
    <3>2. QED
      BY <2>2, <3>1 DEF Settled
  <2>3. ASSUME NEW e \in Events, NEW n, NEW k, CreateDelivery(e, n, k)
        PROVE  UNCHANGED <<phase, selected, store, task, reader>>
    BY <2>3 DEF CreateDelivery, engine
  <2>4. ASSUME NEW e \in Events, NEW d \in Decisions, NEW n, Review(e, d, n)
        PROVE  /\ Settled' /\ reader' = reader /\ phase' = phase /\ selected' = selected
               /\ \A o \in Events : store'[o].there = store[o].there /\ store'[o].start = store[o].start
    BY <1>5, <2>4 DEF Settled
  <2>5. QED
    BY <1>1, <1>6, <2>1, <2>2, <2>3, <2>4 DEF Clients, ReviewNow
<1>7. QED
  BY <1>2, <1>3, <1>4, <1>6 DEF Next

(* One more page: what is left begins right after the cursor.              *)
LEMMA PageStep ==
  ASSUME ReaderInv, selected, NEW limit \in 1..PageSize, ReadPage(limit),
         Cardinality(Events \cup Foreign) <= RepoLimit
  PROVE  /\ reader'.cursor \in Int \X Int /\ reader'.got \in Seq(SUBSET Events)
         /\ reader'.at \in {"paging", "done"}
         /\ Read' \subseteq Stored /\ InOrder'
         /\ reader'.at # "done" => UpToCursor'
         /\ reader'.at = "done" => Read' = Stored
<1> DEFINE page == First(limit, Rest)
           over == Rest = page
<1>0. /\ TypeOK /\ reader.at # "done" /\ reader.at \in {"idle", "paging", "done"}
      /\ reader.cursor \in Int \X Int /\ reader.got \in Seq(SUBSET Events)
      /\ Read \subseteq Stored /\ InOrder /\ UpToCursor
  BY DEF ReaderInv, ReadPage
<1>1. /\ limit \in Nat \ {0} /\ RepoLimit \in Nat /\ IsFiniteSet(All) /\ Stored \subseteq All
  <2>1. IsFiniteSet(Events) /\ IsFiniteSet(Foreign) /\ RepoLimit \in Nat /\ PageSize \in Nat
    BY RunResultsAssumption
  <2>2. IsFiniteSet(All)
    BY <2>1, FS_Union DEF All
  <2>3. limit \in Nat \ {0}
    BY <2>1
  <2>4. Stored \subseteq All
    BY DEF All, Stored
  <2>5. QED
    BY <2>1, <2>2, <2>3, <2>4
<1>2. Rest = {e \in Stored : After(Key(e), reader.cursor)}
  <2>1. First(RepoLimit, Foreign \cup Stored) = Foreign \cup Stored
    <3>1. Foreign \cup Stored \subseteq All
      BY DEF All, Stored
    <3>2. IsFiniteSet(Foreign \cup Stored) /\ Cardinality(Foreign \cup Stored) <= Cardinality(All)
      BY <1>1, <3>1, FS_Subset
    <3>3. Cardinality(Foreign \cup Stored) \in Nat /\ Cardinality(All) \in Nat
      BY <1>1, <3>2, FS_CardinalityType
    <3>4. Cardinality(Foreign \cup Stored) <= RepoLimit
      BY <1>1, <3>2, <3>3 DEF All
    <3>5. QED
      BY <1>0, <1>1, <3>1, <3>2, <3>4, FirstEvents
  <2>2. Foreign \cap Events = {} /\ Stored \subseteq Events
    BY RunResultsAssumption DEF Stored
  <2>3. RunEvents = Stored
    BY <2>1, <2>2 DEF RunEvents
  <2>4. QED
    BY <2>3 DEF Rest
<1>3. Rest = Stored \ Read /\ Rest \subseteq All /\ IsFiniteSet(Rest)
  BY <1>0, <1>1, <1>2, FS_Subset DEF UpToCursor
<1>4. /\ page \subseteq Rest
      /\ \A e \in page, d \in Rest : Later(e, d) => d \in page
      /\ Rest # {} => page # {}
  <2>1. limit \in Nat /\ limit > 0
    BY <1>1
  <2> DEFINE es == Rest
  <2>2. TypeOK /\ es \subseteq All /\ IsFiniteSet(es) /\ page = First(limit, es)
    BY <1>0, <1>3
  <2> HIDE DEF es, page
  <2>3. /\ First(limit, es) \subseteq es
        /\ \A e \in First(limit, es), d \in es : Later(e, d) => d \in First(limit, es)
        /\ limit > 0 /\ es # {} => First(limit, es) # {}
    BY <2>1, <2>2, FirstEvents
  <2>4. QED
    BY <2>1, <2>2, <2>3 DEF es
<1>5. /\ reader'.at = IF over THEN "done" ELSE "paging"
      /\ reader'.cursor = IF over THEN reader.cursor ELSE Key(LastOf(page))
      /\ reader'.got = Append(reader.got, page)
      /\ UNCHANGED store
  BY DEF ReadPage
<1> HIDE DEF page
<1>6. \A e : Key(e)' = Key(e)
  BY <1>5 DEF Key
<1>7. Stored' = Stored
  BY <1>5 DEF Stored
<1>8. page \in SUBSET Events
  BY <1>3, <1>4 DEF Stored
<1>9. /\ reader'.got \in Seq(SUBSET Events)
      /\ DOMAIN reader'.got = DOMAIN reader.got \cup {Len(reader.got) + 1}
      /\ reader'.got[Len(reader.got) + 1] = page
      /\ \A i \in DOMAIN reader.got : reader'.got[i] = reader.got[i] /\ i < Len(reader.got) + 1
      /\ Len(reader.got) \in Nat /\ DOMAIN reader.got = 1..Len(reader.got)
  <2> DEFINE S0 == SUBSET Events
             g == reader.got
  <2>1. g \in Seq(S0) /\ page \in S0
    BY <1>0, <1>8
  <2>2. reader'.got = Append(g, page)
    BY <1>5
  <2> HIDE DEF S0, g
  <2>3. /\ Append(g, page) \in Seq(S0) /\ Len(g) \in Nat /\ DOMAIN g = 1..Len(g)
        /\ DOMAIN Append(g, page) = 1..(Len(g) + 1)
        /\ Append(g, page)[Len(g) + 1] = page
        /\ \A i \in 1..Len(g) : Append(g, page)[i] = g[i]
    BY <2>1
  <2>4. QED
    BY <2>2, <2>3 DEF S0, g
<1>10. Read' = Read \cup page
  <2>1. ToSet(reader.got)' = ToSet(reader.got) \cup {page}
    BY <1>9 DEF ToSet
  <2>2. QED
    BY <2>1 DEF Read
<1>11. \A i \in DOMAIN reader.got : reader.got[i] \subseteq Read
  BY DEF Read, ToSet
<1>12. \A d \in Read, e \in page : After(Key(e), Key(d))
  <2> SUFFICES ASSUME NEW d \in Read, NEW e \in page PROVE After(Key(e), Key(d))
    OBVIOUS
  <2>1. d \in Stored /\ e \in Stored /\ ~After(Key(d), reader.cursor) /\ After(Key(e), reader.cursor)
    BY <1>0, <1>2, <1>4 DEF UpToCursor
  <2>2. Key(d) \in Nat \X Nat /\ Key(e) \in Nat \X Nat
    BY <1>0, <1>1, <2>1, EventKeys
  <2>3. /\ Key(d)[1] \in Int /\ Key(d)[2] \in Int /\ Key(e)[1] \in Int /\ Key(e)[2] \in Int
        /\ reader.cursor[1] \in Int /\ reader.cursor[2] \in Int
    BY <1>0, <2>2
  <2>4. QED
    BY <2>1, <2>3 DEF After
<1>13. InOrder'
  <2> SUFFICES ASSUME NEW i \in DOMAIN reader'.got, NEW j \in DOMAIN reader'.got, i < j,
                      NEW d \in reader'.got[i], NEW e \in reader'.got[j]
               PROVE  After(Key(e), Key(d))
    BY <1>6 DEF InOrder
  <2>1. i \in DOMAIN reader.got
    BY <1>9
  <2>2. CASE j \in DOMAIN reader.got
    BY <1>0, <1>9, <2>1, <2>2 DEF InOrder
  <2>3. CASE j = Len(reader.got) + 1
    BY <1>9, <1>11, <1>12, <2>1, <2>3
  <2>4. QED
    BY <1>9, <2>2, <2>3
<1>14. CASE over
  <2>1. Read' = Stored
    BY <1>0, <1>3, <1>10, <1>14
  <2>2. QED
    BY <1>0, <1>5, <1>9, <1>13, <1>14, <2>1
<1>15. CASE ~over
  <2>1. page # {} /\ IsFiniteSet(page) /\ page \subseteq All
    BY <1>3, <1>4, <1>15, FS_Subset
  <2> DEFINE l == LastOf(page)
  <2>2. l \in page /\ \A d \in page : d = l \/ Later(l, d)
    BY <1>0, <2>1, LastEvent
  <2>3. reader'.cursor = Key(l) /\ reader'.at = "paging"
    BY <1>5, <1>15
  <2> HIDE DEF l
  <2>4. Key(l) \in Nat \X Nat
    BY <1>0, <2>1, <2>2, EventKeys
  <2>5. ASSUME NEW e \in Stored PROVE e \in Read \cup page <=> ~Later(e, l)
    <3>1. e \in All /\ l \in All
      BY <1>1, <2>1, <2>2
    <3>2. CASE e \in Read
      <4>1. Later(l, e)
        BY <1>12, <2>2, <3>2 DEF Later
      <4>2. QED
        BY <1>0, <3>1, <3>2, <4>1, Order
    <3>3. CASE e \in page
      BY <1>0, <2>2, <3>1, <3>3, Order
    <3>4. CASE e \notin Read \cup page
      <4>1. e \in Rest /\ l \in page /\ e # l
        BY <1>3, <2>2, <3>4
      <4>2. ~Later(l, e)
        BY <1>4, <3>4, <4>1
      <4>3. Later(e, l)
        BY <1>0, <3>1, <4>1, <4>2, Order
      <4>4. QED
        BY <3>4, <4>3
    <3>5. QED
      BY <3>2, <3>3, <3>4
  <2>6. UpToCursor'
    BY <1>6, <1>7, <1>10, <2>3, <2>5 DEF UpToCursor, Later
  <2>7. Read' \subseteq Stored
    BY <1>0, <1>3, <1>4, <1>10
  <2>8. reader'.cursor \in Int \X Int
    BY <2>3, <2>4
  <2>9. QED
    BY <1>9, <1>13, <2>3, <2>6, <2>7, <2>8
<1>16. QED
  BY <1>14, <1>15

(* Every event of an ended run is on one page, and the pages are in order, *)
(* for pages of any lengths and reviews in between, as long as the         *)
(* workspace holds no more events than a repository read returns           *)
(* (list_events of the route, of the executor and of the repository).      *)
THEOREM PagesMissNothing ==
  ASSUME Cardinality(Events \cup Foreign) <= RepoLimit
  PROVE  Spec => []PagesAreComplete
<1>1. Init => ReaderInv
  <2> SUFFICES ASSUME Init PROVE ReaderInv
    OBVIOUS
  <2>1. TypeOK /\ phase = "frames" /\ ~selected
    BY InitType DEF Init
  <2>2. reader = NoReader
    BY DEF Init, NoReader
  <2>3. reader.cursor \in Int \X Int /\ reader.got \in Seq(SUBSET Events) /\ reader.at = "idle"
    BY <2>2 DEF NoReader
  <2>4. Settled
    BY DEF Init, Settled, NoTask
  <2>5. QED
    BY <2>1, <2>2, <2>3, <2>4 DEF ReaderInv
<1>2. ReaderInv /\ [Next]_vars => ReaderInv'
  <2> SUFFICES ASSUME ReaderInv, [Next]_vars PROVE ReaderInv'
    OBVIOUS
  <2>0. TypeOK /\ Settled /\ TypeOK'
    BY TypeStep DEF ReaderInv
  <2>1. /\ Settled'
        /\ phase = "ended" => /\ phase' = "ended" /\ selected' = selected
                              /\ \A e \in Events : /\ store'[e].there = store[e].there
                                                   /\ store'[e].start = store[e].start
        /\ reader' = reader \/ \E limit \in 1..PageSize : ReadPage(limit)
    BY <2>0, SettledStep
  <2>2. CASE phase # "ended"
    <3>1. reader = NoReader /\ reader' = reader
      BY <2>1, <2>2 DEF ReaderInv, ReadPage
    <3>2. /\ reader'.cursor = <<-1, -1>> /\ reader'.got = <<>> /\ reader'.at = "idle"
          /\ reader' = NoReader
      BY <3>1 DEF NoReader
    <3>3. Read' = {}
      BY <3>2 DEF Read, ToSet
    <3>4. InOrder'
      BY <3>2 DEF InOrder
    <3>5. UpToCursor'
      <4> SUFFICES ASSUME NEW e \in Stored' PROVE After(Key(e)', <<-1, -1>>)
        BY <3>2, <3>3 DEF UpToCursor
      <4>1. e \in Events /\ store'[e].start \in Nat
        <5>1. e \in Events /\ store'[e].start \in Starts \cup {0}
          BY <2>0 DEF Stored, TypeOK, Doc
        <5>2. \A s \in Starts \cup {0} : s \in Nat
          BY RunResultsAssumption
        <5>3. QED
          BY <5>1, <5>2
      <4>2. Key(e)' = <<store'[e].start, e>>
        BY <4>1 DEF Key
      <4>3. QED
        BY <4>1, <4>2 DEF After
    <3>6. Read' \subseteq Stored'
      BY <3>3
    <3>7. reader'.cursor \in Int \X Int /\ reader'.got \in Seq(SUBSET Events)
      BY <3>2
    <3>8. QED
      BY <2>0, <2>1, <3>2, <3>4, <3>5, <3>6, <3>7 DEF ReaderInv
  <2>3. CASE phase = "ended"
    <3>1. phase' = "ended" /\ selected' = selected /\ Stored' = Stored /\ \A e : Key(e)' = Key(e)
      BY <2>1, <2>3 DEF Stored, Key
    <3>2. CASE reader' = reader
      <4>1. Read' = Read /\ (InOrder => InOrder') /\ (UpToCursor => UpToCursor')
        <5>1. Read' = Read
          BY <3>2 DEF Read
        <5>2. InOrder => InOrder'
          BY <3>1, <3>2 DEF InOrder
        <5>3. UpToCursor => UpToCursor'
          BY <3>1, <3>2, <5>1 DEF UpToCursor
        <5>4. QED
          BY <5>1, <5>2, <5>3
      <4>2. QED
        BY <2>0, <2>1, <3>1, <3>2, <4>1 DEF ReaderInv, NoReader
    <3>3. ASSUME NEW limit \in 1..PageSize, ReadPage(limit)
          PROVE  ReaderInv'
      <4>1. CASE selected
        <5>1. /\ reader'.cursor \in Int \X Int /\ reader'.got \in Seq(SUBSET Events)
              /\ reader'.at \in {"paging", "done"}
              /\ Read' \subseteq Stored /\ InOrder'
              /\ reader'.at # "done" => UpToCursor'
              /\ reader'.at = "done" => Read' = Stored
          BY <3>3, <4>1, PageStep
        <5>2. QED
          BY <2>0, <2>1, <3>1, <5>1 DEF ReaderInv
      <4>2. CASE ~selected
        <5>1. Rest = {} /\ First(limit, Rest) = {}
          BY <4>2 DEF Rest, First
        <5>2. /\ reader'.at = "done" /\ reader'.cursor = reader.cursor
              /\ reader'.got = Append(reader.got, {})
          BY <3>3, <5>1 DEF ReadPage
        <5>3. reader'.cursor \in Int \X Int /\ reader'.got \in Seq(SUBSET Events)
          <6> DEFINE E == SUBSET Events
          <6>1. reader.got \in Seq(E) /\ {} \in E
            BY DEF ReaderInv
          <6> HIDE DEF E
          <6>2. Append(reader.got, {}) \in Seq(E)
            BY <6>1
          <6>3. QED
            BY <5>2, <6>2 DEF E, ReaderInv
        <5>4. QED
          BY <2>0, <2>1, <3>1, <4>2, <5>2, <5>3 DEF ReaderInv
      <4>3. QED
        BY <4>1, <4>2
    <3>4. QED
      BY <2>1, <3>2, <3>3
  <2>4. QED
    BY <2>2, <2>3
<1>3. ReaderInv => PagesAreComplete
  BY DEF ReaderInv, PagesAreComplete, Read, InOrder
<1>4. QED
  BY <1>1, <1>2, <1>3, PTL DEF Spec

-----------------------------------------------------------------------------
\* A worker about to use an attempt has one left.
AttemptLeft == \A w \in Workers : O!At(w, "mark") => frame[w].record.attempts < MaxAttempts

OutboxTypeInv == O!TypeOK /\ AttemptLeft

LEMMA IdleFrame ==
  ASSUME O!TypeOK, NEW w \in Workers, frame[w].at # "idle"
  PROVE  frame[w] \in O!Frame
BY DEF O!TypeOK, O!Idle

LEMMA NoRecordIsNone == O!NoRecord \notin O!Record
BY DEF O!NoRecord, O!Record, O!States

\* Moving on and returning keep the frames typed.
LEMMA GotoType ==
  ASSUME O!TypeOK, NEW w \in Workers, frame[w] \in O!Frame, NEW label \in O!Labels,
         frame' = [frame EXCEPT ![w].at = label]
  PROVE  frame' \in [Workers -> O!Frame \cup {O!Idle}]
<1>1. [frame[w] EXCEPT !.at = label] \in O!Frame
  BY DEF O!Frame
<1>2. frame' = [frame EXCEPT ![w] = [frame[w] EXCEPT !.at = label]]
  OBVIOUS
<1>3. QED
  BY <1>1, <1>2 DEF O!TypeOK

\* A step of one worker that does not make it mark leaves the attempts of all.
LEMMA OthersKeepAttempts ==
  ASSUME AttemptLeft, O!TypeOK, NEW w \in Workers, NEW f,
         frame' = [frame EXCEPT ![w] = f],
         f.at = "mark" => f.record.attempts < MaxAttempts
  PROVE  AttemptLeft'
BY DEF AttemptLeft, O!At, O!TypeOK

-----------------------------------------------------------------------------
\* A step of the outbox, its callers or its receivers keeps the types, and no
\* record counts more attempts than there are.
LEMMA OutboxTypeStep == O!OutboxAssumption /\ OutboxTypeInv /\ [O!Next]_(O!vars) => OutboxTypeInv'
<1> SUFFICES ASSUME O!OutboxAssumption, O!TypeOK, AttemptLeft, [O!Next]_(O!vars)
             PROVE  O!TypeOK' /\ AttemptLeft'
  BY DEF OutboxTypeInv
<1> USE DEF O!OutboxAssumption
<1>1. ASSUME NEW context \in O!Context, NEW permission \in O!Permission, NEW reviewed,
             O!Enqueue(context, permission, reviewed)
      PROVE  O!TypeOK' /\ AttemptLeft'
  <2>1. O!Key(context, permission) \in O!Deliveries
    BY DEF O!Key, O!Context, O!Permission, O!Deliveries
  <2>2. [state |-> "pending", attempts |-> 0] \in O!Record
    BY DEF O!Record, O!States
  <2>3. QED
    BY <1>1, <2>1, <2>2 DEF O!Enqueue, O!TypeOK, AttemptLeft, O!At
<1>2. ASSUME NEW context, NEW permission, NEW w \in Workers,
             NEW d \in O!Deliveries, O!Deliver(w, d, context, permission)
      PROVE  O!TypeOK' /\ AttemptLeft'
  <2> DEFINE allowed == O!Eligible(context, permission) /\ O!Key(context, permission) = d
             f == [at |-> IF allowed THEN "mark" ELSE "suppress",
                   delivery |-> d, record |-> records[d], count |-> 0]
  <2>1. records[d] \in O!Record
    BY <1>2 DEF O!Deliver, O!Exists, O!TypeOK
  <2>2. f \in O!Frame
    BY <2>1 DEF O!Frame, O!Labels
  <2>3. f.at = "mark" => f.record.attempts < MaxAttempts
    BY <1>2 DEF O!Deliver
  <2>4. frame' = [frame EXCEPT ![w] = f]
    BY <1>2 DEF O!Deliver
  <2>5. AttemptLeft'
    BY <2>3, <2>4, OthersKeepAttempts
  <2> HIDE DEF f
  <2>6. QED
    BY <1>2, <2>2, <2>4, <2>5 DEF O!Deliver, O!TypeOK
<1>3. ASSUME NEW w \in Workers, O!Suppress(w) PROVE O!TypeOK' /\ AttemptLeft'
  <2>1. frame[w] \in O!Frame
    BY <1>3, IdleFrame DEF O!Suppress, O!At
  <2>2. [frame[w].record EXCEPT !.state = "suppressed"] \in O!Record
    BY <2>1 DEF O!Frame, O!Record, O!States
  <2>3. AttemptLeft'
    BY <1>3, OthersKeepAttempts DEF O!Suppress, O!Idle
  <2>4. QED
    BY <1>3, <2>1, <2>2, <2>3 DEF O!Suppress, O!Put, O!TypeOK, O!Frame
<1>4. ASSUME NEW w \in Workers, O!Mark(w) PROVE O!TypeOK' /\ AttemptLeft'
  <2> DEFINE attempt == [state |-> "delivering", attempts |-> frame[w].record.attempts + 1]
  <2>1. frame[w] \in O!Frame
    BY <1>4, IdleFrame DEF O!Mark, O!At
  <2>2. attempt \in O!Record
    BY <1>4, <2>1 DEF O!Mark, AttemptLeft, O!Frame, O!Record, O!States
  <2>3. frame' = [frame EXCEPT ![w] = [frame[w] EXCEPT !.at = "send", !.record = attempt]]
    BY <1>4, <2>1 DEF O!Mark, O!TypeOK, O!Frame
  <2>4. [frame[w] EXCEPT !.at = "send", !.record = attempt] \in O!Frame
    BY <2>1, <2>2 DEF O!Frame, O!Labels
  <2>5. AttemptLeft'
    BY <2>1, <2>3, OthersKeepAttempts DEF O!Frame
  <2> HIDE DEF attempt
  <2>6. records' = [records EXCEPT ![frame[w].delivery] = attempt]
    BY <1>4 DEF O!Mark, O!Put, attempt
  <2>7. QED
    BY <1>4, <2>1, <2>2, <2>3, <2>4, <2>5, <2>6 DEF O!Mark, O!TypeOK, O!Frame
<1>5. ASSUME NEW w \in Workers, O!Send(w) PROVE O!TypeOK' /\ AttemptLeft'
  <2> DEFINE next == IF counted < MaxRequests THEN "resolve" ELSE "fail"
  <2>1. frame[w] \in O!Frame
    BY <1>5, IdleFrame DEF O!Send, O!At
  <2>2. frame' = [frame EXCEPT ![w] = [frame[w] EXCEPT !.at = next, !.count = counted]]
    BY <1>5, <2>1 DEF O!Send, O!TypeOK, O!Frame
  <2>3. [frame[w] EXCEPT !.at = next, !.count = counted] \in O!Frame
    BY <2>1 DEF O!Frame, O!Labels, O!TypeOK
  <2>4. AttemptLeft'
    <3>1. [frame[w] EXCEPT !.at = next, !.count = counted].at # "mark"
      BY <2>1 DEF O!Frame
    <3>2. QED
      BY <2>2, <3>1, OthersKeepAttempts
  <2>5. QED
    BY <1>5, <2>2, <2>3, <2>4 DEF O!Send, O!TypeOK
<1>6. ASSUME NEW w \in Workers, NEW label \in O!Labels \ {"mark"}, frame[w] \in O!Frame, O!Goto(w, label)
      PROVE  frame' \in [Workers -> O!Frame \cup {O!Idle}] /\ AttemptLeft'
  <2>1. frame' = [frame EXCEPT ![w] = [frame[w] EXCEPT !.at = label]]
    BY <1>6 DEF O!Goto
  <2>2. AttemptLeft'
    BY <1>6, <2>1, OthersKeepAttempts DEF O!Frame
  <2>3. QED
    BY <1>6, <2>2, GotoType DEF O!Goto
<1>7. ASSUME NEW w \in Workers, O!Resolve(w) PROVE O!TypeOK' /\ AttemptLeft'
  <2>1. frame[w] \in O!Frame
    BY <1>7, IdleFrame DEF O!Resolve, O!At
  <2>2. O!Goto(w, "request") \/ O!Goto(w, "fail")
    BY <1>7 DEF O!Resolve
  <2>3. frame' \in [Workers -> O!Frame \cup {O!Idle}] /\ AttemptLeft'
    BY <1>6, <2>1, <2>2 DEF O!Labels
  <2>4. QED
    BY <1>7, <2>1, <2>3 DEF O!Resolve, O!TypeOK, O!Frame
<1>8. ASSUME NEW w \in Workers, O!Request(w) PROVE O!TypeOK' /\ AttemptLeft'
  <2>1. frame[w] \in O!Frame
    BY <1>8, IdleFrame DEF O!Request, O!At
  <2>2. O!Goto(w, "succeed") \/ O!Goto(w, "fail")
    BY <1>8 DEF O!Request
  <2>3. frame' \in [Workers -> O!Frame \cup {O!Idle}] /\ AttemptLeft'
    BY <1>6, <2>1, <2>2 DEF O!Labels
  <2>4. QED
    BY <1>8, <2>1, <2>3 DEF O!Request, O!TypeOK, O!Frame
<1>9. ASSUME NEW w \in Workers, O!Succeed(w) PROVE O!TypeOK' /\ AttemptLeft'
  <2>1. frame[w] \in O!Frame
    BY <1>9, IdleFrame DEF O!Succeed, O!At
  <2>2. [frame[w].record EXCEPT !.state = "delivered"] \in O!Record
    BY <2>1 DEF O!Frame, O!Record, O!States
  <2>3. AttemptLeft'
    BY <1>9, OthersKeepAttempts DEF O!Succeed, O!Idle
  <2>4. QED
    BY <1>9, <2>1, <2>2, <2>3 DEF O!Succeed, O!Put, O!TypeOK, O!Frame
<1>10. ASSUME NEW w \in Workers, O!Fail(w) PROVE O!TypeOK' /\ AttemptLeft'
  <2>1. frame[w] \in O!Frame
    BY <1>10, IdleFrame DEF O!Fail, O!At
  <2>2. [frame[w].record EXCEPT !.state =
           IF frame[w].record.attempts >= MaxAttempts THEN "exhausted" ELSE "pending"] \in O!Record
    BY <2>1 DEF O!Frame, O!Record, O!States
  <2>3. AttemptLeft'
    BY <1>10, OthersKeepAttempts DEF O!Fail, O!Idle
  <2>4. QED
    BY <1>10, <2>1, <2>2, <2>3 DEF O!Fail, O!Put, O!TypeOK, O!Frame
<1>11. ASSUME NEW w \in Workers, O!Crash(w) PROVE O!TypeOK' /\ AttemptLeft'
  <2>1. AttemptLeft'
    BY <1>11, OthersKeepAttempts DEF O!Crash, O!Idle
  <2>2. QED
    BY <1>11, <2>1 DEF O!Crash, O!TypeOK
<1>12. CASE UNCHANGED O!vars
  BY <1>12 DEF O!vars, O!TypeOK, AttemptLeft, O!At
<1>13. QED
  BY <1>1, <1>2, <1>3, <1>4, <1>5, <1>7, <1>8, <1>9, <1>10, <1>11, <1>12 DEF O!Next, O!Continue

LEMMA OutboxTypeInvCorrect ==
  ASSUME O!OutboxAssumption
  PROVE  O!Spec => []OutboxTypeInv
<1>1. O!Init => OutboxTypeInv
  BY DEF O!OutboxAssumption, O!Init, OutboxTypeInv, O!TypeOK, AttemptLeft, O!At, O!Idle, O!NoRecord
<1>2. QED
  BY <1>1, OutboxTypeStep, PTL DEF O!Spec

\* The variables of ActionOutbox keep their types.
THEOREM OutboxTypeCorrect ==
  ASSUME O!OutboxAssumption
  PROVE  O!Spec => []O!TypeOK
<1>1. OutboxTypeInv => O!TypeOK
  BY DEF OutboxTypeInv
<1>2. QED
  BY <1>1, OutboxTypeInvCorrect, PTL

-----------------------------------------------------------------------------
\* Whoever is about to record a success saw the receiver accept.
SuccessIsAccepted ==
  /\ \A w \in Workers : O!At(w, "succeed") => frame[w].delivery \in accepted
  /\ \A w \in Workers : frame[w].record.state # "delivered"

AcceptedInv == OutboxTypeInv /\ SuccessIsAccepted /\ DeliveredWasAccepted

\* A step of one worker: what it puts is not a success, and neither is its frame.
LEMMA QuietStep ==
  ASSUME AcceptedInv, accepted \subseteq accepted', NEW w \in Workers, NEW f, NEW record,
         frame' = [frame EXCEPT ![w] = f], f.record.state # "delivered",
         f.at = "succeed" => f.delivery \in accepted',
         \/ records' = records
         \/ record.state # "delivered" /\ records' = [records EXCEPT ![frame[w].delivery] = record]
  PROVE  SuccessIsAccepted' /\ DeliveredWasAccepted'
BY DEF AcceptedInv, SuccessIsAccepted, DeliveredWasAccepted, O!At, OutboxTypeInv, O!TypeOK, Deliveries, O!Deliveries

\* However many workers deliver at a time, a delivery is called delivered only when
\* the receiver accepted it (deliver).
THEOREM DeliveriesAreAccepted ==
  ASSUME O!OutboxAssumption
  PROVE  O!Spec => []DeliveredWasAccepted
<1>1. O!Init => AcceptedInv
  BY DEF O!OutboxAssumption, O!Init, AcceptedInv, SuccessIsAccepted, DeliveredWasAccepted, OutboxTypeInv, O!TypeOK,
         AttemptLeft, O!At, O!Idle, O!NoRecord, Deliveries, O!Deliveries
<1>2. AcceptedInv /\ [O!Next]_(O!vars) => AcceptedInv'
  <2> SUFFICES ASSUME AcceptedInv, [O!Next]_(O!vars)
               PROVE  SuccessIsAccepted' /\ DeliveredWasAccepted'
    BY OutboxTypeStep DEF AcceptedInv
  <2> USE DEF AcceptedInv
  <2>0. O!Idle.record.state # "delivered" /\ O!Idle.at # "succeed"
    BY DEF O!Idle, O!NoRecord
  <2>1. ASSUME NEW context, NEW permission, NEW reviewed, O!Enqueue(context, permission, reviewed)
        PROVE  SuccessIsAccepted' /\ DeliveredWasAccepted'
    BY <2>1 DEF O!Enqueue, SuccessIsAccepted, DeliveredWasAccepted, O!At, OutboxTypeInv, O!TypeOK
  <2>2. ASSUME NEW context, NEW permission, NEW w \in Workers,
               NEW d \in O!Deliveries, O!Deliver(w, d, context, permission)
        PROVE  SuccessIsAccepted' /\ DeliveredWasAccepted'
    <3> DEFINE allowed == O!Eligible(context, permission) /\ O!Key(context, permission) = d
               f == [at |-> IF allowed THEN "mark" ELSE "suppress",
                     delivery |-> d, record |-> records[d], count |-> 0]
    <3>1. f.record.state # "delivered" /\ f.at # "succeed"
      BY <2>2 DEF O!Deliver
    <3>2. frame' = [frame EXCEPT ![w] = f] /\ records' = records /\ accepted' = accepted
      BY <2>2 DEF O!Deliver
    <3> HIDE DEF f
    <3>3. QED
      BY <3>1, <3>2, QuietStep
  <2>3. ASSUME NEW w \in Workers, O!Suppress(w) PROVE SuccessIsAccepted' /\ DeliveredWasAccepted'
    <3>1. frame[w] \in O!Frame
      BY <2>3, IdleFrame DEF O!Suppress, O!At, OutboxTypeInv
    <3>2. [frame[w].record EXCEPT !.state = "suppressed"].state # "delivered"
      BY <3>1 DEF O!Frame, O!Record
    <3>3. QED
      BY <2>0, <2>3, <3>2, QuietStep DEF O!Suppress, O!Put
  <2>4. ASSUME NEW w \in Workers, O!Mark(w) PROVE SuccessIsAccepted' /\ DeliveredWasAccepted'
    <3> DEFINE attempt == [state |-> "delivering", attempts |-> frame[w].record.attempts + 1]
               f == [frame[w] EXCEPT !.at = "send", !.record = attempt]
    <3>1. frame[w] \in O!Frame
      BY <2>4, IdleFrame DEF O!Mark, O!At, OutboxTypeInv
    <3>2. f.record.state # "delivered" /\ f.at # "succeed" /\ attempt.state # "delivered"
      BY <3>1 DEF O!Frame
    <3>3. frame' = [frame EXCEPT ![w] = f]
      BY <2>4, <3>1 DEF O!Mark, OutboxTypeInv, O!TypeOK, O!Frame
    <3>4. records' = [records EXCEPT ![frame[w].delivery] = attempt] /\ accepted' = accepted
      BY <2>4 DEF O!Mark, O!Put
    <3> HIDE DEF f, attempt
    <3>5. QED
      BY <3>2, <3>3, <3>4, QuietStep
  <2>5. ASSUME NEW w \in Workers, O!Send(w) PROVE SuccessIsAccepted' /\ DeliveredWasAccepted'
    <3> DEFINE f == [frame[w] EXCEPT !.at = IF counted < MaxRequests THEN "resolve" ELSE "fail",
                                     !.count = counted]
    <3>1. frame[w] \in O!Frame
      BY <2>5, IdleFrame DEF O!Send, O!At, OutboxTypeInv
    <3>2. f.record = frame[w].record /\ f.at # "succeed"
      BY <3>1 DEF O!Frame
    <3>3. frame' = [frame EXCEPT ![w] = f]
      BY <2>5, <3>1 DEF O!Send, OutboxTypeInv, O!TypeOK, O!Frame
    <3>4. records' = records /\ accepted' = accepted
      BY <2>5 DEF O!Send
    <3> HIDE DEF f
    <3>5. QED
      BY <3>2, <3>3, <3>4, QuietStep DEF SuccessIsAccepted
  <2>6. ASSUME NEW w \in Workers, NEW label, O!Goto(w, label), frame[w] \in O!Frame,
               records' = records, accepted \subseteq accepted',
               label = "succeed" => frame[w].delivery \in accepted'
        PROVE  SuccessIsAccepted' /\ DeliveredWasAccepted'
    <3> DEFINE f == [frame[w] EXCEPT !.at = label]
    <3>1. f.record = frame[w].record /\ f.at = label /\ f.delivery = frame[w].delivery
      BY <2>6 DEF O!Frame
    <3>2. frame' = [frame EXCEPT ![w] = f]
      BY <2>6 DEF O!Goto
    <3> HIDE DEF f
    <3>3. QED
      BY <2>6, <3>1, <3>2, QuietStep DEF SuccessIsAccepted
  <2>7. ASSUME NEW w \in Workers, O!Resolve(w) PROVE SuccessIsAccepted' /\ DeliveredWasAccepted'
    <3>1. frame[w] \in O!Frame
      BY <2>7, IdleFrame DEF O!Resolve, O!At, OutboxTypeInv
    <3>2. (O!Goto(w, "request") \/ O!Goto(w, "fail")) /\ records' = records /\ accepted' = accepted
      BY <2>7 DEF O!Resolve
    <3>3. QED
      BY <2>6, <3>1, <3>2
  <2>8. ASSUME NEW w \in Workers, O!Request(w) PROVE SuccessIsAccepted' /\ DeliveredWasAccepted'
    <3>1. frame[w] \in O!Frame
      BY <2>8, IdleFrame DEF O!Request, O!At, OutboxTypeInv
    <3>2. /\ records' = records /\ accepted \subseteq accepted'
          /\ \/ O!Goto(w, "succeed") /\ frame[w].delivery \in accepted'
             \/ O!Goto(w, "fail")
      BY <2>8 DEF O!Request
    <3>3. QED
      BY <2>6, <3>1, <3>2
  <2>9. ASSUME NEW w \in Workers, O!Succeed(w) PROVE SuccessIsAccepted' /\ DeliveredWasAccepted'
    <3>1. frame[w].delivery \in accepted
      BY <2>9 DEF O!Succeed, SuccessIsAccepted
    <3>2. QED
      BY <2>0, <2>9, <3>1
      DEF O!Succeed, O!Put, SuccessIsAccepted, DeliveredWasAccepted, O!At, OutboxTypeInv, O!TypeOK
  <2>10. ASSUME NEW w \in Workers, O!Fail(w) PROVE SuccessIsAccepted' /\ DeliveredWasAccepted'
    <3> DEFINE record == [frame[w].record EXCEPT !.state =
               IF frame[w].record.attempts >= MaxAttempts THEN "exhausted" ELSE "pending"]
    <3>1. frame[w] \in O!Frame
      BY <2>10, IdleFrame DEF O!Fail, O!At, OutboxTypeInv
    <3>2. record.state # "delivered"
      BY <3>1 DEF O!Frame, O!Record
    <3>3. /\ records' = [records EXCEPT ![frame[w].delivery] = record]
          /\ frame' = [frame EXCEPT ![w] = O!Idle] /\ accepted' = accepted
      BY <2>10 DEF O!Fail, O!Put
    <3> HIDE DEF record
    <3>4. QED
      BY <2>0, <3>2, <3>3, QuietStep
  <2>11. ASSUME NEW w \in Workers, O!Crash(w) PROVE SuccessIsAccepted' /\ DeliveredWasAccepted'
    BY <2>0, <2>11, QuietStep DEF O!Crash
  <2>12. CASE UNCHANGED O!vars
    BY <2>12 DEF O!vars, SuccessIsAccepted, DeliveredWasAccepted, O!At
  <2>13. QED
    BY <2>1, <2>2, <2>3, <2>4, <2>5, <2>7, <2>8, <2>9, <2>10, <2>11, <2>12 DEF O!Next, O!Continue
<1>3. AcceptedInv => DeliveredWasAccepted
  BY DEF AcceptedInv
<1>4. QED
  BY <1>1, <1>2, <1>3, PTL DEF O!Spec

-----------------------------------------------------------------------------
(* One delivery at a time.                                                  *)

OneAtATime == \A v, w \in Workers : v = w

\* The worker's reading is still what is stored; every request it may make is
\* covered by an attempt written before; and what it works on has not ended.
CallCovered(f) ==
  f.at # "idle" =>
    /\ records[f.delivery] = f.record
    /\ f.at \in {"send", "resolve", "request"} => sent[f.delivery] < f.record.attempts
    /\ f.at \in {"send", "resolve", "request", "succeed", "fail"} => f.record.state = "delivering"
    /\ f.record.state \notin {"delivered", "suppressed"}

SendsCovered == \A d \in O!Deliveries : sent[d] <= records[d].attempts

SerialInv == OutboxTypeInv /\ SendsCovered /\ \A w \in Workers : CallCovered(frame[w])

\* The only worker puts a record with no fewer attempts and makes no request.
LEMMA PutStep ==
  ASSUME O!OutboxAssumption, SerialInv, NEW w \in Workers, frame[w].at # "idle", NEW record,
         records' = [records EXCEPT ![frame[w].delivery] = record], sent' = sent,
         record.attempts \in Nat, frame[w].record.attempts <= record.attempts
  PROVE  SendsCovered'
<1>1. frame[w] \in O!Frame
  BY IdleFrame DEF SerialInv, OutboxTypeInv
<1>2. frame[w].delivery \in O!Deliveries /\ frame[w].record.attempts \in Nat
  BY <1>1 DEF O!OutboxAssumption, O!Frame, O!Record
<1>3. sent[frame[w].delivery] <= frame[w].record.attempts /\ sent[frame[w].delivery] \in Nat
  BY <1>2 DEF SerialInv, SendsCovered, CallCovered, OutboxTypeInv, O!TypeOK
<1>4. QED
  BY <1>2, <1>3 DEF SerialInv, SendsCovered, OutboxTypeInv, O!TypeOK

LEMMA SerialStep ==
  ASSUME O!OutboxAssumption, OneAtATime, SerialInv, [O!Next]_(O!vars)
  PROVE  SerialInv'
<1> USE DEF O!OutboxAssumption
<1>0. OutboxTypeInv' /\ O!Idle.at = "idle"
  BY OutboxTypeStep DEF SerialInv, O!Idle
<1> SUFFICES SendsCovered' /\ \A w \in Workers : CallCovered(frame[w])'
  BY <1>0 DEF SerialInv
\* What is shown of the only worker is shown of all.
<1>A. ASSUME NEW w \in Workers, CallCovered(frame[w])'
      PROVE  \A v \in Workers : CallCovered(frame[v])'
  <2>1. \A v \in Workers : v = w
    BY DEF OneAtATime
  <2>2. QED
    BY <1>A, <2>1
<1>B. ASSUME NEW w \in Workers, frame' = [frame EXCEPT ![w] = O!Idle]
      PROVE  \A v \in Workers : CallCovered(frame[v])'
  <2>1. CallCovered(frame[w])'
    BY <1>0, <1>B DEF CallCovered, SerialInv, OutboxTypeInv, O!TypeOK
  <2>2. QED
    BY <1>A, <2>1
<1>1. ASSUME NEW context, NEW permission, NEW reviewed, O!Enqueue(context, permission, reviewed)
      PROVE  SendsCovered' /\ \A w \in Workers : CallCovered(frame[w])'
  <2> DEFINE d == O!Key(context, permission)
  <2>1. records[d] = O!NoRecord /\ O!NoRecord.attempts = 0
    BY <1>1 DEF O!Enqueue, O!Exists, O!NoRecord
  <2>2. \A w \in Workers : frame[w].at # "idle" =>
          frame[w].delivery \in O!Deliveries /\ frame[w].delivery # d
    <3>1. SUFFICES ASSUME NEW w \in Workers, frame[w].at # "idle"
                   PROVE  frame[w].delivery \in O!Deliveries /\ frame[w].delivery # d
      OBVIOUS
    <3>2. frame[w] \in O!Frame
      BY <3>1, IdleFrame DEF SerialInv, OutboxTypeInv
    <3>3. records[frame[w].delivery] \in O!Record
      BY <3>1, <3>2 DEF SerialInv, CallCovered, O!Frame
    <3>4. QED
      BY <2>1, <3>2, <3>3, NoRecordIsNone DEF O!Frame
  <2>3. /\ records' = [records EXCEPT ![d] = [state |-> "pending", attempts |-> 0]]
        /\ frame' = frame /\ sent' = sent
    BY <1>1 DEF O!Enqueue
  <2> HIDE DEF d
  <2>4. SendsCovered'
    BY <2>1, <2>3 DEF SerialInv, SendsCovered, OutboxTypeInv, O!TypeOK
  <2>5. \A w \in Workers : CallCovered(frame[w])'
    BY <2>2, <2>3 DEF SerialInv, CallCovered, OutboxTypeInv, O!TypeOK
  <2>6. QED
    BY <2>4, <2>5
<1>2. ASSUME NEW context, NEW permission, NEW w \in Workers,
             NEW d \in O!Deliveries, O!Deliver(w, d, context, permission)
      PROVE  SendsCovered' /\ \A v \in Workers : CallCovered(frame[v])'
  <2> DEFINE allowed == O!Eligible(context, permission) /\ O!Key(context, permission) = d
             f == [at |-> IF allowed THEN "mark" ELSE "suppress",
                   delivery |-> d, record |-> records[d], count |-> 0]
  <2>1. /\ f.delivery = d /\ f.record = records[d] /\ f.at \in {"mark", "suppress"}
        /\ records[d].state \notin {"delivered", "suppressed"}
    BY <1>2 DEF O!Deliver
  <2>2. frame'[w] = f /\ records' = records /\ sent' = sent
    BY <1>2 DEF O!Deliver, SerialInv, OutboxTypeInv, O!TypeOK
  <2> HIDE DEF f
  <2>3. CallCovered(frame[w])'
    BY <2>1, <2>2 DEF CallCovered
  <2>4. SendsCovered'
    BY <2>2 DEF SerialInv, SendsCovered
  <2>5. QED
    BY <1>A, <2>3, <2>4
<1>3. ASSUME NEW w \in Workers, O!Suppress(w)
      PROVE  SendsCovered' /\ \A v \in Workers : CallCovered(frame[v])'
  <2>1. frame[w] \in O!Frame /\ frame[w].at # "idle"
    BY <1>3, IdleFrame DEF O!Suppress, O!At, SerialInv, OutboxTypeInv
  <2> DEFINE record == [frame[w].record EXCEPT !.state = "suppressed"]
  <2>2. record.attempts \in Nat /\ frame[w].record.attempts <= record.attempts
    BY <2>1 DEF O!Frame, O!Record
  <2>3. /\ records' = [records EXCEPT ![frame[w].delivery] = record] /\ sent' = sent
        /\ frame' = [frame EXCEPT ![w] = O!Idle]
    BY <1>3 DEF O!Suppress, O!Put
  <2> HIDE DEF record
  <2>4. SendsCovered'
    BY <2>1, <2>2, <2>3, PutStep
  <2>5. QED
    BY <1>B, <2>3, <2>4
<1>4. ASSUME NEW w \in Workers, O!Mark(w)
      PROVE  SendsCovered' /\ \A v \in Workers : CallCovered(frame[v])'
  <2>1. frame[w] \in O!Frame /\ frame[w].at # "idle"
    BY <1>4, IdleFrame DEF O!Mark, O!At, SerialInv, OutboxTypeInv
  <2> DEFINE attempt == [state |-> "delivering", attempts |-> frame[w].record.attempts + 1]
             f == [frame[w] EXCEPT !.at = "send", !.record = attempt]
  <2>2. attempt.attempts = frame[w].record.attempts + 1 /\ frame[w].record.attempts \in Nat
        /\ attempt.state = "delivering"
    BY <2>1 DEF O!Frame, O!Record
  <2>0. attempt.attempts \in Nat /\ frame[w].record.attempts <= attempt.attempts
    BY <2>2
  <2>3. f.at = "send" /\ f.record = attempt /\ f.delivery = frame[w].delivery
    BY <2>1 DEF O!Frame
  <2>4. /\ records' = [records EXCEPT ![frame[w].delivery] = attempt] /\ sent' = sent
        /\ frame'[w] = f
    BY <1>4, <2>1 DEF O!Mark, O!Put, SerialInv, OutboxTypeInv, O!TypeOK, O!Frame
  <2> HIDE DEF f, attempt
  <2>5. SendsCovered'
    BY <2>1, <2>0, <2>4, PutStep
  <2>6. frame[w].delivery \in O!Deliveries /\ sent[frame[w].delivery] \in Nat
        /\ sent[frame[w].delivery] <= frame[w].record.attempts
    BY <2>1 DEF O!Frame, SerialInv, SendsCovered, CallCovered, OutboxTypeInv, O!TypeOK
  <2>7. records'[frame[w].delivery] = attempt
    BY <2>4, <2>6 DEF SerialInv, OutboxTypeInv, O!TypeOK
  <2>8. CallCovered(frame[w])'
    BY <2>2, <2>3, <2>4, <2>6, <2>7 DEF CallCovered
  <2>9. QED
    BY <1>A, <2>5, <2>8
\* A step that moves the worker on and puts nothing.
<1>5. ASSUME NEW w \in Workers, frame[w] \in O!Frame, frame[w].at # "idle", NEW f,
             frame' = [frame EXCEPT ![w] = f], records' = records,
             f.delivery = frame[w].delivery, f.record = frame[w].record,
             f.at \in {"resolve", "request"} => frame[w].at \in {"send", "resolve"},
             f.at \in {"resolve", "request", "succeed", "fail"},
             frame[w].at \in {"send", "resolve", "request"},
             \/ sent' = sent
             \/ frame[w].at = "request" /\ sent' = [sent EXCEPT ![frame[w].delivery] = @ + 1]
      PROVE  SendsCovered' /\ \A v \in Workers : CallCovered(frame[v])'
  <2> DEFINE d == frame[w].delivery
  <2>1. /\ d \in O!Deliveries /\ sent[d] \in Nat /\ frame[w].record.attempts \in Nat
        /\ records[d] = frame[w].record /\ sent[d] < frame[w].record.attempts
        /\ frame[w].record.state = "delivering"
    BY <1>5 DEF O!Frame, O!Record, SerialInv, CallCovered, OutboxTypeInv, O!TypeOK
  <2>2. frame'[w] = f
    BY <1>5 DEF SerialInv, OutboxTypeInv, O!TypeOK
  <2>3. SendsCovered'
    BY <1>5, <2>1 DEF SerialInv, SendsCovered, OutboxTypeInv, O!TypeOK
  <2>4. CallCovered(frame[w])'
    BY <1>5, <2>1, <2>2 DEF CallCovered
  <2>5. QED
    BY <1>A, <2>3, <2>4
<1>6. ASSUME NEW w \in Workers, O!Send(w)
      PROVE  SendsCovered' /\ \A v \in Workers : CallCovered(frame[v])'
  <2> DEFINE f == [frame[w] EXCEPT !.at = IF counted < MaxRequests THEN "resolve" ELSE "fail",
                                   !.count = counted]
  <2>1. frame[w] \in O!Frame /\ frame[w].at = "send"
    BY <1>6, IdleFrame DEF O!Send, O!At, SerialInv, OutboxTypeInv
  <2>2. f.delivery = frame[w].delivery /\ f.record = frame[w].record /\ f.at \in {"resolve", "fail"}
    BY <2>1 DEF O!Frame
  <2>3. frame' = [frame EXCEPT ![w] = f] /\ records' = records /\ sent' = sent
    BY <1>6, <2>1 DEF O!Send, SerialInv, OutboxTypeInv, O!TypeOK, O!Frame
  <2> HIDE DEF f
  <2>4. QED
    BY <1>5, <2>1, <2>2, <2>3
<1>7. ASSUME NEW w \in Workers, O!Resolve(w)
      PROVE  SendsCovered' /\ \A v \in Workers : CallCovered(frame[v])'
  <2>1. frame[w] \in O!Frame /\ frame[w].at = "resolve"
    BY <1>7, IdleFrame DEF O!Resolve, O!At, SerialInv, OutboxTypeInv
  <2>2. PICK label \in {"request", "fail"} : O!Goto(w, label)
    BY <1>7 DEF O!Resolve
  <2> DEFINE f == [frame[w] EXCEPT !.at = label]
  <2>3. f.delivery = frame[w].delivery /\ f.record = frame[w].record /\ f.at = label
    BY <2>1 DEF O!Frame
  <2>4. frame' = [frame EXCEPT ![w] = f] /\ records' = records /\ sent' = sent
    BY <1>7, <2>2 DEF O!Resolve, O!Goto
  <2> HIDE DEF f
  <2>5. QED
    BY <1>5, <2>1, <2>3, <2>4
<1>8. ASSUME NEW w \in Workers, O!Request(w)
      PROVE  SendsCovered' /\ \A v \in Workers : CallCovered(frame[v])'
  <2>1. frame[w] \in O!Frame /\ frame[w].at = "request"
    BY <1>8, IdleFrame DEF O!Request, O!At, SerialInv, OutboxTypeInv
  <2>2. PICK label \in {"succeed", "fail"} : O!Goto(w, label)
    BY <1>8 DEF O!Request
  <2> DEFINE f == [frame[w] EXCEPT !.at = label]
  <2>3. f.delivery = frame[w].delivery /\ f.record = frame[w].record /\ f.at = label
    BY <2>1 DEF O!Frame
  <2>4. /\ frame' = [frame EXCEPT ![w] = f] /\ records' = records
        /\ sent' = sent \/ sent' = [sent EXCEPT ![frame[w].delivery] = @ + 1]
    BY <1>8, <2>2 DEF O!Request, O!Goto
  <2> HIDE DEF f
  <2>5. QED
    BY <1>5, <2>1, <2>3, <2>4
<1>9. ASSUME NEW w \in Workers, O!Succeed(w)
      PROVE  SendsCovered' /\ \A v \in Workers : CallCovered(frame[v])'
  <2>1. frame[w] \in O!Frame /\ frame[w].at # "idle"
    BY <1>9, IdleFrame DEF O!Succeed, O!At, SerialInv, OutboxTypeInv
  <2> DEFINE record == [frame[w].record EXCEPT !.state = "delivered"]
  <2>2. record.attempts \in Nat /\ frame[w].record.attempts <= record.attempts
    BY <2>1 DEF O!Frame, O!Record
  <2>3. /\ records' = [records EXCEPT ![frame[w].delivery] = record] /\ sent' = sent
        /\ frame' = [frame EXCEPT ![w] = O!Idle]
    BY <1>9 DEF O!Succeed, O!Put
  <2> HIDE DEF record
  <2>4. SendsCovered'
    BY <2>1, <2>2, <2>3, PutStep
  <2>5. QED
    BY <1>B, <2>3, <2>4
<1>10. ASSUME NEW w \in Workers, O!Fail(w)
       PROVE  SendsCovered' /\ \A v \in Workers : CallCovered(frame[v])'
  <2>1. frame[w] \in O!Frame /\ frame[w].at # "idle"
    BY <1>10, IdleFrame DEF O!Fail, O!At, SerialInv, OutboxTypeInv
  <2> DEFINE record == [frame[w].record EXCEPT !.state =
               IF frame[w].record.attempts >= MaxAttempts THEN "exhausted" ELSE "pending"]
  <2>2. record.attempts \in Nat /\ frame[w].record.attempts <= record.attempts
    BY <2>1 DEF O!Frame, O!Record
  <2>3. /\ records' = [records EXCEPT ![frame[w].delivery] = record] /\ sent' = sent
        /\ frame' = [frame EXCEPT ![w] = O!Idle]
    BY <1>10 DEF O!Fail, O!Put
  <2> HIDE DEF record
  <2>4. SendsCovered'
    BY <2>1, <2>2, <2>3, PutStep
  <2>5. QED
    BY <1>B, <2>3, <2>4
<1>11. ASSUME NEW w \in Workers, O!Crash(w)
       PROVE  SendsCovered' /\ \A v \in Workers : CallCovered(frame[v])'
  <2>1. SendsCovered'
    BY <1>11 DEF O!Crash, SerialInv, SendsCovered
  <2>2. QED
    BY <1>11, <1>B, <2>1 DEF O!Crash
<1>12. CASE UNCHANGED O!vars
  BY <1>12 DEF O!vars, SerialInv, SendsCovered, CallCovered
<1>13. QED
  BY <1>1, <1>2, <1>3, <1>4, <1>6, <1>7, <1>8, <1>9, <1>10, <1>11, <1>12 DEF O!Next, O!Continue

LEMMA SerialInvCorrect ==
  ASSUME O!OutboxAssumption
  PROVE  OneAtATime => (O!Spec => []SerialInv)
<1>1. O!Init => SerialInv
  BY DEF O!OutboxAssumption, O!Init, SerialInv, SendsCovered, CallCovered, OutboxTypeInv, O!TypeOK,
         AttemptLeft, O!At, O!Idle, O!NoRecord
<1>2. ASSUME OneAtATime PROVE SerialInv /\ [O!Next]_(O!vars) => SerialInv'
  BY <1>2, SerialStep
<1>3. ASSUME OneAtATime PROVE O!Spec => []SerialInv
  <2>1. SerialInv /\ [O!Next]_(O!vars) => SerialInv'
    BY <1>2, <1>3
  <2>2. QED
    BY <1>1, <2>1, PTL DEF O!Spec
<1>4. QED
  BY <1>3

\* When deliveries are made one at a time, no delivery is sent more often than it
\* has attempts, whatever fails, is lost or is cancelled (deliver).
THEOREM SerialDeliveriesAreBounded ==
  ASSUME O!OutboxAssumption
  PROVE  OneAtATime => (O!Spec => []BoundedSends)
<1>1. SerialInv => BoundedSends
  <2>1. SUFFICES ASSUME SerialInv, NEW d \in O!Deliveries
                 PROVE  sent[d] <= MaxAttempts
    BY DEF BoundedSends, Deliveries, O!Deliveries
  <2>2. sent[d] <= records[d].attempts /\ sent[d] \in Nat
    BY <2>1 DEF SerialInv, SendsCovered, OutboxTypeInv, O!TypeOK
  <2>3. records[d].attempts \in 0..MaxAttempts
    BY <2>1 DEF O!OutboxAssumption, SerialInv, OutboxTypeInv, O!TypeOK, O!Record, O!NoRecord
  <2>4. QED
    BY <2>2, <2>3 DEF O!OutboxAssumption
<1>2. QED
  BY <1>1, SerialInvCorrect, PTL

\* A worker puts only what it read, and only while that has not ended.
LEMMA EndsStandStep ==
  ASSUME O!OutboxAssumption, OneAtATime, SerialInv, [O!Next]_(O!vars), NEW d \in O!Deliveries
  PROVE  /\ sent'[d] # sent[d] => records[d].state = "delivering"
         /\ records[d].state \in {"delivered", "suppressed"} => records'[d] = records[d]
<1> USE DEF SerialInv
<1>1. ASSUME NEW context, NEW permission, NEW reviewed, O!Enqueue(context, permission, reviewed)
      PROVE  sent' = sent /\ (records[d].state \in {"delivered", "suppressed"} => records'[d] = records[d])
  BY <1>1 DEF O!Enqueue, O!Exists, O!NoRecord, OutboxTypeInv, O!TypeOK
<1>2. ASSUME NEW w \in Workers, O!Suppress(w) \/ O!Mark(w) \/ O!Succeed(w) \/ O!Fail(w)
      PROVE  sent' = sent /\ (records[d].state \in {"delivered", "suppressed"} => records'[d] = records[d])
  <2>1. frame[w].at # "idle"
    BY <1>2 DEF O!Suppress, O!Mark, O!Succeed, O!Fail, O!At
  <2>2. records[frame[w].delivery].state \notin {"delivered", "suppressed"}
    BY <2>1 DEF CallCovered
  <2>3. PICK record : records' = [records EXCEPT ![frame[w].delivery] = record]
    BY <1>2 DEF O!Suppress, O!Mark, O!Succeed, O!Fail, O!Put
  <2>4. QED
    BY <1>2, <2>2, <2>3 DEF O!Suppress, O!Mark, O!Succeed, O!Fail, OutboxTypeInv, O!TypeOK
<1>3. ASSUME NEW w \in Workers, O!Request(w)
      PROVE  records' = records /\ (sent'[d] # sent[d] => records[d].state = "delivering")
  <2>1. records[frame[w].delivery].state = "delivering"
    BY <1>3 DEF O!Request, O!At, CallCovered
  <2>2. sent' = sent \/ sent' = [sent EXCEPT ![frame[w].delivery] = @ + 1]
    BY <1>3 DEF O!Request
  <2>3. QED
    BY <1>3, <2>1, <2>2 DEF O!Request, OutboxTypeInv, O!TypeOK
<1>4. ASSUME NEW w \in Workers,
             \/ \E context \in O!Context, permission \in O!Permission, e \in O!Deliveries :
                  O!Deliver(w, e, context, permission)
             \/ O!Send(w) \/ O!Resolve(w) \/ O!Crash(w)
      PROVE  records' = records /\ sent' = sent
  BY <1>4 DEF O!Deliver, O!Send, O!Resolve, O!Crash
<1>5. CASE UNCHANGED O!vars
  BY <1>5 DEF O!vars
<1>6. QED
  BY <1>1, <1>2, <1>3, <1>4, <1>5 DEF O!Next, O!Continue

\* When deliveries are made one at a time, no request is made of a delivery that
\* ended, and what was delivered or suppressed stays so (deliver).
THEOREM SerialEndsStand ==
  ASSUME O!OutboxAssumption
  PROVE  OneAtATime => (O!Spec => O!EndsStand)
<1>1. ASSUME OneAtATime PROVE O!Spec => O!EndsStand
  <2>1. SerialInv /\ [O!Next]_(O!vars) =>
          [\A d \in O!Deliveries :
             /\ sent'[d] # sent[d] => records[d].state = "delivering"
             /\ records[d].state \in {"delivered", "suppressed"} => records'[d] = records[d]]_(O!vars)
    BY <1>1, EndsStandStep
  <2>2. O!Spec => []SerialInv
    BY <1>1, SerialInvCorrect
  <2>3. QED
    BY <2>1, <2>2, PTL DEF O!Spec, O!EndsStand
<1>2. QED
  BY <1>1

=============================================================================
