----------------------------- MODULE RunResults -----------------------------
(***************************************************************************)
(* The events of one run after the rules have found them: RunEngine emits  *)
(* them, lets SemanticReasoningService annotate them over the Gemini       *)
(* reasoner and its retries, and the worker selects the attempt.  Clients  *)
(* read them page by page, review them and ask for their delivery, while   *)
(* the run is under way or after it.                                       *)
(*                                                                         *)
(* Requests are one step each (LocalProfile has the transaction around     *)
(* them and the saves that fail).  The evidence of an event is in          *)
(* MediaAssets, the sending of a delivery in ActionOutbox.                 *)
(***************************************************************************)
EXTENDS Integers, FiniteSetsExt, SequencesExt

CONSTANTS
    Events,      \* event ids of this run, numbers because ids are compared
    Foreign,     \* ids of another run's events in the same workspace
    Starts,      \* when an event may start
    Keys,        \* idempotency keys of delivery requests
    Verdicts,    \* what a review may say: present, absent or uncertain
    MaxQueue,    \* max_review_queue
    MaxCalls,    \* ReasoningBudget.max_calls
    MaxRetries,  \* retries of the provider transport
    PageSize,    \* the largest limit of a page of events
    RepoLimit,   \* limit of a repository read, over all runs
    MaxReviews   \* bound: human reviews

ASSUME RunResultsAssumption ==
    /\ Events \subseteq Nat /\ Foreign \subseteq Nat /\ Events \cap Foreign = {}
    /\ IsFiniteSet(Events) /\ IsFiniteSet(Foreign)
    /\ Starts \subseteq Nat /\ Starts # {}
    /\ Verdicts \subseteq {"present", "absent", "uncertain"}
    /\ MaxQueue \in Nat \ {0} /\ PageSize \in Nat \ {0}
    /\ MaxCalls \in Nat /\ MaxRetries \in Nat /\ RepoLimit \in Nat /\ MaxReviews \in Nat

VARIABLES
    phase,       \* how far the worker is with the run
    outcome,     \* "none", then what the engine returns or raises
    selected,    \* the attempt's results are the run's results
    cancelled,   \* the cancellation event of the worker
    reviewer,    \* "none", "plain" (no review_candidate) or "reviews"
    found,       \* event id |-> the disposition of its candidate, or "none"
    copy,        \* event id |-> the engine's copy (its events dict)
    store,       \* event id |-> the repository's document
    task,        \* event id |-> its review task
    slots,       \* free places of the semaphore
    enabled,     \* the action's destination is enabled
    deliveries,  \* delivery records
    reviews,     \* human reviews so far
    word,        \* event id |-> the last human word on it, and its revision
    reader       \* a client that pages through the results

engine == <<phase, outcome, selected, reviewer, found, copy>>
human  == <<enabled, deliveries, reviews, word>>
vars == <<engine, cancelled, store, task, slots, human, reader>>

Decisions == {"confirmed_by_user", "dismissed_by_user"}
Notes == {"none", "present", "absent", "uncertain", "partial"}

NoDoc == [there |-> FALSE, start |-> 0, decision |-> "none", human |-> "unreviewed",
          revision |-> 0, note |-> "none"]
NoTask == [at |-> "none", tries |-> 0, note |-> "none"]
Over == [NoTask EXCEPT !.at = "done"]
Silence == [says |-> "none", revision |-> 0]

Busy == {e \in Events : task[e].at \in {"calling", "backoff"}}

-----------------------------------------------------------------------------
Init ==
    /\ phase = "frames" /\ outcome = "none" /\ selected = FALSE /\ cancelled = FALSE
    /\ reviewer \in {"none", "plain", "reviews"}
    /\ found = [e \in Events |-> "none"]
    /\ copy = [e \in Events |-> NoDoc]
    /\ store = copy
    /\ task = [e \in Events |-> NoTask]
    /\ slots = MaxQueue
    /\ enabled = FALSE /\ deliveries = {} /\ reviews = 0
    /\ word = [e \in Events |-> Silence]
    /\ reader = [at |-> "idle", cursor |-> <<-1, -1>>, got |-> <<>>]

-----------------------------------------------------------------------------
(* The engine                                                              *)

(* The frame loop: it ends with the video, with a cancellation seen before *)
(* a frame, or with an exception.                                          *)
EndFrames(how) ==
    /\ phase = "frames"
    /\ how = "cancelled" => cancelled
    /\ phase' = IF how = "completed" THEN "events" ELSE "ending"
    /\ outcome' = how
    /\ UNCHANGED <<selected, reviewer, found, copy, cancelled, store, task, slots, human, reader>>

(* The document of an event as the rules leave it.                         *)
Emitted(start, disposition) ==
    [NoDoc EXCEPT !.there = TRUE, !.start = start, !.decision = disposition]

(* The event whose first write was made but not saved: clients see it, and *)
(* the engine is about to write it once more.                              *)
Unsaved == {e \in Events : found[e] \in {"supported", "inconclusive"} /\ ~copy[e].there}

(* _emit_event, for a candidate that was supported or is inconclusive; a   *)
(* rejected one is skipped.  The write is in memory before it is saved,    *)
(* and the engine has its copy only when it is saved.                      *)
Emit(e, disposition, start, saved) ==
    LET event == Emitted(start, disposition) IN
    /\ phase = "events" /\ found[e] = "none" /\ Unsaved = {}
    /\ found' = [found EXCEPT ![e] = disposition]
    /\ IF disposition = "rejected" THEN UNCHANGED <<copy, store>>
       ELSE /\ copy' = IF saved THEN [copy EXCEPT ![e] = event] ELSE copy
            /\ store' = [store EXCEPT ![e] = event]
    /\ UNCHANGED <<phase, outcome, selected, reviewer, cancelled, task, slots, human, reader>>

(* The exception is taken for failed evidence and the event is written     *)
(* once more, as it was: a review it got in between goes with it.  When    *)
(* this write is not saved either, the run fails.                          *)
EmitAgain(e, saved) ==
    LET event == Emitted(store[e].start, found[e]) IN
    /\ phase = "events" /\ e \in Unsaved
    /\ store' = [store EXCEPT ![e] = event]
    /\ IF saved THEN copy' = [copy EXCEPT ![e] = event] /\ UNCHANGED <<phase, outcome>>
       ELSE phase' = "ending" /\ outcome' = "failed" /\ UNCHANGED copy
    /\ UNCHANGED <<selected, reviewer, found, cancelled, task, slots, human, reader>>

(* A rule that raises, or a write the sink refuses, fails the run, and     *)
(* what was emitted stays.                                                 *)
EmitFails ==
    /\ phase = "events"
    /\ phase' = "ending" /\ outcome' = "failed"
    /\ UNCHANGED <<selected, reviewer, found, copy, cancelled, store, task, slots, human, reader>>

(* _run_reviews: one task per event, unless the run is cancelled already.  *)
BeginReviews ==
    /\ phase = "events" /\ Unsaved = {} /\ \A e \in Events : found[e] # "none"
    /\ IF reviewer = "none" THEN phase' = "ending" /\ UNCHANGED task
       ELSE /\ phase' = "reviewing"
            /\ task' = [e \in Events |-> IF copy[e].there /\ ~cancelled
                                         THEN [NoTask EXCEPT !.at = "queued"] ELSE NoTask]
    /\ UNCHANGED <<outcome, selected, reviewer, found, copy, cancelled, store, slots, human, reader>>

\* Mutant: cancellation is looked at when the task is made, not when it starts.
StartReviewUnchecked(e) ==
    /\ phase = "reviewing" /\ task[e].at = "queued" /\ slots > 0
    /\ IF reviewer = "plain" \/ MaxCalls = 0
       THEN task' = [task EXCEPT ![e] = [@ EXCEPT !.at = "answered", !.note = "partial"]]
            /\ slots' = slots - 1
       ELSE task' = [task EXCEPT ![e].at = "calling"] /\ slots' = slots - 1
    /\ UNCHANGED <<engine, cancelled, store, human, reader>>

(* review_one gets a place in the semaphore and looks at the cancellation. *)
(* review_candidates is given the one candidate, so its budget is spent    *)
(* anew for every event: it refuses all or nothing.                        *)
StartReview(e) ==
    /\ phase = "reviewing" /\ task[e].at = "queued" /\ slots > 0
    /\ IF cancelled THEN task' = [task EXCEPT ![e] = Over] /\ UNCHANGED slots
       ELSE IF reviewer = "plain" \/ MaxCalls = 0
       THEN task' = [task EXCEPT ![e] = [@ EXCEPT !.at = "answered", !.note = "partial"]]
            /\ slots' = slots - 1
       ELSE task' = [task EXCEPT ![e].at = "calling"] /\ slots' = slots - 1
    /\ UNCHANGED <<engine, cancelled, store, human, reader>>

(* An object whose agreement is agree, disagree or anything else.          *)
Answered(e, note) ==
    /\ task[e].at = "calling"
    /\ task' = [task EXCEPT ![e] = [@ EXCEPT !.at = "answered", !.note = note]]
    /\ UNCHANGED <<engine, cancelled, store, slots, human, reader>>

\* Mutant: the place in the semaphore is given back on success only.
RaisedInPlace(e) ==
    /\ task' = [task EXCEPT ![e] = Over]
    /\ UNCHANGED slots

(* The review raises: the semaphore is left, gather keeps the exception    *)
(* for itself, and the event has no annotation.                            *)
Raised(e) ==
    /\ task' = [task EXCEPT ![e] = Over]
    /\ slots' = slots + 1

(* translate_exception: a 429, a 5xx, a timeout of one call and whatever   *)
(* it does not know is worth another try, while the retries last.          *)
Transient(e) ==
    /\ task[e].at = "calling"
    /\ IF task[e].tries < MaxRetries
       THEN task' = [task EXCEPT ![e].at = "backoff"] /\ UNCHANGED slots
       ELSE Raised(e)
    /\ UNCHANGED <<engine, cancelled, store, human, reader>>

(* A blocked prompt, another status, or an answer that is not an object.   *)
Permanent(e) ==
    /\ task[e].at = "calling"
    /\ Raised(e)
    /\ UNCHANGED <<engine, cancelled, store, human, reader>>

(* with_retry after its backoff, when the total timeout leaves time.       *)
TryAgain(e) ==
    /\ task[e].at = "backoff"
    /\ task' = [task EXCEPT ![e].at = "calling", ![e].tries = @ + 1]
    /\ UNCHANGED <<engine, cancelled, store, slots, human, reader>>

(* ... and when it does not.                                               *)
DeadlinePassed(e) ==
    /\ task[e].at = "backoff"
    /\ Raised(e)
    /\ UNCHANGED <<engine, cancelled, store, human, reader>>

(* _bounded: the reasoning budget's timeout, over all tries.               *)
TimedOut(e) ==
    /\ e \in Busy
    /\ task' = [task EXCEPT ![e] = [@ EXCEPT !.at = "answered", !.note = "partial"]]
    /\ UNCHANGED <<engine, cancelled, store, slots, human, reader>>

\* Mutant: a review that agrees makes the event a supported one.
AnnotatedWithVerdict(doc, note) ==
    [doc EXCEPT !.note = note, !.decision = IF note = "present" THEN "supported" ELSE @]

(* The note goes into the facts; the machine decision stays.               *)
Annotated(doc, note) == [doc EXCEPT !.note = note]

(* The engine's copy, with the note, replaces the document: the human      *)
(* review it may have got in the meantime goes with it.                    *)
Annotate(e) ==
    LET updated == Annotated(copy[e], task[e].note) IN
    /\ task[e].at = "answered"
    /\ copy' = [copy EXCEPT ![e] = updated]
    /\ store' = [store EXCEPT ![e] = updated]
    /\ task' = [task EXCEPT ![e] = Over]
    /\ slots' = slots + 1
    /\ UNCHANGED <<phase, outcome, selected, reviewer, found, cancelled, human, reader>>

(* The sink refuses the annotation; like any error of a review, gather     *)
(* keeps it.  One that is written and not saved is Annotate for whoever    *)
(* reads the results: the engine looks at its copy no more.                *)
AnnotateFails(e) ==
    /\ task[e].at = "answered"
    /\ Raised(e)
    /\ UNCHANGED <<engine, cancelled, store, human, reader>>

EndReviews ==
    /\ phase = "reviewing" /\ \A e \in Events : task[e].at \in {"none", "done"}
    /\ phase' = "ending"
    /\ UNCHANGED <<outcome, selected, reviewer, found, copy, cancelled, store, task, slots,
                   human, reader>>

(* The worker's last transaction selects the attempt, whatever its         *)
(* outcome; only a run that fails after it was cancelled is left alone.    *)
Finalize ==
    /\ phase = "ending"
    /\ phase' = "ended"
    /\ selected' = ~(outcome = "failed" /\ cancelled)
    /\ UNCHANGED <<outcome, reviewer, found, copy, cancelled, store, task, slots, human, reader>>

-----------------------------------------------------------------------------
(* Clients                                                                 *)

CancelRun ==
    /\ ~cancelled /\ phase # "ended"
    /\ cancelled' = TRUE
    /\ UNCHANGED <<engine, store, task, slots, human, reader>>

(* repository.review_event *)
Reviewed(doc, decision) == [doc EXCEPT !.human = decision, !.revision = @ + 1]

(* POST review of the action API: the revision the client names must be    *)
(* the one that is stored, or the request fails.                           *)
Review(e, decision, expected) ==
    /\ store[e].there /\ store[e].revision = expected
    /\ reviews < MaxReviews /\ reviews' = reviews + 1
    /\ store' = [store EXCEPT ![e] = Reviewed(@, decision)]
    /\ word' = [word EXCEPT ![e] = [says |-> decision, revision |-> expected + 1]]
    /\ UNCHANGED <<engine, cancelled, task, slots, enabled, deliveries, reader>>

(* POST review of the v1 API names no revision: the route reads it itself, *)
(* so whatever the user had on the screen, the last word wins.             *)
ReviewNow(e, decision) == Review(e, decision, store[e].revision)

(* POST enable, with its confirmation and a public HTTPS destination.  The *)
(* first destination of an action stays, whatever a later request names.   *)
Enable ==
    /\ ~enabled
    /\ enabled' = TRUE
    /\ UNCHANGED <<engine, cancelled, store, task, slots, deliveries, reviews, word, reader>>

\* Mutant: whoever did not dismiss the event has agreed to its delivery.
EligibleUnlessDismissed(doc) ==
    doc.decision = "supported" /\ doc.human # "dismissed_by_user"

(* eligibility, of the context the local profile makes: the event always   *)
(* counts as selected and finalized, and nothing is approved beforehand.   *)
Eligible(doc) == doc.decision = "supported" /\ doc.human = "confirmed_by_user"

(* POST deliveries: the id is made of event, revision, action and key, so  *)
(* a repeated request finds its record.                                    *)
CreateDelivery(e, expected, key) ==
    /\ store[e].there /\ store[e].revision = expected
    /\ enabled /\ Eligible(store[e])
    /\ deliveries' = deliveries \cup {[event |-> e, revision |-> expected, key |-> key]}
    /\ UNCHANGED <<engine, cancelled, store, task, slots, enabled, reviews, word, reader>>

(* The order of event keys, start before id.                               *)
After(k, cursor) == k[1] > cursor[1] \/ (k[1] = cursor[1] /\ k[2] > cursor[2])

Key(e) == IF e \in Events THEN <<store[e].start, e>> ELSE <<Min(Starts), e>>

Stored == {e \in Events : store[e].there}

(* The first n events of a set, and the last one.                          *)
First(n, es) == {e \in es : Cardinality({d \in es : After(Key(e), Key(d))}) < n}
LastOf(es)   == CHOOSE e \in es : \A d \in es : d = e \/ After(Key(e), Key(d))

(* What the repository returns for a run: the events of the workspace in   *)
(* order, the first RepoLimit of them, and of those the attempt's.         *)
RunEvents == First(RepoLimit, Foreign \cup Stored) \cap Events

\* Mutant: events that start together are one place in the order.
RestByStart == IF selected THEN {e \in RunEvents : Key(e)[1] > reader.cursor[1]} ELSE {}

(* What is after the cursor, of the selected attempt.                      *)
Rest == IF selected THEN {e \in RunEvents : After(Key(e), reader.cursor)} ELSE {}

(* GET events: the next page after the cursor, as long as the client wants *)
(* it.  A page that leaves nothing over has no next cursor.                *)
ReadPage(limit) ==
    LET page == First(limit, Rest)
        over == Rest = page IN
    /\ phase = "ended" /\ reader.at # "done"
    /\ reader' = [at     |-> IF over THEN "done" ELSE "paging",
                  cursor |-> IF over THEN reader.cursor ELSE Key(LastOf(page)),
                  got    |-> Append(reader.got, page)]
    /\ UNCHANGED <<engine, cancelled, store, task, slots, human>>

-----------------------------------------------------------------------------
Reviewing(e) ==
    \/ StartReview(e) \/ Transient(e) \/ Permanent(e) \/ TryAgain(e) \/ DeadlinePassed(e)
    \/ TimedOut(e) \/ Annotate(e) \/ AnnotateFails(e)
    \/ \E note \in Verdicts : Answered(e, note)

Run ==
    \/ \E how \in {"completed", "cancelled", "failed"} : EndFrames(how)
    \/ \E e \in Events, saved \in BOOLEAN :
          \/ \E d \in {"supported", "inconclusive", "rejected"}, s \in Starts : Emit(e, d, s, saved)
          \/ EmitAgain(e, saved)
    \/ EmitFails \/ BeginReviews \/ EndReviews \/ Finalize

Clients ==
    \/ CancelRun \/ Enable
    \/ \E limit \in 1..PageSize : ReadPage(limit)
    \/ \E e \in Events, d \in Decisions : ReviewNow(e, d)
    \/ \E e \in Events, n \in 0..MaxReviews :
          \/ \E d \in Decisions : Review(e, d, n)
          \/ \E k \in Keys : CreateDelivery(e, n, k)

Next == Run \/ (\E e \in Events : Reviewing(e)) \/ Clients

Spec == Init /\ [][Next]_vars

(* The event loop resumes the run and every review task; each provider     *)
(* call ends, by its timeout if nothing else.                              *)
FairSpec == Spec /\ WF_vars(Run) /\ \A e \in Events : WF_vars(Reviewing(e))

-----------------------------------------------------------------------------
Doc == [there : BOOLEAN, start : Starts \cup {0},
        decision : {"none", "supported", "inconclusive", "rejected"},
        human : Decisions \cup {"unreviewed"}, revision : Nat, note : Notes]

Task == [at : {"none", "queued", "calling", "backoff", "answered", "done"},
         tries : Nat, note : Notes]

TypeOK ==
    /\ phase \in {"frames", "events", "reviewing", "ending", "ended"}
    /\ outcome \in {"none", "completed", "cancelled", "failed"}
    /\ selected \in BOOLEAN /\ cancelled \in BOOLEAN /\ enabled \in BOOLEAN
    /\ reviewer \in {"none", "plain", "reviews"}
    /\ found \in [Events -> {"none", "supported", "inconclusive", "rejected"}]
    /\ copy \in [Events -> Doc] /\ store \in [Events -> Doc]
    /\ task \in [Events -> Task]
    /\ slots \in Nat /\ reviews \in Nat
    /\ deliveries \subseteq [event : Events, revision : Nat, key : Keys]
    /\ word \in [Events -> [says : Decisions \cup {"none"}, revision : Nat]]

(* "Deterministic signal/geometry gates remain authoritative": whatever a  *)
(* model review answers and whoever confirms the event, nothing is         *)
(* delivered that the rules had not found to be supported.                 *)
OnlySupportedIsDelivered == \A d \in deliveries : found[d.event] = "supported"

(* A delivery is made of an event only while the last human word on it is  *)
(* a confirmation, and of the very revision that word made: a review that  *)
(* the engine's copy replaced, or a later dismissal, authorizes nothing.   *)
DeliveriesAreConfirmed ==
    [][\A d \in deliveries' \ deliveries :
          word[d.event] = [says |-> "confirmed_by_user", revision |-> d.revision]]_vars

(* Cancellation stops new work: from then on no review of a further event  *)
(* is begun, and only those already in the queue's places go on, with      *)
(* their retries.                                                          *)
CancelStopsReviews ==
    [][cancelled => Busy' \subseteq Busy]_vars

(* A client that follows the cursors of an ended run has every event of it *)
(* once, in order, whatever else the workspace holds, whoever reviews      *)
(* meanwhile and however long the pages are.                               *)
PagesAreComplete ==
    reader.at = "done" /\ selected =>
        /\ UNION ToSet(reader.got) = Stored
        /\ \A i, j \in DOMAIN reader.got : i < j =>
              \A d \in reader.got[i], e \in reader.got[j] : After(Key(e), Key(d))

(* A run whose frames have ended is finalized: reviews that fail, hang or  *)
(* wait for one another do not hold it up.                                 *)
RunIsFinalized == (phase = "events") ~> (phase = "ended")

=============================================================================
