---------------------------- MODULE SemanticRun -----------------------------
(***************************************************************************)
(* GeminiSemanticEngine.run with GeminiVideoTransport.generate: a video is *)
(* cut into windows, every window is sent with all conditions to the       *)
(* provider, at most six requests in all including retries, and a window's *)
(* findings become events only when its whole answer is valid.             *)
(*                                                                         *)
(* The environment cancels the run (by flag or by cancelling the task),    *)
(* lets the deadline pass, fences the writer out, fails, answers late or   *)
(* answers nonsense.                                                       *)
(***************************************************************************)
EXTENDS Integers, Sequences, FiniteSets, SequencesExt

CONSTANTS
    Specs,       \* [kind, ids, roi, window, stride, calls, maxDuration]
    Videos,      \* [duration, small, intact]: what the probe finds
    Answers(_),  \* condition ids |-> what the provider may answer: sequences of
                 \* [id, decision, events], an event being [from, to]
    HardCalls,   \* six: the engine's own limit on requests
    GuardCalls,  \* calls of the run's execution limits
    MaxDuration, \* MAX_VIDEO_DURATION_MS
    MaxConditions, MaxFindings,
    Retries,     \* retries of the transport, at most two
    Statuses,    \* how a request may be refused: a status of HTTP's, or
    Broken       \* no status, because the connection breaks

VARIABLES
    spec, video,
    pc,          \* where the coroutine stands
    phase,       \* "running", then how the run ended
    start,       \* the current window's start
    attempt,     \* requests made for it
    requests,    \* requests made in all (calls)
    queue,       \* findings of the accepted answer still to be published
    published,   \* events upserted
    coverage,    \* ranges of the finished windows
    log,         \* progress rows the sink took
    usage,       \* [calls, failed, retried]
    accepted,    \* window start |-> the answer that was accepted for it
    cancel, deadline, writer   \* flag set; deadline passed; still the run's writer

run  == <<pc, phase, start, attempt, requests, queue, published, coverage, log, usage, accepted>>
env  == <<cancel, deadline, writer>>
vars == <<spec, video, run, env>>

Low(a, b) == IF a < b THEN a ELSE b
MaxCalls == Low(HardCalls, Low(spec.calls, GuardCalls))

-----------------------------------------------------------------------------
ConfigurationOK ==
    /\ spec.kind = "semantic_windows"
    /\ IsInjective(spec.ids)
    /\ Len(spec.ids) \in 1..MaxConditions
    /\ spec.stride = spec.window
    /\ ~spec.roi

SourceOK ==
    /\ 0 < video.duration /\ video.duration <= Low(MaxDuration, spec.maxDuration)
    /\ video.small /\ video.intact

\* Mutant: a last window shorter than the others is forgotten.
WholeWindows ==
    {s \in 0..(video.duration - 1) : s % spec.stride = 0 /\ s + spec.window <= video.duration}

(* range(0, duration, stride)                                              *)
WindowStarts == {s \in 0..(video.duration - 1) : s % spec.stride = 0}

WindowEnd(s) == Low(s + spec.window, video.duration)

(* WindowAssessment's schema.                                              *)
WellFormed(answer) ==
    /\ Len(answer) \in 1..MaxConditions
    /\ \A a \in ToSet(answer) :
        /\ a.decision \in {"present", "absent", "uncertain"}
        /\ Len(a.events) <= MaxFindings
        /\ \A e \in ToSet(a.events) : e.from >= 0 /\ e.to > 0

\* Mutant: the answers are counted, not compared with the conditions.
ValidCount(answer, length) ==
    /\ WellFormed(answer)
    /\ Len(answer) = Len(spec.ids)
    /\ \A a \in ToSet(answer) :
        /\ (a.decision = "absent") <=> a.events = <<>>
        /\ \A e \in ToSet(a.events) : e.from < e.to /\ e.to <= length

(* _validate: every condition exactly once, no event for what is absent,   *)
(* and times inside the clip.                                              *)
Valid(answer, length) ==
    /\ WellFormed(answer)
    /\ Len(answer) = Len(spec.ids)
    /\ {a.id : a \in ToSet(answer)} = ToSet(spec.ids)
    /\ \A a \in ToSet(answer) :
        /\ (a.decision = "absent") <=> a.events = <<>>
        /\ \A e \in ToSet(a.events) : e.from < e.to /\ e.to <= length

(* The events an answer for the window at s becomes, in source time.       *)
Findings(answer, s) ==
    FlattenSeq([i \in DOMAIN answer |->
        [j \in DOMAIN answer[i].events |->
            [rule |-> answer[i].id, window |-> s,
             from |-> s + answer[i].events[j].from, to |-> s + answer[i].events[j].to,
             decision |-> IF answer[i].decision = "uncertain" THEN "inconclusive"
                                                              ELSE "candidate"]]])

-----------------------------------------------------------------------------
Init ==
    /\ spec \in Specs /\ video \in Videos
    /\ pc = "begin" /\ phase = "running"
    /\ start = 0 /\ attempt = 0 /\ requests = 0
    /\ queue = <<>> /\ published = <<>> /\ coverage = <<>> /\ log = <<>>
    /\ usage = [calls |-> 0, failed |-> 0, retried |-> 0]
    /\ accepted = <<>>
    /\ cancel = FALSE /\ deadline = FALSE /\ writer = TRUE

(* progress(p): a row is numbered only once the sink has taken it.         *)
Row(p) == [phase |-> p, sequence |-> Len(log), covered |-> Len(coverage)]

(* The run ends: its last progress row, which a new writer's fence refuses *)
(* (and then even a finished run raises).                                  *)
End(p) ==
    /\ pc' = "done"
    /\ phase' = IF writer THEN p ELSE "failed"
    /\ log' = IF writer THEN Append(log, Row(p)) ELSE log

(* record_call for the k requests of a window, the last one of which is    *)
(* the only one that may have succeeded.                                   *)
Recorded(k, succeeded) ==
    [calls   |-> usage.calls + k,
     failed  |-> usage.failed + (IF succeeded THEN k - 1 ELSE k),
     retried |-> usage.retried + (IF k > 0 THEN k - 1 ELSE 0)]

(* Where check_cancelled runs before the coroutine goes on.                *)
Checked == pc \in {"open", "window", "attempt", "accepted", "build", "built", "finish"}

GoesOn == Checked => ~cancel /\ ~deadline

Halt ==
    /\ ~GoesOn
    /\ End(IF cancel THEN "cancelled" ELSE "failed")
    /\ usage' = IF pc = "attempt" THEN Recorded(attempt, FALSE) ELSE usage
    /\ UNCHANGED <<spec, video, start, attempt, requests, queue, published, coverage,
                   accepted, env>>

(* The first progress row.                                                 *)
Begin ==
    /\ pc = "begin"
    /\ IF writer
       THEN pc' = "open" /\ log' = Append(log, Row("running")) /\ UNCHANGED phase
       ELSE End("failed")
    /\ UNCHANGED <<spec, video, start, attempt, requests, queue, published, coverage,
                   usage, accepted, env>>

(* Configuration, probe and the windows, which must fit the budget before  *)
(* the first of them is sent.                                              *)
Open ==
    /\ pc = "open" /\ GoesOn
    /\ IF ConfigurationOK /\ SourceOK /\ Cardinality(WindowStarts) <= MaxCalls
       THEN pc' = "window" /\ UNCHANGED <<phase, log>>
       ELSE End("failed")
    /\ UNCHANGED <<spec, video, start, attempt, requests, queue, published, coverage,
                   usage, accepted, env>>

(* extract_clip gives the window exactly, or the run fails.                *)
Clip ==
    /\ pc = "window" /\ GoesOn
    /\ \/ pc' = "attempt" /\ attempt' = 0 /\ UNCHANGED <<phase, log>>
       \/ End("failed") /\ UNCHANGED attempt
    /\ UNCHANGED <<spec, video, start, requests, queue, published, coverage,
                   usage, accepted, env>>

\* Mutant: a retry does not ask the budget.
RetriesAreFree == attempt > 0 \/ requests < MaxCalls

(* before_attempt: every physical request is one of the budget.            *)
MayRequest == requests < MaxCalls

Attempt ==
    /\ pc = "attempt" /\ GoesOn
    /\ IF MayRequest
       THEN /\ requests' = requests + 1 /\ attempt' = attempt + 1
            /\ pc' = "waiting"
            /\ UNCHANGED <<phase, log, usage>>
       ELSE /\ usage' = Recorded(attempt, FALSE) /\ End("failed")
            /\ UNCHANGED <<requests, attempt>>
    /\ UNCHANGED <<spec, video, start, queue, published, coverage, accepted, env>>

(* VideoProviderError.from_http_status, and what httpx raises.             *)
Retryable(status) == status \in {429, 500, 502, 503, 504, Broken}

(* Another status than 200, or a broken connection.                        *)
Refused(status) ==
    /\ pc = "waiting"
    /\ IF Retryable(status) /\ attempt <= Retries
       THEN pc' = "attempt" /\ UNCHANGED <<phase, log, usage>>
       ELSE usage' = Recorded(attempt, FALSE) /\ End("failed")
    /\ UNCHANGED <<spec, video, start, attempt, requests, queue, published, coverage,
                   accepted, env>>

\* Mutant: only the last attempt of a window has a timeout.
TimeoutOnLast ==
    /\ pc = "waiting" /\ attempt > Retries
    /\ usage' = Recorded(attempt, FALSE)
    /\ End("failed")
    /\ UNCHANGED <<spec, video, start, attempt, requests, queue, published, coverage,
                   accepted, env>>

(* An unreadable or oversized envelope, or asyncio.timeout over all        *)
(* attempts of the window.                                                 *)
Fatal ==
    /\ pc = "waiting"
    /\ usage' = Recorded(attempt, FALSE)
    /\ End("failed")
    /\ UNCHANGED <<spec, video, start, attempt, requests, queue, published, coverage,
                   accepted, env>>

(* A readable answer: recorded as a success of the provider, and refused   *)
(* as a whole unless all of it is valid.                                   *)
Answer ==
    /\ pc = "waiting"
    /\ usage' = Recorded(attempt, TRUE)
    /\ \E answer \in Answers(spec.ids) :
        IF Valid(answer, WindowEnd(start) - start)
        THEN /\ pc' = "accepted"
             /\ queue' = Findings(answer, start)
             /\ accepted' = [s \in DOMAIN accepted \cup {start} |->
                                IF s = start THEN answer ELSE accepted[s]]
             /\ UNCHANGED <<phase, log>>
        ELSE End("failed") /\ UNCHANGED <<queue, accepted>>
    /\ UNCHANGED <<spec, video, start, attempt, requests, published, coverage, env>>

Accept ==
    /\ pc = "accepted" /\ GoesOn
    /\ pc' = IF queue = <<>> THEN "covered" ELSE "build"
    /\ UNCHANGED <<spec, video, phase, start, attempt, requests, queue, published,
                   coverage, log, usage, accepted, env>>

(* The evidence of the next finding; a failure here fails the run.         *)
Build ==
    /\ pc = "build" /\ GoesOn
    /\ \/ pc' = "built" /\ UNCHANGED <<phase, log>>
       \/ End("failed")
    /\ UNCHANGED <<spec, video, start, attempt, requests, queue, published, coverage,
                   usage, accepted, env>>

Publish ==
    /\ pc = "built" /\ GoesOn
    /\ pc' = "publishing"
    /\ UNCHANGED <<spec, video, phase, start, attempt, requests, queue, published,
                   coverage, log, usage, accepted, env>>

Upsert ==
    /\ pc = "publishing"
    /\ IF writer
       THEN /\ published' = Append(published, Head(queue))
            /\ queue' = Tail(queue)
            /\ pc' = IF Len(queue) = 1 THEN "covered" ELSE "build"
            /\ UNCHANGED <<phase, log>>
       ELSE End("failed") /\ UNCHANGED <<published, queue>>
    /\ UNCHANGED <<spec, video, start, attempt, requests, coverage, usage, accepted, env>>

(* The window is covered, with a progress row; then the next one.          *)
Cover ==
    /\ pc = "covered"
    /\ coverage' = Append(coverage, [from |-> start, to |-> WindowEnd(start)])
    /\ IF writer
       THEN /\ log' = Append(log, [Row("running") EXCEPT !.covered = @ + 1])
            /\ IF start + spec.stride \in WindowStarts
               THEN start' = start + spec.stride /\ pc' = "window"
               ELSE pc' = "finish" /\ UNCHANGED start
            /\ UNCHANGED phase
       ELSE End("failed") /\ UNCHANGED start
    /\ UNCHANGED <<spec, video, attempt, requests, queue, published, usage, accepted, env>>

Finish ==
    /\ pc = "finish" /\ GoesOn
    /\ End("completed")
    /\ UNCHANGED <<spec, video, start, attempt, requests, queue, published, coverage,
                   usage, accepted, env>>

(* CancelledError is raised at whatever the coroutine awaits; requests in  *)
(* flight are not recorded.                                                *)
TaskCancelled ==
    /\ cancel /\ pc \in {"begin", "window", "waiting", "build", "publishing", "covered"}
    /\ End("cancelled")
    /\ UNCHANGED <<spec, video, start, attempt, requests, queue, published, coverage,
                   usage, accepted, env>>

Program ==
    \/ Begin \/ Open \/ Clip \/ Attempt \/ Accept \/ Build \/ Publish \/ Upsert
    \/ Cover \/ Finish \/ Halt

Provider == Fatal \/ Answer \/ \E status \in Statuses : Refused(status)

CancelRun   == ~cancel /\ pc # "done" /\ cancel' = TRUE
               /\ UNCHANGED <<spec, video, run, deadline, writer>>
DeadlineIs  == ~deadline /\ pc # "done" /\ deadline' = TRUE
               /\ UNCHANGED <<spec, video, run, cancel, writer>>
FencedOut   == writer /\ pc # "done" /\ writer' = FALSE
               /\ UNCHANGED <<spec, video, run, cancel, deadline>>

Next == Program \/ Provider \/ TaskCancelled \/ CancelRun \/ DeadlineIs \/ FencedOut

(* The event loop keeps running the coroutine, and asyncio.timeout ends a  *)
(* request nobody answers; nobody has to cancel, answer well or answer.    *)
Spec == Init /\ [][Next]_vars /\ WF_vars(Program) /\ WF_vars(Fatal)

-----------------------------------------------------------------------------
(* Properties                                                              *)

(* At most six physical requests, and no more than the spec and the run's  *)
(* limits allow, whatever is retried; the usage of a completed run counts  *)
(* every one of them, and all but one per window as failed.                *)
RequestsStayInBudget ==
    /\ requests <= HardCalls /\ requests <= spec.calls /\ requests <= GuardCalls
    /\ phase = "completed" => /\ usage.calls = requests
                              /\ usage.failed = requests - Len(coverage)
                              /\ usage.retried = usage.failed

(* "Empty events mean absence only after every condition and window has    *)
(* been assessed": a completed run covers the video from end to end        *)
(* without a hole, each window has an accepted answer for each condition,  *)
(* and exactly its findings were published, in order.                      *)
CompletedIsAssessed ==
    phase = "completed" =>
        /\ coverage # <<>> /\ coverage[1].from = 0 /\ Last(coverage).to = video.duration
        /\ \A i \in 1..(Len(coverage) - 1) : coverage[i].to = coverage[i + 1].from
        /\ \A c \in ToSet(coverage), id \in ToSet(spec.ids) :
            \E a \in ToSet(accepted[c.from]) : a.id = id
        /\ published = FlattenSeq([i \in DOMAIN coverage |->
                          Findings(accepted[coverage[i].from], coverage[i].from)])

(* Nothing is published of an answer that is not whole: every event names  *)
(* one of the spec's conditions, lies in its own window, and its window's  *)
(* answer covers every condition once.                                     *)
EventsComeFromWholeAnswers ==
    \A e \in ToSet(published) :
        /\ e.rule \in ToSet(spec.ids)
        /\ e.window <= e.from /\ e.from < e.to /\ e.to <= WindowEnd(e.window)
        /\ \A id \in ToSet(spec.ids) :
            Cardinality({i \in DOMAIN accepted[e.window] : accepted[e.window][i].id = id}) = 1

(* Every run ends.                                                         *)
RunEnds == <>(pc = "done")
=============================================================================
