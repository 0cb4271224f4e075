-------------------------- MODULE ReasoningWindows --------------------------
(***************************************************************************)
(* SemanticReasoningService.analyze over GeminiVisualReasoner.classify:    *)
(* one condition is asked of every window of a source, as long as the      *)
(* budget lasts, and the answers are merged into episodes.  What nobody    *)
(* answered is unknown, which is neither presence nor absence.             *)
(***************************************************************************)
EXTENDS TimeRanges, Sequences

CONSTANTS
    Plans,       \* [from, to, window, stride, calls]: a range of the source, its
                 \* windows and the calls of the ReasoningBudget
    Answers(_)   \* window |-> what the provider may answer: [decision, ranges,
                 \* condition, refs], condition and refs as told by the model

VARIABLES
    plan,
    pc,          \* "asking", "done" or "raised"
    asked,       \* windows dealt with so far
    answers,     \* window |-> its accepted answer (observations)
    unknown,     \* windows nobody can say anything about
    analysis     \* what is returned: [disposition, episodes, unknown]

vars == <<plan, pc, asked, answers, unknown, analysis>>

Low(a, b) == IF a < b THEN a ELSE b

(* _windows: they overlap when the stride is shorter than the window, and  *)
(* leave holes when it is longer.                                          *)
Windows ==
    [i \in 1..((plan.to - plan.from + plan.stride - 1) \div plan.stride) |->
        LET start == plan.from + (i - 1) * plan.stride
        IN  [from |-> start, to |-> Low(start + plan.window, plan.to)]]

NoAnalysis == [disposition |-> "none", episodes |-> {}, unknown |-> {}]

Init ==
    /\ plan \in Plans
    /\ pc = "asking" /\ asked = 0
    /\ answers = <<>> /\ unknown = {} /\ analysis = NoAnalysis

Asking == pc = "asking" /\ asked < Len(Windows) /\ asked < plan.calls

(* classify: what of an answer becomes an observation of the window.       *)
Classifiable(answer, window) ==
    /\ answer.decision \in {"present", "absent", "uncertain"}
    /\ \A r \in answer.ranges : ~Empty(r) /\ window.from <= r.from /\ r.to <= window.to

(* _validate, of an observation of the requested range.                    *)
Valid(answer) ==
    /\ answer.condition = "the condition" /\ answer.refs # {}
    /\ answer.decision # "present" => answer.ranges = {}

Answered(answer) ==
    LET window == Windows[asked + 1] IN
    /\ Asking
    /\ IF Classifiable(answer, window) /\ Valid(answer)
       THEN /\ asked' = asked + 1
            /\ answers' = [w \in DOMAIN answers \cup {window} |->
                              IF w = window THEN answer ELSE answers[w]]
            /\ unknown' = unknown \cup {w \in {window} : answer.decision = "uncertain"}
            /\ UNCHANGED pc
       ELSE pc' = "raised" /\ UNCHANGED <<asked, answers, unknown>>
    /\ UNCHANGED <<plan, analysis>>

\* Mutant: a window that timed out is simply not there.
TimedOutUnnoticed ==
    /\ Asking
    /\ asked' = asked + 1
    /\ UNCHANGED <<plan, pc, answers, unknown, analysis>>

(* _bounded: this window is unknown, and the next one is asked.            *)
TimedOut ==
    /\ Asking
    /\ asked' = asked + 1
    /\ unknown' = unknown \cup {Windows[asked + 1]}
    /\ UNCHANGED <<plan, pc, answers, analysis>>

(* An error of the provider, its own timeout included, is not caught.      *)
ProviderFails ==
    /\ Asking
    /\ pc' = "raised"
    /\ UNCHANGED <<plan, asked, answers, unknown, analysis>>

(* The calls are used up: the rest of the windows is unknown.              *)
Exhausted ==
    /\ pc = "asking" /\ asked < Len(Windows) /\ asked >= plan.calls
    /\ asked' = Len(Windows)
    /\ unknown' = unknown \cup {Windows[i] : i \in (asked + 1)..Len(Windows)}
    /\ UNCHANGED <<plan, pc, answers, analysis>>

PresentAnswers == {w \in DOMAIN answers : answers[w].decision = "present"}

\* Mutant: an unanswered tick between two sightings is bridged.
EpisodesBridged ==
    {[from |-> r.from, to |-> r.to, refs |-> {}] :
        r \in MergeRanges(UNION {answers[w].ranges : w \in PresentAnswers}, 1)}

(* The merged sightings, with the evidence of every answer in them.        *)
Episodes ==
    {[from |-> r.from, to |-> r.to,
      refs |-> UNION {answers[w].refs : w \in {v \in PresentAnswers :
                          \E q \in answers[v].ranges : Overlap(q, r)}}] :
        r \in MergeRanges(UNION {answers[w].ranges : w \in PresentAnswers}, 0)}

Disposition ==
    IF unknown # {} THEN "partial"
    ELSE IF Episodes # {} THEN "present"
    ELSE IF answers # <<>> /\ \A w \in DOMAIN answers : answers[w].decision = "absent"
    THEN "absent"
    ELSE "uncertain"

Finish ==
    /\ pc = "asking" /\ asked = Len(Windows)
    /\ pc' = "done"
    /\ analysis' = [disposition |-> Disposition, episodes |-> Episodes,
                    unknown |-> MergeRanges(unknown, 0)]
    /\ UNCHANGED <<plan, asked, answers, unknown>>

Next ==
    \/ asked < Len(Windows) /\ \E answer \in Answers(Windows[asked + 1]) : Answered(answer)
    \/ TimedOut \/ ProviderFails \/ Exhausted \/ Finish

-----------------------------------------------------------------------------
(* Every moment of the source is in a window that was answered or is       *)
(* reported as unknown, and "absent" is said only of a source that was     *)
(* watched from end to end: of windows without holes, because a stride     *)
(* longer than the window leaves moments nobody is asked about.            *)
NothingIsPassedOver ==
    pc = "done" /\ plan.stride <= plan.window =>
        LET source   == Instants({[from |-> plan.from, to |-> plan.to]})
            watched  == Instants({w \in DOMAIN answers : answers[w].decision # "uncertain"})
        IN  /\ source \subseteq watched \cup Instants(analysis.unknown)
            /\ analysis.disposition = "absent" =>
                  source \subseteq Instants({w \in DOMAIN answers :
                                              answers[w].decision = "absent"})

(* An episode covers exactly moments the model said it saw the condition   *)
(* in, unanswered time is never bridged; episodes are apart from one       *)
(* another, and each has evidence of its own.                              *)
EpisodesAreSeen ==
    LET seen == UNION {answers[w].ranges : w \in PresentAnswers} IN
    /\ Instants(analysis.episodes) \subseteq Instants(seen)
    /\ \A e, f \in analysis.episodes : e # f => e.to < f.from \/ f.to < e.from
    /\ \A e \in analysis.episodes : e.refs # {} /\ ~Empty(e)
=============================================================================
