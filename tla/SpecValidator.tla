--------------------------- MODULE SpecValidator ----------------------------
(***************************************************************************)
(* validate_app_spec: what is wrong with a specification, and what is only *)
(* still to be calibrated.  A prompt is the set of terms it contains.      *)
(*                                                                         *)
(* A specification is                                                      *)
(*   [kind |-> "tracked_rules", duration, calls, refs,                     *)
(*    rules |-> sequence of [id, capability, classes]]          or         *)
(*   [kind |-> "semantic_windows", duration, calls, refs, window, stride,  *)
(*    conditions |-> sequence of [id, prompt, roi]]                        *)
(* and a calibration [confirmed, lines, lanes, rois, signals], of which    *)
(* lines and lanes are functions from labels to numbers of points.         *)
(***************************************************************************)
EXTENDS Integers, Sequences, FiniteSets

CONSTANTS
    Capabilities,     \* the registry: id |-> [mode, classes]
    RedPhase,         \* the capability that needs a governing signal
    InZone,           \* the one that needs a polygon instead of a line
    MostDuration, MostCalls,   \* the registry's limits
    CountMarkers, Countables, TrackingTerms,
    NoCalibration, NoROI

Issue(code, at)   == [code |-> code, at |-> at, severity |-> "error"]
Missing(code, at) == [code |-> code, at |-> at, severity |-> "calibration"]
When(condition, issue) == IF condition THEN {issue} ELSE {}

LimitIssues(spec) ==
         When(spec.duration > MostDuration, Issue("limit_exceeded", "max_duration_ms"))
    \cup When(spec.calls > MostCalls, Issue("limit_exceeded", "max_model_calls"))

ActionRefIssues(spec, approved) ==
    {Issue("unapproved_action", ref) : ref \in spec.refs \ approved}

(* An unknown capability hides what else is wrong with its rule.           *)
RuleIssues(rule, calibration) ==
    IF rule.capability \notin DOMAIN Capabilities
    THEN {Issue("unknown_capability", rule.id)}
    ELSE LET entry == Capabilities[rule.capability] IN
              When(entry.mode # "tracked_rules", Issue("capability_mode_mismatch", rule.id))
         \cup {Issue("unsupported_class", rule.id) : c \in rule.classes \ entry.classes}
         \cup When(/\ rule.capability = RedPhase
                   /\ calibration = NoCalibration \/ calibration.signals = {},
                   Missing("missing_governing_signal", rule.id))

TrackedIssues(spec, calibration, publication) ==
         When(publication /\ calibration = NoCalibration,
              Missing("missing_calibration", spec.kind))
    \cup When(publication /\ calibration # NoCalibration /\ ~calibration.confirmed,
              Missing("calibration_unconfirmed", spec.kind))
    \cup UNION {RuleIssues(spec.rules[i], calibration) : i \in DOMAIN spec.rules}

RequestsExactCount(prompt) == prompt \cap CountMarkers # {} /\ prompt \cap Countables # {}
RequestsTracking(prompt)   == prompt \cap TrackingTerms # {}

ConditionIssues(condition, calibration) ==
         When(RequestsExactCount(condition.prompt),
              Issue("semantic_exact_count_unsupported", condition.id))
    \cup When(RequestsTracking(condition.prompt),
              Issue("semantic_tracking_unsupported", condition.id))
    \cup When(condition.roi # NoROI /\ calibration = NoCalibration,
              Missing("missing_calibration", condition.id))
    \cup When(/\ condition.roi # NoROI /\ calibration # NoCalibration
              /\ condition.roi \notin calibration.rois,
              Missing("missing_roi", condition.id))

SemanticIssues(spec, calibration) ==
    UNION {ConditionIssues(spec.conditions[i], calibration) : i \in DOMAIN spec.conditions}

Issues(spec, calibration, approved, publication) ==
         LimitIssues(spec)
    \cup ActionRefIssues(spec, approved)
    \cup (IF spec.kind = "tracked_rules"
          THEN TrackedIssues(spec, calibration, publication)
          ELSE SemanticIssues(spec, calibration))

Errors(issues) == {i \in issues : i.severity = "error"}

Verdict(issues) ==
    IF Errors(issues) # {} THEN "invalid"
    ELSE IF issues # {} THEN "needs_calibration" ELSE "publication_ready"

-----------------------------------------------------------------------------
(* What the engines ask of a specification when a run begins.              *)

(* _line_rule and _zone_rule: the rule's own drawing, or any usable one.   *)
RuleConfigured(rule, calibration) ==
    IF rule.capability = InZone
    THEN \E label \in DOMAIN calibration.lanes : calibration.lanes[label] >= 3
    ELSE \E label \in DOMAIN calibration.lines : calibration.lines[label] = 2

(* GeminiSemanticEngine's own condition, before it probes the video.       *)
WindowsConfigured(spec, most) ==
    /\ Len(spec.conditions) <= most
    /\ \A i, j \in DOMAIN spec.conditions :
            spec.conditions[i].id = spec.conditions[j].id => i = j
    /\ spec.stride = spec.window
    /\ \A i \in DOMAIN spec.conditions : spec.conditions[i].roi = NoROI
=============================================================================
