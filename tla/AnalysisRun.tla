----------------------------- MODULE AnalysisRun ----------------------------
(***************************************************************************)
(* One analysis of a source.  The local profile's worker hands the run to  *)
(* the engine of the application's analysis mode: RunEngine for tracked    *)
(* rules (TrackedRun), GeminiSemanticEngine for semantic windows           *)
(* (SemanticRun), or, without an API key, one that refuses every run; the  *)
(* analyses of GeminiVisualReasoner, one condition asked of every window   *)
(* (ReasoningWindows) and the regions of a scene (SceneProposal), are      *)
(* wired to neither.  An engine refuses the other's kind of specification. *)
(*                                                                         *)
(* The four share no state; what they do not use stands still.             *)
(***************************************************************************)
EXTENDS Integers, Sequences

CONSTANTS
    \* of TrackedRun
    Scenes, Places, Lamps, NoObject, Rois, Line, Band, Polygon, FromSide, ToSide,
    RuleGap, TrackGap, MergeGap, Margin, Stability, Threshold, FrameLimit, ProgressEvery, Media,
    MinPixels, MaxGlare, MaxDark, MinColor, WinnerMargin,
    \* of SemanticRun
    Specs, Videos, WindowAnswers(_), HardCalls, GuardCalls, MaxDuration,
    MaxConditions, MaxFindings, Retries, Statuses, Broken,
    \* of ReasoningWindows
    Plans, ConditionAnswers(_),
    \* of SceneProposal
    Drawings, NoNumber, Unit, Fine

(* What the schemas of the specification and of an answer say of them, and *)
(* that limits are counts.                                                 *)
ASSUME AnalysisAssumption ==
    /\ HardCalls \in Nat /\ GuardCalls \in Nat /\ Retries \in Nat
    /\ \A s \in Specs : /\ s.ids \in Seq(STRING) /\ s.calls \in Nat
                        /\ s.window \in Nat \ {0} /\ s.stride \in Nat \ {0}
                        /\ WindowAnswers(s.ids) \subseteq
                              Seq([id : STRING, decision : STRING,
                                   events : Seq([from : Int, to : Int])])
    /\ \A v \in Videos : v.duration \in Int

(* What a model tells of a point and of a region.                          *)
Number == Int \cup {NoNumber}
PointTold == [x : Number, y : Number]
BoxTold == [x1 : Number, y1 : Number, x2 : Number, y2 : Number]

(* A drawing is told of one frame in numbers of one kind, and every kind   *)
(* is normalized to the same fine units without a rest.                    *)
ASSUME DrawingsAssumption ==
    /\ Unit \in Nat \ {0} /\ Fine \in Nat \ {0}
    /\ Fine % Unit = 0 /\ Fine % (1000 * Unit) = 0
    /\ \A d \in Drawings :
          /\ d.width \in Nat /\ d.height \in Nat
          /\ d.space \in {"normalized", "pixels", "thousand"}
          /\ \A side \in {d.width, d.height} : side > 0 => Fine % (Unit * side) = 0
          /\ d.points \in Seq(PointTold) /\ d.boxes \in Seq(BoxTold)

(* A request of the reasoning service is of a range with positive windows  *)
(* and strides, and an answer tells ranges of times.                       *)
ASSUME PlansAssumption ==
    \A p \in Plans :
        /\ p.from \in Int /\ p.to \in Int /\ p.from <= p.to
        /\ p.window \in Nat \ {0} /\ p.stride \in Nat \ {0} /\ p.calls \in Nat
        /\ \A from, to \in p.from..p.to :
              ConditionAnswers([from |-> from, to |-> to]) \subseteq
                  [decision : STRING, ranges : SUBSET [from : Int, to : Int],
                   condition : STRING, refs : SUBSET STRING]

VARIABLES
    engine,      \* "tracked", "semantic", "reasoning", "scene" or "none"
    scene, file, seen, known, tracks, signals, events,
    spec, video, phase, start, attempt, requests, queue, published, coverage, log, usage,
    accepted, cancel, deadline, writer,
    plan, asked, answers, unknown, analysis,
    drawing, points, boxes,
    pc           \* of the analysis that is under way

tracked   == <<scene, file, seen, known, tracks, signals, events>>
semantic  == <<spec, video, phase, start, attempt, requests, queue, published, coverage,
               log, usage, accepted, cancel, deadline, writer>>
reasoning == <<plan, asked, answers, unknown, analysis>>
proposed  == <<drawing, points, boxes>>
vars == <<engine, tracked, semantic, reasoning, proposed, pc>>

T == INSTANCE TrackedRun
S == INSTANCE SemanticRun WITH Answers <- WindowAnswers
R == INSTANCE ReasoningWindows WITH Answers <- ConditionAnswers
P == INSTANCE SceneProposal

(* The rules lose sight of an object sooner than the tracker forgets it    *)
(* (TrackerConfig and the rule configurations), no gap, margin or          *)
(* confirmation time is negative, lines are directed from one side to the  *)
(* other, a rule is of one of three kinds, and a video tells its           *)
(* timestamps in whole ticks of a positive time base.                      *)
ASSUME ScenesAssumption ==
    /\ RuleGap \in Nat /\ TrackGap \in Nat /\ RuleGap <= TrackGap
    /\ MergeGap \in Nat /\ Margin \in Nat /\ Stability \in Nat
    /\ FromSide # 0 /\ ToSide # 0 /\ FromSide # ToSide
    /\ \A s \in Scenes :
          /\ s.rule \in {"line", "red", "zone"}
          /\ s.places \subseteq DOMAIN Places /\ s.places # {}
          /\ s.predicted \subseteq BOOLEAN /\ s.lamps \subseteq [Rois -> DOMAIN Lamps]
          /\ \A f \in s.files :
                /\ f.pts \in Seq(Int) /\ f.duration \in Int
                /\ f.base[1] \in Nat \ {0} /\ f.base[2] \in Nat \ {0}

(* The geometry and the lamp observer tell what is true: the side of the   *)
(* line and the inside of the zone of every place, and red of the lamps    *)
(* that show red.                                                          *)
ToldTruly ==
    /\ \A p \in DOMAIN Places :
          /\ T!LineSide(T!BoxAnchor(Places[p].box, "bottom_left"), Line, Band) = Places[p].side
          /\ T!PointInPolygon(T!BoxAnchor(Places[p].box, "bottom_center"), Polygon)
                = Places[p].inside
    /\ \A l \in DOMAIN Lamps : T!Classified(l) = "red" <=> Lamps[l].shows = "red"

IdleTracked ==
    /\ scene = <<>> /\ file = <<>> /\ seen = <<>> /\ known = <<>> /\ tracks = <<>>
    /\ signals = <<>> /\ events = {}

IdleSemantic ==
    /\ spec = <<>> /\ video = <<>> /\ phase = "idle" /\ start = 0 /\ attempt = 0
    /\ requests = 0 /\ queue = <<>> /\ published = <<>> /\ coverage = <<>> /\ log = <<>>
    /\ usage = <<>> /\ accepted = <<>> /\ cancel = FALSE /\ deadline = FALSE
    /\ writer = TRUE

IdleReasoning ==
    plan = <<>> /\ asked = 0 /\ answers = <<>> /\ unknown = {} /\ analysis = <<>>

IdleProposal == drawing = <<>> /\ points = <<>> /\ boxes = <<>>

(* The engine the local profile builds for its analysis mode, and the kind *)
(* of specification that RunEngine refuses; the semantic engine refuses    *)
(* the other kind after its first progress row (SemanticRun).              *)
EngineFor(mode, key, kind) ==
    CASE mode = "gemini" /\ key -> "semantic"
      [] mode = "scripted" /\ kind = "tracked_rules" -> "tracked"
      [] OTHER -> "none"

Init ==
    /\ engine \in {"reasoning", "scene"} \/ \E mode \in {"gemini", "scripted"}, key \in BOOLEAN,
                                  kind \in {"tracked_rules", "semantic_windows"} :
                                  engine = EngineFor(mode, key, kind)
    /\ IF engine = "tracked" THEN T!Init ELSE IdleTracked
    /\ IF engine = "semantic" THEN S!Init ELSE IdleSemantic
    /\ IF engine = "reasoning" THEN R!Init ELSE IdleReasoning
    /\ IF engine = "scene" THEN P!Init ELSE IdleProposal
    /\ engine = "none" => pc = "failed"

TrackedStep   == engine = "tracked" /\ T!Next /\ UNCHANGED <<engine, semantic, reasoning, proposed>>
SemanticStep  == engine = "semantic" /\ S!Next /\ UNCHANGED <<engine, tracked, reasoning, proposed>>
ReasoningStep == engine = "reasoning" /\ R!Next /\ UNCHANGED <<engine, tracked, semantic, proposed>>
ProposalStep  == engine = "scene" /\ P!Next /\ UNCHANGED <<engine, tracked, semantic, reasoning>>

Next == TrackedStep \/ SemanticStep \/ ReasoningStep \/ ProposalStep

(* The event loop keeps running the engine's coroutine, and                *)
(* asyncio.timeout ends a request nobody answers; nobody has to cancel,    *)
(* answer well or answer.                                                  *)
Spec ==
    /\ Init /\ [][Next]_vars
    /\ WF_vars(engine = "semantic" /\ S!Program
               /\ UNCHANGED <<engine, tracked, reasoning, proposed>>)
    /\ WF_vars(engine = "semantic" /\ S!Fatal
               /\ UNCHANGED <<engine, tracked, reasoning, proposed>>)

-----------------------------------------------------------------------------
(* What each analysis promises of its own runs; stated and explained where *)
(* the analysis is modelled.                                               *)

(* A crossing that is reported is one object's, seen on both sides.        *)
CrossingsAreReal == engine = "tracked" => T!CrossingsAreReal

(* A red-phase event is supported only under a lamp that was red all along.*)
SupportedUnderRed == engine = "tracked" => T!SupportedUnderRed

(* A visit that is reported is one object's, never lost.                   *)
VisitsAreReal == engine = "tracked" => T!VisitsAreReal

(* What an object does while it is never lost is reported.                 *)
UnbrokenTracksAreCounted == engine = "tracked" => T!UnbrokenTracksAreCounted

(* Requests to the provider stay within every budget.                      *)
RequestsStayInBudget == engine = "semantic" => S!RequestsStayInBudget

(* A completed semantic run has assessed every condition in every window.  *)
CompletedIsAssessed == engine = "semantic" => S!CompletedIsAssessed

(* Events are published of whole, valid answers only.                      *)
EventsComeFromWholeAnswers == engine = "semantic" => S!EventsComeFromWholeAnswers

(* Every semantic run ends.                                                *)
RunEnds == engine = "semantic" => S!RunEnds

(* No moment of the source is passed over, and absence is watched.         *)
NothingIsPassedOver == engine = "reasoning" => R!NothingIsPassedOver

(* An episode is what was seen, and no more.                               *)
EpisodesAreSeen == engine = "reasoning" /\ pc = "done" => R!EpisodesAreSeen

(* A proposed region lies where the model saw it.                          *)
RegionsStayInPlace == engine = "scene" => P!RegionsStayInPlace

(* One continuous episode produces one event, whatever happens later.      *)
EpisodesAreReported == engine = "tracked" => T!EpisodesAreReported
=============================================================================
