------------------------------- MODULE Studio -------------------------------
(***************************************************************************)
(* The studio of a local profile: the v1 routes a browser tab calls to     *)
(* make an application of a video, with the builder agent's repair loop,   *)
(* the compilers, the application and calibration services and the checks  *)
(* a worker and its engine make before the first frame.                    *)
(*                                                                         *)
(* A route under way holds the snapshot's transaction, and the services'   *)
(* awaits on memory do not suspend, so a route is one step.  Turns are the *)
(* exception: they run beside each other and beside every other route.     *)
(***************************************************************************)
EXTENDS SpecValidator, SequencesExt

CONSTANTS
    Apps, Tabs, Videos,
    Large,            \* the videos beyond the live limits
    None,
    Drafts,           \* what the provider may draft: sequences of prompts
    Window,           \* thirty seconds
    MaxConditions,    \* three, for the compiler and for the engine
    RepairAttempts,   \* MAX_REPAIR_ATTEMPTS
    Drawings,         \* what users draw: sets of [kind, label, points]
    StopLine, SignalOne, RedRule, Cars,  \* names the code chooses
    MaxVersions, MaxCalibrations, MaxRuns

ASSUME StudioAssumption ==
    /\ RedPhase # InZone
    /\ Drafts \subseteq Seq(SUBSET STRING)
    /\ MaxConditions \in Nat
    /\ None \notin {"source", "configuration", "restart"}

VARIABLES
    mode,          \* LocalProfileSettings.analysis_mode: "scripted" or "gemini"
    apps,          \* app |-> [state, draft, published], versions by their number
    versions,      \* [app, parent, spec]
    videos,        \* video |-> "absent", "ready", "invalid" or "deleted"
    seeds, sources, bound,  \* app_seed_assets, app_sources, app_calibrations
    calibrations,  \* the validator's records, with the source they name and
                   \* the video they were drawn on
    turn,          \* tab |-> its turn under way, or None
    proposal,      \* tab |-> the proposal it shows, or None
    runs           \* [version, video, calibration, phase, reason]

library == <<apps, versions, seeds, sources, bound, calibrations>>
vars    == <<mode, library, videos, turn, proposal, runs>>

Live(a)      == apps[a].state = "live"
Calibration(c) == IF c = None THEN NoCalibration ELSE calibrations[c]
Eligible(v)  == videos[v] = "ready" /\ (mode = "gemini" => v \notin Large)

Init ==
    /\ mode \in {"scripted", "gemini"}
    /\ apps = [a \in Apps |-> [state |-> "absent", draft |-> None, published |-> None]]
    /\ versions = <<>> /\ calibrations = <<>> /\ runs = <<>>
    /\ videos = [v \in Videos |-> "absent"]
    /\ seeds = [a \in Apps |-> None] /\ sources = seeds /\ bound = seeds
    /\ turn = [t \in Tabs |-> None] /\ proposal = turn

-----------------------------------------------------------------------------
(* Applications and videos                                                 *)

CreateApp(a) ==
    /\ apps[a].state = "absent"
    /\ apps' = [apps EXCEPT ![a].state = "live"]
    /\ UNCHANGED <<mode, versions, seeds, sources, bound, calibrations, videos, turn,
                   proposal, runs>>

DeleteApp(a) ==
    /\ Live(a)
    /\ apps' = [apps EXCEPT ![a].state = "deleted"]
    /\ UNCHANGED <<mode, versions, seeds, sources, bound, calibrations, videos, turn,
                   proposal, runs>>

(* complete_upload: with a live provider a video beyond its limits is      *)
(* stored as invalid.                                                      *)
CompleteUpload(v) ==
    /\ videos[v] = "absent"
    /\ videos' = [videos EXCEPT ![v] =
                    IF mode = "gemini" /\ v \in Large THEN "invalid" ELSE "ready"]
    /\ UNCHANGED <<mode, library, turn, proposal, runs>>

DeleteVideo(v) ==
    /\ videos[v] \in {"ready", "invalid"}
    /\ videos' = [videos EXCEPT ![v] = "deleted"]
    /\ UNCHANGED <<mode, library, turn, proposal, runs>>

(* The first source is the seed for ever; another source takes the         *)
(* application's calibration away.                                         *)
AttachSource(a, v) ==
    /\ Live(a) /\ Eligible(v)
    /\ seeds' = [seeds EXCEPT ![a] = IF @ = None THEN v ELSE @]
    /\ bound' = [bound EXCEPT ![a] = IF sources[a] = v THEN @ ELSE None]
    /\ sources' = [sources EXCEPT ![a] = v]
    /\ UNCHANGED <<mode, apps, versions, calibrations, videos, turn, proposal, runs>>

-----------------------------------------------------------------------------
(* Turns: submit_turn, submit_clarification and BuilderAgent.build         *)

SceneOf(a) == IF seeds[a] # None THEN seeds[a] ELSE sources[a]

(* A tab asks; with a live provider only with an eligible scene.           *)
BeginTurn(t, a) ==
    /\ Live(a) /\ turn[t] = None
    /\ mode = "gemini" => SceneOf(a) # None /\ Eligible(SceneOf(a))
    /\ turn' = [turn EXCEPT ![t] = [app |-> a, scene |-> SceneOf(a),
                                    at |-> "compiling", repair |-> 0]]
    /\ proposal' = [proposal EXCEPT ![t] = None]
    /\ UNCHANGED <<mode, library, videos, runs>>

(* submit_clarification: a turn of its own, of the answers alone.          *)
Clarify(t, a) == BeginTurn(t, a)

EndTurn(t, shown) ==
    /\ turn' = [turn EXCEPT ![t] = None]
    /\ proposal' = [proposal EXCEPT ![t] = shown]

Shown(t, spec) == [app |-> turn[t].app, spec |-> spec]

\* Mutant: the agent repairs until the proposal is right.
RepairForEver(t, spec) ==
    IF Errors(Issues(spec, NoCalibration, {}, FALSE)) = {}
    THEN EndTurn(t, Shown(t, spec))
    ELSE turn' = [turn EXCEPT ![t].at = "compiling"] /\ UNCHANGED proposal

(* The agent validates what was compiled; errors go back to the compiler,  *)
(* at most twice.                                                          *)
Propose(t, spec) ==
    IF Errors(Issues(spec, NoCalibration, {}, FALSE)) = {}
    THEN EndTurn(t, Shown(t, spec))
    ELSE IF turn[t].repair = RepairAttempts THEN EndTurn(t, None)
    ELSE turn' = [turn EXCEPT ![t].at = "compiling", ![t].repair = @ + 1] /\ UNCHANGED proposal

(* _ScriptedCompiler.                                                      *)
ScriptedSpec ==
    [kind |-> "tracked_rules", duration |-> MostDuration, calls |-> MostCalls, refs |-> {},
     rules |-> <<[id |-> RedRule, capability |-> RedPhase, classes |-> {Cars}]>>]

CompileScripted(t) ==
    /\ mode = "scripted" /\ turn[t] # None
    /\ Propose(t, ScriptedSpec)
    /\ UNCHANGED <<mode, library, videos, runs>>

(* GeminiVideoCompiler.compile, first part: the scene is read anew for     *)
(* every attempt, and without it the request is unsupported.               *)
LoadScene(t) ==
    /\ mode = "gemini" /\ turn[t] # None /\ turn[t].at = "compiling"
    /\ IF turn[t].scene = None \/ Eligible(turn[t].scene)
       THEN turn' = [turn EXCEPT ![t].at = "asking"] /\ UNCHANGED proposal
       ELSE EndTurn(t, None)
    /\ UNCHANGED <<mode, library, videos, runs>>

\* Mutant: the compiler names a region nobody has drawn yet.
RegionOfInterest(prompts) ==
    [kind |-> "semantic_windows", duration |-> 2 * Window, calls |-> 6, refs |-> {},
     window |-> Window, stride |-> Window,
     conditions |-> [i \in DOMAIN prompts |-> [id |-> i, prompt |-> prompts[i], roi |-> StopLine]]]

CompiledSpec(prompts) ==
    [kind |-> "semantic_windows", duration |-> 2 * Window, calls |-> 6, refs |-> {},
     window |-> Window, stride |-> Window,
     conditions |-> [i \in DOMAIN prompts |-> [id |-> i, prompt |-> prompts[i], roi |-> NoROI]]]

(* The provider's draft, which the schema limits to a few conditions.      *)
ProviderDrafts(t) ==
    /\ turn[t] # None /\ turn[t].at = "asking"
    /\ \E prompts \in Drafts :
        IF Len(prompts) \in 1..MaxConditions THEN Propose(t, CompiledSpec(prompts))
                                             ELSE EndTurn(t, None)
    /\ UNCHANGED <<mode, library, videos, runs>>

(* No proposal comes of it: the compiler asks back, refuses, fails or      *)
(* answers nonsense, or the agent's timeout ends the attempt.              *)
CompileFails(t) ==
    /\ turn[t] # None
    /\ EndTurn(t, None)
    /\ UNCHANGED <<mode, library, videos, runs>>

-----------------------------------------------------------------------------
(* Accepting, calibrating and running                                      *)

(* accept_version reads the revision and the draft it hands to revise; a   *)
(* semantic version is published at once, and stays a draft where that is  *)
(* refused.                                                                *)
Accept(t) ==
    /\ proposal[t] # None /\ Live(proposal[t].app) /\ Len(versions) < MaxVersions
    /\ LET p == proposal[t]
           number == Len(versions) + 1
           issues == Issues(p.spec, NoCalibration, {}, TRUE)
           publish == p.spec.kind = "semantic_windows" /\ Verdict(issues) = "publication_ready"
       IN /\ Verdict(Issues(p.spec, NoCalibration, {}, FALSE)) # "invalid"
          /\ versions' = Append(versions, [app |-> p.app, parent |-> apps[p.app].draft,
                                           spec |-> p.spec])
          /\ apps' = [apps EXCEPT ![p.app].draft = number,
                                  ![p.app].published = IF publish THEN number ELSE @]
    /\ proposal' = [proposal EXCEPT ![t] = None]
    /\ UNCHANGED <<mode, seeds, sources, bound, calibrations, videos, turn, runs>>

Labels(drawing, kind) == {shape.label : shape \in {s \in drawing : s.kind = kind}}

\* Mutant: nothing stands in for a line nobody drew.
PartsAsDrawn(drawing) ==
    [lines   |-> [l \in Labels({s \in drawing : s.points >= 2}, "line") |-> 2],
     lanes   |-> [l \in Labels(drawing, "polygon") |->
                    (CHOOSE s \in drawing : s.kind = "polygon" /\ s.label = l).points],
     rois    |-> Labels(drawing, "box"),
     signals |-> Labels(drawing, "line") \cup Labels(drawing, "box")]

(* _geometry_to_calibration_parts: defaults stand in for what is missing.  *)
Parts(drawing) ==
    LET lines == Labels({s \in drawing : s.points >= 2}, "line")
        boxes == Labels(drawing, "box")
    IN [lines   |-> [l \in (IF lines = {} THEN {StopLine} ELSE lines) |-> 2],
        lanes   |-> [l \in Labels(drawing, "polygon") |->
                        (CHOOSE s \in drawing : s.kind = "polygon" /\ s.label = l).points],
        rois    |-> IF boxes = {} THEN {SignalOne} ELSE boxes,
        signals |-> IF lines \cup boxes = {} THEN {StopLine} ELSE lines \cup boxes]

Drawn(parts, v, confirmed) ==
    [confirmed |-> confirmed, lines |-> parts.lines, lanes |-> parts.lanes,
     rois |-> parts.rois, signals |-> parts.signals, source |-> v, origin |-> v]

(* create_calibration: create, confirm and, with a draft, publish it; only *)
(* then does the application get the calibration.                          *)
Calibrate(a) ==
    /\ Live(a) /\ sources[a] # None /\ videos[sources[a]] # "deleted"
    /\ Len(calibrations) < MaxCalibrations
    /\ \E drawing \in Drawings :
        LET number == Len(calibrations) + 1
            made   == Drawn(Parts(drawing), sources[a], TRUE)
            ready  == apps[a].draft # None =>
                        Verdict(Issues(versions[apps[a].draft].spec, made, {}, TRUE))
                            = "publication_ready"
        IN /\ calibrations' = Append(calibrations, made)
           /\ bound' = IF ready THEN [bound EXCEPT ![a] = number] ELSE bound
           /\ apps' = IF ready /\ apps[a].draft # None
                      THEN [apps EXCEPT ![a].published = apps[a].draft] ELSE apps
    /\ UNCHANGED <<mode, versions, seeds, sources, videos, turn, proposal, runs>>

(* The workspace route that binds a calibration to another source: its     *)
(* confirmation stays where the caller names the same scene.               *)
Rebind(c, v) ==
    /\ videos[v] # "absent"
    /\ \E sameScene \in BOOLEAN :
        calibrations' = [calibrations EXCEPT ![c].source = v,
                                             ![c].confirmed = @ /\ sameScene]
    /\ UNCHANGED <<mode, apps, versions, seeds, sources, bound, videos, turn, proposal, runs>>

(* What the v1 route and validate_run of the workspace route both ask.     *)
Admitted(a, v, c) ==
    /\ Live(a) /\ apps[a].published # None
    /\ Eligible(v)
    /\ c # None => calibrations[c].source = v /\ calibrations[c].confirmed
    /\ versions[apps[a].published].spec.kind = "tracked_rules" => c # None

(* start_run: the published version on the attached or on a named video,   *)
(* with the application's calibration, a named one, or expressly none.     *)
StartRun(a, v, c) ==
    /\ Admitted(a, v, c) /\ Len(runs) < MaxRuns
    /\ runs' = Append(runs, [version |-> apps[a].published, video |-> v, calibration |-> c,
                             phase |-> "queued", reason |-> None])
    /\ UNCHANGED <<mode, library, videos, turn, proposal>>

(* What the engine of this mode asks before the first frame.               *)
Configured(run) ==
    LET spec == versions[run.version].spec IN
    IF mode = "gemini"
    THEN spec.kind = "semantic_windows" /\ WindowsConfigured(spec, MaxConditions)
    ELSE /\ spec.kind = "tracked_rules" /\ run.calibration # None
         /\ \A i \in DOMAIN spec.rules :
                RuleConfigured(spec.rules[i], Calibration(run.calibration))

(* The worker looks at the video again, not at the calibration's source.   *)
BeginRun(r) ==
    /\ runs[r].phase = "queued"
    /\ runs' = [runs EXCEPT ![r] =
            IF ~Eligible(@.video) THEN [@ EXCEPT !.phase = "failed", !.reason = "source"]
            ELSE IF ~Configured(@) THEN [@ EXCEPT !.phase = "failed", !.reason = "configuration"]
            ELSE [@ EXCEPT !.phase = "running"]]
    /\ UNCHANGED <<mode, library, videos, turn, proposal>>

(* Turns and runs under way do not survive the process.                    *)
Restart ==
    /\ turn' = [t \in Tabs |-> None]
    /\ runs' = [r \in DOMAIN runs |->
                  IF runs[r].phase = "failed" THEN runs[r]
                  ELSE [runs[r] EXCEPT !.phase = "failed", !.reason = "restart"]]
    /\ UNCHANGED <<mode, library, videos, proposal>>

Attempt(t) == CompileScripted(t) \/ LoadScene(t) \/ ProviderDrafts(t) \/ CompileFails(t)

Next ==
    \/ \E a \in Apps : CreateApp(a) \/ DeleteApp(a) \/ Calibrate(a)
    \/ \E v \in Videos : CompleteUpload(v) \/ DeleteVideo(v)
    \/ \E a \in Apps, v \in Videos : AttachSource(a, v)
    \/ \E t \in Tabs, a \in Apps : BeginTurn(t, a) \/ Clarify(t, a)
    \/ \E t \in Tabs : Attempt(t) \/ Accept(t)
    \/ \E c \in DOMAIN calibrations, v \in Videos : Rebind(c, v)
    \/ \E a \in Apps, v \in Videos, c \in DOMAIN calibrations \cup {None} : StartRun(a, v, c)
    \/ \E r \in DOMAIN runs : BeginRun(r)
    \/ Restart

(* The loop keeps running the agent, and wait_for ends an attempt that the *)
(* compiler does not; nobody has to call a route or to draft well.         *)
Spec == Init /\ [][Next]_vars /\ \A t \in Tabs : WF_vars(Attempt(t))

-----------------------------------------------------------------------------
(* Properties                                                              *)

(* With a live provider nothing an author accepts is left unpublished:     *)
(* what the compiler and the agent let through always passes the           *)
(* publication's checks, which accept_version runs after it saved the      *)
(* draft.                                                                  *)
AcceptedIsPublished ==
    mode = "gemini" => \A a \in Apps : apps[a].draft = apps[a].published

(* No run that was admitted fails at its engine's first look: compiler,    *)
(* validator, the drawing's defaults and admission together leave nothing  *)
(* for the engine to refuse, although none of them asks what it asks.      *)
AdmittedRunsAreConfigured == \A r \in DOMAIN runs : runs[r].reason # "configuration"

(* Every turn ends, whatever the compiler keeps proposing.                 *)
TurnsEnd == \A t \in Tabs : turn[t] # None ~> turn[t] = None
=============================================================================
