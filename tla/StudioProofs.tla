---------------------------- MODULE StudioProofs ----------------------------
(***************************************************************************)
(* Why no accepted proposal stays a draft and no admitted run fails at its *)
(* engine's first look, for any applications, tabs, videos, drawings and   *)
(* answers of the provider: what the compilers make is of two kinds only,  *)
(* and each passes the checks of everything that comes after it.           *)
(***************************************************************************)
EXTENDS Studio, SequenceTheorems, TLAPS

\* What the compiler of this mode can have made.
Makes(m) ==
    IF m = "scripted" THEN {ScriptedSpec}
    ELSE {CompiledSpec(p) : p \in {q \in Drafts : Len(q) \in 1..MaxConditions}}

\* The agent found no error in it.
Sound(spec) == Errors(Issues(spec, NoCalibration, {}, FALSE)) = {}

Number == Nat \cup {None}
App == [state : {"absent", "live", "deleted"}, draft : Number, published : Number]
Version == [app : Apps, parent : Number, spec : Makes("scripted") \cup Makes("gemini")]
Turn == [app : Apps, scene : Videos \cup {None}, at : {"compiling", "asking"}, repair : Nat]
Proposal == [app : Apps, spec : Makes("scripted") \cup Makes("gemini")]
AnyCalibration ==
    [confirmed : BOOLEAN, lines : {Parts(d).lines : d \in Drawings},
     lanes : {Parts(d).lanes : d \in Drawings}, rois : {Parts(d).rois : d \in Drawings},
     signals : {Parts(d).signals : d \in Drawings}, source : Videos, origin : Videos]
AnyRun == [version : Nat, video : Videos, calibration : Number,
           phase : {"queued", "running", "failed"},
           reason : {None, "source", "configuration", "restart"}]

TypeOK ==
    /\ mode \in {"scripted", "gemini"}
    /\ apps \in [Apps -> App]
    /\ versions \in Seq(Version)
    /\ calibrations \in Seq(AnyCalibration)
    /\ runs \in Seq(AnyRun)
    /\ seeds \in [Apps -> Videos \cup {None}] /\ sources \in [Apps -> Videos \cup {None}]
    /\ turn \in [Tabs -> Turn \cup {None}]
    /\ proposal \in [Tabs -> Proposal \cup {None}]

\* Only the live compiler asks a provider.
Askable(u) == u.at = "asking" => mode = "gemini"

\* Proposals and versions are of this mode's compiler, and proposals are sound.
Compiled ==
    /\ \A t \in Tabs : proposal[t] # None =>
          proposal[t].spec \in Makes(mode) /\ Sound(proposal[t].spec)
    /\ \A t \in Tabs : turn[t] # None => Askable(turn[t])
    /\ \A n \in DOMAIN versions : versions[n].spec \in Makes(mode)

\* Applications and runs refer to versions that exist, and a tracked run has one
\* of the calibrations.
Linked ==
    /\ \A a \in Apps : {apps[a].draft, apps[a].published} \subseteq DOMAIN versions \cup {None}
    /\ \A r \in DOMAIN runs :
          /\ runs[r].version \in DOMAIN versions
          /\ runs[r].calibration \in DOMAIN calibrations \cup {None}
          /\ mode = "scripted" => runs[r].calibration # None

IInv == TypeOK /\ Compiled /\ Linked /\ AcceptedIsPublished /\ AdmittedRunsAreConfigured

-----------------------------------------------------------------------------
\* The specifications.

\* Nothing that the validator finds in a compiled specification waits for a
\* calibration, or depends on whether it is to be published.
LEMMA CompiledIsReady ==
    ASSUME NEW spec \in Makes("gemini"), Sound(spec)
    PROVE  /\ spec.kind = "semantic_windows"
           /\ Verdict(Issues(spec, NoCalibration, {}, TRUE)) = "publication_ready"
<1>1. PICK p \in Drafts : spec = CompiledSpec(p)
  BY DEF Makes
<1>2. /\ spec.kind = "semantic_windows"
      /\ \A i \in DOMAIN spec.conditions : spec.conditions[i].roi = NoROI
  BY <1>1 DEF CompiledSpec
<1>3. Issues(spec, NoCalibration, {}, TRUE) = Issues(spec, NoCalibration, {}, FALSE)
  BY <1>2 DEF Issues
<1>4. \A i \in LimitIssues(spec) \cup ActionRefIssues(spec, {}) : i.severity = "error"
  BY DEF LimitIssues, ActionRefIssues, When, Issue
<1>5. ASSUME NEW i \in DOMAIN spec.conditions
      PROVE  \A issue \in ConditionIssues(spec.conditions[i], NoCalibration) :
                issue.severity = "error"
  BY <1>2 DEF ConditionIssues, When, Issue, Missing
<1>6. \A issue \in SemanticIssues(spec, NoCalibration) : issue.severity = "error"
  BY <1>5 DEF SemanticIssues
<1>7. \A issue \in Issues(spec, NoCalibration, {}, FALSE) : issue.severity = "error"
  BY <1>2, <1>4, <1>6 DEF Issues
<1>8. Issues(spec, NoCalibration, {}, FALSE) = {}
  BY <1>7 DEF Sound, Errors
<1>9. QED
  BY <1>2, <1>3, <1>8 DEF Verdict, Errors

\* The semantic engine takes whatever the compiler made.
LEMMA CompiledIsConfigured ==
    ASSUME NEW spec \in Makes("gemini")
    PROVE  WindowsConfigured(spec, MaxConditions)
<1>1. PICK p \in Drafts : spec = CompiledSpec(p) /\ Len(p) \in 1..MaxConditions
  BY DEF Makes
<1>2. p \in Seq(SUBSET STRING) /\ DOMAIN p = 1..Len(p)
  BY StudioAssumption, LenProperties
<1>3. /\ spec.conditions = [i \in 1..Len(p) |-> [id |-> i, prompt |-> p[i], roi |-> NoROI]]
      /\ spec.stride = spec.window
  BY <1>1, <1>2 DEF CompiledSpec
<1>4. Len(spec.conditions) = Len(p) /\ DOMAIN spec.conditions = 1..Len(p)
  BY <1>2, <1>3
<1>5. \A i \in DOMAIN spec.conditions :
        spec.conditions[i].id = i /\ spec.conditions[i].roi = NoROI
  BY <1>3, <1>4
<1>6. QED
  BY <1>1, <1>2, <1>3, <1>4, <1>5, StudioAssumption DEF WindowsConfigured

\* Whatever is drawn, a line of two points comes of it.
LEMMA DrawnHasALine ==
    ASSUME NEW c \in AnyCalibration
    PROVE  \E label \in DOMAIN c.lines : c.lines[label] = 2
<1>1. PICK d \in Drawings : c.lines = Parts(d).lines
  BY DEF AnyCalibration
<1> DEFINE drawn == Labels({s \in d : s.points >= 2}, "line")
           all == IF drawn = {} THEN {StopLine} ELSE drawn
<1>2. c.lines = [l \in all |-> 2]
  BY <1>1 DEF Parts
<1>3. \E l \in all : TRUE
  OBVIOUS
<1>4. QED
  BY <1>2, <1>3

\* The tracked engine takes the scripted specification with any calibration.
LEMMA ScriptedIsConfigured ==
    ASSUME NEW c \in AnyCalibration
    PROVE  /\ ScriptedSpec.kind = "tracked_rules"
           /\ \A i \in DOMAIN ScriptedSpec.rules : RuleConfigured(ScriptedSpec.rules[i], c)
BY StudioAssumption, DrawnHasALine DEF ScriptedSpec, RuleConfigured

-----------------------------------------------------------------------------
\* Turns.

\* A step of a tab that leaves the library and the runs alone.
LEMMA TabStep ==
    ASSUME IInv, UNCHANGED <<mode, library, videos, runs>>,
           NEW t \in Tabs, NEW u \in Turn \cup {None}, NEW p \in Proposal \cup {None},
           turn' = [turn EXCEPT ![t] = u], proposal' = [proposal EXCEPT ![t] = p],
           u # None => Askable(u),
           p # None => p = proposal[t] \/ (p.spec \in Makes(mode) /\ Sound(p.spec))
    PROVE  IInv'
<1>1. TypeOK'
  BY DEF IInv, TypeOK, library
<1>2. Compiled'
  BY DEF IInv, TypeOK, Compiled, Askable, library
<1>3. Linked' /\ AcceptedIsPublished' /\ AdmittedRunsAreConfigured'
  BY DEF IInv, Linked, AcceptedIsPublished, AdmittedRunsAreConfigured, library
<1>4. QED
  BY <1>1, <1>2, <1>3 DEF IInv

LEMMA TurnEnds ==
    ASSUME IInv, UNCHANGED <<mode, library, videos, runs>>, NEW t \in Tabs, EndTurn(t, None)
    PROVE  IInv'
BY TabStep DEF EndTurn

\* A compiled specification becomes a proposal only when the agent finds it sound.
LEMMA ProposeStep ==
    ASSUME IInv, UNCHANGED <<mode, library, videos, runs>>, NEW t \in Tabs, turn[t] # None,
           NEW spec \in Makes(mode), Propose(t, spec)
    PROVE  IInv'
<1>1. turn[t] \in Turn /\ mode \in {"scripted", "gemini"}
  BY DEF IInv, TypeOK
<1>2. CASE Sound(spec) /\ EndTurn(t, Shown(t, spec))
  <2>1. Shown(t, spec) \in Proposal /\ Shown(t, spec).spec = spec
    BY <1>1 DEF Shown, Proposal, Turn
  <2>2. QED
    BY <1>2, <2>1, TabStep DEF EndTurn
<1>3. CASE EndTurn(t, None)
  BY <1>3, TurnEnds
<1>4. CASE /\ turn' = [turn EXCEPT ![t].at = "compiling", ![t].repair = @ + 1]
           /\ UNCHANGED proposal
  <2> DEFINE u == [turn[t] EXCEPT !.at = "compiling", !.repair = turn[t].repair + 1]
  <2>1. u \in Turn /\ Askable(u)
    <3>1. turn[t].repair + 1 \in Nat
      BY <1>1 DEF Turn
    <3>2. \A n \in Nat : [turn[t] EXCEPT !.at = "compiling", !.repair = n] \in Turn
      BY <1>1 DEF Turn
    <3>3. u.at = "compiling"
      BY <1>1 DEF Turn
    <3>4. QED
      BY <3>1, <3>2, <3>3 DEF Askable
  <2>2. turn' = [turn EXCEPT ![t] = u]
    BY <1>4 DEF IInv, TypeOK
  <2>3. proposal' = [proposal EXCEPT ![t] = proposal[t]] /\ proposal[t] \in Proposal \cup {None}
    BY <1>4 DEF IInv, TypeOK
  <2> HIDE DEF u
  <2>4. QED
    BY <2>1, <2>2, <2>3, TabStep
<1>5. QED
  BY <1>2, <1>3, <1>4 DEF Propose, Sound

LEMMA BeginTurnStep ==
    ASSUME IInv, NEW t \in Tabs, NEW a \in Apps, BeginTurn(t, a)
    PROVE  IInv'
<1> DEFINE u == [app |-> a, scene |-> SceneOf(a), at |-> "compiling", repair |-> 0]
<1>1. SceneOf(a) \in Videos \cup {None}
  BY DEF IInv, TypeOK, SceneOf
<1>2. u \in Turn /\ Askable(u)
  BY <1>1 DEF Turn, Askable
<1>3. turn' = [turn EXCEPT ![t] = u] /\ proposal' = [proposal EXCEPT ![t] = None]
  BY DEF BeginTurn
<1> HIDE DEF u
<1>4. QED
  BY <1>2, <1>3, TabStep DEF BeginTurn

LEMMA AttemptStep ==
    ASSUME IInv, NEW t \in Tabs, Attempt(t)
    PROVE  IInv'
<1>1. CASE CompileScripted(t)
  <2>1. ScriptedSpec \in Makes(mode)
    BY <1>1 DEF CompileScripted, Makes
  <2>2. QED
    BY <1>1, <2>1, ProposeStep DEF CompileScripted
<1>2. CASE LoadScene(t)
  <2>1. CASE EndTurn(t, None)
    BY <1>2, <2>1, TurnEnds DEF LoadScene
  <2>2. CASE turn' = [turn EXCEPT ![t].at = "asking"] /\ UNCHANGED proposal
    <3> DEFINE u == [turn[t] EXCEPT !.at = "asking"]
    <3>1. u \in Turn /\ Askable(u)
      BY <1>2 DEF IInv, TypeOK, LoadScene, Turn, Askable
    <3>2. turn' = [turn EXCEPT ![t] = u]
      BY <2>2 DEF IInv, TypeOK
    <3>3. proposal' = [proposal EXCEPT ![t] = proposal[t]] /\ proposal[t] \in Proposal \cup {None}
      BY <2>2 DEF IInv, TypeOK
    <3> HIDE DEF u
    <3>4. QED
      BY <1>2, <3>1, <3>2, <3>3, TabStep DEF LoadScene
  <2>3. QED
    BY <1>2, <2>1, <2>2 DEF LoadScene
<1>3. CASE ProviderDrafts(t)
  <2>1. PICK p \in Drafts :
          \/ Len(p) \in 1..MaxConditions /\ Propose(t, CompiledSpec(p))
          \/ EndTurn(t, None)
    BY <1>3 DEF ProviderDrafts
  <2>2. mode = "gemini"
    BY <1>3 DEF ProviderDrafts, IInv, Compiled, Askable
  <2>3. QED
    BY <1>3, <2>1, <2>2, ProposeStep, TurnEnds DEF ProviderDrafts, Makes
<1>4. CASE CompileFails(t)
  BY <1>4, TurnEnds DEF CompileFails
<1>5. QED
  BY <1>1, <1>2, <1>3, <1>4 DEF Attempt


-----------------------------------------------------------------------------
\* The library.

\* A step that leaves versions, calibrations, runs and tabs alone, and the drafts
\* and the published versions as far as they can be told apart.
LEMMA AppStep ==
    ASSUME IInv, UNCHANGED <<mode, versions, calibrations, turn, proposal, runs>>,
           apps' \in [Apps -> App],
           seeds' \in [Apps -> Videos \cup {None}], sources' \in [Apps -> Videos \cup {None}],
           \A a \in Apps :
              /\ {apps'[a].draft, apps'[a].published} \subseteq {apps[a].draft, apps[a].published}
              /\ mode = "gemini" => apps'[a].draft = apps'[a].published
    PROVE  IInv'
<1>1. TypeOK' /\ Compiled'
  BY DEF IInv, TypeOK, Compiled, Askable
<1>2. Linked'
  BY DEF IInv, Linked
<1>3. AcceptedIsPublished' /\ AdmittedRunsAreConfigured'
  BY DEF IInv, AcceptedIsPublished, AdmittedRunsAreConfigured
<1>4. QED
  BY <1>1, <1>2, <1>3 DEF IInv

LEMMA ApplicationStep ==
    ASSUME IInv, NEW a \in Apps, CreateApp(a) \/ DeleteApp(a)
    PROVE  IInv'
<1>1. PICK s \in {"live", "deleted"} : apps' = [apps EXCEPT ![a].state = s]
  BY DEF CreateApp, DeleteApp
<1>2. apps[a] \in App /\ apps \in [Apps -> App]
  BY DEF IInv, TypeOK
<1> DEFINE new == [apps[a] EXCEPT !.state = s]
<1>3. new \in App /\ new.draft = apps[a].draft /\ new.published = apps[a].published
  BY <1>2 DEF App
<1>4. apps' = [apps EXCEPT ![a] = new]
  BY <1>1, <1>2
<1> HIDE DEF new
<1>5. apps' \in [Apps -> App] /\ \A x \in Apps : /\ apps'[x].draft = apps[x].draft
                                                /\ apps'[x].published = apps[x].published
  BY <1>2, <1>3, <1>4
<1>6. \A x \in Apps : mode = "gemini" => apps[x].draft = apps[x].published
  BY DEF IInv, AcceptedIsPublished
<1>7. seeds \in [Apps -> Videos \cup {None}] /\ sources \in [Apps -> Videos \cup {None}]
  BY DEF IInv, TypeOK
<1>8. UNCHANGED <<mode, versions, calibrations, turn, proposal, runs, seeds, sources>>
  BY DEF CreateApp, DeleteApp
<1>9. QED
  BY <1>5, <1>6, <1>7, <1>8, AppStep

LEMMA VideoStep ==
    ASSUME IInv, NEW v \in Videos,
           CompleteUpload(v) \/ DeleteVideo(v) \/ \E a \in Apps : AttachSource(a, v)
    PROVE  IInv'
<1>1. /\ UNCHANGED <<mode, apps, versions, calibrations, turn, proposal, runs>>
      /\ seeds' \in [Apps -> Videos \cup {None}] /\ sources' \in [Apps -> Videos \cup {None}]
  <2>1. seeds \in [Apps -> Videos \cup {None}] /\ sources \in [Apps -> Videos \cup {None}]
    BY DEF IInv, TypeOK
  <2>2. CASE CompleteUpload(v) \/ DeleteVideo(v)
    BY <2>1, <2>2 DEF CompleteUpload, DeleteVideo, library
  <2>3. ASSUME NEW a \in Apps, AttachSource(a, v)
        PROVE  /\ UNCHANGED <<mode, apps, versions, calibrations, turn, proposal, runs>>
               /\ seeds' \in [Apps -> Videos \cup {None}] /\ sources' \in [Apps -> Videos \cup {None}]
    <3>1. /\ seeds' = [seeds EXCEPT ![a] = IF seeds[a] = None THEN v ELSE seeds[a]]
          /\ sources' = [sources EXCEPT ![a] = v]
      BY <2>3 DEF AttachSource
    <3>2. QED
      BY <2>1, <2>3, <3>1 DEF AttachSource
  <2>4. QED
    BY <2>2, <2>3
<1>2. apps \in [Apps -> App] /\ \A x \in Apps : mode = "gemini" => apps[x].draft = apps[x].published
  BY DEF IInv, TypeOK, AcceptedIsPublished
<1>3. QED
  BY <1>1, <1>2, AppStep

\* A run refers to the same version and calibration whatever is added to them.
LEMMA MoreVersions ==
    ASSUME IInv, NEW v \in Version
    PROVE  /\ Append(versions, v) \in Seq(Version)
           /\ DOMAIN Append(versions, v) = 1..(Len(versions) + 1)
           /\ DOMAIN versions = 1..Len(versions) /\ Len(versions) \in Nat
           /\ Append(versions, v)[Len(versions) + 1] = v
           /\ \A n \in DOMAIN versions : Append(versions, v)[n] = versions[n]
BY LenProperties, AppendProperties DEF IInv, TypeOK

LEMMA AcceptStep ==
    ASSUME IInv, NEW t \in Tabs, Accept(t)
    PROVE  IInv'
<1> DEFINE p == proposal[t]
           a == p.app
           number == Len(versions) + 1
           v == [app |-> a, parent |-> apps[a].draft, spec |-> p.spec]
           publish == /\ p.spec.kind = "semantic_windows"
                      /\ Verdict(Issues(p.spec, NoCalibration, {}, TRUE)) = "publication_ready"
           new == [apps[a] EXCEPT !.draft = number,
                                  !.published = IF publish THEN number ELSE apps[a].published]
<1>1. /\ p \in Proposal /\ p.spec \in Makes(mode) /\ Sound(p.spec)
      /\ apps \in [Apps -> App] /\ mode \in {"scripted", "gemini"}
  BY DEF Accept, IInv, TypeOK, Compiled
<1>2. a \in Apps /\ apps[a] \in App /\ v \in Version
  BY <1>1 DEF Proposal, App, Version
<1>3. mode = "gemini" => publish
  BY <1>1, CompiledIsReady
<1>4. Len(versions) \in Nat /\ number \in Nat
  BY LenProperties DEF IInv, TypeOK
<1>5. /\ new \in App /\ new.draft = number
      /\ new.published = IF publish THEN number ELSE apps[a].published
  <2>1. \A n, m \in Number : LET b == [apps[a] EXCEPT !.draft = n, !.published = m]
                             IN  b \in App /\ b.draft = n /\ b.published = m
    BY <1>2 DEF App
  <2>2. apps[a].published \in Number /\ number \in Number
    BY <1>2, <1>4 DEF App, Number
  <2> DEFINE shown == IF publish THEN number ELSE apps[a].published
  <2>3. shown \in Number
    BY <2>2
  <2>4. new = [apps[a] EXCEPT !.draft = number, !.published = shown]
    OBVIOUS
  <2> HIDE DEF number, shown, new
  <2>5. new \in App /\ new.draft = number /\ new.published = shown
    BY <2>1, <2>2, <2>3, <2>4
  <2>6. QED
    BY <2>5 DEF shown
<1>6. /\ versions' = Append(versions, v)
      /\ apps' = [apps EXCEPT ![a] = new]
      /\ proposal' = [proposal EXCEPT ![t] = None]
      /\ UNCHANGED <<mode, seeds, sources, calibrations, turn, runs>>
  BY <1>1 DEF Accept
<1> HIDE DEF v, new, publish, number, a, p
<1>7. DOMAIN versions' = 1..number /\ DOMAIN versions = 1..Len(versions)
  BY <1>2, <1>6, MoreVersions DEF number
<1>8. TypeOK'
  BY <1>1, <1>2, <1>5, <1>6, MoreVersions DEF IInv, TypeOK
<1>9. Compiled'
  <2>1. v.spec \in Makes(mode)
    BY <1>1 DEF v
  <2>2. \A n \in DOMAIN versions' : versions'[n].spec \in Makes(mode)
    BY <1>2, <1>4, <1>6, <1>7, <2>1, MoreVersions DEF IInv, Compiled, number
  <2>3. \A x \in Tabs : proposal'[x] # None => proposal'[x] = proposal[x]
    BY <1>6 DEF IInv, TypeOK
  <2>4. QED
    BY <1>6, <2>2, <2>3 DEF IInv, Compiled, Askable
<1>10. Linked'
  <2>1. DOMAIN versions \subseteq DOMAIN versions' /\ number \in DOMAIN versions'
    BY <1>4, <1>7 DEF number
  <2>2. \A x \in Apps : x # a => apps'[x] = apps[x]
    BY <1>6
  <2>3. apps'[a] = new
    BY <1>1, <1>2, <1>6
  <2>4. QED
    BY <1>2, <1>5, <1>6, <2>1, <2>2, <2>3 DEF IInv, Linked
<1>11. AcceptedIsPublished' /\ AdmittedRunsAreConfigured'
  BY <1>1, <1>2, <1>3, <1>5, <1>6 DEF IInv, AcceptedIsPublished, AdmittedRunsAreConfigured
<1>12. QED
  BY <1>8, <1>9, <1>10, <1>11 DEF IInv


LEMMA MadeIsTyped ==
    ASSUME NEW d \in Drawings, NEW w \in Videos
    PROVE  Drawn(Parts(d), w, TRUE) \in AnyCalibration
BY DEF Drawn, AnyCalibration

LEMMA CalibrateStep ==
    ASSUME IInv, NEW a \in Apps, Calibrate(a)
    PROVE  IInv'
<1>1. PICK d \in Drawings :
        /\ calibrations' = Append(calibrations, Drawn(Parts(d), sources[a], TRUE))
        /\ \/ apps' = apps
           \/ apps' = [apps EXCEPT ![a].published = apps[a].draft]
  BY DEF Calibrate
<1>2. sources[a] \in Videos /\ apps \in [Apps -> App] /\ calibrations \in Seq(AnyCalibration)
  BY DEF Calibrate, IInv, TypeOK
<1>3. /\ calibrations' \in Seq(AnyCalibration)
      /\ DOMAIN calibrations \subseteq DOMAIN calibrations'
  <2> DEFINE made == Drawn(Parts(d), sources[a], TRUE)
  <2>1. made \in AnyCalibration
    BY <1>2, MadeIsTyped
  <2> HIDE DEF made
  <2>2. Append(calibrations, made) \in Seq(AnyCalibration)
        /\ Len(Append(calibrations, made)) = Len(calibrations) + 1
    BY <1>2, <2>1, AppendProperties
  <2>3. /\ DOMAIN calibrations = 1..Len(calibrations) /\ Len(calibrations) \in Nat
        /\ DOMAIN Append(calibrations, made) = 1..(Len(calibrations) + 1)
    BY <1>2, <2>2, LenProperties
  <2>4. calibrations' = Append(calibrations, made)
    BY <1>1 DEF made
  <2>5. QED
    BY <2>2, <2>3, <2>4
<1>4. UNCHANGED <<mode, versions, turn, proposal, runs, seeds, sources>>
  BY DEF Calibrate
<1> DEFINE new == [apps[a] EXCEPT !.published = apps[a].draft]
<1>5. new \in App /\ new.draft = apps[a].draft /\ new.published = apps[a].draft
  BY <1>2 DEF App
<1>6. apps' = apps \/ apps' = [apps EXCEPT ![a] = new]
  BY <1>1, <1>2
<1> HIDE DEF new
<1>7. /\ apps' \in [Apps -> App]
      /\ \A x \in Apps : /\ apps'[x].draft = apps[x].draft
                         /\ apps'[x].published \in {apps[x].published, apps[x].draft}
  BY <1>2, <1>5, <1>6
<1>8. TypeOK' /\ Compiled'
  BY <1>3, <1>4, <1>7 DEF IInv, TypeOK, Compiled, Askable
<1>9. Linked'
  BY <1>3, <1>4, <1>7 DEF IInv, Linked
<1>10. AcceptedIsPublished' /\ AdmittedRunsAreConfigured'
  BY <1>4, <1>7 DEF IInv, AcceptedIsPublished, AdmittedRunsAreConfigured
<1>11. QED
  BY <1>8, <1>9, <1>10 DEF IInv

LEMMA RebindStep ==
    ASSUME IInv, NEW c \in DOMAIN calibrations, NEW v \in Videos, Rebind(c, v)
    PROVE  IInv'
<1>1. calibrations \in Seq(AnyCalibration) /\ c \in 1..Len(calibrations)
      /\ calibrations[c] \in AnyCalibration
  BY LenProperties, ElementOfSeq DEF IInv, TypeOK
<1>2. PICK s \in BOOLEAN :
        calibrations' = [calibrations EXCEPT ![c].source = v, ![c].confirmed = @ /\ s]
  BY DEF Rebind
<1> DEFINE kept == calibrations[c].confirmed /\ s
           new == [calibrations[c] EXCEPT !.source = v, !.confirmed = kept]
<1>3. kept \in BOOLEAN
  OBVIOUS
<1>4. \A b \in BOOLEAN : [calibrations[c] EXCEPT !.source = v, !.confirmed = b] \in AnyCalibration
  BY <1>1 DEF AnyCalibration
<1>5. new \in AnyCalibration
  BY <1>3, <1>4
<1>6. calibrations' = [calibrations EXCEPT ![c] = new]
  BY <1>1, <1>2, LenProperties
<1> HIDE DEF new
<1>7. calibrations' \in Seq(AnyCalibration) /\ DOMAIN calibrations' = DOMAIN calibrations
  BY <1>1, <1>5, <1>6, ExceptSeq
<1>8. UNCHANGED <<mode, apps, versions, turn, proposal, runs, seeds, sources>>
  BY DEF Rebind
<1>9. TypeOK' /\ Compiled'
  BY <1>7, <1>8 DEF IInv, TypeOK, Compiled, Askable
<1>10. Linked'
  BY <1>7, <1>8 DEF IInv, Linked
<1>11. AcceptedIsPublished' /\ AdmittedRunsAreConfigured'
  BY <1>8 DEF IInv, AcceptedIsPublished, AdmittedRunsAreConfigured
<1>12. QED
  BY <1>9, <1>10, <1>11 DEF IInv

-----------------------------------------------------------------------------
\* The runs.

\* A run that may be admitted is configured for its engine.
LEMMA AdmittedIsConfigured ==
    ASSUME IInv, NEW r \in DOMAIN runs
    PROVE  Configured(runs[r])
<1>1. /\ runs[r].version \in DOMAIN versions
      /\ versions[runs[r].version].spec \in Makes(mode)
      /\ mode \in {"scripted", "gemini"}
  BY DEF IInv, Linked, Compiled, TypeOK
<1> DEFINE spec == versions[runs[r].version].spec
<1>2. CASE mode = "gemini"
  <2>1. spec.kind = "semantic_windows" /\ WindowsConfigured(spec, MaxConditions)
    BY <1>1, <1>2, CompiledIsConfigured DEF Makes, CompiledSpec
  <2>2. QED
    BY <1>2, <2>1 DEF Configured
<1>3. CASE mode = "scripted"
  <2>1. spec = ScriptedSpec
    BY <1>1, <1>3 DEF Makes
  <2>2. runs[r].calibration # None /\ runs[r].calibration \in DOMAIN calibrations
    BY <1>3 DEF IInv, Linked
  <2>3. Calibration(runs[r].calibration) \in AnyCalibration
    BY <2>2, LenProperties, ElementOfSeq DEF Calibration, IInv, TypeOK
  <2> HIDE DEF spec
  <2>4. QED
    BY <1>3, <2>1, <2>2, <2>3, ScriptedIsConfigured DEF Configured, spec
<1>4. QED
  BY <1>1, <1>2, <1>3

\* Runs that refer to what they did, for reasons other than their configuration.
LEMMA RunsStep ==
    ASSUME IInv, UNCHANGED <<mode, library, proposal>>, turn' \in [Tabs -> Turn \cup {None}],
           \A t \in Tabs : turn'[t] # None => turn'[t] = turn[t],
           runs' \in Seq(AnyRun),
           \A r \in DOMAIN runs' :
              /\ runs'[r].version \in DOMAIN versions
              /\ runs'[r].calibration \in DOMAIN calibrations \cup {None}
              /\ mode = "scripted" => runs'[r].calibration # None
              /\ runs'[r].reason # "configuration"
    PROVE  IInv'
<1>1. TypeOK' /\ Compiled'
  BY DEF IInv, TypeOK, Compiled, Askable, library
<1>2. Linked' /\ AcceptedIsPublished' /\ AdmittedRunsAreConfigured'
  BY DEF IInv, Linked, AcceptedIsPublished, AdmittedRunsAreConfigured, library
<1>3. QED
  BY <1>1, <1>2 DEF IInv

LEMMA RunsAreTyped ==
    ASSUME IInv
    PROVE  /\ runs \in Seq(AnyRun) /\ DOMAIN runs = 1..Len(runs) /\ Len(runs) \in Nat
           /\ \A r \in DOMAIN runs :
                /\ runs[r] \in AnyRun
                /\ runs[r].version \in DOMAIN versions
                /\ runs[r].calibration \in DOMAIN calibrations \cup {None}
                /\ mode = "scripted" => runs[r].calibration # None
                /\ runs[r].reason # "configuration"
<1>1. runs \in Seq(AnyRun) /\ DOMAIN runs = 1..Len(runs) /\ Len(runs) \in Nat
  BY LenProperties DEF IInv, TypeOK
<1>2. QED
  BY <1>1, ElementOfSeq DEF IInv, Linked, AdmittedRunsAreConfigured

LEMMA StartRunStep ==
    ASSUME IInv, NEW a \in Apps, NEW v \in Videos, NEW c \in DOMAIN calibrations \cup {None},
           StartRun(a, v, c)
    PROVE  IInv'
<1> DEFINE run == [version |-> apps[a].published, video |-> v, calibration |-> c,
                   phase |-> "queued", reason |-> None]
<1>1. runs' = Append(runs, run) /\ UNCHANGED <<mode, library, videos, turn, proposal>>
      /\ Admitted(a, v, c)
  BY DEF StartRun
<1>2. apps[a].published \in DOMAIN versions
  BY <1>1 DEF Admitted, IInv, Linked
<1>3. mode = "scripted" => c # None
  <2>1. mode = "scripted" => versions[apps[a].published].spec = ScriptedSpec
    BY <1>2 DEF IInv, Compiled, Makes
  <2>2. QED
    BY <1>1, <2>1 DEF Admitted, ScriptedSpec
<1>4. /\ DOMAIN versions \subseteq Nat /\ DOMAIN calibrations \subseteq Nat
  BY LenProperties DEF IInv, TypeOK
<1>5. run \in AnyRun
  BY <1>2, <1>4 DEF AnyRun, Number
<1>6. /\ run.version \in DOMAIN versions /\ run.calibration \in DOMAIN calibrations \cup {None}
      /\ mode = "scripted" => run.calibration # None
      /\ run.reason # "configuration"
  BY <1>2, <1>3, StudioAssumption
<1> HIDE DEF run
<1>7. /\ runs' \in Seq(AnyRun) /\ DOMAIN runs' = 1..(Len(runs) + 1)
      /\ runs'[Len(runs) + 1] = run
      /\ \A r \in DOMAIN runs : runs'[r] = runs[r]
  BY <1>1, <1>5, RunsAreTyped, AppendProperties, LenProperties
<1>8. \A r \in DOMAIN runs' : r \in DOMAIN runs \/ r = Len(runs) + 1
  BY <1>7, RunsAreTyped
<1>9. /\ turn \in [Tabs -> Turn \cup {None}]
  BY DEF IInv, TypeOK
<1>10. QED
  BY <1>1, <1>6, <1>7, <1>8, <1>9, RunsAreTyped, RunsStep

LEMMA BeginRunStep ==
    ASSUME IInv, NEW r \in DOMAIN runs, BeginRun(r)
    PROVE  IInv'
<1>1. runs[r] \in AnyRun /\ r \in 1..Len(runs) /\ Configured(runs[r])
  BY RunsAreTyped, AdmittedIsConfigured
<1> DEFINE gone == [runs[r] EXCEPT !.phase = "failed", !.reason = "source"]
           begun == [runs[r] EXCEPT !.phase = "running"]
<1>2. \A new \in {gone, begun} :
        /\ new \in AnyRun /\ new.version = runs[r].version /\ new.calibration = runs[r].calibration
        /\ new.reason \in {"source", runs[r].reason}
  BY <1>1 DEF AnyRun
<1>3. PICK new \in {gone, begun} : runs' = [runs EXCEPT ![r] = new]
  BY <1>1 DEF BeginRun
<1>4. UNCHANGED <<mode, library, videos, turn, proposal>> /\ turn \in [Tabs -> Turn \cup {None}]
  BY DEF BeginRun, IInv, TypeOK
<1> HIDE DEF gone, begun
<1>5. /\ runs' \in Seq(AnyRun) /\ DOMAIN runs' = DOMAIN runs
      /\ \A x \in DOMAIN runs : runs'[x] = IF x = r THEN new ELSE runs[x]
  BY <1>1, <1>2, <1>3, RunsAreTyped, ExceptSeq
<1>6. QED
  BY <1>2, <1>4, <1>5, RunsAreTyped, RunsStep

LEMMA RestartStep ==
    ASSUME IInv, Restart
    PROVE  IInv'
<1> DEFINE After(r) == IF runs[r].phase = "failed" THEN runs[r]
                       ELSE [runs[r] EXCEPT !.phase = "failed", !.reason = "restart"]
<1>1. ASSUME NEW r \in DOMAIN runs
      PROVE  /\ After(r) \in AnyRun /\ After(r).version = runs[r].version
             /\ After(r).calibration = runs[r].calibration
             /\ After(r).reason \in {"restart", runs[r].reason}
  <2>1. runs[r] \in AnyRun
    BY RunsAreTyped
  <2>2. QED
    BY <2>1 DEF AnyRun
<1>2. /\ runs' = [r \in DOMAIN runs |-> After(r)] /\ turn' = [t \in Tabs |-> None]
      /\ UNCHANGED <<mode, library, videos, proposal>>
  BY DEF Restart
<1> HIDE DEF After
<1>3. runs' \in [1..Len(runs) -> AnyRun] /\ Len(runs) \in Nat
  BY <1>1, <1>2, RunsAreTyped
<1>4. runs' \in Seq(AnyRun) /\ DOMAIN runs' = DOMAIN runs
  BY <1>3, RunsAreTyped
<1>5. QED
  BY <1>1, <1>2, <1>4, RunsAreTyped, RunsStep

-----------------------------------------------------------------------------
LEMMA InitIInv == Init => IInv
<1> SUFFICES ASSUME Init
             PROVE  IInv
  OBVIOUS
<1>1. [state |-> "absent", draft |-> None, published |-> None] \in App
  BY DEF App, Number
<1>2. TypeOK
  BY <1>1, EmptySeq DEF Init, TypeOK
<1>3. DOMAIN versions = {} /\ DOMAIN runs = {}
  BY DEF Init
<1>4. Compiled /\ Linked /\ AcceptedIsPublished /\ AdmittedRunsAreConfigured
  BY <1>3 DEF Init, Compiled, Linked, AcceptedIsPublished, AdmittedRunsAreConfigured
<1>5. QED
  BY <1>2, <1>4 DEF IInv

LEMMA NextIInv == IInv /\ [Next]_vars => IInv'
<1> SUFFICES ASSUME IInv, [Next]_vars
             PROVE  IInv'
  OBVIOUS
<1>1. CASE UNCHANGED vars
  BY <1>1 DEF vars, library, IInv, TypeOK, Compiled, Askable, Linked, AcceptedIsPublished,
    AdmittedRunsAreConfigured
<1>2. CASE \/ \E a \in Apps : CreateApp(a) \/ DeleteApp(a) \/ Calibrate(a)
           \/ \E v \in Videos : CompleteUpload(v) \/ DeleteVideo(v)
           \/ \E a \in Apps, v \in Videos : AttachSource(a, v)
           \/ \E c \in DOMAIN calibrations, v \in Videos : Rebind(c, v)
  BY <1>2, ApplicationStep, CalibrateStep, VideoStep, RebindStep
<1>3. CASE \/ \E t \in Tabs, a \in Apps : BeginTurn(t, a) \/ Clarify(t, a)
           \/ \E t \in Tabs : Attempt(t) \/ Accept(t)
  BY <1>3, BeginTurnStep, AttemptStep, AcceptStep DEF Clarify
<1>4. CASE \/ \E a \in Apps, v \in Videos, c \in DOMAIN calibrations \cup {None} : StartRun(a, v, c)
           \/ \E r \in DOMAIN runs : BeginRun(r)
           \/ Restart
  BY <1>4, StartRunStep, BeginRunStep, RestartStep
<1>5. QED
  BY <1>1, <1>2, <1>3, <1>4 DEF Next

LEMMA Invariance == Spec => []IInv
<1>1. QED
  BY InitIInv, NextIInv, PTL DEF Spec

\* Applications, versions, calibrations, runs, turns and proposals have their
\* types, with the specifications that the compilers can make.
THEOREM TypeCorrect == Spec => []TypeOK
<1>1. IInv => TypeOK
  BY DEF IInv
<1>2. QED
  BY <1>1, Invariance, PTL

\* With a live provider, accept_version publishes every draft it saves: for any
\* prompts the provider drafts and any terms the validator refuses.
THEOREM NothingStaysADraft == Spec => []AcceptedIsPublished
<1>1. IInv => AcceptedIsPublished
  BY DEF IInv
<1>2. QED
  BY <1>1, Invariance, PTL

\* No admitted run is refused by its engine for its configuration, whatever was
\* drawn, rebound, replaced or published between.
THEOREM RunsAreConfigured == Spec => []AdmittedRunsAreConfigured
<1>1. IInv => AdmittedRunsAreConfigured
  BY DEF IInv
<1>2. QED
  BY <1>1, Invariance, PTL


=============================================================================
