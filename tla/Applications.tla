---------------------------- MODULE Applications ----------------------------
(***************************************************************************)
(* The application services: applications with a draft and a published     *)
(* version, versions that never change, calibrations that users confirm.   *)
(*                                                                         *)
(* Clients call revise, publish, delete, and confirm, bind or redraw a     *)
(* calibration, through the builder's routes. Calls are cut at their       *)
(* awaits: what a call read may be replaced before it swaps.               *)
(***************************************************************************)
EXTENDS Integers

CONSTANTS
  Clients,
  Apps,          \* the ids of applications, versions and calibrations
  Versions,
  Calibrations,
  NoVersion,
  NoCalibration, \* a publication without a calibration
  Scenes,        \* scene fingerprints
  Drawings,      \* lanes, lines and regions
  MaxRevision    \* bound: revisions of an application or a calibration

ASSUME ApplicationAssumption ==
  /\ NoVersion \notin Versions
  /\ NoCalibration \notin Calibrations
  /\ MaxRevision \in Nat

VARIABLES
  apps,
  versions,
  calibrations,
  confirmed,    \* what users saw of a calibration when they asked to confirm it
  frame         \* the pending call of each client

vars == <<apps, versions, calibrations, confirmed, frame>>

App == [revision : Nat, draft : Versions \cup {NoVersion},
        published : Versions \cup {NoVersion}, deleted : BOOLEAN]
NoApp == [revision |-> -1, draft |-> NoVersion, published |-> NoVersion, deleted |-> FALSE]
NewApp == [NoApp EXCEPT !.revision = 0]

\* A spatial specification is published with a confirmed calibration only.
Specs == {"spatial", "free"}
Version == [app : Apps, parent : Versions \cup {NoVersion}, spec : Specs]
NotMade == [spec |-> "none"]
Made(v) == versions[v] # NotMade

Calibration == [revision : Nat, scene : Scenes, drawing : Drawings, confirmed : BOOLEAN]
NotCreated == [revision |-> 0]
Content(k) == <<k.scene, k.drawing>>

\* _update and what its callers ask of it.
Changes ==
  [kind : {"confirm"}]
    \cup [kind : {"bind"}, scene : Scenes, unconfirm : BOOLEAN]
    \cup [kind : {"redraw"}, drawing : Drawings]
Changed(k, change) ==
  CASE change.kind = "confirm" -> [k EXCEPT !.revision = @ + 1, !.confirmed = TRUE]
    [] change.kind = "bind" -> [k EXCEPT !.revision = @ + 1, !.scene = change.scene,
                                         !.confirmed = @ /\ ~change.unconfirm]
    [] change.kind = "redraw" -> [k EXCEPT !.revision = @ + 1, !.drawing = change.drawing,
                                           !.confirmed = FALSE]

\* What a suspended call remembers: what its client named, and what it read.
Revising ==
  [at : {"revise"}, app : Apps, expected : Nat, base : Versions \cup {NoVersion}, spec : Specs]
    \cup [at : {"own", "add"}, app : Apps, copy : App, spec : Specs]
    \cup [at : {"draft"}, app : Apps, copy : App, version : Versions]
Publishing ==
  [at : {"with"}, app : Apps, expected : Nat, version : Versions, calibration : Calibrations]
    \cup [at : {"publish"}, app : Apps, expected : Nat, version : Versions, ready : BOOLEAN]
    \cup [at : {"check"}, app : Apps, copy : App, ready : BOOLEAN]
    \cup [at : {"point"}, app : Apps, copy : App]
Calibrating ==
  [at : {"bind"}, calibration : Calibrations, expected : Nat, scene : Scenes]
    \cup [at : {"update"}, calibration : Calibrations, expected : Nat, change : Changes]
    \cup [at : {"save"}, calibration : Calibrations, copy : Calibration, change : Changes]
Frame == Revising \cup Publishing \cup Calibrating
Idle == [at |-> "idle"]

At(c, label) == frame[c].at = label
Go(c, f) == frame' = [frame EXCEPT ![c] = f]
Return(c) == Go(c, Idle)

\* get_owned, and the condition of compare_and_swap on an application
Owned(a) == apps[a] # NoApp /\ ~apps[a].deleted
Current(a, revision) == Owned(a) /\ apps[a].revision = revision
Put(a, app) == apps' = [apps EXCEPT ![a] = app]

-----------------------------------------------------------------------------
Init ==
  /\ apps = [a \in Apps |-> NoApp]
  /\ versions = [v \in Versions |-> NotMade]
  /\ calibrations = [k \in Calibrations |-> NotCreated]
  /\ confirmed = {}
  /\ frame = [c \in Clients |-> Idle]

CreateApp(a) ==
  /\ apps[a] = NoApp
  /\ Put(a, NewApp)
  /\ UNCHANGED <<versions, calibrations, confirmed, frame>>

\* delete_owned: the record keeps its versions, and counts as changed.
DeleteApp(a) ==
  /\ Owned(a)
  /\ Put(a, [apps[a] EXCEPT !.deleted = TRUE, !.revision = @ + 1])
  /\ UNCHANGED <<versions, calibrations, confirmed, frame>>

CreateCalibration(k, scene, drawing) ==
  /\ calibrations[k] = NotCreated
  /\ calibrations' = [calibrations EXCEPT ![k] =
       [revision |-> 1, scene |-> scene, drawing |-> drawing, confirmed |-> FALSE]]
  /\ UNCHANGED <<apps, versions, confirmed, frame>>

-----------------------------------------------------------------------------
(* revise: a client names the revision and the draft it knows. *)

StartRevise(c, a, base, spec) ==
  /\ At(c, "idle") /\ Owned(a) /\ apps[a].revision < MaxRevision
  /\ Go(c, [at |-> "revise", app |-> a, expected |-> apps[a].revision, base |-> base, spec |-> spec])
  /\ UNCHANGED <<apps, versions, calibrations, confirmed>>

ReadForRevise(c) ==
  LET f == frame[c]
      fits == Current(f.app, f.expected) /\ apps[f.app].draft = f.base IN
  /\ At(c, "revise")
  /\ \/ fits /\ Go(c, [at |-> "own", app |-> f.app, copy |-> apps[f.app], spec |-> f.spec])
     \/ ~fits /\ Return(c)
  /\ UNCHANGED <<apps, versions, calibrations, confirmed>>

\* VersionService.create validates the specification, which may be invalid, and reads
\* the application again, only to see that it is there.
ReadOwner(c) ==
  /\ At(c, "own")
  /\ \/ Owned(frame[c].app) /\ Go(c, [frame[c] EXCEPT !.at = "add"])
     \/ Return(c)
  /\ UNCHANGED <<apps, versions, calibrations, confirmed>>

\* The version is there from now on, whatever becomes of the draft.
AddVersion(c, v) ==
  LET f == frame[c] IN
  /\ At(c, "add") /\ ~Made(v)
  /\ versions' = [versions EXCEPT ![v] = [app |-> f.app, parent |-> f.copy.draft, spec |-> f.spec]]
  /\ Go(c, [at |-> "draft", app |-> f.app, copy |-> f.copy, version |-> v])
  /\ UNCHANGED <<apps, calibrations, confirmed>>

\* Mutant: the draft is put in whatever happened since the application was read.
SwapDraftBlindly(c) ==
  LET f == frame[c] IN
  /\ At(c, "draft")
  /\ Put(f.app, [f.copy EXCEPT !.draft = f.version, !.revision = @ + 1])
  /\ Return(c)
  /\ UNCHANGED <<versions, calibrations, confirmed>>

SwapDraft(c) ==
  LET f == frame[c] IN
  /\ At(c, "draft")
  /\ \/ /\ Current(f.app, f.copy.revision)
        /\ Put(f.app, [f.copy EXCEPT !.draft = f.version, !.revision = @ + 1])
     \/ ~Current(f.app, f.copy.revision) /\ UNCHANGED apps
  /\ Return(c)
  /\ UNCHANGED <<versions, calibrations, confirmed>>

-----------------------------------------------------------------------------
(* publish: the route reads the calibration before the service is called. *)

StartPublish(c, a, v, k) ==
  /\ At(c, "idle") /\ Owned(a) /\ Made(v) /\ apps[a].revision < MaxRevision
  /\ \/ /\ k # NoCalibration
        /\ Go(c, [at |-> "with", app |-> a, expected |-> apps[a].revision, version |-> v,
                  calibration |-> k])
     \/ /\ k = NoCalibration
        /\ Go(c, [at |-> "publish", app |-> a, expected |-> apps[a].revision, version |-> v,
                  ready |-> FALSE])
  /\ UNCHANGED <<apps, versions, calibrations, confirmed>>

ReadCalibration(c) ==
  LET f == frame[c]
      k == calibrations[f.calibration] IN
  /\ At(c, "with")
  /\ \/ /\ k # NotCreated
        /\ Go(c, [at |-> "publish", app |-> f.app, expected |-> f.expected, version |-> f.version,
                  ready |-> k.confirmed])
     \/ k = NotCreated /\ Return(c)
  /\ UNCHANGED <<apps, versions, calibrations, confirmed>>

ReadForPublish(c) ==
  LET f == frame[c]
      fits == Current(f.app, f.expected) /\ apps[f.app].draft = f.version IN
  /\ At(c, "publish")
  /\ \/ fits /\ Go(c, [at |-> "check", app |-> f.app, copy |-> apps[f.app], ready |-> f.ready])
     \/ ~fits /\ Return(c)
  /\ UNCHANGED <<apps, versions, calibrations, confirmed>>

\* What the validator asks of the calibration with publication=True; it may find
\* something else that is missing.
Publishable(spec, ready) == spec = "spatial" => ready

ReadVersion(c) ==
  LET f == frame[c]
      ready == Publishable(versions[f.copy.draft].spec, f.ready) IN
  /\ At(c, "check")
  /\ \/ ready /\ Go(c, [at |-> "point", app |-> f.app, copy |-> f.copy])
     \/ Return(c)
  /\ UNCHANGED <<apps, versions, calibrations, confirmed>>

\* Mutant: what was read is written back without a look at the revision.
SwapPublishedBlindly(c) ==
  LET f == frame[c] IN
  /\ At(c, "point")
  /\ Put(f.app, [f.copy EXCEPT !.published = f.copy.draft, !.revision = @ + 1])
  /\ Return(c)
  /\ UNCHANGED <<versions, calibrations, confirmed>>

SwapPublished(c) ==
  LET f == frame[c] IN
  /\ At(c, "point")
  /\ \/ /\ Current(f.app, f.copy.revision)
        /\ Put(f.app, [f.copy EXCEPT !.published = f.copy.draft, !.revision = @ + 1])
     \/ ~Current(f.app, f.copy.revision) /\ UNCHANGED apps
  /\ Return(c)
  /\ UNCHANGED <<versions, calibrations, confirmed>>

-----------------------------------------------------------------------------
(* confirm, bind_source and revise_geometry: a client names a revision it knows. *)

StartUpdate(c, k, change) ==
  /\ At(c, "idle") /\ calibrations[k] # NotCreated /\ calibrations[k].revision < MaxRevision
  /\ change.kind # "bind"
  /\ Go(c, [at |-> "update", calibration |-> k, expected |-> calibrations[k].revision,
            change |-> change])
  /\ confirmed' = IF change.kind = "confirm"
                  THEN confirmed \cup {<<k, Content(calibrations[k])>>} ELSE confirmed
  /\ UNCHANGED <<apps, versions, calibrations>>

StartBind(c, k, scene) ==
  /\ At(c, "idle") /\ calibrations[k] # NotCreated /\ calibrations[k].revision < MaxRevision
  /\ Go(c, [at |-> "bind", calibration |-> k, expected |-> calibrations[k].revision,
            scene |-> scene])
  /\ UNCHANGED <<apps, versions, calibrations, confirmed>>

\* bind_source decides here whether the confirmation goes, without a look at the
\* revision.
ReadForBind(c) ==
  LET f == frame[c] IN
  /\ At(c, "bind")
  /\ Go(c, [at |-> "update", calibration |-> f.calibration, expected |-> f.expected,
            change |-> [kind |-> "bind", scene |-> f.scene,
                        unconfirm |-> calibrations[f.calibration].scene # f.scene]])
  /\ UNCHANGED <<apps, versions, calibrations, confirmed>>

\* Mutant: the change is made to whatever revision is there.
ReadForUpdateOfAny(c) ==
  LET f == frame[c] IN
  /\ At(c, "update")
  /\ Go(c, [at |-> "save", calibration |-> f.calibration,
            copy |-> calibrations[f.calibration], change |-> f.change])
  /\ UNCHANGED <<apps, versions, calibrations, confirmed>>

ReadForUpdate(c) ==
  LET f == frame[c]
      fits == calibrations[f.calibration].revision = f.expected IN
  /\ At(c, "update")
  /\ \/ fits /\ Go(c, [at |-> "save", calibration |-> f.calibration,
                       copy |-> calibrations[f.calibration], change |-> f.change])
     \/ ~fits /\ Return(c)
  /\ UNCHANGED <<apps, versions, calibrations, confirmed>>

SwapCalibration(c) ==
  LET f == frame[c]
      k == f.calibration
      current == calibrations[k].revision = f.copy.revision IN
  /\ At(c, "save")
  /\ \/ /\ current
        /\ calibrations' = [calibrations EXCEPT ![k] = Changed(f.copy, f.change)]
     \/ ~current /\ UNCHANGED calibrations
  /\ Return(c)
  /\ UNCHANGED <<apps, versions, confirmed>>

-----------------------------------------------------------------------------
\* A call is cancelled, or its process dies.
Crash(c) ==
  /\ ~At(c, "idle")
  /\ Return(c)
  /\ UNCHANGED <<apps, versions, calibrations, confirmed>>

Start(c) ==
  \/ \E a \in Apps :
       \/ \E base \in Versions \cup {NoVersion}, spec \in Specs : StartRevise(c, a, base, spec)
       \/ \E v \in Versions, k \in Calibrations \cup {NoCalibration} : StartPublish(c, a, v, k)
  \/ \E k \in Calibrations :
       \/ \E change \in Changes : StartUpdate(c, k, change)
       \/ \E scene \in Scenes : StartBind(c, k, scene)

Continue(c) ==
  \/ ReadForRevise(c) \/ ReadOwner(c) \/ SwapDraft(c)
  \/ \E v \in Versions : AddVersion(c, v)
  \/ ReadCalibration(c) \/ ReadForPublish(c) \/ ReadVersion(c) \/ SwapPublished(c)
  \/ ReadForBind(c) \/ ReadForUpdate(c) \/ SwapCalibration(c)

Next ==
  \/ \E a \in Apps : CreateApp(a) \/ DeleteApp(a)
  \/ \E k \in Calibrations, scene \in Scenes, drawing \in Drawings :
       CreateCalibration(k, scene, drawing)
  \/ \E c \in Clients : Start(c) \/ Continue(c) \/ Crash(c)

Spec == Init /\ [][Next]_vars

-----------------------------------------------------------------------------
TypeOK ==
  /\ apps \in [Apps -> App \cup {NoApp}]
  /\ versions \in [Versions -> Version \cup {NotMade}]
  /\ calibrations \in [Calibrations -> Calibration \cup {NotCreated}]
  /\ confirmed \subseteq Calibrations \X (Scenes \X Drawings)
  /\ frame \in [Clients -> Frame \cup {Idle}]

\* No edit is lost: a draft is replaced only by a version that was made from it, and
\* what is published stays (AppService.revise).
NoLostDraft ==
  [][\A a \in Apps :
       apps'[a].draft # apps[a].draft =>
         /\ versions[apps'[a].draft].parent = apps[a].draft
         /\ versions[apps'[a].draft].app = a
         /\ apps'[a].published = apps[a].published]_vars

\* What is published is the draft at that moment; if its rules are spatial, some user
\* confirmed a calibration before (AppService.publish).
PublishesTheDraft ==
  [][\A a \in Apps :
       apps'[a].published # apps[a].published =>
         /\ apps'[a].published = apps[a].draft
         /\ apps'[a].draft = apps[a].draft
         /\ versions[apps[a].draft].spec = "spatial" => confirmed # {}]_vars

\* A calibration counts as confirmed only with the scene and the drawing that some user
\* saw when they confirmed it, over bindings, redrawings and confirmations that overtake
\* each other (CalibrationService).
ConfirmedAsSeen ==
  \A k \in Calibrations :
    calibrations[k] # NotCreated /\ calibrations[k].confirmed =>
      <<k, Content(calibrations[k])>> \in confirmed

\* No call that is under way changes a deleted application (delete_owned).
DeletedAppsRest == [][\A a \in Apps : apps[a].deleted => apps'[a] = apps[a]]_vars
=============================================================================
