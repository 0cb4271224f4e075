------------------------- MODULE ApplicationProofs --------------------------
(***************************************************************************)
(* What the application services guarantee for any clients, applications, *)
(* versions and calibrations, over calls that overtake each other or stop. *)
(***************************************************************************)
EXTENDS Applications, TLAPS

(* The invariant speaks of the state it is given, so that facts about a step *)
(* can be stated of the state before it and of the one after it.            *)

\* A copy of an application is older than the application, or the application.
Fresh(ap, a, c) ==
  /\ ap[a] \in App /\ c \in App /\ ~c.deleted
  /\ c.revision <= ap[a].revision
  /\ c.revision = ap[a].revision => ap[a] = c

\* The same of a calibration.
FreshCalibration(ks, k, c) ==
  /\ ks[k] \in Calibration /\ c \in Calibration
  /\ c.revision <= ks[k].revision
  /\ c.revision = ks[k].revision => ks[k] = c

\* A binding that keeps the confirmation is to the scene that is bound.
KeepsScene(change, scene) ==
  change.kind = "bind" => (~change.unconfirm => change.scene = scene)

\* A change that may be made to calibration k: what it confirms, a user saw.
Allowed(conf, change, k, old) ==
  /\ KeepsScene(change, old.scene)
  /\ change.kind = "confirm" => <<k, Content(old)>> \in conf

FrameOK(ap, vs, ks, conf, f) ==
  /\ f.at \in {"own", "add", "draft", "check", "point"} => Fresh(ap, f.app, f.copy)
  /\ f.at = "draft" => /\ vs[f.version] \in Version
                       /\ vs[f.version].app = f.app
                       /\ vs[f.version].parent = f.copy.draft
  /\ f.at \in {"with", "publish"} => vs[f.version] \in Version
  /\ f.at \in {"check", "point"} =>
       f.copy.draft \in Versions /\ vs[f.copy.draft] \in Version
  /\ f.at \in {"publish", "check"} => (f.ready => conf # {})
  /\ f.at = "point" => (vs[f.copy.draft].spec = "spatial" => conf # {})
  /\ f.at \in {"bind", "update"} =>
       ks[f.calibration] \in Calibration /\ f.expected <= ks[f.calibration].revision
  /\ f.at = "update" =>
       (f.expected = ks[f.calibration].revision =>
          Allowed(conf, f.change, f.calibration, ks[f.calibration]))
  /\ f.at = "save" =>
       /\ FreshCalibration(ks, f.calibration, f.copy)
       /\ Allowed(conf, f.change, f.calibration, f.copy)

FramesOK == \A c \in Clients : FrameOK(apps, versions, calibrations, confirmed, frame[c])
IInv == TypeOK /\ FramesOK /\ ConfirmedAsSeen

\* All that a step does to what is stored: what changes gets a later revision, versions
\* stay, and confirmations are remembered.
AppsMove(ap, new) ==
  \A a \in Apps :
    new[a] # ap[a] => new[a] \in App /\ new[a].revision > ap[a].revision
VersionsMove(vs, new) == \A v \in Versions : vs[v] \in Version => new[v] = vs[v]
CalibrationsMove(ks, new) ==
  \A k \in Calibrations :
    new[k] # ks[k] => new[k] \in Calibration /\ new[k].revision > ks[k].revision

-----------------------------------------------------------------------------
(* What a suspended call remembers, by where it is. *)

LEMMA IdleIsOK ==
  ASSUME NEW ap, NEW vs, NEW ks, NEW conf
  PROVE  FrameOK(ap, vs, ks, conf, Idle)
BY DEF FrameOK, Idle

LEMMA RevisingTypes ==
  ASSUME NEW f \in Frame \cup {Idle}
  PROVE  /\ f.at = "revise" =>
              f.app \in Apps /\ f.expected \in Nat /\ f.spec \in Specs
         /\ f.at \in {"own", "add"} => f.app \in Apps /\ f.copy \in App /\ f.spec \in Specs
         /\ f.at = "draft" => f.app \in Apps /\ f.copy \in App /\ f.version \in Versions
BY DEF Frame, Revising, Publishing, Calibrating, Idle

LEMMA PublishingTypes ==
  ASSUME NEW f \in Frame \cup {Idle}
  PROVE  /\ f.at = "with" => /\ f.app \in Apps /\ f.expected \in Nat
                             /\ f.version \in Versions /\ f.calibration \in Calibrations
         /\ f.at = "publish" => /\ f.app \in Apps /\ f.expected \in Nat
                                /\ f.version \in Versions /\ f.ready \in BOOLEAN
         /\ f.at = "check" => f.app \in Apps /\ f.copy \in App /\ f.ready \in BOOLEAN
         /\ f.at = "point" => f.app \in Apps /\ f.copy \in App
BY DEF Frame, Revising, Publishing, Calibrating, Idle

LEMMA CalibratingTypes ==
  ASSUME NEW f \in Frame \cup {Idle}
  PROVE  /\ f.at = "bind" => /\ f.calibration \in Calibrations /\ f.expected \in Nat
                             /\ f.scene \in Scenes
         /\ f.at = "update" => /\ f.calibration \in Calibrations /\ f.expected \in Nat
                               /\ f.change \in Changes
         /\ f.at = "save" => /\ f.calibration \in Calibrations /\ f.copy \in Calibration
                             /\ f.change \in Changes
BY DEF Frame, Revising, Publishing, Calibrating, Idle

\* What others do leaves a suspended call in order.
LEMMA FrameStays ==
  ASSUME NEW ap, NEW ap2, AppsMove(ap, ap2),
         NEW vs, NEW vs2, VersionsMove(vs, vs2),
         NEW ks, NEW ks2, CalibrationsMove(ks, ks2),
         NEW conf, NEW conf2, conf \subseteq conf2,
         NEW f \in Frame \cup {Idle}, FrameOK(ap, vs, ks, conf, f)
  PROVE  FrameOK(ap2, vs2, ks2, conf2, f)
<1>1. ASSUME f.at \in {"own", "add", "draft", "check", "point"} PROVE Fresh(ap2, f.app, f.copy)
  <2>1. f.app \in Apps /\ Fresh(ap, f.app, f.copy)
    BY <1>1, RevisingTypes, PublishingTypes DEF FrameOK
  <2>2. QED
    BY <2>1 DEF Fresh, AppsMove, App
<1>2. ASSUME f.at = "save" PROVE FreshCalibration(ks2, f.calibration, f.copy)
  <2>1. f.calibration \in Calibrations /\ FreshCalibration(ks, f.calibration, f.copy)
    BY <1>2, CalibratingTypes DEF FrameOK
  <2>2. QED
    BY <2>1 DEF FreshCalibration, CalibrationsMove, Calibration
<1>3. ASSUME f.at \in {"bind", "update"}
      PROVE  /\ ks2[f.calibration] \in Calibration /\ f.expected <= ks2[f.calibration].revision
             /\ f.expected = ks2[f.calibration].revision =>
                  ks2[f.calibration] = ks[f.calibration]
  <2>1. /\ f.calibration \in Calibrations /\ f.expected \in Nat
        /\ ks[f.calibration] \in Calibration /\ f.expected <= ks[f.calibration].revision
    BY <1>3, CalibratingTypes DEF FrameOK
  <2>2. QED
    BY <2>1 DEF CalibrationsMove, Calibration
<1>4. ASSUME NEW v \in Versions, vs[v] \in Version PROVE vs2[v] = vs[v]
  BY <1>4 DEF VersionsMove
<1>5. f.at = "draft" \/ f.at \in {"with", "publish"} => f.version \in Versions
  BY RevisingTypes, PublishingTypes
<1>6. QED
  BY <1>1, <1>2, <1>3, <1>4, <1>5 DEF FrameOK, Allowed

\* A step of one client that keeps the state in order and leaves its own call so.
LEMMA ClientStep ==
  ASSUME IInv, TypeOK', NEW c \in Clients, NEW g, Go(c, g),
         AppsMove(apps, apps'), VersionsMove(versions, versions'),
         CalibrationsMove(calibrations, calibrations'), confirmed \subseteq confirmed',
         FrameOK(apps', versions', calibrations', confirmed', g)
  PROVE  FramesOK'
<1>1. ASSUME NEW d \in Clients
      PROVE  FrameOK(apps', versions', calibrations', confirmed', frame'[d])
  <2>1. CASE d = c
    BY <2>1 DEF Go, IInv, TypeOK
  <2>2. CASE d # c
    <3>1. frame'[d] = frame[d] /\ frame[d] \in Frame \cup {Idle}
      BY <2>2 DEF Go, IInv, TypeOK
    <3>2. FrameOK(apps, versions, calibrations, confirmed, frame[d])
      BY DEF IInv, FramesOK
    <3>3. QED
      BY <3>1, <3>2, FrameStays
  <2>3. QED
    BY <2>1, <2>2
<1>2. QED
  BY <1>1 DEF FramesOK

\* A step that only moves a call on.
LEMMA QuietStep ==
  ASSUME IInv, NEW c \in Clients, NEW g \in Frame \cup {Idle}, Go(c, g),
         UNCHANGED <<apps, versions, calibrations, confirmed>>,
         FrameOK(apps, versions, calibrations, confirmed, g)
  PROVE  IInv'
<1>1. TypeOK'
  BY DEF IInv, TypeOK, Go
<1>2. AppsMove(apps, apps') /\ VersionsMove(versions, versions')
      /\ CalibrationsMove(calibrations, calibrations') /\ confirmed \subseteq confirmed'
  BY DEF AppsMove, VersionsMove, CalibrationsMove
<1>3. FramesOK'
  BY <1>1, <1>2, ClientStep
<1>4. ConfirmedAsSeen'
  BY DEF IInv, ConfirmedAsSeen
<1>5. QED
  BY <1>1, <1>3, <1>4 DEF IInv

LEMMA ReturnStep ==
  ASSUME IInv, NEW c \in Clients, Return(c),
         UNCHANGED <<apps, versions, calibrations, confirmed>>
  PROVE  IInv'
BY QuietStep, IdleIsOK DEF Return

-----------------------------------------------------------------------------
(* What is stored. *)

LEMMA NewAppIsApp == NewApp \in App
BY DEF NewApp, NoApp, App

LEMMA NoAppIsNone == NoApp \notin App /\ NoApp.revision < 0
BY DEF NoApp, App

LEMMA NextDraft ==
  ASSUME NEW app \in App, NEW v \in Versions
  PROVE  LET new == [app EXCEPT !.draft = v, !.revision = @ + 1] IN
         /\ new \in App /\ new.revision = app.revision + 1 /\ new.draft = v
         /\ new.published = app.published /\ new.deleted = app.deleted
<1> DEFINE one == [app EXCEPT !.draft = v]
           two == [one EXCEPT !.revision = @ + 1]
<1>1. one \in App /\ one.draft = v /\ one.revision = app.revision
      /\ one.published = app.published /\ one.deleted = app.deleted
  BY DEF App
<1> HIDE DEF one
<1>2. two \in App /\ two.revision = one.revision + 1 /\ two.draft = one.draft
      /\ two.published = one.published /\ two.deleted = one.deleted
  BY <1>1 DEF App
<1>3. [app EXCEPT !.draft = v, !.revision = @ + 1] = two
  BY DEF one, two, App
<1> HIDE DEF two
<1>4. QED
  BY <1>1, <1>2, <1>3

LEMMA NextPublished ==
  ASSUME NEW app \in App, app.draft \in Versions
  PROVE  LET new == [app EXCEPT !.published = app.draft, !.revision = @ + 1] IN
         /\ new \in App /\ new.revision = app.revision + 1 /\ new.published = app.draft
         /\ new.draft = app.draft /\ new.deleted = app.deleted
<1> DEFINE one == [app EXCEPT !.published = app.draft]
           two == [one EXCEPT !.revision = @ + 1]
<1>1. one \in App /\ one.draft = app.draft /\ one.revision = app.revision
      /\ one.published = app.draft /\ one.deleted = app.deleted
  BY DEF App
<1> HIDE DEF one
<1>2. two \in App /\ two.revision = one.revision + 1 /\ two.draft = one.draft
      /\ two.published = one.published /\ two.deleted = one.deleted
  BY <1>1 DEF App
<1>3. [app EXCEPT !.published = app.draft, !.revision = @ + 1] = two
  BY DEF one, two, App
<1> HIDE DEF two
<1>4. QED
  BY <1>1, <1>2, <1>3

LEMMA NextDeleted ==
  ASSUME NEW app \in App
  PROVE  LET new == [app EXCEPT !.deleted = TRUE, !.revision = @ + 1] IN
         /\ new \in App /\ new.revision = app.revision + 1
         /\ new.published = app.published /\ new.draft = app.draft
<1> DEFINE one == [app EXCEPT !.deleted = TRUE]
           two == [one EXCEPT !.revision = @ + 1]
<1>1. one \in App /\ one.draft = app.draft /\ one.revision = app.revision
      /\ one.published = app.published
  BY DEF App
<1> HIDE DEF one
<1>2. two \in App /\ two.revision = one.revision + 1 /\ two.draft = one.draft
      /\ two.published = one.published
  BY <1>1 DEF App
<1>3. [app EXCEPT !.deleted = TRUE, !.revision = @ + 1] = two
  BY DEF one, two, App
<1> HIDE DEF two
<1>4. QED
  BY <1>1, <1>2, <1>3

\* A calibration that stays confirmed after a change has the content it had, and a
\* binding that keeps the confirmation keeps the content.
LEMMA NextCalibration ==
  ASSUME NEW k \in Calibration, NEW change \in Changes, KeepsScene(change, k.scene)
  PROVE  /\ Changed(k, change) \in Calibration
         /\ Changed(k, change).revision = k.revision + 1
         /\ Changed(k, change).confirmed =>
              /\ change.kind = "confirm" \/ k.confirmed
              /\ Content(Changed(k, change)) = Content(k)
<1> DEFINE one == [k EXCEPT !.revision = @ + 1]
<1>1. one \in Calibration /\ one.revision = k.revision + 1 /\ one.scene = k.scene
      /\ one.drawing = k.drawing /\ one.confirmed = k.confirmed
  BY DEF Calibration
<1>2. CASE change.kind = "confirm"
  <2> DEFINE two == [one EXCEPT !.confirmed = TRUE]
  <2>1. Changed(k, change) = two
    BY <1>2 DEF Changed, Calibration
  <2> HIDE DEF one
  <2>2. two \in Calibration /\ two.revision = one.revision /\ two.scene = one.scene
        /\ two.drawing = one.drawing
    BY <1>1 DEF Calibration
  <2> HIDE DEF two
  <2>3. QED
    BY <1>1, <1>2, <2>1, <2>2 DEF Content
<1>3. CASE change.kind = "bind"
  <2> DEFINE two == [one EXCEPT !.scene = change.scene]
             three == [two EXCEPT !.confirmed = @ /\ ~change.unconfirm]
  <2>0. change.scene \in Scenes /\ change.unconfirm \in BOOLEAN
    BY <1>3 DEF Changes
  <2>1. Changed(k, change) = three
    BY <1>3 DEF Changed, Calibration
  <2> HIDE DEF one
  <2>2. two \in Calibration /\ two.revision = one.revision /\ two.scene = change.scene
        /\ two.drawing = one.drawing /\ two.confirmed = one.confirmed
    BY <1>1, <2>0 DEF Calibration
  <2> HIDE DEF two
  <2>3. three \in Calibration /\ three.revision = two.revision /\ three.scene = two.scene
        /\ three.drawing = two.drawing
        /\ three.confirmed = (two.confirmed /\ ~change.unconfirm)
    BY <2>0, <2>2 DEF Calibration
  <2> HIDE DEF three
  <2>4. QED
    BY <1>1, <1>3, <2>1, <2>2, <2>3 DEF Content, KeepsScene
<1>4. CASE change.kind = "redraw"
  <2> DEFINE two == [one EXCEPT !.drawing = change.drawing]
             three == [two EXCEPT !.confirmed = FALSE]
  <2>0. change.drawing \in Drawings
    BY <1>4 DEF Changes
  <2>1. Changed(k, change) = three
    BY <1>4 DEF Changed, Calibration
  <2> HIDE DEF one
  <2>2. two \in Calibration /\ two.revision = one.revision
    BY <1>1, <2>0 DEF Calibration
  <2> HIDE DEF two
  <2>3. three \in Calibration /\ three.revision = two.revision /\ ~three.confirmed
    BY <2>2 DEF Calibration
  <2> HIDE DEF three
  <2>4. QED
    BY <1>1, <2>1, <2>2, <2>3
<1>5. QED
  BY <1>2, <1>3, <1>4 DEF Changes

-----------------------------------------------------------------------------
(* What the swaps do: a copy that may be put in is what is stored. *)

Stays == AppsMove(apps, apps') /\ VersionsMove(versions, versions')
           /\ CalibrationsMove(calibrations, calibrations') /\ confirmed \subseteq confirmed'

\* What the swap of a draft, and of the published version, does to the applications.
PutsDraft(c) ==
  LET f == frame[c] IN
  /\ f.app \in Apps /\ Owned(f.app) /\ apps[f.app] \in App
  /\ versions[f.version].app = f.app /\ versions[f.version].parent = apps[f.app].draft
  /\ Put(f.app, [apps[f.app] EXCEPT !.draft = f.version, !.revision = @ + 1])

PutsPublished(c) ==
  LET f == frame[c]
      app == apps[f.app] IN
  /\ f.app \in Apps /\ Owned(f.app) /\ app \in App /\ app.draft \in Versions
  /\ versions[app.draft].spec = "spatial" => confirmed # {}
  /\ Put(f.app, [app EXCEPT !.published = app.draft, !.revision = @ + 1])

LEMMA DraftSwap ==
  ASSUME IInv, NEW c \in Clients, SwapDraft(c)
  PROVE  UNCHANGED apps \/ PutsDraft(c)
<1>1. frame[c] \in Frame \cup {Idle} /\ FrameOK(apps, versions, calibrations, confirmed, frame[c])
  BY DEF IInv, TypeOK, FramesOK
<1>2. /\ frame[c].app \in Apps /\ frame[c].copy \in App
      /\ Fresh(apps, frame[c].app, frame[c].copy)
      /\ versions[frame[c].version].app = frame[c].app
      /\ versions[frame[c].version].parent = frame[c].copy.draft
  BY <1>1, RevisingTypes DEF SwapDraft, At, FrameOK
<1>3. CASE Current(frame[c].app, frame[c].copy.revision)
  <2>1. apps[frame[c].app] = frame[c].copy /\ Owned(frame[c].app)
    BY <1>2, <1>3 DEF Fresh, Current
  <2>2. QED
    BY <1>2, <1>3, <2>1 DEF SwapDraft, PutsDraft
<1>4. QED
  BY <1>3 DEF SwapDraft

LEMMA PublishedSwap ==
  ASSUME IInv, NEW c \in Clients, SwapPublished(c)
  PROVE  UNCHANGED apps \/ PutsPublished(c)
<1>1. frame[c] \in Frame \cup {Idle} /\ FrameOK(apps, versions, calibrations, confirmed, frame[c])
  BY DEF IInv, TypeOK, FramesOK
<1>2. /\ frame[c].app \in Apps /\ frame[c].copy \in App
      /\ Fresh(apps, frame[c].app, frame[c].copy) /\ frame[c].copy.draft \in Versions
      /\ versions[frame[c].copy.draft].spec = "spatial" => confirmed # {}
  BY <1>1, PublishingTypes DEF SwapPublished, At, FrameOK
<1>3. CASE Current(frame[c].app, frame[c].copy.revision)
  <2>1. apps[frame[c].app] = frame[c].copy /\ Owned(frame[c].app)
    BY <1>2, <1>3 DEF Fresh, Current
  <2>2. QED
    BY <1>2, <1>3, <2>1 DEF SwapPublished, PutsPublished
<1>4. QED
  BY <1>3 DEF SwapPublished

\* An application is replaced by a later one.
LEMMA PutMoves ==
  ASSUME IInv, NEW a \in Apps, NEW app \in App, Put(a, app), app.revision > apps[a].revision
  PROVE  apps' \in [Apps -> App \cup {NoApp}] /\ AppsMove(apps, apps')
BY DEF IInv, TypeOK, Put, AppsMove

LEMMA DraftMoves ==
  ASSUME IInv, NEW c \in Clients, frame[c].version \in Versions, PutsDraft(c)
  PROVE  apps' \in [Apps -> App \cup {NoApp}] /\ AppsMove(apps, apps')
<1> DEFINE app == [apps[frame[c].app] EXCEPT !.draft = frame[c].version, !.revision = @ + 1]
<1>1. app \in App /\ app.revision = apps[frame[c].app].revision + 1
  BY NextDraft DEF PutsDraft
<1>2. apps[frame[c].app].revision \in Nat
  BY DEF PutsDraft, App
<1>3. Put(frame[c].app, app) /\ frame[c].app \in Apps
  BY DEF PutsDraft
<1> HIDE DEF app
<1>4. QED
  BY <1>1, <1>2, <1>3, PutMoves

LEMMA PublishedMoves ==
  ASSUME IInv, NEW c \in Clients, PutsPublished(c)
  PROVE  apps' \in [Apps -> App \cup {NoApp}] /\ AppsMove(apps, apps')
<1> DEFINE old == apps[frame[c].app]
           app == [old EXCEPT !.published = old.draft, !.revision = @ + 1]
<1>1. app \in App /\ app.revision = old.revision + 1
  BY NextPublished DEF PutsPublished
<1>2. old.revision \in Nat
  BY DEF PutsPublished, App
<1>3. Put(frame[c].app, app) /\ frame[c].app \in Apps
  BY DEF PutsPublished
<1> HIDE DEF app
<1>4. QED
  BY <1>1, <1>2, <1>3, PutMoves

-----------------------------------------------------------------------------
(* The invariant is inductive. *)

\* A swap of an application keeps the invariant.
LEMMA AppsStep ==
  ASSUME IInv, NEW c \in Clients, Return(c),
         apps' \in [Apps -> App \cup {NoApp}], AppsMove(apps, apps'),
         UNCHANGED <<versions, calibrations, confirmed>>
  PROVE  IInv'
<1>1. TypeOK'
  BY DEF IInv, TypeOK, Return, Go
<1>2. VersionsMove(versions, versions') /\ CalibrationsMove(calibrations, calibrations')
      /\ confirmed \subseteq confirmed'
  BY DEF VersionsMove, CalibrationsMove
<1>3. FramesOK'
  BY <1>1, <1>2, ClientStep, IdleIsOK DEF Return
<1>4. ConfirmedAsSeen'
  BY DEF IInv, ConfirmedAsSeen
<1>5. QED
  BY <1>1, <1>3, <1>4 DEF IInv

\* A step outside of every call keeps the invariant if the calibrations stay in order.
LEMMA OutsideStep ==
  ASSUME IInv, TypeOK', ConfirmedAsSeen', UNCHANGED <<versions, confirmed, frame>>,
         AppsMove(apps, apps'), CalibrationsMove(calibrations, calibrations')
  PROVE  IInv'
<1>1. VersionsMove(versions, versions') /\ confirmed \subseteq confirmed'
  BY DEF VersionsMove
<1>2. ASSUME NEW c \in Clients
      PROVE  FrameOK(apps', versions', calibrations', confirmed', frame'[c])
  <2>1. frame[c] \in Frame \cup {Idle}
        /\ FrameOK(apps, versions, calibrations, confirmed, frame[c]) /\ frame'[c] = frame[c]
    BY DEF IInv, TypeOK, FramesOK
  <2>2. QED
    BY <1>1, <2>1, FrameStays
<1>3. QED
  BY <1>2 DEF IInv, FramesOK

LEMMA InitIInv == Init => IInv
<1> SUFFICES ASSUME Init PROVE IInv
  OBVIOUS
<1>1. TypeOK
  BY DEF Init, TypeOK
<1>2. FramesOK
  BY IdleIsOK DEF Init, FramesOK
<1>3. ConfirmedAsSeen
  BY DEF Init, ConfirmedAsSeen
<1>4. QED
  BY <1>1, <1>2, <1>3 DEF IInv

LEMMA AppStep ==
  ASSUME IInv, NEW a \in Apps, CreateApp(a) \/ DeleteApp(a)
  PROVE  IInv'
<1>1. apps' \in [Apps -> App \cup {NoApp}] /\ AppsMove(apps, apps')
  <2>1. CASE CreateApp(a)
    <3>1. NewApp \in App /\ NewApp.revision > apps[a].revision
      BY <2>1, NewAppIsApp DEF CreateApp, NewApp, NoApp
    <3>2. QED
      BY <2>1, <3>1, PutMoves DEF CreateApp
  <2>2. CASE DeleteApp(a)
    <3> DEFINE app == [apps[a] EXCEPT !.deleted = TRUE, !.revision = @ + 1]
    <3>1. apps[a] \in App
      BY <2>2 DEF DeleteApp, Owned, IInv, TypeOK
    <3>2. app \in App /\ app.revision = apps[a].revision + 1 /\ apps[a].revision \in Nat
      BY <3>1, NextDeleted DEF App
    <3>3. Put(a, app)
      BY <2>2 DEF DeleteApp
    <3> HIDE DEF app
    <3>4. QED
      BY <3>2, <3>3, PutMoves
  <2>3. QED
    BY <2>1, <2>2
<1>2. UNCHANGED <<versions, calibrations, confirmed, frame>>
  BY DEF CreateApp, DeleteApp
<1>3. TypeOK' /\ ConfirmedAsSeen'
  BY <1>1, <1>2 DEF IInv, TypeOK, ConfirmedAsSeen
<1>4. CalibrationsMove(calibrations, calibrations')
  BY <1>2 DEF CalibrationsMove
<1>5. QED
  BY <1>1, <1>2, <1>3, <1>4, OutsideStep

LEMMA CreateCalibrationStep ==
  ASSUME IInv, NEW k \in Calibrations, NEW scene \in Scenes, NEW drawing \in Drawings,
         CreateCalibration(k, scene, drawing)
  PROVE  IInv'
<1> DEFINE new == [revision |-> 1, scene |-> scene, drawing |-> drawing, confirmed |-> FALSE]
<1>1. new \in Calibration /\ ~new.confirmed /\ new.revision > calibrations[k].revision
  BY DEF Calibration, CreateCalibration, NotCreated
<1>2. calibrations' = [calibrations EXCEPT ![k] = new]
      /\ UNCHANGED <<apps, versions, confirmed, frame>>
  BY DEF CreateCalibration
<1> HIDE DEF new
<1>3. TypeOK'
  BY <1>1, <1>2 DEF IInv, TypeOK
<1>4. ConfirmedAsSeen'
  BY <1>1, <1>2 DEF IInv, TypeOK, ConfirmedAsSeen
<1>5. AppsMove(apps, apps') /\ CalibrationsMove(calibrations, calibrations')
  BY <1>1, <1>2 DEF IInv, TypeOK, AppsMove, CalibrationsMove
<1>6. QED
  BY <1>2, <1>3, <1>4, <1>5, OutsideStep

LEMMA StartStep ==
  ASSUME IInv, NEW c \in Clients, Start(c)
  PROVE  IInv'
<1>1. ASSUME NEW a \in Apps, NEW base \in Versions \cup {NoVersion}, NEW spec \in Specs,
             StartRevise(c, a, base, spec)
      PROVE  IInv'
  <2> DEFINE g == [at |-> "revise", app |-> a, expected |-> apps[a].revision, base |-> base,
                   spec |-> spec]
  <2>1. apps[a].revision \in Nat
    BY <1>1 DEF StartRevise, Owned, IInv, TypeOK, App
  <2>2. g \in Frame
    BY <2>1 DEF Frame, Revising
  <2>3. FrameOK(apps, versions, calibrations, confirmed, g)
    BY DEF FrameOK
  <2>4. Go(c, g) /\ UNCHANGED <<apps, versions, calibrations, confirmed>>
    BY <1>1 DEF StartRevise
  <2> HIDE DEF g
  <2>5. QED
    BY <2>2, <2>3, <2>4, QuietStep
<1>2. ASSUME NEW a \in Apps, NEW v \in Versions, NEW k \in Calibrations \cup {NoCalibration},
             StartPublish(c, a, v, k)
      PROVE  IInv'
  <2> DEFINE g == [at |-> "with", app |-> a, expected |-> apps[a].revision, version |-> v,
                   calibration |-> k]
             h == [at |-> "publish", app |-> a, expected |-> apps[a].revision, version |-> v,
                   ready |-> FALSE]
  <2>1. apps[a].revision \in Nat /\ versions[v] \in Version
    BY <1>2 DEF StartPublish, Owned, Made, IInv, TypeOK, App
  <2>2. (k # NoCalibration => g \in Frame) /\ h \in Frame
    BY <2>1 DEF Frame, Publishing
  <2>3. FrameOK(apps, versions, calibrations, confirmed, g)
        /\ FrameOK(apps, versions, calibrations, confirmed, h)
    BY <2>1 DEF FrameOK
  <2>4. ((k # NoCalibration /\ Go(c, g)) \/ Go(c, h))
        /\ UNCHANGED <<apps, versions, calibrations, confirmed>>
    BY <1>2 DEF StartPublish
  <2> HIDE DEF g, h
  <2>5. QED
    BY <2>2, <2>3, <2>4, QuietStep
<1>3. ASSUME NEW k \in Calibrations, NEW change \in Changes, StartUpdate(c, k, change)
      PROVE  IInv'
  <2> DEFINE g == [at |-> "update", calibration |-> k, expected |-> calibrations[k].revision,
                   change |-> change]
             seen == IF change.kind = "confirm"
                     THEN confirmed \cup {<<k, Content(calibrations[k])>>} ELSE confirmed
  <2>1. calibrations[k] \in Calibration /\ calibrations[k].revision \in Nat
    BY <1>3 DEF StartUpdate, IInv, TypeOK, Calibration
  <2>2. g \in Frame
    BY <2>1 DEF Frame, Calibrating
  <2>3. Go(c, g) /\ confirmed' = seen /\ UNCHANGED <<apps, versions, calibrations>>
    BY <1>3 DEF StartUpdate
  <2>4. confirmed \subseteq seen /\ seen \subseteq Calibrations \X (Scenes \X Drawings)
    BY <2>1 DEF IInv, TypeOK, Content, Calibration
  <2>5. Allowed(seen, change, k, calibrations[k])
    BY <1>3 DEF Allowed, KeepsScene, StartUpdate
  <2> HIDE DEF seen
  <2>6. FrameOK(apps', versions', calibrations', confirmed', g)
    BY <2>1, <2>3, <2>5 DEF FrameOK
  <2> HIDE DEF g
  <2>7. TypeOK'
    BY <2>2, <2>3, <2>4 DEF IInv, TypeOK, Go
  <2>8. AppsMove(apps, apps') /\ VersionsMove(versions, versions')
        /\ CalibrationsMove(calibrations, calibrations')
    BY <2>3 DEF AppsMove, VersionsMove, CalibrationsMove
  <2>9. FramesOK'
    BY <2>3, <2>4, <2>6, <2>7, <2>8, ClientStep
  <2>10. QED
    BY <2>3, <2>4, <2>7, <2>9 DEF IInv, ConfirmedAsSeen
<1>4. ASSUME NEW k \in Calibrations, NEW scene \in Scenes, StartBind(c, k, scene)
      PROVE  IInv'
  <2> DEFINE g == [at |-> "bind", calibration |-> k, expected |-> calibrations[k].revision,
                   scene |-> scene]
  <2>1. calibrations[k] \in Calibration /\ calibrations[k].revision \in Nat
    BY <1>4 DEF StartBind, IInv, TypeOK, Calibration
  <2>2. g \in Frame
    BY <2>1 DEF Frame, Calibrating
  <2>3. FrameOK(apps, versions, calibrations, confirmed, g)
    BY <2>1 DEF FrameOK
  <2>4. Go(c, g) /\ UNCHANGED <<apps, versions, calibrations, confirmed>>
    BY <1>4 DEF StartBind
  <2> HIDE DEF g
  <2>5. QED
    BY <2>2, <2>3, <2>4, QuietStep
<1>5. QED
  BY <1>1, <1>2, <1>3, <1>4 DEF Start

LEMMA ReviseStep ==
  ASSUME IInv, NEW c \in Clients,
         ReadForRevise(c) \/ ReadOwner(c) \/ SwapDraft(c) \/ \E v \in Versions : AddVersion(c, v)
  PROVE  IInv'
<1> DEFINE f == frame[c]
<1>1. f \in Frame \cup {Idle} /\ FrameOK(apps, versions, calibrations, confirmed, f)
  BY DEF IInv, TypeOK, FramesOK
<1>2. CASE ReadForRevise(c)
  <2> DEFINE g == [at |-> "own", app |-> f.app, copy |-> apps[f.app], spec |-> f.spec]
  <2>1. CASE Current(f.app, f.expected) /\ Go(c, g)
    <3>1. f.app \in Apps /\ f.spec \in Specs /\ apps[f.app] \in App /\ ~apps[f.app].deleted
      BY <1>1, <1>2, <2>1, RevisingTypes DEF ReadForRevise, At, Current, Owned, IInv, TypeOK
    <3>2. g \in Frame
      BY <3>1 DEF Frame, Revising
    <3>3. FrameOK(apps, versions, calibrations, confirmed, g)
      BY <3>1 DEF FrameOK, Fresh, App
    <3>4. QED
      BY <1>2, <2>1, <3>2, <3>3, QuietStep DEF ReadForRevise
  <2>2. QED
    BY <1>2, <2>1, ReturnStep DEF ReadForRevise
<1>3. CASE ReadOwner(c)
  <2> DEFINE g == [f EXCEPT !.at = "add"]
             h == [at |-> "add", app |-> f.app, copy |-> f.copy, spec |-> f.spec]
  <2>1. CASE Go(c, g)
    <3>1. /\ f.app \in Apps /\ f.spec \in Specs /\ f.copy \in App /\ Fresh(apps, f.app, f.copy)
          /\ f \in [at : {"own", "add"}, app : Apps, copy : App, spec : Specs]
      BY <1>1, <1>3, RevisingTypes
         DEF ReadOwner, At, FrameOK, Frame, Revising, Publishing, Calibrating, Idle
    <3>2. g = h
      BY <3>1
    <3>3. h \in Frame
      BY <3>1 DEF Frame, Revising
    <3>4. FrameOK(apps, versions, calibrations, confirmed, h)
      BY <3>1 DEF FrameOK
    <3>5. QED
      BY <1>3, <2>1, <3>2, <3>3, <3>4, QuietStep DEF ReadOwner
  <2>2. QED
    BY <1>3, <2>1, ReturnStep DEF ReadOwner
<1>4. ASSUME NEW v \in Versions, AddVersion(c, v) PROVE IInv'
  <2> DEFINE new == [app |-> f.app, parent |-> f.copy.draft, spec |-> f.spec]
             g == [at |-> "draft", app |-> f.app, copy |-> f.copy, version |-> v]
  <2>1. /\ f.app \in Apps /\ f.spec \in Specs /\ f.copy \in App /\ Fresh(apps, f.app, f.copy)
    BY <1>1, <1>4, RevisingTypes DEF AddVersion, At, FrameOK
  <2>2. new \in Version /\ g \in Frame
    BY <2>1 DEF Version, App, Frame, Revising
  <2>3. versions' = [versions EXCEPT ![v] = new] /\ Go(c, g)
        /\ UNCHANGED <<apps, calibrations, confirmed>>
    BY <1>4 DEF AddVersion
  <2>4. TypeOK'
    <3> HIDE DEF new, g
    <3>1. QED
      BY <2>2, <2>3 DEF IInv, TypeOK, Go
  <2>5. VersionsMove(versions, versions')
    <3>1. versions[v] \notin Version
      BY <1>4 DEF AddVersion, Made, NotMade, Version, Specs
    <3>2. QED
      BY <2>3, <3>1 DEF VersionsMove, IInv, TypeOK
  <2>6. AppsMove(apps, apps') /\ CalibrationsMove(calibrations, calibrations')
        /\ confirmed \subseteq confirmed'
    BY <2>3 DEF AppsMove, CalibrationsMove
  <2>7. FrameOK(apps', versions', calibrations', confirmed', g)
    <3>1. versions'[v] = new
      BY <2>3 DEF IInv, TypeOK
    <3>2. QED
      BY <2>1, <2>2, <2>3, <3>1 DEF FrameOK
  <2> HIDE DEF g
  <2>8. FramesOK'
    BY <2>3, <2>4, <2>5, <2>6, <2>7, ClientStep
  <2>9. QED
    BY <2>3, <2>4, <2>8 DEF IInv, ConfirmedAsSeen
<1>5. CASE SwapDraft(c)
  <2>1. f.version \in Versions
    BY <1>1, <1>5, RevisingTypes DEF SwapDraft, At
  <2>2. apps' \in [Apps -> App \cup {NoApp}] /\ AppsMove(apps, apps')
    <3>1. CASE UNCHANGED apps
      BY <3>1 DEF IInv, TypeOK, AppsMove
    <3>2. QED
      BY <1>5, <2>1, <3>1, DraftSwap, DraftMoves
  <2>3. QED
    BY <1>5, <2>2, AppsStep DEF SwapDraft
<1>6. QED
  BY <1>2, <1>3, <1>4, <1>5

LEMMA PublishStep ==
  ASSUME IInv, NEW c \in Clients,
         ReadCalibration(c) \/ ReadForPublish(c) \/ ReadVersion(c) \/ SwapPublished(c)
  PROVE  IInv'
<1> DEFINE f == frame[c]
<1>1. f \in Frame \cup {Idle} /\ FrameOK(apps, versions, calibrations, confirmed, f)
  BY DEF IInv, TypeOK, FramesOK
<1>2. CASE ReadCalibration(c)
  <2> DEFINE k == calibrations[f.calibration]
             g == [at |-> "publish", app |-> f.app, expected |-> f.expected,
                   version |-> f.version, ready |-> k.confirmed]
  <2>1. CASE k # NotCreated /\ Go(c, g)
    <3>1. /\ f.app \in Apps /\ f.expected \in Nat /\ f.version \in Versions
          /\ f.calibration \in Calibrations /\ versions[f.version] \in Version
      BY <1>1, <1>2, PublishingTypes DEF ReadCalibration, At, FrameOK
    <3>2. k.confirmed \in BOOLEAN /\ (k.confirmed => confirmed # {})
      BY <2>1, <3>1 DEF IInv, TypeOK, ConfirmedAsSeen, Calibration
    <3>3. g \in Frame
      BY <3>1, <3>2 DEF Frame, Publishing
    <3>4. FrameOK(apps, versions, calibrations, confirmed, g)
      BY <3>1, <3>2 DEF FrameOK
    <3>5. QED
      BY <1>2, <2>1, <3>3, <3>4, QuietStep DEF ReadCalibration
  <2>2. QED
    BY <1>2, <2>1, ReturnStep DEF ReadCalibration
<1>3. CASE ReadForPublish(c)
  <2> DEFINE g == [at |-> "check", app |-> f.app, copy |-> apps[f.app], ready |-> f.ready]
  <2>1. CASE Current(f.app, f.expected) /\ apps[f.app].draft = f.version /\ Go(c, g)
    <3>1. /\ f.app \in Apps /\ f.version \in Versions /\ f.ready \in BOOLEAN
          /\ versions[f.version] \in Version /\ (f.ready => confirmed # {})
      BY <1>1, <1>3, PublishingTypes DEF ReadForPublish, At, FrameOK
    <3>2. apps[f.app] \in App /\ ~apps[f.app].deleted
      BY <2>1, <3>1 DEF Current, Owned, IInv, TypeOK
    <3>3. g \in Frame
      BY <3>1, <3>2 DEF Frame, Publishing
    <3>4. FrameOK(apps, versions, calibrations, confirmed, g)
      BY <2>1, <3>1, <3>2 DEF FrameOK, Fresh, App
    <3>5. QED
      BY <1>3, <2>1, <3>3, <3>4, QuietStep DEF ReadForPublish
  <2>2. QED
    BY <1>3, <2>1, ReturnStep DEF ReadForPublish
<1>4. CASE ReadVersion(c)
  <2> DEFINE g == [at |-> "point", app |-> f.app, copy |-> f.copy]
  <2>1. CASE Publishable(versions[f.copy.draft].spec, f.ready) /\ Go(c, g)
    <3>1. /\ f.app \in Apps /\ f.copy \in App /\ Fresh(apps, f.app, f.copy)
          /\ f.copy.draft \in Versions /\ versions[f.copy.draft] \in Version
          /\ f.ready => confirmed # {}
      BY <1>1, <1>4, PublishingTypes DEF ReadVersion, At, FrameOK
    <3>2. g \in Frame
      BY <3>1 DEF Frame, Publishing
    <3>3. FrameOK(apps, versions, calibrations, confirmed, g)
      BY <2>1, <3>1 DEF FrameOK, Publishable
    <3>4. QED
      BY <1>4, <2>1, <3>2, <3>3, QuietStep DEF ReadVersion
  <2>2. QED
    BY <1>4, <2>1, ReturnStep DEF ReadVersion
<1>5. CASE SwapPublished(c)
  <2>1. apps' \in [Apps -> App \cup {NoApp}] /\ AppsMove(apps, apps')
    <3>1. CASE UNCHANGED apps
      BY <3>1 DEF IInv, TypeOK, AppsMove
    <3>2. QED
      BY <1>5, <3>1, PublishedSwap, PublishedMoves
  <2>2. QED
    BY <1>5, <2>1, AppsStep DEF SwapPublished
<1>6. QED
  BY <1>2, <1>3, <1>4, <1>5

LEMMA CalibrateStep ==
  ASSUME IInv, NEW c \in Clients, ReadForBind(c) \/ ReadForUpdate(c) \/ SwapCalibration(c)
  PROVE  IInv'
<1> DEFINE f == frame[c]
           k == f.calibration
<1>1. f \in Frame \cup {Idle} /\ FrameOK(apps, versions, calibrations, confirmed, f)
  BY DEF IInv, TypeOK, FramesOK
<1>2. CASE ReadForBind(c)
  <2> DEFINE change == [kind |-> "bind", scene |-> f.scene,
                        unconfirm |-> calibrations[k].scene # f.scene]
             g == [at |-> "update", calibration |-> k, expected |-> f.expected,
                   change |-> change]
  <2>1. /\ k \in Calibrations /\ f.expected \in Nat /\ f.scene \in Scenes
        /\ calibrations[k] \in Calibration /\ f.expected <= calibrations[k].revision
    BY <1>1, <1>2, CalibratingTypes DEF ReadForBind, At, FrameOK
  <2>2. /\ change \in Changes /\ KeepsScene(change, calibrations[k].scene)
        /\ change.kind = "bind"
    BY <2>1 DEF Changes, KeepsScene
  <2>3. Go(c, g) /\ UNCHANGED <<apps, versions, calibrations, confirmed>>
    BY <1>2 DEF ReadForBind
  <2> HIDE DEF change
  <2>4. g \in Frame
    BY <2>1, <2>2 DEF Frame, Calibrating
  <2>5. FrameOK(apps, versions, calibrations, confirmed, g)
    BY <2>1, <2>2 DEF FrameOK, Allowed
  <2> HIDE DEF g
  <2>6. QED
    BY <2>3, <2>4, <2>5, QuietStep
<1>3. CASE ReadForUpdate(c)
  <2> DEFINE g == [at |-> "save", calibration |-> k, copy |-> calibrations[k],
                   change |-> f.change]
  <2>1. CASE calibrations[k].revision = f.expected /\ Go(c, g)
    <3>1. /\ k \in Calibrations /\ f.change \in Changes /\ calibrations[k] \in Calibration
          /\ Allowed(confirmed, f.change, k, calibrations[k])
      BY <1>1, <1>3, <2>1, CalibratingTypes DEF ReadForUpdate, At, FrameOK
    <3>2. g \in Frame
      BY <3>1 DEF Frame, Calibrating
    <3>3. FrameOK(apps, versions, calibrations, confirmed, g)
      BY <3>1 DEF FrameOK, FreshCalibration, Calibration
    <3>4. QED
      BY <1>3, <2>1, <3>2, <3>3, QuietStep DEF ReadForUpdate
  <2>2. QED
    BY <1>3, <2>1, ReturnStep DEF ReadForUpdate
<1>4. CASE SwapCalibration(c)
  <2>1. /\ k \in Calibrations /\ f.copy \in Calibration /\ f.change \in Changes
        /\ FreshCalibration(calibrations, k, f.copy)
        /\ Allowed(confirmed, f.change, k, f.copy)
    BY <1>1, <1>4, CalibratingTypes DEF SwapCalibration, At, FrameOK
  <2>2. CASE calibrations[k].revision # f.copy.revision
    BY <1>4, <2>2, ReturnStep DEF SwapCalibration
  <2>3. CASE calibrations[k].revision = f.copy.revision
    <3> DEFINE new == Changed(f.copy, f.change)
    <3>1. calibrations[k] = f.copy
      BY <2>1, <2>3 DEF FreshCalibration
    <3>2. /\ new \in Calibration /\ new.revision = f.copy.revision + 1
          /\ new.confirmed => /\ f.change.kind = "confirm" \/ f.copy.confirmed
                              /\ Content(new) = Content(f.copy)
      BY <2>1, NextCalibration DEF Allowed
    <3>3. /\ calibrations' = [calibrations EXCEPT ![k] = new]
          /\ Return(c) /\ UNCHANGED <<apps, versions, confirmed>>
      BY <1>4, <2>3 DEF SwapCalibration
    <3> HIDE DEF new
    <3>4. TypeOK'
      BY <2>1, <3>2, <3>3 DEF IInv, TypeOK, Return, Go
    <3>5. CalibrationsMove(calibrations, calibrations')
      <4>1. f.copy.revision \in Nat
        BY <2>1 DEF Calibration
      <4>2. new.revision > calibrations[k].revision
        BY <3>1, <3>2, <4>1
      <4>3. QED
        BY <2>1, <3>2, <3>3, <4>2 DEF CalibrationsMove, IInv, TypeOK
    <3>6. AppsMove(apps, apps') /\ VersionsMove(versions, versions')
          /\ confirmed \subseteq confirmed'
      BY <3>3 DEF AppsMove, VersionsMove
    <3>7. FramesOK'
      BY <3>3, <3>4, <3>5, <3>6, ClientStep, IdleIsOK DEF Return
    <3>8. ConfirmedAsSeen'
      <4>1. ASSUME NEW j \in Calibrations, calibrations'[j] # NotCreated,
                   calibrations'[j].confirmed
            PROVE  <<j, Content(calibrations'[j])>> \in confirmed'
        <5>1. CASE j = k
          <6>1. calibrations'[j] = new /\ new.confirmed
            BY <3>3, <4>1, <5>1 DEF IInv, TypeOK
          <6>2. CASE f.change.kind = "confirm"
            BY <2>1, <3>2, <3>3, <5>1, <6>1, <6>2 DEF Allowed
          <6>3. CASE f.change.kind # "confirm"
            <7>1. calibrations[k].confirmed /\ calibrations[k] # NotCreated
              BY <2>1, <3>1, <3>2, <6>1, <6>3 DEF Calibration, NotCreated
            <7>2. QED
              BY <2>1, <3>1, <3>2, <3>3, <5>1, <6>1, <7>1 DEF IInv, ConfirmedAsSeen
          <6>4. QED
            BY <6>2, <6>3
        <5>2. CASE j # k
          <6>1. calibrations'[j] = calibrations[j]
            BY <3>3, <5>2 DEF IInv, TypeOK
          <6>2. QED
            BY <3>6, <4>1, <6>1 DEF IInv, ConfirmedAsSeen
        <5>3. QED
          BY <5>1, <5>2
      <4>2. QED
        BY <4>1 DEF ConfirmedAsSeen
    <3>9. QED
      BY <3>4, <3>7, <3>8 DEF IInv
  <2>4. QED
    BY <2>2, <2>3
<1>5. QED
  BY <1>2, <1>3, <1>4

LEMMA ClientStepIInv ==
  ASSUME IInv, NEW c \in Clients, Start(c) \/ Continue(c) \/ Crash(c)
  PROVE  IInv'
<1>1. CASE Start(c)
  BY <1>1, StartStep
<1>2. CASE Continue(c)
  BY <1>2, ReviseStep, PublishStep, CalibrateStep DEF Continue
<1>3. CASE Crash(c)
  BY <1>3, ReturnStep DEF Crash
<1>4. QED
  BY <1>1, <1>2, <1>3

LEMMA NextIInv == IInv /\ [Next]_vars => IInv'
<1> SUFFICES ASSUME IInv, [Next]_vars PROVE IInv'
  OBVIOUS
<1>1. CASE UNCHANGED vars
  BY <1>1 DEF vars, IInv, TypeOK, FramesOK, ConfirmedAsSeen
<1>2. CASE Next
  BY <1>2, AppStep, CreateCalibrationStep, ClientStepIInv DEF Next
<1>3. QED
  BY <1>1, <1>2

\* All that a step does to an application.
LEMMA AppEffect ==
  ASSUME IInv, [Next]_vars, NEW a \in Apps, apps'[a] # apps[a]
  PROVE  \/ apps[a] = NoApp /\ apps'[a] = NewApp
         \/ /\ apps[a] \in App /\ ~apps[a].deleted
            /\ apps'[a].draft = apps[a].draft /\ apps'[a].published = apps[a].published
         \/ /\ apps[a] \in App /\ ~apps[a].deleted
            /\ versions[apps'[a].draft].app = a
            /\ versions[apps'[a].draft].parent = apps[a].draft
            /\ apps'[a].published = apps[a].published
         \/ /\ apps[a] \in App /\ ~apps[a].deleted
            /\ apps'[a].draft = apps[a].draft /\ apps'[a].published = apps[a].draft
            /\ versions[apps[a].draft].spec = "spatial" => confirmed # {}
<1>1. apps \in [Apps -> App \cup {NoApp}]
  BY DEF IInv, TypeOK
<1>2. CASE \E b \in Apps : CreateApp(b)
  BY <1>1, <1>2 DEF CreateApp, Put
<1>3. ASSUME NEW b \in Apps, DeleteApp(b)
      PROVE  /\ apps[a] \in App /\ ~apps[a].deleted
             /\ apps'[a].draft = apps[a].draft /\ apps'[a].published = apps[a].published
  <2>1. a = b /\ apps[a] \in App /\ ~apps[a].deleted
        /\ apps'[a] = [apps[a] EXCEPT !.deleted = TRUE, !.revision = @ + 1]
    BY <1>1, <1>3 DEF DeleteApp, Put, Owned
  <2>2. QED
    BY <2>1, NextDeleted
<1>4. ASSUME NEW c \in Clients, SwapDraft(c)
      PROVE  /\ apps[a] \in App /\ ~apps[a].deleted
             /\ versions[apps'[a].draft].app = a
             /\ versions[apps'[a].draft].parent = apps[a].draft
             /\ apps'[a].published = apps[a].published
  <2>1. frame[c].version \in Versions
    BY <1>4, RevisingTypes DEF SwapDraft, At, IInv, TypeOK
  <2>2. PutsDraft(c)
    BY <1>4, DraftSwap
  <2>3. /\ a = frame[c].app /\ apps[a] \in App /\ ~apps[a].deleted
        /\ apps'[a] = [apps[a] EXCEPT !.draft = frame[c].version, !.revision = @ + 1]
    BY <1>1, <2>2 DEF PutsDraft, Put, Owned
  <2>4. apps'[a].draft = frame[c].version /\ apps'[a].published = apps[a].published
    <3> DEFINE old == apps[a]
               v == frame[c].version
    <3>1. old \in App /\ v \in Versions /\ apps'[a] = [old EXCEPT !.draft = v, !.revision = @ + 1]
      BY <2>1, <2>3
    <3> HIDE DEF v
    <3>2. apps'[a].draft = v /\ apps'[a].published = old.published
      BY <3>1, NextDraft
    <3>3. QED
      BY <3>2 DEF v
  <2>5. QED
    BY <2>2, <2>3, <2>4 DEF PutsDraft
<1>5. ASSUME NEW c \in Clients, SwapPublished(c)
      PROVE  /\ apps[a] \in App /\ ~apps[a].deleted
             /\ apps'[a].draft = apps[a].draft /\ apps'[a].published = apps[a].draft
             /\ versions[apps[a].draft].spec = "spatial" => confirmed # {}
  <2>1. PutsPublished(c)
    BY <1>5, PublishedSwap
  <2>2. /\ a = frame[c].app /\ apps[a] \in App /\ ~apps[a].deleted /\ apps[a].draft \in Versions
        /\ apps'[a] = [apps[a] EXCEPT !.published = apps[a].draft, !.revision = @ + 1]
        /\ versions[apps[a].draft].spec = "spatial" => confirmed # {}
    BY <1>1, <2>1 DEF PutsPublished, Put, Owned
  <2>3. QED
    BY <2>2, NextPublished
<1>6. ASSUME NEW c \in Clients, Start(c) \/ Crash(c) PROVE UNCHANGED apps
  BY <1>6 DEF Start, StartRevise, StartPublish, StartUpdate, StartBind, Crash
<1>7. ASSUME NEW c \in Clients, Continue(c), ~SwapDraft(c), ~SwapPublished(c)
      PROVE  UNCHANGED apps
  BY <1>7 DEF Continue, ReadForRevise, ReadOwner, AddVersion, ReadCalibration, ReadForPublish,
              ReadVersion, ReadForBind, ReadForUpdate, SwapCalibration
<1>8. ~UNCHANGED apps
  OBVIOUS
<1>9. \/ \E b \in Apps : CreateApp(b) \/ DeleteApp(b)
      \/ \E c \in Clients : SwapDraft(c) \/ SwapPublished(c)
  BY <1>6, <1>7, <1>8 DEF Next, vars, CreateCalibration
<1>10. QED
  BY <1>2, <1>3, <1>4, <1>5, <1>9

-----------------------------------------------------------------------------
(* The theorems. *)

\* What TypeOK, FramesOK and ConfirmedAsSeen say together is kept by every step.
THEOREM Invariant == Spec => []IInv
BY InitIInv, NextIInv, PTL DEF Spec

\* Every behaviour of the application services is well typed.
THEOREM TypeCorrect == Spec => []TypeOK
BY Invariant, PTL DEF IInv

\* AppService.revise replaces a draft only by a version made from it, whatever other
\* calls did between its reads and its swap.
THEOREM DraftsAreKept == Spec => NoLostDraft
<1>1. ASSUME IInv, [Next]_vars
      PROVE  [\A a \in Apps :
                apps'[a].draft # apps[a].draft =>
                  /\ versions[apps'[a].draft].parent = apps[a].draft
                  /\ versions[apps'[a].draft].app = a
                  /\ apps'[a].published = apps[a].published]_vars
  BY <1>1, AppEffect DEF NewApp, NoApp
<1>2. QED
  BY <1>1, Invariant, PTL DEF Spec, NoLostDraft

\* AppService.publish publishes the draft of that moment, and a spatial one only after a
\* confirmation.
THEOREM PublicationIsOfTheDraft == Spec => PublishesTheDraft
<1>1. ASSUME IInv, [Next]_vars
      PROVE  [\A a \in Apps :
                apps'[a].published # apps[a].published =>
                  /\ apps'[a].published = apps[a].draft
                  /\ apps'[a].draft = apps[a].draft
                  /\ versions[apps[a].draft].spec = "spatial" => confirmed # {}]_vars
  BY <1>1, AppEffect DEF NewApp, NoApp
<1>2. QED
  BY <1>1, Invariant, PTL DEF Spec, PublishesTheDraft

\* CalibrationService keeps a confirmation only with what was confirmed, over bindings
\* that decide on a first read whether it goes.
THEOREM ConfirmationsAreOfWhatIsThere == Spec => []ConfirmedAsSeen
BY Invariant, PTL DEF IInv

\* Nothing that was under way changes an application after delete_owned.
THEOREM DeletedAppsAreKept == Spec => DeletedAppsRest
<1>1. ASSUME IInv, [Next]_vars
      PROVE  [\A a \in Apps : apps[a].deleted => apps'[a] = apps[a]]_vars
  BY <1>1, AppEffect DEF NoApp
<1>2. QED
  BY <1>1, Invariant, PTL DEF Spec, DeletedAppsRest
=============================================================================
