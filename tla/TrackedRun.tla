----------------------------- MODULE TrackedRun -----------------------------
(***************************************************************************)
(* What a tracked-rules run concludes from a video: the local decoder's    *)
(* probe and frames, RunEngine.run's loop over them with the detector      *)
(* adapter, the ByteTrack session, the lamp observer and its confirmed     *)
(* intervals, the rule reducers, the hard-gate dispositions and the flush  *)
(* that turns episodes into events.                                        *)
(*                                                                         *)
(* One frame holds at most one object, so the tracker's association (a     *)
(* library) is the simplest true one: an object keeps its number until the *)
(* session resets, and then numbers start again.  Times are integers; the  *)
(* fence, the progress rows and the evidence of an event are in            *)
(* LocalProfile and MediaAssets.                                           *)
(***************************************************************************)
EXTENDS Geometry, TimeRanges, SequencesExt

CONSTANTS
    Scenes,      \* what may be filmed: [rule, objects, places, predicted, lamps, files]
    Places,      \* place |-> [box, score, side, inside]: where an object can be,
                 \* and (side, inside) what is true of it there
    Lamps,       \* look |-> [pixels, glare, dark, red, amber, green, shows]
    NoObject,    \* a frame without an object
    Rois,        \* the signal regions of the calibration
    Line, Band, Polygon,
    FromSide, ToSide,
    RuleGap,     \* max_gap_ms of the rules
    TrackGap,    \* max_gap_ms of the tracker session
    MergeGap,    \* merge_gap_ms of the zone rule
    Margin,      \* margin_ms of the red-phase rule
    Stability,   \* stability_ms of the confirmed intervals
    Threshold,   \* score_threshold of the detector
    FrameLimit,  \* frames of the execution limits
    ProgressEvery,  \* frames from one progress row to the next, ten
    Media,       \* MediaLimits: [bytes, codecs, containers, pixels, duration, fps, frames]
    MinPixels, MaxGlare, MaxDark, MinColor, WinnerMargin

VARIABLES
    scene,
    file,        \* the video: [bytes, codec, container, pixels, duration, fps, count,
                 \* base, pts], in time units of base[1]/base[2] seconds
    pc,          \* "probe", "frames", "completed", "cancelled" or "failed"
    seen,        \* the frames so far: [t, obj, place, predicted, id, lamps]
    known,       \* the objects the tracker session has numbered
    tracks,      \* id |-> track state of the rule
    signals,     \* region |-> confirmed intervals
    events       \* what the run upserts

vars == <<scene, file, pc, seen, known, tracks, signals, events>>

NoTime == -1

Now == IF seen = <<>> THEN NoTime ELSE Last(seen).t

-----------------------------------------------------------------------------
(* The decoder                                                             *)

(* _timestamps: milliseconds since the first frame, rounded half up, so    *)
(* that neighbouring frames may get the same one.                          *)
SourceMs(i) ==
    ((file.pts[i] - file.pts[1]) * file.base[1] * 1000 + file.base[2] \div 2) \div file.base[2]

(* probe, and the reading of the timestamps it ends with.  A frame count   *)
(* that the container does not tell is NoTime.                             *)
Acceptable ==
    /\ file.bytes <= Media.bytes
    /\ file.codec \in Media.codecs /\ file.container \in Media.containers
    /\ 0 < file.pixels /\ file.pixels <= Media.pixels
    /\ 0 < file.duration /\ file.duration <= Media.duration
    /\ file.fps <= Media.fps
    /\ file.count <= Media.frames
    /\ Len(file.pts) \in 1..Media.frames
    /\ \A i \in 2..Len(file.pts) : SourceMs(i) >= SourceMs(i - 1)

-----------------------------------------------------------------------------
(* Detector and tracker                                                    *)

(* A detection under the threshold is dropped before its box is looked at; *)
(* a box that is empty after clipping raises.                              *)
Detected(place) ==
    LET box == Places[place].box
    IN  CASE Places[place].score < Threshold -> "dropped"
          [] box.x1 >= box.x2 \/ box.y1 >= box.y2 -> "raises"
          [] OTHER -> "kept"

(* The objects numbered after _validate_source_time has seen time t.       *)
AfterGapCheck(t) ==
    IF seen # <<>> /\ t - Now > TrackGap THEN <<>> ELSE known

Numbered(names, obj) ==
    IF obj \in ToSet(names) THEN names ELSE Append(names, obj)

-----------------------------------------------------------------------------
(* The lamp observer and its intervals                                     *)

LampColours == {"red", "amber", "green"}

(* The colour with the largest fraction, far enough ahead of both others:  *)
(* with a positive margin it is the only one.                              *)
Leads(c, l) ==
    /\ l[c] >= MinColor
    /\ \A d \in LampColours \ {c} : l[c] >= l[d] /\ l[c] - l[d] >= WinnerMargin

(* _classify: tiny, glaring or dark crops are unknown, and so is one with  *)
(* no colour ahead.                                                        *)
Classified(look) ==
    LET l == Lamps[look]
    IN  IF \/ l.pixels < MinPixels
           \/ l.glare >= MaxGlare
           \/ l.dark >= MaxDark
           \/ \A c \in LampColours : ~Leads(c, l)
        THEN "unknown"
        ELSE CHOOSE c \in LampColours : Leads(c, l)

NewSignal ==
    [candidate |-> "none", candidateSince |-> NoTime,
     confirmed |-> "none", confirmedSince |-> NoTime, done |-> {}]

(* _close_confirmed: no interval without positive coverage.                *)
Closed(s, t) ==
    [s EXCEPT !.confirmed = "none", !.confirmedSince = NoTime,
              !.done = IF t > s.confirmedSince
                       THEN @ \cup {[state |-> s.confirmed, gaps |-> {},
                                     from |-> s.confirmedSince, to |-> t]}
                       ELSE @]

(* ConfirmedSignalIntervals.update                                         *)
SignalStep(s0, state, t) ==
    LET broken == s0.confirmed \notin {"none", state}
        s  == IF broken
              THEN [Closed(s0, t) EXCEPT !.candidate = "none", !.candidateSince = NoTime]
              ELSE s0
        c  == IF s.candidate = state THEN s
              ELSE [s EXCEPT !.candidate = state, !.candidateSince = t]
    IN  IF state = "unknown"
        THEN [s EXCEPT !.candidate = "none", !.candidateSince = NoTime]
        ELSE IF s.confirmed = state THEN s
        ELSE IF t - c.candidateSince >= Stability
        THEN [c EXCEPT !.confirmed = state, !.confirmedSince = t,
                       !.candidate = "none", !.candidateSince = NoTime]
        ELSE c

(* flush: an interval still open ends with the video.                      *)
SignalEnd(s, end) == (IF s.confirmed = "none" THEN s ELSE Closed(s, end)).done

-----------------------------------------------------------------------------
(* The rule reducers.  last_anchor and last_post_time_ms, which nothing    *)
(* reads, are left out; side 0 stands for no confirmed side.               *)

Fresh == [time |-> NoTime, side |-> 0, pre |-> NoTime, prePred |-> FALSE,
          inside |-> "unset", entry |-> NoTime, episodes |-> {}]

\* Mutant: a track seen again just at the limit is taken for lost.
GapAtLimit(ts, t) == ts.time # NoTime /\ t - ts.time >= RuleGap

Gap(ts, t) == ts.time # NoTime /\ t - ts.time > RuleGap

Episode(from, to, pred) == [from |-> from, to |-> to, predicted |-> pred]

\* Mutant: what the track was doing survives a gap.
Bridged(ts, t) == [ts EXCEPT !.time = t]

(* After a gap the state starts from nothing, the episodes it had          *)
(* collected included.                                                     *)
AfterLineGap(ts, t) == [(IF Gap(ts, t) THEN Fresh ELSE ts) EXCEPT !.time = t]

Crossed(ts, side, episode) ==
    [ts EXCEPT !.side = side, !.pre = NoTime, !.prePred = FALSE,
               !.episodes = @ \cup {episode}]

(* _line_track_state: the dead band keeps the confirmed side, the valid    *)
(* direction makes an episode, and every sample on the approach side is    *)
(* the next bracket's start.                                               *)
LineStep(ts0, sight, t) ==
    LET side == LineSide(BoxAnchor(Places[sight.place].box, "bottom_left"), Line, Band)
        ts   == AfterLineGap(ts0, t)
    IN  CASE side = 0 -> ts
          [] IsValidCrossing(ts.side, side, FromSide, ToSide) ->
                Crossed(ts, side, Episode(ts.pre, t, ts.prePred \/ sight.predicted))
          [] side = FromSide -> [ts EXCEPT !.side = side, !.pre = t, !.prePred = sight.predicted]
          [] OTHER -> [ts EXCEPT !.side = side]

ZoneInside(sight) ==
    PointInPolygon(BoxAnchor(Places[sight.place].box, "bottom_center"), Polygon)

(* The episode a gap closes is appended to a list the code then takes      *)
(* again from the state it has just replaced: it is dropped with the       *)
(* others.                                                                 *)
AfterZoneGap(ts, t) ==
    [(IF Gap(ts, t) /\ ts.inside = "in" THEN Fresh ELSE ts) EXCEPT !.time = t]

(* _zone_track_state                                                       *)
ZoneStep(ts0, sight, t) ==
    LET inside == ZoneInside(sight)
        ts == AfterZoneGap(ts0, t)
    IN  CASE inside /\ ts.inside # "in" -> [ts EXCEPT !.inside = "in", !.entry = t]
          [] ~inside /\ ts.inside = "in" ->
                [ts EXCEPT !.inside = "out", !.entry = NoTime,
                           !.episodes = @ \cup {Episode(ts.entry, t, FALSE)}]
          [] OTHER -> [ts EXCEPT !.inside = IF inside THEN "in" ELSE "out"]

TrackOf(id) == IF id \in DOMAIN tracks THEN tracks[id] ELSE Fresh

Moved(id, sight, t) ==
    IF scene.rule = "zone" THEN ZoneStep(TrackOf(id), sight, t)
    ELSE LineStep(TrackOf(id), sight, t)

(* apply_observations for the one observation of a frame.                  *)
Observe(id, sight, t) ==
    [i \in DOMAIN tracks \cup {id} |-> IF i = id THEN Moved(id, sight, t) ELSE tracks[i]]

(* A crossing or a visit of no length raises, and so does the visit        *)
(* a gap closes, which is dropped right after, if it was a single sample.  *)
ReducerRaises(id, sight, t) ==
    \/ \E ep \in Moved(id, sight, t).episodes : Empty(ep)
    \/ /\ scene.rule = "zone" /\ TrackOf(id).inside = "in" /\ Gap(TrackOf(id), t)
       /\ Empty(Episode(TrackOf(id).entry, TrackOf(id).time, FALSE))

-----------------------------------------------------------------------------
(* Dispositions and the flush                                              *)

\* Mutant: the margin before the bracket is forgotten.
CoversFromBracket(red, ep) ==
    /\ red.from <= ep.from /\ red.to > ep.to + Margin
    /\ \A gap \in red.gaps : ~(gap.to > ep.from /\ gap.from < ep.to)

IntervalCovers(red, ep) ==
    /\ red.from <= ep.from - Margin /\ red.to > ep.to + Margin
    /\ \A gap \in red.gaps : ~(gap.to > ep.from /\ gap.from < ep.to)

OverlapsRed(reds, ep) ==
    \E red \in reds : \/ ep.from < red.to /\ ep.to > red.from
                      \/ \E gap \in red.gaps : gap.to > ep.from /\ gap.from < ep.to

(* Once no interval overlaps the bracket, lying between two neighbours is  *)
(* having one before and one after.                                        *)
BetweenReds(reds, ep) ==
    \E p, q \in reds : ep.from >= p.to /\ ep.to <= q.from

RedPhaseDisposition(ep, reds) ==
    IF \E red \in reds : IntervalCovers(red, ep) THEN "supported"
    ELSE IF OverlapsRed(reds, ep) \/ BetweenReds(reds, ep) THEN "inconclusive"
    ELSE "rejected"

Disposition(ep, reds) ==
    IF ep.predicted THEN "inconclusive"
    ELSE IF scene.rule = "red" THEN RedPhaseDisposition(ep, reds)
    ELSE "supported"

(* A visit that is still open is taken to last until the end of the video. *)
OpenVisit(ts, end) ==
    IF scene.rule = "zone" /\ ts.inside = "in" THEN {Episode(ts.entry, end, FALSE)} ELSE {}

(* The episodes a track's state ends with: of visits the ranges are merged *)
(* and made episodes again.                                                *)
Persistences(ts, end) ==
    {[from |-> ep.from, to |-> ep.to] : ep \in ts.episodes \cup OpenVisit(ts, end)}

FinalEpisodes(ts, end) ==
    IF scene.rule = "zone"
    THEN {Episode(r.from, r.to, FALSE) : r \in MergeRanges(Persistences(ts, end), MergeGap)}
    ELSE ts.episodes

(* Every region's red intervals gate the rule, whichever governs it.       *)
FinalRed(end) ==
    {i \in UNION {SignalEnd(signals[r], end) : r \in Rois} : i.state = "red"}

Candidates(end) ==
    UNION {{[id |-> id, from |-> ep.from, to |-> ep.to, disp |-> Disposition(ep, FinalRed(end))] :
               ep \in FinalEpisodes(tracks[id], end)} : id \in DOMAIN tracks}

-----------------------------------------------------------------------------
(* LimitGuard.consume_frames, before a frame is looked at.                 *)
MayTake == Len(seen) < FrameLimit

(* The range of a progress row begins with the frame; it raises when that  *)
(* is where the video is said to end, or after it.                         *)
ProgressRaises(t) == (Len(seen) + 1) % ProgressEvery = 0 /\ t >= file.duration

Init ==
    /\ scene \in Scenes /\ file \in scene.files
    /\ pc = "probe"
    /\ seen = <<>>
    /\ known = <<>>
    /\ tracks = <<>>
    /\ signals = [r \in Rois |-> NewSignal]
    /\ events = {}

(* The run begins with the probe of its source.                            *)
Probe ==
    /\ pc = "probe"
    /\ pc' = IF Acceptable THEN "frames" ELSE "failed"
    /\ UNCHANGED <<scene, file, seen, known, tracks, signals, events>>

(* One turn of the loop over a decoded frame.                              *)
TakeFrame(sight, lamps) ==
    /\ pc = "frames"
    /\ Len(seen) < Len(file.pts)
    /\ LET t     == SourceMs(Len(seen) + 1)
           kept  == sight.obj # NoObject /\ Detected(sight.place) = "kept"
           names == IF kept THEN Numbered(AfterGapCheck(t), sight.obj) ELSE AfterGapCheck(t)
           id    == IF kept THEN CHOOSE i \in DOMAIN names : names[i] = sight.obj ELSE 0
           fails == \/ ~MayTake
                    \/ sight.obj # NoObject /\ Detected(sight.place) = "raises"
                    \/ kept /\ ReducerRaises(id, sight, t)
                    \/ ProgressRaises(t)
       IN  IF fails
           THEN /\ pc' = "failed"
                /\ UNCHANGED <<seen, known, tracks, signals>>
           ELSE /\ seen' = Append(seen, [t |-> t, obj |-> sight.obj, place |-> sight.place,
                                         predicted |-> sight.predicted, id |-> id,
                                         lamps |-> lamps])
                /\ known' = names
                /\ signals' = [r \in Rois |-> SignalStep(signals[r], Classified(lamps[r]), t)]
                /\ tracks' = IF kept THEN Observe(id, sight, t) ELSE tracks
                /\ UNCHANGED pc
    /\ UNCHANGED <<scene, file, events>>

Sights ==
    {[obj |-> o, place |-> p, predicted |-> b] :
        o \in scene.objects \ {NoObject}, p \in scene.places, b \in scene.predicted}
    \cup (IF NoObject \in scene.objects
          THEN {[obj |-> NoObject, place |-> CHOOSE p \in scene.places : TRUE,
                 predicted |-> FALSE]}
          ELSE {})

(* is_cancelled is asked before a frame is used; nothing is flushed.       *)
Cancel ==
    /\ pc = "frames"
    /\ pc' = "cancelled"
    /\ UNCHANGED <<scene, file, seen, known, tracks, signals, events>>

(* A truncated frame, the decode deadline, or ffmpeg's exit status after   *)
(* the last frame: the run fails, whatever the rules have found.           *)
DecodeFails ==
    /\ pc = "frames"
    /\ pc' = "failed"
    /\ UNCHANGED <<scene, file, seen, known, tracks, signals, events>>

(* The decoder is exhausted: signals and rules are flushed to the end of   *)
(* the video, and what was not rejected becomes an event.                  *)
Complete ==
    /\ pc = "frames" /\ Len(seen) = Len(file.pts)
    /\ IF \E id \in DOMAIN tracks : \E ep \in OpenVisit(tracks[id], file.duration) : Empty(ep)
       THEN pc' = "failed" /\ UNCHANGED events
       ELSE /\ pc' = "completed"
            /\ events' = {c \in Candidates(file.duration) :
                             c.disp \in {"supported", "inconclusive"}}
    /\ UNCHANGED <<scene, file, seen, known, tracks, signals>>

Next ==
    \/ Probe \/ Cancel \/ DecodeFails \/ Complete
    \/ \E sight \in Sights, lamps \in scene.lamps : TakeFrame(sight, lamps)

Spec == Init /\ [][Next]_vars

-----------------------------------------------------------------------------
(* What was really filmed, told by the frames alone.                       *)

Frames == DOMAIN seen
Shows(k, obj) == seen[k].obj = obj /\ seen[k].id # 0
SideAt(k) == Places[seen[k].place].side
InsideAt(k) == Places[seen[k].place].inside

(* The object was never out of sight for longer than the rules allow       *)
(* between frames i and j, both of which show it.                          *)
Unbroken(i, j, obj) ==
    /\ Shows(i, obj) /\ Shows(j, obj)
    /\ \A k \in i..(j - 1) : Shows(k, obj) =>
          \E l \in (k + 1)..j : Shows(l, obj) /\ seen[l].t - seen[k].t <= RuleGap

(* It goes from the approach to the far side between frames i and j, with  *)
(* nothing but the dead band between them.                                 *)
Crosses(i, j, obj) ==
    /\ i < j /\ Unbroken(i, j, obj)
    /\ SideAt(i) = FromSide /\ SideAt(j) = ToSide
    /\ \A k \in (i + 1)..(j - 1) : Shows(k, obj) => SideAt(k) = 0

(* It is inside the zone from frame i on and out of it at frame j.         *)
Visits(i, j, obj) ==
    /\ i < j /\ Unbroken(i, j, obj)
    /\ ~InsideAt(j)
    /\ \A k \in i..(j - 1) : Shows(k, obj) => InsideAt(k)
    /\ \A k \in 1..(i - 1) : Shows(k, obj) /\ InsideAt(k) => ~Unbroken(k, i, obj)
          \/ \E l \in k..i : Shows(l, obj) /\ ~InsideAt(l)

(* Between two frames of i..j, before the video ends, a lamp shows red and *)
(* has shown nothing else for as long as it takes to be confirmed.  A red  *)
(* that is filmed for no time at all is no interval to the code.           *)
UnderRed(i, j) ==
    \E r \in Rois, k \in i..(j - 1) :
        /\ seen[k].t < seen[k + 1].t /\ seen[k].t < file.duration
        /\ \E first \in 1..k :
              /\ seen[k].t - seen[first].t >= Stability
              /\ \A l \in first..k : Lamps[seen[l].lamps[r]].shows = "red"

Happens(i, j, obj) ==
    CASE scene.rule = "zone" -> Visits(i, j, obj)
      [] scene.rule = "line" -> Crosses(i, j, obj)
      [] scene.rule = "red"  -> Crosses(i, j, obj) /\ UnderRed(i, j)

(* A visit may be part of a longer one, when the object leaves and comes   *)
(* back within the merge gap.                                              *)
Reported(i, j) ==
    \E e \in events :
        /\ e.id = seen[j].id
        /\ IF scene.rule = "zone" THEN e.from <= seen[i].t /\ seen[j].t <= e.to
           ELSE e.from = seen[i].t /\ e.to = seen[j].t

-----------------------------------------------------------------------------
(* Properties                                                              *)

(* A line event is about one object that was seen on the approach side and *)
(* then on the far side without being lost in between, even when the       *)
(* tracker restarts its numbers and another object gets the same one.      *)
CrossingsAreReal ==
    pc = "completed" /\ scene.rule # "zone" =>
        \A e \in events : \E i, j \in Frames :
            /\ seen[i].t = e.from /\ seen[j].t = e.to /\ seen[j].id = e.id
            /\ seen[i].obj = seen[j].obj /\ Crosses(i, j, seen[j].obj)

(* A red-phase event is supported only if one region's lamp showed red in  *)
(* every frame from one before the margin before the bracket to the margin *)
(* after it, the whole of that span is filmed, and the object itself was   *)
(* observed, not predicted, at both ends of its crossing.                  *)
SupportedUnderRed ==
    pc = "completed" /\ scene.rule = "red" =>
        \A e \in events : e.disp = "supported" =>
            /\ \E r \in Rois : \E first \in Frames :
                  /\ seen[first].t <= e.from - Margin
                  /\ \A k \in first..Len(seen) :
                        seen[k].t <= e.to + Margin => Lamps[seen[k].lamps[r]].shows = "red"
                  /\ \/ e.to + Margin < file.duration
                     \/ \E k \in Frames : e.to + Margin < seen[k].t
            /\ \E i, j \in Frames :
                  /\ seen[i].t = e.from /\ seen[j].t = e.to /\ seen[j].id = e.id
                  /\ Crosses(i, j, seen[j].obj)
                  /\ ~seen[i].predicted /\ ~seen[j].predicted

(* A zone event starts with a sample inside the zone, and until it ends    *)
(* (outside the zone, or with the video) the object is inside it at every  *)
(* sampled time and never lost.                                            *)
VisitsAreReal ==
    pc = "completed" /\ scene.rule = "zone" =>
        \A e \in events : \E i, j \in Frames :
            /\ seen[i].t = e.from /\ seen[i].id = e.id /\ seen[j].id = e.id
            /\ InsideAt(i)
            /\ Unbroken(i, j, seen[i].obj)
            /\ \A k \in i..j : Shows(k, seen[i].obj) =>
                  \/ seen[k].t = e.to
                  \/ \E l \in i..j : /\ Shows(l, seen[i].obj) /\ InsideAt(l)
                                    /\ seen[l].t = seen[k].t
            /\ \/ seen[j].t = e.to /\ ~InsideAt(j)
               \/ e.to = file.duration /\ \A k \in (j + 1)..Len(seen) : seen[k].id # e.id

(* While a track is never lost, whatever its object does is reported:      *)
(* every crossing, every crossing of which some part was under red, every  *)
(* visit.                                                                  *)
UnbrokenTracksAreCounted ==
    pc = "completed" =>
        \A i, j \in Frames : \A obj \in {seen[j].obj} \ {NoObject} :
            /\ Happens(i, j, obj)
            /\ \A k, l \in Frames :
                  k <= l /\ seen[k].id = seen[j].id /\ seen[l].id = seen[j].id
                      => Unbroken(k, l, obj)
            => Reported(i, j)

(* One continuous episode produces one event, whatever happens later: here *)
(* without the promise that the object is never lost afterwards.           *)
EpisodesAreReported ==
    pc = "completed" =>
        \A i, j \in Frames : \A obj \in {seen[j].obj} \ {NoObject} :
            Happens(i, j, obj) => Reported(i, j)
=============================================================================
