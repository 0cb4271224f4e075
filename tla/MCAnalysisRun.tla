---------------------------- MODULE MCAnalysisRun ---------------------------
EXTENDS AnalysisRun, SequencesExt
CONSTANTS none, car, van, main, other

(* Half grid units: anchors are doubled by BoxAnchor.  The line runs down  *)
(* x = 8, the polygon is a triangle that is open to the left.              *)
Pt(x, y) == [x |-> x, y |-> y]
BoxAt(x1, y1, x2, y2) == [x1 |-> x1, y1 |-> y1, x2 |-> x2, y2 |-> y2]
MCToSide == -1
MCLine == <<Pt(8, 0), Pt(8, 16)>>
MCPolygon == <<Pt(8, 0), Pt(16, 8), Pt(8, 16)>>
Seen(box, s, in) == [box |-> box, score |-> 9, side |-> s, inside |-> in]
MCPlaces ==
    [approach |-> Seen(BoxAt(1, 2, 2, 3), 1, FALSE),
     band     |-> Seen(BoxAt(4, 2, 6, 3), 0, TRUE),
     far      |-> Seen(BoxAt(6, 2, 7, 8), -1, FALSE),
     edge     |-> Seen(BoxAt(5, 1, 7, 2), -1, TRUE),
     middle   |-> Seen(BoxAt(5, 3, 6, 4), -1, TRUE),
     outside  |-> Seen(BoxAt(7, 6, 8, 7), -1, FALSE),
     sliver   |-> Seen(BoxAt(3, 2, 3, 3), 1, FALSE),
     faint    |-> [Seen(BoxAt(5, 3, 6, 4), -1, TRUE) EXCEPT !.score = 1]]
Look(p, g, d, fractions, s) ==
    [pixels |-> p, glare |-> g, dark |-> d, red |-> fractions[1], amber |-> fractions[2],
     green |-> fractions[3], shows |-> s]
MCLamps ==
    [red    |-> Look(50, 0, 20, <<60, 5, 0>>, "red"),
     amber  |-> Look(50, 0, 20, <<30, 50, 0>>, "amber"),
     green  |-> Look(50, 0, 20, <<5, 0, 60>>, "green"),
     both   |-> Look(50, 0, 20, <<40, 35, 0>>, "nothing"),
     glare  |-> Look(50, 80, 0, <<60, 0, 0>>, "nothing"),
     dark   |-> Look(50, 0, 95, <<30, 0, 0>>, "nothing"),
     tiny   |-> Look(2, 0, 0, <<90, 0, 0>>, "nothing")]
Off == [r \in {main, other} |-> "dark"]
OneLamp(looks) == {[r \in {main, other} |-> IF r = main THEN l ELSE "tiny"] : l \in looks}
MCMedia == [bytes |-> 9, codecs |-> {"h264", "mpeg4"}, containers |-> {"mp4"},
            pixels |-> 9, duration |-> 20, fps |-> 60, frames |-> 7]
FileOf(pts, base, duration) ==
    [bytes |-> 9, codec |-> "h264", container |-> "mp4", pixels |-> 9, duration |-> duration,
     fps |-> 30, count |-> Len(pts), base |-> base, pts |-> pts]
(* One tick is a millisecond, and the video ends one after its last frame. *)
Plain(pts) == FileOf(pts, <<1, 1000>>, pts[Len(pts)] + 1)
Four(steps) == {Plain(<<7, 7 + a, 7 + a + b, 7 + a + b + c>>) : a, b, c \in steps}
Five(steps) == {Plain(<<0, a, a + b, a + b + c, a + b + c + d>>) : a, b, c, d \in steps}
(* Three ticks per millisecond, a video that ends with its last frame, and *)
(* files the probe refuses, one with its frames out of order.              *)
Odd == {FileOf(<<0, 1, 2, 4, 5>>, <<1, 3000>>, 2), FileOf(<<0, 1, 2, 3>>, <<1, 1000>>, 3)}
Bad == {FileOf(<<0, 2, 1>>, <<1, 1000>>, 3), FileOf(<<>>, <<1, 1000>>, 3),
        [Plain(<<0, 1>>) EXCEPT !.codec = "vp9"], [Plain(<<0, 1>>) EXCEPT !.bytes = 10],
        [Plain(<<0, 1>>) EXCEPT !.duration = 21], [Plain(<<0, 1>>) EXCEPT !.count = -1, !.fps = 61]}
Scene(rule, objects, places, predicted, lamps, files) ==
    [rule |-> rule, objects |-> objects, places |-> places, predicted |-> predicted,
     lamps |-> lamps, files |-> files]
LineScenes ==
    {Scene("line", {none, car, van}, {"approach", "band", "far"}, {FALSE}, {Off}, Four({1, 4})),
     Scene("line", {none, car}, {"approach", "band", "far"}, BOOLEAN, {Off}, Four({1, 3})),
     Scene("line", {none, car}, {"approach", "band", "far"}, {FALSE}, {Off}, Five({1, 3}) \cup Odd \cup Bad),
     Scene("line", {car}, {"approach", "sliver", "faint"}, {FALSE}, {Off},
           {Plain(<<0, 1, 2, 3, 4, 5, 6>>)})}
RedScenes ==
    {Scene("red", {none, car}, {"approach", "far"}, {FALSE},
           OneLamp({"red", "amber", "green", "both"}), {Plain(<<0, 1, 2, 3, 4>>)}),
     Scene("red", {car}, {"approach", "far"}, BOOLEAN,
           {[r \in {main, other} |-> IF r = main THEN a ELSE b] :
               a \in {"red", "glare"}, b \in {"red", "green"}}, {Plain(<<0, 1, 2, 3>>)})}
ZoneScenes ==
    {Scene("zone", {none, car}, {"outside", "edge", "middle"}, {FALSE}, {Off}, Five({1, 3}) \cup Odd),
     Scene("zone", {none, car, van}, {"approach", "band", "far"}, {FALSE}, {Off}, Four({1, 4}))}
MCScenes == LineScenes \cup RedScenes \cup ZoneScenes

(* The theorems about tracked rules suppose it of the places and lamps.    *)
ASSUME PlacesAsFilmed == ToldTruly

SpecOf(kind, ids, roi, stride, calls) ==
    [kind |-> kind, ids |-> ids, roi |-> roi, window |-> 2, stride |-> stride,
     calls |-> calls, maxDuration |-> 9]
MCSpecs ==
    {SpecOf("semantic_windows", <<"c1">>, FALSE, 2, 4),
     SpecOf("semantic_windows", <<"c1", "c2">>, FALSE, 2, 9),
     SpecOf("semantic_windows", <<"c1", "c1">>, FALSE, 2, 9),
     SpecOf("semantic_windows", <<"c1">>, TRUE, 2, 9),
     SpecOf("semantic_windows", <<"c1">>, FALSE, 1, 9),
     SpecOf("tracked_rules", <<"c1">>, FALSE, 2, 9)}
MCVideos ==
    {[duration |-> d, small |-> TRUE, intact |-> TRUE] : d \in {3, 4, 7}}
    \cup {[duration |-> 3, small |-> FALSE, intact |-> TRUE],
          [duration |-> 3, small |-> TRUE, intact |-> FALSE]}
Ev(from, to) == [from |-> from, to |-> to]
One(id, decision, found) == [id |-> id, decision |-> decision, events |-> found]
MCWindowAnswers(ids) ==
    LET all(d, e) == [i \in DOMAIN ids |-> One(ids[i], d, e)]
    IN  {all("absent", <<>>), all("present", <<Ev(0, 1)>>),
         all("present", <<Ev(0, 2)>>), all("absent", <<Ev(0, 1)>>),
         Front(all("absent", <<>>)),
         [all("present", <<Ev(0, 1)>>) EXCEPT ![1] = One("other", "uncertain", <<Ev(0, 1)>>)],
         [all("absent", <<>>) EXCEPT ![1] = One(ids[1], "uncertain", <<Ev(0, 1), Ev(0, 1)>>)]}

PlanOf(from, to, stride, calls) ==
    [from |-> from, to |-> to, window |-> 2, stride |-> stride, calls |-> calls]
MCPlans ==
    {PlanOf(1, 6, 2, 9), PlanOf(0, 4, 1, 9), PlanOf(0, 5, 3, 9), PlanOf(0, 6, 2, 2),
     PlanOf(3, 4, 2, 9), PlanOf(2, 4, 2, 0)}
Told(decision, ranges, condition, refs) ==
    [decision |-> decision, ranges |-> ranges, condition |-> condition, refs |-> refs]
MCConditionAnswers(w) ==
    {Told("absent", {}, "the condition", {"e1"}), Told("uncertain", {}, "the condition", {"e1"}),
     Told("absent", {}, "another", {"e1"}), Told("present", {}, "the condition", {}),
     Told("absent", {Ev(w.from, w.to)}, "the condition", {"e1"})}
    \cup {Told("present", r, "the condition", {"e2"}) :
             r \in {{}, {w}, {Ev(w.from, w.from + 1)}, {Ev(w.to - 1, w.to)},
                    {Ev(w.from, w.from)}, {Ev(w.from, w.to + 1)}}}

(* A frame of four pixels by two, told exactly, on an edge, beyond it,     *)
(* upside down, without extent and not at all.                             *)
DrawingOf(w, h, space, p, b) ==
    [width |-> w, height |-> h, space |-> space, points |-> p, boxes |-> b]
FractionsOfSide == {-3, 0, 5, 10}
MCDrawings ==
    {DrawingOf(4, 2, "normalized", <<Pt(x, y), Pt(5, 5)>>, <<BoxAt(x, 2, y, 7)>>) :
        x, y \in FractionsOfSide}
    \cup {DrawingOf(4, 2, "pixels", <<Pt(x, y), Pt(20, 10)>>, <<BoxAt(x, 0, 20, y)>>) :
        x \in {0, 5, 10, 20, 40}, y \in {5, 10, 20, 40}}
    \cup {DrawingOf(4, 2, "thousand", <<Pt(x, 5000)>>, <<BoxAt(x, y, 10000, 0)>>) :
        x, y \in {0, 40, 5000, 10000}}
    \cup {DrawingOf(4, 2, "pixels", <<Pt(x, 15)>>, <<BoxAt(x, 5, 30, y)>>) :
        x, y \in {-100, 25, 41, 20000}}
    \cup {DrawingOf(0, 0, "pixels", <<Pt(x, 20)>>, <<>>) : x \in {NoNumber, 0, 10010, 10020}}
=============================================================================
