------------------------------ MODULE Geometry ------------------------------
(***************************************************************************)
(* The plane geometry the rules stand on (vision_app/geometry and          *)
(* rules/geometry.py, rules/anchor.py), over an integer grid: a point is   *)
(* [x, y], a box [x1, y1, x2, y2].  The code's normalised floats are grid  *)
(* points here, and its divisions and square roots are multiplied out, so  *)
(* every comparison below decides what the code's comparison decides with  *)
(* the tolerance at zero.                                                  *)
(***************************************************************************)
EXTENDS Integers, Sequences, FiniteSets

LOCAL Low(a, b) == IF a < b THEN a ELSE b
LOCAL High(a, b) == IF a < b THEN b ELSE a

(* Twice the signed area of the triangle p, q, r.                          *)
Cross(p, q, r) == (q.x - p.x) * (r.y - p.y) - (q.y - p.y) * (r.x - p.x)

Orientation(p, q, r) ==
    LET value == Cross(p, q, r)
    IN  IF value = 0 THEN 0 ELSE IF value > 0 THEN 1 ELSE -1

PointOnSegment(p, a, b) ==
    /\ Orientation(p, a, b) = 0
    /\ Low(a.x, b.x) <= p.x /\ p.x <= High(a.x, b.x)
    /\ Low(a.y, b.y) <= p.y /\ p.y <= High(a.y, b.y)

(* The edges of a polygon: every vertex with the next one, round.          *)
Edges(polygon) ==
    {<<polygon[i], polygon[(i % Len(polygon)) + 1]>> : i \in DOMAIN polygon}

(* A ray from p to the right meets the edge.                               *)
RayMeets(p, edge) ==
    LET a == edge[1]  b == edge[2]
    IN  /\ (a.y > p.y) # (b.y > p.y)
        /\ IF b.y > a.y
           THEN (p.x - a.x) * (b.y - a.y) < (p.y - a.y) * (b.x - a.x)
           ELSE (p.x - a.x) * (b.y - a.y) > (p.y - a.y) * (b.x - a.x)

(* Boundary points count as inside, the policy the zone rule asks for.     *)
PointInPolygon(p, polygon) ==
    \/ \E e \in Edges(polygon) : PointOnSegment(p, e[1], e[2])
    \/ Cardinality({e \in Edges(polygon) : RayMeets(p, e)}) % 2 = 1

(* -1, 0 or 1: the side of the directed line through l[1] and l[2], where  *)
(* 0 is the dead band of half width "band".  The line is the supporting    *)
(* line: nothing asks whether p lies between the ends of the segment.      *)
LineSide(p, l, band) ==
    LET dx == l[2].x - l[1].x
        dy == l[2].y - l[1].y
        c  == Cross(l[1], l[2], p)
    IN  IF c * c <= band * band * (dx * dx + dy * dy) THEN 0
        ELSE IF c > 0 THEN 1 ELSE -1

IsValidCrossing(pre, post, from, to) == pre = from /\ post = to

(* The point of a box a rule follows.  Coordinates are doubled, so that    *)
(* the middle of a box is a grid point.                                    *)
BoxAnchor(box, policy) ==
    CASE policy = "bottom_center" -> [x |-> box.x1 + box.x2, y |-> 2 * box.y2]
      [] policy = "bottom_left"   -> [x |-> 2 * box.x1, y |-> 2 * box.y2]
      [] policy = "center"        -> [x |-> box.x1 + box.x2, y |-> box.y1 + box.y2]
=============================================================================
