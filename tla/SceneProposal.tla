---------------------------- MODULE SceneProposal --------------------------
(***************************************************************************)
(* GeminiVisualReasoner.propose_scene with the normalizer: a model draws   *)
(* lanes, lines and regions in numbers of which nobody says whether they   *)
(* are fractions of the frame, pixels or thousandths; the normalizer       *)
(* guesses it from the numbers, point by point and box by box.             *)
(*                                                                         *)
(* A number is told in units of 1/Unit and normalized to units of 1/Fine,  *)
(* Fine being a multiple of 1000 * Unit and of Unit times either side of   *)
(* the frame.  A millionth, the least extent of a box, is one such unit.   *)
(***************************************************************************)
EXTENDS Integers, Sequences, FiniteSets, SequencesExt, FiniteSetsExt

CONSTANTS
    Drawings,    \* [width, height, points, boxes, space]: the frame, what the
                 \* model tells of it ([x, y] and [x1, y1, x2, y2]) and meant
    NoNumber,    \* a coordinate that is missing, a bool, a string or not finite
    Unit, Fine

VARIABLES
    drawing,
    pc,          \* "asking", "done" or "raised"
    points,      \* lanes and lines of the SceneProposal, point after point
    boxes        \* its rois

vars == <<drawing, pc, points, boxes>>

Init ==
    /\ drawing \in Drawings
    /\ pc = "asking" /\ points = <<>> /\ boxes = <<>>

(* _finite_number, and the keys that have to be there.                     *)
Finite(shape) == \A k \in DOMAIN shape : shape[k] # NoNumber

Magnitude(v) == IF v < 0 THEN -v ELSE v

Most(shape) == Max({Magnitude(shape[k]) : k \in DOMAIN shape})

(* No coordinate is more than a hundredth beyond the larger side.          *)
InFrame(shape) ==
    \A k \in DOMAIN shape :
        100 * shape[k] <= 101 * Max({drawing.width, drawing.height}) * Unit

\* Mutant: the right and the lower edge of the frame, 1.0, are taken for pixels.
SpaceBelowOne(shape) ==
    IF Most(shape) < Unit THEN "normalized"
    ELSE IF drawing.width > 0 /\ drawing.height > 0 /\ InFrame(shape) THEN "pixels"
    ELSE IF Most(shape) <= 1001 * Unit THEN "thousand" ELSE "pixels"

(* detect_coordinate_space without a hint: both coordinates are compared   *)
(* with the larger side of the frame.                                      *)
Space(shape) ==
    IF Most(shape) <= Unit THEN "normalized"
    ELSE IF drawing.width > 0 /\ drawing.height > 0 /\ InFrame(shape) THEN "pixels"
    ELSE IF Most(shape) <= 1001 * Unit THEN "thousand" ELSE "pixels"

Clipped(v) == Max({0, Min({Fine, v})})

(* A coordinate as a part of the side it is measured along.                *)
Scaled(v, space, side) ==
    CASE space = "normalized" -> Clipped((v * Fine) \div Unit)
      [] space = "thousand"   -> Clipped((v * Fine) \div (1000 * Unit))
      [] space = "pixels"     -> Clipped((v * Fine) \div (Unit * side))

(* Pixels of a frame without a size cannot be normalized.                  *)
Measurable(shape) ==
    Space(shape) = "pixels" => drawing.width > 0 /\ drawing.height > 0

(* normalize_point                                                         *)
NormalPoint(p, space) ==
    [x |-> Scaled(p.x, space, drawing.width), y |-> Scaled(p.y, space, drawing.height)]

(* Two edges in order; edges in one place are moved apart by a millionth,  *)
(* unless that place is the end of the frame.                              *)
Ordered(a, b) == IF a = b THEN <<a, Min({Fine, a + 1})>> ELSE <<Min({a, b}), Max({a, b})>>

(* normalize_box                                                           *)
NormalBox(b, space) ==
    LET xs == Ordered(Scaled(b.x1, space, drawing.width), Scaled(b.x2, space, drawing.width))
        ys == Ordered(Scaled(b.y1, space, drawing.height), Scaled(b.y2, space, drawing.height))
    IN  [x1 |-> xs[1], y1 |-> ys[1], x2 |-> xs[2], y2 |-> ys[2]]

(* What BoxN refuses.                                                      *)
HasExtent(b) == b.x1 < b.x2 /\ b.y1 < b.y2

Normalizable ==
    /\ \A s \in ToSet(drawing.points) \cup ToSet(drawing.boxes) : Finite(s) /\ Measurable(s)
    /\ \A b \in ToSet(drawing.boxes) : HasExtent(NormalBox(b, Space(b)))

Propose ==
    /\ pc = "asking"
    /\ IF Normalizable
       THEN /\ pc' = "done"
            /\ points' = [i \in DOMAIN drawing.points |->
                             NormalPoint(drawing.points[i], Space(drawing.points[i]))]
            /\ boxes' = [i \in DOMAIN drawing.boxes |->
                            NormalBox(drawing.boxes[i], Space(drawing.boxes[i]))]
       ELSE pc' = "raised" /\ UNCHANGED <<points, boxes>>
    /\ UNCHANGED drawing

(* with_retry gives up, or the answer is no object.                        *)
ProviderFails == pc = "asking" /\ pc' = "raised" /\ UNCHANGED <<drawing, points, boxes>>

Next == Propose \/ ProviderFails

-----------------------------------------------------------------------------
(* Whether the numbers can only mean one thing: fractions never exceed     *)
(* one; pixels do beyond the first of them, if the frame's size is known,  *)
(* and lie in the frame; thousandths are at most a thousand, and told from *)
(* pixels by the frame's larger side.                                      *)
Unmistakable(shape) ==
    CASE drawing.space = "normalized" -> Most(shape) <= Unit
      [] drawing.space = "pixels"     ->
            Most(shape) > Unit /\ drawing.width > 0 /\ drawing.height > 0 /\ InFrame(shape)
      [] drawing.space = "thousand"   ->
            Most(shape) > Unit /\ Most(shape) <= 1000 * Unit /\ ~InFrame(shape)

(* All of a side, in the numbers the model meant.                          *)
Whole(side) ==
    CASE drawing.space = "normalized" -> Unit
      [] drawing.space = "thousand"   -> 1000 * Unit
      [] drawing.space = "pixels"     -> Unit * side

InPlace(where, told, side) ==
    CASE told < 0            -> where = 0
      [] told > Whole(side)  -> where = Fine
      [] OTHER               -> where * Whole(side) = told * Fine

(* Two edges stand where they were told, the lesser first, or just apart.  *)
EdgesInPlace(low, high, a, b, side) ==
    /\ low < high
    /\ InPlace(low, Min({a, b}), side)
    /\ \/ InPlace(high, Max({a, b}), side)
       \/ InPlace(low, Max({a, b}), side) /\ high = low + 1

(* What is proposed lies where the model saw it: every point and every     *)
(* edge of unmistakable numbers is in its own place or on the border of    *)
(* the frame, and every region has an extent.  Thousandths of a large      *)
(* frame, points in the first pixel and pixels far beyond the frame are    *)
(* not promised: the guess is wrong there.                                 *)
RegionsStayInPlace ==
    pc = "done" =>
        /\ \A i \in DOMAIN points : Unmistakable(drawing.points[i]) =>
              /\ InPlace(points[i].x, drawing.points[i].x, drawing.width)
              /\ InPlace(points[i].y, drawing.points[i].y, drawing.height)
        /\ \A i \in DOMAIN boxes :
              LET b == boxes[i]  told == drawing.boxes[i] IN
              Unmistakable(told) =>
                  /\ EdgesInPlace(b.x1, b.x2, told.x1, told.x2, drawing.width)
                  /\ EdgesInPlace(b.y1, b.y2, told.y1, told.y2, drawing.height)
=============================================================================
