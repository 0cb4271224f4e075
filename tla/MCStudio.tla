------------------------------ MODULE MCStudio ------------------------------
(* Studio with one tab, one application and two videos, the second of      *)
(* which is beyond the live limits.                                        *)
EXTENDS Studio

CONSTANTS LineCrossing, Semantic, Person, a1, t1, v1, v2, Light, Lane

MCCapabilities ==
    (LineCrossing :> [mode |-> "tracked_rules", classes |-> {Person, Cars}]) @@
    (InZone       :> [mode |-> "tracked_rules", classes |-> {Person}]) @@
    (RedPhase     :> [mode |-> "tracked_rules", classes |-> {Cars}]) @@
    (Semantic     :> [mode |-> "semantic_windows", classes |-> {}])

Seen == {"seen"}
MCDrafts ==
    {<<Seen>>, <<Seen, {"how many", "cars"}>>, <<{"follow"}>>, <<Seen, Seen, Seen>>}

Shape(kind, label, points) == [kind |-> kind, label |-> label, points |-> points]
MCDrawings ==
    {{},
     {Shape("line", StopLine, 2), Shape("box", Light, 0)},
     {Shape("line", StopLine, 1), Shape("polygon", Lane, 3)}}
=============================================================================
