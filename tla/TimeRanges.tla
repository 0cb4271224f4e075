----------------------------- MODULE TimeRanges -----------------------------
(***************************************************************************)
(* Half-open ranges of source time, [from, to], and how they are merged:   *)
(* vision_app.rules.intervals, which the zone rule and the reasoning       *)
(* service share.                                                          *)
(***************************************************************************)
EXTENDS Integers, FiniteSetsExt

(* TimeRange refuses a range whose ends are at the same time.              *)
Empty(r) == r.from >= r.to

Overlap(r, q) == r.from < q.to /\ r.to > q.from

(* The instants (of one tick) a set of ranges covers.                      *)
Instants(ranges) == UNION {r.from..(r.to - 1) : r \in ranges}

(* merge_time_ranges goes through the ranges in the order of their starts. *)
(* A range begins a new one if whatever started before it has ended more   *)
(* than the gap before; others are joined to the last that began.          *)
Begins(r, ranges, gap) == \A q \in ranges : q.from < r.from => q.to + gap < r.from

Joined(r, ranges, gap) ==
    {q \in ranges : /\ r.from <= q.from
                    /\ \A b \in ranges : Begins(b, ranges, gap) /\ b.from <= q.from
                                            => b.from <= r.from}

MergeRanges(ranges, gap) ==
    {[r EXCEPT !.to = Max({q.to : q \in Joined(r, ranges, gap)})] :
        r \in {r \in ranges : Begins(r, ranges, gap)}}
=============================================================================
