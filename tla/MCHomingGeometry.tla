--------------------------- MODULE MCHomingGeometry ---------------------------
(***************************************************************************)
(* HomingGeometry for TLC, with an int32 of four bits: tracks longer than  *)
(* it can measure, as long as the limits, and too short; offsets, and      *)
(* tolerances that requestHoming refuses.                                  *)
(***************************************************************************)
EXTENDS HomingGeometry

LongShort == {[low |-> -7, high |-> 6], [low |-> -3, high |-> 2],
              [low |-> -8, high |-> -2], [low |-> 2, high |-> 7], [low |-> -1, high |-> 2]}
AnyStart == {-7, -3, 0, 2, 5}
Usual == [search |-> 2, approach |-> 1, fast |-> 2, final |-> 1, slowdown |-> 2,
          backoff |-> 2, tolerance |-> 1, settleTolerance |-> 1,
          minTravel |-> 4, maxTravel |-> 7, offset |-> 0, stopped |-> 0,
          dwell |-> 2, settle |-> 1]
SomeConfigs ==
    {Usual,
     [Usual EXCEPT !.maxTravel = 5, !.settle = 0, !.slowdown = 1, !.fast = 3],
     [Usual EXCEPT !.offset = -1, !.stopped = 1],
     [Usual EXCEPT !.offset = 1, !.fast = 3, !.tolerance = 2, !.settleTolerance = 1]}
==============================================================================
