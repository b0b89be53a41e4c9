------------------------- MODULE MCConfigController -------------------------
(* Instances of ConfigController.  The device has few columns; "N" stands   *)
(* for the one behind the islands' string.                                  *)
EXTENDS ConfigController

CONSTANTS m1, m2, m3

Device == <<"L", "M", "R", "N">>
Geo(h, w, s) == {[height |-> h, width |-> w, start_column |-> s]}
File(target, rs, geo, fars, len) ==
  [target |-> target, RS |-> rs, geometry |-> geo, fars |-> fars, bitstream_len |-> len]

(* The shipped metafile: no geometry, one island's frames, 442771 words,    *)
(* here 7.  m2 and m3 say where they are.                                   *)
Shipped  == File("XCZU9EG", <<"L", "M">>, {}, <<Trailer, 4, Trailer>>, 7)
LeftTwo  == File("XCZU9EG", <<"L", "M">>, Geo(1, 2, 0), <<3, Trailer, 3>>, 8)
RightTwo == File("XCZU9EG", <<"L">>, Geo(1, 2, 1), <<Trailer, 4>>, 4)
Three    == [m \in {m1, m2, m3} |-> IF m = m1 THEN Shipped ELSE IF m = m2 THEN LeftTwo ELSE RightTwo]

(* Fewer modules, for the runs that need less.                              *)
Whole == [m \in {m2, m3} |-> Three[m]]
One   == [m \in {m1} |-> Shipped]
=============================================================================
