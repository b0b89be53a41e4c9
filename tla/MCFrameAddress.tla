--------------------------- MODULE MCFrameAddress ---------------------------
(* FrameAddress for the XCZU9EG: three walks, the last one through its last *)
(* row, which is row 3 of the second half.                                  *)
EXTENDS FrameAddress, DeviceTable

WalkedRows == {<<0, 0>>, <<0, 6>>, <<1, 3>>}
=============================================================================
