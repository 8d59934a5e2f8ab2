----------------------------- MODULE MCUsbTxQueue -----------------------------
(* Two tasks, fewer slots than frames, a driver with one NTB, two mounts. *)
EXTENDS UsbTxQueue

CONSTANTS p1, p2
TwoTasks  == {p1, p2}
TwoAndOne == [p \in TwoTasks |-> IF p = p1 THEN 2 ELSE 1]
=============================================================================
