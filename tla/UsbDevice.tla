----------------------------- MODULE UsbDevice -----------------------------
(* The USB device: its control endpoint and its bulk endpoints.  They meet  *)
(* in three places, and each is modelled on both sides: a SET_CONFIGURATION *)
(* opens the bulk endpoints, SET_FEATURE and CLEAR_FEATURE of ENDPOINT_HALT *)
(* stop and restart them, and a reset of the bus closes all.  So the parts  *)
(* run one at a time here.                                                  *)
EXTENDS UsbControl, UsbBulk

VARIABLE part
vars == <<part, controlVars, bulkVars>>

Init ==
    \/ part = "control" /\ ControlInit /\ BulkQuiet
    \/ part = "bulk" /\ ControlQuiet /\ BulkInit

Next ==
    /\ UNCHANGED part
    /\ \/ part = "control" /\ ControlNext /\ UNCHANGED bulkVars
       \/ part = "bulk" /\ BulkNext /\ UNCHANGED controlVars

Spec == Init /\ [][Next]_vars
=============================================================================
