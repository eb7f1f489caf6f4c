--------------------------- MODULE MCCdcUsartToUsb ---------------------------
(* Small instances of CdcUsartToUsb for TLC: a ring of two packets.        *)
EXTENDS CdcUsartToUsb

MCValues == 0 .. MaxBytes
=============================================================================
