-------------------------- MODULE MCCdcUsbToUsart --------------------------
(* Small instances of CdcUsbToUsart for TLC: a ring of two packets.        *)
EXTENDS CdcUsbToUsart

MCValues == 0 .. MaxPackets * PacketSize
=============================================================================
