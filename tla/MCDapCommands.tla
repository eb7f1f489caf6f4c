--------------------------- MODULE MCDapCommands ---------------------------
(* Small instances of DapCommands for TLC.                                  *)
EXTENDS DapCommands, MCDapPacket

(* Reads and writes, with each header parity, one with a timestamp.         *)
SomeRequests == {{}, {1}, {0, 1, 7}, {0, 2, 3}}
(* Even and odd words whose bits lie in different halves and bytes.         *)
SomeWords == {{}, {31}, {3, 17}, {0, 8, 30}}
(* All that differ: a match has no timestamp in the response, a mask no     *)
(* register.                                                                *)
AllTransfers == {r \in [rd : BOOLEAN, ap : BOOLEAN, match : BOOLEAN, ts : BOOLEAN] :
                   r.match => ~r.ts /\ (r.rd \/ ~r.ap)}
=============================================================================
