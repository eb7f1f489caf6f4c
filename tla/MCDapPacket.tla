---------------------------- MODULE MCDapPacket ----------------------------
(* Small instances of DapPacket for TLC.                                    *)
EXTENDS DapPacket

Read == [rd |-> TRUE, match |-> FALSE]
Wait == [rd |-> TRUE, match |-> TRUE]
Write == [rd |-> FALSE, match |-> FALSE]

(* Each command, in each way of being well or badly put.                    *)
SomeCommands ==
    [op : {"disconnect", "reset", "delay", "pins", "swdconf", "tconf",
           "vendor0", "vendor1", "unknown"}]
    \cup [op : {"clock"}, wraps : BOOLEAN]
    \cup [op : {"info"}, length : {0, 6}]
    \cup [op : {"host"}, known : BOOLEAN]
    \cup [op : {"connect"}, port : {"swd", "jtag", "disabled"}]
    \cup [op : {"swj"}, field : {0, 51, 65}]
    \cup [op : {"swdseq", "jtagseq"},
          list : {<<[in |-> FALSE, field |-> 0]>>, <<[in |-> TRUE, field |-> 9], [in |-> FALSE, field |-> 8]>>}]
    \cup [op : {"jtagconf"}, devices : {2}]
    \cup [op : {"idcode", "abort"}, index : {1, 4}]
    \cup [op : {"transfer"}, index : {1}, reqs : {<<Read, Wait, Write, Read>>}]
    \cup [op : {"block"}, index : {1}, rd : BOOLEAN, words : {0, 2}]
=============================================================================
