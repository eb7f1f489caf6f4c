---------------------------- MODULE DapTransfer ----------------------------
(* One DAP_Transfer or DAP_TransferBlock command (cmsis-dap/dap_main.c) on   *)
(* either port, with the abort that the USB thread may raise at any time.   *)
(* A packet is a list of cells, a header or a word each; the request        *)
(* pointer counts cells.  An access to the target is known by its number in *)
(* the log, and a value by the access that read it.                         *)
EXTENDS Naturals, Sequences, FiniteSets, SequencesExt

CONSTANTS
    TransferRequests,     \* transfer requests in use, a set of records
    MaxTransfers, \* longest command
    MatchRetries  \* values of dap_info.transfer.match_retry

ASSUME TransferAssumption ==
    /\ TransferRequests \subseteq [rd : BOOLEAN, ap : BOOLEAN, match : BOOLEAN, ts : BOOLEAN]
    /\ MaxTransfers \in Nat /\ MatchRetries \subseteq Nat

VARIABLES
    cmd,      \* the command: port, kind, requests, match_retry
    h,        \* the handler's locals and dap_transfer
    resp,     \* cells of the response
    wire,     \* the target's side, and the timestamp of the last access
    do_abort,
    heard     \* how many transfers were begun when the abort came
transferVars == <<cmd, h, resp, wire, do_abort, heard>>

Ports == {"swd", "jtag"}
Num == Len(cmd.reqs)
(* A request of DAP_Transfer carries a word if it writes or matches; "match" *)
(* of a write is the request that sets the mask.  DAP_TransferBlock has one *)
(* header.                                                                  *)
HasWord(r) == ~r.rd \/ r.match
HeaderCell(k) == k + Cardinality({j \in 1..k - 1 : HasWord(cmd.reqs[j])})
EndCell == IF cmd.kind = "transfer" THEN HeaderCell(Num + 1)
           ELSE 2 + (IF cmd.reqs[1].rd THEN 0 ELSE Num)
RequestAt(cell) ==   \* the number of the request whose header is there, or 0
    IF \E k \in 1..Num : HeaderCell(k) = cell
    THEN CHOOSE k \in 1..Num : HeaderCell(k) = cell ELSE 0

Swd == cmd.port = "swd"

(* The target.  Over SWD an access port read returns the value of the one   *)
(* before it, and RDBUFF the last; over JTAG every scan returns the value   *)
(* of the scan before it.                                                   *)
Returned(kind) == IF Swd /\ kind = "dp" THEN Len(wire.log) + 1 ELSE wire.posted
Did(k, kind, ts) ==
    LET n == Len(wire.log) + 1 IN
    [log |-> Append(wire.log, [k |-> k, kind |-> kind]),
     posted |-> IF Swd /\ kind # "ap" THEN wire.posted ELSE n,
     ts |-> IF ts THEN n ELSE wire.ts]

Transfers(n) ==
    [port : Ports, kind : {"transfer"}, reqs : [1..n -> TransferRequests], retry : MatchRetries]
Blocks(n) ==
    [port : Ports, kind : {"block"},
     reqs : {[i \in 1..n |-> r] : r \in {q \in TransferRequests : ~q.match /\ ~q.ts}},
     retry : MatchRetries]
Commands == UNION {Transfers(n) \cup Blocks(n) : n \in 1..MaxTransfers}

TransferInit ==
    /\ cmd \in Commands
    /\ h = [pc |-> "begin", at |-> 1, cnt |-> 0, ack |-> "zero", post |-> FALSE,
            check |-> FALSE, ir |-> "none", tries |-> 0, k |-> 0, lost |-> FALSE]
    /\ resp = <<>>
    /\ wire = [log |-> <<>>, posted |-> 0, ts |-> 0]
    /\ do_abort \in BOOLEAN /\ heard = 0

(* The abort of the request thread: DapPipeline says when.                  *)
DoAbort ==
    /\ h.pc \notin {"begin", "done"} /\ ~do_abort
    /\ do_abort' = TRUE /\ heard' = h.k
    /\ UNCHANGED <<cmd, h, resp, wire>>

(* ID_DAP_Transfer clears the flag; ID_DAP_TransferBlock does not look.     *)
Begin ==
    /\ h.pc = "begin"
    /\ do_abort' = (IF cmd.kind = "transfer" THEN FALSE ELSE do_abort)
    /\ h' = IF cmd.kind = "transfer" THEN [h EXCEPT !.pc = "loop"]
            ELSE [h EXCEPT !.pc = "block", !.at = 2, !.k = 1,
                           !.ir = IF cmd.reqs[1].ap THEN "ap" ELSE "dp"]
    /\ UNCHANGED <<cmd, resp, wire, heard>>

----------------------------------------------------------------------------
Req == cmd.reqs[h.k]
Kind(r) == IF r.ap THEN "ap" ELSE "dp"

(* The end of an iteration, from the locals so far.  The JTAG loop counts   *)
(* here, the SWD loop when it takes the header.                             *)
EndIteration(l) ==
    [l EXCEPT !.cnt = IF Swd THEN @ ELSE @ + 1,
              !.pc = IF do_abort THEN "skip" ELSE "loop"]
Break(l) == [l EXCEPT !.pc = "skip"]
Failed(l) == Break([l EXCEPT !.ack = "error"])

(* The header.                                                              *)
TakeHeader ==
    /\ h.pc = "loop"
    /\ IF h.cnt = Num THEN h' = [h EXCEPT !.pc = "finish"]
       ELSE IF RequestAt(h.at) = 0 THEN h' = [h EXCEPT !.lost = TRUE, !.pc = "done"]
       ELSE h' = [h EXCEPT !.at = @ + 1, !.k = RequestAt(h.at),
                           !.cnt = IF Swd THEN @ + 1 ELSE @,
                           !.pc = IF h.post THEN "flush" ELSE "act"]
    /\ UNCHANGED <<cmd, resp, wire, do_abort, heard>>

(* A read is outstanding: its value comes with this request's own read when *)
(* that is posted like it, and from RDBUFF otherwise.                       *)
ChainedAny == Req.rd /\ ~Req.match
Chained == Req.rd /\ ~Req.match /\ IF Swd THEN Req.ap ELSE h.ir = Kind(Req)
FlushChained ==
    /\ h.pc = "flush" /\ Chained
    /\ \/ /\ wire' = Did(h.k, Kind(Req), Req.ts)
          /\ resp' = resp \o <<[what |-> "data", of |-> Returned(Kind(Req))]>>
                          \o (IF Req.ts THEN <<[what |-> "ts", of |-> Len(wire.log) + 1]>> ELSE <<>>)
          /\ h' = EndIteration([h EXCEPT !.ack = "OK", !.check = FALSE])
       \/ h' = Failed(h) /\ UNCHANGED <<wire, resp>>
    /\ UNCHANGED <<cmd, do_abort, heard>>

FlushFromBuffer ==
    /\ h.pc = "flush" /\ ~Chained
    /\ LET l == [h EXCEPT !.ir = "dp"] IN
       \/ /\ wire' = Did(h.k, "rdbuff", FALSE)
          /\ resp' = Append(resp, [what |-> "data", of |-> Returned("rdbuff")])
          /\ h' = [l EXCEPT !.ack = "OK", !.post = FALSE, !.pc = "act"]
       \/ h' = Failed(l) /\ UNCHANGED <<wire, resp>>
    /\ UNCHANGED <<cmd, do_abort, heard>>

Stamp(r, n) == IF r.ts THEN <<[what |-> "ts", of |-> n]>> ELSE <<>>

(* A plain read.  It is posted, but for a debug port register over SWD.     *)
ReadPlain ==
    /\ h.pc = "act" /\ Req.rd /\ ~Req.match
    /\ LET l == [h EXCEPT !.ir = Kind(Req)]
           posted == ~Swd \/ Req.ap
       IN \/ /\ wire' = Did(h.k, Kind(Req), Req.ts)
             /\ resp' = resp \o Stamp(Req, Len(wire.log) + 1)
                             \o (IF posted THEN <<>> ELSE <<[what |-> "data", of |-> Returned("dp")]>>)
             /\ h' = EndIteration([l EXCEPT !.ack = "OK", !.post = posted, !.check = FALSE])
          \/ h' = Failed(l) /\ UNCHANGED <<wire, resp>>
    /\ UNCHANGED <<cmd, do_abort, heard>>

(* A read that waits for a value: the word, the read that starts a posted   *)
(* one, then the loop.                                                      *)
ReadMatch ==
    /\ h.pc = "act" /\ Req.rd /\ Req.match
    /\ LET l == [h EXCEPT !.at = @ + 1, !.ir = Kind(Req), !.tries = cmd.retry] IN
       \/ /\ wire' = IF Swd /\ ~Req.ap THEN wire ELSE Did(h.k, Kind(Req), Req.ts)
          /\ h' = [l EXCEPT !.pc = "match", !.ack = "OK"]
       \/ (~Swd \/ Req.ap) /\ h' = Failed(l) /\ UNCHANGED wire
    /\ UNCHANGED <<cmd, resp, do_abort, heard>>

MayPollOnce == h.tries > 1 /\ ~do_abort
MayPollAgain == h.tries > 0 /\ ~do_abort
Poll ==
    /\ h.pc = "match"
    /\ \/ /\ wire' = Did(h.k, Kind(Req), Req.ts)
          /\ \/ h' = EndIteration([h EXCEPT !.check = FALSE])     \* the value matches
             \/ MayPollAgain /\ h' = [h EXCEPT !.tries = @ - 1]
             \/ ~MayPollAgain /\ h' = Break([h EXCEPT !.ack = "mismatch"])
       \/ h' = Failed(h) /\ UNCHANGED wire
    /\ UNCHANGED <<cmd, resp, do_abort, heard>>

SetMask ==
    /\ h.pc = "act" /\ ~Req.rd /\ Req.match
    /\ h' = EndIteration([h EXCEPT !.at = @ + 1, !.ack = "OK"])
    /\ UNCHANGED <<cmd, resp, wire, do_abort, heard>>

WritePlain ==
    /\ h.pc = "act" /\ ~Req.rd /\ ~Req.match
    /\ LET l == [h EXCEPT !.at = @ + 1, !.ir = Kind(Req)] IN
       \/ /\ wire' = Did(h.k, "write", Req.ts)
          /\ resp' = resp \o Stamp(Req, Len(wire.log) + 1)
          /\ h' = EndIteration([l EXCEPT !.ack = "OK", !.check = TRUE])
       \/ h' = Failed(l) /\ UNCHANGED <<wire, resp>>
    /\ UNCHANGED <<cmd, do_abort, heard>>

(* The requests that are not executed are read over.                        *)
SkipCellsNoMatch(r) == IF ~r.rd THEN 2 ELSE 1
SkipCells(r) == IF HasWord(r) THEN 2 ELSE 1
Skip ==
    /\ h.pc = "skip"
    /\ IF h.cnt = Num THEN h' = [h EXCEPT !.pc = "finish"]
       ELSE IF RequestAt(h.at) = 0 THEN h' = [h EXCEPT !.lost = TRUE, !.pc = "done"]
       ELSE h' = [h EXCEPT !.at = @ + SkipCells(cmd.reqs[RequestAt(h.at)]), !.cnt = @ + 1]
    /\ UNCHANGED <<cmd, resp, wire, do_abort, heard>>

(* The last access: the outstanding value, or whether the writes went well. *)
Finish ==
    /\ h.pc = "finish"
    /\ LET l == [h EXCEPT !.pc = "done", !.ir = "dp"] IN
       IF h.ack = "OK" /\ (~Swd \/ h.post \/ h.check)
       THEN \/ /\ wire' = Did(h.k, "rdbuff", FALSE)
               /\ resp' = IF h.post THEN Append(resp, [what |-> "data", of |-> Returned("rdbuff")])
                          ELSE resp
               /\ h' = l
            \/ h' = [l EXCEPT !.ack = "error"] /\ UNCHANGED <<wire, resp>>
       ELSE h' = [h EXCEPT !.pc = "done"] /\ UNCHANGED <<wire, resp>>
    /\ UNCHANGED <<cmd, do_abort, heard>>

----------------------------------------------------------------------------
(* DAP_TransferBlock: one request for all words.  Posted reads are begun by *)
(* one read before the loop.                                                *)
BlockPosted == cmd.reqs[1].rd /\ (~Swd \/ cmd.reqs[1].ap)
BlockStart ==
    /\ h.pc = "block"
    /\ IF ~BlockPosted THEN h' = [h EXCEPT !.pc = "words"] /\ UNCHANGED wire
       ELSE \/ wire' = Did(1, Kind(cmd.reqs[1]), FALSE) /\ h' = [h EXCEPT !.pc = "words"]
            \/ h' = [h EXCEPT !.pc = "done", !.ack = "error"] /\ UNCHANGED wire
    /\ UNCHANGED <<cmd, resp, do_abort, heard>>

LastWord == h.cnt = Num - 1
BlockRead ==
    /\ h.pc = "words" /\ cmd.reqs[1].rd /\ h.cnt < Num
    /\ LET kind == IF LastWord /\ BlockPosted THEN "rdbuff" ELSE Kind(cmd.reqs[1]) IN
       \/ /\ wire' = Did(IF BlockPosted THEN h.cnt + 2 ELSE h.cnt + 1, kind, FALSE)
          /\ resp' = Append(resp, [what |-> "data", of |-> Returned(kind)])
          /\ h' = [h EXCEPT !.cnt = @ + 1, !.ack = "OK", !.ir = IF LastWord THEN "dp" ELSE @,
                            !.pc = IF LastWord THEN "done" ELSE "words"]
       \/ h' = [h EXCEPT !.pc = "done", !.ack = "error"] /\ UNCHANGED <<wire, resp>>
    /\ UNCHANGED <<cmd, do_abort, heard>>

BlockWrite ==
    /\ h.pc = "words" /\ ~cmd.reqs[1].rd /\ h.cnt < Num
    /\ LET l == [h EXCEPT !.at = @ + 1] IN
       \/ /\ wire' = Did(h.cnt + 1, "write", FALSE)
          /\ h' = [l EXCEPT !.cnt = @ + 1, !.ack = "OK"]
       \/ h' = [l EXCEPT !.pc = "done", !.ack = "error"] /\ UNCHANGED wire
    /\ UNCHANGED <<cmd, resp, do_abort, heard>>

BlockVerify ==
    /\ h.pc = "words" /\ ~cmd.reqs[1].rd /\ h.cnt = Num
    /\ \/ wire' = Did(Num, "rdbuff", FALSE) /\ h' = [h EXCEPT !.pc = "done", !.ir = "dp"]
       \/ h' = [h EXCEPT !.pc = "done", !.ack = "error", !.ir = "dp"] /\ UNCHANGED wire
    /\ UNCHANGED <<cmd, resp, do_abort, heard>>

(* Another component is looked at.                                          *)
TransferQuiet ==
    /\ cmd = [port |-> "swd", kind |-> "transfer", reqs |-> <<>>, retry |-> 0]
    /\ h = [pc |-> "done", at |-> 1, cnt |-> 0, ack |-> "zero", post |-> FALSE,
            check |-> FALSE, ir |-> "none", tries |-> 0, k |-> 0, lost |-> FALSE]
    /\ resp = <<>> /\ wire = [log |-> <<>>, posted |-> 0, ts |-> 0]
    /\ do_abort = FALSE /\ heard = 0

TransferNext ==
    \/ DoAbort \/ Begin
    \/ TakeHeader \/ FlushChained \/ FlushFromBuffer \/ ReadPlain \/ ReadMatch \/ Poll
    \/ SetMask \/ WritePlain \/ Skip \/ Finish
    \/ BlockStart \/ BlockRead \/ BlockWrite \/ BlockVerify

----------------------------------------------------------------------------
(* The access that did request k, once it is done.                          *)
AccessesOf(k) == {n \in 1..Len(wire.log) : wire.log[n].k = k /\ wire.log[n].kind # "rdbuff"}
IsDone(k) == ~cmd.reqs[k].match /\ AccessesOf(k) # {}
TheAccess(k) == CHOOSE n \in AccessesOf(k) : TRUE
ExpectedOf(k) ==
    IF ~IsDone(k) THEN <<>>
    ELSE Stamp(cmd.reqs[k], TheAccess(k))
           \o (IF cmd.reqs[k].rd THEN <<[what |-> "data", of |-> TheAccess(k)]>> ELSE <<>>)
Expected == FlattenSeq([k \in 1..Num |-> ExpectedOf(k)])

(* The response holds, for each request done and in their order, its        *)
(* timestamp and then its value: although a posted read brings its value    *)
(* one access late, with writes, matches and the other port's registers in  *)
(* between, each value is the one its own request read.  When the command   *)
(* succeeds none is missing.                                                *)
AnswersInOrder ==
    /\ IsPrefix(resp, Expected)
    /\ h.pc = "done" /\ h.ack = "OK" /\ ~h.lost => resp = Expected

(* Every request is executed at most once and in the order of the packet,   *)
(* the writes included; a wait for a value reads at most as often as the    *)
(* host allows, and exactly that often before it reports a mismatch, unless *)
(* aborted.                                                                 *)
ReadsOf(k) == Cardinality(AccessesOf(k))
Allowed(k) == IF ~cmd.reqs[k].match THEN 1
              ELSE cmd.retry + (IF Swd /\ ~cmd.reqs[k].ap THEN 1 ELSE 2)
ExecutedOnce ==
    cmd.kind = "transfer" =>
      /\ \A i, j \in 1..Len(wire.log) : i <= j => wire.log[i].k <= wire.log[j].k
      /\ \A k \in 1..Num : ReadsOf(k) <= Allowed(k)
      /\ h.ack = "mismatch" /\ ~do_abort => ReadsOf(h.k) = Allowed(h.k)

(* After an abort at most one more request is begun, a wait for a value     *)
(* ends, and the handler still finds the next command of the packet: only   *)
(* an error on the wire or a mismatch leaves it anywhere else.              *)
AbortIsClean ==
    /\ cmd.kind = "transfer" /\ do_abort /\ h.pc # "begin" => h.k <= heard + 1
    /\ h.lost \/ (h.pc = "done" /\ h.at # EndCell) => h.ack \in {"error", "mismatch"}
=============================================================================
