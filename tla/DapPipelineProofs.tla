------------------------- MODULE DapPipelineProofs -------------------------
(***************************************************************************)
(* Proofs about DapPipeline for every pool size and every number of        *)
(* requests, aborts and configurations: who owns a block, the order of the *)
(* requests, and that the pipeline implements DapService.                  *)
(***************************************************************************)
EXTENDS DapPipeline, FiniteSetTheorems, TLAPS

-----------------------------------------------------------------------------
(* Mailboxes: a message at the end, a message off the head.                *)

LEMMA AppendElems ==
  ASSUME NEW S, NEW q \in Seq(S), NEW x \in S
  PROVE  /\ Append(q, x) \in Seq(S) /\ Len(Append(q, x)) = Len(q) + 1
         /\ Elems(Append(q, x)) = Elems(q) \cup {x}
         /\ Distinct(q) /\ x \notin Elems(q) => Distinct(Append(q, x))
<1> DEFINE a == Append(q, x)
<1>1. /\ a \in Seq(S) /\ Len(a) = Len(q) + 1 /\ Len(q) \in Nat
      /\ \A i \in 1 .. Len(q) : a[i] = q[i]
      /\ a[Len(q) + 1] = x
  OBVIOUS
<1> HIDE DEF a
<1>2. Elems(a) = Elems(q) \cup {x}
  <2>1. ASSUME NEW i \in 1 .. Len(q) + 1 PROVE a[i] \in Elems(q) \cup {x}
    <3>1. CASE i = Len(q) + 1 BY <1>1, <3>1
    <3>2. CASE i # Len(q) + 1
      <4>1. i \in 1 .. Len(q) BY <1>1, <3>2
      <4>. QED BY <1>1, <4>1 DEF Elems
    <3>. QED BY <3>1, <3>2
  <2>2. ASSUME NEW i \in 1 .. Len(q) PROVE q[i] \in Elems(a)
    <3>1. i \in 1 .. Len(a) BY <1>1
    <3>. QED BY <1>1, <3>1 DEF Elems
  <2>3. x \in Elems(a)
    <3>1. Len(q) + 1 \in 1 .. Len(a) BY <1>1
    <3>. QED BY <1>1, <3>1 DEF Elems
  <2>. QED BY <1>1, <2>1, <2>2, <2>3 DEF Elems
<1>3. ASSUME Distinct(q), x \notin Elems(q) PROVE Distinct(a)
  <2> SUFFICES ASSUME NEW i \in 1 .. Len(q) + 1, NEW j \in 1 .. Len(q) + 1,
                      a[i] = a[j]
               PROVE  i = j
    BY <1>1 DEF Distinct
  <2>1. \A k \in 1 .. Len(q) : q[k] # x BY <1>3 DEF Elems
  <2>2. CASE i = Len(q) + 1 /\ j # Len(q) + 1
    <3>1. j \in 1 .. Len(q) BY <1>1, <2>2
    <3>. QED BY <1>1, <2>1, <2>2, <3>1
  <2>3. CASE i # Len(q) + 1 /\ j = Len(q) + 1
    <3>1. i \in 1 .. Len(q) BY <1>1, <2>3
    <3>. QED BY <1>1, <2>1, <2>3, <3>1
  <2>4. CASE i # Len(q) + 1 /\ j # Len(q) + 1
    <3>1. i \in 1 .. Len(q) /\ j \in 1 .. Len(q) BY <1>1, <2>4
    <3>. QED BY <1>1, <1>3, <3>1 DEF Distinct
  <2>. QED BY <2>2, <2>3, <2>4
<1>. QED BY <1>1, <1>2, <1>3 DEF a

LEMMA TailElems ==
  ASSUME NEW S, NEW q \in Seq(S), q # << >>
  PROVE  /\ Head(q) \in S /\ Head(q) \in Elems(q)
         /\ Tail(q) \in Seq(S) /\ Len(Tail(q)) = Len(q) - 1 /\ Len(q) >= 1
         /\ \A i \in 1 .. Len(q) - 1 : Tail(q)[i] = q[i + 1]
         /\ Elems(q) = Elems(Tail(q)) \cup {Head(q)}
         /\ Distinct(q) => Distinct(Tail(q)) /\ Head(q) \notin Elems(Tail(q))
<1> DEFINE t == Tail(q)
<1>1. /\ Head(q) = q[1] /\ Len(q) \in Nat /\ Len(q) >= 1
      /\ t \in Seq(S) /\ Len(t) = Len(q) - 1
      /\ \A i \in 1 .. Len(q) - 1 : t[i] = q[i + 1]
      /\ q[1] \in S
  OBVIOUS
<1> HIDE DEF t
<1>2. 1 \in 1 .. Len(q) /\ Head(q) \in Elems(q)
  <2>1. 1 \in 1 .. Len(q) BY <1>1
  <2>. QED BY <1>1, <2>1 DEF Elems
<1>3. Elems(q) = Elems(t) \cup {Head(q)}
  <2>1. ASSUME NEW i \in 1 .. Len(q) PROVE q[i] \in Elems(t) \cup {Head(q)}
    <3>1. CASE i = 1 BY <1>1, <3>1
    <3>2. CASE i # 1
      <4>1. PICK k \in 1 .. Len(q) - 1 : i = k + 1
        <5>1. i - 1 \in 1 .. Len(q) - 1 /\ i = (i - 1) + 1 BY <1>1, <3>2
        <5>. QED BY <5>1
      <4>2. t[k] = q[i] BY <1>1, <4>1
      <4>. QED BY <1>1, <4>1, <4>2 DEF Elems
    <3>. QED BY <3>1, <3>2
  <2>2. ASSUME NEW i \in 1 .. Len(q) - 1 PROVE t[i] \in Elems(q)
    <3>1. i + 1 \in 1 .. Len(q) BY <1>1
    <3>. QED BY <1>1, <3>1 DEF Elems
  <2>. QED BY <1>1, <1>2, <2>1, <2>2 DEF Elems
<1>4. ASSUME Distinct(q) PROVE Distinct(t) /\ Head(q) \notin Elems(t)
  <2>1. ASSUME NEW i \in 1 .. Len(t), NEW j \in 1 .. Len(t), t[i] = t[j]
        PROVE  i = j
    <3>1. i + 1 \in 1 .. Len(q) /\ j + 1 \in 1 .. Len(q) BY <1>1
    <3>2. q[i + 1] = q[j + 1] BY <1>1, <2>1
    <3>3. i + 1 = j + 1 BY <1>4, <3>1, <3>2 DEF Distinct
    <3>. QED BY <1>1, <3>3
  <2>2. ASSUME NEW i \in 1 .. Len(t) PROVE t[i] # q[1]
    <3>1. i + 1 \in 1 .. Len(q) /\ i + 1 # 1 BY <1>1
    <3>2. q[i + 1] # q[1] BY <1>2, <1>4, <3>1 DEF Distinct
    <3>. QED BY <1>1, <3>2
  <2>. QED BY <1>1, <2>1, <2>2 DEF Distinct, Elems
<1>. QED BY <1>1, <1>2, <1>3, <1>4 DEF t

LEMMA SeqWithout ==
  ASSUME NEW S, NEW T, NEW q \in Seq(S), \A i \in 1 .. Len(q) : q[i] \in T
  PROVE  q \in Seq(T)
OBVIOUS

(* A mailbox of different blocks of a finite set holds at most its size.   *)
LEMMA DistinctLen ==
  ASSUME NEW S, IsFiniteSet(S), NEW q \in Seq(S), Distinct(q)
  PROVE  Len(q) <= Cardinality(S)
<1>1. Len(q) \in Nat /\ q \in [1 .. Len(q) -> S] OBVIOUS
<1>2. q \in Injection(1 .. Len(q), S)
  BY <1>1 DEF Injection, Distinct, IsInjective
<1>3. IsFiniteSet(1 .. Len(q)) /\ Cardinality(1 .. Len(q)) = Len(q)
  BY <1>1, FS_Interval
<1>4. Cardinality(1 .. Len(q)) <= Cardinality(S) BY <1>2, FS_Injection
<1>. QED BY <1>3, <1>4
(* ... and less when one of them is somewhere else. *)
LEMMA ShortLen ==
  ASSUME NEW S, IsFiniteSet(S), NEW q \in Seq(S), Distinct(q),
         NEW x \in S, x \notin Elems(q)
  PROVE  Len(q) < Cardinality(S)
<1>1. IsFiniteSet(S \ {x}) /\ Cardinality(S \ {x}) = Cardinality(S) - 1
  BY FS_RemoveElement
<1>2. q \in Seq(S \ {x})
  <2>1. \A i \in 1 .. Len(q) : q[i] \in S \ {x} BY DEF Elems
  <2>. QED BY <2>1, SeqWithout
<1>3. Len(q) <= Cardinality(S \ {x}) BY <1>1, <1>2, DistinctLen
<1>4. Cardinality(S) \in Nat /\ Len(q) \in Nat BY FS_CardinalityType
<1>. QED BY <1>1, <1>3, <1>4

-----------------------------------------------------------------------------
(* The response side, under any host: TypeOK needs to know which program   *)
(* counters go with a block in hand, and what the IN endpoint is armed     *)
(* with.                                                                   *)

ResPcs ==
  /\ procRes # Null <=> procPc \in {"handle", "transfer", "free", "send"}
  /\ resBlk # Null <=> resPc # "recv"
  /\ procPc = "transfer" => procLeft \in 1 .. MaxTransfers

(* Only a response the thread waits for is on the wire. *)
InPhase ==
  /\ sendDone => resPc = "wait" /\ inArmed = Idle
  /\ inArmed # Idle => resPc = "wait"
  /\ inArmed \in ResBlocks => inArmed = resBlk

ResInv == TypeOK /\ ResPcs /\ ResOwnership /\ InPhase

LEMMA InitResInv == Init => ResInv
<1>1. ASSUME Init PROVE TypeOK
  <2>1. reqData \in [ReqBlocks -> Request] /\ resData \in [ResBlocks -> Response]
    BY <1>1 DEF Init, Garbage, Unwritten, Request, Response, Kinds
  <2>2. /\ reqMb \in Seq(ReqBlocks \cup {Null}) /\ Len(reqMb) <= PacketCount
        /\ resMb \in Seq(ResBlocks) /\ Len(resMb) <= PacketCount
        /\ procLeft \in 0 .. MaxTransfers /\ answered \in Seq(Response)
    BY <1>1, PoolAssumption, BoundAssumption DEF Init
  <2>. QED BY <1>1, <2>1, <2>2 DEF Init, TypeOK
<1>2. ASSUME Init PROVE ResPcs /\ InPhase
  BY <1>2, NamesAssumption DEF Init, ResPcs, InPhase
<1>3. ASSUME Init PROVE ResOwnership
  BY <1>3, PoolAssumption DEF Init, ResOwnership, Distinct, Elems
<1>. QED BY <1>1, <1>2, <1>3 DEF ResInv

(* A step that leaves the response side alone keeps its invariant. *)
LEMMA ResSame ==
  ASSUME ResInv, TypeOK',
         UNCHANGED <<procPc, procRes, procLeft, resVars, inArmed, resFree, resMb>>
  PROVE  ResInv'
BY DEF ResInv, ResPcs, ResOwnership, InPhase, resVars, Elems, Distinct

(* usb_dap_req_thread touches nothing of the response side. *)
LEMMA ReqStepResInv ==
  ASSUME ResInv, ReqThread PROVE ResInv'
<1>. USE DEF procVars, resVars, usbVars, hostVars
<1>0. TypeOK BY DEF ResInv
<1>1. CASE ReqTake
  <2>1. TypeOK' BY <1>0, <1>1 DEF TypeOK, ReqTake
  <2>. QED BY <1>1, <2>1, ResSame DEF ReqTake
<1>2. CASE ReqDispatch
  <2>1. doAbort' \in BOOLEAN /\ reqPc' \in {"arm", "send"}
    BY <1>0, <1>2 DEF TypeOK, ReqDispatch
  <2>2. TypeOK' BY <1>0, <1>2, <2>1 DEF TypeOK, ReqDispatch
  <2>. QED BY <1>2, <2>2, ResSame DEF ReqDispatch
<1>3. CASE ReqSend
  <2>1. reqMb' \in Seq(ReqBlocks \cup {Null}) /\ Len(reqMb') <= PacketCount
    <3>1. Len(reqMb') = Len(reqMb) + 1 /\ Len(reqMb) < PacketCount
      BY <1>0, <1>3, AppendElems DEF TypeOK, ReqSend
    <3>2. reqMb' \in Seq(ReqBlocks \cup {Null}) BY <1>0, <1>3 DEF TypeOK, ReqSend
    <3>. QED BY <1>0, <3>1, <3>2, PoolAssumption DEF TypeOK
  <2>2. TypeOK' BY <1>0, <1>3, <2>1 DEF TypeOK, ReqSend
  <2>. QED BY <1>3, <2>2, ResSame DEF ReqSend
<1>4. CASE ReqAlloc
  <2>1. TypeOK' BY <1>0, <1>4 DEF TypeOK, ReqAlloc
  <2>. QED BY <1>4, <2>1, ResSame DEF ReqAlloc
<1>5. CASE ReqStore
  <2>1. TypeOK' BY <1>0, <1>5 DEF TypeOK, ReqStore
  <2>. QED BY <1>5, <2>1, ResSame DEF ReqStore
<1>6. CASE ReqArm
  <2>1. outDma' \in ReqBlocks \cup {Null} /\ outArmed' \in BOOLEAN
    BY <1>0, <1>6 DEF TypeOK, ReqArm, StartRead
  <2>2. TypeOK' BY <1>0, <1>6, <2>1 DEF TypeOK, ReqArm
  <2>. QED BY <1>6, <2>2, ResSame DEF ReqArm
<1>. QED BY <1>1, <1>2, <1>3, <1>4, <1>5, <1>6 DEF ReqThread

(* dap_process_thread takes a response block from the pool and hands it to *)
(* the mailbox.                                                            *)
LEMMA ProcStepResInv ==
  ASSUME ResInv, ProcThread PROVE ResInv'
<1>. USE DEF reqVars, resVars, usbVars, hostVars
<1>0. TypeOK /\ ResPcs /\ ResOwnership /\ InPhase BY DEF ResInv
<1>1. CASE ProcRecv
  <2>1. /\ procReq' \in ReqBlocks \cup {Null}
        /\ reqMb' \in Seq(ReqBlocks \cup {Null}) /\ Len(reqMb') <= PacketCount
    <3>1. /\ Head(reqMb) \in ReqBlocks \cup {Null}
          /\ Tail(reqMb) \in Seq(ReqBlocks \cup {Null})
          /\ Len(Tail(reqMb)) = Len(reqMb) - 1
      BY <1>0, <1>1, TailElems DEF TypeOK, ProcRecv
    <3>. QED BY <1>0, <1>1, <3>1, PoolAssumption DEF TypeOK, ProcRecv
  <2>2. TypeOK' BY <1>0, <1>1, <2>1 DEF TypeOK, ProcRecv
  <2>3. ResPcs' BY <1>0, <1>1 DEF ResPcs, ProcRecv
  <2>4. ResOwnership' /\ InPhase'
    BY <1>0, <1>1 DEF ResOwnership, InPhase, ProcRecv, Elems, Distinct
  <2>. QED BY <2>2, <2>3, <2>4 DEF ResInv
<1>2. CASE ProcAlloc
  <2>1. PICK b \in resFree : procRes' = b /\ resFree' = resFree \ {b}
    BY <1>2 DEF ProcAlloc
  <2>2. procRes = Null /\ b # Null /\ b \in ResBlocks
    BY <1>0, <1>2, <2>1, PoolAssumption DEF TypeOK, ResPcs, ProcAlloc
  <2>3. TypeOK' BY <1>0, <1>2, <2>1, <2>2 DEF TypeOK, ProcAlloc
  <2>4. ResPcs' BY <1>0, <1>2, <2>1, <2>2 DEF ResPcs, ProcAlloc
  <2>5. ResOwnership'
    <3>1. /\ resMb' = resMb /\ resBlk' = resBlk
          /\ Elems(resMb)' = Elems(resMb) /\ Distinct(resMb)' = Distinct(resMb)
      BY <1>2 DEF ProcAlloc, Elems, Distinct
    <3>. QED BY <1>0, <2>1, <2>2, <3>1 DEF ResOwnership
  <2>6. InPhase' BY <1>0, <1>2 DEF InPhase, ProcAlloc
  <2>. QED BY <2>3, <2>4, <2>5, <2>6 DEF ResInv
<1>3. CASE ProcHandle
  <2>1. resData' \in [ResBlocks -> Response]
    <3>1. ReadReq(procReq).id \in Nat
      BY <1>0 DEF TypeOK, ReadReq, Garbage, Request
    <3>2. [id |-> ReadReq(procReq).id, cut |-> FALSE] \in Response
      BY <3>1 DEF Response
    <3>3. resData' = [resData EXCEPT ![procRes] =
                         [id |-> ReadReq(procReq).id, cut |-> FALSE]]
      BY <1>3 DEF ProcHandle
    <3>. QED BY <1>0, <3>2, <3>3 DEF TypeOK
  <2>2. /\ procLeft' \in 0 .. MaxTransfers /\ doAbort' \in BOOLEAN
        /\ procPc' \in {"transfer", "free"}
        /\ procPc' = "transfer" => procLeft' \in 1 .. MaxTransfers
    <3>1. \/ /\ doAbort' = FALSE /\ procLeft' \in 1 .. MaxTransfers
             /\ procPc' = "transfer"
          \/ procPc' = "free" /\ UNCHANGED <<doAbort, procLeft>>
      BY <1>3 DEF ProcHandle
    <3>2. doAbort' \in BOOLEAN BY <1>0, <3>1 DEF TypeOK
    <3>3. procLeft' \in 0 .. MaxTransfers BY <1>0, <3>1, BoundAssumption DEF TypeOK
    <3>. QED BY <3>1, <3>2, <3>3
  <2>3. TypeOK' BY <1>0, <1>3, <2>1, <2>2 DEF TypeOK, ProcHandle
  <2>4. ResPcs' BY <1>0, <1>3, <2>2 DEF ResPcs, ProcHandle
  <2>5. ResOwnership' /\ InPhase'
    BY <1>0, <1>3 DEF ResOwnership, InPhase, ProcHandle, Elems, Distinct
  <2>. QED BY <2>3, <2>4, <2>5 DEF ResInv
<1>4. CASE ProcTransfer
  <2>1. /\ procLeft \in 1 .. MaxTransfers /\ procPc = "transfer"
        /\ resData \in [ResBlocks -> Response]
    BY <1>0, <1>4 DEF ResPcs, TypeOK, ProcTransfer
  <2>2. resData' \in [ResBlocks -> Response]
    <3>1. CASE UNCHANGED resData BY <2>1, <3>1
    <3>2. CASE resData' = [resData EXCEPT ![procRes].cut = procLeft > 1]
      <4>1. (procLeft > 1) \in BOOLEAN OBVIOUS
      <4>2. \A r \in Response : [r EXCEPT !.cut = procLeft > 1] \in Response
        BY <4>1 DEF Response
      <4>. QED BY <2>1, <3>2, <4>2
    <3>. QED BY <1>4, <3>1, <3>2 DEF ProcTransfer
  <2>3. \/ procPc' = "transfer" /\ procLeft' \in 1 .. MaxTransfers
        \/ procPc' = "free" /\ procLeft' = 0
    BY <1>4, <2>1, BoundAssumption DEF ProcTransfer
  <2>4. TypeOK'
    <3>1. procLeft' \in 0 .. MaxTransfers BY <2>3, BoundAssumption
    <3>. QED BY <1>0, <1>4, <2>2, <2>3, <3>1 DEF TypeOK, ProcTransfer
  <2>5. ResPcs' BY <1>0, <1>4, <2>1, <2>3 DEF ResPcs, ProcTransfer
  <2>6. ResOwnership' /\ InPhase'
    BY <1>0, <1>4 DEF ResOwnership, InPhase, ProcTransfer, Elems, Distinct
  <2>. QED BY <2>4, <2>5, <2>6 DEF ResInv
<1>5. CASE ProcFree
  <2>1. TypeOK' BY <1>0, <1>5 DEF TypeOK, ProcFree
  <2>2. ResPcs' BY <1>0, <1>5 DEF ResPcs, ProcFree
  <2>3. ResOwnership' /\ InPhase'
    BY <1>0, <1>5 DEF ResOwnership, InPhase, ProcFree, Elems, Distinct
  <2>. QED BY <2>1, <2>2, <2>3 DEF ResInv
<1>6. CASE ProcSend
  <2>1. procRes \in ResBlocks /\ procRes # Null
    BY <1>0, <1>6 DEF TypeOK, ResPcs, ProcSend
  <2>2. procRes \notin Elems(resMb) BY <1>0 DEF ResOwnership
  <2>3. /\ resMb' \in Seq(ResBlocks) /\ Len(resMb') = Len(resMb) + 1
        /\ Elems(resMb') = Elems(resMb) \cup {procRes} /\ Distinct(resMb')
    BY <1>0, <1>6, <2>1, <2>2, AppendElems DEF TypeOK, ResOwnership, ProcSend
  <2>4. TypeOK'
    <3>1. Len(resMb') <= PacketCount
      BY <1>0, <1>6, <2>3, PoolAssumption DEF TypeOK, ProcSend
    <3>. QED BY <1>0, <1>6, <2>3, <3>1 DEF TypeOK, ProcSend
  <2>5. ResPcs' BY <1>0, <1>6 DEF ResPcs, ProcSend
  <2>6. ResOwnership'
    <3>1. /\ procRes' = Null /\ resFree' = resFree /\ resBlk' = resBlk
          /\ Elems(resMb)' = Elems(resMb') /\ Distinct(resMb)' = Distinct(resMb')
      BY <1>6 DEF ProcSend
    <3>2. Null \notin resFree \cup Elems(resMb')
      <4>1. Null \notin Elems(resMb)
        BY <1>0, PoolAssumption DEF TypeOK, Elems
      <4>. QED BY <1>0, <2>1, <2>3, <4>1, PoolAssumption DEF TypeOK
    <3>. QED BY <1>0, <2>1, <2>3, <3>1, <3>2 DEF ResOwnership
  <2>7. InPhase' BY <1>0, <1>6 DEF InPhase, ProcSend
  <2>. QED BY <2>4, <2>5, <2>6, <2>7 DEF ResInv
<1>. QED BY <1>1, <1>2, <1>3, <1>4, <1>5, <1>6 DEF ProcThread

(* usb_dap_res_thread takes a block off the mailbox, sends it, and gives   *)
(* it back when the controller is done with it.                            *)
LEMMA ResStepResInv ==
  ASSUME ResInv, ResThread PROVE ResInv'
<1>. USE DEF reqVars, procVars, usbVars, hostVars
<1>0. TypeOK /\ ResPcs /\ ResOwnership /\ InPhase BY DEF ResInv
<1>1. CASE ResRecv
  <2>1. /\ Head(resMb) \in ResBlocks /\ resBlk = Null
        /\ Tail(resMb) \in Seq(ResBlocks) /\ Len(Tail(resMb)) = Len(resMb) - 1
        /\ Elems(resMb) = Elems(Tail(resMb)) \cup {Head(resMb)}
        /\ Distinct(Tail(resMb)) /\ Head(resMb) \notin Elems(Tail(resMb))
    BY <1>0, <1>1, TailElems DEF TypeOK, ResPcs, ResOwnership, ResRecv
  <2>2. TypeOK'
    <3>1. Len(Tail(resMb)) <= PacketCount
      BY <1>0, <2>1, PoolAssumption DEF TypeOK
    <3>. QED BY <1>0, <1>1, <2>1, <3>1 DEF TypeOK, ResRecv
  <2>3. ResPcs' BY <1>0, <1>1, <2>1, PoolAssumption DEF ResPcs, ResRecv
  <2>4. ResOwnership'
    <3>1. /\ resFree' = resFree /\ procRes' = procRes /\ resBlk' = Head(resMb)
          /\ Elems(resMb)' = Elems(Tail(resMb))
          /\ Distinct(resMb)' = Distinct(Tail(resMb))
      BY <1>1 DEF ResRecv
    <3>2. Head(resMb) # Null BY <2>1, PoolAssumption
    <3>. QED BY <1>0, <2>1, <3>1, <3>2 DEF ResOwnership
  <2>5. InPhase' BY <1>0, <1>1, NamesAssumption DEF InPhase, ResRecv
  <2>. QED BY <2>2, <2>3, <2>4, <2>5 DEF ResInv
<1>2. CASE ResInit
  <2>1. TypeOK'
    <3>1. sendDone' \in BOOLEAN /\ resPc' = "write" BY <1>2 DEF ResInit
    <3>. QED BY <1>0, <1>2, <3>1 DEF TypeOK, ResInit
  <2>2. ResPcs' /\ ResOwnership' /\ InPhase'
    BY <1>0, <1>2 DEF ResPcs, ResOwnership, InPhase, ResInit, Elems, Distinct
  <2>. QED BY <2>1, <2>2 DEF ResInv
<1>3. CASE ResWrite
  <2>1. /\ inArmed' \in {resBlk, inArmed} /\ resBlk \in ResBlocks
        /\ inArmed = Idle /\ sendDone = FALSE
    BY <1>0, <1>3 DEF TypeOK, ResPcs, InPhase, ResWrite
  <2>2. TypeOK' BY <1>0, <1>3, <2>1 DEF TypeOK, ResWrite
  <2>3. ResPcs' /\ ResOwnership'
    BY <1>0, <1>3 DEF ResPcs, ResOwnership, ResWrite, Elems, Distinct
  <2>4. InPhase' BY <1>3, <2>1, NamesAssumption DEF InPhase, ResWrite
  <2>. QED BY <2>2, <2>3, <2>4 DEF ResInv
<1>4. CASE ResWait
  <2>1. TypeOK'
    <3>1. sendDone' \in BOOLEAN /\ resPc' = "free" BY <1>4 DEF ResWait
    <3>. QED BY <1>0, <1>4, <3>1 DEF TypeOK, ResWait
  <2>2. ResPcs' /\ ResOwnership' /\ InPhase'
    BY <1>0, <1>4, NamesAssumption
    DEF ResPcs, ResOwnership, InPhase, ResWait, Elems, Distinct
  <2>. QED BY <2>1, <2>2 DEF ResInv
<1>5. CASE ResRelease
  <2>1. resBlk \in ResBlocks /\ resBlk # Null
    BY <1>0, <1>5 DEF TypeOK, ResPcs, ResRelease
  <2>2. TypeOK' BY <1>0, <1>5, <2>1 DEF TypeOK, ResRelease
  <2>3. ResPcs' BY <1>0, <1>5 DEF ResPcs, ResRelease
  <2>4. ResOwnership'
    <3>1. /\ resFree' = resFree \cup {resBlk} /\ resBlk' = Null
          /\ procRes' = procRes /\ resMb' = resMb
          /\ Elems(resMb)' = Elems(resMb) /\ Distinct(resMb)' = Distinct(resMb)
      BY <1>5 DEF ResRelease, Elems, Distinct
    <3>2. Null \notin resFree \cup Elems(resMb)
      BY <1>0, PoolAssumption DEF TypeOK, Elems
    <3>. QED BY <1>0, <2>1, <3>1, <3>2 DEF ResOwnership
  <2>5. InPhase' BY <1>0, <1>5, NamesAssumption DEF InPhase, ResRelease
  <2>. QED BY <2>2, <2>3, <2>4, <2>5 DEF ResInv
<1>. QED BY <1>1, <1>2, <1>3, <1>4, <1>5 DEF ResThread

(* The interrupt and the host. *)
LEMMA DapOutResInv ==
  ASSUME ResInv, NEW req \in Request, DapOut(req),
         sent' \in Nat, aborts' \in Nat, abortMark' \in Nat
  PROVE  ResInv'
<1>1. TypeOK BY DEF ResInv
<1>2. reqData' \in [ReqBlocks -> Request] BY <1>1 DEF TypeOK, DapOut
<1>3. reqSem' \in Nat BY <1>1 DEF TypeOK, DapOut
<1>4. outArmed' \in BOOLEAN BY DEF DapOut
<1>5. TypeOK' BY <1>1, <1>2, <1>3, <1>4 DEF TypeOK, DapOut, procVars, resVars
<1>. QED BY <1>5, ResSame DEF DapOut, procVars, resVars

LEMMA HostStepResInv ==
  ASSUME ResInv,
         HostRequest \/ HostAbort \/ DapIn \/ Configure \/ BusReset
  PROVE  ResInv'
<1>. USE DEF reqVars, procVars, resVars, hostVars
<1>0. TypeOK /\ ResPcs /\ ResOwnership /\ InPhase BY DEF ResInv
<1>1. CASE HostRequest
  <2>1. PICK k \in Kinds \ {"abort"} : DapOut([id |-> sent + 1, kind |-> k])
    BY <1>1 DEF HostRequest
  <2>2. [id |-> sent + 1, kind |-> k] \in Request
    BY <1>0 DEF TypeOK, Request
  <2>3. sent' \in Nat /\ aborts' \in Nat /\ abortMark' \in Nat
    BY <1>0, <1>1 DEF TypeOK, HostRequest
  <2>. QED BY <2>1, <2>2, <2>3, DapOutResInv
<1>2. CASE HostAbort
  <2>1. [id |-> 0, kind |-> "abort"] \in Request BY DEF Request, Kinds
  <2>2. sent' \in Nat /\ aborts' \in Nat /\ abortMark' \in Nat
    BY <1>0, <1>2 DEF TypeOK, HostAbort
  <2>. QED BY <1>2, <2>1, <2>2, DapOutResInv DEF HostAbort
<1>3. CASE DapIn
  <2>1. /\ inArmed' \in {Idle, Zlp} /\ sendDone' \in BOOLEAN
        /\ sendDone' = TRUE => inArmed' = Idle
        /\ inArmed # Idle
    <3>1. Idle # Zlp BY DEF Idle, Zlp
    <3>2. CASE inArmed \in ResBlocks
      <4>1. inArmed # Zlp /\ inArmed # Idle BY <3>2, NamesAssumption
      <4>2. \/ inArmed' = Zlp /\ sendDone' = sendDone
            \/ inArmed' = Idle /\ sendDone' = TRUE
        BY <1>3, <4>1 DEF DapIn
      <4>3. sendDone = FALSE BY <1>0, <4>1 DEF InPhase, TypeOK
      <4>. QED BY <4>1, <4>2, <4>3
    <3>3. CASE inArmed = Zlp
      <4>1. inArmed' = Idle /\ sendDone' = TRUE
        BY <1>3, <3>3, NamesAssumption DEF DapIn
      <4>. QED BY <3>1, <3>3, <4>1
    <3>. QED BY <1>3, <3>2, <3>3 DEF DapIn
  <2>2. answered' \in Seq(Response)
    <3>1. CASE inArmed \in ResBlocks /\ answered' = Append(answered, resData[inArmed])
      BY <1>0, <3>1 DEF TypeOK
    <3>2. CASE UNCHANGED answered BY <1>0, <3>2 DEF TypeOK
    <3>. QED BY <1>3, <3>1, <3>2 DEF DapIn
  <2>3. TypeOK' BY <1>0, <1>3, <2>1, <2>2 DEF TypeOK, DapIn
  <2>4. ResPcs' /\ ResOwnership'
    BY <1>0, <1>3 DEF ResPcs, ResOwnership, DapIn, Elems, Distinct
  <2>5. InPhase' BY <1>0, <1>3, <2>1, NamesAssumption DEF InPhase, DapIn
  <2>. QED BY <2>3, <2>4, <2>5 DEF ResInv
<1>4. CASE Configure
  <2>1. /\ reqFree' \subseteq ReqBlocks /\ outArmed' \in BOOLEAN
        /\ cur' \in ReqBlocks \cup {Null} /\ outDma' \in ReqBlocks \cup {Null}
        /\ configs' \in Nat
    <3>1. CASE reqFree = {}
      <4>1. /\ reqFree' = reqFree /\ outDma' = outDma /\ cur' = Null
            /\ outArmed' = FALSE /\ configs' = configs + 1
        BY <1>4, <3>1 DEF Configure
      <4>2. outArmed' \in BOOLEAN BY <4>1
      <4>. QED BY <1>0, <4>1, <4>2 DEF TypeOK
    <3>2. CASE reqFree # {}
      <4>1. PICK b \in reqFree : /\ reqFree' = reqFree \ {b} /\ outDma' = b
                                /\ cur' = b /\ outArmed' = TRUE
        BY <1>4, <3>2 DEF Configure
      <4>2. outArmed' \in BOOLEAN /\ configs' = configs + 1
        BY <1>4, <4>1 DEF Configure
      <4>. QED BY <1>0, <4>1, <4>2 DEF TypeOK
    <3>. QED BY <3>1, <3>2
  <2>2. TypeOK'
    <3>1. epOpen' \in BOOLEAN /\ inArmed' \in ResBlocks \cup {Idle, Zlp}
      BY <1>4 DEF Configure
    <3>. QED BY <1>0, <1>4, <2>1, <3>1 DEF TypeOK, Configure
  <2>3. ResPcs' /\ ResOwnership'
    BY <1>0, <1>4 DEF ResPcs, ResOwnership, Configure, Elems, Distinct
  <2>4. InPhase' BY <1>0, <1>4, NamesAssumption DEF InPhase, Configure
  <2>. QED BY <2>2, <2>3, <2>4 DEF ResInv
<1>5. CASE BusReset
  <2>1. TypeOK'
    <3>1. /\ epOpen' \in BOOLEAN /\ outArmed' \in BOOLEAN
          /\ outDma' \in ReqBlocks \cup {Null}
          /\ inArmed' \in ResBlocks \cup {Idle, Zlp}
      BY <1>5 DEF BusReset
    <3>. QED BY <1>0, <1>5, <3>1 DEF TypeOK, BusReset
  <2>2. ResPcs' /\ ResOwnership'
    BY <1>0, <1>5 DEF ResPcs, ResOwnership, BusReset, Elems, Distinct
  <2>3. InPhase' BY <1>0, <1>5, NamesAssumption DEF InPhase, BusReset
  <2>. QED BY <2>1, <2>2, <2>3 DEF ResInv
<1>. QED BY <1>1, <1>2, <1>3, <1>4, <1>5

LEMMA NextResInv == ResInv /\ [NextAgain]_vars => ResInv'
<1> SUFFICES ASSUME ResInv, [NextAgain]_vars PROVE ResInv' OBVIOUS
<1>1. CASE Threads BY <1>1, ReqStepResInv, ProcStepResInv, ResStepResInv DEF Threads
<1>2. CASE HostRequest \/ HostAbort \/ DapIn \/ Configure \/ BusReset
  BY <1>2, HostStepResInv
<1>3. CASE UNCHANGED vars
  <2>1. TypeOK'
    BY <1>3 DEF ResInv, TypeOK, vars, reqVars, procVars, resVars, usbVars, hostVars
  <2>. QED BY <1>3, <2>1, ResSame DEF vars, procVars, usbVars
<1>. QED BY <1>1, <1>2, <1>3 DEF NextAgain

LEMMA NextIsNextAgain == [Next]_vars => [NextAgain]_vars
BY DEF Next, NextAgain

(* Types, under a host that resets the bus and configures the device as    *)
(* often as it likes.                                                      *)
THEOREM TypeCorrectAgain == SpecAgain => []TypeOK
<1>1. ResInv => TypeOK BY DEF ResInv
<1>. QED BY <1>1, InitResInv, NextResInv, PTL DEF SpecAgain

THEOREM TypeCorrect == Spec => []TypeOK
<1>1. ResInv => TypeOK BY DEF ResInv
<1>. QED BY <1>1, InitResInv, NextResInv, NextIsNextAgain, PTL DEF Spec

(* No response block is lost or handed out twice, however often the bus is *)
(* reset and the device configured (usb_main.c:409-449).                   *)
THEOREM ResponsesOwned == SpecAgain => []ResOwnership
<1>1. ResInv => ResOwnership BY DEF ResInv
<1>. QED BY <1>1, InitResInv, NextResInv, PTL DEF SpecAgain

-----------------------------------------------------------------------------
(* The request side, on a device configured once.  The request thread, its *)
(* semaphore and the OUT endpoint pass one token around: of "the endpoint  *)
(* is armed", "the semaphore is released" and "the thread is at work" at   *)
(* most one holds.                                                         *)

ReqPcs ==
  /\ reqNew # Null <=> reqPc = "store"
  /\ procReq # Null <=> procPc \in {"alloc", "handle", "transfer", "free"}
  /\ Null \notin Elems(reqMb)
  /\ cur = Null <=> configs = 0
  /\ epOpen = TRUE <=> configs # 0
  /\ configs = 0 => reqFree = ReqBlocks

ReqPhase ==
  /\ outArmed = TRUE => outDma = cur /\ reqSem = 0 /\ reqPc = "take" /\ configs # 0
  /\ reqSem # 0 => reqSem = 1 /\ reqPc = "take" /\ configs # 0
  /\ reqPc # "take" => configs # 0

ReqInv == ResInv /\ ReqPcs /\ ReqPhase /\ ReqOwnership

LEMMA InitReqInv == Init => ReqInv
<1>1. ASSUME Init PROVE ReqPcs /\ ReqPhase
  BY <1>1 DEF Init, ReqPcs, ReqPhase, Elems
<1>2. ASSUME Init PROVE ReqOwnership
  BY <1>2, PoolAssumption DEF Init, ReqOwnership, OwnCur, Distinct, Elems
<1>. QED BY <1>1, <1>2, InitResInv DEF ReqInv

(* Taking a step that leaves the request side alone. *)
LEMMA ReqSame ==
  ASSUME ReqInv, ResInv',
         UNCHANGED <<reqFree, reqMb, procReq, reqVars, epOpen, outDma, outArmed,
                     configs>>,
         procPc' \in {"alloc", "handle", "transfer", "free"}
           <=> procPc \in {"alloc", "handle", "transfer", "free"}
  PROVE  ReqInv'
<1>1. ReqPcs' /\ ReqPhase' BY DEF ReqInv, ReqPcs, ReqPhase, reqVars, Elems
<1>2. ReqOwnership' BY DEF ReqInv, ReqOwnership, OwnCur, reqVars, Elems, Distinct
<1>. QED BY <1>1, <1>2 DEF ReqInv

LEMMA ReqStepReqInv ==
  ASSUME ReqInv, ResInv', ReqThread PROVE ReqInv'
<1>. USE DEF procVars, usbVars, hostVars
<1>0. TypeOK /\ TypeOK' /\ ReqPcs /\ ReqPhase /\ ReqOwnership
  BY DEF ReqInv, ResInv
<1>1. CASE ReqTake
  <2>1. ReqPcs' BY <1>0, <1>1 DEF ReqPcs, ReqTake, Elems
  <2>2. ReqPhase' BY <1>0, <1>1 DEF TypeOK, ReqPhase, ReqTake
  <2>3. ReqOwnership'
    BY <1>0, <1>1 DEF ReqOwnership, OwnCur, ReqTake, Elems, Distinct
  <2>. QED BY <2>1, <2>2, <2>3 DEF ReqInv
<1>2. CASE ReqDispatch
  <2>1. reqPc = "dispatch" /\ reqPc' \in {"arm", "send"} BY <1>2 DEF ReqDispatch
  <2>2. ReqPcs' BY <1>0, <1>2, <2>1 DEF ReqPcs, ReqDispatch, Elems
  <2>3. ReqPhase' BY <1>0, <1>2, <2>1 DEF TypeOK, ReqPhase, ReqDispatch
  <2>4. ReqOwnership'
    BY <1>0, <1>2, <2>1 DEF ReqOwnership, OwnCur, ReqDispatch, Elems, Distinct
  <2>. QED BY <2>2, <2>3, <2>4 DEF ReqInv
<1>3. CASE ReqSend
  <2>1. cur # Null /\ cur \in ReqBlocks /\ OwnCur = {cur}
    BY <1>0, <1>3 DEF TypeOK, ReqPcs, ReqPhase, ReqSend, OwnCur
  <2>2. cur \notin Elems(reqMb) BY <1>0, <2>1 DEF ReqOwnership
  <2>3. /\ Elems(reqMb') = Elems(reqMb) \cup {cur} /\ Distinct(reqMb')
    <3>1. reqMb \in Seq(ReqBlocks \cup {Null}) /\ Distinct(reqMb)
      BY <1>0 DEF TypeOK, ReqOwnership
    <3>. QED BY <1>3, <2>1, <2>2, <3>1, AppendElems DEF ReqSend
  <2>4. ReqPcs'
    <3>1. Null \notin Elems(reqMb') BY <1>0, <2>1, <2>3 DEF ReqPcs
    <3>2. Elems(reqMb)' = Elems(reqMb') OBVIOUS
    <3>. QED BY <1>0, <1>3, <3>1, <3>2 DEF ReqPcs, ReqSend
  <2>5. ReqPhase' BY <1>0, <1>3 DEF TypeOK, ReqPhase, ReqSend
  <2>6. ReqOwnership'
    <3>1. /\ OwnCur' = {} /\ reqNew = Null /\ reqNew' = Null
          /\ reqFree' = reqFree /\ procReq' = procReq
          /\ Elems(reqMb)' = Elems(reqMb') /\ Distinct(reqMb)' = Distinct(reqMb')
      BY <1>0, <1>3 DEF ReqPcs, ReqSend, OwnCur
    <3>2. Null \notin reqFree BY <1>0, PoolAssumption DEF TypeOK
    <3>. QED BY <1>0, <2>1, <2>3, <3>1, <3>2 DEF ReqOwnership, ReqPcs
  <2>. QED BY <2>4, <2>5, <2>6 DEF ReqInv
<1>4. CASE ReqAlloc
  <2>1. PICK b \in reqFree : reqNew' = b /\ reqFree' = reqFree \ {b}
    BY <1>4 DEF ReqAlloc
  <2>2. b # Null /\ b \in ReqBlocks /\ reqNew = Null /\ OwnCur = {} /\ OwnCur' = {}
        /\ Elems(reqMb)' = Elems(reqMb) /\ Distinct(reqMb)' = Distinct(reqMb)
    BY <1>0, <1>4, <2>1, PoolAssumption
    DEF TypeOK, ReqPcs, ReqAlloc, OwnCur, Elems, Distinct
  <2>3. ReqPcs' BY <1>0, <1>4, <2>1, <2>2 DEF ReqPcs, ReqPhase, ReqAlloc
  <2>4. ReqPhase' BY <1>0, <1>4 DEF TypeOK, ReqPhase, ReqAlloc
  <2>5. ReqOwnership'
    <3>1. procReq' = procReq BY <1>4 DEF ReqAlloc
    <3>. QED BY <1>0, <2>1, <2>2, <3>1 DEF ReqOwnership
  <2>. QED BY <2>3, <2>4, <2>5 DEF ReqInv
<1>5. CASE ReqStore
  <2>1. reqNew # Null /\ reqNew \in ReqBlocks /\ OwnCur = {} /\ OwnCur' = {reqNew}
        /\ Elems(reqMb)' = Elems(reqMb) /\ Distinct(reqMb)' = Distinct(reqMb)
    BY <1>0, <1>5 DEF TypeOK, ReqPcs, ReqStore, OwnCur, Elems, Distinct
  <2>2. ReqPcs' BY <1>0, <1>5, <2>1 DEF ReqPcs, ReqPhase, ReqStore
  <2>3. ReqPhase' BY <1>0, <1>5 DEF TypeOK, ReqPhase, ReqStore
  <2>4. ReqOwnership'
    <3>1. procReq' = procReq /\ reqFree' = reqFree /\ reqNew' = Null
      BY <1>5 DEF ReqStore
    <3>2. Null \notin reqFree BY <1>0, PoolAssumption DEF TypeOK
    <3>. QED BY <1>0, <2>1, <3>1, <3>2 DEF ReqOwnership, ReqPcs
  <2>. QED BY <2>2, <2>3, <2>4 DEF ReqInv
<1>6. CASE ReqArm
  <2>1. reqPc = "arm" /\ reqPc' = "take" /\ cur # Null /\ epOpen = TRUE
    BY <1>0, <1>6 DEF TypeOK, ReqPcs, ReqPhase, ReqArm
  <2>2. outDma' = cur /\ outArmed' = TRUE BY <1>6, <2>1 DEF ReqArm, StartRead
  <2>3. ReqPcs' BY <1>0, <1>6, <2>1 DEF ReqPcs, ReqArm, Elems
  <2>4. ReqPhase' BY <1>0, <1>6, <2>1, <2>2 DEF TypeOK, ReqPhase, ReqArm
  <2>5. ReqOwnership'
    BY <1>0, <1>6, <2>1 DEF ReqOwnership, OwnCur, ReqArm, Elems, Distinct
  <2>. QED BY <2>3, <2>4, <2>5 DEF ReqInv
<1>. QED BY <1>1, <1>2, <1>3, <1>4, <1>5, <1>6 DEF ReqThread

LEMMA ProcStepReqInv ==
  ASSUME ReqInv, ResInv', ProcThread PROVE ReqInv'
<1>. USE DEF reqVars, usbVars, hostVars
<1>0. TypeOK /\ TypeOK' /\ ReqPcs /\ ReqPhase /\ ReqOwnership
  BY DEF ReqInv, ResInv
<1>1. CASE ProcRecv
  <2>1. /\ procReq' = Head(reqMb) /\ Head(reqMb) \in Elems(reqMb)
        /\ Head(reqMb) \in ReqBlocks \cup {Null}
        /\ Elems(reqMb) = Elems(Tail(reqMb)) \cup {Head(reqMb)}
        /\ Distinct(Tail(reqMb)) /\ Head(reqMb) \notin Elems(Tail(reqMb))
    <3>1. reqMb \in Seq(ReqBlocks \cup {Null}) /\ Distinct(reqMb)
      BY <1>0 DEF TypeOK, ReqOwnership
    <3>. QED BY <1>1, <3>1, TailElems DEF ProcRecv
  <2>2. Head(reqMb) # Null /\ procReq = Null BY <1>0, <1>1, <2>1 DEF ReqPcs, ProcRecv
  <2>3. /\ reqFree' = reqFree /\ reqNew' = reqNew /\ OwnCur' = OwnCur
        /\ Elems(reqMb)' = Elems(Tail(reqMb))
        /\ Distinct(reqMb)' = Distinct(Tail(reqMb))
    BY <1>1 DEF ProcRecv, OwnCur
  <2>4. ReqPcs' BY <1>0, <1>1, <2>1, <2>2, <2>3 DEF ReqPcs, ProcRecv
  <2>5. ReqPhase' BY <1>0, <1>1 DEF ReqPhase, ProcRecv
  <2>6. ReqOwnership'
    BY <1>0, <2>1, <2>2, <2>3 DEF ReqOwnership, ReqPcs
  <2>. QED BY <2>4, <2>5, <2>6 DEF ReqInv
<1>2. CASE ProcAlloc BY <1>2, ReqSame DEF ProcAlloc
<1>3. CASE ProcHandle
  <2>1. procPc = "handle" /\ procPc' \in {"transfer", "free"} BY <1>3 DEF ProcHandle
  <2>. QED BY <1>3, <2>1, ReqSame DEF ProcHandle
<1>4. CASE ProcTransfer
  <2>1. procPc = "transfer" /\ procPc' \in {"transfer", "free"}
    BY <1>4 DEF ProcTransfer
  <2>. QED BY <1>4, <2>1, ReqSame DEF ProcTransfer
<1>5. CASE ProcFree
  <2>1. procReq # Null /\ procReq \in ReqBlocks BY <1>0, <1>5 DEF TypeOK, ReqPcs, ProcFree
  <2>2. /\ reqFree' = reqFree \cup {procReq} /\ procReq' = Null
        /\ reqNew' = reqNew /\ OwnCur' = OwnCur
        /\ Elems(reqMb)' = Elems(reqMb) /\ Distinct(reqMb)' = Distinct(reqMb)
    BY <1>5, <2>1 DEF ProcFree, OwnCur, Elems, Distinct
  <2>3. ReqPcs' BY <1>0, <1>5, <2>1, <2>2 DEF TypeOK, ReqPcs, ProcFree
  <2>4. ReqPhase' BY <1>0, <1>5 DEF ReqPhase, ProcFree
  <2>5. ReqOwnership'
    <3>1. /\ Null \notin reqFree /\ Null \notin Elems(reqMb)
          /\ Null \notin OwnCur
      BY <1>0, PoolAssumption DEF TypeOK, ReqPcs, OwnCur
    <3>2. /\ Distinct(reqMb) /\ reqFree \cap Elems(reqMb) = {}
          /\ procReq \notin reqFree \cup Elems(reqMb)
          /\ reqNew \notin reqFree \cup Elems(reqMb) \cup {procReq}
          /\ OwnCur \cap (reqFree \cup Elems(reqMb) \cup {procReq, reqNew}) = {}
      BY <1>0, <2>1 DEF ReqOwnership
    <3>3. reqFree \cup Elems(reqMb) \cup OwnCur \cup ({procReq, reqNew} \ {Null})
            = ReqBlocks
      BY <1>0 DEF ReqOwnership
    <3>4. reqFree' \cup Elems(reqMb)' \cup OwnCur' \cup ({procReq', reqNew'} \ {Null})
            = ReqBlocks
      BY <2>1, <2>2, <3>3
    <3>5. /\ Distinct(reqMb)' /\ reqFree' \cap Elems(reqMb)' = {}
          /\ procReq' \notin reqFree' \cup Elems(reqMb)'
      BY <2>1, <2>2, <3>1, <3>2
    <3>6. reqNew' \notin reqFree' \cup Elems(reqMb)' \cup ({procReq'} \ {Null})
      BY <2>2, <3>2
    <3>7. OwnCur' \cap (reqFree' \cup Elems(reqMb)' \cup {procReq', reqNew'}) = {}
      BY <2>2, <3>1, <3>2
    <3>. QED BY <3>4, <3>5, <3>6, <3>7 DEF ReqOwnership
  <2>. QED BY <2>3, <2>4, <2>5 DEF ReqInv
<1>6. CASE ProcSend BY <1>6, ReqSame DEF ProcSend
<1>. QED BY <1>1, <1>2, <1>3, <1>4, <1>5, <1>6 DEF ProcThread

LEMMA HostStepReqInv ==
  ASSUME ReqInv, ResInv',
         HostRequest \/ HostAbort \/ DapIn \/ (configs = 0 /\ Configure)
  PROVE  ReqInv'
<1>. USE DEF reqVars, procVars, resVars
<1>0. TypeOK /\ TypeOK' /\ ReqPcs /\ ReqPhase /\ ReqOwnership
  BY DEF ReqInv, ResInv
<1>1. ASSUME NEW req, DapOut(req) PROVE ReqInv'
  <2>1. outArmed = TRUE /\ reqSem' = reqSem + 1 /\ outArmed' = FALSE
    BY <1>0, <1>1 DEF TypeOK, DapOut
  <2>2. ReqPcs' BY <1>0, <1>1 DEF ReqPcs, DapOut, Elems
  <2>3. ReqPhase' BY <1>0, <1>1, <2>1 DEF TypeOK, ReqPhase, DapOut
  <2>4. ReqOwnership' BY <1>0, <1>1 DEF ReqOwnership, OwnCur, DapOut, Elems, Distinct
  <2>. QED BY <2>2, <2>3, <2>4 DEF ReqInv
<1>2. CASE HostRequest BY <1>1, <1>2 DEF HostRequest
<1>3. CASE HostAbort BY <1>1, <1>3 DEF HostAbort
<1>4. CASE DapIn BY <1>4, ReqSame DEF DapIn
<1>5. CASE configs = 0 /\ Configure
  <2>1. /\ reqFree = ReqBlocks /\ cur = Null /\ reqSem = 0 /\ reqPc = "take"
        /\ reqNew = Null
    BY <1>0, <1>5 DEF ReqPcs, ReqPhase, TypeOK
  <2>2. reqFree # {}
    <3>1. Cardinality({}) = 0 BY FS_EmptySet
    <3>. QED BY <2>1, <3>1, PoolAssumption
  <2>3. PICK b \in ReqBlocks : /\ reqFree' = ReqBlocks \ {b} /\ outDma' = b
                              /\ cur' = b /\ outArmed' = TRUE
    BY <1>5, <2>1, <2>2 DEF Configure
  <2>4. b # Null /\ configs' = 1 /\ epOpen' = TRUE
    BY <1>5, PoolAssumption DEF Configure
  <2>5. /\ procReq' = procReq /\ reqNew' = Null /\ reqPc' = "take" /\ reqSem' = 0
        /\ Elems(reqMb)' = Elems(reqMb) /\ Distinct(reqMb)' = Distinct(reqMb)
        /\ procPc' = procPc
    BY <1>5, <2>1 DEF Configure, Elems, Distinct
  <2>6. Elems(reqMb) = {} /\ procReq = Null
    <3>1. Elems(reqMb) \subseteq ReqBlocks \cup {Null}
      <4>1. reqMb \in Seq(ReqBlocks \cup {Null}) BY <1>0 DEF TypeOK
      <4>. QED BY <4>1 DEF Elems
    <3>. QED BY <1>0, <2>1, <3>1 DEF ReqPcs, ReqOwnership, TypeOK
  <2>7. ReqPcs' BY <1>0, <2>3, <2>4, <2>5 DEF ReqPcs
  <2>8. ReqPhase' BY <2>3, <2>4, <2>5 DEF ReqPhase
  <2>9. ReqOwnership'
    <3>1. OwnCur' = {b} BY <2>3, <2>4, <2>5 DEF OwnCur
    <3>. QED BY <1>0, <2>3, <2>4, <2>5, <2>6, <3>1, PoolAssumption DEF ReqOwnership
  <2>. QED BY <2>7, <2>8, <2>9 DEF ReqInv
<1>. QED BY <1>2, <1>3, <1>4, <1>5

LEMMA NextReqInv == ReqInv /\ [Next]_vars => ReqInv'
<1> SUFFICES ASSUME ReqInv, [Next]_vars PROVE ReqInv' OBVIOUS
<1>0. ResInv' BY NextIsNextAgain, NextResInv DEF ReqInv
<1>1. CASE ReqThread BY <1>0, <1>1, ReqStepReqInv
<1>2. CASE ProcThread BY <1>0, <1>2, ProcStepReqInv
<1>3. CASE ResThread
  <2>1. UNCHANGED <<reqFree, reqMb, reqVars, procVars, epOpen, outDma, outArmed,
                    configs>>
    BY <1>3 DEF ResThread, ResRecv, ResInit, ResWrite, ResWait, ResRelease, usbVars,
       hostVars
  <2>. QED BY <1>0, <2>1, ReqSame DEF procVars
<1>4. CASE HostRequest \/ HostAbort \/ DapIn \/ (configs = 0 /\ Configure)
  BY <1>0, <1>4, HostStepReqInv
<1>5. CASE UNCHANGED vars
  BY <1>0, <1>5, ReqSame DEF vars, procVars, usbVars, hostVars
<1>. QED BY <1>1, <1>2, <1>3, <1>4, <1>5 DEF Next, Threads

(* No request block is lost, shared or handed out twice (usb_main.c:       *)
(* 376-449).                                                               *)
THEOREM RequestsOwned == Spec => []ReqOwnership
<1>1. ReqInv => ReqOwnership BY DEF ReqInv
<1>. QED BY <1>1, InitReqInv, NextReqInv, PTL DEF Spec

(* The controller writes only into the block the request thread holds, and *)
(* sends only from the block the response thread waits for.                *)
THEOREM DmaIsolated == Spec => []DmaIsolation
<1>1. ReqInv => DmaIsolation
  <2> SUFFICES ASSUME ReqInv PROVE DmaIsolation OBVIOUS
  <2>0. TypeOK /\ ReqPcs /\ ReqPhase /\ ReqOwnership /\ ResPcs /\ ResOwnership
        /\ InPhase
    BY DEF ReqInv, ResInv
  <2>1. ASSUME outArmed
        PROVE  outDma \in ReqBlocks
               /\ outDma \notin reqFree \cup Elems(reqMb) \cup {procReq}
    <3>1. outDma = cur /\ reqPc = "take" /\ configs # 0
      BY <2>0, <2>1 DEF ReqPhase
    <3>2. cur # Null /\ OwnCur = {cur} BY <2>0, <3>1 DEF ReqPcs, OwnCur
    <3>. QED BY <2>0, <3>1, <3>2 DEF TypeOK, ReqOwnership
  <2>2. ASSUME inArmed \in ResBlocks
        PROVE  inArmed \notin resFree \cup Elems(resMb) \cup {procRes}
    <3>1. inArmed = resBlk /\ resBlk # Null
      BY <2>0, <2>2, PoolAssumption DEF InPhase
    <3>. QED BY <2>0, <3>1 DEF ResOwnership
  <2>. QED BY <2>1, <2>2 DEF DmaIsolation
<1>. QED BY <1>1, InitReqInv, NextReqInv, PTL DEF Spec

(* Neither mailbox is ever full when its sender gets to it, whatever the   *)
(* size of the pools.                                                      *)
THEOREM RoomInMailboxes == Spec => []MailboxesHaveRoom
<1>1. ReqInv => MailboxesHaveRoom
  <2> SUFFICES ASSUME ReqInv PROVE MailboxesHaveRoom OBVIOUS
  <2>0. TypeOK /\ ReqPcs /\ ReqPhase /\ ReqOwnership /\ ResPcs /\ ResOwnership
    BY DEF ReqInv, ResInv
  <2>1. ASSUME reqPc = "send" PROVE Len(reqMb) < PacketCount
    <3>1. cur \in ReqBlocks /\ OwnCur = {cur}
      BY <2>0, <2>1 DEF TypeOK, ReqPcs, ReqPhase, OwnCur
    <3>2. cur \notin Elems(reqMb) /\ Distinct(reqMb) BY <2>0, <3>1 DEF ReqOwnership
    <3>3. reqMb \in Seq(ReqBlocks)
      <4>1. reqMb \in Seq(ReqBlocks \cup {Null}) BY <2>0 DEF TypeOK
      <4>2. \A i \in 1 .. Len(reqMb) : reqMb[i] \in ReqBlocks
        BY <2>0, <4>1 DEF ReqPcs, Elems
      <4>. QED BY <4>1, <4>2, SeqWithout
    <3>. QED BY <3>1, <3>2, <3>3, ShortLen, PoolAssumption
  <2>2. ASSUME procPc = "send" PROVE Len(resMb) < PacketCount
    <3>1. procRes \in ResBlocks /\ procRes \notin Elems(resMb) /\ Distinct(resMb)
      BY <2>0, <2>2 DEF TypeOK, ResPcs, ResOwnership
    <3>2. resMb \in Seq(ResBlocks) BY <2>0 DEF TypeOK
    <3>. QED BY <3>1, <3>2, ShortLen, PoolAssumption
  <2>. QED BY <2>1, <2>2 DEF MailboxesHaveRoom
<1>. QED BY <1>1, InitReqInv, NextReqInv, PTL DEF Spec

-----------------------------------------------------------------------------
(* The pipeline keeps the order of the requests and implements DapService.  *)

(* The request the process thread works on, and the request that waits in  *)
(* cur_req_buffer.                                                         *)
AtWork == IF procPc = "recv" THEN 0 ELSE 1
Pending == /\ reqSem # 0 \/ reqPc \in {"dispatch", "send"}
           /\ reqData[cur].kind # "abort"
Waiting == IF Pending THEN 1 ELSE 0

(* How many requests have been forwarded at all.                           *)
Forwarded == Responded + AtWork + Len(reqMb)

(* The requests stand in line: read from the host's side backwards, their  *)
(* numbers follow one another without a gap.                               *)
InOrder == \A i \in 1..Len(answered) : answered[i].id = i
HandLine == InHand = 1 => resData[resBlk].id = Len(answered) + 1
ResMbLine ==
  \A i \in 1 .. Len(resMb) : resData[resMb[i]].id = Len(answered) + InHand + i
ProcLine ==
  /\ procPc \in {"transfer", "free", "send"} =>
       resData[procRes].id = Responded + 1
  /\ procPc \in {"alloc", "handle"} => reqData[procReq].id = Responded + 1
ReqMbLine ==
  \A i \in 1 .. Len(reqMb) : reqData[reqMb[i]].id = Responded + AtWork + i
PendingLine ==
  /\ reqPc = "send" => reqData[cur].kind # "abort"
  /\ Pending => reqData[cur].id = Forwarded + 1
SentLine == sent = Forwarded + Waiting

Line ==
  /\ configs = 0 => resFree = ResBlocks
  /\ InOrder /\ HandLine /\ ResMbLine /\ ProcLine /\ ReqMbLine /\ PendingLine
  /\ SentLine

LineInv == ReqInv /\ Line

LEMMA Counts ==
  ASSUME TypeOK
  PROVE  /\ Len(answered) \in Nat /\ InHand \in 0 .. 1 /\ AtWork \in 0 .. 1
         /\ Waiting \in 0 .. 1 /\ Len(resMb) \in Nat /\ Len(reqMb) \in Nat
         /\ Responded \in Nat /\ Forwarded \in Nat
<1>1. /\ Len(answered) \in Nat /\ Len(resMb) \in Nat /\ Len(reqMb) \in Nat
      /\ InHand \in 0 .. 1 /\ AtWork \in 0 .. 1 /\ Waiting \in 0 .. 1
  BY DEF TypeOK, InHand, AtWork, Waiting
<1>. QED BY <1>1 DEF Responded, Forwarded

LEMMA InitLineInv == Init => LineInv
<1>1. ASSUME Init PROVE Line
  <2>1. /\ InHand = 0 /\ AtWork = 0 /\ ~Pending /\ Waiting = 0
        /\ Len(answered) = 0 /\ Len(resMb) = 0 /\ Len(reqMb) = 0
    BY <1>1, NamesAssumption DEF Init, InHand, AtWork, Pending, Waiting
  <2>2. Responded = 0 /\ Forwarded = 0 BY <2>1 DEF Responded, Forwarded
  <2>. QED BY <1>1, <2>1, <2>2 DEF Init, Line, InOrder, HandLine, ResMbLine,
          ProcLine, ReqMbLine, PendingLine, SentLine
<1>. QED BY <1>1, InitReqInv DEF LineInv

(* What every step may assume. *)
LEMMA LineFacts ==
  ASSUME LineInv
  PROVE  /\ TypeOK /\ ReqPcs /\ ReqPhase /\ ReqOwnership /\ ResPcs
         /\ ResOwnership /\ InPhase
         /\ (configs = 0 => resFree = ResBlocks)
         /\ InOrder /\ HandLine /\ ResMbLine /\ ProcLine /\ ReqMbLine
         /\ PendingLine /\ SentLine
BY DEF LineInv, Line, ReqInv, ResInv

(* A step that moves no request leaves the line as it is. *)
LEMMA LineSame ==
  ASSUME LineInv,
         UNCHANGED <<answered, resMb, reqMb, sent, reqData>>,
         configs' = 0 => configs = 0 /\ resFree' = resFree,
         InHand' = InHand, AtWork' = AtWork, Pending' <=> Pending,
         cur' = cur \/ ~Pending,
         InHand = 1 => resBlk' = resBlk,
         resData' = resData, procRes' = procRes \/ procPc' = "handle",
         procReq' = procReq \/ procPc' = "send",
         procPc' \in {"transfer", "free", "send"}
           => procPc \in {"transfer", "free", "send"},
         procPc' \in {"alloc", "handle"} => procPc \in {"alloc", "handle"},
         reqPc' = "send" => Pending
  PROVE  Line'
<1>0. /\ (configs = 0 => resFree = ResBlocks)
      /\ InOrder /\ HandLine /\ ResMbLine /\ ProcLine /\ ReqMbLine
      /\ PendingLine /\ SentLine
  BY LineFacts
<1>1. Responded' = Responded /\ Forwarded' = Forwarded /\ Waiting' = Waiting
  BY DEF Responded, Forwarded, Waiting
<1>2. (configs = 0 => resFree = ResBlocks)' BY <1>0
<1>3. InOrder' BY <1>0 DEF InOrder
<1>4. HandLine' BY <1>0 DEF HandLine
<1>5. ResMbLine' BY <1>0 DEF ResMbLine
<1>6. ProcLine' BY <1>0, <1>1 DEF ProcLine
<1>7. ReqMbLine' BY <1>0, <1>1 DEF ReqMbLine
<1>8. PendingLine' BY <1>0, <1>1 DEF PendingLine, Pending
<1>9. SentLine' BY <1>0, <1>1 DEF SentLine
<1>. QED BY <1>2, <1>3, <1>4, <1>5, <1>6, <1>7, <1>8, <1>9 DEF Line

LEMMA ReqStepLine ==
  ASSUME LineInv, ReqInv', ReqThread PROVE Line'
<1>. USE DEF procVars, resVars, usbVars, hostVars
<1>0. /\ TypeOK /\ ReqPcs /\ ReqPhase /\ ReqOwnership /\ PendingLine
  BY LineFacts
<1>c. /\ Len(answered) \in Nat /\ InHand \in 0 .. 1 /\ AtWork \in 0 .. 1
      /\ Waiting \in 0 .. 1 /\ Len(resMb) \in Nat /\ Len(reqMb) \in Nat
      /\ Responded \in Nat /\ Forwarded \in Nat
  BY <1>0, Counts
<1>1. CASE ReqTake
  <2>1. InHand' = InHand /\ AtWork' = AtWork BY <1>1 DEF ReqTake, InHand, AtWork
  <2>2. Pending' <=> Pending
    BY <1>0, <1>1 DEF TypeOK, ReqPhase, ReqTake, Pending
  <2>. QED BY <1>1, <2>1, <2>2, LineSame DEF ReqTake
<1>2. CASE ReqDispatch
  <2>1. InHand' = InHand /\ AtWork' = AtWork BY <1>2 DEF ReqDispatch, InHand, AtWork
  <2>2. ReadReq(cur) = reqData[cur] /\ reqSem = 0 /\ reqSem' = 0 /\ reqPc = "dispatch"
    BY <1>0, <1>2 DEF TypeOK, ReqPhase, ReqPcs, ReadReq, ReqDispatch
  <2>3. /\ Pending' <=> Pending
        /\ reqPc' = "send" => Pending
    BY <1>2, <2>2 DEF ReqDispatch, Pending
  <2>. QED BY <1>2, <2>1, <2>3, LineSame DEF ReqDispatch
<1>3. CASE ReqSend
  <2>0. (configs = 0 => resFree = ResBlocks) /\ InOrder /\ HandLine /\ ResMbLine
        /\ ProcLine /\ ReqMbLine /\ SentLine
    BY LineFacts
  <2>1. InHand' = InHand /\ AtWork' = AtWork BY <1>3 DEF ReqSend, InHand, AtWork
  <2>2. Pending /\ ~Pending' /\ reqSem = 0
    BY <1>0, <1>3 DEF TypeOK, ReqPhase, PendingLine, ReqSend, Pending
  <2>3. /\ reqMb' = Append(reqMb, cur) /\ Len(reqMb') = Len(reqMb) + 1
        /\ \A i \in 1 .. Len(reqMb) : reqMb'[i] = reqMb[i]
        /\ reqMb'[Len(reqMb) + 1] = cur
    BY <1>0, <1>3 DEF TypeOK, ReqSend
  <2>4. Responded' = Responded /\ Forwarded' = Forwarded + 1 /\ Waiting = 1 /\ Waiting' = 0
    <3>1. Waiting = 1 /\ Waiting' = 0 BY <2>2 DEF Waiting
    <3>2. Responded' = Responded BY <1>3, <2>1 DEF ReqSend, Responded
    <3>3. Forwarded = Responded + AtWork + Len(reqMb) BY DEF Forwarded
    <3>4. Forwarded' = Responded + AtWork + Len(reqMb')
      BY <2>1, <3>2 DEF Forwarded
    <3>. QED BY <1>c, <2>3, <3>1, <3>2, <3>3, <3>4
  <2>5. ReqMbLine'
    <3> SUFFICES ASSUME NEW i \in 1 .. Len(reqMb) + 1
                 PROVE  reqData[reqMb'[i]].id = Responded + AtWork + i
      BY <1>3, <2>1, <2>3, <2>4 DEF ReqMbLine, ReqSend
    <3>1. CASE i = Len(reqMb) + 1
      <4>1. reqData[cur].id = Forwarded + 1 BY <1>0, <2>2 DEF PendingLine
      <4>2. Forwarded = Responded + AtWork + Len(reqMb) BY DEF Forwarded
      <4>. QED BY <1>c, <2>3, <3>1, <4>1, <4>2
    <3>2. CASE i # Len(reqMb) + 1
      <4>1. i \in 1 .. Len(reqMb) BY <1>0, <3>2, Counts
      <4>. QED BY <2>0, <2>3, <4>1 DEF ReqMbLine
    <3>. QED BY <3>1, <3>2
  <2>6. (configs = 0 => resFree = ResBlocks)' /\ InOrder' /\ HandLine' /\ ResMbLine'
        /\ ProcLine'
    BY <1>3, <2>0, <2>1, <2>4
    DEF ReqSend, InOrder, HandLine, ResMbLine, ProcLine
  <2>7. PendingLine' BY <1>3, <2>2 DEF ReqSend, PendingLine
  <2>8. SentLine' BY <1>0, <1>3, <2>0, <2>4, Counts DEF ReqSend, SentLine
  <2>. QED BY <2>5, <2>6, <2>7, <2>8 DEF Line
<1>4. CASE ReqAlloc
  <2>1. InHand' = InHand /\ AtWork' = AtWork BY <1>4 DEF ReqAlloc, InHand, AtWork
  <2>2. ~Pending /\ ~Pending'
    BY <1>0, <1>4 DEF TypeOK, ReqPhase, ReqAlloc, Pending
  <2>. QED BY <1>4, <2>1, <2>2, LineSame DEF ReqAlloc
<1>5. CASE ReqStore
  <2>1. InHand' = InHand /\ AtWork' = AtWork BY <1>5 DEF ReqStore, InHand, AtWork
  <2>2. ~Pending /\ ~Pending'
    BY <1>0, <1>5 DEF TypeOK, ReqPhase, ReqStore, Pending
  <2>. QED BY <1>5, <2>1, <2>2, LineSame DEF ReqStore
<1>6. CASE ReqArm
  <2>1. InHand' = InHand /\ AtWork' = AtWork BY <1>6 DEF ReqArm, InHand, AtWork
  <2>2. ~Pending /\ ~Pending'
    BY <1>0, <1>6 DEF TypeOK, ReqPhase, ReqArm, Pending
  <2>. QED BY <1>6, <2>1, <2>2, LineSame DEF ReqArm
<1>. QED BY <1>1, <1>2, <1>3, <1>4, <1>5, <1>6 DEF ReqThread

(* The process thread takes the head of the line, and its response joins   *)
(* the end of the responses.                                               *)
LEMMA ProcStepLine ==
  ASSUME LineInv, ReqInv', ProcThread PROVE Line'
<1>. USE DEF reqVars, resVars, usbVars, hostVars
<1>0. /\ TypeOK /\ ReqPcs /\ ResPcs /\ ResOwnership /\ (configs = 0 => resFree = ResBlocks)
      /\ InOrder /\ HandLine /\ ResMbLine /\ ProcLine /\ ReqMbLine
      /\ PendingLine /\ SentLine
  BY LineFacts
<1>c. /\ Len(answered) \in Nat /\ InHand \in 0 .. 1 /\ AtWork \in 0 .. 1
      /\ Waiting \in 0 .. 1 /\ Len(resMb) \in Nat /\ Len(reqMb) \in Nat
      /\ Responded \in Nat /\ Forwarded \in Nat
  BY <1>0, Counts
<1>1. CASE ProcRecv
  <2>1. /\ InHand' = InHand /\ AtWork = 0 /\ AtWork' = 1 /\ (Pending' <=> Pending)
        /\ Waiting' = Waiting /\ Responded' = Responded
    BY <1>1 DEF ProcRecv, InHand, AtWork, Pending, Waiting, Responded
  <2>2. /\ procReq' = reqMb[1] /\ reqMb' = Tail(reqMb) /\ Len(reqMb) >= 1
        /\ Len(reqMb') = Len(reqMb) - 1
        /\ \A i \in 1 .. Len(reqMb) - 1 : reqMb'[i] = reqMb[i + 1]
    <3>1. /\ Head(reqMb) = reqMb[1] /\ Len(reqMb) >= 1
          /\ Len(Tail(reqMb)) = Len(reqMb) - 1
          /\ \A i \in 1 .. Len(reqMb) - 1 : Tail(reqMb)[i] = reqMb[i + 1]
      BY <1>0, <1>1, TailElems DEF TypeOK, ProcRecv
    <3>. QED BY <1>1, <3>1 DEF ProcRecv
  <2>3. Forwarded' = Forwarded
    <3>1. Forwarded = Responded + 0 + Len(reqMb) BY <2>1 DEF Forwarded
    <3>2. Forwarded' = Responded + 1 + Len(reqMb') BY <2>1 DEF Forwarded
    <3>3. Len(reqMb') = Len(reqMb) - 1 BY <2>2
    <3>. QED BY <1>c, <3>1, <3>2, <3>3
  <2>4. ReqMbLine'
    <3> SUFFICES ASSUME NEW i \in 1 .. Len(reqMb) - 1
                 PROVE  reqData[reqMb'[i]].id = Responded + 1 + i
      BY <1>1, <2>1, <2>2 DEF ReqMbLine, ProcRecv
    <3>1. i + 1 \in 1 .. Len(reqMb) BY <1>c
    <3>2. reqData[reqMb[i + 1]].id = Responded + 0 + (i + 1)
      BY <1>0, <2>1, <3>1 DEF ReqMbLine
    <3>. QED BY <1>c, <2>2, <3>2
  <2>5. ProcLine'
    <3>1. procPc' = "alloc" /\ reqData' = reqData BY <1>1 DEF ProcRecv
    <3>2. 1 \in 1 .. Len(reqMb) BY <1>c, <2>2
    <3>3. reqData[reqMb[1]].id = Responded + 0 + 1 BY <1>0, <2>1, <3>2 DEF ReqMbLine
    <3>. QED BY <1>c, <2>1, <2>2, <3>1, <3>3 DEF ProcLine
  <2>6. (configs = 0 => resFree = ResBlocks)' /\ InOrder' /\ HandLine' /\ ResMbLine'
        /\ PendingLine' /\ SentLine'
    BY <1>0, <1>1, <2>1, <2>3
    DEF ProcRecv, InOrder, HandLine, ResMbLine, PendingLine, SentLine
  <2>. QED BY <2>4, <2>5, <2>6 DEF Line
<1>2. CASE ProcAlloc
  <2>1. /\ InHand' = InHand /\ AtWork' = AtWork /\ (Pending' <=> Pending)
        /\ procPc' = "handle" /\ procPc = "alloc"
    BY <1>2 DEF ProcAlloc, InHand, AtWork, Pending
  <2>2. configs # 0
    <3>1. procReq # Null /\ procReq \in ReqBlocks BY <1>0, <2>1 DEF TypeOK, ReqPcs
    <3>2. procReq \notin reqFree BY LineFacts DEF ReqOwnership
    <3>. QED BY <1>0, <3>1, <3>2 DEF ReqPcs
  <2>. QED BY <1>2, <2>1, <2>2, LineSame, <1>0 DEF ProcAlloc, PendingLine, Pending
<1>3. CASE ProcHandle
  <2>1. /\ InHand' = InHand /\ AtWork' = AtWork /\ (Pending' <=> Pending)
        /\ Waiting' = Waiting /\ Responded' = Responded /\ Forwarded' = Forwarded
        /\ procPc = "handle" /\ procPc' \in {"transfer", "free"}
    BY <1>3 DEF ProcHandle, InHand, AtWork, Pending, Waiting, Responded, Forwarded
  <2>2. /\ procReq \in ReqBlocks /\ procRes \in ResBlocks /\ procReq # Null
        /\ procRes # Null /\ resBlk # procRes /\ procRes \notin Elems(resMb)
    BY <1>0, <2>1 DEF TypeOK, ReqPcs, ResPcs, ResOwnership
  <2>3. resData' = [resData EXCEPT ![procRes] =
                     [id |-> reqData[procReq].id, cut |-> FALSE]]
    BY <1>3, <2>2 DEF ProcHandle, ReadReq
  <2>4. /\ resData'[procRes].id = Responded + 1
        /\ \A b \in ResBlocks : b # procRes => resData'[b] = resData[b]
        /\ resData'[resBlk] = resData[resBlk]
    BY <1>0, <2>1, <2>2, <2>3 DEF TypeOK, ProcLine
  <2>5. ResMbLine'
    <3> SUFFICES ASSUME NEW i \in 1 .. Len(resMb)
                 PROVE  resData'[resMb[i]].id = Len(answered) + InHand + i
      BY <1>3, <2>1 DEF ResMbLine, ProcHandle
    <3>1. resMb[i] \in ResBlocks /\ resMb[i] # procRes
      BY <1>0, <2>2 DEF TypeOK, Elems
    <3>. QED BY <1>0, <2>4, <3>1 DEF ResMbLine
  <2>6. ProcLine' BY <1>3, <2>1, <2>4 DEF ProcHandle, ProcLine
  <2>7. (configs = 0 => resFree = ResBlocks)' /\ InOrder' /\ HandLine' /\ ReqMbLine'
        /\ PendingLine' /\ SentLine'
    BY <1>0, <1>3, <2>1, <2>4
    DEF ProcHandle, InOrder, HandLine, ReqMbLine, PendingLine, SentLine
  <2>. QED BY <2>5, <2>6, <2>7 DEF Line
<1>4. CASE ProcTransfer
  <2>1. /\ InHand' = InHand /\ AtWork' = AtWork /\ (Pending' <=> Pending)
        /\ Waiting' = Waiting /\ Responded' = Responded /\ Forwarded' = Forwarded
        /\ procPc = "transfer" /\ procPc' \in {"transfer", "free"}
    BY <1>4 DEF ProcTransfer, InHand, AtWork, Pending, Waiting, Responded, Forwarded
  <2>2. procRes \in ResBlocks /\ procRes # Null /\ resBlk # procRes
    BY <1>0, <2>1 DEF TypeOK, ResPcs, ResOwnership
  <2>3. \A b : resData'[b].id = resData[b].id
    <3>1. CASE resData' = resData BY <3>1
    <3>2. CASE resData' = [resData EXCEPT ![procRes].cut = procLeft > 1]
      <4>1. resData \in [ResBlocks -> Response] BY <1>0 DEF TypeOK
      <4>2. \A b \in ResBlocks : resData'[b].id = resData[b].id
        BY <3>2, <4>1 DEF Response
      <4>. QED BY <3>2, <4>2
    <3>. QED BY <1>4, <3>1, <3>2 DEF ProcTransfer
  <2>4. (configs = 0 => resFree = ResBlocks)' /\ InOrder' /\ HandLine' /\ ReqMbLine'
        /\ PendingLine' /\ SentLine' /\ ProcLine'
    BY <1>0, <1>4, <2>1, <2>3
    DEF ProcTransfer, InOrder, HandLine, ReqMbLine, PendingLine, SentLine, ProcLine
  <2>5. ResMbLine' BY <1>0, <1>4, <2>1, <2>3 DEF ProcTransfer, ResMbLine
  <2>. QED BY <2>4, <2>5 DEF Line
<1>5. CASE ProcFree
  <2>1. /\ InHand' = InHand /\ AtWork' = AtWork /\ (Pending' <=> Pending)
        /\ procPc' = "send" /\ procPc = "free"
    BY <1>5 DEF ProcFree, InHand, AtWork, Pending
  <2>. QED BY <1>5, <2>1, LineSame, <1>0 DEF ProcFree, PendingLine, Pending
<1>6. CASE ProcSend
  <2>1. /\ InHand' = InHand /\ AtWork = 1 /\ AtWork' = 0 /\ (Pending' <=> Pending)
        /\ Waiting' = Waiting /\ procPc = "send" /\ procPc' = "recv"
    BY <1>6 DEF ProcSend, InHand, AtWork, Pending, Waiting
  <2>2. procRes \in ResBlocks BY <1>0, <2>1 DEF TypeOK, ResPcs
  <2>3. /\ Len(resMb') = Len(resMb) + 1
        /\ \A i \in 1 .. Len(resMb) : resMb'[i] = resMb[i]
        /\ resMb'[Len(resMb) + 1] = procRes
    BY <1>0, <1>6, <2>2 DEF TypeOK, ProcSend
  <2>4. Responded' = Responded + 1 /\ Forwarded' = Forwarded
    <3>1. answered' = answered /\ reqMb' = reqMb BY <1>6 DEF ProcSend
    <3>2. Responded = Len(answered) + InHand + Len(resMb) BY DEF Responded
    <3>3. Responded' = Len(answered) + InHand + Len(resMb')
      BY <2>1, <3>1 DEF Responded
    <3>4. Len(resMb') = Len(resMb) + 1 BY <2>3
    <3>5. Responded' = Responded + 1 BY <1>c, <3>2, <3>3, <3>4
    <3>6. Forwarded = Responded + 1 + Len(reqMb) BY <2>1 DEF Forwarded
    <3>7. Forwarded' = Responded' + 0 + Len(reqMb) BY <2>1, <3>1 DEF Forwarded
    <3>. QED BY <1>c, <3>5, <3>6, <3>7
  <2>5. ResMbLine'
    <3> SUFFICES ASSUME NEW i \in 1 .. Len(resMb) + 1
                 PROVE  resData[resMb'[i]].id = Len(answered) + InHand + i
      BY <1>6, <2>1, <2>3 DEF ResMbLine, ProcSend
    <3>1. CASE i = Len(resMb) + 1
      <4>1. resData[procRes].id = Responded + 1 BY <1>0, <2>1 DEF ProcLine
      <4>2. Responded = Len(answered) + InHand + Len(resMb) BY DEF Responded
      <4>. QED BY <1>c, <2>3, <3>1, <4>1, <4>2
    <3>2. CASE i # Len(resMb) + 1
      <4>1. i \in 1 .. Len(resMb) BY <1>c, <3>2
      <4>. QED BY <1>0, <2>3, <4>1 DEF ResMbLine
    <3>. QED BY <3>1, <3>2
  <2>6. ReqMbLine'
    <3>1. \A i \in 1 .. Len(reqMb) : reqData[reqMb[i]].id = (Responded + 1) + 0 + i
      <4> TAKE i \in 1 .. Len(reqMb)
      <4>1. reqData[reqMb[i]].id = Responded + 1 + i BY <1>0, <2>1 DEF ReqMbLine
      <4>. QED BY <1>c, <4>1
    <3>. QED BY <1>6, <2>1, <2>4, <3>1 DEF ProcSend, ReqMbLine
  <2>7. (configs = 0 => resFree = ResBlocks)' /\ InOrder' /\ HandLine' /\ PendingLine'
        /\ SentLine' /\ ProcLine'
    BY <1>0, <1>6, <2>1, <2>4
    DEF ProcSend, InOrder, HandLine, PendingLine, SentLine, ProcLine
  <2>. QED BY <2>5, <2>6, <2>7 DEF Line
<1>. QED BY <1>1, <1>2, <1>3, <1>4, <1>5, <1>6 DEF ProcThread

(* The response thread takes the oldest response in hand and keeps it      *)
(* until the controller has sent it.                                       *)
LEMMA ResStepLine ==
  ASSUME LineInv, ReqInv', ResThread PROVE Line'
<1>. USE DEF reqVars, procVars, usbVars, hostVars
<1>0. /\ TypeOK /\ ReqPcs /\ ResPcs /\ ResOwnership /\ InPhase
      /\ (configs = 0 => resFree = ResBlocks)
      /\ InOrder /\ HandLine /\ ResMbLine /\ ProcLine /\ ReqMbLine
      /\ PendingLine /\ SentLine
  BY LineFacts
<1>c. /\ Len(answered) \in Nat /\ InHand \in 0 .. 1 /\ AtWork \in 0 .. 1
      /\ Waiting \in 0 .. 1 /\ Len(resMb) \in Nat /\ Len(reqMb) \in Nat
      /\ Responded \in Nat /\ Forwarded \in Nat
  BY <1>0, Counts
<1>o. resPc # "recv" => resBlk \in ResBlocks /\ configs # 0
  <2> SUFFICES ASSUME resPc # "recv" PROVE resBlk \in ResBlocks /\ configs # 0
    OBVIOUS
  <2>1. resBlk \in ResBlocks BY <1>0 DEF TypeOK, ResPcs
  <2>2. resBlk \notin resFree BY <1>0 DEF ResOwnership
  <2>. QED BY <1>0, <2>1, <2>2
<1>p. Idle \notin ResBlocks BY NamesAssumption
<1>1. CASE ResRecv
  <2>1. InHand = 0 /\ InHand' = 1
    BY <1>0, <1>1, <1>p DEF ResRecv, InPhase, InHand
  <2>2. AtWork' = AtWork /\ (Pending' <=> Pending) /\ Waiting' = Waiting
    BY <1>1 DEF ResRecv, AtWork, Pending, Waiting
  <2>3. /\ resBlk' = resMb[1] /\ Len(resMb) >= 1 /\ Len(resMb') = Len(resMb) - 1
        /\ \A i \in 1 .. Len(resMb) - 1 : resMb'[i] = resMb[i + 1]
    <3>1. /\ Head(resMb) = resMb[1] /\ Len(resMb) >= 1
          /\ Len(Tail(resMb)) = Len(resMb) - 1
          /\ \A i \in 1 .. Len(resMb) - 1 : Tail(resMb)[i] = resMb[i + 1]
      BY <1>0, <1>1, TailElems DEF TypeOK, ResRecv
    <3>. QED BY <1>1, <3>1 DEF ResRecv
  <2>4. Responded' = Responded /\ Forwarded' = Forwarded
    <3>1. Responded = Len(answered) + 0 + Len(resMb) BY <2>1 DEF Responded
    <3>2. Responded' = Len(answered) + 1 + Len(resMb')
      BY <1>1, <2>1 DEF ResRecv, Responded
    <3>3. Len(resMb') = Len(resMb) - 1 BY <2>3
    <3>4. Responded' = Responded BY <1>c, <3>1, <3>2, <3>3
    <3>. QED BY <1>1, <2>2, <3>4 DEF ResRecv, Forwarded
  <2>5. HandLine'
    <3>1. 1 \in 1 .. Len(resMb) BY <1>c, <2>3
    <3>2. resData[resMb[1]].id = Len(answered) + 0 + 1
      BY <1>0, <2>1, <3>1 DEF ResMbLine
    <3>. QED BY <1>1, <1>c, <2>3, <3>2 DEF ResRecv, HandLine
  <2>6. ResMbLine'
    <3> SUFFICES ASSUME NEW i \in 1 .. Len(resMb) - 1
                 PROVE  resData[resMb'[i]].id = Len(answered) + 1 + i
      BY <1>1, <2>1, <2>3 DEF ResMbLine, ResRecv
    <3>1. i + 1 \in 1 .. Len(resMb) BY <1>c
    <3>2. resData[resMb[i + 1]].id = Len(answered) + 0 + (i + 1)
      BY <1>0, <2>1, <3>1 DEF ResMbLine
    <3>. QED BY <1>c, <2>3, <3>2
  <2>7. (configs = 0 => resFree = ResBlocks)' /\ InOrder' /\ ProcLine' /\ ReqMbLine'
        /\ PendingLine' /\ SentLine'
    BY <1>0, <1>1, <2>2, <2>4
    DEF ResRecv, InOrder, ProcLine, ReqMbLine, PendingLine, SentLine
  <2>. QED BY <2>5, <2>6, <2>7 DEF Line
<1>2. CASE ResInit
  <2>1. /\ InHand' = InHand /\ AtWork' = AtWork /\ (Pending' <=> Pending)
    BY <1>2 DEF ResInit, InHand, AtWork, Pending
  <2>. QED BY <1>2, <2>1, LineSame, <1>0 DEF ResInit, PendingLine, Pending
<1>3. CASE ResWrite
  <2>1. inArmed' = resBlk /\ resBlk \in ResBlocks
    BY <1>0, <1>3, <1>o DEF ResWrite, ReqPcs
  <2>2. /\ InHand' = InHand /\ AtWork' = AtWork /\ (Pending' <=> Pending)
    BY <1>3, <2>1 DEF ResWrite, InHand, AtWork, Pending
  <2>. QED BY <1>3, <2>2, LineSame, <1>0 DEF ResWrite, PendingLine, Pending
<1>4. CASE ResWait
  <2>1. inArmed = Idle BY <1>0, <1>4 DEF ResWait, InPhase
  <2>2. /\ InHand' = InHand /\ AtWork' = AtWork /\ (Pending' <=> Pending)
    BY <1>4, <1>p, <2>1 DEF ResWait, InHand, AtWork, Pending
  <2>. QED BY <1>4, <2>2, LineSame, <1>0 DEF ResWait, PendingLine, Pending
<1>5. CASE ResRelease
  <2>1. inArmed = Idle BY <1>0, <1>5 DEF ResRelease, InPhase
  <2>2. /\ InHand = 0 /\ InHand' = 0 /\ AtWork' = AtWork /\ (Pending' <=> Pending)
    BY <1>5, <1>p, <2>1 DEF ResRelease, InHand, AtWork, Pending
  <2>3. configs' # 0 BY <1>5, <1>o DEF ResRelease
  <2>. QED BY <1>5, <2>2, <2>3, LineSame, <1>0 DEF ResRelease, PendingLine, Pending
<1>. QED BY <1>1, <1>2, <1>3, <1>4, <1>5 DEF ResThread

(* What holds when an OUT packet comes in: it goes to the block in         *)
(* cur_req_buffer, and nothing else waits there.                           *)
LEMMA OutPacket ==
  ASSUME LineInv, outArmed
  PROVE  /\ outDma = cur /\ reqSem = 0 /\ reqPc = "take" /\ ~Pending /\ Waiting = 0
         /\ cur \in ReqBlocks /\ cur \notin Elems(reqMb) /\ procReq # cur
<1>0. /\ TypeOK /\ ReqPcs /\ ReqPhase /\ ReqOwnership BY LineFacts
<1>1. outDma = cur /\ reqSem = 0 /\ reqPc = "take" /\ configs # 0
  BY <1>0 DEF ReqPhase
<1>2. ~Pending /\ Waiting = 0 BY <1>1 DEF Pending, Waiting
<1>3. cur \in ReqBlocks /\ OwnCur = {cur} BY <1>0, <1>1 DEF TypeOK, ReqPcs, OwnCur
<1>4. cur \notin Elems(reqMb) /\ procReq # cur BY <1>0, <1>3 DEF ReqOwnership
<1>. QED BY <1>1, <1>2, <1>3, <1>4

(* Nothing but the block in cur_req_buffer changes with an OUT packet. *)
LEMMA OutPacketKeeps ==
  ASSUME LineInv, NEW req, DapOut(req)
  PROVE  /\ (configs = 0 => resFree = ResBlocks)' /\ InOrder' /\ HandLine'
         /\ ResMbLine' /\ ProcLine' /\ ReqMbLine' /\ Forwarded' = Forwarded
         /\ reqData'[cur] = req /\ cur' = cur /\ reqPc' = "take" /\ reqSem' = 1
<1>. USE DEF procVars, resVars
<1>0. /\ TypeOK /\ (configs = 0 => resFree = ResBlocks)
      /\ InOrder /\ HandLine /\ ResMbLine /\ ProcLine /\ ReqMbLine
  BY LineFacts
<1>1. /\ outDma = cur /\ reqSem = 0 /\ reqPc = "take" /\ cur \in ReqBlocks
      /\ cur \notin Elems(reqMb) /\ procReq # cur
  <2>1. outArmed BY DEF DapOut
  <2>. QED BY <2>1, OutPacket
<1>2. InHand' = InHand /\ AtWork' = AtWork BY DEF DapOut, InHand, AtWork
<1>3. Responded' = Responded /\ Forwarded' = Forwarded
  BY <1>2 DEF DapOut, Responded, Forwarded
<1>4. reqData'[cur] = req /\ \A b : b # cur => reqData'[b] = reqData[b]
  BY <1>0, <1>1 DEF TypeOK, DapOut
<1>5. ReqMbLine'
  <2> SUFFICES ASSUME NEW i \in 1 .. Len(reqMb)
               PROVE  reqData'[reqMb[i]].id = Responded + AtWork + i
    BY <1>2, <1>3 DEF ReqMbLine, DapOut
  <2>1. reqMb[i] # cur BY <1>1 DEF Elems
  <2>. QED BY <1>0, <1>4, <2>1 DEF ReqMbLine
<1>6. ProcLine' BY <1>0, <1>1, <1>3, <1>4 DEF DapOut, ProcLine
<1>7. (configs = 0 => resFree = ResBlocks)' /\ InOrder' /\ HandLine' /\ ResMbLine'
  BY <1>0, <1>2 DEF DapOut, InOrder, HandLine, ResMbLine
<1>. QED BY <1>1, <1>3, <1>4, <1>5, <1>6, <1>7 DEF DapOut

(* The host: a request joins the end of the line, an abort does not, and a *)
(* response read leaves its head.                                          *)
LEMMA HostStepLine ==
  ASSUME LineInv, ReqInv',
         HostRequest \/ HostAbort \/ DapIn \/ (configs = 0 /\ Configure)
  PROVE  Line'
<1>. USE DEF reqVars, procVars, resVars
<1>0. /\ TypeOK /\ ReqPcs /\ ReqPhase /\ ResPcs /\ ResOwnership /\ InPhase
      /\ (configs = 0 => resFree = ResBlocks)
      /\ InOrder /\ HandLine /\ ResMbLine /\ ProcLine /\ ReqMbLine
      /\ PendingLine /\ SentLine
  BY LineFacts
<1>c. /\ Len(answered) \in Nat /\ InHand \in 0 .. 1 /\ AtWork \in 0 .. 1
      /\ Waiting \in 0 .. 1 /\ Len(resMb) \in Nat /\ Len(reqMb) \in Nat
      /\ Responded \in Nat /\ Forwarded \in Nat /\ sent \in Nat
  BY <1>0, Counts DEF TypeOK
<1>p. Idle \notin ResBlocks /\ Zlp \notin ResBlocks /\ Idle # Zlp
  BY NamesAssumption DEF Idle, Zlp
<1>1. CASE HostRequest
  <2>1. PICK k \in Kinds \ {"abort"} : DapOut([id |-> sent + 1, kind |-> k])
    BY <1>1 DEF HostRequest
  <2>2. Waiting = 0 BY <2>1, OutPacket DEF DapOut
  <2>3. /\ (configs = 0 => resFree = ResBlocks)' /\ InOrder' /\ HandLine'
        /\ ResMbLine' /\ ProcLine' /\ ReqMbLine' /\ Forwarded' = Forwarded
        /\ reqData'[cur] = [id |-> sent + 1, kind |-> k]
        /\ cur' = cur /\ reqPc' = "take" /\ reqSem' = 1
    BY <2>1, OutPacketKeeps
  <2>4. Pending' /\ Waiting' = 1 BY <2>1, <2>3 DEF Pending, Waiting
  <2>5. sent = Forwarded BY <1>0, <1>c, <2>2 DEF SentLine
  <2>6. PendingLine' BY <2>3, <2>5 DEF PendingLine
  <2>7. SentLine' BY <1>1, <2>3, <2>4, <2>5 DEF HostRequest, SentLine
  <2>. QED BY <2>3, <2>6, <2>7 DEF Line
<1>2. CASE HostAbort
  <2>1. DapOut([id |-> 0, kind |-> "abort"]) BY <1>2 DEF HostAbort
  <2>2. Waiting = 0 BY <2>1, OutPacket DEF DapOut
  <2>3. /\ (configs = 0 => resFree = ResBlocks)' /\ InOrder' /\ HandLine'
        /\ ResMbLine' /\ ProcLine' /\ ReqMbLine' /\ Forwarded' = Forwarded
        /\ reqData'[cur] = [id |-> 0, kind |-> "abort"]
        /\ cur' = cur /\ reqPc' = "take" /\ reqSem' = 1
    BY <2>1, OutPacketKeeps
  <2>4. ~Pending' /\ Waiting' = 0 BY <2>3 DEF Pending, Waiting
  <2>5. PendingLine' BY <2>3, <2>4 DEF PendingLine
  <2>6. SentLine' BY <1>0, <1>2, <2>2, <2>3, <2>4 DEF HostAbort, SentLine
  <2>. QED BY <2>3, <2>5, <2>6 DEF Line
<1>3. CASE DapIn /\ inArmed \in ResBlocks
  <2>1. /\ InHand = 1 /\ inArmed = resBlk /\ resPc = "wait"
        /\ answered' = Append(answered, resData[resBlk])
        /\ inArmed' \in {Idle, Zlp} /\ resPc' = resPc
    BY <1>0, <1>3, <1>p DEF DapIn, InPhase, InHand
  <2>2. InHand' = 0 BY <1>p, <2>1 DEF InHand
  <2>3. AtWork' = AtWork /\ (Pending' <=> Pending) /\ Waiting' = Waiting
    BY <1>3 DEF DapIn, AtWork, Pending, Waiting
  <2>4. /\ Len(answered') = Len(answered) + 1
        /\ \A i \in 1 .. Len(answered) : answered'[i] = answered[i]
        /\ answered'[Len(answered) + 1] = resData[resBlk]
    <3>1. resData[resBlk] \in Response BY <1>0, <1>3, <2>1 DEF TypeOK
    <3>. QED BY <1>0, <2>1, <3>1 DEF TypeOK
  <2>5. Responded' = Responded /\ Forwarded' = Forwarded
    <3>1. Responded = Len(answered) + 1 + Len(resMb) BY <2>1 DEF Responded
    <3>2. Responded' = Len(answered') + 0 + Len(resMb)
      BY <1>3, <2>2 DEF DapIn, Responded
    <3>3. Len(answered') = Len(answered) + 1 BY <2>4
    <3>4. Responded' = Responded BY <1>c, <3>1, <3>2, <3>3
    <3>. QED BY <1>3, <2>3, <3>4 DEF DapIn, Forwarded
  <2>6. InOrder'
    <3> SUFFICES ASSUME NEW i \in 1 .. Len(answered) + 1
                 PROVE  answered'[i].id = i
      BY <2>4 DEF InOrder
    <3>1. CASE i = Len(answered) + 1
      <4>1. resData[resBlk].id = Len(answered) + 1 BY <1>0, <2>1 DEF HandLine
      <4>. QED BY <2>4, <3>1, <4>1
    <3>2. CASE i # Len(answered) + 1
      <4>1. i \in 1 .. Len(answered) BY <1>c, <3>2
      <4>. QED BY <1>0, <2>4, <4>1 DEF InOrder
    <3>. QED BY <3>1, <3>2
  <2>7. HandLine' BY <2>2 DEF HandLine
  <2>8. ResMbLine'
    <3> SUFFICES ASSUME NEW i \in 1 .. Len(resMb)
                 PROVE  resData[resMb[i]].id = Len(answered') + 0 + i
      BY <1>3, <2>2 DEF DapIn, ResMbLine
    <3>1. resData[resMb[i]].id = Len(answered) + 1 + i
      BY <1>0, <2>1 DEF ResMbLine
    <3>2. Len(answered') = Len(answered) + 1 BY <2>4
    <3>. QED BY <1>c, <3>1, <3>2
  <2>9. (configs = 0 => resFree = ResBlocks)' /\ ProcLine' /\ ReqMbLine'
        /\ PendingLine' /\ SentLine'
    BY <1>0, <1>3, <2>3, <2>5 DEF DapIn, ProcLine, ReqMbLine, PendingLine, SentLine
  <2>. QED BY <2>6, <2>7, <2>8, <2>9 DEF Line
<1>4. CASE DapIn /\ inArmed \notin ResBlocks
  <2>1. /\ inArmed = Zlp /\ inArmed' = Idle /\ answered' = answered
        /\ resPc' = resPc
    BY <1>4 DEF DapIn
  <2>2. /\ InHand' = InHand /\ AtWork' = AtWork /\ (Pending' <=> Pending)
    BY <1>4, <1>p, <2>1 DEF DapIn, InHand, AtWork, Pending
  <2>. QED BY <1>4, <2>1, <2>2, LineSame, <1>0 DEF DapIn, PendingLine, Pending
<1>5. CASE configs = 0 /\ Configure
  <2>1. reqSem = 0 /\ reqPc = "take" BY <1>0, <1>5 DEF ReqPhase, TypeOK
  <2>2. ~Pending /\ ~Pending' /\ AtWork' = AtWork
    BY <1>5, <2>1 DEF Configure, Pending, AtWork
  <2>3. inArmed = Idle /\ resPc = "recv"
    <3>1. resBlk = Null BY <1>0, <1>5 DEF TypeOK, ResOwnership
    <3>. QED BY <1>0, <3>1 DEF ResPcs, InPhase
  <2>4. InHand = 0 /\ InHand' = 0 BY <1>5, <1>p, <2>3 DEF Configure, InHand
  <2>5. configs' # 0 BY <1>0, <1>5 DEF TypeOK, Configure
  <2>6. reqPc' # "send" BY <1>5, <2>1 DEF Configure
  <2>. QED BY <1>5, <2>2, <2>4, <2>5, <2>6, LineSame DEF Configure
<1>. QED BY <1>1, <1>2, <1>3, <1>4, <1>5

LEMMA NextLineInv == LineInv /\ [Next]_vars => LineInv'
<1> SUFFICES ASSUME LineInv, [Next]_vars PROVE LineInv' OBVIOUS
<1>0. ReqInv' BY NextReqInv DEF LineInv
<1>1. CASE ReqThread BY <1>0, <1>1, ReqStepLine DEF LineInv
<1>2. CASE ProcThread BY <1>0, <1>2, ProcStepLine DEF LineInv
<1>3. CASE ResThread BY <1>0, <1>3, ResStepLine DEF LineInv
<1>4. CASE HostRequest \/ HostAbort \/ DapIn \/ (configs = 0 /\ Configure)
  BY <1>0, <1>4, HostStepLine DEF LineInv
<1>5. CASE UNCHANGED vars
  <2>1. Line'
    <3>1. InHand' = InHand /\ AtWork' = AtWork /\ (Pending' <=> Pending)
      BY <1>5 DEF vars, reqVars, procVars, resVars, usbVars, InHand, AtWork, Pending
    <3>2. reqPc' = "send" => Pending
      BY <1>5, LineFacts DEF vars, reqVars, PendingLine, Pending
    <3>. QED BY <1>5, <3>1, <3>2, LineSame
         DEF vars, reqVars, procVars, resVars, usbVars, hostVars
  <2>. QED BY <1>0, <2>1 DEF LineInv
<1>. QED BY <1>1, <1>2, <1>3, <1>4, <1>5 DEF Next, Threads
-----------------------------------------------------------------------------
(* The window: every request that is not answered yet has a request block  *)
(* or a response block of its own, or both.                                *)

LEMMA ShorterLen ==
  ASSUME NEW S, IsFiniteSet(S), NEW q \in Seq(S), Distinct(q),
         NEW x \in S, x \notin Elems(q), NEW y \in S, y \notin Elems(q), x # y
  PROVE  Len(q) + 1 < Cardinality(S)
<1>1. IsFiniteSet(S \ {y}) /\ Cardinality(S \ {y}) = Cardinality(S) - 1
  BY FS_RemoveElement
<1>2. q \in Seq(S \ {y})
  <2>1. \A i \in 1 .. Len(q) : q[i] \in S \ {y} BY DEF Elems
  <2>. QED BY <2>1, SeqWithout
<1>3. Len(q) < Cardinality(S \ {y}) BY <1>1, <1>2, ShortLen
<1>4. Cardinality(S) \in Nat /\ Len(q) \in Nat BY FS_CardinalityType
<1>. QED BY <1>1, <1>3, <1>4

(* The responses in hand, in the mailbox and in the making have different  *)
(* blocks.                                                                 *)
LEMMA ResponsesFit ==
  ASSUME LineInv
  PROVE  /\ InHand + Len(resMb) <= PacketCount
         /\ procRes # Null => InHand + Len(resMb) < PacketCount
<1>0. /\ TypeOK /\ ResPcs /\ ResOwnership /\ InPhase BY LineFacts
<1>1. resMb \in Seq(ResBlocks) /\ Distinct(resMb) /\ Len(resMb) \in Nat
  BY <1>0 DEF TypeOK, ResOwnership
<1>2. /\ IsFiniteSet(ResBlocks) /\ Cardinality(ResBlocks) = PacketCount
      /\ PacketCount \in Nat
  BY PoolAssumption
<1>3. procRes # Null => procRes \in ResBlocks /\ procRes \notin Elems(resMb)
  BY <1>0 DEF TypeOK, ResOwnership
<1>4. InHand = 1 => resBlk \in ResBlocks /\ resBlk \notin Elems(resMb)
  <2>1. InHand = 1 => resBlk # Null
    BY <1>0, PoolAssumption DEF InHand, InPhase, ResPcs
  <2>. QED BY <1>0, <2>1 DEF TypeOK, ResOwnership
<1>5. InHand = 0 \/ InHand = 1 BY DEF InHand
<1>6. Len(resMb) <= PacketCount BY <1>1, <1>2, DistinctLen
<1>7. procRes # Null => Len(resMb) < PacketCount
  BY <1>1, <1>2, <1>3, ShortLen
<1>8. InHand = 1 => Len(resMb) < PacketCount BY <1>1, <1>2, <1>4, ShortLen
<1>9. InHand = 1 /\ procRes # Null => Len(resMb) + 1 < PacketCount
  <2>1. InHand = 1 /\ procRes # Null => resBlk # procRes
    BY <1>0, <1>3 DEF ResOwnership
  <2>. QED BY <1>1, <1>2, <1>3, <1>4, <2>1, ShorterLen
<1>. QED BY <1>1, <1>2, <1>5, <1>6, <1>7, <1>8, <1>9

(* The requests in the mailbox, and the one being worked on, leave the     *)
(* block the endpoint is armed with.                                       *)
LEMMA RequestsFit ==
  ASSUME LineInv, outArmed
  PROVE  /\ Len(reqMb) < PacketCount
         /\ procReq # Null => Len(reqMb) + 1 < PacketCount
<1>0. /\ TypeOK /\ ReqPcs /\ ReqOwnership BY LineFacts
<1>1. reqMb \in Seq(ReqBlocks) /\ Distinct(reqMb)
  <2>1. reqMb \in Seq(ReqBlocks \cup {Null}) BY <1>0 DEF TypeOK
  <2>2. \A i \in 1 .. Len(reqMb) : reqMb[i] \in ReqBlocks
    BY <1>0, <2>1 DEF ReqPcs, Elems
  <2>. QED BY <1>0, <2>1, <2>2, SeqWithout DEF ReqOwnership
<1>2. /\ IsFiniteSet(ReqBlocks) /\ Cardinality(ReqBlocks) = PacketCount
      /\ PacketCount \in Nat
  BY PoolAssumption
<1>3. cur \in ReqBlocks /\ cur \notin Elems(reqMb) /\ procReq # cur
  BY OutPacket
<1>4. procReq # Null => procReq \in ReqBlocks /\ procReq \notin Elems(reqMb)
  BY <1>0 DEF TypeOK, ReqOwnership
<1>5. Len(reqMb) < PacketCount BY <1>1, <1>2, <1>3, ShortLen
<1>6. procReq # Null => Len(reqMb) + 1 < PacketCount
  BY <1>1, <1>2, <1>3, <1>4, ShorterLen
<1>. QED BY <1>5, <1>6

LEMMA WindowOpen ==
  ASSUME LineInv, outArmed PROVE sent - Len(answered) < 2 * PacketCount
<1>0. /\ TypeOK /\ ReqPcs /\ ResPcs /\ SentLine BY LineFacts
<1>c. /\ Len(answered) \in Nat /\ InHand \in 0 .. 1 /\ AtWork \in 0 .. 1
      /\ Len(resMb) \in Nat /\ Len(reqMb) \in Nat
      /\ Responded \in Nat /\ Forwarded \in Nat
  BY <1>0, Counts
<1>1. Waiting = 0 BY OutPacket
<1>2. sent = (Len(answered) + InHand + Len(resMb)) + AtWork + Len(reqMb) + 0
  BY <1>0, <1>1 DEF SentLine, Forwarded, Responded
<1>3. PacketCount \in Nat BY PoolAssumption
<1>4. InHand + Len(resMb) <= PacketCount /\ Len(reqMb) < PacketCount
  BY ResponsesFit, RequestsFit
<1>5. AtWork = 1 => \/ InHand + Len(resMb) < PacketCount
                    \/ Len(reqMb) + 1 < PacketCount
  <2>1. AtWork = 1 => procPc # "recv" BY DEF AtWork
  <2>2. procPc \in {"recv", "alloc", "handle", "transfer", "free", "send"}
    BY <1>0 DEF TypeOK
  <2>3. AtWork = 1 => procRes # Null \/ procReq # Null
    BY <1>0, <2>1, <2>2 DEF ResPcs, ReqPcs
  <2>. QED BY <2>3, ResponsesFit, RequestsFit
<1>. QED BY <1>c, <1>2, <1>3, <1>4, <1>5

(* The numbers of the responses. *)
Numbers == [i \in 1 .. Len(answered) |-> answered[i].id]

LEMMA NumbersAre ==
  ASSUME LineInv
  PROVE  /\ Numbers = [i \in 1 .. Len(answered) |-> i]
         /\ Numbers \in Seq(Nat) /\ Len(Numbers) = Len(answered)
<1>1. InOrder /\ Len(answered) \in Nat BY LineFacts DEF TypeOK
<1>2. Numbers = [i \in 1 .. Len(answered) |-> i] BY <1>1 DEF Numbers, InOrder
<1>. QED BY <1>1, <1>2

LEMMA StepImplements ==
  LineInv /\ LineInv' /\ [Next]_vars => [Service!Next]_(Service!vars)
<1> SUFFICES ASSUME LineInv, LineInv', [Next]_vars
             PROVE  [Service!Next]_(Service!vars)
  OBVIOUS
<1>0. TypeOK BY LineFacts
<1>1. CASE UNCHANGED <<sent, answered>> BY <1>1 DEF Service!vars
<1>2. CASE HostRequest
  <2>1. /\ outArmed /\ sent' = sent + 1 /\ answered' = answered
    BY <1>2 DEF HostRequest, DapOut
  <2>2. sent - Len(Numbers) < 2 * PacketCount BY <2>1, WindowOpen, NumbersAre
  <2>3. Service!Accept BY <2>1, <2>2 DEF Service!Accept, Numbers
  <2>. QED BY <2>3 DEF Service!Next
<1>3. CASE DapIn /\ inArmed \in ResBlocks
  <2>1. sent' = sent /\ answered' = Append(answered, resData[inArmed])
    BY <1>3, NamesAssumption DEF DapIn
  <2>2. Len(answered') = Len(answered) + 1 /\ Len(answered) \in Nat
    BY <1>0, <2>1 DEF TypeOK
  <2>3. /\ Numbers = [i \in 1 .. Len(answered) |-> i]
        /\ Len(Numbers) = Len(answered) /\ Numbers \in Seq(Nat)
    BY NumbersAre
  <2>4. Numbers' = [i \in 1 .. Len(answered') |-> i]
    BY LineFacts, LineInv' DEF LineInv, Line, InOrder, Numbers
  <2>5. Numbers' = Append(Numbers, Len(Numbers) + 1)
    <3> DEFINE n == Len(answered)
    <3>1. n \in Nat BY <2>2
    <3> HIDE DEF n
    <3>2. [i \in 1 .. n + 1 |-> i] = Append([i \in 1 .. n |-> i], n + 1)
      BY <3>1
    <3>. QED BY <2>2, <2>3, <2>4, <3>2 DEF n
  <2>6. Len(answered) < sent
    <3>1. /\ InHand = 1 /\ sent = (Len(answered) + InHand + Len(resMb))
                                   + AtWork + Len(reqMb) + Waiting
      BY <1>3, LineFacts DEF InHand, SentLine, Forwarded, Responded
    <3>. QED BY <1>0, <3>1, Counts
  <2>7. Service!Answer BY <2>1, <2>3, <2>5, <2>6 DEF Service!Answer, Numbers
  <2>. QED BY <2>7 DEF Service!Next
<1>. QED
  <2>1. Next /\ ~HostRequest /\ ~(DapIn /\ inArmed \in ResBlocks)
          => UNCHANGED <<sent, answered>>
    BY DEF Next, Threads, ReqThread, ProcThread, ResThread, ReqTake, ReqDispatch,
       ReqSend, ReqAlloc, ReqStore, ReqArm, ProcRecv, ProcAlloc, ProcHandle,
       ProcTransfer, ProcFree, ProcSend, ResRecv, ResInit, ResWrite, ResWait,
       ResRelease, HostAbort, DapOut, DapIn, Configure, hostVars
  <2>. QED BY <1>1, <1>2, <1>3, <2>1 DEF vars, hostVars

(* The pipeline is a first-in first-out service that never holds more than *)
(* two pools of requests.                                                  *)
THEOREM ImplementsService == Spec => ServiceSpec
<1>1. Init => Service!Init BY DEF Init, Service!Init
<1>. QED BY <1>1, InitLineInv, NextLineInv, StepImplements, PTL
     DEF Spec, ServiceSpec, Service!Spec

-----------------------------------------------------------------------------
(* Aborts.  While an abort waits in cur_req_buffer nothing can be sent      *)
(* after it: the endpoint is shut until the request thread is done with it. *)
AbortPending == /\ reqSem # 0 \/ reqPc = "dispatch"
                /\ reqData[cur].kind = "abort"

AbortInv ==
  /\ abortMark <= sent
  /\ AbortPending => abortMark = sent
  /\ procPc = "transfer" /\ doAbort => resData[procRes].id <= abortMark
  /\ \A b \in ResBlocks : resData[b].cut => resData[b].id <= abortMark
  /\ NoSpuriousAbort

LEMMA InitAbortInv == Init => AbortInv
BY DEF Init, AbortInv, AbortPending, NoSpuriousAbort, Garbage, Unwritten

(* A step that reads no response, sends no abort and changes no verdict.   *)
LEMMA AbortSame ==
  ASSUME LineInv, AbortInv,
         UNCHANGED <<answered, sent, abortMark, resData, reqData>>,
         AbortPending' => AbortPending,
         procPc' = "transfer" /\ doAbort'
           => procPc = "transfer" /\ doAbort /\ procRes' = procRes
  PROVE  AbortInv'
BY DEF AbortInv, NoSpuriousAbort

(* Only the request thread raises do_abort, for an abort that has arrived: *)
(* the transfer that runs is one of those sent before it.                  *)
LEMMA ReqStepAbort ==
  ASSUME LineInv, AbortInv, ReqThread PROVE AbortInv'
<1>. USE DEF procVars, resVars, usbVars, hostVars
<1>0. TypeOK /\ ReqPcs /\ ReqPhase /\ ProcLine /\ SentLine BY LineFacts
<1>1. CASE ReqTake
  <2>1. AbortPending' => AbortPending BY <1>0, <1>1 DEF TypeOK, ReqPhase, ReqTake, AbortPending
  <2>. QED BY <1>1, <2>1, AbortSame DEF ReqTake
<1>2. CASE ReqDispatch /\ reqData[cur].kind # "abort"
  <2>1. cur # Null BY <1>0, <1>2 DEF ReqPcs, ReqPhase, ReqDispatch
  <2>2. doAbort' = doAbort /\ reqSem' = reqSem /\ ~AbortPending'
    BY <1>2, <2>1 DEF ReqDispatch, ReadReq, AbortPending
  <2>. QED BY <1>2, <2>2, AbortSame DEF ReqDispatch
<1>3. CASE ReqDispatch /\ reqData[cur].kind = "abort"
  <2>1. AbortPending BY <1>3 DEF ReqDispatch, AbortPending
  <2>2. procPc = "transfer" => resData[procRes].id <= abortMark
    <3>1. AtWork = 1 /\ Len(reqMb) \in Nat /\ Responded \in Nat /\ Waiting \in 0 .. 1
          => Responded + 1 <= Forwarded + Waiting
      BY DEF Forwarded
    <3>2. procPc = "transfer" => AtWork = 1 BY DEF AtWork
    <3>3. abortMark = sent BY <2>1 DEF AbortInv
    <3>. QED BY <1>0, <3>1, <3>2, <3>3, Counts DEF ProcLine, SentLine
  <2>3. AbortPending' => AbortPending BY <2>1
  <2>4. /\ UNCHANGED <<answered, sent, abortMark, resData, reqData, procPc, procRes>>
    BY <1>3 DEF ReqDispatch
  <2>. QED BY <2>1, <2>2, <2>4 DEF AbortInv, NoSpuriousAbort
<1>4. CASE ReqSend
  <2>1. ~AbortPending' BY <1>0, <1>4 DEF TypeOK, ReqPhase, ReqSend, AbortPending
  <2>. QED BY <1>4, <2>1, AbortSame DEF ReqSend
<1>5. CASE ReqAlloc
  <2>1. ~AbortPending' BY <1>0, <1>5 DEF TypeOK, ReqPhase, ReqAlloc, AbortPending
  <2>. QED BY <1>5, <2>1, AbortSame DEF ReqAlloc
<1>6. CASE ReqStore
  <2>1. ~AbortPending' BY <1>0, <1>6 DEF TypeOK, ReqPhase, ReqStore, AbortPending
  <2>. QED BY <1>6, <2>1, AbortSame DEF ReqStore
<1>7. CASE ReqArm
  <2>1. ~AbortPending' BY <1>0, <1>7 DEF TypeOK, ReqPhase, ReqArm, AbortPending
  <2>. QED BY <1>7, <2>1, AbortSame DEF ReqArm
<1>. QED BY <1>1, <1>2, <1>3, <1>4, <1>5, <1>6, <1>7 DEF ReqThread

(* A transfer starts with do_abort cleared (dap_main.c:1888).              *)
LEMMA ProcStepAbort ==
  ASSUME LineInv, AbortInv, ProcThread PROVE AbortInv'
<1>. USE DEF reqVars, resVars, usbVars, hostVars
<1>0. TypeOK /\ ResPcs BY LineFacts
<1>1. ASSUME UNCHANGED <<reqSem, reqPc, cur, reqData>> PROVE AbortPending' <=> AbortPending
  BY <1>1 DEF AbortPending
<1>2. CASE ProcRecv BY <1>1, <1>2, AbortSame DEF ProcRecv
<1>3. CASE ProcAlloc BY <1>1, <1>3, AbortSame DEF ProcAlloc
<1>4. CASE ProcHandle
  <2>1. procRes \in ResBlocks /\ resData \in [ResBlocks -> Response]
    BY <1>0, <1>4 DEF TypeOK, ResPcs, ProcHandle
  <2>2. resData' = [resData EXCEPT ![procRes] = [id |-> ReadReq(procReq).id, cut |-> FALSE]]
    BY <1>4 DEF ProcHandle
  <2>3. \A b \in ResBlocks : resData'[b].cut => resData[b].cut /\ resData'[b] = resData[b]
    BY <2>1, <2>2
  <2>4. ~(procPc' = "transfer" /\ doAbort') BY <1>4 DEF ProcHandle
  <2>5. UNCHANGED <<answered, sent, abortMark, reqSem, reqPc, cur, reqData>>
    BY <1>4 DEF ProcHandle
  <2>. QED BY <1>1, <2>3, <2>4, <2>5 DEF AbortInv, NoSpuriousAbort
<1>5. CASE ProcTransfer /\ UNCHANGED resData
  <2>1. procPc' = "transfer" => procPc = "transfer" BY <1>5 DEF ProcTransfer
  <2>. QED BY <1>1, <1>5, <2>1, AbortSame DEF ProcTransfer
<1>6. CASE /\ ProcTransfer /\ (doAbort \/ procLeft = 1) /\ procPc' = "free"
           /\ resData' = [resData EXCEPT ![procRes].cut = procLeft > 1]
  <2>1. /\ procRes \in ResBlocks /\ resData \in [ResBlocks -> Response]
        /\ procPc = "transfer" /\ procLeft \in Nat
    BY <1>0, <1>6, BoundAssumption DEF TypeOK, ResPcs, ProcTransfer
  <2>2. /\ resData'[procRes].id = resData[procRes].id
        /\ resData'[procRes].cut = (procLeft > 1)
        /\ \A b \in ResBlocks \ {procRes} : resData'[b] = resData[b]
    BY <1>6, <2>1 DEF Response
  <2>3. resData'[procRes].cut => resData'[procRes].id <= abortMark
    <3> SUFFICES ASSUME resData'[procRes].cut PROVE resData[procRes].id <= abortMark
      BY <2>2
    <3>1. procLeft > 1 BY <2>2, Zenon
    <3>2. procLeft # 1 BY <2>1, <3>1
    <3>3. doAbort BY <1>6, <3>2, Zenon
    <3>. QED BY <2>1, <3>3 DEF AbortInv
  <2>4. \A b \in ResBlocks : resData'[b].cut => resData'[b].id <= abortMark
    BY <2>2, <2>3 DEF AbortInv
  <2>5. UNCHANGED <<answered, sent, abortMark, reqSem, reqPc, cur, reqData>>
    BY <1>6 DEF ProcTransfer
  <2>. QED BY <1>1, <1>6, <2>4, <2>5 DEF AbortInv, NoSpuriousAbort
<1>7. CASE ProcFree BY <1>1, <1>7, AbortSame DEF ProcFree
<1>8. CASE ProcSend BY <1>1, <1>8, AbortSame DEF ProcSend
<1>. QED BY <1>2, <1>3, <1>4, <1>5, <1>6, <1>7, <1>8 DEF ProcThread, ProcTransfer

LEMMA HostStepAbort ==
  ASSUME LineInv, AbortInv,
         HostRequest \/ HostAbort \/ DapIn \/ (configs = 0 /\ Configure)
  PROVE  AbortInv'
<1>. USE DEF reqVars, procVars, resVars
<1>0. TypeOK /\ ReqPhase /\ ReqPcs BY LineFacts
<1>t. sent \in Nat /\ abortMark \in Nat BY <1>0 DEF TypeOK
<1>1. CASE HostRequest
  <2>1. PICK k \in Kinds \ {"abort"} : DapOut([id |-> sent + 1, kind |-> k])
    BY <1>1 DEF HostRequest
  <2>2. ~AbortPending' BY <2>1, OutPacketKeeps DEF AbortPending
  <2>3. UNCHANGED <<answered, abortMark, resData, doAbort, procPc, procRes>>
    BY <1>1, <2>1 DEF HostRequest, DapOut
  <2>4. abortMark <= sent' BY <1>1, <1>t DEF HostRequest, AbortInv
  <2>. QED BY <2>2, <2>3, <2>4 DEF AbortInv, NoSpuriousAbort
<1>2. CASE HostAbort
  <2>1. UNCHANGED <<answered, sent, resData, doAbort, procPc, procRes>> /\ abortMark' = sent
    BY <1>2 DEF HostAbort, DapOut
  <2>2. \A n \in Nat : n <= abortMark => n <= abortMark' BY <1>t, <2>1 DEF AbortInv
  <2>3. \A b \in ResBlocks : resData[b].id \in Nat BY <1>0 DEF TypeOK, Response
  <2>4. \A i \in 1 .. Len(answered) : answered[i].id \in Nat
    <3> TAKE i \in 1 .. Len(answered)
    <3>1. answered[i] \in Response BY <1>0 DEF TypeOK
    <3>. QED BY <3>1 DEF Response
  <2>5. procPc = "transfer" => procRes \in ResBlocks BY LineFacts DEF ResPcs, TypeOK
  <2>. QED BY <1>t, <2>1, <2>2, <2>3, <2>4, <2>5 DEF AbortInv, NoSpuriousAbort
<1>3. CASE DapIn
  <2>1. UNCHANGED <<sent, abortMark, resData, doAbort, procPc, procRes, reqSem, reqPc, cur, reqData>>
    BY <1>3 DEF DapIn
  <2>2. AbortPending' <=> AbortPending BY <2>1 DEF AbortPending
  <2>3. NoSpuriousAbort'
    <3>1. CASE UNCHANGED answered BY <2>1, <3>1 DEF AbortInv, NoSpuriousAbort
    <3>2. CASE inArmed \in ResBlocks /\ answered' = Append(answered, resData[inArmed])
      <4>1. /\ Len(answered') = Len(answered) + 1 /\ Len(answered) \in Nat
            /\ \A i \in 1 .. Len(answered) : answered'[i] = answered[i]
            /\ answered'[Len(answered) + 1] = resData[inArmed]
        <5>1. resData[inArmed] \in Response BY <1>0, <3>2 DEF TypeOK
        <5>. QED BY <1>0, <3>2, <5>1 DEF TypeOK
      <4>2. ASSUME NEW i \in 1 .. Len(answered) + 1, answered'[i].cut
            PROVE  answered'[i].id <= abortMark
        <5>1. CASE i = Len(answered) + 1 BY <3>2, <4>1, <4>2, <5>1 DEF AbortInv
        <5>2. CASE i # Len(answered) + 1
          <6>1. i \in 1 .. Len(answered) BY <4>1, <5>2
          <6>. QED BY <4>1, <4>2, <6>1 DEF AbortInv, NoSpuriousAbort
        <5>. QED BY <5>1, <5>2
      <4>. QED BY <2>1, <4>1, <4>2 DEF NoSpuriousAbort
    <3>. QED BY <1>3, <3>1, <3>2 DEF DapIn
  <2>. QED BY <2>1, <2>2, <2>3 DEF AbortInv
<1>4. CASE configs = 0 /\ Configure
  <2>1. ~AbortPending' BY <1>0, <1>4 DEF ReqPhase, Configure, AbortPending
  <2>. QED BY <1>4, <2>1, AbortSame DEF Configure
<1>. QED BY <1>1, <1>2, <1>3, <1>4

LEMMA NextAbortInv == LineInv /\ AbortInv /\ [Next]_vars => AbortInv'
<1> SUFFICES ASSUME LineInv, AbortInv, [Next]_vars PROVE AbortInv' OBVIOUS
<1>1. CASE ReqThread BY <1>1, ReqStepAbort
<1>2. CASE ProcThread BY <1>2, ProcStepAbort
<1>3. CASE ResThread \/ UNCHANGED vars
  <2>1. UNCHANGED <<answered, sent, abortMark, resData, reqData, reqSem, reqPc, cur,
                    procPc, procRes, doAbort>>
    BY <1>3 DEF ResThread, ResRecv, ResInit, ResWrite, ResWait, ResRelease, vars,
       reqVars, procVars, usbVars, hostVars
  <2>. QED BY <2>1, AbortSame DEF AbortPending
<1>4. CASE HostRequest \/ HostAbort \/ DapIn \/ (configs = 0 /\ Configure)
  BY <1>4, HostStepAbort
<1>. QED BY <1>1, <1>2, <1>3, <1>4 DEF Next, Threads

(* A transfer that was cut short was cut by an abort sent after it, however *)
(* late the threads got to either of them (dap_main.c:1888, usb_main.c:    *)
(* 382-391).                                                               *)
THEOREM AbortsAreMeant == Spec => []NoSpuriousAbort
<1>1. LineInv /\ AbortInv => NoSpuriousAbort BY DEF AbortInv
<1>. QED BY <1>1, InitLineInv, NextLineInv, InitAbortInv, NextAbortInv, PTL DEF Spec

-----------------------------------------------------------------------------
(* Flow control: with no block free, all are in the mailbox or with the    *)
(* process thread, and none of those requests is responded to.             *)

LEMMA ElemsCardinality ==
  ASSUME NEW S, NEW q \in Seq(S)
  PROVE  IsFiniteSet(Elems(q)) /\ Cardinality(Elems(q)) <= Len(q)
<1>1. Len(q) \in Nat OBVIOUS
<1>2. IsFiniteSet(1 .. Len(q)) /\ Cardinality(1 .. Len(q)) = Len(q)
  BY <1>1, FS_Interval
<1>3. [i \in 1 .. Len(q) |-> q[i]] \in Surjection(1 .. Len(q), Elems(q))
  BY DEF Surjection, Elems
<1>. QED BY <1>2, <1>3, FS_Surjection

(* The request thread waits for a block only while PacketCount requests    *)
(* have no response yet, whatever the host reads (usb_main.c:382-397).     *)
THEOREM FlowIsControlled == Spec => []FlowControl
<1>1. LineInv => FlowControl
  <2> SUFFICES ASSUME LineInv, reqPc = "alloc", reqFree = {}
               PROVE  sent - Responded >= PacketCount
    BY DEF FlowControl
  <2>0. TypeOK /\ ReqPcs /\ ReqOwnership /\ SentLine BY LineFacts
  <2>c. /\ Len(answered) \in Nat /\ InHand \in 0 .. 1 /\ AtWork \in 0 .. 1
        /\ Waiting \in 0 .. 1 /\ Len(resMb) \in Nat /\ Len(reqMb) \in Nat
        /\ Responded \in Nat /\ Forwarded \in Nat
    BY <2>0, Counts
  <2>1. OwnCur = {} /\ reqNew = Null BY <2>0 DEF OwnCur, ReqPcs
  <2>2. Elems(reqMb) \cup ({procReq} \ {Null}) = ReqBlocks
    BY <2>0, <2>1 DEF ReqOwnership
  <2>3. IsFiniteSet(Elems(reqMb)) /\ Cardinality(Elems(reqMb)) <= Len(reqMb)
        /\ Cardinality(Elems(reqMb)) \in Nat
    BY <2>0, ElemsCardinality, FS_CardinalityType DEF TypeOK
  <2>4. PacketCount \in Nat /\ Cardinality(ReqBlocks) = PacketCount BY PoolAssumption
  <2>5. PacketCount <= Len(reqMb) + AtWork
    <3>1. CASE procReq = Null
      <4>1. Elems(reqMb) = ReqBlocks BY <2>2, <3>1
      <4>. QED BY <2>c, <2>3, <2>4, <4>1
    <3>2. CASE procReq # Null
      <4>1. AtWork = 1 BY <2>0, <3>2 DEF ReqPcs, AtWork
      <4>2. Elems(reqMb) \cup {procReq} = ReqBlocks BY <2>2, <3>2
      <4>3. PacketCount <= Cardinality(Elems(reqMb)) + 1
        <5> DEFINE E == Elems(reqMb)
        <5>1. IsFiniteSet(E) BY <2>3
        <5>. HIDE DEF E
        <5>2. Cardinality(E \cup {procReq})
                = IF procReq \in E THEN Cardinality(E) ELSE Cardinality(E) + 1
          BY <5>1, FS_AddElement
        <5>3. E \cup {procReq} = ReqBlocks /\ Cardinality(E) \in Nat
          BY <2>3, <4>2 DEF E
        <5>. QED BY <2>4, <5>2, <5>3 DEF E
      <4>. QED BY <2>c, <2>3, <2>4, <4>1, <4>3
    <3>. QED BY <3>1, <3>2
  <2>6. sent = Responded + AtWork + Len(reqMb) + Waiting
    BY <2>0 DEF SentLine, Forwarded
  <2>. QED BY <2>c, <2>4, <2>5, <2>6
<1>. QED BY <1>1, InitLineInv, NextLineInv, PTL DEF Spec

=============================================================================
