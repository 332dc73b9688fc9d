--------------------------- MODULE PTPTransaction ---------------------------
(***************************************************************************)
(* The PTP transaction engine of src/camlibs/ptp/ptp.c: ptp_transaction    *)
(* and its four phase helpers (ptp_sendreq, ptp_senddata, ptp_getdata,     *)
(* ptp_getresp), the per-operation wrappers that choose an operation code  *)
(* and a data phase, and the params->transaction_id counter.               *)
(*                                                                         *)
(* The initiator (this library) and the responder (the camera) exchange    *)
(* frames over two FIFO pipes.  A frame is abstracted to its header: the   *)
(* container type, the code (operation code, or response code) and the    *)
(* transaction id; parameters and payload bytes are left out.  The         *)
(* transport may lose a written frame, report a failed write whose frame   *)
(* nevertheless arrived, or time a read out while the camera is still      *)
(* working; which of these can happen is the constant Faults.              *)
(***************************************************************************)
EXTENDS Integers, Sequences, FiniteSets

CONSTANTS
  Ops,      \* operation codes the caller may invoke (a subset of OpCodes)
  MaxReq,   \* bound: number of requests the caller issues
  Faults    \* subset of {"WriteLost", "WriteDelivered", "ReadTimeout"}

ASSUME MaxReq \in Nat \ {0}
ASSUME Faults \subseteq {"WriteLost", "WriteDelivered", "ReadTimeout"}

VARIABLES
  tid,      \* params->transaction_id
  hpc,      \* phase of the ptp_transaction call in progress
  cur,      \* the call in progress: operation code and its request's id
  result,   \* what the last ptp_transaction call returned (with history)
  h2d,      \* frames written by the initiator, not yet read by the camera
  d2h,      \* frames written by the camera, not yet read by the initiator
  dpc,      \* camera: idle, or waiting for the data phase of a request
  dcur,     \* camera: the request it is serving
  session,  \* camera: a session is open
  devlog    \* camera: the transactions it completed (history)

vars == <<tid, hpc, cur, result, h2d, d2h, dpc, dcur, session, devlog>>

-----------------------------------------------------------------------------
(* Container types, data-phase kinds and return codes (ptp.c, ptp.h).      *)
PTP_TYPE_REQ  == "REQ"
PTP_TYPE_DATA == "DATA"
PTP_TYPE_RESP == "RESP"

PTP_DP_NODATA   == "NODATA"
PTP_DP_SENDDATA == "SENDDATA"
PTP_DP_GETDATA  == "GETDATA"

PTP_RC_OK               == "PTP_RC_OK"
PTP_ERROR_IO            == "PTP_ERROR_IO"
PTP_ERROR_DATA_EXPECTED == "PTP_ERROR_DATA_EXPECTED"
PTP_ERROR_RESP_EXPECTED == "PTP_ERROR_RESP_EXPECTED"

(* Response codes a camera may answer with.                                *)
DeviceCodes == {PTP_RC_OK, "PTP_RC_GeneralError", "PTP_RC_SessionNotOpen",
                "PTP_RC_SessionAlreadyOpened"}

(* The exported wrappers: each fixes the operation code and the data phase *)
(* it passes to ptp_transaction.                                           *)
ptp_opensession == [code |-> "OpenSession", dp |-> PTP_DP_NODATA]
ptp_closesession == [code |-> "CloseSession", dp |-> PTP_DP_NODATA]
ptp_getobjecthandles == [code |-> "GetObjectHandles", dp |-> PTP_DP_GETDATA]
(* mutant: the wrapper passes PTP_DP_NODATA *)
ptp_getobjectinfo_nodata == [code |-> "GetObjectInfo", dp |-> PTP_DP_NODATA]
ptp_getobjectinfo == [code |-> "GetObjectInfo", dp |-> PTP_DP_GETDATA]
ptp_getobject == [code |-> "GetObject", dp |-> PTP_DP_GETDATA]
ptp_getthumb == [code |-> "GetThumb", dp |-> PTP_DP_GETDATA]
ptp_deleteobject == [code |-> "DeleteObject", dp |-> PTP_DP_NODATA]
ptp_ek_sendfileobjectinfo ==
  [code |-> "EK_SendFileObjectInfo", dp |-> PTP_DP_SENDDATA]
ptp_ek_sendfileobject == [code |-> "EK_SendFileObject", dp |-> PTP_DP_SENDDATA]

Wrappers == {ptp_opensession, ptp_closesession, ptp_getobjecthandles,
             ptp_getobjectinfo, ptp_getobject, ptp_getthumb, ptp_deleteobject,
             ptp_ek_sendfileobjectinfo, ptp_ek_sendfileobject}

OpCodes == {w.code : w \in Wrappers}

ASSUME Ops \subseteq OpCodes

DataPhase(op) == (CHOOSE w \in Wrappers : w.code = op).dp

NoTid == -1
Tids == 0..MaxReq

Frame(type, code, t) == [type |-> type, code |-> code, tid |-> t]

Frames == [type : {PTP_TYPE_REQ, PTP_TYPE_DATA, PTP_TYPE_RESP},
           code : OpCodes \cup DeviceCodes, tid : Tids]

(* A call's outcome: its operation, its request id, the code it returned, *)
(* and the ids carried by the data and response frames it accepted.        *)
Results == [code : OpCodes \cup {"none"}, tid : Tids \cup {NoTid},
            rc : OpCodes \cup DeviceCodes \cup
                 {PTP_ERROR_IO, PTP_ERROR_DATA_EXPECTED,
                  PTP_ERROR_RESP_EXPECTED, "none"},
            dtid : Tids \cup {NoTid}, rtid : Tids \cup {NoTid}]

NoResult == [code |-> "none", tid |-> NoTid, rc |-> "none",
             dtid |-> NoTid, rtid |-> NoTid]

(* mutant: the switch sends nothing for PTP_DP_SENDDATA *)
PhaseAfterRequest_nosend ==
  [d \in {PTP_DP_NODATA, PTP_DP_SENDDATA, PTP_DP_GETDATA} |->
     IF d = PTP_DP_GETDATA THEN "GetData" ELSE "GetResp"]

(* Phase of the call in progress, after the request has been written.     *)
PhaseAfterRequest == [d \in {PTP_DP_NODATA, PTP_DP_SENDDATA, PTP_DP_GETDATA} |->
                        CASE d = PTP_DP_SENDDATA -> "SendData"
                          [] d = PTP_DP_GETDATA  -> "GetData"
                          [] d = PTP_DP_NODATA   -> "GetResp"]

(* The call in progress returns rc; the initiator is idle again.           *)
Return(rc, rt) ==
  /\ hpc' = "Idle"
  /\ result' = [code |-> cur.code, tid |-> cur.tid, rc |-> rc,
                dtid |-> cur.dtid, rtid |-> rt]

(* write_func: the frame is written, or the write fails with the frame    *)
(* lost or, after a timeout, delivered all the same.                       *)
WriteOutcomes == {"Written"} \cup (Faults \cap {"WriteLost", "WriteDelivered"})

Write(f, o) == h2d' = IF o = "WriteLost" THEN h2d ELSE Append(h2d, f)

-----------------------------------------------------------------------------
(* Initiator: ptp_transaction and its helpers.                             *)

NoCall == [code |-> "none", tid |-> NoTid, dtid |-> NoTid]

Init ==
  /\ tid = 0
  /\ hpc = "Idle"
  /\ cur = NoCall
  /\ result = NoResult
  /\ h2d = <<>>
  /\ d2h = <<>>
  /\ dpc = "Idle"
  /\ dcur = [code |-> "none", tid |-> NoTid]
  /\ session = FALSE
  /\ devlog = {}

(* mutant: the id is consumed only by a successful write *)
ptp_sendreq_incr_on_success(w) ==
  /\ hpc = "Idle"
  /\ tid < MaxReq
  /\ cur' = [code |-> w.code, tid |-> tid, dtid |-> NoTid]
  /\ \E o \in WriteOutcomes :
       /\ Write(Frame(PTP_TYPE_REQ, w.code, tid), o)
       /\ tid' = IF o = "Written" THEN tid + 1 ELSE tid
       /\ IF o = "Written"
            THEN hpc' = PhaseAfterRequest[w.dp] /\ UNCHANGED result
            ELSE hpc' = "Idle" /\
                 result' = [code |-> w.code, tid |-> tid, rc |-> PTP_ERROR_IO,
                            dtid |-> NoTid, rtid |-> NoTid]
  /\ UNCHANGED <<d2h, dpc, dcur, session, devlog>>

(* A wrapper calls ptp_transaction, which sends the request: ptp_sendreq   *)
(* stamps the current id and increments the counter before writing; a     *)
(* failed write aborts the transaction with PTP_ERROR_IO (CHECK_PTP_RC).   *)
ptp_sendreq(w) ==
  /\ hpc = "Idle"
  /\ tid < MaxReq
  /\ tid' = tid + 1
  /\ cur' = [code |-> w.code, tid |-> tid, dtid |-> NoTid]
  /\ \E o \in WriteOutcomes :
       /\ Write(Frame(PTP_TYPE_REQ, w.code, tid), o)
       /\ IF o = "Written"
            THEN hpc' = PhaseAfterRequest[w.dp] /\ UNCHANGED result
            ELSE hpc' = "Idle" /\
                 result' = [code |-> w.code, tid |-> tid, rc |-> PTP_ERROR_IO,
                            dtid |-> NoTid, rtid |-> NoTid]
  /\ UNCHANGED <<d2h, dpc, dcur, session, devlog>>

(* mutant: the data phase increments the id as well *)
ptp_senddata_incr ==
  /\ hpc = "SendData"
  /\ tid' = tid + 1
  /\ \E o \in WriteOutcomes :
       /\ Write(Frame(PTP_TYPE_DATA, cur.code, tid), o)
       /\ IF o = "Written"
            THEN hpc' = "GetResp" /\ UNCHANGED result
            ELSE Return(PTP_ERROR_IO, NoTid)
  /\ UNCHANGED <<cur, d2h, dpc, dcur, session, devlog>>

(* PTP_DP_SENDDATA: ptp_senddata stamps the data frame with                *)
(* params->transaction_id as it is now, after ptp_sendreq's increment.    *)
ptp_senddata ==
  /\ hpc = "SendData"
  /\ \E o \in WriteOutcomes :
       /\ Write(Frame(PTP_TYPE_DATA, cur.code, tid), o)
       /\ IF o = "Written"
            THEN hpc' = "GetResp" /\ UNCHANGED result
            ELSE Return(PTP_ERROR_IO, NoTid)
  /\ UNCHANGED <<tid, cur, d2h, dpc, dcur, session, devlog>>

(* PTP_DP_GETDATA: ptp_getdata reads one frame; a frame that is not a data *)
(* container fails with PTP_ERROR_DATA_EXPECTED, one of another operation  *)
(* returns that frame's code.  The frame's transaction id is not looked at.*)
ptp_getdata ==
  /\ hpc = "GetData"
  /\ d2h # <<>>
  /\ d2h' = Tail(d2h)
  /\ LET f == Head(d2h)
         rc == IF f.type # PTP_TYPE_DATA THEN PTP_ERROR_DATA_EXPECTED
               ELSE IF f.code # cur.code THEN f.code
               ELSE PTP_RC_OK
     IN IF rc = PTP_RC_OK
          THEN /\ hpc' = "GetResp"
               /\ cur' = [cur EXCEPT !.dtid = f.tid]
               /\ UNCHANGED result
          ELSE Return(rc, NoTid) /\ UNCHANGED cur
  /\ UNCHANGED <<tid, h2d, dpc, dcur, session, devlog>>

(* mutant: the response code is not propagated *)
ptp_getresp_ignorecode ==
  /\ hpc = "GetResp"
  /\ d2h # <<>>
  /\ d2h' = Tail(d2h)
  /\ LET f == Head(d2h)
         rc == IF f.type # PTP_TYPE_RESP THEN PTP_ERROR_RESP_EXPECTED
               ELSE PTP_RC_OK
     IN Return(rc, IF f.type = PTP_TYPE_RESP THEN f.tid ELSE NoTid)
  /\ UNCHANGED <<tid, cur, h2d, dpc, dcur, session, devlog>>

(* ptp_getresp reads the response frame: a frame that is not a response   *)
(* fails with PTP_ERROR_RESP_EXPECTED; otherwise its code, compared with   *)
(* the operation code, is returned.  Its transaction id is not looked at.  *)
ptp_getresp ==
  /\ hpc = "GetResp"
  /\ d2h # <<>>
  /\ d2h' = Tail(d2h)
  /\ LET f == Head(d2h)
         rc == IF f.type # PTP_TYPE_RESP THEN PTP_ERROR_RESP_EXPECTED
               ELSE IF f.code # cur.code THEN f.code
               ELSE PTP_RC_OK
     IN Return(rc, IF f.type = PTP_TYPE_RESP THEN f.tid ELSE NoTid)
  /\ UNCHANGED <<tid, cur, h2d, dpc, dcur, session, devlog>>

(* read_func times out on an empty pipe: ptp_getdata or ptp_getresp fails  *)
(* with PTP_ERROR_IO while the camera may still answer later.              *)
ReadTimeout ==
  /\ "ReadTimeout" \in Faults
  /\ hpc \in {"GetData", "GetResp"}
  /\ d2h = <<>>
  /\ Return(PTP_ERROR_IO, NoTid)
  /\ UNCHANGED <<tid, cur, h2d, d2h, dpc, dcur, session, devlog>>

-----------------------------------------------------------------------------
(* Responder: a PTP camera (the environment; not code of this repository). *)
(* It answers every request with the request's id, may refuse any         *)
(* operation with a general error, sends the data before the response of a*)
(* GETDATA operation it accepts, and waits for the data of a SENDDATA one. *)

PTP_RC_GeneralError == "PTP_RC_GeneralError"

(* The data phase the PTP standard (and the camera) assigns each operation.*)
StdDataPhase(op) ==
  IF op \in {"GetObjectHandles", "GetObjectInfo", "GetObject", "GetThumb"}
    THEN PTP_DP_GETDATA
  ELSE IF op \in {"EK_SendFileObjectInfo", "EK_SendFileObject"}
    THEN PTP_DP_SENDDATA
  ELSE PTP_DP_NODATA

Outcomes(op) ==
  CASE op = ptp_opensession.code ->
         IF session THEN {"PTP_RC_SessionAlreadyOpened"}
                    ELSE {PTP_RC_OK, PTP_RC_GeneralError}
    [] op = ptp_closesession.code ->
         IF session THEN {PTP_RC_OK} ELSE {"PTP_RC_SessionNotOpen"}
    [] OTHER ->
         IF session THEN {PTP_RC_OK, PTP_RC_GeneralError}
                    ELSE {"PTP_RC_SessionNotOpen"}

(* The camera completes request q with response code rc.                   *)
Respond(q, rc) ==
  /\ d2h' = d2h \o (IF rc = PTP_RC_OK /\ StdDataPhase(q.code) = PTP_DP_GETDATA
                     THEN <<Frame(PTP_TYPE_DATA, q.code, q.tid)>> ELSE <<>>)
                \o <<Frame(PTP_TYPE_RESP, rc, q.tid)>>
  /\ session' = IF rc # PTP_RC_OK THEN session
                ELSE q.code = ptp_opensession.code
                     \/ (session /\ q.code # ptp_closesession.code)
  /\ devlog' = devlog \cup {[code |-> q.code, tid |-> q.tid, rc |-> rc]}
  /\ dpc' = "Idle"

(* A request arrives; one whose data phase was lost is abandoned.          *)
DevRecvReq ==
  /\ h2d # <<>>
  /\ Head(h2d).type = PTP_TYPE_REQ
  /\ h2d' = Tail(h2d)
  /\ LET q == [code |-> Head(h2d).code, tid |-> Head(h2d).tid]
     IN /\ dcur' = q
        /\ IF StdDataPhase(q.code) = PTP_DP_SENDDATA
             THEN dpc' = "AwaitData" /\ UNCHANGED <<d2h, session, devlog>>
             ELSE \E rc \in Outcomes(q.code) : Respond(q, rc)
  /\ UNCHANGED <<tid, hpc, cur, result>>

(* The data phase of the awaited SENDDATA request arrives.                 *)
DevRecvData ==
  /\ dpc = "AwaitData"
  /\ h2d # <<>>
  /\ Head(h2d).type = PTP_TYPE_DATA
  /\ h2d' = Tail(h2d)
  /\ \E rc \in Outcomes(dcur.code) : Respond(dcur, rc)
  /\ UNCHANGED <<tid, hpc, cur, result, dcur>>

-----------------------------------------------------------------------------
Next ==
  \/ \E w \in Wrappers : w.code \in Ops /\ ptp_sendreq(w)
  \/ ptp_senddata
  \/ ptp_getdata
  \/ ptp_getresp
  \/ ReadTimeout
  \/ DevRecvReq
  \/ DevRecvData

(* The caller need not call again; every call blocks in write_func and     *)
(* read_func until they return, and a read times out when nothing comes;  *)
(* a working camera serves every frame it is sent.                         *)
Fairness ==
  /\ WF_vars(ptp_senddata) /\ WF_vars(ptp_getdata) /\ WF_vars(ptp_getresp)
  /\ WF_vars(ReadTimeout)
  /\ WF_vars(DevRecvReq) /\ WF_vars(DevRecvData)

Spec == Init /\ [][Next]_vars /\ Fairness

-----------------------------------------------------------------------------
TypeOK ==
  /\ tid \in Tids
  /\ hpc \in {"Idle", "SendData", "GetData", "GetResp"}
  /\ cur \in [code : OpCodes, tid : Tids, dtid : Tids \cup {NoTid}] \cup {NoCall}
  /\ result \in Results
  /\ h2d \in Seq(Frames)
  /\ d2h \in Seq(Frames)
  /\ dpc \in {"Idle", "AwaitData"}
  /\ session \in BOOLEAN
  /\ devlog \subseteq [code : OpCodes, tid : Tids, rc : DeviceCodes]

(* Correlation, as the camera saw it: when ptp_transaction returns         *)
(* PTP_RC_OK, the camera really completed that very transaction (same      *)
(* operation, same id) with PTP_RC_OK, and for a GETDATA operation the data *)
(* the call accepted was sent for that transaction.  ptp_getresp and       *)
(* ptp_getdata never compare transaction ids, so this rests on the pipes   *)
(* holding nothing of an earlier transaction when a call starts.           *)
ResultSound ==
  result.rc = PTP_RC_OK =>
    /\ [code |-> result.code, tid |-> result.tid, rc |-> PTP_RC_OK] \in devlog
    /\ DataPhase(result.code) = PTP_DP_GETDATA => result.dtid = result.tid

(* Half-duplex channel (one transaction outstanding): whenever             *)
(* ptp_transaction has returned, no frame of that transaction is left in   *)
(* either pipe and the camera waits for no data phase, so the next call    *)
(* starts on a clean channel.                                              *)
Quiescent == hpc = "Idle" => h2d = <<>> /\ d2h = <<>> /\ dpc = "Idle"

(* Every ptp_transaction call returns: no phase waits forever on the       *)
(* camera while the camera waits on it.                                    *)
TransactionReturns == (hpc # "Idle") ~> (hpc = "Idle")

(* The camera only ever receives fresh request ids: each request frame on  *)
(* its way carries an id above the last request it received and above the *)
(* requests queued before it, also after failed writes (ptp_sendreq        *)
(* increments params->transaction_id before it calls write_func).          *)
FreshRequestIds ==
  LET reqs == SelectSeq(h2d, LAMBDA f : f.type = PTP_TYPE_REQ)
  IN \A i \in 1..Len(reqs) :
       /\ reqs[i].tid > dcur.tid
       /\ i > 1 => reqs[i].tid > reqs[i - 1].tid

(* Spec 4.1/8: a response whose transaction id differs from the request's  *)
(* must be rejected, so a call that returns PTP_RC_OK accepted a response  *)
(* carrying its own request's id.                                          *)
ResponseMatchesRequest == result.rc = PTP_RC_OK => result.rtid = result.tid

(* Spec 4.1: the data-phase frame reuses the id of the request that opened *)
(* the transaction.                                                        *)
DataFrameCarriesRequestId ==
  \A i \in 1..Len(h2d) :
    h2d[i].type = PTP_TYPE_DATA => h2d[i].tid = cur.tid

====
