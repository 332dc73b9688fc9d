------------------------- MODULE MCPTPTransaction -------------------------
(* Model-checking instance of PTPTransaction: every wrapper of ptp.c may   *)
(* be called; the transport faults are chosen per configuration.          *)
EXTENDS PTPTransaction

MCOps == OpCodes

MCNoFaults == {}
MCAllFaults == {"WriteLost", "WriteDelivered", "ReadTimeout"}
MCTimeouts == {"ReadTimeout"}

-----------------------------------------------------------------------------
(* Refinement mapping to PTPSession.  A call takes effect at the step that *)
(* returns it: while a call is in progress the abstract state is the one   *)
(* it started from, so its id is not yet taken and whatever the camera    *)
(* has already done for it (the devlog entry with its id, and the session *)
(* change that entry caused) is not yet visible.                           *)

InCall == hpc # "Idle"

(* The camera's answer to the call in progress, if it has answered.       *)
Answer == {e \in devlog : e.tid = cur.tid}

(* The session before the camera's answer to the call in progress: only   *)
(* a successful OpenSession or CloseSession changed it.                    *)
SessionBefore ==
  IF \E e \in Answer : e.rc = PTP_RC_OK /\ e.code = ptp_opensession.code
    THEN FALSE
  ELSE IF \E e \in Answer : e.rc = PTP_RC_OK /\ e.code = ptp_closesession.code
    THEN TRUE
  ELSE session

Abstract == INSTANCE PTPSession WITH
  GetOps <- {op \in OpCodes : DataPhase(op) = PTP_DP_GETDATA},
  atid <- IF InCall THEN tid - 1 ELSE tid,
  asession <- IF InCall THEN SessionBefore ELSE session,
  aresult <- [code |-> result.code, tid |-> result.tid, rc |-> result.rc],
  alog <- IF InCall THEN devlog \ Answer ELSE devlog

(* Over a reliable transport, the frame-level engine implements the        *)
(* atomic specification: every sequence of ptp_sendreq, ptp_senddata,      *)
(* ptp_getdata, ptp_getresp and camera steps is a sequence of whole        *)
(* transactions, each returning what the camera answered it.               *)
AtomicTransactions == Abstract!Spec
====
