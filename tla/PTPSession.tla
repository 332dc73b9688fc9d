----------------------------- MODULE PTPSession -----------------------------
(***************************************************************************)
(* What ptp_transaction (src/camlibs/ptp/ptp.c) promises its callers over  *)
(* a working transport: each call is one atomic transaction.  It takes the *)
(* next transaction id, the camera performs the operation once, and the    *)
(* call returns the camera's response code.  There is one exception, for  *)
(* an operation that receives data and that the camera refuses: the       *)
(* response then arrives where the data was expected, and the call        *)
(* returns PTP_ERROR_DATA_EXPECTED.                                        *)
(*                                                                         *)
(* Frames, pipes and phases do not appear at this level.  PTPTransaction   *)
(* is shown to implement this specification in MCPTPTransaction.          *)
(***************************************************************************)
EXTENDS Integers

CONSTANTS
  Ops,      \* the operation codes callers invoke
  GetOps,   \* those whose data phase receives data (PTP_DP_GETDATA)
  MaxReq    \* bound: number of transactions

VARIABLES
  atid,      \* the next transaction id
  asession,  \* the camera has a session open
  aresult,   \* the last call: [code, tid, rc]
  alog       \* the transactions the camera performed: [code, tid, rc]

vars == <<atid, asession, aresult, alog>>

OK == "PTP_RC_OK"
DATA_EXPECTED == "PTP_ERROR_DATA_EXPECTED"

(* The camera's possible answers, by operation and session state.          *)
Answers(op) ==
  CASE op = "OpenSession" ->
         IF asession THEN {"PTP_RC_SessionAlreadyOpened"}
                     ELSE {OK, "PTP_RC_GeneralError"}
    [] op = "CloseSession" ->
         IF asession THEN {OK} ELSE {"PTP_RC_SessionNotOpen"}
    [] OTHER ->
         IF asession THEN {OK, "PTP_RC_GeneralError"}
                     ELSE {"PTP_RC_SessionNotOpen"}

(* What the caller is told when the camera answers rc to op.               *)
Returned(op, rc) == IF rc # OK /\ op \in GetOps THEN DATA_EXPECTED ELSE rc

Init ==
  /\ atid = 0
  /\ asession = FALSE
  /\ aresult = [code |-> "none", tid |-> -1, rc |-> "none"]
  /\ alog = {}

(* One call of ptp_transaction for operation op, from start to return.     *)
Transaction(op) ==
  /\ atid < MaxReq
  /\ atid' = atid + 1
  /\ \E rc \in Answers(op) :
       /\ asession' = IF rc # OK THEN asession
                      ELSE op = "OpenSession" \/ (asession /\ op # "CloseSession")
       /\ alog' = alog \cup {[code |-> op, tid |-> atid, rc |-> rc]}
       /\ aresult' = [code |-> op, tid |-> atid, rc |-> Returned(op, rc)]

Next == \E op \in Ops : Transaction(op)

Spec == Init /\ [][Next]_vars

====
