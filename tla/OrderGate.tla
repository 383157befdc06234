----------------------------- MODULE OrderGate -----------------------------
(***************************************************************************)
(* What the trading pipeline of trading/subsystem.py promises about an     *)
(* order: RiskD judges it at most once, the broker fills it at most once,  *)
(* and only on a positive verdict.  A verdict that has not been acted on   *)
(* is forgotten when the process restarts.                                 *)
(***************************************************************************)
CONSTANT Orders   \* the identities of all orders

VARIABLES
  judged,    \* the orders RiskD has given a verdict on
  approved,  \* approved orders on their way to the broker
  filled     \* the orders the broker has filled

gateVars == <<judged, approved, filled>>

GateInit == judged = {} /\ approved = {} /\ filled = {}

Refuse(o) ==
  /\ o \notin judged
  /\ judged' = judged \cup {o}
  /\ UNCHANGED <<approved, filled>>

Approve(o) ==
  /\ o \notin judged
  /\ judged' = judged \cup {o}
  /\ approved' = approved \cup {o}
  /\ UNCHANGED filled

Fill(o) ==
  /\ o \in approved
  /\ approved' = approved \ {o}
  /\ filled' = filled \cup {o}
  /\ UNCHANGED judged

Forget ==
  /\ approved' = {}
  /\ UNCHANGED <<judged, filled>>

GateNext == Forget \/ \E o \in Orders : Refuse(o) \/ Approve(o) \/ Fill(o)

GateSpec == GateInit /\ [][GateNext]_gateVars
=============================================================================
