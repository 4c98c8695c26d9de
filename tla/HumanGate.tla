----------------------------- MODULE HumanGate -----------------------------
(***************************************************************************)
(* What a human-approval gate promises, whatever carries the question and  *)
(* the answers: a question is asked once, people answer it while it is     *)
(* open, and it closes exactly once.  It closes as released only while the *)
(* standing answer is an approval; it may close as refused at any time (a  *)
(* denial, a timeout, the asking client going away, or a restart).         *)
(* ApprovalManager.request / resolve (approvals.py) implement it.          *)
(***************************************************************************)

CONSTANT Requests                \* the questions ever asked (approval ids)

VARIABLES stage,                 \* where each question stands
          standing               \* the answer that holds while it is open

gateVars == <<stage, standing>>

Decisions == {"approve", "deny"}

GateInit == /\ stage = [r \in Requests |-> "idle"]
            /\ standing = [r \in Requests |-> "none"]

Open(r) == /\ stage[r] = "idle"
           /\ stage' = [stage EXCEPT ![r] = "open"]
           /\ UNCHANGED standing

\* People may answer, and change their mind, as long as the question is open.
Answer(r) == /\ stage[r] = "open"
             /\ \E d \in Decisions : standing' = [standing EXCEPT ![r] = d]
             /\ UNCHANGED stage

Release(r) == /\ stage[r] = "open"
              /\ standing[r] = "approve"
              /\ stage' = [stage EXCEPT ![r] = "released"]
              /\ standing' = [standing EXCEPT ![r] = "none"]

\* Several questions are refused at once when the process that asked them restarts.
Refuse(R) == /\ \A r \in R : stage[r] = "open"
             /\ stage' = [r \in Requests |-> IF r \in R THEN "refused" ELSE stage[r]]
             /\ standing' = [r \in Requests |-> IF r \in R THEN "none" ELSE standing[r]]

GateNext == \/ \E r \in Requests : Open(r) \/ Answer(r) \/ Release(r)
            \/ \E R \in SUBSET Requests : Refuse(R)

\* The safety part: what the proofs refine.
GateSafe == GateInit /\ [][GateNext]_gateVars

\* A question never stays open for ever.
GateSpec == GateSafe /\ \A r \in Requests : WF_gateVars(Release(r) \/ Refuse({r}))
=============================================================================
