--------------------------- MODULE MCCompensation ---------------------------
(* Model-checking instances of OneClickCompensation.                        *)
EXTENDS OneClickCompensation, TLC

ProcSymmetry == Permutations(Procs)

\* Every way a one-click run can fail (a Gateway it did not touch leaves
\* nothing to distinguish by the Gateway captured before it).
AllPlans == {q \in Plans : q.gateway = "untouched" => ~q.priorGateway}

\* A run that exposed a candidate, with everything there is to bring back.
FullPlans == {q \in AllPlans : /\ q.candidate = "exposed" /\ q.prior
                               /\ ~q.cross /\ ~q.sameRecord
                               /\ q.gateway = "managed" /\ q.priorGateway}
=============================================================================
