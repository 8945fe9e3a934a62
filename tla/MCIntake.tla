------------------------------ MODULE MCIntake ------------------------------
(* Small instances of Intake for TLC. *)
EXTENDS Intake, TLC

CONSTANTS c1, c2, q1, q2, k1, s1

\* A sub-request of credit per unit of time, so that rounding matters.
Rates == "ip" :> 3 @@ "inst" :> 2
Bursts == "ip" :> 2 @@ "inst" :> 1
DueTimes == s1 :> {5, 7}

OneClient == q1 :> c1 @@ q2 :> c1
TwoClients == q1 :> c1 @@ q2 :> c2

RequestSymmetry == Permutations(Requests)
=============================================================================
