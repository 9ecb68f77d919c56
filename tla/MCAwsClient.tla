---------------------------- MODULE MCAwsClient ----------------------------
(* Small instances of AwsClient.                                           *)
EXTENDS AwsClient, TLC

(* Workers and streams are interchangeable, for runs that check safety.    *)
Symmetry == Permutations(Workers) \cup Permutations(StreamIDs)

(***************************************************************************)
(* A CONSTRAINT for a run with liveness, which SYMMETRY is not sound for:  *)
(* workers are numbers and taken in order.  Who is new may always be       *)
(* exchanged for another who is, so every behaviour is one of these up to  *)
(* the names of its workers, which no property tells apart, and a step     *)
(* that the constraint cuts off has one like it that it does not.          *)
(***************************************************************************)
InOrder == \A v, w \in Workers : v < w /\ status[v] = "new" => status[w] = "new"
=============================================================================
