-------------------------- MODULE MCWorkerManager --------------------------
(* Small instances of WorkerManager.                                       *)
EXTENDS WorkerManager, FiniteSets

CONSTANT MaxHurried  \* bound: how often a StreamID is started unsettled

(***************************************************************************)
(* A new *Worker may be any value not used before.  Here the workers are   *)
(* numbers and the least one is taken: every behaviour is one of these up  *)
(* to the names of its workers, which no property tells apart.  (The       *)
(* SYMMETRY of a cfg would do the same, but not with liveness.)            *)
(***************************************************************************)
InOrder ==
    \A w \in Workers :
        status[w] = "new" /\ status'[w] # "new" => \A v \in 1..(w - 1) : status[v] # "new"

OrderedNext == Next /\ InOrder /\ Cardinality(unsettled') <= MaxHurried

OrderedSpec == Init /\ [][OrderedNext]_vars /\ Fairness
=============================================================================
