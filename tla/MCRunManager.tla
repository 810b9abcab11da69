---------------------------- MODULE MCRunManager ----------------------------
(* Small instances of RunManager for TLC.                                  *)
EXTENDS RunManager, TLC

AllSymmetry == Permutations(Runs) \cup Permutations(Emails) \cup Permutations(Workers)

(* With one run, the first address to be lent and the first worker to move *)
(* are chosen among equals; one choice stands for all of them.  (Symmetry  *)
(* sets are not sound for liveness.)                                       *)
FirstEmail == CHOOSE e \in Emails : TRUE
FirstWorker == CHOOSE w \in Workers : TRUE

ChoosesFirst ==
  \A r \in Runs :
    /\ plan[r] = <<>> /\ plan'[r] # <<>> => plan'[r] = <<FirstEmail>>
    /\ next[r] = 1 /\ task'[r].pc = "gather" /\ (\A w \in Workers : worker[r][w].pc = "take")
         => \A w \in Workers \ {FirstWorker} : worker'[r][w] = worker[r][w]

(* Two failures, or one and a restart.                                     *)
TwoMisfortunes == faults + restarts <= 2
=============================================================================
