--------------------------- MODULE SetupContract ---------------------------
(***************************************************************************)
(* What the setup lifecycle of one symbol promises to its users: within a  *)
(* run of the engine every structure trigger opens at most one setup, a    *)
(* setup waits a bounded number of candles for its retest, ends once, and  *)
(* is left only for a trigger that was not used before.                    *)
(***************************************************************************)
EXTENDS Naturals

CONSTANTS
    Triggers,   \* the structure breaks that may open a setup
    NoTrigger,  \* before the first setup
    Patience    \* the candles a setup waits for its retest

VARIABLES used, current, status, waited

vars == <<used, current, status, waited>>

Fresh == /\ used = {}
         /\ current = NoTrigger
         /\ status = "none"
         /\ waited = 0

Open(t) == /\ t \notin used
           /\ used' = used \cup {t}
           /\ current' = t
           /\ status' = "pending"
           /\ waited' = 0

Wait == /\ status = "pending" /\ waited < Patience
        /\ waited' = waited + 1
        /\ UNCHANGED <<used, current, status>>

Retest == /\ status = "pending" /\ waited < Patience
          /\ status' = "retested"
          /\ waited' = waited + 1
          /\ UNCHANGED <<used, current>>

Fail == /\ status = "pending"
        /\ status' = "failed"
        /\ waited' = waited + 1
        /\ UNCHANGED <<used, current>>

\* The engine is started again and remembers nothing.
Forget == /\ used' = {}
          /\ current' = NoTrigger
          /\ status' = "none"
          /\ waited' = 0

Next == (\E t \in Triggers : Open(t)) \/ Wait \/ Retest \/ Fail \/ Forget

Spec == Fresh /\ [][Next]_vars
=============================================================================
