---------------------------- MODULE MCFlashLoan ----------------------------
(* Flash loans on the small pools of MCPool.                               *)
EXTENDS MCPool, FlashLoan

CONSTANTS LoanAmount  \* what each loan asks for

ASSUME LoanAmountIsPositive == LoanAmount \in Nat \ {0}

Loans == [asset : Assets, amount : {LoanAmount}, mode : {"none", "variable"}]

(* One loan, or two of them: of one asset twice, or of two assets.         *)
MCBatches == {<<l>> : l \in Loans} \cup {<<l, m>> : l, m \in Loans}

MCFlashInit == FlashInit /\ steps = 0

MCFlashStep == steps < MaxSteps /\ FlashNext /\ steps' = steps + 1

MCFlashVars == <<flashVars, steps>>

MCFlashBound == steps = MaxSteps /\ UNCHANGED MCFlashVars

MCFlashSpec == MCFlashInit /\ [][MCFlashStep \/ MCFlashBound]_MCFlashVars
=============================================================================
