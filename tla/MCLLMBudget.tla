---------------------------- MODULE MCLLMBudget ----------------------------
(* TLC instances of LLMBudget. *)
EXTENDS LLMBudget

\* One repository asks for 2 calls a day, another for a negative number, which
\* SetDailyLimit turns into no limit.
TwoLimits == {-1, 2}
=============================================================================
