----------------------------- MODULE MCLLMRouting -----------------------------
\* Small instances of LLMRouting: two providers, one of which comes twice in
\* the chain, with different models.
EXTENDS LLMRouting, TLC

CONSTANTS p1, p2

MCProvider == {p1, p2}
MCChain == <<p1, p2, p1>>

Symmetric == Permutations(Call)
===============================================================================
