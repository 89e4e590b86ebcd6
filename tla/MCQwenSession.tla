---------------------------- MODULE MCQwenSession ----------------------------
EXTENDS QwenSession, TLC

\* Every prompt that leaves room for a token.
AllPrompts == UNION {[1..n -> Tokens] : n \in 1..Ctx - 1}

Alike == Permutations(Tokens)
==============================================================================
