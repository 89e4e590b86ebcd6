---------------------------- MODULE MCLiveBindings ----------------------------
EXTENDS LiveBindings

CONSTANTS k1, k2

\* Two clients that share a slot: one of Responses with one of either other
\* protocol, or one of each other protocol.
Pair(one, other) == [c \in {k1, k2} |-> IF c = k1 THEN one ELSE other]
Is(api, tools, resends) == [api |-> api, tools |-> tools, resends |-> resends]
Pairs == {Pair(Is("responses", TRUE, FALSE), Is("openai", TRUE, FALSE)),
          Pair(Is("responses", TRUE, FALSE), Is("anthropic", TRUE, TRUE)),
          Pair(Is("openai", TRUE, TRUE), Is("anthropic", FALSE, FALSE))}
===============================================================================
