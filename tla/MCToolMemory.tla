---------------------------- MODULE MCToolMemory ----------------------------
(* Model-checking instance of ToolMemory: one conversation, whose text     *)
(* yields the calls a and b but not c; a is longer than the others.        *)
EXTENDS ToolMemory

ThreeBlocks  == {"a", "b", "c"}
ALonger      == [b \in ThreeBlocks |-> IF b = "a" THEN 3 ELSE 1]
SameSize     == [b \in ThreeBlocks |-> 1]
OneText      == {"t"}
FoundAandB   == [t \in OneText |-> {"a", "b"}]

Call(m, id) == [msg |-> m, id |-> id]
Histories == {<<Call(1, 1)>>, <<Call(1, 1), Call(1, 2)>>, <<Call(1, 2), Call(2, 3)>>}
=============================================================================
