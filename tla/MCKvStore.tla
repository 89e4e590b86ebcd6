----------------------------- MODULE MCKvStore -----------------------------
(* Model-checking instance of KvStore: conversations that branch.          *)
EXTENDS KvStore, TLC

Replays  == {<<1, 1>>, <<1, 1, 2>>}
Growing  == {<<1, 1>>, <<1, 1, 1, 2>>}
=============================================================================
