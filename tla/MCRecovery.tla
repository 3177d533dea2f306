----------------------------- MODULE MCRecovery -----------------------------
(* Instances of Recovery for TLC.                                          *)
EXTENDS Recovery

CONSTANT t1

MCPayloads == {<<1>>, <<2, 3>>}
MCNull == <<1>>
=============================================================================
