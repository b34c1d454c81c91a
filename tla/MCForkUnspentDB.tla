-------------------------- MODULE MCForkUnspentDB --------------------------
(* ForkUnspentDB for TLC: two outputs, one reader, three commits.          *)
EXTENDS ForkUnspentDB
=============================================================================
