-------------------------- MODULE MCDisposablePool --------------------------
(* One attribute is larger than the others, so that the batches differ.    *)
EXTENDS DisposablePool

MCSizeOf == [i \in Ids |-> IF i = 1 THEN 2 ELSE 1]
=============================================================================
