---------------------------- MODULE MCDimAnalysis ----------------------------
(***************************************************************************)
(* Models with two or three arguments, some with dim_params.               *)
(***************************************************************************)
EXTENDS DimAnalysis

\* Dims of the arguments: a number, "?" or the name of a dim_param.
Static(n) == [name |-> "", size |-> n]
Param(p) == [name |-> p, size |-> 0]
Unnamed == Param("")

Argument(v, dims) ==
  [op |-> "Arg", ins |-> <<>>,
   params |-> [i \in DOMAIN dims |-> dims[i].name],
   type |-> [i \in DOMAIN dims |-> IF dims[i].size > 0 THEN Lit(dims[i].size) ELSE Mark(v, i)]]

Arguments(list) == [v \in DOMAIN list |-> Argument(v, list[v])]

MCSignatures ==
  {Arguments(<< <<Unnamed, Unnamed>>, <<Param("n")>> >>),
   Arguments(<< <<Param("n"), Static(2)>>, <<Unnamed, Static(2)>> >>),
   Arguments(<< <<Param("n")>>, <<Param("n")>>, <<Unnamed>> >>),
   Arguments(<< <<Param("n")>>, <<Param("n")>>, <<Param("n")>>, <<Static(1)>> >>),
   Arguments(<< <<Static(2), Unnamed, Static(2)>>, <<Static(1), Unnamed, Static(2)>> >>)}
=============================================================================
