--------------------------- MODULE MCModelLoading ---------------------------
(***************************************************************************)
(* Three models: a and b have constants files of the same name in their    *)
(* own directories, and c is loaded from the working directory by its      *)
(* name alone.                                                             *)
(***************************************************************************)
EXTENDS ModelLoading

CONSTANTS a, b, c, da, db, cwd

MCDirOf == [m \in Models |-> CASE m = a -> da [] m = b -> db [] OTHER -> cwd]
MCFileOf == [m \in Models |-> IF m = c THEN "c.bin" ELSE "model.bin"]
=============================================================================
