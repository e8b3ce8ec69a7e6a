---------------------------- MODULE ElementsStore ----------------------------
(***************************************************************************)
(* What the disposable elements attributes promise the compiler passes:    *)
(* constants have values that stay what they were made to be.  How a value *)
(* is stored, when its memory is freed and when it is converted to a dense *)
(* attribute do not show.                                                  *)
(***************************************************************************)
EXTENDS Naturals

CONSTANTS
  Workers,  (* The threads that run the passes on the functions.           *)
  Slots,    (* The operations that have a value attribute.                 *)
  Data,     (* The values of constants.                                    *)
  NoData

VARIABLES
  made,     (* The values that have been made.                             *)
  content,  (* The value of each operation.                                *)
  held      (* The value each thread has in hand.                          *)

vars == <<made, content, held>>

Init ==
  /\ made = {}
  /\ content = [s \in Slots |-> NoData]
  /\ held = [w \in Workers |-> NoData]

Make(w, d) ==
  /\ held[w] = NoData
  /\ d \notin made
  /\ made' = made \cup {d}
  /\ held' = [held EXCEPT ![w] = d]
  /\ UNCHANGED content

Put(w, s) ==
  /\ held[w] # NoData
  /\ content' = [content EXCEPT ![s] = held[w]]
  /\ held' = [held EXCEPT ![w] = NoData]
  /\ UNCHANGED made

Get(w, s) ==
  /\ held[w] = NoData
  /\ content[s] # NoData
  /\ held' = [held EXCEPT ![w] = content[s]]
  /\ UNCHANGED <<made, content>>

Forget(w) ==
  /\ held' = [held EXCEPT ![w] = NoData]
  /\ UNCHANGED <<made, content>>

Erase(s) ==
  /\ content' = [content EXCEPT ![s] = NoData]
  /\ UNCHANGED <<made, held>>

Next ==
  \/ \E w \in Workers : Forget(w) \/ \E d \in Data : Make(w, d)
  \/ \E w \in Workers, s \in Slots : Put(w, s) \/ Get(w, s)
  \/ \E s \in Slots : Erase(s)

Spec == Init /\ [][Next]_vars
=============================================================================
