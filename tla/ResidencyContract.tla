------------------------- MODULE ResidencyContract -------------------------
(***************************************************************************)
(* What the speculative pool promises about one expert, without its slots: *)
(* an expert has at most one copy, the copy moves                          *)
(*     absent -> filling -> ready -> resident -> absent                    *)
(* (it may be dropped from ready too, never while it is being filled), and *)
(* it stays where it is as long as a cold operator computes from it.       *)
(* SpecPool implements this specification.                                 *)
(***************************************************************************)
CONSTANTS Experts, Readers, None

VARIABLES where,    \* [Experts -> the stage of the expert's copy]
          serving   \* [Readers -> the expert whose copy is being read, or None]

vars == <<where, serving>>

Init ==
  /\ where = [e \in Experts |-> "free"]
  /\ serving = [r \in Readers |-> None]

Move(e, from, to) ==
  /\ where[e] \in from
  /\ where' = [where EXCEPT ![e] = to]
  /\ UNCHANGED serving

Claim(e)    == Move(e, {"free"}, "filling")
Complete(e) == Move(e, {"filling"}, "ready")
Publish(e)  == Move(e, {"ready"}, "resident")
Drop(e)     == /\ \A r \in Readers : serving[r] # e
               /\ Move(e, {"ready", "resident"}, "free")

Serve(r, e) ==
  /\ serving[r] = None
  /\ where[e] \in {"ready", "resident"}
  /\ serving' = [serving EXCEPT ![r] = e]
  /\ UNCHANGED where

Done(r) ==
  /\ serving[r] # None
  /\ serving' = [serving EXCEPT ![r] = None]
  /\ UNCHANGED where

Next ==
  \/ \E e \in Experts : Claim(e) \/ Complete(e) \/ Publish(e) \/ Drop(e)
  \/ \E r \in Readers : Done(r) \/ \E e \in Experts : Serve(r, e)

Spec == Init /\ [][Next]_vars
=============================================================================
