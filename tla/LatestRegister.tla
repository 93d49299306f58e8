--------------------------- MODULE LatestRegister ---------------------------
(***************************************************************************)
(* What LatestSampleCache promises for each BACKGROUND topic: one cell     *)
(* that holds the newest frame nobody has taken yet.  Writing over a frame *)
(* that was not taken counts it as overwritten; taking a frame empties the *)
(* cell.  Both happen at one instant each.                                 *)
(***************************************************************************)
EXTENDS Integers

CONSTANTS Topics, Producers, Frames,
          None           \* "no frame"; not a member of Frames

VARIABLES cell,          \* newest frame of each topic not yet taken, or None
          overwritten,   \* frames of each topic lost to a newer one
          pending,       \* put of each producer that has not taken effect
          taken          \* the last frame handed out: its topic and number

vars == <<cell, overwritten, pending, taken>>

Init == /\ cell = [h \in Topics |-> None]
        /\ overwritten = [h \in Topics |-> 0]
        /\ pending = [p \in Producers |-> None]
        /\ taken = None

Invoke(p) == /\ pending[p] = None
             /\ \E h \in Topics, f \in Frames :
                  pending' = [pending EXCEPT ![p] = <<h, f>>]
             /\ UNCHANGED <<cell, overwritten, taken>>

Write(p, h) == /\ pending[p] # None
               /\ pending[p][1] = h
               /\ cell' = [cell EXCEPT ![h] = pending[p][2]]
               /\ overwritten' = [overwritten EXCEPT
                                    ![h] = @ + IF cell[h] = None THEN 0 ELSE 1]
               /\ pending' = [pending EXCEPT ![p] = None]
               /\ UNCHANGED taken

Take(h) == /\ cell[h] # None
           /\ taken' = <<h, cell[h]>>
           /\ cell' = [cell EXCEPT ![h] = None]
           /\ UNCHANGED <<overwritten, pending>>

Next == \/ \E p \in Producers : Invoke(p) \/ \E h \in Topics : Write(p, h)
        \/ \E h \in Topics : Take(h)

Spec == Init /\ [][Next]_vars
=============================================================================
