---------------------------- MODULE AtomicUpdate ----------------------------
(***************************************************************************)
(* What saving a partition table promises: between the start of an update  *)
(* and its end, which may be a crash, the stored value is the old one or   *)
(* the wanted one, and once it is the wanted one it stays so.  Nothing is  *)
(* promised about the value while no update is under way.                  *)
(***************************************************************************)
CONSTANT Content       \* what can be stored

VARIABLES
  value,    \* the stored value, {} if there is none
  wanted    \* the value being stored, {} if no update is under way

Some == {{c} : c \in Content}

Init == value \in Some \cup {{}} /\ wanted = {}

Begin == /\ wanted = {}
         /\ value # {}
         /\ wanted' \in Some
         /\ UNCHANGED value

Commit == /\ wanted # {}
          /\ value' = wanted
          /\ wanted' \in {wanted, {}}

\* The update ends or is abandoned: the value is what it was.
End == /\ wanted # {}
       /\ wanted' = {}
       /\ UNCHANGED value

Outside == /\ wanted = {}
           /\ wanted' = {}
           /\ value' \in Some \cup {{}}

Next == Begin \/ Commit \/ End \/ Outside

Spec == Init /\ [][Next]_<<value, wanted>>
=============================================================================
