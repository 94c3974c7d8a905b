----------------------------- MODULE BufferPool -----------------------------
(***************************************************************************)
(* What tile_grid.c promises about buffers, without tiles: a fixed set of  *)
(* them, one with each slot and one with the worker.  The UI task may      *)
(* rotate the slots' buffers among the slots; the worker may exchange its  *)
(* own for one slot's.  Nothing else moves a buffer, so whoever holds one  *)
(* may write it without a lock.                                            *)
(***************************************************************************)
CONSTANTS Holder, Buffer

VARIABLES held,     \* the buffer of each slot
          mine      \* the worker's buffer

vars == <<held, mine>>

HeldBySlots == {held[s] : s \in Holder}

(* Every buffer has one holder. *)
Apart ==
    /\ \A s, t \in Holder : s # t => held[s] # held[t]
    /\ mine \notin HeldBySlots

Init ==
    /\ held \in [Holder -> Buffer]
    /\ mine \in Buffer
    /\ Apart

Rotate ==
    /\ held' \in [Holder -> HeldBySlots]
    /\ \A s, t \in Holder : s # t => held'[s] # held'[t]
    /\ UNCHANGED mine

Exchange(s) ==
    /\ held' = [held EXCEPT ![s] = mine]
    /\ mine' = held[s]

Next == Rotate \/ \E s \in Holder : Exchange(s)

Spec == Init /\ [][Next]_vars
=============================================================================
