-------------------------- MODULE BufferPool_proofs --------------------------
(***************************************************************************)
(* Rotating the holders' buffers and exchanging one with the worker keeps  *)
(* every buffer with a single holder.                                      *)
(***************************************************************************)
EXTENDS BufferPool, TLAPS

Typed == held \in [Holder -> Buffer] /\ mine \in Buffer

PoolInv == Typed /\ Apart

LEMMA PoolStep == PoolInv /\ [Next]_vars => PoolInv'
<1> SUFFICES ASSUME PoolInv, [Next]_vars PROVE PoolInv'
    OBVIOUS
<1> USE DEF PoolInv, Typed, Apart, HeldBySlots
<1>1. CASE Rotate
    BY <1>1 DEF Rotate
<1>2. ASSUME NEW s \in Holder, Exchange(s)
      PROVE  PoolInv'
    BY <1>2 DEF Exchange
<1>3. CASE UNCHANGED vars
    BY <1>3 DEF vars
<1> QED
    BY <1>1, <1>2, <1>3 DEF Next

(* tile_grid.h, invariant 1, of the pool itself: however its buffers are   *)
(* handed round, no two holders have the same one.                         *)
THEOREM PoolApart == Spec => []Apart
<1>1. Init => PoolInv
    BY DEF Init, PoolInv, Typed, Apart, HeldBySlots
<1>2. PoolInv => Apart
    BY DEF PoolInv
<1> QED
    BY <1>1, <1>2, PoolStep, PTL DEF Spec
=============================================================================
