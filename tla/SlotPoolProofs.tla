--------------------------- MODULE SlotPoolProofs ---------------------------
(***************************************************************************)
(* What an implementation of SlotPool gets from it: never more holders     *)
(* than slots, for any set of clients and any capacity.                    *)
(***************************************************************************)
EXTENDS SlotPool, FiniteSetTheorems, TLAPS

\* No set of holders a pool can reach is larger than its capacity: the limit
\* on children, archive operations and event streams is one.
THEOREM PoolLimit ==
    ASSUME IsFiniteSet(Clients), Capacity \in Nat
    PROVE  Spec => []WithinCapacity
<1>1. Init => WithinCapacity
  BY FS_EmptySet DEF Init, WithinCapacity
<1>2. ASSUME WithinCapacity, [Next]_holders
      PROVE  WithinCapacity'
  <2>1. IsFiniteSet(holders) /\ Cardinality(holders) \in Nat
    BY <1>2, FS_Subset, FS_CardinalityType DEF WithinCapacity
  <2>2. CASE UNCHANGED holders
    BY <1>2, <2>2 DEF WithinCapacity
  <2>3. ASSUME NEW c \in Clients, Take(c)
        PROVE  WithinCapacity'
    <3>1. Cardinality(holders') = Cardinality(holders) + 1
      BY <2>1, <2>3, FS_AddElement DEF Take
    <3> QED BY <1>2, <2>1, <2>3, <3>1 DEF Take, WithinCapacity
  <2>4. ASSUME NEW c \in Clients, Give(c)
        PROVE  WithinCapacity'
    <3>1. Cardinality(holders') = Cardinality(holders) - 1
      BY <2>1, <2>4, FS_RemoveElement DEF Give
    <3> QED BY <1>2, <2>1, <2>4, <3>1 DEF Give, WithinCapacity
  <2> QED BY <1>2, <2>2, <2>3, <2>4 DEF Next
<1> QED BY <1>1, <1>2, PTL DEF Spec
=============================================================================
