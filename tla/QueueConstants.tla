--------------------------- MODULE QueueConstants ---------------------------
(***************************************************************************)
(* The parameters of src/src/LockFreeQueue.h and what is assumed of them.  *)
(***************************************************************************)
EXTENDS Integers

CONSTANTS
  Capacity,  \* template parameter CAPACITY, a power of two
  Laps,      \* times CAPACITY fits in the range of INDEX_TYPE
  Items,     \* values the queue carries
  Nothing    \* pop() found the queue empty; also: no value yet

ASSUME CapacityAssumption == Capacity \in Nat \ {0}
ASSUME LapsAssumption     == Laps \in Nat \ {0, 1}
ASSUME NothingAssumption  == Nothing \notin Items
=============================================================================
