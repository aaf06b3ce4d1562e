------------------------ MODULE MCMemoryTransaction ------------------------
(* Model checking of MemoryTransaction.  The symbol for an absent setting is *)
(* a number, so that Settings is one set of numbers.                         *)
EXTENDS MemoryTransaction

=============================================================================
