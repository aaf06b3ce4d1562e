------------------------- MODULE MCPromptCacheStore -------------------------
(***************************************************************************)
(* PromptCacheStore for TLC: one model with a chain of three full blocks   *)
(* and two partial tails on its second block, another model with one       *)
(* block.  A full block takes 3 bytes and a boundary 2.                    *)
(***************************************************************************)
EXTENDS PromptCacheStore

CONSTANTS a0, a1, a2, t1, t2, f0, m, n

ParentOf == [b \in Block |-> CASE b \in {a0, f0} -> NoBlock [] b = a1 -> a0 [] OTHER -> a1]
IndexOf == [b \in Block |-> CASE b \in {a0, f0} -> 0 [] b = a1 -> 1 [] OTHER -> 2]
TokensOf == [b \in Block |-> CASE b = t1 -> 1 [] b = t2 -> 2 [] OTHER -> 3]
HolderOf == [b \in Block |-> IF b = f0 THEN n ELSE m]
=============================================================================
