---------------------------- MODULE MCArenaBook ----------------------------
(* Small instances of ArenaBook for TLC.                                   *)
EXTENDS ArenaBook, TLC

(* Ids are only compared and used as keys.                                 *)
IdSymmetry == Permutations(Ids)

(* No action reads the last call, nor what a freed slot still holds, which *)
(* insert_order overwrites: states that differ only there are one.  (The   *)
(* steps into such states are all checked.)                                *)
WithoutStaleSlots ==
    <<[i \in Slots |-> IF i \in Range(orderIndex) THEN storage[i] ELSE [next |-> storage[i].next]],
      freeHead, count, levels, best, orderIndex>>
=============================================================================
