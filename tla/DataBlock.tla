----------------------------- MODULE DataBlock -----------------------------
(***************************************************************************)
(* The one piece of memory in which a classifier keeps its blocks, one     *)
(* after the other: how crm114_new_db lays them out and how                *)
(* crm114__resize_a_block makes room for one of them by moving the later   *)
(* ones up.                                                                *)
(*                                                                         *)
(* A data block is a record: size is the length of the data area, start    *)
(* and alloc are the block table (start_offset, allocated_size) and mem    *)
(* the contents.  The unit is one cell of the classifier instead of one    *)
(* byte; blocks hold whole cells.                                          *)
(*                                                                         *)
(* Definitions named Wrong... are variants with a plausible slip in them.  *)
(***************************************************************************)
EXTENDS Integers

CONSTANTS
  NumBlocks,  \* cb.how_many_blocks
  Cells,      \* what a cell can hold; 0 is what calloc leaves
  Junk        \* a cell that realloc has added and nobody has written

ASSUME NumBlocksAssumption == NumBlocks \in Nat \ {0}
ASSUME CellsAssumption == 0 \in Cells /\ Junk \notin Cells

Blocks == 0 .. NumBlocks - 1

DataBlocks ==
  UNION {[size  : {n},
          start : [Blocks -> 0 .. n],
          alloc : [Blocks -> 0 .. n],
          mem   : [0 .. n - 1 -> Cells \cup {Junk}]] : n \in Nat}

(***************************************************************************)
(* A new data block: equal blocks, in order, all zero; what does not       *)
(* divide is left over at the end.                                         *)
(***************************************************************************)
NewDataBlock(size) ==
  LET each == size \div NumBlocks
  IN  [size  |-> size,
       start |-> [b \in Blocks |-> b * each],
       alloc |-> [b \in Blocks |-> each],
       mem   |-> [a \in 0 .. size - 1 |-> 0]]

(***************************************************************************)
(* Block w made newSize cells long.  Everything that follows it, up to the *)
(* end of the data area, moves up by what the block gains; for the last    *)
(* block there is nothing to move.                                         *)
(***************************************************************************)
MovedFrom(db, w) == IF w + 1 < NumBlocks THEN db.start[w + 1] ELSE db.size

\* A variant with a slip: the blocks are not moved.
WrongResizeInPlace(db, w, newSize) ==
  LET gain == newSize - db.alloc[w]
  IN  [size  |-> db.size + gain,
       start |-> [b \in Blocks |-> IF b > w THEN db.start[b] + gain ELSE db.start[b]],
       alloc |-> [db.alloc EXCEPT ![w] = newSize],
       mem   |-> [a \in 0 .. (db.size + gain) - 1 |->
                    IF a < db.size THEN db.mem[a] ELSE Junk]]

Resize(db, w, newSize) ==
  LET gain == newSize - db.alloc[w]
      from == MovedFrom(db, w)
  IN  [size  |-> db.size + gain,
       start |-> [b \in Blocks |-> IF b > w THEN db.start[b] + gain ELSE db.start[b]],
       alloc |-> [db.alloc EXCEPT ![w] = newSize],
       mem   |-> [a \in 0 .. (db.size + gain) - 1 |->
                    IF a >= from + gain THEN db.mem[a - gain]
                    ELSE IF a < db.size THEN db.mem[a] ELSE Junk]]

(***************************************************************************)
(* The blocks lie one after the other in the data area, without overlap.   *)
(***************************************************************************)
WellLaidOut(db) ==
  /\ \A b \in Blocks : db.start[b] + db.alloc[b] <= db.size
  /\ \A a, b \in Blocks : a < b => db.start[a] + db.alloc[a] <= db.start[b]
=============================================================================
