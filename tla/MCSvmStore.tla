----------------------------- MODULE MCSvmStore -----------------------------
(* Small instances of SvmStore for TLC. *)
EXTENDS SvmStore

Ham == [class |-> 0, doc |-> <<1>>]
Spam == [class |-> 1, doc |-> <<2, 2, 3>>]

MCExamples == {Ham, Spam}

\* A vector over more than two features no longer fits into its first room.
MCThetaSize == <<1, 1, 3>>

\* A vector over two features takes exactly its first room.
MCExactSize == <<1, 2, 3>>

MCFlagSets ==
  {{}, {"append"}, {"erase"}, {"erase", "append"}, {"fromstart"},
   {"fromstart", "append"}, {"microgroom"}}

\* What a step depends on: last is history, kept a function of the database,
\* and the counts in the control block are written and not read.
MCView == <<db.alloc, db.data, above>>
=============================================================================
