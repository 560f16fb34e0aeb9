----------------------------- MODULE MCPcaStore -----------------------------
(* Small instances of PcaStore for TLC. *)
EXTENDS PcaStore

Ham == [class |-> 0, doc |-> <<1>>]
Spam == [class |-> 1, doc |-> <<2, 2, 3>>]

MCExamples == {Ham, Spam}

\* A vector over more than one feature takes all of its first room, and one over
\* more than two no longer fits into it.
MCThetaSize == <<1, 2, 3>>

MCFlagSets ==
  {{}, {"append"}, {"erase"}, {"erase", "append"}, {"fromstart"},
   {"fromstart", "append"}, {"microgroom"}}

\* What a step depends on: last is history, kept a function of the database,
\* and the counts in the control block are written and not read.
MCView == <<db.alloc, db.data, thinned, lapse>>
=============================================================================
