----------------------------- MODULE MarkovText -----------------------------
(***************************************************************************)
(* An OSB/Markov class that is now and then written as text and read back  *)
(* (crm114__markov_learned_write_text_fp, ..._read_text_fp), between the   *)
(* learn calls of MarkovLearn.                                             *)
(***************************************************************************)
EXTENDS MarkovLearn

\* The database is replaced by the one read from its own text.
SaveRestore ==
  /\ pc = "idle"
  /\ value' = RestoredValue(hash, value)
  /\ UNCHANGED <<hash, counters, call, groom>>

TextNext == Next \/ SaveRestore
TextSpec == Init /\ [][TextNext]_vars

-----------------------------------------------------------------------------
(***************************************************************************)
(* While no learn call is running, what classify sees of any feature stays *)
(* the same; in particular a database read back from its text answers as   *)
(* the one that was written ("correct and complete storage", base.c).      *)
(***************************************************************************)
OnlyLearnChangesCounts ==
  [][pc = "idle" =>
       \A f \in Features : LookupValue(hash', value', f) = LookupValue(hash, value, f)]_vars
=============================================================================
