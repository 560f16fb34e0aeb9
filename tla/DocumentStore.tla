--------------------------- MODULE DocumentStore ---------------------------
(***************************************************************************)
(* What a database that learns by example promises: each class is the list *)
(* of the documents learned into it, in order; learning appends one and    *)
(* disturbs no other class.                                                *)
(***************************************************************************)
EXTENDS Sequences

CONSTANTS
  Classes,    \* the classes of the database
  Documents   \* what can be learned

VARIABLE learned

Init == learned = [c \in Classes |-> <<>>]

Learn(c, d) == learned' = [learned EXCEPT ![c] = Append(@, d)]

Next == \E c \in Classes, d \in Documents : Learn(c, d)

Spec == Init /\ [][Next]_learned
=============================================================================
