--------------------------- MODULE HyperspaceText ---------------------------
(***************************************************************************)
(* The hyperspace classifier fed with texts: the tokenizer makes a row of  *)
(* features of a text, in a database with or without the flag UNIQUE, and  *)
(* the class appends it to its block.                                      *)
(***************************************************************************)
EXTENDS Hyperspace, Tokenizer

CONSTANT Texts    \* the texts that are learned

VARIABLES
  flags,     \* cb.classifier_flags, as far as the tokenizer looks at them
  taught     \* history: the texts each class has learned, in order

FlagSets == {{}, {"UNIQUE"}}

textVars == <<vars, flags, taught>>

\* What learning or classifying the text hands to the classifier.
Row == [t \in Texts |-> [fl \in FlagSets |-> RowOf("HYPERSPACE", fl, t)]]

\* Texts are sequences of characters, whose words have hashes of w bits.
ASSUME WordsAssumption ==
  \A t \in Texts :
    /\ Len(t) \in Nat
    /\ \A a, b \in 1 .. Len(t) : strnhash(SubSeq(t, a, b)) \in 0 .. TwoToTheW - 1
ASSUME TextsAssumption == Docs = {Row[t][fl] : t \in Texts, fl \in FlagSets}

TextInit ==
  /\ Init
  /\ flags \in FlagSets
  /\ taught = [c \in Classes |-> <<>>]

\* There is no memory for the features of a text, or none for a larger block.
LearnTextNoMemory ==
  /\ ret' = "NOMEM"
  /\ UNCHANGED <<db, sizeUsed, documents, features, flags, taught>>

\* The features of a text fit in the room that is made for them.
Fits == [t \in Texts |-> Tokenized(t, Len(t) * Phases).err = "OK"]

LearnText(c, t) ==
  /\ Fits[t]
  /\ Learn(c, Row[t][flags])
  /\ taught' = [taught EXCEPT ![c] = Append(@, t)]
  /\ UNCHANGED flags

TextNext ==
  \/ \E c \in Classes, t \in Texts : LearnText(c, t)
  \/ LearnTextNoMemory
  \/ /\ \/ SaveRestore
        \/ \E c \in -1 .. NumBlocks, fl \in {{}, {"ERASE"}, {"REFUTE"}} : LearnRefused(c, fl)
     /\ UNCHANGED <<flags, taught>>

TextSpec == TextInit /\ [][TextNext]_textVars

-----------------------------------------------------------------------------
\* How often the feature f of the text t goes into a document; a feature 0
\* becomes a 1 only after repeats are removed.
TimesInText == [t \in Texts |-> [f \in Cells |-> TimesIn(t, f)]]
Counted(t, f) ==
  LET n == TimesInText[t][f] IN IF "UNIQUE" \in flags /\ n > 1 THEN 1 ELSE n

\* The document d is the text t as the pipeline promises it.
IsRowOf(d, t) ==
  /\ \A j \in 1 .. Len(d) - 1 : d[j] <= d[j + 1]
  /\ \A f \in Cells \ {0} :
       Times(f, d) = IF f = 1 THEN Counted(t, 0) + Counted(t, 1) ELSE Counted(t, f)

(***************************************************************************)
(* Every text fits, and a class holds the texts it was taught, in order,   *)
(* however its block has moved: each word with each row of the pipeline    *)
(* and the words before it has made its feature, and none is there twice   *)
(* for that in a database with the flag UNIQUE.                            *)
(***************************************************************************)
DocumentsAreTexts ==
  /\ \A t \in Texts : Fits[t]
  /\ \A c \in Classes :
       LET docs == DocsIn(CellsOf(c))
       IN  /\ Len(docs) = Len(taught[c])
           /\ \A n \in 1 .. Len(docs) : IsRowOf(docs[n], taught[c][n])
=============================================================================
