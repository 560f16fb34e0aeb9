----------------------------- MODULE Tokenizer -----------------------------
(***************************************************************************)
(* From a text to the features a classifier learns: the words go one by    *)
(* one into a pipeline of hashes, each row of the coefficient matrix makes *)
(* a feature of what is in the pipeline, and the features are sorted and   *)
(* made unique as the classifier wants them.                               *)
(*                                                                         *)
(* A text is a sequence of characters, read by the default tokenizer (runs *)
(* of graphic characters), not by a regex.  Offsets count from 0, as in    *)
(* the code.  Definitions named Wrong... are variants with a plausible     *)
(* slip in them.                                                           *)
(***************************************************************************)
EXTENDS Integers, Sequences, FiniteSets

CONSTANTS
  Graphic,      \* the characters isgraph accepts
  strnhash(_),  \* the hash of a word
  TwoToTheW,    \* unsigned int counts modulo this
  Filler,       \* what an empty place of the pipeline holds (0xDEADBEEF)
  Coeffs        \* the coefficient matrix, a sequence of rows

ASSUME HashAssumption == TwoToTheW \in Nat \ {0} /\ Filler \in 0 .. TwoToTheW - 1
ASSUME CoeffsAssumption ==
  /\ Coeffs \in Seq(Seq(Nat)) /\ Len(Coeffs) >= 1
  /\ \A r \in 1 .. Len(Coeffs) : Len(Coeffs[r]) = Len(Coeffs[1]) /\ Len(Coeffs[r]) >= 1

Phases == Len(Coeffs)
PipeLen == Len(Coeffs[1])

-----------------------------------------------------------------------------
(* The next word.                                                          *)

\* The first place from at on where a character is (or is not) graphic, or
\* the end of the text.
FirstFrom(text, at, graphic) ==
  CHOOSE n \in at .. Len(text) :
    /\ n = Len(text) \/ (text[n + 1] \in Graphic) = graphic
    /\ \A m \in at .. n - 1 : (text[m + 1] \in Graphic) # graphic

WordStart(text, at) == FirstFrom(text, at, TRUE)
WordEnd(text, at) == FirstFrom(text, WordStart(text, at), FALSE)

Word(text, at) == SubSeq(text, WordStart(text, at) + 1, WordEnd(text, at))

-----------------------------------------------------------------------------
(* The pipeline.                                                           *)

EmptyPipe == [k \in 1 .. PipeLen |-> Filler]

\* Every hash moves one place on; the last one falls out.
WrongPushed(pipe, h) == [pipe EXCEPT ![1] = h]
Pushed(pipe, h) == [k \in DOMAIN pipe |-> IF k = 1 THEN h ELSE pipe[k - 1]]

\* What a row makes of the pipeline, in unsigned arithmetic.
Hashed(pipe, row) ==
  LET ihash[k \in 0 .. PipeLen] ==
        IF k = 0 THEN 0 ELSE (ihash[k - 1] + pipe[k] * row[k]) % TwoToTheW
  IN  ihash[PipeLen]

\* The features of what is in the pipeline, one for each row.
FeaturesOf(pipe) == [r \in 1 .. Phases |-> Hashed(pipe, Coeffs[r])]

\* Where the walk over the text begins, and one turn of its loop: it ends with
\* the text, or when the features of another word have no room.
Outset == [at |-> 0, pipe |-> EmptyPipe, frs |-> <<>>, err |-> "MORE"]

Turn(text, frslen, s) ==
  IF Word(text, s.at) = <<>> THEN [s EXCEPT !.err = "OK"]
  ELSE IF Len(s.frs) + Phases > frslen THEN [s EXCEPT !.err = "FULL"]
  ELSE LET now == Pushed(s.pipe, strnhash(Word(text, s.at)))
       IN  [at |-> WordEnd(text, s.at), pipe |-> now, frs |-> s.frs \o FeaturesOf(now), err |-> "MORE"]

\* A text has no more words than characters, and one turn finds the end.
Turns(text) == Len(text) + 1

Tokenized(text, frslen) ==
  LET after[k \in 0 .. Turns(text)] ==
        IF k = 0 THEN Outset
        ELSE LET s == after[k - 1] IN IF s.err = "MORE" THEN Turn(text, frslen, s) ELSE s
  IN  after[Turns(text)]

-----------------------------------------------------------------------------
(* Sorting and removing duplicates.                                        *)

\* When a classifier wants its features sorted, and when unique: always, if
\* the flag UNIQUE is set, or never.
when_su ==
  [c \in {"OSB_BAYES", "HYPERSPACE", "SVM", "PCA", "FSCM"} |->
     [sort |-> CASE c = "OSB_BAYES" -> "U" [] c = "FSCM" -> "N" [] OTHER -> "A",
      unique |-> IF c = "FSCM" THEN "N" ELSE "U"]]

Wanted(when, flags) == when = "A" \/ (when = "U" /\ "UNIQUE" \in flags)

\* The features in order: each stands behind those that are smaller, or as
\* large and stood before it.
UpTo(fr, i) == {j \in 1 .. Len(fr) : fr[j] < fr[i] \/ (fr[j] = fr[i] /\ j <= i)}
Sorted(fr) ==
  [n \in 1 .. Len(fr) |-> fr[CHOOSE i \in 1 .. Len(fr) : Cardinality(UpTo(fr, i)) = n]]

\* A feature stays if it differs from the last one that stayed.
WithoutRepeats(fr) ==
  LET kept[n \in 0 .. Len(fr)] ==
        IF n = 0 THEN <<>>
        ELSE IF kept[n - 1] # <<>> /\ kept[n - 1][Len(kept[n - 1])] = fr[n] THEN kept[n - 1]
        ELSE Append(kept[n - 1], fr[n])
  IN  kept[Len(fr)]

feature_sort_unique(fr, sort, unique) ==
  LET ordered == IF sort THEN Sorted(fr) ELSE fr
  IN  IF unique THEN WithoutRepeats(ordered) ELSE ordered

\* What learning or classifying a text hands to a classifier.
RowOf(classifier, flags, text) ==
  feature_sort_unique(
    Tokenized(text, Len(text) * Phases).frs,
    Wanted(when_su[classifier].sort, flags), Wanted(when_su[classifier].unique, flags))

-----------------------------------------------------------------------------
(* What the features of a text are.                                        *)

\* The places where a run of graphic characters starts.
Starts(text) ==
  {n \in 1 .. Len(text) : text[n] \in Graphic /\ (n > 1 => text[n - 1] \notin Graphic)}

\* The n-th of them, and the word that starts in place s.
Start(text, n) ==
  CHOOSE s \in Starts(text) : Cardinality({q \in Starts(text) : q <= s}) = n

WordAt(text, s) ==
  SubSeq(text, s,
    CHOOSE e \in s .. Len(text) :
      /\ \A m \in s .. e : text[m] \in Graphic
      /\ e = Len(text) \/ text[e + 1] \notin Graphic)

\* The hashes of the words of a text.
HashesOf(text) ==
  [n \in 1 .. Cardinality(Starts(text)) |-> strnhash(WordAt(text, Start(text, n)))]

\* The hash k places back from the n-th word, which is itself the first.
Back(h, n, k) == IF n - k + 1 >= 1 THEN h[n - k + 1] ELSE Filler

\* The dot product of a row with the hashes of the n-th word and those before it.
Dot(h, n, row) ==
  LET sum[k \in 0 .. PipeLen] ==
        IF k = 0 THEN 0 ELSE sum[k - 1] + Back(h, n, k) * row[k]
  IN  sum[PipeLen]

\* How often a feature is such a product, of a word and a row.
TimesIn(text, f) ==
  LET h == HashesOf(text)
  IN  Cardinality({p \in (1 .. Len(h)) \X (1 .. Phases) :
                     Dot(h, p[1], Coeffs[p[2]]) % TwoToTheW = f})
=============================================================================
