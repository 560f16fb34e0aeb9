# crm114_native in TLA+

`crm114_native` is a Ruby gem that classifies text. Its C extension
(`src/ext/crm114_native/crm114.c`) wraps libcrm114
(`src/ext/crm114_native/libcrm114/`), a library with six statistical
classifiers. This directory holds TLA+ specifications of the parts of it whose
correctness is a matter of state and sequence, the TLC configurations that check
them on small instances, and theorems about them proved with TLAPS.

File names below are under `libcrm114/lib/` and without the `crm114_` prefix
unless they say otherwise: `markov.c` is `libcrm114/lib/crm114_markov.c`.

Contents: [the system](#the-system), [modules](#modules),
[runs](#runs-and-bounds), [fairness](#fairness), [proofs](#proofs),
[disagreements](#disagreements-between-the-code-and-what-is-said-of-it),
[not modelled](#what-is-not-modelled-and-why), [plan](#what-could-come-next).

## The system

A caller makes a *control block* (classifier, flags, regex, tokenizer
coefficients, classes, blocks and their sizes) and from it a *database*: one
piece of memory that begins with a copy of the control block and goes on with
the data area, cut into blocks. `crm114_learn_text` tokenizes a text into
features (32-bit hashes), and hands them to the classifier's learn function,
which changes the blocks of one class; `crm114_classify_text` does the same with
the classify function, which reads the blocks of every class and fills a result.
A database can be written as text and read back, or copied as memory.

The library is one-threaded, calls nothing back and persists nothing by itself.
What makes it hard is not concurrency but long sequences of legal calls
(learn, erase, groom, dump, load, write, read), tables and blocks at their
limit, state read before memory moves and used after, calls that fail half
way, and integers at their edges.

| component | state | operations | what makes it correct | modules |
|---|---|---|---|---|
| OSB/Markov (`markov.c`) | per class an open-addressed table of (hash, value) buckets; document and feature counters | learn, erase, classify, write/read text | a stored feature is in the bucket where a search ends; the table is a count per feature; CLASS_FULL is told when, and only when, it is | `MarkovTable`, `MarkovLearn`, `MarkovText` |
| Microgroomer (`markov_microgroom.c`) | as above, taken apart and put together again | zap the cheapest buckets of a chain, pack the rest | grooming forgets whole features, the stalest first, moves the others to where they are found, and ends | `MarkovLearn` |
| Tokenizer (`vector_tokenize.c`, `strnhash.c`) | the pipeline of hashes, the array of features | tokenize, sort, remove repeats | every word makes its features, once, in room that was made for them | `Tokenizer`, `HyperspaceText` |
| Hyperspace (`hyperspace.c`) | per class a block of cells: sorted documents, each with a zero sentinel | learn (grows the block), classify, write/read text | a class is the list of its documents; two documents are compared exactly | `Hyperspace`, `HyperspaceText` |
| Data block (`base.c`) | block table (start, allocated, used) and the data area | create, resize a block | blocks never overlap, moving them keeps their contents | `DataBlock` |
| FSCM (`fast_substring_compression.c`) | per class a prefix table and a block of chain cells | learn, classify, write/read text | chains are exactly the occurrences of a slot in the text; the chain cache changes speed only; what is counted was learned | `Fscm`, `FscmMatch` |
| Bit entropy (`bit_entropy.c`) | per class a graph of nodes, a free list, the FIR chain and its lookaside table | learn and erase bit by bit, classify, write/read text | the chain is one ring of the nodes in use, no node is lost or on two lists, counts are the traffic of the documents learned | `BitEntropy` |
| SVM and PCA stores (`svm.c`, `pca.c`) | examples (old, new, support vectors), solution and counts, as binary vectors in one block | append, solve, erase, from start, groom, grow, write/read text | the file is whole, the examples in it are those learned and not erased, an answer comes from all of them | `SvmStore`, `PcaStore` |
| Streams over a data block (`datalib.c`) | position, size, end of file | read, write, seek, vectors | a transfer is short only at the end, and says so | `DataStream` |
| Matrices and vectors (`matrix.c`, `matrix_util.c`) | full vectors, expanding arrays, lists; rows of them | set, insert, remove, add, copy, multiply, transpose, map, read | a vector is an ordered partial function from columns to values, whichever way it is stored, and the counts are right | `ExpandingArray`, `SparseVector`, `VectorOps`, `Matrix` |
| Ruby objects (`crm114.c` of the gem) | the object's control block, its database, whether it has one | config blocks, learn, classify, dump, load | what is learned under a name is learned by the class of that name; a clone is the original | `ClassifierObject` |
| Entry points, control block text (`base.c`) | control block | dispatch, setters, text form | - | not modelled but for what others use |
| Regex (`regex_tre.c`), result (`util.c`), solvers | - | - | - | not modelled |

How they interact: the Ruby objects call the entry points, which call the
tokenizer and then one classifier; Hyperspace, SVM and PCA call
`crm114__resize_a_block`, which moves the database under them; the Markov
learner calls the microgroomer, which moves buckets under the search that called
it; the SVM and PCA stores are written through streams and hold rows of sparse
matrices.

`PROJECT.json` lists every component with its status, the definition-to-source
map, and the hazards, each at its line with the properties that cover it.

## Modules

```
FeatureCounts                 what a Markov class promises: a count per feature
  ^ implemented by
MarkovTable <- MarkovLearn <- MarkovText <- MCMarkov
                             ^ MarkovProofs

DocumentStore                 what a class learned by example promises: a list of documents
  ^ implemented by
DataBlock <- Hyperspace <- HyperspaceText <- MCHyperspace      Fscm <- FscmMatch <- MCFscm
                              Tokenizer ^                                   ^
                        HyperspaceProofs ^                        FscmProofs ^

BitEntropy <- MCBitEntropy             ClassifierObject <- MCClassifierObject
  ^ BitEntropyProofs                     ^ FscmProofs, at its end

ExampleSet                    what an example store promises: a bag of examples
  ^ implemented by
DataStream <- SvmStore <- MCSvmStore
   ^       |    ^ SvmStoreProofs
   ^       <- PcaStore <- MCPcaStore
   ^            ^ PcaStoreProofs
   ^ DataStreamProofs

ExpandingArray <- SparseVector <- VectorOps <- Matrix <- MCMatrix
                                                ^ MatrixProofs
```

Definitions called `Wrong...` are variants with a plausible slip, in front of
the definition they are a variant of. No specification uses one. They are there
to be put in its place, to see that a property notices.

### MarkovTable, MarkovLearn, MarkovText

`hash` and `value` are the buckets of one class (`MARKOV_FEATUREBUCKET`); other
classes have blocks of their own that learn never touches. `documents` and
`features` are the class's counters in the control block. A call of
`crm114_learn_features_markov` is not one action: it is stepped bucket by bucket,
so that everything a probe relies on is visible while it relies on it.

| action | code |
|---|---|
| `LearnRefused` | the REFUTE test (59-64) |
| `LearnCall` | entry: the document counter, the first feature's home bucket |
| `ProbeNext` | one turn of the probe loop, with the wrap at the table's end |
| `ProbeFull` | a whole round without a bucket: CLASS_FULL |
| `Store` | the found or free bucket: count up (saturating) or down (erase), counters, next feature or return |
| `GroomCall` | the call of the microgroomer: the chain's end, its one or two segments |
| `ZapSweep`, `ZapDone` | one sweep of the "multisweep" at the current cost limit, and the end of a segment |
| `PackClear`, `PackMove`, `PackNextSegment` | `packseg`: clear buckets in the middle, re-insert one bucket, next segment |
| `GroomReturn` | give up (nothing was zeroed) or correct the feature counter and search again |
| `SaveRestore` (MarkovText) | `..._write_text_fp` then `..._read_text_fp` |

`MarkovTable` has the pure parts: home bucket, successor with wrap, where a
search stops (`Stops`, `StopSlot`), what classify reads for a feature
(`LookupValue`), and what the text form keeps. Integers keep the edges that
matter: a bucket saturates one below `ValueMax`
(`MARKOV_FEATUREBUCKET_VALUE_MAX`), and the groomer's distance from home is
computed modulo 2^w as unsigned ints, which makes a bucket that wrapped round
the table look very far away (`FromHome`, with `IntMax` as the width). What the
distance should be, the buckets a search passes, is a definition of its own,
`Staleness`, that zap does not use; the properties about zap are in its terms, so
that the unsigned distance can be told from the intended one.

`FeatureCounts` is the abstract specification: learning adds one to one count
up to the limit, a new feature needs room, and with microgrooming whole features
may be forgotten. `ImplementsCounts` is the refinement: the count of a feature is
the value in its bucket, and the probing steps stutter.

### Tokenizer, DataBlock, Hyperspace, HyperspaceText

`Tokenizer` is `crm114_vector_tokenize` with the default tokenizer: a walk from
word to word that pushes the word's hash into a pipeline filled with
`0xDEADBEEF`, makes one feature for each row of the coefficient matrix modulo
2^w, and stops at the end of the text or when the features of another word have
no room (`Tokenized`). `Turn` is one turn of its loop; a text has at most as many
words as characters, so `Turns` of them reach the end. `feature_sort_unique` and
`when_su` say in which order and how often a classifier gets the features;
`Sorted` puts each in the place that the number of features up to it gives.
Beside the walk stands what it should compute, `TimesIn`: how many pairs of a
word and a row have a feature as their dot product. The hash of a word is a
constant operator; `HashAssumption` says how wide a hash is, `WordsAssumption`
of `HyperspaceText` that the words of the texts have hashes of that width. The
row number of a feature, which only the Markov weights use, is left out, and
with it the order that qsort gives equal features.

`DataBlock` is a record of size, block table and memory. `Resize` is
`crm114__resize_a_block`: `realloc`, move everything behind the block up,
correct the later offsets; added memory is `Junk` until somebody writes it.
`Hyperspace` keeps one block per class. `Learn` is a whole call: promote zero
hashes, test for room, double the block, write the cells and the sentinel, set
the counters. `LearnNoMemory` is a failed `realloc`, `LearnRefused` a class or
a flag that is not accepted, `SaveRestore` the text form.
Classification is the two-finger walk (`TwoFinger`): one `Round` per turn of the
loop, `Rounds` of which reach the end of any class, because each moves a finger on
and the one in the unknown document starts again only when the other has passed a
sentinel. It is compared in every reachable database with `Shared`, which says how
many features two documents have in common. `SortedAssumption` says that documents
are sorted, as the tokenizer leaves them for this classifier.
The unit is one 4-byte cell; all sizes in this classifier are whole cells.

`HyperspaceText` composes them into `crm114_learn_text`: `LearnText` tokenizes,
sorts and learns, in a database whose flags (with or without UNIQUE) are chosen
at the start; `LearnTextNoMemory` is either allocation failing. `taught` is a
history variable: the texts each class has learned.

### Fscm, FscmMatch

`Fscm` is one class (its two blocks): `index` is the prefix table, `chains` the
chain block whose cell 0 holds the next open position. Learning is stepped link
by link (`BeginLearn`, `FirstOfSlot`, `BeginChase`, `Chase`, `LinkAtEnd`,
`EndLearn`). `written` is a history variable, the slot learned at each position:
the text, against which the chains are judged. `FscmMatch` adds classifying:
`Classify` starts, `RunGoesOn` and `RunEnds` are the two outcomes of one look
along a chain, `NextSymbol` is `compress_me` going on behind the run.
`SearchChain` is one such look, with the two-entry cache the code keeps: `Walk`
follows the links from a cached cell or the head of the chain, `Skip` is the
search for the next occurrence after a run. What the code computes from the run
lengths (powers and probabilities) is floating point and left out.

### BitEntropy

One class of the bit-entropy classifier. `count`, `next`, `prior`, `larger`,
`smaller`, `slot` are the fields of the nodes, `firlat` the lookaside table;
`next[0][0]` heads the free list and `next[0][1]` is the start node, as in the
code. A call is stepped bit by bit, and a look-up of a FIR prior link by link:
`GoUp` and `GoDown` are the loops of `firlat_find_closest_node`, which goes up,
down and up again (`part`), and `Closest` is the choice between neighbours at
its end. Meanwhile the call waits in `pc = "find"`, and `for` remembers what the
answer is wanted for.

| action | code |
|---|---|
| `BeginLearn`, `BeginErase`, `BeginClassify` | entry of a call: where the walk starts |
| `Visit` | count up or down, move the node in the chain when its prior changes (`firlat_remove_node`, `firlat_insert_node_...`) |
| `Follow` | there is a way on for this bit: take it |
| `LookForLink`, `Link` | no way on: score the candidates around the closest node, link to the best |
| `Grow`, `GrowAfterAll`, `FileNew` | no candidate good enough: a node from the free list, and its place in the chain |
| `EndLearn` | the counters of the control block |
| `ClassifyBit`, `LookForJump`, `Jump`, `EndClassify` | the walk of classify, and the jump to the node with the closest FIR |
| `SaveRestore` | the text form |

Priors and FIRs are doubles in [0, 1]; here they are multiples of `1/FirMax`,
and a division rounds down. With the flag UNIQUE a class starts from one node,
without it from a toroid of nodes linked in advance (`ShuffleNext`). `tally` is a
history variable: the texts learned and not erased. The class sizes, the
entropies and the traces are left out.

### DataStream, SvmStore, PcaStore, ExampleSet

`DataStream` is `datalib.c` as the classifiers use it: a block as a file with a
position, reads and writes that are cut off at the end and raise eof, vectors
through it, and what both classifiers do alike (append to the file without
reading it, groom the oldest examples, count documents and features). A file is
a function from offsets to the things that begin there; one unit is a header, a
number or an element. An example is a class and the numbers of its features in
order, a repeated feature repeated; as a row it has one element for each column
(`Columns`), which holds how often the feature occurs (`Times`,
`convert_document`), and the counts of a class go up by every occurrence (`nfeat`).

`SvmStore` and `PcaStore` are the learn functions: `Learn(e, flags)` is one call
of `crm114_learn_features_svm` or `_pca` with any combination of append, erase,
from start and microgroom (read the file, move examples about, solve, groom,
write back, grow the block if it must), `ThroughText` is the text form.
Which examples hold the boundary up, how far the others lie from it, and whether
the solver gives up are free choices (`Gives`), and so is whether `realloc` finds
memory (`Memory`). `last`, `above` and `thinned` (what may have left the counts
higher than the examples), and `lapse` (how examples came to be neither learned
nor marked as new) are history variables: no action reads them. `ExampleSet` is
the promise: a bag of examples that a call adds one to, takes the same ones out
of, or leaves alone.

Erasing in the support vector machine takes off what the row says: for a row that
held the boundary up the occurrences (`nfeat` again), for one that did not the
number of its columns (`svm.c:2242-2251`, `TakenOff`). So after an example with a
repeated word was erased the count of features is too high, and
`CountsAreLearned` says so. PCA erases by starting over.

### ExpandingArray, SparseVector, VectorOps, Matrix

`ExpandingArray` is the array of `matrix_util.c` that grows at both ends,
an operator for each operation; `SparseVector` has the three ways of storing a
vector and the iterators over them; `VectorOps` the operations that walk one to
three vectors at once, of which the one they fill may be one they read;
`Matrix` the operations on rows and columns. A loop is written with `While` and
a bound on its turns (`MaxTurns`): one that would take more stops where it is,
which the properties notice; a sum or a multiple that is then still under way
is `NoEnd`, and the properties say when that is. That the bound is enough for the matrices there are
(`TurnsSuffice`: twice the columns, and the rows) is an assumption of the module.
`dense` is what the calls mean: each row as a function from columns to values.

### ClassifierObject

Any number of Ruby `Classifier` objects and the string that `datablock_memory`
returned last. `cb` is the object's own control block, `db` the database with the
copy of the control block it was created with; the two can disagree, and that is
where the trouble is. Config blocks are stepped setter by setter (`BeginConfig`,
`SetClasses`, `SetSize`, `Load`, `EndConfig`), because `load_datablock_memory`
may raise and leave the block (`LoadRaises`), and because setters overwrite each
other: `classes=` calls `crm114_cb_setblockdefaults`, and so does the end of a
`config` block. Every order of them is in the model: a block may begin on an object
that has been configured or has a database already (the gem's tests do both,
`tests/crm114_test.rb:18-48`, and load before they name the classes, 159-165).
`New` lets an object go and makes another in its place.

A learn is one cell, remembered with what it was asked for; how the classifier
stores it is the business of the other modules. A class is asked for by name or by
number; `index_of_class` makes of a name its place in the *object's* list, or -1
(`Learn` has no other guard, as gem's `crm114.c:355-361`). What an index that the
*database* has no class for does depends on the learner: most answer BADARG
(`RefuseClass`), the FSCM learner does not look
(`fast_substring_compression.c:641-658`) and writes through whatever block it
finds (`LearnNoClass`: some cell of the database is junk). Three kinds of learner
(`Learners`): of fixed size, growing (Hyperspace, SVM, PCA: `Grown`), and FSCM.

`since` is a history variable: what has happened to an object's database that made
object and database disagree, `renamed`, `shrunk` (the object was given a smaller
size), `grown`, or `cut` (it was loaded from a dump of one that was resized). The
properties say what holds as long as the one happening that breaks it has not
occurred, and the run has all of them in all orders.

## Runs and bounds

Distinct states in parentheses. Deadlock is checked in every run.

| run | question | bounds |
|---|---|---|
| `markov_learn` (721,711) | What holds when learning and erasing are mixed, up to and at the point where the table is full, and through the text form? | 3 buckets, 4 features with homes 0,0,1,1; documents of one and two features, so that a call can fail at its second; counts saturate at 2; placeholders (hash kept, value 0) arise in every position |
| `markov_groom` (102,425) | Is the table a count per feature? Does grooming forget the stalest, keep what it must where it is found, keep the counters true, and end? | 6 buckets, 5 features with homes 4,4,4,5,0, so that one bucket is always free; documents of one feature and one of two, which can fail at its second; a chain wraps round the end of the table and is packed as two segments, a second segment may hold only buckets that came round and then have a quota none of them can meet; groomed chains of two and more |
| `hyperspace_store` (12,213) | Does each class stay the list of the texts it was taught, and are documents compared exactly? | 2 classes, 2 cells each to begin with, 13 in all at most: every class grows, the first one under the second; 4 texts, two-row pipeline, 2-bit hashes, with and without UNIQUE |
| `fscm` (58,974) | Are chains the occurrences, is the cache only a cache, is what is counted learned, does every call return? | table of 3 slots, 18 chain cells (up to five documents); documents that are empty, repeat a slot, share a slot, use slot 0; 6 unknown texts |
| `bit_entropy` (404,942) | Do the graph, its chain, lookaside table and free list stay whole, are the counts the traffic, does every call return? | 14 nodes, so that the free list runs out; 4 slots; texts of two and three chars of 4 bits with common beginnings, and the empty one; three modes; 3 documents |
| `classifier_objects` (4,365,642) | Do objects, their databases and their clones agree, and for how long? | 1 object, made anew at any time while the dump stays; 2 class lists with a common name at different places; 1 number that only one list has a class for; 1 size that is set, smaller than one and larger than none; 1 text, learned at most twice by a database; sizes up to 3 |
| `matrix` (35,929) | Does a matrix stand for the same numbers whichever way its rows are stored, do readers and products agree, and when is a sum the sum? | one row of up to 5 columns or two rows of up to 2, values 0 and 1, arrays with spare room for 0 or 3, loops of at most 14 turns; for one row of up to 4 columns, every other vector of 0 and 1 as wide, of all three kinds |
| `svm_store` (13,666) | Is the file whole, are the examples those learned and not erased, do the counts and the solution count them, and does an answer come from all of them? | two examples, one per class, one of them with a feature twice, 3 stored at most; blocks of 6 or 12 units to begin with, of which the smaller must grow; a weight vector that fits the first room and one that does not; memory and solver may fail at every call |
| `pca_store` (2,600) | The same of the other classifier's file | the same, and a weight vector that takes exactly its room |
| `svm_exact_theta` | violates `SizeIsCalculated` | a weight vector that takes exactly its first room |
| `markov_groom_full` | violates `CallReturns` | 4 buckets, 5 features with one home |
| `fscm_full` | violates `NextOpenIsACell` | 7 chain cells |

Why the bounds are enough: in the tables every relative position of homes,
chains and the end of the table occurs at 3 to 6 buckets (a chain that
starts, ends, fills or wraps), two features per document is the least at which a
call can fail half way, and three saturating values show the count before, at and
after its limit. `GroomDivisor` stands for the code's 32 and `ChainLength` for
its 256: small, they let chains of two to five do what long ones do (quota 0, 1
and 2, and a segment with a quota that has only buckets that came round, for which
the code needs 32 of them). Two blocks show a block with a later one and the last
one; a third adds only another later one. Two texts that part in the middle are
the least that make a bit-entropy graph branch, meet and be linked across, and
14 nodes are fewer than they want. A vector operation looks at one element of
each vector at a time and at the ends, so four columns show the relative positions
of the elements of two vectors, interleaved, before, at and behind each other's
ends. The vectors are the row of a one-row matrix, in every way it can be stored
(a row that `matr_erase_row` leaves alone stays as it was, so what two-row
matrices make of a row is among them), and any other; matrices of two rows have up
to two columns, enough for a row and a column to come, go and be transposed beside
another, and no more than that is claimed of them. `PairCols`, `MaxDocuments`, `MaxExamples`, `MaxSize`, `MaxCells`, `LengthMax`,
`CountMax`, `MaxCount` and `Fits` are guards that end the growth of counters and
memory.

The runs of the example stores compare states with a `VIEW`. What it leaves out
cannot change what a step does: `last` is history, `kept` a function of the
database, and the counts in the control block are written only.

`markov_groom` keeps one bucket free. This is not a convenience: on a table that
is completely full some of its properties fail (below). That a call returns is not
among what a free bucket gives: `ReturnsUnlessStarved` has the exception, and the
run meets it.

What the properties say beyond types:

- Markov: `NoOrphans`: whenever a search can start, every stored feature is where
  the search for it ends. `LearnedIsFound`: a learn that ended well is seen by
  classify, whatever was erased before. `FullMeansFull`: CLASS_FULL from a probe
  means every bucket is in use by another feature (`RetIsTrue` is both). `FeaturesCoverValues`: the
  counter that classify divides by never falls behind the buckets, across
  half-failed calls, saturation and grooming. `SenseIsKept`: erasing never adds,
  learning never takes away. `StalestFirst`: of the buckets that have not come
  round the end of the table zap clears those first whose count and distance from
  home, counted in buckets passed, are least, and of those that came round it clears
  none, however stale. `PackKeepsCounts`: packing changes what is stored of no
  feature. `ReturnsUnlessStarved`: a call ends, or is in a segment where zap has
  more buckets to clear than have not come round. `OnlyLearnChangesCounts`: classify sees the
  same after the text form.
- Hyperspace: `SpaceIsKept` (blocks stay apart, no class outgrows its own),
  `ScoresAreExact`, and
  `DocumentsAreTexts`: what stands in a class is, document by document, the texts
  taught to it, each feature as often as a word and a row make it (once with
  UNIQUE), whatever moved in between.
- FSCM: `ChainsAreOccurrences`, `CacheIsTransparent` (a look that starts from a
  cached cell finds what one from the head finds), `RunsAreLearned` (every position a
  run has passed was learned with the slot the unknown text has at that step; a run
  is counted for a symbol exactly if its slot was learned, and never a longer one
  than there is; that it may be shorter is left open, below).
- Bit entropy: `ChainIsWhole`, `LookasideIsTrue`, `FreeListIsApart`,
  `CountsAreTraffic` (between calls every count is how often the documents learned
  and not erased go that way), `LearnedNeedsNoJump` (classify follows a
  learned text from end to end without leaving the graph's links).
- Example stores: `FileIsWhole`; `CountsAreLearned`: the counts are never below
  those of the examples, and exactly those but for what `above`, `thinned` or
  `lapse` names; `AnswersFromAll`: a text is weighed with a vector that knows every
  example, and in PCA after a start over that was put off with none.
- Matrices: `MeansDense` (and the rows are in order), `CountsAreTrue` (the numbers of
  non-zero elements), `ReadersAgree` (every product, comparison and copy; a multiple
  in place and into any other vector), `SumsAreExact` (sums and differences in every
  form: into one operand, into the other, into both, into a vector with or without
  contents; exact where the first comment says, and elsewhere what `SumWalk`, an
  account of the walk in terms of columns, makes of them).
- Ruby objects: `MemoryHoldsDatabase` unless `cut`, `LearnedUnderName` unless
  `renamed`, `CloneIsOriginal` unless the dumped one was resized.
- Refinements: `ImplementsCounts` (Markov), `ImplementsStore` (Hyperspace and
  FSCM), `ImplementsSet` (SVM and PCA stores).
- Liveness: `ReturnsUnlessStarved` (Markov; `CallReturns` is what `markov_groom_full`
  refutes), `CallReturns` (bit entropy) and `ClassifyReturns` (FSCM).

Conditions the runs are under, each with the code that makes it necessary:

- Erasing leaves Markov placeholders at which later searches stop, so after an
  erase a feature can be stored twice and `NoOrphans` no longer holds; the code
  does not promise that erasing undoes a learn, and the run checks what survives.
- Bit entropy erases only texts that were learned and not erased (the guard of
  `BeginErase`): another erase makes counts negative and classify divides by
  their sum (`bit_entropy.c:1944`). That the guard is enough, no count is ever
  taken below zero, is proved (`NothingIsOwed`).
- `Learn` of `ClassifierObject` needs a database: a call on an object without one
  goes to a null pointer. The names in the class lists stand for strings; a symbol,
  as in the example of `readme.md:27`, goes to `RSTRING_PTR` (gem's
  `crm114.c:610-613`), of which there is nothing to model.
- `Careful` in `SvmStore` leaves out the text form of a file with old examples
  (below), `Erasable` in both stores an erase that reads an absent matrix.
  `svm_store` has no weight vector that takes exactly its room, on which
  `svm_exact_theta` fails.
- Two vectors given to one function are equally wide, as rows of one matrix are.
  `vector_multiply` into a narrower array may not end (a column is never below the
  narrower width), and into a wider full vector leaves what is behind.

What some hazards look like in a model that has no memory addresses: a realloc
moves the database under its users in Hyperspace, SVM and PCA. That later blocks
are found at their new offsets, and that what is written after the growth goes to
the grown block, are states of the models; a pointer into the freed memory is not,
because an action names the database and not an address. A refused realloc
(`LearnNoMemory`) changes nothing by the translation itself, the code returns
before it assigns; the refinement then only says that nothing hangs on it later.

## Fairness

The specifications with liveness have weak fairness on the steps of a call that
has begun (`Learn` in MarkovLearn, `Learning` and `Matching` in FSCM, `Step` in
BitEntropy), and on nothing else: no call is ever obliged to be made. One thread
runs a call without waiting for anything, so a call with a step to take takes it.

## Proofs

The proof modules are checked by tlapm to the last leaf. The theorems hold
for every value of the constants that satisfies the named assumptions in the
modules (tables have at least one bucket, features are natural numbers, and so
on); what else a theorem needs is in its `ASSUME` and in this table.

| theorem | statement | needs | strengthening and argument |
|---|---|---|---|
| `TypeCorrect` (MarkovProofs) | `[]TypeOK` | - | inductive as it is: it has the facts that a call has a row, and that a second segment exists |
| `FullIsFull` | `FullMeansFull` | - | `ProbeInv`: every bucket the probe has passed since home is in use by another feature, so after a whole round (`FullCircle`) all are. Holds with erasing and grooming: a groom restarts the search |
| `PlainLearningOrphansNothing` | `[]NoOrphans` | no ERASE, no MICROGROOM among the flags | `ReachInv`: every stored feature is reachable, and the bucket at hand is on the way from home. `StoreKeepsReachable` is the heart: filling the bucket where the search stops cuts no other feature's way |
| `DocumentsCoverStored` | `[]StoredNeedsDocuments` | no ERASE | `DocumentsInv`: during a call the document has been counted |
| `GroomingOrphansNothing` | `[]NoOrphans` | no ERASE, no feature 0, `[]HasRoom` | `GroomInv`: behind the chain is an empty bucket, `stop`, and counted from there no way from a home to its feature wraps. Of the features in the chain, those the front has passed are where a search ends, the others no nearer than their homes. It says this of one and of two segments alike, so wrapped chains are no special case |
| `SmallVocabularyLeavesRoom` | `[]HasRoom` | no ERASE, no feature 0, fewer features than buckets | `GroomInv` makes a stored feature's bucket unique, so a full table would hold as many features as buckets |
| `PackingOnlyMoves` | `PackKeepsCounts` | as `GroomingOrphansNothing` | `GroomInv`: a bucket that is re-inserted goes to an empty one, never onto another feature |
| `PlainLearningCounts` | `ImplementsCounts` | no ERASE, no MICROGROOM | `ReachInv` gives each feature one bucket; `CountsStep` then maps a store to a count, everything else to a stutter; the number of counted features is the number of used buckets |
| `GroomingForgetsWhole` | `ImplementsCounts` | as `GroomingOrphansNothing` | `GroomInv` and `FlagsInv`: a sweep is the abstract `Forget`, which only a call under MICROGROOM may do, packing a stutter |
| `LearnedFeaturesAreFound` | `LearnedIsFound` | - | `FoundInv`: in a call without grooming, the features of the document so far are where classify's search ends, with a value. Holds after any erases: a store fills the bucket at which its own search stopped and no other way is cut |
| `LearnSaysWhatItDid` | `RetIsTrue` | - | `FullIsFull` and `LearnedFeaturesAreFound` |
| `LearningKeepsSense` | `SenseIsKept` | - | the bucket that is written is the feature's own or free; the total over the table is a sum over buckets of which one changes |
| `AnswersSurviveText` | `OnlyLearnChangesCounts` | no feature 0 | `ZeroIsFree`: a bucket without a hash has no value, so what the text form does not write was not there |
| `StalestGoFirst` | `StalestFirst` | - | for every table that an int can count (`HtLen <= IntMax`, in the module's assumption) and every limit, also one that wrapped. `FromHome` is compared with the buckets passed, `Dist`: equal for a bucket that did not wrap, and for one that did larger than any limit can be (`vcut <= IntMax`, with `TypeOK`), so that it is never cleared |
| `CounterCoversValues` | `[]FeaturesCoverValues` | no ERASE | `CoverInv`: the counter less the buckets zap has cleared, which the groomer takes off only as it returns, covers the sum of the values; saturation only makes the values fall behind |
| `EveryDocumentHasRoom` (HyperspaceProofs) | `[]SpaceIsKept` | a cell for every block (`DataSize >= NumBlocks`) | `RoomInv`: the block table, the layout, and at least one cell in each block, without which doubling does not make room for the sentinel |
| `ResizeKeepsCells` | growing a block changes no cell of any block | well laid out | - |
| `LearningAppends` | `ImplementsStore` | `DataSize >= NumBlocks` | `TextInv`: `RoomInv`, and every class is empty or ends in a sentinel. The documents of a block are cut at its sentinels; `DocsOfAppended` says that cells written behind the last one add exactly one document |
| `TwoFingersMissNothing` | `[]ScoresAreExact` | as `LearningAppends` | `KnownDocs`: every document of a class is a learned row, promoted. `Walking` is what holds between two rounds: the documents behind have exact scores, and in the one at hand what has been counted and what two sorted documents still have in common from the fingers on (`CommonFrom`) make up `Shared`; misses and matches make up the features passed. Each round leads to a lexicographically `Later` pair of fingers, so `Rounds` of them are enough |
| `TokenizedIsAll` | the features of a text are its products, each as often as `TimesIn` says | - | `Walked`, of the turns of the walk: with k words behind it the pipeline holds their hashes, latest first, and the features are the products of the first k words. `NextWord`: the next turn takes the word that starts next, or there is none. `HashedIsDot`: reducing after every term or once at the end is the same |
| `TextsBecomeDocuments` | `[]DocumentsAreTexts` | `DataSize >= NumBlocks` | `TextInv` and `Taught`: the n-th document of a class is the promoted row of the n-th text. What the row is comes from `TokenizedIsAll`, `SortedIs` (ranks are one to one) and `WithoutRepeatsIs` (in a sorted row equal features are neighbours) |
| `TextsAreStored` | `[]SpaceIsKept`, `[]ScoresAreExact`, `ImplementsStore` of `TextSpec` | as before | the same invariant: a text is learned by `Learn` of its row, and no other step changes a document |
| `ChainsFollowTheText` (FscmProofs) | `[]ChainsAreOccurrences` | - | `ChainInv`: the document being learned is inside the chain block, the walk is on the chain of its slot, and nothing has been written from the frontier on |
| `FscmTypeCorrect` | `[]TypeOK` | - | from `ChainInv` |
| `ClassIsListOfDocuments` | `ImplementsStore` | - | `LayoutInv`: the documents lie one behind the other, each closed by its end and two reserved positions, and the one being learned is in the text as far as it has been placed. `ChainsAreOccurrences` then lets the abstraction, which looks a position up in the chains, read every document back |
| `CacheHidesNothing` | `[]CacheIsTransparent` | - | `MatchInv`, in it `CacheIsOfChain`: both cached cells are on the text's chain of the slot they are kept for, and links lead from an occurrence to the next |
| `OnlyLearnedTextIsCounted` | `[]RunsAreLearned` | - | `RunInv` of `MatchInv`: the run so far was learned position by position in step with the unknown text from `occ` on, and the longest so from some position on; a slot that was learned has a first occurrence, so something is counted for it, and a slot without one counts nothing; the loops are recursive functions with a rank, and what they return is shown by the least counterexample |
| `CountsStayTraffic` (BitEntropyProofs) | `[]CountsAreTraffic` | - | `BEInv` and `TrafficInv`, inductive together. The way a text takes (`WayOf`) is open to the end of each learned text; a link is only put where no way went on (`NoSuccessor`), so no open way changes; the counts are the load of the open ways and what the call at hand has counted so far. The load is a sum over the finite set of learned texts, of which a call changes one summand |
| `LearnedNeverJumps` | `[]LearnedNeedsNoJump` | - | `KnownWay` of `TrafficInv`: classify of a learned text is always on its way |
| `NumbersStayInRange` | `[]TypeOK` | - | from `BEInv`. That counts stay at zero or above is `NothingIsOwed`: what an erase takes off is in the load |
| `LookasideStaysTrue` | `[]LookasideIsTrue` | - | `BEInv` (of which it is a conjunct): a node that leaves the chain empties the slot it is filed in, and every node it goes back in by is filed under its new prior; `Filed` is the fact about the table alone |
| `FreeListStaysApart` | `[]FreeListIsApart` | - | `BEInv`: the free list is in the order of node numbers, so it ends; ways lead only to nodes in use; `NoneLost` counts |
| `ChainStaysWhole` | `[]ChainIsWhole` | - | `BEInv` makes the chain a permutation of the nodes with a prior, linked both ways; `OneRing` adds that no set of nodes that is closed under `larger` and has node 0 leaves one out, which taking a node out and putting it in keeps; a count of the places on the way round then gives the ring |
| `NamedClassLearns` (end of FscmProofs) | `[]LearnedUnderName` | - | `ObjectInv`: shapes of the records, and for each object that it knows its database's names unless `renamed` and its size unless resized, that the memory is all there unless `cut`, and that every item asked for by name is under that name; for the dump that it is what was dumped unless that was resized. Each action is judged for one object, the others stay (`OthersStay`) |
| `DatabaseFits`, `ClonesAreOriginals` | `[]MemoryHoldsDatabase`, `CloneIsOriginal` | - | the same invariant: a dump is as long as the object's size, which is at least the database's unless it was resized (`Whole`, `Alike`) |
| `FileStaysWhole` (PcaStoreProofs) | `[]FileIsWhole` | - | `PcaInv`: the database has no file, or the file is a block's (`FileIs`): its things laid one behind the other from 0 to the end its header says, and the end within the allotment. `WrittenIs`: whatever was in the data before, a block written where `block_size` has room is a file; `AppendedIs`: so is one with a row behind the end; `ReadBack`: the block is what is read from it. Every call leads from a block's file to a block's (`StepIs`) |
| `CountsStayLearned`, `AnswersStayFromAll` | `[]CountsAreLearned`, `[]AnswersFromAll` | - | `Good` of `PcaInv`: unless `has_new` is set or something has lapsed, the weight vector knows every row and the counts are theirs; and for as long as a dropped vector has not been replaced there is none and the counts are zero. An erase that finds nothing keeps both, one that finds something starts over; every call and combination of flags is in it |
| `PcaImplementsSet` | `ImplementsSet` | `Distinct`: the comparison, which ignores the columns of the wider vector, tells examples apart | `Leaves`: the rows of the new block are those asked for, or fewer where examples are groomed, or none where the solver gives up, or, where memory is denied, those there were. `AskedBag` is that as bags: a bag is the number of times each example is in a sequence of rows (`Total(One(e), rows)`), and what is kept of a sequence and what is not add up to it (`KeepSplits`) |
| `SvmHolds` (SvmStoreProofs) | `[]SvmInv` | `ThetaFits`: no weight vector takes exactly a room it is given; `Careful` | The database has no file, or the file is that of a block whose solution is right (`Good`). A file (`FileIs`) is a block's things laid one behind the other, as many of the new rows as its header counts written with it and in the map, the others behind the end; `WrittenIs`, `AppendedIs` and `ReadBack` are as for the other store, with the map written twice and read back in three pieces (`PiecesAre`). Each operation of a learn has a lemma on what it does to `Good` and to how often each example is there (`SolvedIs`, `AtBoundaryIs`, `FewerOld`, `NewIsOldIs`, `ErasingIs`, `FromStartIs`), and `LearnEnds` puts them together for every combination of flags and failures |
| `FileStaysWhole` | `[]FileIsWhole` | as `SvmHolds` | `ReadBack`; the last part, which `svm_solve` relies on, is `Good`: a solution counts at least the support vectors and old examples there are |
| `CountsStayLearned` | `[]CountsAreLearned` | as `SvmHolds`, `Distinct` | `Covers` of `Good`: documents and features as sums over the learned rows, from below, and exactly while `above` is empty (documents: while nothing was groomed). What an erase takes off is never more than what the example added (`TakenOff`: columns are at most occurrences), and as much if no feature of it repeats. Without `Distinct` an erase takes the width of the example it is given off the count for rows that are of another width |
| `AnswersStayFromAll` | `[]AnswersFromAll` | as `SvmHolds` | `Good`: the weight vector knows the support vectors and the old examples; if there are new ones the classify solves, and `LearnedIs` says that what it finds knows every row (`KnowsAll`) |
| `SvmImplementsSet` | `ImplementsSet` | as `SvmHolds`, `Distinct` | `Leaves`, as for the other store, but up to the order of the rows (`SameRows`), which move between three matrices |
| `MatrixMeansDense` (MatrixProofs) | `[]MeansDense` | - | `MatrixInv`, which has what the property leaves out: every row is a good vector of the matrix's kind and width (`Vec`: an array's elements lie between its ends and its length is theirs), its elements, read in order, mean the row of `dense` (`Means`: columns ascend, only what is not zero is stored), and the counts add up. Argument below |
| `MatrixCounts` | `[]CountsAreTrue` | - | `Counted` of `MatrixInv`. Inductive only with the rest: the matrix's count is changed by differences of the rows' counts, before and after a call on a row |

The theorems about objects stand at the end of `FscmProofs`, which also extends
`ClassifierObject`; they use nothing of the matcher.

The FSCM theorems are about specifications whose learns fit into the chain block.
The code does not test this; `fscm_full` shows what then happens.
The theorems of `HyperspaceProofs` are about `Spec` of Hyperspace, in which any
rows of features are learned; `TextsAreStored` carries them over to `TextSpec`,
which the run checks, with rows made by the tokenizer.
`DocumentsCoverStored` is about a property no run checks.

`HasRoom` says that some bucket has no hash. The packing code argues from "at
least one empty" bucket (`markov_microgroom.c:360`) and learn does not reserve
one, so it is a hypothesis, `[]HasRoom`, of the theorems about grooming;
`SmallVocabularyLeavesRoom` discharges it for a class with more buckets than
features. "No feature 0" is the assumption that no word hashes to 0, the mark of
an empty bucket; "no ERASE" that the flag sets of the calls do not have that flag.

Supporting lemmas: `MarkovProofs` begins with the geometry of probe paths in a
circular table (distances, the first bucket on a walk that satisfies a
condition, uniqueness of a reachable bucket); it uses the least-element principle
on the naturals, as the other modules do where a loop or a chain has no bound.
`BitEntropyProofs` has sums over finite sets (`SumsExist` to `SumIsNat`: the fold
of the community modules is a recursive function, which exists, is unique, can be
split at any element and does not depend on the order), all by the least
counterexample in size (`BySize`).
`DataStreamProofs` has the loops of the streams, each a recursive function that
exists, is unique and has the value a loop invariant gives it (`LoopExists`,
`UpToAll`): totals over rows, what is kept of them, writing things one behind the
other (`WriteAllIs`), reading rows up to the end (`RowsFromIs`), a room doubled
until it is large enough (`DoubledIs`).

The theorems about matrices need no more than the assumptions of `Matrix`, of
which `TurnsSuffice` says that no loop is stopped by the bound on its turns. They
go through four layers, and each uses the ones below by their lemmas only.

- The array (`MatrixProofs` up to the searches): an array is the sequence of its
  elements. Every way in which one is put in or taken out, at an end, in the
  middle, after moving either part, after all have moved to a larger room, is
  `Inserted`, `Removed` or `Replaced` of sequences; the binary search finds a
  column, or the place for it.
- The vector: array or list with an iterator is a sequence and a place in it, one
  past the last for the end. The operations of an iterator keep `Means` and leave
  the place where the caller relies on it.
- The walks: setting, zeroing, copying over another vector, taking a column out and
  renumbering the rest, converting. Each has an invariant of the turns taken; a
  walk is a recursive function, and `LoopExists` and `CourseStays` say that it
  exists and keeps what every turn keeps. The invariant says how far so many turns
  have got at least, so after `MaxTurns` of them the walk has ended.
- The matrix: one lemma for each action (`SetElementUpright` to
  `ReadBackUpright`), over loops through rows (`FillAllIs`, `ThinAllIs`,
  `SieveAllIs`) that carry the count along.

`ThetaFits` leaves out what `svm_exact_theta` shows to go wrong: a vector of
exactly 9600 * 2^k bytes is written with more room than was calculated, and the
end of the file is then cut off. `Distinct` leaves out examples that the
comparison of `crm114_learn_features_svm` and `_pca` takes for the same although
one says more. Both hold of the instances `svm_store` and `pca_store` check; `Careful` is `TRUE` in
`svm_store`, and PCA has no such condition.

Only model-checked: liveness (out of the prover's reach), and of matrices what is
read off a state without changing it: `ReadersAgree` (products, comparisons,
distances, multiples, transposes) and `SumsAreExact` (sums of two vectors into a
third, or into one of the two). Both quantify over walks that no action takes; the lemmas of
`MatrixProofs` on single steps of a walk are what their proofs would begin with.

## Disagreements between the code and what is said of it

Shown by a run:

1. **A groom may not end** (`markov_groom_full`). The sweep's quota counts buckets
   that can never be cleared, those that wrapped round the table and look 2^32 away
   (`markov_microgroom.c:255`). The run shows it on a full table, where also the
   chain's end is looked for in vain; but a bucket that is free does not prevent it:
   the second segment of a chain that wraps, if it is of 32 buckets or more of which
   few have their home in it, has a quota of one or more and nothing it may clear.
   `markov_groom` has that case, with a free bucket, and `ReturnsUnlessStarved` says
   that there is no other way in which a call does not return.
2. **FSCM learns past its block** (`fscm_full`). Nothing compares
   `chains[0].next` with the length of the chain block
   (`fast_substring_compression.c:658`).
3. **A solution can be written past the size calculated** (`svm_exact_theta`).
   `block_size` doubles the room for the weight vector while it is smaller
   (`svm.c:1085`), `svm_write_theta_dsp` while it is not larger (1413). A vector of
   exactly 9600 bytes, with 596 features, is followed by as much free room again;
   where the block has not grown for another reason, the rows behind it are cut
   off. PCA has the same comparison in both places.

Stated in a module. Properties that the runs pass say what the code does there (5,
6, 8 to 11), or the doc's claim is refuted by TLC when it is asked of the
configuration named (4, 7):

4. **The FSCM scan skips an occurrence too many** (`SkippingLosesNothing`, with
   `fscm.cfg` and 21 chain cells). The start of the skip is taken after the step
   to the next occurrence (line 1047), so that one is always passed over after
   any run, and a longer run there is missed.
5. **A dump of a resized database is cut off** (`MemoryHoldsDatabase`,
   `CloneIsOriginal` without their conditions on `cut` and `Resized`).
   `datablock_memory` uses the size in the object's control block, which growth does
   not change (gem's `crm114.c:396`), and which a later config block may. The
   readme's own example of a clone (`readme.md:42-58`) is with an SVM, which grows
   when its file does not fit what was set, and then the clone is not the original.
6. **A later config block renames the object's classes only** (`LearnedUnderName`
   without `renamed`). Names are looked up in the object's control block, indexes
   used in the database (gem's `crm114.c:300`), which a block on an object that has
   one, or a load under other names, leaves as it was.
7. **The closest FIR is not the smallest larger one** (`FindsSmallestLarger` in
   BitEntropy). A look-up of a FIR below all others ends at node 0, so a new
   smallest node is linked above the largest (`bit_entropy.c:1099`, against the
   comment at 1116).
8. **A sum is not always the sum** (`SumsAreExact` states what it is). "ret = v1 +
   v2.  note that ret CAN point to v1 or v2" (`matrix.c:2403`) holds into a full
   vector, into an array that is no operand, and into an operand if both are sparse.
   A sum of zero zeroes the element the walk along `ret` stands on (2501, 2753),
   not the column's own: in a sparse `ret` that is an operand of a full vector,
   every zero of the full one takes the next element away; in a list that is no
   operand, a zero behind the last of its elements makes the walk begin at its head
   again and delete what was put there, and in a list that is `v2` take it for an
   operand once more, with the factor. A vector added to itself in place is walked
   for ever (one of the two iterators never moves). The solver's gradient is a list
   to which the full linear term is added in place (`svm_quad_prog.c:232`), the lossy
   form, right as long as no term of that is zero.
9. **A multiple is not always the multiple** (`ReadersAgree` states what it is).
   "ret = s*v" (`matrix.c:2521`) holds in place and between vectors of one kind. The
   end of the walk along `ret` is asked of `v` (2568): a list that is not zero, into
   an array or a full vector, is walked for ever (an index is not a null pointer);
   of an array, into a full vector the columns behind both the last element and the
   last index of its allocation in use, and into a list those behind its last
   element, keep what `ret` held. The solvers only ever multiply in place or between
   vectors of one kind (`svm_quad_prog.c:555`, 703, 1004, all made with the type of
   the other).
10. **PCA classifies with no vector after a start over that was put off**
   (`AnswersFromAll` states it). `pca.c:1608-1613`, 1621-1623 and 1844-1849 say that
   a FROMSTART (or an ERASE) with APPEND is done by the next learn or classify. The
   code drops the solution (1746) and does not set `has_new`, so that classify sees
   nothing to learn (1934-1941) and weighs every text with no vector, whatever the
   examples, until the next learn or append. The text form forgets `has_new` as
   well, and the examples it marked are then not solved for.
11. **The SVM's count of features drifts** (`CountsAreLearned` states how). Learning
   adds every occurrence ("nfeat", `svm.c:1880-1882`, 1923), erasing an old example
   takes off one less than the elements of its row (2242-2251), that is each feature
   once. The counts are those of the control block (2346-2349), from where every
   result has them.

Met while modelling, modelled as the code does it unless it says otherwise:

*Markov, Hyperspace, FSCM, tokenizer*

- A feature whose hash is 0 is learned by Markov (`markov.c:169`) but not written
  to the text form (754). The runs have no such feature.
- Packing a chain of a *full* Markov table can put a feature where no search
  finds it; the code argues from "at least one empty" bucket
  (`markov_microgroom.c:360`), which learn does not reserve.
- A Hyperspace block with no cell grows to one cell too few
  (`hyperspace.c:134`: no room for the sentinel). Hence the assumption of
  `EveryDocumentHasRoom`.
- An FSCM run of n symbols counts as n - 1, and of two as of one
  (`fast_substring_compression.c:1032`); FSCM counts as unknown the features in
  slot 0, not those never seen (1205).
- The Hyperspace learner promotes a zero hash and the classifier does not, so such
  a feature of an unknown text never matches; with UNIQUE repeats are removed
  before the promotion, so a document can hold 1 twice. An unknown text with no
  features is compared cell by cell instead of document by document;
  `ScoresAreExact` leaves it out.
- The default tokenizer reads one char past the text before it tests the bound
  (`vector_tokenize.c:208`, `215`), and a call resumed at `next_offset` starts
  with an empty pipeline.
- A `datablock_size` set in a config block is overwritten at its end, or when the
  classes are named after it (gem's `crm114.c:302`, `:621`), against the example
  in `readme.md:27`.

*Bit entropy*

- The toroid fits only if `nodeslen % width > 1`, which nothing tests
  (1637-1657; assumption `ToroidFits`), and a class of fewer than 64 nodes
  divides by zero there.
- An empty text learns the eight bits behind it (1897). An erase also adds to the
  documents (2201). The lookahead for the third bit reads the second again (1490).
- The text reader loses the class's total of bits (2777, a swapped assignment).

*Example stores*

- ERASE compares vectors only as far as both are wide (`svm.c:2212`,
  `pca.c:1716`), so it also removes examples that say all this one does and
  more, in higher columns. The run has no two such examples.
- The SVM text form does not restore the number of solved examples (1781-1818),
  and these are lost at the next read.
- PCA reads an empty database as a failure (`pca.c:678`): a fresh one cannot be
  dumped, and an ERASE dereferences a matrix that is not there (1710).
- If the solver gives up all examples are gone (`svm.c:1940`, `pca.c:1387`). An
  append that failed is not reported (`svm.c:2274`).
- The doc says that grooming removes a fraction of the examples; the code keeps
  that fraction.

*Matrices*

- `vector_copy(v, v)` of a sparse array empties it.
- Expanding a mapped array loses its last element (`matrix_util.c:271`, `286`);
  mapping a list of no elements maps one node (`matrix.c:1374`).
- The counts of non-zero elements drift: removing the only row (609-618),
  arithmetic on a row of a matrix in place, a full vector's own count
  (`crm114_matrix.h:91`), transposing, the text reader.
  `CountsAreTrue` is about the counts that are kept.
- `remove_zero_cols` with the counting sort leaves rows that are lists as they
  are (910-913).

## What is not modelled, and why

- Probabilities, radiances, entropies, pR, the SVM and PCA solvers: floating
  point. What the solver decides is a free choice in `SvmStore` and `PcaStore`.
- The hash function: a constant operator, so any collision can be had.
- The TRE regex library: not in this repository, and only tokenizing by a regex
  uses it; the default tokenizer is modelled.
- Text files that the program has not written: the readers test little, and a
  file can put a database into states no sequence of calls can.
- Calls on a Ruby object that was never configured: they use a null database and
  have no outcome to model.
- The control block's setters, its text form and the dispatch on the classifier:
  single assignments, formatted lines and a switch. What the Ruby objects do
  with them is in `ClassifierObject`.
- The class sizes of bit entropy (685-792): arithmetic on doubles.
- The result object: accessors of a copied record.
- The statistical booster and the old Hyperspace file: not compiled.

## What could come next

1. FSCM's and bit entropy's blocks in a `DataBlock` of several classes.
2. The files of the example stores node by node, composed of `VectorOps` and
   `DataStream`, instead of whole vectors.
3. The control block's text form, with strings at the buffer's limit.
4. Proofs: sums, products and transposes of rows, from the lemmas on walks.
