-------------------------- MODULE ClassifierObject --------------------------
(***************************************************************************)
(* The life of Ruby Classifier objects: made, configured in a block,       *)
(* taught, dumped as a string, and built from a dump.                      *)
(*                                                                         *)
(* An object has a control block of its own (cb) and a database that       *)
(* begins with a copy of one (its names and size): the two agree only as   *)
(* long as nothing changes either.  Sizes are the cells of the data area;  *)
(* a cell holds a learned document.  All objects are made with the same    *)
(* flags, as an object is and the one that is to become its clone.         *)
(*                                                                         *)
(* Definitions named Wrong... are variants with a plausible slip in them.  *)
(***************************************************************************)
EXTENDS Integers, Sequences, FiniteSets

CONSTANTS
  Objects,     \* the Classifier objects
  ClassLists,  \* the lists of names given to classes=
  Numbers,     \* the numbers a class is asked for by
  Sizes,       \* the sizes given to datablock_size=
  Texts,       \* the texts
  BlockCells,  \* default cells per class
  MaxSize,     \* bound on the size a database grows to
  MaxItems,    \* bound on the texts learned into a database
  Unnamed,     \* the name of a class that has not been named
  Free,        \* a cell with nothing in it
  Junk         \* what is read beyond the end of a string or a database

ASSUME SizesAssumption == Sizes \subseteq Nat /\ BlockCells \in Nat \ {0} /\ MaxSize \in Nat /\ MaxItems \in Nat

Names == UNION {{l[k] : k \in 1 .. Len(l)} : l \in ClassLists}

ASSUME ClassListsAssumption ==
  /\ ClassLists \subseteq Seq(Names) /\ Unnamed \notin Names
  /\ Numbers \subseteq Int /\ Names \cap Numbers = {}

\* What the flags select: a classifier that keeps the size of its database
\* (Markov, bit entropy), one that grows it (hyperspace, SVM, PCA), and one
\* that keeps it but does not look whether there is such a class (FSCM).
Learners == {"fixed", "growing", "unchecked"}

NoDb == [classes |-> <<>>, size |-> 0, data |-> <<>>]

VARIABLES
  cb,        \* crm->cb: the classes and the datablock size
  has_db,    \* crm->has_db
  db,        \* crm->db: its control block's classes and size, and the data
  block,     \* "new", "default", "plain" (in a config block of that kind) or "done"
  dump,      \* a string from datablock_memory; NoDb, none yet
  learner,   \* classifier_flags
  since,     \* history: what has happened to the object's database since it was made
  dumped,    \* history: the database the dump was taken of
  dumpedSince \* history: what had happened to that one

history == <<since, dumped, dumpedSince>>
object_vars == <<cb, has_db, db, block, dump, learner, history>>

\* "renamed": the object calls the classes otherwise than the database does;
\* "grown" by a learn; "shrunk": the object has been given a smaller size;
\* "cut": it was loaded from the dump of a grown, shrunk or cut one.
Happenings == {"renamed", "grown", "shrunk", "cut"}
Resized == {"grown", "shrunk", "cut"}

-----------------------------------------------------------------------------
\* crm114_cb_setblockdefaults.
DefaultSize(classes) == Len(classes) * BlockCells
WithDefaults(c) == [c EXCEPT !.size = DefaultSize(c.classes)]

\* crm114_new_db.
NewDb(c) == [classes |-> c.classes, size |-> c.size, data |-> [k \in 1 .. c.size |-> Free]]

\* crm114_new_cb and crm114_cb_setclassdefaults.
NewCb == WithDefaults([classes |-> <<Unnamed, Unnamed>>, size |-> 0])

ObjectInit ==
  /\ cb = [o \in Objects |-> NewCb]
  /\ has_db = [o \in Objects |-> FALSE]
  /\ db = [o \in Objects |-> NoDb]
  /\ block = [o \in Objects |-> "new"]
  /\ dump = NoDb
  /\ learner \in Learners
  /\ since = [o \in Objects |-> {}] /\ dumped = NoDb /\ dumpedSince = {}

\* The object has a database from now on.
MarkDb(o) == has_db' = [has_db EXCEPT ![o] = TRUE]

InBlock(o) == block[o] \in {"default", "plain"}
OutOfBlock(o) == ~ InBlock(o)

-----------------------------------------------------------------------------
(* config and config_without_db_defaults: the object yields a Config that  *)
(* sets its control block; when the block is done it builds the database,  *)
(* unless it has one.                                                      *)

\* The object is let go, and another one made.
New(o) ==
  /\ OutOfBlock(o)
  /\ cb' = [cb EXCEPT ![o] = NewCb]
  /\ has_db' = [has_db EXCEPT ![o] = FALSE]
  /\ db' = [db EXCEPT ![o] = NoDb]
  /\ block' = [block EXCEPT ![o] = "new"]
  /\ since' = [since EXCEPT ![o] = {}]
  /\ UNCHANGED <<dump, learner, dumped, dumpedSince>>

BeginConfig(o, kind) ==
  /\ OutOfBlock(o)
  /\ block' = [block EXCEPT ![o] = kind]
  /\ UNCHANGED <<cb, has_db, db, dump, learner, history>>

\* The object's control block is now c: does that still describe its database?
NoteSetting(o, c) ==
  /\ since' = [since EXCEPT ![o] = @ \cup
       (IF has_db[o] /\ c.classes # db[o].classes THEN {"renamed"} ELSE {}) \cup
       (IF has_db[o] /\ c.size < db[o].size THEN {"shrunk"} ELSE {})]
  /\ UNCHANGED <<dumped, dumpedSince>>

\* Naming the classes sets the sizes back to their defaults.
SetClasses(o, names) ==
  /\ InBlock(o)
  /\ cb' = [cb EXCEPT ![o] = WithDefaults([@ EXCEPT !.classes = names])]
  /\ NoteSetting(o, WithDefaults([cb[o] EXCEPT !.classes = names]))
  /\ UNCHANGED <<has_db, db, block, dump, learner>>

SetSize(o, n) ==
  /\ InBlock(o)
  /\ cb' = [cb EXCEPT ![o].size = n]
  /\ NoteSetting(o, [cb[o] EXCEPT !.size = n])
  /\ UNCHANGED <<has_db, db, block, dump, learner>>

\* load_datablock_memory refuses a dump that is longer than the size that is
\* set, and copies as much as the size that is set.
WrongTooLong(o) == FALSE
TooLong(o) == cb[o].size < Len(dump.data)

WrongCopied(o) == [k \in 1 .. cb[o].size |-> IF k < Len(dump.data) THEN dump.data[k] ELSE Junk]
Copied(o) == [k \in 1 .. cb[o].size |-> IF k <= Len(dump.data) THEN dump.data[k] ELSE Junk]

NoteLoad(o) ==
  /\ since' = [since EXCEPT ![o] =
       (IF cb[o].classes # dump.classes THEN {"renamed"} ELSE {}) \cup
       (IF dumpedSince \cap Resized # {} THEN {"cut"} ELSE {})]
  /\ UNCHANGED <<dumped, dumpedSince>>

Load(o) ==
  /\ InBlock(o) /\ dump # NoDb /\ ~ TooLong(o)
  /\ db' = [db EXCEPT ![o] = [dump EXCEPT !.data = Copied(o)]]
  /\ MarkDb(o)
  /\ NoteLoad(o)
  /\ UNCHANGED <<cb, block, dump, learner>>

\* The refusal is an exception, which leaves the block and config.
LoadRaises(o) ==
  /\ InBlock(o) /\ dump # NoDb /\ TooLong(o)
  /\ block' = [block EXCEPT ![o] = IF has_db[o] THEN "done" ELSE "new"]
  /\ UNCHANGED <<cb, has_db, db, dump, learner, history>>

EndConfig(o) ==
  /\ InBlock(o)
  /\ block' = [block EXCEPT ![o] = "done"]
  /\ IF has_db[o]
       THEN UNCHANGED <<cb, has_db, db>>
       ELSE /\ cb' = IF block[o] = "default" THEN [cb EXCEPT ![o] = WithDefaults(@)] ELSE cb
            /\ db' = [db EXCEPT ![o] = NewDb(cb'[o])]
            /\ MarkDb(o)
  /\ UNCHANGED <<dump, learner, history>>

-----------------------------------------------------------------------------
(* Learning.  A class is asked for by name or number.  A name is looked up *)
(* in the object's control block, the index used in the database.          *)

Occurs(classes, name) == {k \in 1 .. Len(classes) : classes[k] = name}
First(S) == CHOOSE k \in S : \A l \in S : k <= l

\* The index of a class, counted from 0; -1 for an unknown name.
WrongIndexOf(o, class) ==
  IF class \in Numbers THEN class
  ELSE LET S == Occurs(cb[o].classes, class) IN IF S = {} THEN 0 ELSE First(S) - 1
index_of_class(o, class) ==
  IF class \in Numbers THEN class
  ELSE LET S == Occurs(cb[o].classes, class) IN IF S = {} THEN -1 ELSE First(S) - 1

HasClass(d, k) == 0 <= k /\ k < Len(d.classes)

FreeCells(d) == {k \in 1 .. Len(d.data) : k <= d.size /\ d.data[k] = Free}

Put(d, item) == [d EXCEPT !.data[First(FreeCells(d))] = item]

\* The block with the class is doubled; what follows the old size is new memory.
Grown(d) ==
  LET size == 2 * d.size + 1
  IN  [d EXCEPT !.size = size,
                !.data = [k \in 1 .. size |-> IF k > d.size THEN Free
                                               ELSE IF k <= Len(d.data) THEN d.data[k] ELSE Junk]]

\* What is asked for, where it goes, and whether the object has been renamed.
Item(o, class, text) ==
  [class |-> index_of_class(o, class), asked |-> class, text |-> text,
   renamed |-> "renamed" \in since[o]]

WithinItems(d) == Cardinality({k \in 1 .. Len(d.data) : d.data[k] \notin {Free, Junk}}) < MaxItems

Learn(o, class, text) ==
  /\ OutOfBlock(o) /\ has_db[o] /\ HasClass(db[o], index_of_class(o, class))
  /\ WithinItems(db[o])
  /\ \/ /\ FreeCells(db[o]) # {}
        /\ db' = [db EXCEPT ![o] = Put(@, Item(o, class, text))]
        /\ UNCHANGED since
     \/ /\ learner = "growing"
        /\ 2 * db[o].size + 1 <= MaxSize
        /\ db' = [db EXCEPT ![o] = Put(Grown(@), Item(o, class, text))]
        /\ since' = [since EXCEPT ![o] = @ \cup {"grown"}]
  /\ UNCHANGED <<cb, has_db, block, dump, learner, dumped, dumpedSince>>

\* FSCM takes the block of a class there is not, and writes to what it finds.
LearnNoClass(o, class) ==
  /\ OutOfBlock(o) /\ has_db[o] /\ ~ HasClass(db[o], index_of_class(o, class))
  /\ learner = "unchecked"
  /\ \E k \in 1 .. Len(db[o].data) : db' = [db EXCEPT ![o].data[k] = Junk]
  /\ UNCHANGED <<cb, has_db, block, dump, learner, history>>

\* The other learners answer BADARG.
RefuseClass(o, class) ==
  /\ OutOfBlock(o) /\ has_db[o] /\ ~ HasClass(db[o], index_of_class(o, class))
  /\ learner # "unchecked"
  /\ UNCHANGED object_vars

\* datablock_memory: as many cells as the object's control block says.
DumpData(o) == [k \in 1 .. cb[o].size |-> IF k <= Len(db[o].data) THEN db[o].data[k] ELSE Junk]

Dump(o) ==
  /\ OutOfBlock(o) /\ has_db[o]
  /\ dump' = [db[o] EXCEPT !.data = DumpData(o)]
  /\ dumped' = db[o] /\ dumpedSince' = since[o]
  /\ UNCHANGED <<cb, has_db, db, block, learner, since>>

ObjectNext ==
  \E o \in Objects :
    \/ New(o)
    \/ \E kind \in {"default", "plain"} : BeginConfig(o, kind)
    \/ \E names \in ClassLists : SetClasses(o, names)
    \/ \E n \in Sizes : SetSize(o, n)
    \/ Load(o)
    \/ LoadRaises(o)
    \/ EndConfig(o)
    \/ \E class \in Names \cup Numbers :
         \/ \E text \in Texts : Learn(o, class, text)
         \/ LearnNoClass(o, class)
         \/ RefuseClass(o, class)
    \/ Dump(o)

ObjectSpec == ObjectInit /\ [][ObjectNext]_object_vars

-----------------------------------------------------------------------------
Items == [class : Nat, asked : Names \cup Numbers, text : Texts, renamed : BOOLEAN]
IsData(d) == \A k \in DOMAIN d : d[k] \in Items \cup {Free, Junk}

(***************************************************************************)
(* Types of the variables; a database exists exactly when has_db says so.  *)
(***************************************************************************)
ObjectTypes ==
  \A o \in Objects :
    /\ cb[o].size \in Nat /\ cb[o].classes \in ClassLists \cup {<<Unnamed, Unnamed>>}
    /\ has_db[o] \in BOOLEAN /\ since[o] \subseteq Happenings
    /\ db[o].size \in 0 .. MaxSize /\ IsData(db[o].data)
    /\ block[o] \in {"new", "default", "plain", "done"}
    /\ block[o] = "done" => has_db[o]
    /\ ~ has_db[o] => db[o] = NoDb

(***************************************************************************)
(* The memory a database is in is as large as the database says it is,     *)
(* unless it came from a dump of one that its object no longer knew the    *)
(* size of: grown by a learn, or given a smaller size by a config block.   *)
(***************************************************************************)
MemoryHoldsDatabase ==
  \A o \in Objects : "cut" \notin since[o] => Len(db[o].data) >= db[o].size

\* What of a database counts: up to its size.
Contents(d) ==
  [classes |-> d.classes,
   data |-> [k \in 1 .. d.size |-> IF k <= Len(d.data) THEN d.data[k] ELSE Junk]]

(***************************************************************************)
(* A database loaded from a dump is the database that was dumped, and a    *)
(* clone classifies as the original does, unless the original had been     *)
(* resized: a dump is as long as the object thinks its database is.        *)
(***************************************************************************)
CloneIsOriginal ==
  [][\A o \in Objects : (db'[o] # db[o] /\ has_db[o]' /\ InBlock(o) /\ InBlock(o)') =>
       (dumpedSince \cap Resized = {} => Contents(db'[o]) = Contents(dumped))]_object_vars

(***************************************************************************)
(* A text learned under a name is learned by the class that has the name   *)
(* in the database, which is the name its matches are reported by, unless  *)
(* the object had been given other names than its database has.            *)
(***************************************************************************)
LearnedUnderName ==
  \A o \in Objects : \A k \in 1 .. Len(db[o].data) :
    LET item == db[o].data[k]
    IN  (item \notin {Free, Junk} /\ item.asked \in Names /\ ~ item.renamed) =>
          db[o].classes[item.class + 1] = item.asked
=============================================================================
