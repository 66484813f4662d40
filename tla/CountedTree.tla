----------------------------- MODULE CountedTree -----------------------------
(***************************************************************************)
(* The word store of OS/projects/p3: the tree of avl.c in the mapped file  *)
(* of scm.c, as main.c drives them, in two editions: the one submitted and *)
(* the one under exam-prep.  The file is mapped shared, so what it holds   *)
(* outlives the process, however that ends.                                *)
(*                                                                         *)
(* Of the heap the model keeps what its walk over the headers can see: no  *)
(* block is ever taken twice, so blocks lie one after the other and used   *)
(* bytes of the region carry headers.                                      *)
(***************************************************************************)
EXTENDS AVLTree

CONSTANTS
    ItemSize,     \* strlen(word) + 1, of each word
    MaxItemSize,  \* and of the longest word there may be
    Capacities,   \* sizes a file may have
    PageSize,     \* mmap maps whole pages
    Editions,     \* of {"submitted", "study"}
    Width,        \* uint64_t and size_t are modulo Width
    TruncateRule, \* "any", or "fresh": only a new file is truncated
    RemoveRule,   \* "any", or "simple": see MayRemove
    MaxItems      \* bound on the words counted

ASSUME SizesAssumption == /\ Capacities \subseteq Nat /\ MaxItems \in Nat /\ MaxItemSize \in Nat \ {0}
                          /\ ItemSize \in [Words -> 1 .. MaxItemSize]

\* The files have whole pages, as the one of the notes has (Notes.txt:36), so that what lies
\* behind the file is not mapped.
ASSUME PagesAssumption == PageSize \in Nat \ {0} /\ \A c \in Capacities : c % PageSize = 0
ASSUME RulesAssumption == /\ Editions \subseteq {"submitted", "study"}
                          /\ TruncateRule \in {"any", "fresh"}
                          /\ RemoveRule \in {"any", "simple"}

StateSize == 24
NodeSize == 40

\* A file and the blocks of one more word, with headers of 10 bytes, fit an address space.
ASSUME WidthAssumption ==
    /\ Width \in Nat
    /\ \A c \in Capacities : c + (NodeSize + 10) + (MaxItemSize + 10) < Width

VARIABLES
    edition, capacity,  \* the program and the file: chosen once
    phase,              \* "closed", "open", "aborted" (an assertion), "killed"
    truncate,           \* main's flag, of the last start that got through
    used,               \* bytes behind scm->addr that carry headers
    utilized,           \* scm->utilized, which every change writes to the file
    items, unique, root \* struct state, at the base of the region

file == <<used, utilized, items, unique, root>>
vars == <<edition, capacity, phase, truncate, file>>

Submitted == edition = "submitted"

Init == /\ edition \in Editions
        /\ capacity \in Capacities
        /\ phase = "closed" /\ truncate = FALSE
        /\ used = 0 /\ utilized = 0
        /\ items = 0 /\ unique = 0 /\ root = Empty

-----------------------------------------------------------------------------
(* The heap. *)

\* A header: a short and a size_t; the study edition has none.
Header == IF Submitted THEN 10 ELSE 0

\* What precedes the first block: the counter, or the five words of meta data.
Meta == IF Submitted THEN 8 ELSE 40

Region == capacity - Meta

Block(n) == n + Header

\* The walk of scm_malloc finds a header of size 0 before the end; the study
\* edition asks for room instead.
Finds(at, n) == IF Submitted THEN at < Region ELSE at + n <= Region

\* The block found ends inside the mapping; writing one that does not is fatal.
Fits(at, n) == at + Block(n) <= Region

HeaderFits(at) == at + Header <= Region

\* scm_malloc and scm_free, as they change the file.  A freed block keeps its size, so no
\* walk ever takes it again.
Take(n) == /\ used' = used + n
           /\ utilized' = (utilized + n) % Width

\* Mutants: a signed counter; the header subtracted once more with the block.
GiveSigned(n) == utilized' = utilized - n

GiveTwice(n) == utilized' = (utilized - 2 * n) % Width

Give(n) == utilized' = (utilized - n) % Width

-----------------------------------------------------------------------------
(* Starting and leaving the program. *)

\* Mutant: the submitted edition compares the recorded size as well.
ClearsAlways == TRUE

\* load() of the study edition compares the recorded size with that of the handle,
\* which is 0 yet, so it always clears the region.
Clears == ~Submitted

\* avl_open takes the state as found.
OpenFound(t) ==
    /\ phase # "open"
    /\ t => TruncateRule = "any" \/ used = 0
    /\ ~Clears /\ ~t /\ utilized # 0
    /\ phase' = "open" /\ truncate' = t
    /\ UNCHANGED <<edition, capacity, file>>

\* A state without words, at the base of a region without blocks.
NewState ==
    /\ used' = Block(StateSize) /\ utilized' = Block(StateSize)
    /\ items' = 0 /\ unique' = 0 /\ root' = Empty

\* avl_open makes a new state, at the base of an unused region.
OpenNew(t) ==
    /\ phase # "open"
    /\ ~Clears /\ used = 0
    /\ Fits(0, StateSize)
    /\ phase' = "open" /\ truncate' = t
    /\ NewState
    /\ UNCHANGED <<edition, capacity>>

\* file_size of the study edition: there is more than the meta data.
HasRoom == capacity > Meta

\* The region is cleared, whatever it held, and avl_open makes a new state.
OpenCleared(t) ==
    /\ phase # "open"
    /\ Clears
    /\ HasRoom /\ Fits(0, StateSize)
    /\ phase' = "open" /\ truncate' = t
    /\ NewState
    /\ UNCHANGED <<edition, capacity>>

\* ftruncate to the length the file has leaves the old blocks in place, so the new
\* state is not at the base, and the assertion at the end of avl_open fails.
OpenAborts(t) ==
    /\ phase # "open"
    /\ ~Clears /\ used # 0
    /\ t \/ utilized = 0
    /\ t => TruncateRule = "any"
    /\ Finds(used, StateSize) /\ HeaderFits(used)
    /\ phase' = IF Fits(used, StateSize) THEN "aborted" ELSE "killed"
    /\ used' = used + Block(StateSize) /\ utilized' = Block(StateSize)
    /\ UNCHANGED <<edition, capacity, truncate, items, unique, root>>

\* avl_close: what msync writes is in the shared mapping already.
Close == /\ phase = "open"
         /\ phase' = "closed"
         /\ UNCHANGED <<edition, capacity, truncate, file>>

\* The process dies between two commands.
Die == /\ phase = "open"
       /\ phase' = "killed"
       /\ UNCHANGED <<edition, capacity, truncate, file>>

-----------------------------------------------------------------------------
(* The commands. *)

Command == phase = "open" /\ UNCHANGED <<edition, capacity, truncate>>

InsertKnown(w) ==
    /\ Command
    /\ exists[root][w] > 0 /\ items < MaxItems
    /\ root' = update[root][w]
    /\ items' = (items + 1) % Width
    /\ UNCHANGED <<phase, used, utilized, unique>>

\* The blocks of a word, its node and its item, and where the item of a new word goes.
Blocks(w) == Block(NodeSize) + Block(ItemSize[w])
ItemAt == used + Block(NodeSize)

InsertNew(w) ==
    /\ Command
    /\ exists[root][w] = 0 /\ items < MaxItems
    /\ Finds(used, NodeSize) /\ Finds(ItemAt, ItemSize[w]) /\ Fits(ItemAt, ItemSize[w])
    /\ Take(Blocks(w))
    /\ root' = update[root][w]
    /\ items' = (items + 1) % Width
    /\ unique' = (unique + 1) % Width
    /\ UNCHANGED phase

\* Mutant: counted before the allocation.
InsertFullCounted(w) ==
    /\ Command
    /\ exists[root][w] = 0 /\ ~Finds(used, NodeSize)
    /\ items' = (items + 1) % Width
    /\ UNCHANGED <<phase, used, utilized, unique, root>>

\* scm_malloc returns NULL, for the node or, with the node lost, for its item.
\* update stores the NULL as the child it was, and avl_insert returns 0.
InsertFull(w) ==
    /\ Command
    /\ exists[root][w] = 0
    /\ IF Finds(used, NodeSize)
       THEN /\ Fits(used, NodeSize) /\ ~Finds(ItemAt, ItemSize[w])
            /\ Take(Block(NodeSize))
       ELSE UNCHANGED <<used, utilized>>
    /\ UNCHANGED <<phase, items, unique, root>>

\* scm_malloc never asks whether the block ends in the mapping.  Writing the node,
\* or the item, beyond it, or reading a header there, is a segmentation fault.
InsertFaults(w) ==
    /\ Command
    /\ exists[root][w] = 0
    /\ Finds(used, NodeSize)
    /\ IF ~Fits(used, NodeSize)
       THEN IF HeaderFits(used) THEN Take(Block(NodeSize)) ELSE UNCHANGED <<used, utilized>>
       ELSE /\ Finds(ItemAt, ItemSize[w]) /\ ~Fits(ItemAt, ItemSize[w])
            /\ IF HeaderFits(ItemAt) THEN Take(Blocks(w))
               ELSE Take(Block(NodeSize))
    /\ phase' = "killed"
    /\ UNCHANGED <<items, unique, root>>

\* The removals after which the tree is what it should be: of a word that is there,
\* and not of the last copy of a word with two children whose successor has copies.
MayRemove(w) ==
    \/ RemoveRule = "any"
    \/ exists[root][w] > 1
    \/ exists[root][w] = 1 /\ Freed[root][w] # {}

\* scm_free takes the size from the block's header: that of the item freed, which
\* is another word's if the node removed has a child.
Remove(w) ==
    /\ Submitted /\ Command /\ MayRemove(w)
    /\ root' = remove_node[root][w]
    /\ items' = (items - 1) % Width
    /\ unique' = IF ExistsFromOldRoot(root, w) = 0 THEN (unique - 1) % Width ELSE unique
    /\ IF Freed[root][w] = {} THEN Give(0) ELSE \E v \in Freed[root][w] : Give(Blocks(v))
    /\ UNCHANGED <<phase, used>>

\* avl_delete of the study edition.  scm_free gives a block of the mapping to free(),
\* which is undefined: the process ends, or goes on as if nothing had been freed.
Delete(w) ==
    /\ ~Submitted /\ Command /\ MayRemove(w)
    /\ root' = remove_node[root][w]
    /\ items' = IF Freed[root][w] = {} /\ exists[root][w] > 0
                THEN (items - 1) % Width ELSE items
    /\ phase' \in IF Freed[root][w] = {} THEN {"open"} ELSE {"open", "killed"}
    /\ UNCHANGED <<used, utilized, unique>>

Next ==
    \/ \E t \in BOOLEAN : OpenFound(t) \/ OpenNew(t) \/ OpenCleared(t) \/ OpenAborts(t)
    \/ Close
    \/ Die
    \/ \E w \in Words :
         \/ InsertKnown(w)
         \/ InsertNew(w)
         \/ InsertFull(w)
         \/ InsertFaults(w)
         \/ Remove(w)
         \/ Delete(w)

Spec == Init /\ [][Next]_vars
-----------------------------------------------------------------------------
(* Properties. *)

Listed == traverse[root]

\* The words found by avl_exists, as a bag.
Bag == [w \in Words |-> exists[root][w]]

\* The variables have their types; at most one new word's blocks reach beyond the file.
TypeOK ==
    /\ edition \in Editions /\ capacity \in Capacities /\ truncate \in BOOLEAN
    /\ phase \in {"closed", "open", "aborted", "killed"}
    /\ {utilized, items, unique} \subseteq 0 .. Width - 1
    /\ used < Region + Block(NodeSize) + Block(MaxItemSize)

\* What the walk of avl_exists finds is what the list shows: every word at most once, in
\* strictly rising order, each with its count (avl.c remove_node and the rotations).
EveryWordFound ==
    /\ \A i \in 1 .. Len(Listed) - 1 : Listed[i].word < Listed[i + 1].word
    /\ \A i \in DOMAIN Listed : Listed[i].count = Bag[Listed[i].word]
    /\ \A w \in Words : Bag[w] > 0 => \E i \in DOMAIN Listed : Listed[i].word = w

\* Every stored depth is the height, and the children's heights differ by one at most.
Balanced == IsBalanced[root]

\* The total the info command shows is what the nodes count, whatever was inserted, refused
\* by a full heap, removed, and through restarts (avl.c:94, avl.c:267).
ItemsMatch == Submitted => items = Copies[root] % Width

\* A running program has its state in the file, a file without blocks has no words, and
\* the unique words are counted too many at worst, and never more than there are bytes
\* (avl.c:144-162, avl.c:95, 268).
FileAgrees ==
    /\ phase = "open" => used > 0
    /\ used = 0 => root = Empty /\ utilized = 0
    /\ Submitted => Len(Listed) <= unique /\ unique <= used

\* The tree is searchable, balanced and has as many words as it says, and the heap stays
\* in its file (avl.c:79-131, 196-256, scm.c:149).
TreeSound == TypeOK /\ EveryWordFound /\ Balanced /\ ItemsMatch /\ FileAgrees

\* The number of unique words goes wrong in no step but the removal of the last word,
\* where avl_exists looks from a root that is gone (avl.c:268).
UniqueFollows ==
    [][Submitted /\ root' # Empty => unique' - Len(Listed') = unique - Len(Listed)]_vars

EqualItems == \A v, w \in Words : ItemSize[v] = ItemSize[w]

\* The heap counts every block the tree reaches and none it never laid out.
Honest ==
    used > 0 => /\ \A w \in Words : Block(StateSize) + Len(Listed) * Blocks(w) <= utilized
                /\ utilized <= used

\* As long as all words are of one length, no command, no end of the process and no restart
\* makes the counter of the heap wrong, by which a file with words is told from a new one;
\* only a start that does not get through does.  A removal frees one item for the one it
\* takes out of the tree, and often another (avl.c:217-225, scm.c:163, 202, avl.c:149).
UtilizedStaysHonest ==
    [][EqualItems /\ Honest /\ phase' \in {"open", "closed"} => Honest']_vars

\* The counters follow the tree, the heap's with words of one length (avl.c:102, 268;
\* scm.c:163).
CountersFollow == UniqueFollows /\ UtilizedStaysHonest

Promise == INSTANCE WordBag WITH bag <- Bag

\* The words are a bag that only the commands change and that outlives the process; a
\* full heap changes nothing.  For the submitted edition: the other clears at each start.
KeepsPromise ==
    Promise!Init /\ [][Submitted => [Promise!Next]_<<Bag, truncate>>]_vars

\* avl_open finds the new state at scm_mbase: assert(avl->state == scm_mbase(avl->scm)).
StateAtBase == phase # "aborted"
=============================================================================
