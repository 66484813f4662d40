------------------------------ MODULE Transpose ------------------------------
(***************************************************************************)
(* The transposer of PDC/hw5: threads take chunks of swaps from a shared   *)
(* index under a mutex and make the swaps outside it.  unsigned int is     *)
(* modulo UIntSize.  main's check of the result is part of the model.          *)
(***************************************************************************)
EXTENDS Integers, FiniteSets, FiniteSetsExt

CONSTANTS
    Sizes,       \* arguments tried for the matrix size, with 0
    MaxThreads,
    Grains,      \* arguments tried for the grain
    UIntSize     \* 2^32 in the code

\* What the constants must be.
ASSUME TransposeAssumption ==
    /\ Sizes \subseteq Nat /\ Grains \subseteq Nat /\ MaxThreads \in Nat /\ UIntSize \in Nat
    /\ \A n \in Sizes : 4 * n * n < UIntSize

VARIABLES
    main,    \* "idle", "working", "usage" (help printed), "correct", "wrong" (exit(1))
    args,    \* the parsed command line
    mat,     \* mat->ptr, as a function of <<row, col>>
    last,    \* lastSwappedIndex
    at,      \* where each thread is: "lock", "swap", "ended"
    start,   \* swapStart of each thread
    end      \* swapEnd of each thread

transposeVars == <<main, args, mat, last, at, start, end>>

Indices(n) == (0 .. n - 1) \X (0 .. n - 1)

\* mat_fill_incr, with 1 for the first element; m_ctl is the same.
Filled(n) == [p \in Indices(n) |-> 1 + p[1] * n + p[2]]

TransposeInit == /\ main = "idle" /\ args = [size |-> 0] /\ mat = <<>>
                 /\ last = 0 /\ at = <<>> /\ start = <<>> /\ end = <<>>

-----------------------------------------------------------------------------
\* parse_cmd_line: the size, 's' or 'm', and for 'm' threads and grain.
CommandLines == [size : Sizes, conc : {"s", "m", "?"}, argc : {3, 4, 5},
                 threads : 0 .. MaxThreads, grain : Grains]

Accepted(a) ==
    /\ a.size # 0
    /\ \/ a.conc = "s" /\ a.argc = 3
       \/ a.conc = "m" /\ a.argc = 5 /\ a.threads # 0 /\ a.grain # 0

Usage(a) == /\ main = "idle" /\ ~Accepted(a)
            /\ main' = "usage" /\ args' = [size |-> a.size]
            /\ UNCHANGED <<mat, last, at, start, end>>

Exchanged(m, p) == [m EXCEPT ![p] = m[<<p[2], p[1]>>], ![<<p[2], p[1]>>] = m[p]]

\* mat_check_transpose of the control matrix and the result, and main's exit code.
Verdict(n, m) ==
    IF \A p \in Indices(n) : Filled(n)[p] = m[<<p[2], p[1]>>] THEN "correct" ELSE "wrong"

\* mat_squaretransp_sequential swaps every pair above the diagonal.
Sequential(a) ==
    /\ main = "idle" /\ Accepted(a) /\ a.conc = "s"
    /\ mat' = [p \in Indices(a.size) |-> Filled(a.size)[<<p[2], p[1]>>]]
    /\ main' = Verdict(a.size, mat') /\ args' = a
    /\ UNCHANGED <<last, at, start, end>>

\* mat_squaretransp_parallel.  A matrix of one element has no swap: numElements - 1 wraps,
\* and a thread swaps from 0 to the largest unsigned int, far outside the matrix.  That is
\* undefined, and not followed here.
Create(a) ==
    /\ main = "idle" /\ Accepted(a) /\ a.conc = "m" /\ a.size > 1
    /\ mat' = Filled(a.size) /\ last' = UIntSize - 1
    /\ main' = "working" /\ args' = a
    /\ at' = [t \in 1 .. a.threads |-> "lock"]
    /\ start' = [t \in 1 .. a.threads |-> 0]
    /\ end' = [t \in 1 .. a.threads |-> 0]

numElements == (args.size * args.size - args.size) \div 2

\* Mutant: the next chunk begins with the last swap of the one before.
FirstFromLast == last % UIntSize

First == (last + 1) % UIntSize

\* Mutant: the end of the chunk is not brought back to the last swap.
LastUnclipped(first) == (first + args.grain - 1) % UIntSize

LastOf(first) ==
    LET e == (first + args.grain - 1) % UIntSize
    IN IF e >= numElements THEN numElements - 1 ELSE e

\* Mutant: past the last swap instead of at it.
FinishedPast(t) == end[t] > numElements - 1

\* The test is on the end of the thread's own last chunk.
Finished(t) == end[t] >= numElements - 1

\* The section under the mutex.
TakeChunk(t) ==
    /\ main = "working" /\ at[t] = "lock"
    /\ start' = [start EXCEPT ![t] = First]
    /\ IF Finished(t)
       THEN at' = [at EXCEPT ![t] = "ended"] /\ UNCHANGED <<end, last>>
       ELSE /\ end' = [end EXCEPT ![t] = LastOf(First)]
            /\ last' = LastOf(First)
            /\ at' = [at EXCEPT ![t] = "swap"]
    /\ UNCHANGED <<main, args, mat>>

\* Row and column of the k-th pair above the diagonal: floor(sqrt(x) / 2 - 1/2) is the
\* largest r with (2r + 1)^2 <= x.
Pair(k) ==
    LET n == args.size
        x == (4 * n * (n - 1) - 7 - 8 * k) % UIntSize
        row == n - 2 - Max({r \in 0 .. n : (2 * r + 1) * (2 * r + 1) <= x})
        col == k + row + 1 - (n * (n - 1)) \div 2 + ((n - row) * (n - row - 1)) \div 2
    IN <<row, col>>

Swap(t) ==
    /\ main = "working" /\ at[t] = "swap"
    /\ IF start[t] <= end[t]
       THEN /\ mat' = Exchanged(mat, Pair(start[t]))
            /\ start' = [start EXCEPT ![t] = @ + 1]
            /\ at' = at
       ELSE /\ at' = [at EXCEPT ![t] = "lock"]
            /\ UNCHANGED <<mat, start>>
    /\ UNCHANGED <<main, args, last, end>>

\* pthread_join of all, and the check.
Join == /\ main = "working" /\ \A t \in DOMAIN at : at[t] = "ended"
        /\ main' = Verdict(args.size, mat)
        /\ UNCHANGED <<args, mat, last, at, start, end>>

Thread(t) == TakeChunk(t) \/ Swap(t)

TransposeNext ==
    \/ \E a \in CommandLines : Usage(a) \/ Sequential(a) \/ Create(a)
    \/ \E t \in DOMAIN at : Thread(t)
    \/ Join

\* Threads run on, and a mutex that is free is obtained.
TransposeFairness ==
    /\ \A t \in 1 .. MaxThreads : WF_transposeVars(t \in DOMAIN at /\ Thread(t))
    /\ WF_transposeVars(Join)

TransposeSpec == TransposeInit /\ [][TransposeNext]_transposeVars /\ TransposeFairness

-----------------------------------------------------------------------------
(* Properties. *)

\* The swaps a thread has still to make.
Chunk(t) == IF at[t] = "swap" THEN start[t] .. end[t] ELSE {}

\* No swap is in two chunks, and none lies outside the triangle: made twice it would be
\* undone (transpose.c:39-53).
ChunksDisjoint ==
    main = "working" =>
      \A t \in DOMAIN at :
        /\ \A k \in Chunk(t) : k < numElements /\ Pair(k)[1] < Pair(k)[2] /\ Pair(k)[2] < args.size
        /\ \A u \in DOMAIN at \ {t} : Chunk(t) \cap Chunk(u) = {}

\* main finds the matrix transposed, however the threads interleave, for every size but 2:
\* there the one swap is also the last, and the test before the first chunk ends every
\* thread at once (transpose.c:42).
ResultCorrect == main = "wrong" => args.conc = "m" /\ args.size = 2

\* No swap is in two chunks and the result is the transposed matrix, but for size 2
\* (transpose.c:39-63).
Transposed == ChunksDisjoint /\ ResultCorrect

\* Every call returns (transpose.c:106-119).
TransposeEnds == main = "working" ~> main \in {"correct", "wrong"}
=============================================================================
