---------------------------- MODULE MatrixProduct ----------------------------
(***************************************************************************)
(* The matrix product of PDC/hw4: the rows of the result are split among   *)
(* threads that share only what none of them writes.  Matrices are arrays  *)
(* by row, as the code indexes them.                                       *)
(***************************************************************************)
EXTENDS Integers, FiniteSetsExt

CONSTANTS SizesTried,    \* main's n, refused outside 2 .. 10000
          ThreadsTried   \* main's t

\* What the constants must be.
ASSUME ProductAssumption == SizesTried \subseteq Nat /\ ThreadsTried \subseteq Nat

VARIABLES
    call,     \* "idle", "running", "returned", "refused"
    n,        \* N
    threads,
    B,        \* the second matrix
    BT,       \* the same transposed
    C,        \* the result, which calloc set to 0
    row       \* the next row of each thread

productVars == <<call, n, threads, B, BT, C, row>>

Offsets(k) == 0 .. k * k - 1

\* mat_fill for the first matrix of main, mat_diag for the second; either may be second.
A(k) == [o \in Offsets(k) |-> o]
Diagonal(k) == [o \in Offsets(k) |-> IF o % (k + 1) = 0 THEN 2 ELSE 0]

ProductInit == /\ call = "idle" /\ n = 0 /\ threads = 0
               /\ B = <<>> /\ BT = <<>> /\ C = <<>> /\ row = <<>>

\* The split: as many units as threads, or as rows if these are fewer.
n_split == IF n < threads THEN n ELSE threads
n_work == IF n < threads THEN 1 ELSE n \div threads

\* Mutant: the last row of a unit is the first of the next.
EndRowNext(i) == i * n_work + n_work

end_row(i) == i * n_work + n_work - 1

Refuse(k, t) == /\ call = "idle" /\ (k < 2 \/ t < 1)
                /\ call' = "refused"
                /\ UNCHANGED <<n, threads, B, BT, C, row>>

\* Mutant: the copy is not transposed.
CopiedB(k, b) == b

TransposedB(k, b) == [o \in Offsets(k) |-> b[(o % k) * k + o \div k]]

mat_multiply(k, t, b) ==
    /\ call = "idle" /\ k >= 2 /\ t >= 1
    /\ call' = "running" /\ n' = k /\ threads' = t
    /\ B' = b /\ BT' = TransposedB(k, b)
    /\ C' = [o \in Offsets(k) |-> 0]
    /\ row' = [i \in 0 .. (IF k < t THEN k ELSE t) - 1 |-> i * (IF k < t THEN 1 ELSE k \div t)]

\* The innermost loop: a row of the first matrix with one of BT.
Dot(k, u, v) == MapThenSumSet(LAMBDA j : u[j] * v[j], 0 .. k - 1)

RowOf(k, m, r) == [j \in 0 .. k - 1 |-> m[r * k + j]]

\* compute_row, one row at a time.
compute_row(i) ==
    /\ call = "running" /\ row[i] <= end_row(i)
    /\ C' = [o \in Offsets(n) |->
               IF o \div n = row[i]
               THEN Dot(n, RowOf(n, A(n), row[i]), RowOf(n, BT, o % n))
               ELSE C[o]]
    /\ row' = [row EXCEPT ![i] = @ + 1]
    /\ UNCHANGED <<call, n, threads, B, BT>>

Return == /\ call = "running" /\ \A i \in DOMAIN row : row[i] > end_row(i)
          /\ call' = "returned"
          /\ UNCHANGED <<n, threads, B, BT, C, row>>

ProductNext ==
    \/ \E k \in SizesTried, t \in ThreadsTried : 
         Refuse(k, t) \/ \E b \in {A(k), Diagonal(k)} : mat_multiply(k, t, b)
    \/ \E i \in DOMAIN row : compute_row(i)
    \/ Return

ProductSpec == ProductInit /\ [][ProductNext]_productVars

-----------------------------------------------------------------------------
(* Properties. *)

ColumnOf(k, m, c) == [j \in 0 .. k - 1 |-> m[j * k + c]]

Product(k) == [o \in Offsets(k) |-> Dot(k, RowOf(k, A(k), o \div k), ColumnOf(k, B, o % k))]

\* The rows that no thread has got: N mod threads of them, at the end (multiply.c:69-75).
Unassigned == {o \in Offsets(n) : o \div n >= n_split * n_work}

\* The result is the product, but for the rows left over by the division, which stay 0.
ProductComputed ==
    call = "returned" =>
      C = [o \in Offsets(n) |-> IF o \in Unassigned THEN 0 ELSE Product(n)[o]]

\* No two threads ever write one row, so they need no lock (multiply.c:26-34).
RowsDisjoint ==
    call = "running" =>
      \A i, j \in DOMAIN row : i # j => (row[i] .. end_row(i)) \cap (row[j] .. end_row(j)) = {}

\* Threads write disjoint rows and the result is the product, but for the rows left over by
\* the division (multiply.c:66-79).
Multiplied == ProductComputed /\ RowsDisjoint
=============================================================================
