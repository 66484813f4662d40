------------------------------ MODULE Expression ------------------------------
(***************************************************************************)
(* The expression evaluator of OS/projects/p1: main.c reads its argument   *)
(* with lexer.c, parses it with parser.c, writes it out as C, has that     *)
(* compiled and loaded (jitc.c), and prints what the function returns.     *)
(* There are three editions of jitc.c: the submitted one, and under        *)
(* exam-prep those of p1 ("study") and of "JIT Aswin" ("sigmoid", whose    *)
(* main.c has the value printed by the module it loads).                   *)
(*                                                                         *)
(* Numbers are in halves of the last digit "%f" prints; doubles are exact  *)
(* fractions <<numerator, denominator>>.                                   *)
(***************************************************************************)
EXTENDS Integers, Sequences, FiniteSets, FiniteSetsExt

CONSTANTS Infinite,   \* the literal for "inf", which strtod accepts and C does not
          Inputs      \* the inputs tried: records of operators, literals, a length,
                      \* and the starts, with an edition and the files that are there

Operators == {"ADD", "SUB", "MUL", "DIV", "OPEN", "CLOSE"}

Editions == {"submitted", "study", "sigmoid"}

\* What the constants must be.
ExpressionAssumption ==
    /\ Infinite \in Nat
    /\ \A in \in Inputs : in.ops \subseteq Operators /\ in.literals \subseteq Nat /\ in.length \in Nat
    /\ \A in \in Inputs : in.starts \subseteq [edition : Editions, files : SUBSET {"stale"}]

VARIABLES
    start,     \* the edition, and the files there are when it starts
    phase,     \* "lexing", "parsed", "generated", "compiled", and how main ended:
               \* "printed", "refused" (the input), "failed" (a later step), or
               \* by a fault, in the parser "crashed", in jitc_close "killed"
    tokens,    \* of the lexer
    dag,
    code,      \* out.c: declarations in their order
    files,     \* of "out.c", "out.so", and "stale", an out.so of an earlier process
    waited,    \* waitpid has not failed
    printed

expressionVars == <<start, phase, tokens, dag, code, files, waited, printed>>

Null == [op |-> "NULL"]

ExpressionInit == /\ start \in UNION {in.starts : in \in Inputs}
                  /\ phase = "lexing" /\ tokens = <<>> /\ dag = Null
                  /\ code = <<>> /\ files = start.files /\ waited = TRUE /\ printed = <<0, 0>>

-----------------------------------------------------------------------------
(* The parser: a record of the place in the tokens, the last id given out, the node it *)
(* has in hand, and whether TBL was read beyond its end.                               *)

next(p) == IF p.i <= Len(tokens) THEN tokens[p.i] ELSE [op |-> "END", val |-> 0]

match(p, ops) == next(p).op \in ops

forward(p) == [p EXCEPT !.i = @ + 1]

Failed(p) == [p EXCEPT !.dag = Null]

NewId(p) == [p EXCEPT !.id = @ + 1]

\* MKD, with the operands the caller sets.
Node(id, op, val, l, r) == [id |-> id, op |-> op, val |-> val, left |-> l, right |-> r]

RECURSIVE expr(_), expr_unary(_), expr_multiplicative_(_), expr_additive_(_)

expr_primary(p) ==
    CASE match(p, {"VAL"}) ->
           [forward(NewId(p)) EXCEPT !.dag = Node(p.id + 1, "VAL", next(p).val, Null, Null)]
      [] match(p, {"OPEN"}) ->
           LET e == expr(forward(p))
           IN IF e.dag # Null /\ match(e, {"CLOSE"}) THEN forward(e) ELSE Failed(e)
      [] OTHER -> Failed(p)

\* Mutant: a sign is followed by no other sign.
OneSign(p) ==
    IF match(p, {"ADD"}) THEN expr_primary(forward(p)) ELSE
    IF ~match(p, {"SUB"}) THEN expr_primary(p) ELSE
    LET o == expr_primary(forward(NewId(p)))
    IN IF o.dag = Null THEN o ELSE [o EXCEPT !.dag = Node(p.id + 1, "NEG", 0, Null, o.dag)]

expr_unary(p) ==
    IF match(p, {"ADD"}) THEN expr_unary(forward(p)) ELSE
    IF ~match(p, {"SUB"}) THEN expr_primary(p) ELSE
    LET o == expr_unary(forward(NewId(p)))
    IN IF o.dag = Null THEN o ELSE [o EXCEPT !.dag = Node(p.id + 1, "NEG", 0, Null, o.dag)]

\* Mutant: the operators group to the right.
RightFirst(p) ==
    IF ~match(p, {"MUL", "DIV"}) THEN p ELSE
    LET o == expr_unary(forward(NewId(p)))
        rest == expr_multiplicative_(o)
    IN IF o.dag = Null \/ rest.dag = Null THEN Failed(o)
       ELSE [rest EXCEPT !.dag = Node(p.id + 1, next(p).op, 0, p.dag, rest.dag)]

\* The node in hand is the left operand.  The call at the end takes all that follows, so
\* the loop around it, which would use the old left operand, never runs twice.
expr_multiplicative_(p) ==
    IF ~match(p, {"MUL", "DIV"}) THEN p ELSE
    LET o == expr_unary(forward(NewId(p)))
    IN IF o.dag = Null THEN o
       ELSE expr_multiplicative_([o EXCEPT !.dag = Node(p.id + 1, next(p).op, 0, p.dag, o.dag)])

expr_multiplicative(p) ==
    LET u == expr_unary(p) IN IF u.dag = Null THEN u ELSE expr_multiplicative_(u)

\* The message for a bad operand takes its operator from TBL[2] or TBL[3], of two.
expr_additive_(p) ==
    IF ~match(p, {"ADD", "SUB"}) THEN p ELSE
    LET o == expr_multiplicative(forward(NewId(p)))
    IN IF o.dag = Null THEN [o EXCEPT !.wild = TRUE]
       ELSE expr_additive_([o EXCEPT !.dag = Node(p.id + 1, next(p).op, 0, p.dag, o.dag)])

expr(p) == LET m == expr_multiplicative(p) IN IF m.dag = Null THEN m ELSE expr_additive_(m)

top == LET e == expr([i |-> 1, id |-> 0, dag |-> Null, wild |-> FALSE])
       IN IF match(e, {"END"}) THEN e ELSE Failed(e)

-----------------------------------------------------------------------------
(* main.  tokenize is one action for each token. *)

Tokens(in) == [op : in.ops, val : {0}] \cup [op : {"VAL"}, val : in.literals]

tokenize(token) ==
    /\ phase = "lexing"
    /\ tokens' = Append(tokens, token)
    /\ \E in \in Inputs : /\ start \in in.starts
                          /\ Len(tokens') <= in.length
                          /\ \A i \in DOMAIN tokens' : tokens'[i] \in Tokens(in)
    /\ UNCHANGED <<start, phase, dag, code, files, waited, printed>>

\* strtod takes nothing: lexer_open fails.
Garbage == /\ phase = "lexing"
           /\ phase' = "refused" /\ tokens' = Append(tokens, [op |-> "?", val |-> 0])
           /\ UNCHANGED <<start, dag, code, files, waited, printed>>

\* parser_open.  The nodes of a parse that failed are lost.
Parse == /\ phase = "lexing"
         /\ LET r == top IN
            IF tokens # <<>> /\ r.dag # Null
            THEN phase' = "parsed" /\ dag' = r.dag
            ELSE /\ phase' \in {"refused"} \cup (IF r.wild THEN {"crashed"} ELSE {})
                 /\ dag' = dag
         /\ UNCHANGED <<start, tokens, code, files, waited, printed>>

\* One line of out.c: it declares t, from the declarations l and r or, as "%f" shows it,
\* from a number.
Line(d) == [t |-> d.id, op |-> d.op, val |-> IF d.val = Infinite THEN Infinite ELSE 2 * (d.val \div 2),
            l |-> IF d.left = Null THEN 0 ELSE d.left.id,
            r |-> IF d.right = Null THEN 0 ELSE d.right.id]

RECURSIVE ReflectBefore(_), reflect(_)

\* Mutant: a node is declared before its operands.
ReflectBefore(d) ==
    IF d = Null THEN <<>> ELSE <<Line(d)>> \o ReflectBefore(d.left) \o ReflectBefore(d.right)

reflect(d) ==
    IF d = Null THEN <<>> ELSE reflect(d.left) \o reflect(d.right) \o <<Line(d)>>

generate == /\ phase = "parsed"
            /\ phase' = "generated" /\ code' = reflect(dag) /\ files' = files \cup {"out.c"}
            /\ UNCHANGED <<start, tokens, dag, waited, printed>>

FopenFails == /\ phase = "parsed"
              /\ phase' = "failed"
              /\ UNCHANGED <<start, tokens, dag, code, files, waited, printed>>

\* What a compiler accepts: what is used was declared above, once, and numbers are numbers.
Compiles(c) ==
    /\ \A i, j \in DOMAIN c : i # j => c[i].t # c[j].t
    /\ \A i \in DOMAIN c : {c[i].l, c[i].r} \ {0} \subseteq {c[j].t : j \in 1 .. i - 1}

\* How compiling goes: the compiler accepts the code, refuses it, is killed, does not
\* start in the child, or there is no child.
Outcomes == {"accepted", "refused", "killed", "unstarted", "childless"}

\* What jitc_compile may return when outcome o was waited for, or waitpid failed, as it does
\* after the child has ended if SIGCHLD is ignored.  The status it then looks at was never
\* written.
SubmittedReports(o, read) ==
    IF ~read THEN {0, -1} ELSE IF o = "accepted" THEN {0} ELSE {-1}

\* A child of this edition whose execv fails returns into main, deletes out.c and ends with
\* -1, as its parent will.
StudyReports(o, read) ==
    IF ~read THEN {0, -1} ELSE IF o = "accepted" THEN {0} ELSE {-1}

\* The exit status is not looked at, and it is 0 if execv fails.
SigmoidReports(o, read) ==
    IF read /\ o \in {"accepted", "refused", "unstarted"} THEN {0} ELSE {-1}

Reports(o, read) ==
    CASE start.edition = "submitted" -> SubmittedReports(o, read)
      [] start.edition = "study" -> StudyReports(o, read)
      [] start.edition = "sigmoid" -> SigmoidReports(o, read)

\* Mutant: out.c is deleted after success only.
SourceLeft(made) == files' = IF made THEN {"out.so"} ELSE files

\* A compiler that fails may have removed the old module.
SourceDeleted(made) ==
    IF made THEN files' = {"out.so"}
    ELSE \E old \in SUBSET {"stale"} : files' = files \ ({"out.c"} \cup old)

jitc_compile(o) ==
    /\ phase = "generated"
    /\ o = "accepted" => Compiles(code) /\ \A i \in DOMAIN code : code[i].val # Infinite
    /\ SourceDeleted(o = "accepted")
    /\ waited' \in (IF o = "childless" THEN {TRUE} ELSE BOOLEAN)
    /\ \E report \in Reports(o, waited') : phase' = IF report = 0 THEN "compiled" ELSE "failed"
    /\ UNCHANGED <<start, tokens, dag, code, printed>>

\* What main's jitc_close does with the NULL of a jitc_open that failed: the submitted
\* edition returns, the others read behind it, in dlclose or before.
SubmittedCloseNull == "failed"
StudyCloseNull == "killed"
SigmoidCloseNull == "killed"

\* dlopen fails, as it must if there is no module.
OpenFails ==
    /\ phase = "compiled"
    /\ files' = {}
    /\ phase' = CASE start.edition = "submitted" -> SubmittedCloseNull
                  [] start.edition = "study" -> StudyCloseNull
                  [] start.edition = "sigmoid" -> SigmoidCloseNull
    /\ UNCHANGED <<start, tokens, dag, code, waited, printed>>

\* dlsym fails.
LookupFails ==
    /\ phase = "compiled" /\ files # {}
    /\ phase' = "failed" /\ files' = {}
    /\ UNCHANGED <<start, tokens, dag, code, waited, printed>>

\* C's arithmetic; the generated code tests for a division by zero.
Apply(op, a, b) ==
    CASE op \in {"SUB", "NEG"} -> <<a[1] * b[2] - b[1] * a[2], a[2] * b[2]>>
      [] op = "ADD" -> <<a[1] * b[2] + b[1] * a[2], a[2] * b[2]>>
      [] op = "MUL" -> <<a[1] * b[1], a[2] * b[2]>>
      [] op = "DIV" -> IF b[1] = 0 THEN <<0, 1>> ELSE <<a[1] * b[2], a[2] * b[1]>>

Zero == <<0, 1>>

\* evaluate() of out.so: the value of each line, from those above it.
evaluate(c) ==
    LET value[t \in 0 .. Len(c)] ==
          IF t = 0 THEN Zero ELSE
          LET line == CHOOSE i \in DOMAIN c : c[i].t = t
          IN IF c[line].op = "VAL" THEN <<c[line].val, 1>>
             ELSE Apply(c[line].op, value[c[line].l], value[c[line].r])
    IN value[c[Len(c)].t]

\* What a module of another expression computes.
Other == <<1, 0>>

Computed == IF "out.so" \in files THEN evaluate(code) ELSE Other

PrintResult == /\ phase = "compiled" /\ files # {}
               /\ start.edition # "sigmoid"
               /\ phase' = "printed" /\ printed' = Computed /\ files' = {}
               /\ UNCHANGED <<start, tokens, dag, code, waited>>

\* The module prints the value, and the sigmoid of it.
PrintInModule == /\ phase = "compiled" /\ files # {}
                 /\ start.edition = "sigmoid"
                 /\ phase' = "printed" /\ printed' = Computed /\ files' = {}
                 /\ UNCHANGED <<start, tokens, dag, code, waited>>

ExpressionNext ==
    \/ \E in \in Inputs : \E token \in Tokens(in) : tokenize(token)
    \/ Garbage
    \/ Parse
    \/ generate \/ FopenFails
    \/ \E o \in Outcomes : jitc_compile(o)
    \/ OpenFails \/ LookupFails
    \/ PrintResult \/ PrintInModule

ExpressionSpec == ExpressionInit /\ [][ExpressionNext]_expressionVars

-----------------------------------------------------------------------------
(* Properties.  The value of an expression is defined again, from its outermost *)
(* operator: the last one outside parentheses that binds least.                 *)

Depth(s, i) == Cardinality({j \in 1 .. i : s[j].op = "OPEN"}) - Cardinality({j \in 1 .. i : s[j].op = "CLOSE"})

Binary(s, ops) ==
    {i \in 2 .. Len(s) - 1 : s[i].op \in ops /\ Depth(s, i) = 0 /\ s[i - 1].op \in {"VAL", "CLOSE"}}

None == <<>>

RECURSIVE Value(_)
Value(s) ==
    LET sums == Binary(s, {"ADD", "SUB"})
        factors == Binary(s, {"MUL", "DIV"})
        at == Max(IF sums # {} THEN sums ELSE factors)
        n == Len(s)
        Both(op, a, b) == IF a = None \/ b = None THEN None ELSE Apply(op, a, b)
    IN CASE sums \cup factors # {} -> Both(s[at].op, Value(SubSeq(s, 1, at - 1)), Value(SubSeq(s, at + 1, n)))
         [] sums \cup factors = {} /\ n > 1 /\ s[1].op \in {"ADD", "SUB"} -> Both(s[1].op, Zero, Value(Tail(s)))
         [] n > 2 /\ s[1].op = "OPEN" /\ s[n].op = "CLOSE" /\ sums \cup factors = {} -> Value(SubSeq(s, 2, n - 1))
         [] n = 1 /\ s[1].op = "VAL" -> <<2 * (s[1].val \div 2), 1>>
         [] OTHER -> None

\* The parser takes exactly the expressions, however signs and parentheses are nested
\* (parser.c:83-288), and the wild read of its error path is met with no expression.
LanguageExact ==
    /\ phase \in {"refused", "crashed"} => Value(tokens) = None
    /\ phase = "parsed" => Value(tokens) # None

\* What is printed is the value: operators group to the left, signs bind most, and a
\* division by zero gives zero (parser.c:155-247, main.c:16-75).  A module of an
\* earlier process is mistaken for the new one by the edition that ignores the exit status,
\* and by the others only if waitpid failed.
ValuePrinted ==
    phase = "printed" =>
        \/ printed # Other /\ printed[1] * Value(tokens)[2] = printed[2] * Value(tokens)[1]
        \/ /\ printed = Other /\ "stale" \in start.files
           /\ start.edition = "sigmoid" \/ ~waited

\* The generated code compiles: ids are unique and declared before use (parser.h:25).
CodeCompiles == phase = "generated" => Compiles(code)

\* main leaves no file of its own behind, whichever step failed, but the new module if waitpid
\* failed and the compiler did not (main.c:115-136).
FilesGone ==
    phase \in {"printed", "refused", "failed", "crashed", "killed"} =>
        files \subseteq start.files \cup (IF waited THEN {} ELSE {"out.so"})
=============================================================================
