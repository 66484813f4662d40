------------------------------ MODULE Arguments ------------------------------
(***************************************************************************)
(* The command line of the prime finder (PDC/hw3: util.c, main.c) and the  *)
(* readers of numbers, ranges and lists in common/parser.c.  A string is a *)
(* sequence of pieces: numbers, as strtol takes them, and characters.      *)
(***************************************************************************)
EXTENDS Integers, Sequences, FiniteSetsExt

CONSTANTS
    LONG_MIN, LONG_MAX,
    Unsigned,           \* an unsigned int is modulo Unsigned
    MAX_LLIST_SIZE,
    Numbers,            \* written in the arguments tried
    MaxArgs,            \* bound: arguments of a command line
    Texts               \* strings tried with the readers: records of pieces and a length

\* A number, or a character: the separators, the letters the command line knows, "help" taken
\* as one, and "x" for any other.
Pieces == [kind : {"number", ":", ",", "s", "m", "help", "x"}, n : Int]

Number(n) == [kind |-> "number", n |-> n]
Char(c) == [kind |-> c, n |-> 0]

\* What the constants must be.
ASSUME ArgumentsAssumption ==
    /\ LONG_MIN \in Int /\ LONG_MAX \in Nat /\ LONG_MIN < LONG_MAX
    /\ Unsigned \in Nat \ {0} /\ MAX_LLIST_SIZE \in Nat \ {0} /\ MaxArgs \in Nat
    /\ Numbers \subseteq Int
    /\ \A t \in Texts : t.length \in Nat /\ t.pieces \subseteq Pieces

VARIABLES
    stated,     \* "start", "accepted", "called", "helped", "refused", "ranged" or "listed"
    argv,       \* from argv[1]
    text,       \* the string given to a reader
    result      \* what was read, or what the search is called with

argumentsVars == <<stated, argv, text, result>>

Nothing == [code |-> 0]

ArgumentsInit == stated = "start" /\ argv = <<>> /\ text = <<>> /\ result = Nothing

FirstIs(s, c) == s # <<>> /\ s[1].kind = c

-----------------------------------------------------------------------------
(* parser.c *)

\* strtol saturates, and get_lint refuses the two values it saturates at.
Strtol(n) == Max({LONG_MIN, Min({LONG_MAX, n})})

get_lint(s) ==
    IF FirstIs(s, "number")
    THEN LET v == Strtol(s[1].n)
         IN  [code |-> IF v \in {LONG_MIN, LONG_MAX} THEN 1 ELSE 0, val |-> v, rest |-> Tail(s)]
    ELSE [code |-> 1, val |-> 0, rest |-> s]

get_lrange(s) ==
    LET a == get_lint(s)
        b == get_lint(Tail(a.rest))
    IN  IF /\ a.code = 0 /\ FirstIs(a.rest, ":")
           /\ b.code = 0 /\ a.val <= b.val /\ b.rest = <<>>
        THEN [code |-> 0, min |-> a.val, max |-> b.val]
        ELSE [code |-> 1]

\* What the two loops are at: the rest of the string, and the pass or the numbers to read.
CountCalls == [s : Seq(Pieces), i : Nat]
ItemCalls == [s : Seq(Pieces), count : Nat]

\* The first loop, from its pass i: i and count at its end.
CountItems[c \in CountCalls] ==
    LET e == get_lint(c.s)
    IN  IF c.i = MAX_LLIST_SIZE + 1 THEN [code |-> 0, i |-> c.i, count |-> c.i] ELSE
        IF c.i <= MAX_LLIST_SIZE /\ e.code = 0 /\ FirstIs(e.rest, ",")
        THEN CountItems[[s |-> Tail(e.rest), i |-> c.i + 1]]
        ELSE [code |-> IF e.code = 0 /\ e.rest = <<>> THEN 0 ELSE 1, i |-> c.i, count |-> c.i + 1]

\* The second loop.
Items[c \in ItemCalls] ==
    LET e == get_lint(c.s)
    IN  <<e.val>> \o IF c.count > 1 /\ FirstIs(e.rest, ",")
                     THEN Items[[s |-> Tail(e.rest), count |-> c.count - 1]]
                     ELSE <<>>

\* Mutant: the bound is compared with the number of items less one.
TooLongByOne(c) == c.i > MAX_LLIST_SIZE

\* The first loop ended with the item after the last one allowed.
TooLong(c) == c.i = MAX_LLIST_SIZE

get_llist(s) ==
    LET c == CountItems[[s |-> s, i |-> 0]]
    IN  IF c.code = 0 /\ ~TooLong(c)
        THEN [code |-> 0, list |-> Items[[s |-> s, count |-> c.count]]]
        ELSE [code |-> 1]

-----------------------------------------------------------------------------
(* util.c and main.c *)

\* Whatever follows the number in an argument is ignored.
parse_cmd_line(a) ==
    LET m == a[1] = <<Char("m")>>
        thr == get_lint(a[2])
        max == get_lint(a[Len(a)])
    IN  IF /\ Len(a) \in {2, 3}
           /\ Len(a) = (IF m THEN 3 ELSE 2)
           /\ a[1] \in {<<Char("s")>>, <<Char("m")>>}
           /\ max.code = 0 /\ (m => thr.code = 0)
        THEN [code |-> 0, conc |-> a[1], threads |-> IF m THEN thr.val ELSE 1, max |-> max.val]
        ELSE [code |-> 1]

\* The arguments tried.
Strings == {<<>>, <<Char("s")>>, <<Char("m")>>, <<Char("s"), Char("m")>>, <<Char("help")>>}
           \cup {<<Number(n)>> : n \in Numbers} \cup {<<Number(n), Char("x")>> : n \in Numbers}

Lines == UNION {[1 .. n -> Strings] : n \in 0 .. MaxArgs}

AsksHelp(a) == a # <<>> /\ a[1] = <<Char("help")>>

Help(a) ==
    /\ AsksHelp(a)
    /\ argv' = a /\ stated' = "helped"
    /\ UNCHANGED <<text, result>>

ParseLine(a) ==
    /\ ~AsksHelp(a)
    /\ argv' = a
    /\ result' = parse_cmd_line(a)
    /\ stated' = IF result'.code = 0 THEN "accepted" ELSE "refused"
    /\ UNCHANGED text

\* The search takes unsigned ints; the log is named after the arguments.
Search ==
    /\ stated = "accepted"
    /\ stated' = "called"
    /\ result' = [code |-> 0, name |-> result, max |-> result.max % Unsigned, thr |-> result.threads % Unsigned]
    /\ UNCHANGED <<argv, text>>

\* A reader is given a string.
Piece(p) ==
    /\ stated = "start" /\ argv = <<>>
    /\ text' = Append(text, p)
    /\ \E t \in Texts : Len(text') <= t.length /\ \A i \in DOMAIN text' : text'[i] \in t.pieces
    /\ UNCHANGED <<stated, argv, result>>

ReadRange == /\ stated = "start" /\ stated' = "ranged"
             /\ result' = get_lrange(text)
             /\ UNCHANGED <<argv, text>>

ReadList == /\ stated = "start" /\ stated' = "listed"
            /\ result' = get_llist(text)
            /\ UNCHANGED <<argv, text>>

ArgumentsNext ==
    \/ stated = "start" /\ text = <<>> /\ \E a \in Lines : Help(a) \/ ParseLine(a)
    \/ Search
    \/ \E t \in Texts : \E p \in t.pieces : Piece(p)
    \/ ReadRange \/ ReadList

ArgumentsSpec == ArgumentsInit /\ [][ArgumentsNext]_argumentsVars

-----------------------------------------------------------------------------
(* Properties *)

\* A string starts with a number that a long holds with one to spare on each side.
IsNumber(s) == FirstIs(s, "number") /\ LONG_MIN < s[1].n /\ s[1].n < LONG_MAX

\* Exactly the command lines of the help text are accepted (util.c:25-27), whatever follows
\* a number in its argument, and the search gets the numbers that name the log if these are
\* unsigned ints.
LineRead ==
    /\ stated \in {"accepted", "refused"} =>
          (stated = "accepted" <=>
              \/ /\ Len(argv) = 2
                 /\ argv[1] = <<Char("s")>> /\ IsNumber(argv[2])
              \/ /\ Len(argv) = 3
                 /\ argv[1] = <<Char("m")>> /\ IsNumber(argv[2]) /\ IsNumber(argv[3]))
    /\ stated = "called" /\ argv[Len(argv)][1].n \in 0 .. Unsigned - 1 => result.max = argv[Len(argv)][1].n

\* Exactly the ranges a:b with a <= b are accepted (parser.h:25).
RangeRead ==
    stated = "ranged" =>
        (result.code = 0 <=>
            /\ Len(text) = 3 /\ text[2].kind = ":"
            /\ IsNumber(<<text[1]>>) /\ IsNumber(<<text[3]>>) /\ text[1].n <= text[3].n)

\* A list: numbers at the odd places, commas between them.
IsList(s) ==
    /\ Len(s) % 2 = 1
    /\ \A i \in DOMAIN s : IF i % 2 = 1 THEN IsNumber(<<s[i]>>) ELSE s[i].kind = ","

\* Lists of at most MAX_LLIST_SIZE numbers are read whole; one number more is an error
\* (parser.c:88).  Of longer lists nothing is said: with two numbers too many the check is
\* passed, and the rest is left out.
ListRead ==
    stated = "listed" /\ Len(text) <= 2 * MAX_LLIST_SIZE + 1 =>
        /\ result.code = 0 <=> IsList(text) /\ Len(text) < 2 * MAX_LLIST_SIZE
        /\ result.code = 0 => result.list = [i \in 1 .. (Len(text) + 1) \div 2 |-> text[2 * i - 1].n]

\* What is written is read: command lines, ranges and lists (util.c:58-117, parser.c:11-112).
ArgumentsRead == LineRead /\ RangeRead /\ ListRead
=============================================================================
