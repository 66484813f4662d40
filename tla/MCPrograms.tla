----------------------------- MODULE MCPrograms -----------------------------
(***************************************************************************)
(* The programs that share nothing with one another: a behaviour runs the  *)
(* one that was started.  The programs that theorems are about are         *)
(* extended and have their constants from the configuration; the others    *)
(* are instances of their modules.                                         *)
(***************************************************************************)
EXTENDS HashIndex, Monitor, MemorySimulator, MatrixProduct, Transpose, LoadBalance,
        StudyScheduler, LineEditor, ConcArray, Arguments, Integers, Sequences

VARIABLES
    program,                                                     \* which one was started
    began, phase, tokens, dag, code, files, waited, printed,
    metas, keys, vals, phys, stored, opened, rawSize, index, keysHeld, waste, store, off, reply,
    sessions, failures, test, calls, verdict

evaluatorVars == <<began, phase, tokens, dag, code, files, waited, printed>>
testerVars == <<metas, keys, vals, phys, stored, opened, rawSize, index, keysHeld, waste, store, off,
                reply, sessions, failures, test, calls, verdict>>

programsVars ==
    <<program, simVars, transposeVars, productVars, balanceVars, evaluatorVars,
      editorVars, arrayVars, monitorVars, studyVars, vars, argumentsVars, testerVars>>

Infinite == 99

\* All token sequences of length four, and longer ones of fewer kinds; every edition, with
\* and without a module left over, for short ones.
Submitted == {[edition |-> "submitted", files |-> {}]}

Input(ops, literals, length_, starts) ==
    [ops |-> ops, literals |-> literals, length |-> length_, starts |-> starts]

Inputs == {Input({"ADD", "SUB", "MUL", "DIV", "OPEN", "CLOSE"}, {0, 5, Infinite}, 4, Submitted),
           Input({"SUB", "DIV", "OPEN", "CLOSE"}, {2}, 6, Submitted),
           Input({"DIV", "OPEN", "CLOSE"}, {2}, 7, Submitted),
           Input({"SUB", "DIV"}, {2}, 7, Submitted),
           Input({"SUB", "DIV"}, {0, 5, Infinite}, 3,
                 [edition : {"submitted", "study", "sigmoid"}, files : SUBSET {"stale"}])}

Evaluator == INSTANCE Expression WITH start <- began

\* Strings for the ranges and for the lists, and the numbers of command lines; a long is
\* between -4 and 4.
TextsTried == {[pieces |-> {Number(-4), Number(1), Number(3), Number(6), Char(":")}, length |-> 4],
               [pieces |-> {Number(1), Number(2), Char(",")}, length |-> 7],
               [pieces |-> {Number(1), Number(4), Char(","), Char("x")}, length |-> 5]}

LongMin == -4
NumbersTried == {-5, -1, 2, 3}

\* Three keys, the first two in one chain, and three values; numbers name both.
Lengths == <<1, 2, 3>>

Tester == INSTANCE KVTests
            WITH size <- keysHeld, mode <- store, answer <- reply, start <- opened,
                 Keys <- {11, 12, 13}, Values <- 1 .. 3, None <- 0, Junk <- 10,
                 KeyLen <- [x \in {11, 12, 13} |-> IF x = 13 THEN 3 ELSE 1], ValLen <- Lengths,
                 Hash <- [x \in 10 .. 13 |-> IF x = 12 THEN 11 ELSE x],
                 Objects <- <<11, 12, 13>>, ValueOf <- [x \in {11, 12, 13} |-> IF x = 12 THEN 2 ELSE 1],
                 Versions <- <<1, 2, 3>>,
                 BlockSize <- 18, Width <- 8, FailAt <- 1 .. 3, MaxFailures <- 1,
                 MaxRecords <- 5, MaxSessions <- 2, MaxAtClose <- 5, CloseRule <- "any"

ASSUME ConstantsAssumption ==
    /\ Evaluator!ExpressionAssumption /\ Tester!DataAssumption /\ Tester!BoundAssumption /\ Tester!TestsAssumption

-----------------------------------------------------------------------------

ProgramsInit ==
        /\ program \in {"simulator", "transposer", "multiplier", "balancer",
                        "evaluator", "shell", "array", "monitor", "study", "index",
                        "arguments", "tester"}
        /\ SimInit /\ TransposeInit /\ ProductInit
        /\ BalanceInit /\ Evaluator!ExpressionInit /\ EditorInit
        /\ ArrayInit /\ MonitorInit /\ StudyInit /\ Init
        /\ ArgumentsInit /\ Tester!TestInit
        /\ program # "evaluator" => began = CHOOSE x \in Submitted : TRUE
        /\ program # "tester" => test = "basic_logic"

\* What the other programs would have is left alone.
Only(p) == /\ program = p /\ UNCHANGED program
           /\ p # "simulator" => UNCHANGED simVars
           /\ p # "transposer" => UNCHANGED transposeVars
           /\ p # "multiplier" => UNCHANGED productVars
           /\ p # "balancer" => UNCHANGED balanceVars
           /\ p # "evaluator" => UNCHANGED evaluatorVars
           /\ p # "shell" => UNCHANGED editorVars
           /\ p # "array" => UNCHANGED arrayVars
           /\ p # "monitor" => UNCHANGED monitorVars
           /\ p # "study" => UNCHANGED studyVars
           /\ p # "index" => UNCHANGED vars
           /\ p # "arguments" => UNCHANGED argumentsVars
           /\ p # "tester" => UNCHANGED testerVars

RunCycles == Only("simulator") /\ SimNext
TransposeMatrix == Only("transposer") /\ TransposeNext
Multiply == Only("multiplier") /\ ProductNext
Balance == Only("balancer") /\ BalanceNext
Evaluate == Only("evaluator") /\ Evaluator!ExpressionNext
UseShell == Only("shell") /\ EditorNext
UseArray == Only("array") /\ ArrayNext
Watch == Only("monitor") /\ MonitorNext
RunThreads == Only("study") /\ StudyNext
UseIndex == Only("index") /\ Next
ReadArguments == Only("arguments") /\ ArgumentsNext
TestStore == Only("tester") /\ Tester!TestNext

ProgramsNext ==
        RunCycles \/ TransposeMatrix \/ Multiply \/ Balance \/ Evaluate \/ UseShell \/ UseArray
        \/ Watch \/ RunThreads \/ UseIndex \/ ReadArguments \/ TestStore

ProgramsSpec ==
        /\ ProgramsInit /\ [][ProgramsNext]_programsVars
        /\ TransposeFairness /\ BalanceFairness /\ MonitorFairness

-----------------------------------------------------------------------------
(* Properties, each of one program; the modules that are extended state their own *)
(* and the instances their parts.                                                 *)

\* hw5, hw8 and p5: the threads of the transposer and the search of the balancer end, and
\* the monitor does when it is interrupted.
CallsEnd == TransposeEnds /\ BalanceEnds /\ InterruptStops

\* p1: exactly the expressions are accepted, their value is printed, the code that is
\* generated compiles and no file is left behind, but for what follows from a waitpid that fails or a
\* status that is not looked at.
Evaluated ==
    Evaluator!LanguageExact /\ Evaluator!ValuePrinted /\ Evaluator!CodeCompiles /\ Evaluator!FilesGone

\* p4: the tests pass on a new device, unless a call to the log fails.
TestsPass == Tester!VerdictRight
=============================================================================
