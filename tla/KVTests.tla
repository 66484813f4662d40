------------------------------- MODULE KVTests -------------------------------
(***************************************************************************)
(* The tests of OS/projects/p4/main.c, as clients of the store of KVDB:    *)
(* a test is the sequence of its calls, each with what it expects.  It     *)
(* runs on a new device, as main does; calls to the log may fail.          *)
(***************************************************************************)
EXTENDS KVDB, Sequences, Functions

Seqs == INSTANCE SequencesExt

CONSTANTS
    Objects,    \* the keys mk_object makes, by i
    ValueOf,    \* the values it makes for them
    Versions    \* the values of heavy_rewrite; VAL1, VAL2 and VAL3 are the first

\* What the constants must be.
TestsAssumption ==
    /\ Objects \in Seq(Keys) /\ IsInjective(Objects) /\ Objects # <<>>
    /\ ValueOf \in [Range(Objects) -> Values]
    /\ Versions \in Seq(Values) /\ Len(Versions) >= 3

VARIABLES
    test,       \* which one main runs
    calls,      \* what is left of it
    verdict     \* "running", "passed" or "failed"

testVars == <<vars, test, calls, verdict>>

\* A call for one of the objects, its result and the counters after it.
Call(op, objects, code, n, w) ==
    [op |-> op, objects |-> objects, code |-> code, size |-> n, waste |-> w]

NoObjects == [k \in {} |-> None]
Open == Call("open", NoObjects, 0, 0, 0)
Counted(n, w) == Call("count", NoObjects, 0, n, w)
Shut == Call("close", NoObjects, 0, 0, 0)

KEY == Objects[1]

\* What is written is found.
WriteRead(op, k, v, n, w) ==
    LET object == [x \in {k} |-> v]
    IN  <<Call(op, object, 0, n, w), Call("lookup", object, 0, n, w)>>

\* j is rand() % N.
read_write(N) ==
    LET made == Range(SubSeq(Objects, 1, N))
    IN  <<Open>>
        \o Seqs!FlattenSeq([i \in 1 .. N |-> WriteRead("insert", Objects[i], ValueOf[Objects[i]], i, 0)])
        \o [i \in 1 .. N |-> Call("lookup", [k \in made |-> ValueOf[k]], 0, N, 0)]
        \o <<Shut>>

heavy_rewrite ==
    <<Open>>
    \o Seqs!FlattenSeq([i \in DOMAIN Versions |-> WriteRead("update", KEY, Versions[i], 1, i - 1)])
    \o <<Shut>>

\* A write, a lookup, an insert that finds the key there, a lookup.
Logic(op, v, w) ==
    LET object == [x \in {KEY} |-> v]
    IN  WriteRead(op, KEY, v, 1, w)
        \o <<Call("insert", object, 1, 1, w), Call("lookup", object, 0, 1, w)>>

basic_logic ==
    LET Absent(op, v, w) == Call(op, [x \in {KEY} |-> v], 1, 0, w)
        last == [x \in {KEY} |-> Versions[3]]
    IN  <<Open, Counted(0, 0)>>
        \o [i \in 1 .. 3 |-> Absent("lookup", None, 0)]
        \o <<Absent("replace", Versions[1], 0)>>
        \o Logic("insert", Versions[1], 0)
        \o Logic("replace", Versions[2], 1)
        \o Logic("update", Versions[3], 2)
        \o <<Call("lookup", last, 0, 1, 2), Call("remove", last, 0, 0, 3), Absent("lookup", None, 3), Shut>>

test_store_restore_state ==
    <<Open, Counted(0, 0)>>
    \o WriteRead("insert", KEY, Versions[1], 1, 0)
    \o <<Shut, Open, Call("lookup", [x \in {KEY} |-> Versions[1]], 0, 1, 0), Shut>>

Tests == [basic_logic |-> basic_logic,
          heavy_rewrite |-> heavy_rewrite,
          read_write_single |-> read_write(1),
          read_write_large |-> read_write(Len(Objects)),
          test_store_restore_state |-> test_store_restore_state]

TestInit == /\ Init
            /\ test \in DOMAIN Tests
            /\ calls = Tests[test]
            /\ verdict = "running"

-----------------------------------------------------------------------------

\* The call, on the store.
Makes(c) ==
    \/ c.op = "open" /\ (OpenFresh \/ OpenFails \/ OpenUnread \/ OpenAgain)
    \/ c.op = "count" /\ UNCHANGED vars
    \/ c.op = "close" /\ Close
    \/ \E k \in DOMAIN c.objects :
          \/ c.op = "insert" /\ Insert(k, c.objects[k])
          \/ c.op = "update" /\ Update(k, c.objects[k])
          \/ c.op = "replace" /\ Replace(k, c.objects[k])
          \/ c.op = "remove" /\ Remove(k)
          \/ c.op = "lookup" /\ Lookup(k)
          \/ ReadFails(c.op, k)

\* The result a, and the counters n and w after it, are the expected ones.
Agrees(c, a, n, w) ==
    c.op \notin {"open", "close"} =>
        /\ n = c.size /\ w = c.waste
        /\ c.op # "count" =>
              /\ a.code = c.code
              /\ c.op \in {"lookup", "remove"} /\ c.code = 0 => a.val = c.objects[a.key]

\* The last call has been made and was right.
Step ==
    /\ calls # <<>> /\ mode # "rebuild"
    /\ Makes(Head(calls))
    /\ IF Agrees(Head(calls), answer', size', waste')
       THEN /\ calls' = Tail(calls)
            /\ verdict' = IF calls' = <<>> /\ verdict = "running" THEN "passed" ELSE verdict
       ELSE /\ calls' = <<Shut>>
            /\ verdict' = "failed"
    /\ UNCHANGED test

\* The loop in kvdb_open, and the worker of the log.
Reopen == Rebuild /\ UNCHANGED <<test, calls, verdict>>
Store == Flush /\ UNCHANGED <<test, calls, verdict>>

\* kvdb_open returned NULL.
GiveUp ==
    /\ calls # <<>> /\ Head(calls).op # "open"
    /\ mode \in {"closed", "corrupt"}
    /\ calls' = <<>> /\ verdict' = "failed"
    /\ UNCHANGED <<vars, test>>

TestNext == Step \/ Reopen \/ Store \/ GiveUp

TestSpec == TestInit /\ [][TestNext]_testVars

-----------------------------------------------------------------------------

\* On a new device every test of main.c finds what it expects at each of its calls, and
\* fails if, and only if, a call to the log fails (main.c:70-355).
VerdictRight ==
    /\ verdict = "passed" => failures = 0
    /\ verdict = "failed" => failures > 0
=============================================================================
