----------------------------- MODULE AppendLog -----------------------------
(***************************************************************************)
(* What logfs.h promises: a log that only grows.  Appended bytes become    *)
(* stored in order and stay stored; a read returns what was appended; a    *)
(* close records how much is stored, and the next open starts from there.  *)
(***************************************************************************)
EXTENDS Integers, Sequences

VARIABLES
    log,        \* the bytes appended
    stored,     \* how many of them, from the first on, are on the device
    recorded,   \* how many the metadata block speaks of
    answer      \* what the running read has copied

vars == <<log, stored, recorded, answer>>

Init == log = << >> /\ stored = 0 /\ recorded = 0 /\ answer = << >>

\* New bytes go after the old ones.
AppendBytes ==
    /\ Len(log') > Len(log)
    /\ SubSeq(log', 1, Len(log)) = log
    /\ UNCHANGED <<stored, recorded, answer>>

\* More of the log is stored: never less.
Store ==
    /\ stored' \in stored + 1 .. Len(log)
    /\ UNCHANGED <<log, recorded, answer>>

\* A close records only what is stored, and all that was appended.
Record ==
    /\ stored = Len(log)
    /\ recorded' = stored
    /\ UNCHANGED <<log, stored, answer>>

\* After a close nothing is missing; after a crash, what was appended since.
Restart ==
    /\ log' = SubSeq(log, 1, recorded)
    /\ stored' = recorded
    /\ UNCHANGED <<recorded, answer>>

\* A read copies bytes of the log, all of which are stored.
Read ==
    /\ stored = Len(log)
    /\ \E o \in 0 .. Len(log), n \in 1 .. Len(log) :
        /\ o + n <= Len(log)
        /\ answer' = SubSeq(log, o + 1, o + n)
    /\ UNCHANGED <<log, stored, recorded>>

Return ==
    /\ answer' = << >>
    /\ UNCHANGED <<log, stored, recorded>>

Next == AppendBytes \/ Store \/ Record \/ Restart \/ Read \/ Return

Spec == Init /\ [][Next]_vars
============================================================================
