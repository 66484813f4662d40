---------------------------- MODULE StudyScheduler ----------------------------
(***************************************************************************)
(* The scheduler of OS/exam-prep/projects/p2, which differs from the one   *)
(* handed in: the list ends at its tail, scheduler_create makes the new    *)
(* thread the current one, and a search that finds nobody ends the call.   *)
(* The handler of SIGALRM yields for the thread it finds; a signal in the  *)
(* scheduler itself is left out, as Scheduler has it.                      *)
(***************************************************************************)
EXTENDS Integers, Sequences, FiniteSetsExt

CONSTANT MaxCreated  \* bound on the threads of one call

\* What the constant must be.
ASSUME StudyAssumption == MaxCreated \in Nat

VARIABLES
    link,      \* the threads from state.head on
    thread,    \* state.thread
    status,    \* of the threads
    ctx,       \* whose stack the context of each thread's record leads to
    running,   \* whose code runs: 0 for the caller of the scheduler
    inside,    \* whether a thread has created one
    turns,     \* history: threads that ran since this one did, at most MaxCreated
    lost       \* history: what the last call left unfinished

studyVars == <<link, thread, status, ctx, running, inside, turns, lost>>

Caller == 0

Schedule == -1      \* the loop of scheduler_execute

StudyInit == /\ link = <<>> /\ thread = 0 /\ status = <<>> /\ ctx = <<>>
             /\ running = Caller /\ inside = FALSE /\ turns = <<>> /\ lost = {}

\* Threads are numbered as they are created.  An allocation that fails changes nothing.
scheduler_create ==
    /\ running # Schedule /\ Len(link) < MaxCreated
    /\ LET t == Len(link) + 1
       IN link' = <<t>> \o link /\ thread' = t
    /\ status' = Append(status, "initial")
    /\ ctx' = Append(ctx, 0) /\ turns' = Append(turns, 0)
    /\ inside' = (inside \/ running # Caller)
    /\ UNCHANGED <<running, lost>>

scheduler_execute ==
    /\ running = Caller /\ link # <<>>
    /\ running' = Schedule
    /\ UNCHANGED <<link, thread, status, ctx, inside, turns, lost>>

Position(t) == CHOOSE p \in DOMAIN link : link[p] = t

\* The p-th after the current one; the current one itself comes last.
After(p) == link[((Position(thread) + p - 1) % Len(link)) + 1]

Ready(t) == status[t] \in {"initial", "sleeping"}

Nobody == 0

\* Mutant: the search begins at the head.
CandidateFromHead ==
    LET ready == {p \in DOMAIN link : Ready(link[p]) /\ link[p] # thread}
    IN IF ready = {} THEN Nobody ELSE link[Min(ready)]

\* The search stops before the current thread, unless that is the only one.
thread_candidate ==
    LET ready == {p \in 1 .. (IF Len(link) = 1 THEN 1 ELSE Len(link) - 1) : Ready(After(p))}
    IN IF ready = {} THEN Nobody ELSE After(Min(ready))

\* schedule with a candidate: its function is called, or its context goes on.
Switch ==
    /\ running = Schedule /\ thread_candidate # Nobody
    /\ LET t == thread_candidate
           code == IF status[t] = "initial" THEN t ELSE ctx[t]
       IN /\ thread' = t
          /\ status' = [status EXCEPT ![t] = "running"]
          /\ running' = code
          /\ turns' = [u \in DOMAIN turns |-> IF u = t THEN 0
                                              ELSE IF turns[u] < MaxCreated THEN turns[u] + 1 ELSE turns[u]]
    /\ UNCHANGED <<link, ctx, inside, lost>>

\* Without one: alarm(0) and destroy.
GiveUp ==
    /\ running = Schedule /\ thread_candidate = Nobody
    /\ lost' = {t \in DOMAIN status : status[t] # "terminated"}
    /\ link' = <<>> /\ thread' = 0 /\ status' = <<>> /\ ctx' = <<>> /\ turns' = <<>>
    /\ running' = Caller
    /\ UNCHANGED inside

\* By the thread's code, or by the signal.
scheduler_yield ==
    /\ running > 0
    /\ ctx' = [ctx EXCEPT ![thread] = running]
    /\ status' = [status EXCEPT ![thread] = "sleeping"]
    /\ running' = Schedule
    /\ UNCHANGED <<link, thread, inside, turns, lost>>

\* The function returns into schedule, whose thread is a register at -O3.
Ended ==
    /\ running > 0
    /\ status' = [status EXCEPT ![running] = "terminated"]
    /\ running' = Schedule
    /\ UNCHANGED <<link, thread, ctx, inside, turns, lost>>

StudyNext == scheduler_create \/ scheduler_execute \/ Switch \/ GiveUp \/ scheduler_yield \/ Ended

StudySpec == StudyInit /\ [][StudyNext]_studyVars

-----------------------------------------------------------------------------
(* Properties. *)

\* As long as only the caller creates threads: the turns go round, a sleeping thread has
\* its own context, and a call leaves one thread unfinished at most, the last to yield
\* (scheduler.c:74-84).  A thread created by another takes that one's context when it
\* yields, and may never run (scheduler.c:126); even then no context is gone to twice.
StudySound ==
    /\ ~inside =>
         /\ \A t \in DOMAIN status : Ready(t) => turns[t] < Len(link)
         /\ \A t \in DOMAIN status : status[t] = "sleeping" => ctx[t] = t
         /\ Cardinality(lost) <= 1
    /\ \A t, u \in DOMAIN status :
         t # u /\ status[t] = "sleeping" /\ status[u] = "sleeping" => ctx[t] # ctx[u]
=============================================================================
