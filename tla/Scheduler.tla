----------------------------- MODULE Scheduler -----------------------------
(***************************************************************************)
(* The user-level thread scheduler of OS/projects/p2/scheduler.c: threads  *)
(* with their own stacks on a circular list, that give up the processor    *)
(* by scheduler_yield or are made to, one second after they got it, by     *)
(* SIGALRM, whose handler is scheduler_yield itself.                       *)
(*                                                                         *)
(* There is one processor; pc says which code it is in.  setjmp saves      *)
(* where a thread stops, longjmp goes on there.  The signal may come       *)
(* anywhere: between two actions is everywhere that makes a difference.    *)
(* A jump into a frame that is gone is undefined behaviour, and the model  *)
(* ends there.                                                             *)
(*                                                                         *)
(* Data: the code of a thread is a number of pieces of work with a yield,  *)
(* or a second gone, between them.  The list is the sequence of its        *)
(* threads from state.head on.  SIGALRM is handled as the build does it    *)
(* (-std=c99: System V signal()): not blocked, and once for every signal() *)
(* call, which every pass through scheduler_execute makes with its alarm.  *)
(***************************************************************************)
EXTENDS Integers, Sequences

CONSTANTS
    Threads,        \* threads that scheduler_create may make
    NoThread,       \* NULL
    MaxWork,        \* bound: pieces of work of a thread, less one
    MaxExecutes,    \* bound: scheduler_execute calls
    SignalIn        \* where SIGALRM may come

ASSUME NoThreadAssumption == NoThread \notin Threads

ASSUME BoundAssumption == MaxWork \in Nat /\ MaxExecutes \in Nat

VARIABLES
    ring,       \* the threads from state.head on, along link
    made,       \* the thread each thread is about to hang behind the head
    behind,     \* and those which the new one links to
    current,    \* state.current_thread
    status,     \* status of every thread
    saved,      \* where its jmp_buf leads: a pc, or "stale", "main", "none"
    pc,         \* where the processor is
    alarm,      \* an alarm is pending
    work,       \* what is left to do for every thread
    executes,   \* history: calls of scheduler_execute
    waited,     \* history: threads that ran since this one did
    struck      \* history: SIGALRM came outside the code of the threads

listVars == <<ring, made, behind, current>>
threadVars == <<status, saved, work>>
history == <<executes, waited, struck>>
vars == <<listVars, threadVars, pc, alarm, history>>

\* Points on the stack of a thread, and on the stack of scheduler_execute.
OnThread == {"thread", "create", "yield", "ended", "exit"}
OnMain == {"execute", "switch"}
Dead == {"undefined", "crashed", "exited"}

Init ==
    /\ ring = << >> /\ current = NoThread
    /\ made = [t \in Threads |-> NoThread] /\ behind = [t \in Threads |-> << >>]
    /\ status = [t \in Threads |-> "none"]
    /\ saved = [t \in Threads |-> "none"]
    /\ work = [t \in Threads |-> 0]
    /\ pc = "caller" /\ alarm = FALSE
    /\ executes = 0
    /\ waited = [t \in Threads |-> 0]
    /\ struck = FALSE

-----------------------------------------------------------------------------
(* scheduler_create, by the caller of scheduler_execute or by a thread *)

\* Memory that no thread has yet.
Unused(t) ==
    /\ status[t] = "none"
    /\ \A u \in Threads : made[u] # t

\* The new thread is on the list, with its work to do.
Created(t) ==
    /\ status' = [status EXCEPT ![t] = "init"]
    /\ \E n \in 0 .. MaxWork : work' = [work EXCEPT ![t] = n]
    /\ waited' = [waited EXCEPT ![t] = 0]

\* By the caller, whom no other thread interrupts.
Create(t) ==
    /\ pc = "caller"
    /\ Unused(t)
    /\ IF ring = << >>
       THEN ring' = <<t>> /\ current' = t
       ELSE ring' = <<Head(ring), t>> \o Tail(ring) /\ UNCHANGED current
    /\ Created(t)
    /\ UNCHANGED <<saved, pc, alarm, executes, struck, made, behind>>

\* By a thread: its new thread links to the one behind the head,
CreateBegin(t) ==
    /\ pc = "thread"
    /\ Unused(t)
    /\ made' = [made EXCEPT ![current] = t]
    /\ behind' = [behind EXCEPT ![current] = Tail(ring)]
    /\ pc' = "create"
    /\ UNCHANGED <<ring, current, threadVars, alarm, history>>

\* and the head then links to the new one.  What was put behind the head in
\* between is no longer on the list.
CreateEnd ==
    /\ pc = "create"
    /\ ring' = <<Head(ring), made[current]>> \o behind[current]
    /\ Created(made[current])
    /\ made' = [made EXCEPT ![current] = NoThread]
    /\ behind' = [behind EXCEPT ![current] = << >>]
    /\ pc' = "thread"
    /\ UNCHANGED <<current, saved, alarm, executes, struck>>

\* There is no memory: exit(0).
CreateFails ==
    /\ pc \in {"caller", "thread"}
    /\ pc' = "exited"
    /\ UNCHANGED <<listVars, threadVars, alarm, history>>

-----------------------------------------------------------------------------
(* scheduler_thread_candidate *)

\* The i-th thread after the current one.
After(i) ==
    LET n == Len(ring)
        p == CHOOSE k \in 1 .. n : ring[k] = current
    IN  ring[((p + i - 1) % n) + 1]

First(S) == CHOOSE i \in S : \A j \in S : i <= j

\* Variant of Candidate: the search starts at the head of the list.
CandidateFromHead ==
    LET Alive == {i \in 1 .. Len(ring) : ring[i] # current /\ status[ring[i]] # "terminate"}
    IN  IF Alive = {} THEN NoThread ELSE ring[First(Alive)]

\* Variant of Candidate: only the next thread is looked at.
CandidateNext ==
    IF Len(ring) = 1 \/ status[After(1)] = "terminate" THEN NoThread ELSE After(1)

\* Variant of Candidate: threads that have ended count.
CandidateAny == IF Len(ring) = 1 THEN NoThread ELSE After(1)

\* The next one that has not ended; never the current one.
Candidate ==
    LET Alive == {i \in 1 .. Len(ring) - 1 : status[After(i)] # "terminate"}
    IN  IF Alive = {} THEN NoThread ELSE After(First(Alive))

-----------------------------------------------------------------------------
(* scheduler_execute and scheduler_change *)

\* setjmp, signal, alarm; without a candidate scheduler_change jumps back.
Execute ==
    /\ pc = "caller" /\ executes < MaxExecutes
    /\ ring # << >>
    /\ executes' = executes + 1
    /\ alarm' = TRUE
    /\ pc' = IF Candidate = NoThread THEN "execute" ELSE "switch"
    /\ UNCHANGED <<listVars, threadVars, waited, struck>>

\* With no thread the search starts from a null pointer.
ExecuteNothing ==
    /\ pc = "caller" /\ executes < MaxExecutes
    /\ ring = << >>
    /\ executes' = executes + 1
    /\ alarm' = TRUE
    /\ pc' = "crashed"
    /\ UNCHANGED <<listVars, threadVars, waited, struck>>

\* Back in scheduler_execute by longjmp.
Pass ==
    /\ pc = "execute"
    /\ IF Candidate = NoThread
       THEN pc' = "destroy" /\ UNCHANGED alarm
       ELSE pc' = "switch" /\ alarm' = TRUE
    /\ UNCHANGED <<listVars, threadVars, history>>

Waits(t) == ~struck /\ status[t] \notin {"none", "terminate"}

\* The candidate gets the processor: at its start, or where it stopped.
Switch ==
    /\ pc = "switch"
    /\ LET t == Candidate
       IN  /\ current' = t
           /\ waited' = [u \in Threads |-> IF u = t \/ ~Waits(u) THEN 0 ELSE waited[u] + 1]
           /\ IF status[t] = "init"
              THEN pc' = "thread" /\ UNCHANGED <<status, saved>>
              ELSE /\ status' = [status EXCEPT ![t] = "running"]
                   /\ saved' = [saved EXCEPT ![t] = "stale"]
                   /\ pc' = IF saved[t] \in OnThread THEN saved[t] ELSE "undefined"
    /\ UNCHANGED <<ring, made, behind, work, alarm, executes, struck>>

\* Variant of Destroy: the current thread is not forgotten.
DestroyButCurrent ==
    /\ pc = "destroy"
    /\ ring' = << >>
    /\ made' = [t \in Threads |-> NoThread] /\ behind' = [t \in Threads |-> << >>]
    /\ status' = [t \in Threads |-> "none"]
    /\ saved' = [t \in Threads |-> "none"]
    /\ work' = [t \in Threads |-> 0]
    /\ waited' = [t \in Threads |-> 0]
    /\ pc' = "caller"
    /\ UNCHANGED <<current, alarm, executes, struck>>

\* scheduler_destroy, and scheduler_execute returns; the alarm stays set.
Destroy ==
    /\ pc = "destroy"
    /\ ring' = << >> /\ current' = NoThread
    /\ made' = [t \in Threads |-> NoThread] /\ behind' = [t \in Threads |-> << >>]
    /\ status' = [t \in Threads |-> "none"]
    /\ saved' = [t \in Threads |-> "none"]
    /\ work' = [t \in Threads |-> 0]
    /\ waited' = [t \in Threads |-> 0]
    /\ pc' = "caller"
    /\ UNCHANGED <<alarm, executes, struck>>

-----------------------------------------------------------------------------
(* A thread *)

\* scheduler_yield, up to its longjmp.
Yield ==
    /\ pc = "thread" /\ work[current] > 0
    /\ work' = [work EXCEPT ![current] = @ - 1]
    /\ saved' = [saved EXCEPT ![current] = "thread"]
    /\ pc' = "yield"
    /\ UNCHANGED <<listVars, status, alarm, history>>

\* Variant of YieldJump: the thread counts as running.
YieldJumpRunning ==
    /\ pc = "yield"
    /\ pc' = "execute"
    /\ UNCHANGED <<listVars, threadVars, alarm, history>>

YieldJump ==
    /\ pc = "yield"
    /\ status' = [status EXCEPT ![current] = "sleeping"]
    /\ pc' = "execute"
    /\ UNCHANGED <<listVars, saved, work, alarm, history>>

\* entry returns.
Return ==
    /\ pc = "thread" /\ work[current] = 0
    /\ pc' = "ended"
    /\ UNCHANGED <<listVars, threadVars, alarm, history>>

\* Variant of Terminate: the status is left as it is.
TerminateSilent ==
    /\ pc = "ended"
    /\ pc' = "exit"
    /\ UNCHANGED <<listVars, threadVars, alarm, history>>

Terminate ==
    /\ pc = "ended"
    /\ status' = [status EXCEPT ![current] = "terminate"]
    /\ pc' = "exit"
    /\ UNCHANGED <<listVars, saved, work, alarm, history>>

ExitJump ==
    /\ pc = "exit"
    /\ pc' = "execute"
    /\ UNCHANGED <<listVars, threadVars, alarm, history>>

-----------------------------------------------------------------------------
(* SIGALRM: scheduler_yield, wherever the processor is *)

\* The handler makes t sleep, saves in its jmp_buf a frame of its own at
\* point p, and jumps.
Handle(t, p) ==
    /\ saved' = [saved EXCEPT ![t] = p]
    /\ status' = [status EXCEPT ![t] = "sleeping"]
    /\ pc' = "execute"

Preempt ==
    /\ pc = "thread" /\ work[current] > 0
    /\ work' = [work EXCEPT ![current] = @ - 1]
    /\ Handle(current, "thread")
    /\ UNCHANGED <<listVars, struck>>

PreemptLate ==
    /\ pc \in OnThread \ {"thread"}
    /\ Handle(current, pc)
    /\ struck' = (struck \/ pc # "ended")
    /\ UNCHANGED <<listVars, work>>

\* The frame is on the stack scheduler_execute is to go on with.  In
\* scheduler_change the current thread may be the old one or the new one.
StrikeMain ==
    /\ pc \in OnMain
    /\ \E t \in {current, Candidate} \ {NoThread} :
          Handle(t, "main") /\ (t # current => pc = "switch") /\ current' = t
    /\ struck' = TRUE
    /\ UNCHANGED <<ring, made, behind, work>>

\* The threads are freed, or state.context leads to a frame that is gone.
StrikeAfter ==
    /\ pc \in {"destroy", "caller"}
    /\ pc' = "undefined"
    /\ struck' = TRUE
    /\ UNCHANGED <<listVars, threadVars>>

\* Bound: no more signals after one in the scheduler itself.
Signal ==
    /\ alarm /\ pc \in SignalIn /\ ~struck
    /\ alarm' = FALSE
    /\ Preempt \/ PreemptLate \/ StrikeMain \/ StrikeAfter
    /\ UNCHANGED <<executes, waited>>

-----------------------------------------------------------------------------
(* The system *)

Halted ==
    /\ pc \in Dead \/ (pc = "caller" /\ executes = MaxExecutes)
    /\ UNCHANGED vars

\* What the processor does next without the caller's or a signal's help.
Step ==
    \/ Pass \/ Switch \/ Destroy
    \/ CreateEnd \/ Yield \/ YieldJump \/ Return \/ Terminate \/ ExitJump

Next ==
    \/ Step \/ Execute \/ ExecuteNothing
    \/ CreateFails
    \/ \E t \in Threads : Create(t) \/ CreateBegin(t)
    \/ Signal \/ Halted

Spec == Init /\ [][Next]_vars

\* The processor runs on; the caller need not call, the signal need not come.
\* A thread that has a second again and again gets past its last instruction.
FairSpec == Spec /\ WF_vars(Step) /\ SF_vars(Terminate)
-----------------------------------------------------------------------------
(* Properties *)

InRing == {ring[i] : i \in DOMAIN ring}

\* A thread that was created is on the list until scheduler_destroy frees it.
NoneLost == \A t \in Threads : status[t] # "none" => t \in InRing

\* Every variable has its type, the list and state.current_thread belong
\* together, and the threads that were created are on the list.
TypeOK ==
    /\ ring \in Seq(Threads)
    /\ \A i, j \in DOMAIN ring : ring[i] = ring[j] => i = j
    /\ current \in Threads \cup {NoThread}
    /\ current \in InRing \/ (ring = << >> /\ current = NoThread)
    /\ status \in [Threads -> {"none", "init", "running", "sleeping", "terminate"}]
    /\ \A t \in InRing : status[t] # "none"
    /\ ~struck => NoneLost
    /\ made \in [Threads -> Threads \cup {NoThread}] /\ behind \in [Threads -> Seq(Threads)]
    /\ saved \in [Threads -> OnThread \cup {"main", "stale", "none"}]
    /\ pc \in OnThread \cup OnMain \cup Dead \cup {"caller", "destroy"}
    /\ pc \in OnThread \cup OnMain \cup {"destroy"} => ring # << >>
    /\ alarm \in BOOLEAN /\ struck \in BOOLEAN
    /\ work \in [Threads -> 0 .. MaxWork]
    /\ executes \in 0 .. MaxExecutes
    /\ waited \in [Threads -> Nat]

\* Every thread goes on where it stopped: no jump leads to a frame that is
\* gone, however yields, alarms and ends of threads follow one another, as
\* long as no signal comes while the scheduler itself is at work: in a call of
\* scheduler_create included.
ContextsValid == pc = "undefined" => struck

\* One thread at most is marked as running, the one that has the processor.
OneRunning ==
    ~struck => \A t \in Threads : status[t] = "running" => t = current /\ pc \in OnThread \cup Dead

\* Every switch goes to a thread that can go on, and to that one alone.
SwitchesSound == ContextsValid /\ OneRunning

\* Round robin: a thread that has not ended waits for each of the others once
\* at most, though threads are put on the list, and end, while it waits; as long
\* as no signal comes while the scheduler is at work, in scheduler_create included.
WaitBounded ==
    \A t \in Threads : Waits(t) => waited[t] < Len(ring)

\* When two or more threads are on the list, none is left unstarted at the end.
AllStarted ==
    pc = "destroy" /\ ~struck /\ Len(ring) > 1 => \A t \in InRing : status[t] # "init"

\* No thread is passed over, neither in its turn nor before it has begun.
TurnsFair == WaitBounded /\ AllStarted

\* scheduler_execute comes to its end, whatever the threads do with their work.
Returns == pc \in OnMain ~> pc \in {"caller", "exited"} \/ struck

\* scheduler.h:37-38: it ends after all threads have terminated.
AllTerminated == pc = "destroy" => \A t \in InRing : status[t] = "terminate"

\* The same, of all that were created, but for the one that ran last, which the
\* search leaves out.
OthersTerminated ==
    pc = "destroy" => \A t \in Threads \ {current} : status[t] \in {"none", "terminate"}
=============================================================================
