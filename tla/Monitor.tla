------------------------------- MODULE Monitor -------------------------------
(***************************************************************************)
(* The process monitor of OS/projects/p5: once a second it reads the       *)
(* kernel's counters and prints the share of time the processor was busy,  *)
(* until it is interrupted.  unsigned is modulo UInt; of the seven         *)
(* counters six are one here.  What is printed of memory, network and disk *)
(* is left out, but not that their files may not open.                     *)
(***************************************************************************)
EXTENDS Integers

CONSTANTS UInt,      \* 2^32 in the code
          MaxTicks   \* bound on the kernel's counters

\* What the constants must be.
ASSUME MonitorAssumption == UInt \in Nat \ {0} /\ MaxTicks \in Nat

VARIABLES
    monitor,      \* "off", "top" (of the loop), "sampled", "networked", "asleep", and
                  \* the ends: "stopped", "failed", "crashed"
    interrupted,  \* done
    kernel,       \* the counters since boot, which do not wrap
    sum_, idle_,  \* the static sum_ and vector_[3] of cpu_util
    share,        \* of idle time as cpu_util computes it: <<numerator, denominator>>
    seen          \* kernel as it was at the last two samples

monitorVars == <<monitor, interrupted, kernel, sum_, idle_, share, seen>>

Boot == [busy |-> 0, idle |-> 0]

MonitorInit == /\ monitor = "off" /\ interrupted = FALSE /\ kernel = Boot
               /\ sum_ = 0 /\ idle_ = 0 /\ share = <<0, 0>> /\ seen = <<Boot, Boot>>

\* Time passes, but between two samples, a second apart, no counter goes round.
Tick(kind) ==
    /\ kernel.busy + kernel.idle < MaxTicks
    /\ \/ monitor = "off"
       \/ /\ monitor = "asleep"
          /\ kernel.busy + kernel.idle - seen[2].busy - seen[2].idle < UInt - 1
    /\ kernel' = [kernel EXCEPT ![kind] = @ + 1]
    /\ UNCHANGED <<monitor, interrupted, sum_, idle_, share, seen>>

Start == /\ monitor = "off"
         /\ monitor' = "top"
         /\ UNCHANGED <<interrupted, kernel, sum_, idle_, share, seen>>

\* SIGINT.
_signal_ == /\ monitor \notin {"off", "stopped", "failed", "crashed"}
            /\ interrupted' = TRUE
            /\ UNCHANGED <<monitor, kernel, sum_, idle_, share, seen>>

\* Mutant: the sum is not kept for the next sample.
SumForgotten(sum) == sum_

Kept(sum) == sum

\* cpu_util, with the counters as sscanf truncates them.
cpu_util ==
    LET idle == kernel.idle % UInt
        sum == (kernel.busy + kernel.idle) % UInt
    IN /\ share' = <<(idle - idle_) % UInt, (sum - sum_) % UInt>>
       /\ sum_' = Kept(sum) /\ idle_' = idle

Sample == /\ monitor = "top" /\ ~interrupted
          /\ cpu_util
          /\ seen' = <<seen[2], kernel>> /\ monitor' = "sampled"
          /\ UNCHANGED <<interrupted, kernel>>

FopenFails == /\ monitor = "top" /\ ~interrupted
              /\ monitor' = "failed"
              /\ UNCHANGED <<interrupted, kernel, sum_, idle_, share, seen>>

\* The line is not read, or not printed; the loop goes on.
FgetsFails == /\ monitor = "top" /\ ~interrupted
              /\ monitor' = "sampled"
              /\ UNCHANGED <<interrupted, kernel, sum_, idle_, share, seen>>

\* With or without its file.
getNetworkStats == /\ monitor = "sampled"
                   /\ monitor' = "networked"
                   /\ UNCHANGED <<interrupted, kernel, sum_, idle_, share, seen>>

\* Then main sleeps; fgets of a file that did not open is a fault.
readDiskStats == /\ monitor = "networked"
                 /\ monitor' \in {"asleep", "crashed"}
                 /\ UNCHANGED <<interrupted, kernel, sum_, idle_, share, seen>>

\* us_sleep sleeps on after a signal, and then main looks at the flag.
Wake == /\ monitor = "asleep"
        /\ monitor' = "top"
        /\ UNCHANGED <<interrupted, kernel, sum_, idle_, share, seen>>

Stop == /\ monitor = "top" /\ interrupted
        /\ monitor' = "stopped"
        /\ UNCHANGED <<interrupted, kernel, sum_, idle_, share, seen>>

MonitorNext ==
    \/ Start
    \/ Sample \/ FopenFails \/ FgetsFails \/ getNetworkStats \/ readDiskStats \/ Wake \/ Stop
    \/ _signal_
    \/ \E kind \in {"busy", "idle"} : Tick(kind)

\* main runs on, and a sleep of a second ends.
MonitorFairness == WF_monitorVars(Sample \/ getNetworkStats \/ readDiskStats \/ Wake \/ Stop)

MonitorSpec == MonitorInit /\ [][MonitorNext]_monitorVars /\ MonitorFairness

-----------------------------------------------------------------------------
(* Properties. *)

\* The share printed is that of the time between two samples although counters and sums go
\* round, since both differences are taken modulo the width.  Only the first sample, which
\* is taken against zeros, is that since boot, and wrong once the counters have gone round.
ShareExact ==
    monitor \in {"sampled", "networked", "asleep"} /\ (seen[1] # Boot \/ seen[2].busy + seen[2].idle < UInt) =>
        share = <<seen[2].idle - seen[1].idle,
                  seen[2].idle - seen[1].idle + seen[2].busy - seen[1].busy>>

\* An interrupt ends the program, even one that comes in the sleep, which goes on.
InterruptStops == interrupted ~> monitor \in {"stopped", "failed", "crashed"}
=============================================================================
