----------------------------- MODULE ProcScanner -----------------------------
(***************************************************************************)
(* What each process is said to use (internal/proc: delta.go and Scan in   *)
(* scan_darwin.go).  The kernel keeps cumulative counters, of CPU time in  *)
(* Mach ticks and of GPU time in nanoseconds; two trackers, keyed by pid,  *)
(* keep the last reading of each and report the difference to the next.    *)
(*                                                                         *)
(* Processes start, use, and exit; pids are used again; a process may      *)
(* refuse its reading or be cut off by a scan that is cancelled; it is in  *)
(* the GPU's table or not, and that table may be unreadable.  The bounds   *)
(* are MaxUse, in each of two units, and MaxNow.                           *)
(***************************************************************************)
EXTENDS Integers, FiniteSets

CONSTANTS Pid, MaxUse, MaxNow,
          Numer, Denom,  \* the Mach timebase
          None           \* no process, no baseline, nothing reported

ASSUME TimebaseAssumption == {Numer, Denom, MaxUse, MaxNow} \subseteq Nat \ {0}
ASSUME NoneAssumption == None \notin Nat

Kind == {"cpu", "gpu"}

VARIABLES now,
          used,    \* what the process of a pid has used: ticks and nanoseconds
          prev,    \* CPUTracker.prev and GPUTracker.prev
          shown,   \* of each, the difference reported and the time it is over
          spent,   \* history: what was used under a pid since its baseline
          same     \* history: the pids whose process had started by then

scanVars == <<now, used, prev, shown, spent, same>>

Nothing == [p \in Pid |-> None]

\* Mutant: ticks are nanoseconds.
TicksAsNs(ticks) == ticks

\* MachTicksToNs, by quotient and remainder.
MachTicksToNs(ticks) ==
  (ticks \div Denom) * Numer + ((ticks % Denom) * Numer) \div Denom

\* The counter of each kind in nanoseconds.
Reading(k, p) == IF k = "cpu" THEN MachTicksToNs(used[k][p]) ELSE used[k][p]

\* The difference of two readings as the unsigned integer it is, of as many
\* bits as hold every counter.
Delta(was, ns) == (ns - was) % (Numer * MaxUse + 1)

\* Mutant: the counter of one pid never falls.
NeverFalls(was, ns, wall) == wall > 0

\* A difference makes sense over some time, and where the counter has not
\* fallen since.
Usable(was, ns, wall) == wall > 0 /\ ns >= was

\* Update, of the pids that were read, before it is divided by the time: where
\* there is no difference the CPU shows none used, the GPU shows nothing.
Reported(k, read) ==
  [p \in Pid |->
     IF /\ p \in read /\ prev[k][p] # None
        /\ Usable(prev[k][p].ns, Reading(k, p), now - prev[k][p].at)
     THEN [delta |-> Delta(prev[k][p].ns, Reading(k, p)), wall |-> now - prev[k][p].at]
     ELSE IF p \in read /\ k = "cpu" THEN [delta |-> 0, wall |-> 0]
     ELSE None]

Updated(k, read) ==
  [p \in Pid |-> IF p \in read THEN [ns |-> Reading(k, p), at |-> now] ELSE prev[k][p]]

\* Prune
Pruned(base, alive) == [p \in Pid |-> IF p \in alive THEN base[p] ELSE None]

-----------------------------------------------------------------------------
Alive == {p \in Pid : used["cpu"][p] # None}

ScanInit ==
  /\ now = 0 /\ used = [k \in Kind |-> Nothing]
  /\ prev = [k \in Kind |-> Nothing] /\ shown = [k \in Kind |-> Nothing]
  /\ spent = [k \in Kind |-> [p \in Pid |-> 0]] /\ same = [k \in Kind |-> {}]

Tick ==
  now < MaxNow /\ now' = now + 1 /\ UNCHANGED <<used, prev, shown, spent, same>>

Start(p) ==
  /\ p \notin Alive
  /\ used' = [k \in Kind |-> [used[k] EXCEPT ![p] = 0]]
  /\ UNCHANGED <<now, prev, shown, spent, same>>

Exit(p) ==
  /\ p \in Alive
  /\ used' = [k \in Kind |-> [used[k] EXCEPT ![p] = None]]
  /\ same' = [k \in Kind |-> same[k] \ {p}]
  /\ UNCHANGED <<now, prev, shown, spent>>

\* A process uses time, which counts while its pid has a baseline.
Works(k, p) ==
  /\ p \in Alive /\ used[k][p] < MaxUse /\ spent[k][p] < 2 * MaxUse
  /\ used' = [used EXCEPT ![k][p] = @ + 1]
  /\ spent' = IF prev[k][p] = None THEN spent ELSE [spent EXCEPT ![k][p] = @ + 1]
  /\ UNCHANGED <<now, prev, shown, same>>

\* The histories begin anew with each baseline.
Rebased(base, read) ==
  /\ prev' = base
  /\ spent' = [k \in Kind |-> [p \in Pid |->
                 IF p \in read[k] \/ base[k][p] = None THEN 0 ELSE spent[k][p]]]
  /\ same' = [k \in Kind |-> {p \in Alive : p \in same[k] \cup read[k] /\ base[k][p] # None}]

\* A whole scan: the processes that were read are alive, and nothing is kept
\* of any other.
Scan(read, drawing) ==
  /\ Rebased([cpu |-> Pruned(Updated("cpu", read), read),
              gpu |-> Pruned(Updated("gpu", drawing), read)],
             [cpu |-> read, gpu |-> drawing])
  /\ shown' = [cpu |-> Reported("cpu", read),
               gpu |-> [p \in Pid |-> IF p \in read THEN Reported("gpu", drawing)[p]
                                      ELSE None]]
  /\ UNCHANGED <<now, used>>

\* A scan that is cancelled after some of the processes: nothing is reported,
\* and nothing pruned.
ScanCut(read, drawing) ==
  /\ Rebased([cpu |-> Updated("cpu", read), gpu |-> Updated("gpu", drawing)],
             [cpu |-> read, gpu |-> drawing])
  /\ shown' = [k \in Kind |-> Nothing]
  /\ UNCHANGED <<now, used>>

ScanNext ==
  \/ Tick
  \/ \E p \in Pid : Start(p) \/ Exit(p) \/ \E k \in Kind : Works(k, p)
  \/ \E read, drawing \in SUBSET Alive : Scan(read, drawing) \/ ScanCut(read, drawing)

ScanSpec == ScanInit /\ [][ScanNext]_scanVars

-----------------------------------------------------------------------------
\* A process is never said to have used more, in the time since its pid was
\* last read, than was used under the pid in that time, whichever scans failed
\* and whosever the pid was before; and where it was the same process, to a
\* nanosecond that much.  A first reading claims nothing (delta.go:18-20,
\* 37-42).
ShareIsTrue ==
  [][\A k \in Kind, p \in Pid :
       LET real == IF k = "cpu" THEN spent[k][p] * Numer ELSE spent[k][p] * Denom
           told == shown'[k][p].delta * Denom
       IN (\E read, drawing \in SUBSET Alive : Scan(read, drawing)) /\ shown'[k][p] # None =>
            /\ told < real + Denom
            /\ p \in same[k] /\ shown'[k][p].wall > 0 => told > real - Denom]_scanVars
=============================================================================
