---------------------------- MODULE RowRetention ----------------------------
(***************************************************************************)
(* What the dashboard promises about the rows of sessions that stop being  *)
(* reported, with nothing of how the reducer keeps the promise.            *)
(*                                                                         *)
(* A row has a grace of SessionTTL.  A report refills it, a cycle in which *)
(* the row's own source failed refills it as well, and so does the first   *)
(* healthy cycle after such a failure; every other healthy cycle that      *)
(* omits the row spends the time that passed.  A row goes away only in a   *)
(* healthy cycle that takes more time than its grace has left.             *)
(***************************************************************************)
EXTENDS Integers

CONSTANTS Key,         \* the sessions a row can stand for
          SessionTTL,  \* how long a vanished row is kept
          Steps        \* the lengths a cycle can have

VARIABLES phase, grace

Phase == {"absent", "live", "outage", "missing"}

Init == /\ phase = [k \in Key |-> "absent"]
        /\ grace = [k \in Key |-> SessionTTL]

\* The source reported the session: its row is live, whatever it was before.
Report(k) == phase'[k] = "live" /\ grace'[k] = SessionTTL

\* The row's source failed this cycle: the row is frozen, at full grace.
Outage(k) == /\ phase[k] # "absent"
             /\ phase'[k] = "outage" /\ grace'[k] = SessionTTL

\* The first healthy cycle after an outage omits the row: the countdown
\* starts here, however long the outage and this cycle took.
Restart(k) == /\ phase[k] = "outage"
              /\ phase'[k] = "missing" /\ grace'[k] = SessionTTL

\* Another healthy cycle of length d omits the row and leaves it some grace.
Wait(k, d) == /\ phase[k] \in {"live", "missing"}
              /\ d <= grace[k]
              /\ phase'[k] = "missing" /\ grace'[k] = grace[k] - d

\* A healthy cycle of length d outlasts the row's grace.
Expire(k, d) == /\ phase[k] \in {"live", "missing"}
                /\ d > grace[k]
                /\ phase'[k] = "absent" /\ grace'[k] = SessionTTL

\* There is no row, and none is made for a session nobody reports.
StayAbsent(k) == /\ phase[k] = "absent"
                 /\ phase'[k] = "absent" /\ grace'[k] = grace[k]

\* One cycle: every row moves at once, and time is the same for all of them.
Cycle(d) ==
  /\ phase' = [k \in Key |-> phase'[k]]
  /\ grace' = [k \in Key |-> grace'[k]]
  /\ \A k \in Key : \/ Report(k) \/ Outage(k) \/ Restart(k)
                    \/ Wait(k, d) \/ Expire(k, d) \/ StayAbsent(k)

Next == \E d \in Steps : Cycle(d)

Spec == Init /\ [][Next]_<<phase, grace>>
=============================================================================
