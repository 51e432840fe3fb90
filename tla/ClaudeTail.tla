------------------------------ MODULE ClaudeTail ------------------------------
(***************************************************************************)
(* The transcript tailer (internal/agent/claude/tail.go) and the caller    *)
(* that accumulates what it delivers (pollOne), next to the agent that     *)
(* appends to the transcript, truncates and rewrites it in place, or       *)
(* removes it and makes a new one.  One call of Tail is four steps (stat,  *)
(* open, check, read) and the agent may act between any two of them.       *)
(*                                                                         *)
(* A transcript is a sequence of bytes of two kinds, "text" and "nl".      *)
(* What the caller has accumulated is a list of pieces of files: a piece   *)
(* says which content (an inode and how often it was rewritten) and which  *)
(* byte range it came from.  Inodes are not reused.  The bounds are        *)
(* MaxBytes per file, MaxLine per line, MaxInode files and MaxRewrite      *)
(* rewrites of each.                                                       *)
(***************************************************************************)
EXTENDS Naturals, Sequences

CONSTANTS Cap,           \* maxReadPerCall
          MaxBytes, MaxLine, MaxInode, MaxRewrite,
          RewriteStages  \* the stages of a call a rewrite can fall in

ASSUME CapAssumption == Cap \in Nat \ {0}
ASSUME BoundAssumption ==
  {MaxBytes, MaxLine, MaxRewrite} \subseteq Nat /\ MaxInode \in Nat \ {0}

Inode == 1 .. MaxInode
ASSUME StageAssumption == RewriteStages \subseteq {"idle", "statted", "opened", "checked"}

VARIABLES path,   \* the inode at the transcript's path, 0 when there is none
          bytes,  \* the content of every inode
          gen,    \* how often it was rewritten in place
          next,   \* the next unused inode
          tail,   \* agg.tail: the inode and offset of TailState
          got,    \* the pieces behind the caller's accumulators
          stage, call  \* how far the current call is, and its locals

file == <<path, bytes, gen, next>>
vars == <<file, tail, got, stage, call>>

-----------------------------------------------------------------------------
\* The position of the last newline of a sequence, 0 when it has none.
LastNewline(s) ==
  LET at == {i \in DOMAIN s : s[i] = "nl"}
  IN IF at = {} THEN 0 ELSE CHOOSE i \in at : \A j \in at : j <= i

\* Mutant: the last line of a read counts as complete.
ConsumedAll(s) == Len(s)

\* splitCompleteLines: the bytes its complete lines take.
Consumed(s) == LastNewline(s)

\* What stat can tell: another inode, or a file shorter than the offset.
StartsOver(ino) ==
  \/ tail.inode # 0 /\ ino # tail.inode
  \/ Len(bytes[ino]) < tail.offset

\* endsLineAt, or no offset to check: a read that comes up short is a no.
EndsLineAt(ino, offset) ==
  offset > 0 => offset <= Len(bytes[ino]) /\ bytes[ino][offset] = "nl"

\* What the LimitReader lets through.
Data(ino, offset) ==
  SubSeq(bytes[ino], offset + 1,
         IF offset + Cap < Len(bytes[ino]) THEN offset + Cap ELSE Len(bytes[ino]))

Piece(ino, from, to) == [of |-> <<ino, gen[ino]>>, from |-> from, to |-> to]

\* The pieces s with p added; a piece that continues the last one extends it.
Plus(s, p) ==
  IF p.from = p.to THEN s
  ELSE IF s = <<>> THEN <<p>>
  ELSE LET l == s[Len(s)]
       IN IF l.of = p.of /\ l.to = p.from
          THEN [s EXCEPT ![Len(s)].to = p.to]
          ELSE Append(s, p)

\* Mutant: the caller ignores the reset.
KeptAnyway == got

\* resetAccumulators: what is left of the accumulators when lines are applied.
Kept == IF call.reset THEN <<>> ELSE got

Idle == [ino |-> 0, offset |-> 0, reset |-> FALSE, from |-> 0]

-----------------------------------------------------------------------------
Init ==
  /\ path \in {0, 1} /\ next = path + 1
  /\ bytes = [i \in Inode |-> <<>>] /\ gen = [i \in Inode |-> 0]
  /\ tail = [inode |-> 0, offset |-> 0] /\ got = <<>>
  /\ stage = "idle" /\ call = Idle

\* The agent.
Write(b) ==
  /\ path # 0 /\ Len(bytes[path]) < MaxBytes
  /\ b = "text" => Len(bytes[path]) - LastNewline(bytes[path]) < MaxLine - 1
  /\ bytes' = [bytes EXCEPT ![path] = Append(@, b)]
  /\ UNCHANGED <<path, gen, next, tail, got, stage, call>>

Truncate ==
  /\ path # 0 /\ bytes[path] # <<>> /\ gen[path] < MaxRewrite
  /\ stage \in RewriteStages
  /\ bytes' = [bytes EXCEPT ![path] = <<>>]
  /\ gen' = [gen EXCEPT ![path] = @ + 1]
  /\ UNCHANGED <<path, next, tail, got, stage, call>>

\* The content of a removed file lives on in a call that has it open.
Remove ==
  /\ path # 0
  /\ path' = 0
  /\ bytes' = IF call.from = path THEN bytes ELSE [bytes EXCEPT ![path] = <<>>]
  /\ UNCHANGED <<gen, next, tail, got, stage, call>>

Create ==
  /\ path = 0 /\ next <= MaxInode
  /\ path' = next /\ next' = next + 1
  /\ UNCHANGED <<bytes, gen, tail, got, stage, call>>

\* Tail, called by pollOne.
Stat ==
  /\ stage = "idle" /\ path # 0
  /\ stage' = "statted"
  /\ call' = [ino |-> path, reset |-> StartsOver(path), from |-> 0,
              offset |-> IF StartsOver(path) THEN 0 ELSE tail.offset]
  /\ UNCHANGED <<file, tail, got>>

Open ==
  /\ stage = "statted" /\ path # 0
  /\ stage' = "opened"
  /\ call' = [call EXCEPT !.from = path]
  /\ UNCHANGED <<file, tail, got>>

\* Mutant: the offset is trusted.
CheckNothing ==
  /\ stage = "opened"
  /\ stage' = "checked"
  /\ UNCHANGED <<file, tail, got, call>>

Check ==
  /\ stage = "opened"
  /\ stage' = "checked"
  /\ call' = IF EndsLineAt(call.from, call.offset) THEN call
             ELSE [call EXCEPT !.offset = 0, !.reset = TRUE]
  /\ UNCHANGED <<file, tail, got>>

\* The read, the return, and what pollOne makes of the result.
Read ==
  LET n == Consumed(Data(call.from, call.offset)) IN
  /\ stage = "checked"
  /\ tail' = [inode |-> call.ino, offset |-> call.offset + n]
  /\ got' = Plus(Kept, Piece(call.from, call.offset, call.offset + n))
  /\ stage' = "idle" /\ call' = Idle
  /\ UNCHANGED file

\* A failed open or read returns the state the call was made with.
Fail ==
  /\ stage # "idle"
  /\ stage' = "idle" /\ call' = Idle
  /\ UNCHANGED <<file, tail, got>>

Next ==
  \/ \E b \in {"text", "nl"} : Write(b)
  \/ Truncate \/ Remove \/ Create
  \/ Stat \/ Open \/ Check \/ Read \/ Fail

Spec == Init /\ [][Next]_vars

\* The loop keeps polling, and a call that is made again and again succeeds
\* again and again.
FairSpec ==
  Spec /\ SF_vars(Stat) /\ SF_vars(Open) /\ SF_vars(Check) /\ SF_vars(Read)

-----------------------------------------------------------------------------
\* The pieces of a caller that has the first n bytes of the current content.
First(n) == IF n = 0 THEN <<>> ELSE <<Piece(path, 0, n)>>

\* Where files are only appended to, removed and made anew, wherever in a call
\* that falls, the caller has between two calls each complete line up to the
\* offset once and nothing else, or the next stat finds that out and starts
\* over (tail.go:19-31, source.go:211-221).
NeverRewritten == \A i \in Inode : gen[i] = 0
RotationCountedOnceOrNoticed ==
  NeverRewritten /\ stage = "idle" /\ path # 0 =>
    \/ got = First(tail.offset) /\ EndsLineAt(path, tail.offset)
    \/ StartsOver(path)

\* Lines are delivered from the start of a file or from behind a newline of
\* the content they are read from, never from the middle of a record, as long
\* as no rewrite falls between the check and the read (tail.go:98-106, 164-168).
WholeRecords ==
  [][tail'.offset > call.offset /\ stage = "checked"
       => EndsLineAt(call.from, call.offset)]_vars

\* Once the agent leaves a transcript in place that it never rewrote, the
\* caller comes to have every complete line of it (tail.go:43-48, 58-62).
UpToDate == got = First(LastNewline(bytes[path]))
CatchesUp ==
  <>[](path # 0 /\ NeverRewritten) => <>[](path # 0 /\ UpToDate)
=============================================================================
