-------------------------- MODULE ClaudeTailProofs --------------------------
(***************************************************************************)
(* What holds of the transcript tailer for any cap, any sizes of files and *)
(* lines and any number of files, wherever in a call the agent acts.       *)
(***************************************************************************)
EXTENDS ClaudeTail, TLAPS, WellFoundedInduction

LEMMA Bounds == /\ Cap \in Nat \ {0} /\ MaxBytes \in Nat /\ MaxLine \in Nat
                /\ MaxInode \in Nat \ {0} /\ MaxRewrite \in Nat
BY CapAssumption, BoundAssumption

-----------------------------------------------------------------------------
(***************************************************************************)
(* The last newline.                                                       *)
(***************************************************************************)
\* A set of natural numbers that has an element has a least one.
LEMMA LeastElement ==
  ASSUME NEW T \in SUBSET Nat, T # {}
  PROVE  \E x \in T : \A y \in T : x <= y
<1> DEFINE R == OpToRel(<, Nat)
<1>1. IsWellFoundedOn(R, Nat)
  BY NatLessThanWellFounded
<1>2. ASSUME NEW x \in Nat, NEW y \in Nat, ~ (<<y, x>> \in R)
      PROVE  x <= y
  BY <1>2 DEF OpToRel
<1> HIDE DEF R
<1>3. PICK x \in T : \A y \in T : ~ (<<y, x>> \in R)
  BY <1>1, WFMin
<1>4. \A y \in T : x <= y
  BY <1>2, <1>3
<1> QED BY <1>4

\* A set of numbers up to n that has an element has a greatest one.
LEMMA GreatestElement ==
  ASSUME NEW n \in Nat, NEW T \in SUBSET (0 .. n), T # {}
  PROVE  \E x \in T : \A y \in T : y <= x
<1> DEFINE D == {n - x : x \in T}
<1>1. D # {}
  OBVIOUS
<1>2. D \in SUBSET Nat
  BY SMT
<1>3. PICK d \in D : \A e \in D : d <= e
  BY <1>1, <1>2, LeastElement
<1>4. PICK x \in T : d = n - x
  BY <1>3
<1>5. \A y \in T : n - x <= n - y
  BY <1>3, <1>4
<1> QED BY <1>5

Content == Seq({"text", "nl"})

\* LastNewline points at a newline of the sequence, or is zero.
LEMMA LastNewlineType ==
  ASSUME NEW s \in Content
  PROVE  /\ LastNewline(s) \in 0 .. Len(s)
         /\ LastNewline(s) > 0 => s[LastNewline(s)] = "nl"
<1> DEFINE at == {i \in DOMAIN s : s[i] = "nl"}
<1>1. Len(s) \in Nat /\ DOMAIN s = 1 .. Len(s)
  BY DEF Content
<1>2. CASE at = {}
  BY <1>1, <1>2 DEF LastNewline
<1>3. CASE at # {}
  <2>1. at \in SUBSET (0 .. Len(s))
    BY <1>1
  <2>2. \E i \in at : \A j \in at : j <= i
    BY <1>1, <1>3, <2>1, GreatestElement
  <2>3. LastNewline(s) \in at
    BY <1>3, <2>2 DEF LastNewline
  <2> QED BY <1>1, <2>3
<1> QED BY <1>2, <1>3

\* A read returns a part of the file.
LEMMA DataType ==
  ASSUME NEW ino \in Inode, bytes[ino] \in Content, NEW offset \in Nat
  PROVE  Data(ino, offset) \in Content
<1>1. Len(bytes[ino]) \in Nat
  BY DEF Content
<1> QED BY <1>1, Bounds DEF Data, Content

\* The complete lines of what one read returns end at a newline of the file,
\* within the cap.
LEMMA ConsumedLines ==
  ASSUME NEW ino \in Inode, bytes[ino] \in Content, NEW offset \in Nat,
         EndsLineAt(ino, offset)
  PROVE  /\ Consumed(Data(ino, offset)) \in Nat
         /\ EndsLineAt(ino, offset + Consumed(Data(ino, offset)))
<1> DEFINE s == bytes[ino]
           e == IF offset + Cap < Len(s) THEN offset + Cap ELSE Len(s)
           d == SubSeq(s, offset + 1, e)
           n == LastNewline(d)
<1>1. s \in Content /\ Len(s) \in Nat /\ e \in Nat /\ e <= Len(s)
  BY Bounds DEF Content
<1>2. Data(ino, offset) = d
  BY DEF Data
<1>3. d \in Content /\ Len(d) = IF offset + 1 <= e THEN e - offset ELSE 0
  BY <1>1 DEF Content
<1>4. n \in 0 .. Len(d) /\ (n > 0 => d[n] = "nl")
  BY <1>3, LastNewlineType
<1>5. n > 0 => d[n] = s[offset + n] /\ offset + n <= Len(s)
  <2>1. \A i \in 1 .. Len(d) : d[i] = s[offset + i] /\ offset + i <= Len(s)
    <3> HIDE DEF s, e, n
    <3>1. s \in Seq({"text", "nl"}) /\ offset + 1 \in Nat /\ e \in Nat /\ e <= Len(s)
      BY <1>1 DEF Content
    <3>2. TAKE i \in 1 .. Len(d)
    <3>3. i \in 1 .. e - offset /\ offset + 1 <= e
      BY <1>3, <3>1
    <3>4. d[i] = s[offset + i]
      BY <3>1, <3>3
    <3> QED BY <3>1, <3>3, <3>4
  <2> HIDE DEF s, e, d, n
  <2>2. Len(d) \in Nat
    BY <1>1, <1>3
  <2> QED BY <1>4, <2>1, <2>2
<1>6. Consumed(Data(ino, offset)) = n
  BY <1>2 DEF Consumed
<1>7. n \in Nat
  BY <1>3, <1>4
<1> HIDE DEF n, d, e
<1>8. EndsLineAt(ino, offset + n)
  <2>1. CASE n = 0
    BY <2>1
  <2>2. CASE n # 0
    BY <1>4, <1>5, <1>7, <2>2 DEF EndsLineAt
  <2> QED BY <2>1, <2>2
<1> QED BY <1>6, <1>7, <1>8

-----------------------------------------------------------------------------
(***************************************************************************)
(* The inductive invariant.  Fresh: an inode that has not been handed out  *)
(* yet is nowhere recorded, so a file made anew is a change of inode.      *)
(* Reading: what a call carries from its first steps into its last one,    *)
(* whatever the agent did meanwhile; a call that stat'ed the file that is  *)
(* still at the path has opened that file.  Counted: what the caller has   *)
(* whenever the tail's inode is the one at the path.                       *)
(***************************************************************************)
Types ==
  /\ path \in 0 .. MaxInode /\ next \in 1 .. MaxInode + 1
  /\ bytes \in [Inode -> Content] /\ gen \in [Inode -> Nat]
  /\ tail \in [inode : 0 .. MaxInode, offset : Nat]
  /\ stage \in {"idle", "statted", "opened", "checked"}
  /\ call \in [ino : 0 .. MaxInode, offset : Nat, reset : BOOLEAN,
               from : 0 .. MaxInode]

Fresh == path < next /\ tail.inode < next /\ call.ino < next /\ call.from < next

Reading ==
  /\ call.reset => call.offset = 0
  /\ stage # "idle" =>
       /\ call.ino # 0
       /\ ~ call.reset =>
            call.offset = tail.offset /\ tail.inode \in {0, call.ino}
  /\ stage \in {"opened", "checked"} =>
       /\ call.from # 0
       /\ path # 0 /\ call.ino = path => call.from = path

\* No check is undone by a rewrite.
Checked ==
  NeverRewritten \/ "checked" \notin RewriteStages =>
    (stage = "checked" => EndsLineAt(call.from, call.offset))

Counted ==
  /\ tail.inode = 0 => tail.offset = 0 /\ got = <<>>
  /\ NeverRewritten /\ path # 0 /\ tail.inode = path =>
       got = First(tail.offset) /\ EndsLineAt(path, tail.offset)

Inv == Types /\ Fresh /\ Reading /\ Checked /\ Counted

LEMMA InitInv == Init => Inv
<1> SUFFICES ASSUME Init PROVE Inv
  OBVIOUS
<1>1. Types
  BY Bounds DEF Init, Types, Idle, Content, Inode
<1>2. Fresh /\ Reading /\ Checked /\ Counted
  BY DEF Init, Fresh, Reading, Checked, Counted, Idle
<1> QED BY <1>1, <1>2 DEF Inv

\* What the agent appends leaves every line end where it was.
LEMMA AppendKeepsLineEnds ==
  ASSUME NEW b \in {"text", "nl"}, bytes \in [Inode -> Content], path \in Inode,
         bytes' = [bytes EXCEPT ![path] = Append(@, b)],
         NEW ino \in Inode, NEW offset \in Nat, EndsLineAt(ino, offset)
  PROVE  EndsLineAt(ino, offset)'
<1>1. bytes[ino] \in Content /\ Len(bytes[ino]) \in Nat
  BY DEF Content
<1>2. CASE ino = path
  <2>1. bytes'[ino] = Append(bytes[ino], b)
    BY <1>2
  <2>2. \A i \in 1 .. Len(bytes[ino]) : bytes'[ino][i] = bytes[ino][i]
    BY <1>1, <2>1 DEF Content
  <2>3. Len(bytes'[ino]) = Len(bytes[ino]) + 1
    BY <1>1, <2>1 DEF Content
  <2> QED BY <1>1, <2>2, <2>3 DEF EndsLineAt
<1>3. CASE ino # path
  BY <1>3 DEF EndsLineAt
<1> QED BY <1>2, <1>3

LEMMA WriteInv ==
  ASSUME Inv, NEW b \in {"text", "nl"}, Write(b)
  PROVE  Inv'
<1> USE DEF Inv
<1>1. path \in Inode /\ bytes' = [bytes EXCEPT ![path] = Append(@, b)]
  BY DEF Write, Types, Inode
<1>2. bytes' \in [Inode -> Content]
  BY <1>1 DEF Types, Content
<1>3. Types' /\ Fresh' /\ Reading'
  BY <1>2 DEF Write, Types, Fresh, Reading
<1>4. Checked'
  BY <1>1, AppendKeepsLineEnds DEF Write, Types, Fresh, Reading, Checked,
                                   NeverRewritten, EndsLineAt, Inode
<1>5. Counted'
  BY <1>1, AppendKeepsLineEnds
     DEF Write, Types, Counted, NeverRewritten, First, Piece
<1> QED BY <1>3, <1>4, <1>5

\* A rewrite leaves no claim but those of Types, Fresh and Reading.
LEMMA TruncateInv ==
  ASSUME Inv, Truncate
  PROVE  Inv'
<1> USE DEF Inv
<1>1. path \in Inode /\ <<>> \in Content
  BY DEF Truncate, Types, Inode, Content
<1>2. Types' /\ Fresh' /\ Reading'
  BY <1>1 DEF Truncate, Types, Fresh, Reading
<1>3. ~ NeverRewritten'
  <2>1. gen'[path] = gen[path] + 1 /\ gen[path] \in Nat
    BY <1>1 DEF Truncate, Types
  <2>2. gen'[path] # 0
    BY <2>1
  <2> QED BY <1>1, <2>2 DEF NeverRewritten
<1>4. Checked'
  BY <1>3 DEF Truncate, Checked
<1>5. Counted'
  BY <1>3 DEF Truncate, Counted
<1> QED BY <1>2, <1>4, <1>5

LEMMA RemoveInv ==
  ASSUME Inv, Remove
  PROVE  Inv'
<1> USE DEF Inv
<1>1. path \in Inode /\ <<>> \in Content /\ path' = 0
  BY DEF Remove, Types, Inode, Content
<1>2. /\ bytes' \in [Inode -> Content] /\ gen' = gen /\ next' = next
      /\ tail' = tail /\ stage' = stage /\ call' = call
  BY <1>1 DEF Remove, Types
<1>3. Types' /\ Fresh' /\ Reading'
  BY <1>1, <1>2, Bounds DEF Types, Fresh, Reading
<1>4. Checked'
  BY <1>1 DEF Remove, Types, Reading, Checked, NeverRewritten, EndsLineAt
<1>5. Counted'
  BY <1>1 DEF Remove, Counted
<1> QED BY <1>3, <1>4, <1>5

LEMMA CreateInv ==
  ASSUME Inv, Create
  PROVE  Inv'
<1> USE DEF Inv
<1>1. path' = next /\ next \in Inode /\ next' = next + 1
  BY Bounds DEF Create, Types, Inode
<1>2. Types'
  BY <1>1, Bounds DEF Create, Types, Inode
<1>3. Fresh' /\ Reading'
  BY <1>1 DEF Create, Types, Fresh, Reading
<1>4. Checked'
  BY DEF Create, Checked, NeverRewritten, EndsLineAt
<1>5. Counted'
  BY <1>1 DEF Create, Types, Fresh, Counted
<1> QED BY <1>2, <1>3, <1>4, <1>5

LEMMA StatInv ==
  ASSUME Inv, Stat
  PROVE  Inv'
<1> USE DEF Inv
<1>1. path \in Inode /\ stage' = "statted" /\ UNCHANGED <<file, tail, got>>
  BY DEF Stat, Types, Inode
<1>2. ASSUME StartsOver(path) PROVE Types' /\ Fresh' /\ Reading'
  <2>1. call' = [ino |-> path, reset |-> TRUE, from |-> 0, offset |-> 0]
    BY <1>2 DEF Stat, StartsOver
  <2> QED BY <1>1, <2>1, Bounds DEF Types, Fresh, Reading, Inode, file
<1>3. ASSUME ~ StartsOver(path) PROVE Types' /\ Fresh' /\ Reading'
  <2>1. call' = [ino |-> path, reset |-> FALSE, from |-> 0, offset |-> tail.offset]
    BY <1>3 DEF Stat, StartsOver
  <2>2. tail.inode \in {0, path}
    BY <1>3 DEF StartsOver
  <2> QED BY <1>1, <2>1, <2>2, Bounds DEF Types, Fresh, Reading, Inode, file
<1>4. Types' /\ Fresh' /\ Reading'
  BY <1>2, <1>3
<1>5. Checked'
  BY <1>1 DEF Checked
<1>6. Counted'
  BY <1>1 DEF Counted, NeverRewritten, First, Piece, EndsLineAt, file
<1> QED BY <1>4, <1>5, <1>6

LEMMA OpenInv ==
  ASSUME Inv, Open
  PROVE  Inv'
<1> USE DEF Inv
<1>1. /\ path # 0 /\ stage = "statted" /\ stage' = "opened"
      /\ call' = [call EXCEPT !.from = path] /\ UNCHANGED <<file, tail, got>>
  BY DEF Open
<1>2. Types' /\ Fresh' /\ Reading'
  BY <1>1 DEF Types, Fresh, Reading, file
<1>3. Checked'
  BY <1>1 DEF Checked
<1>4. Counted'
  BY <1>1 DEF Counted, NeverRewritten, First, Piece, EndsLineAt, file
<1> QED BY <1>2, <1>3, <1>4

LEMMA CheckInv ==
  ASSUME Inv, Check
  PROVE  Inv'
<1> USE DEF Inv
<1>1. /\ stage = "opened" /\ stage' = "checked" /\ UNCHANGED <<file, tail, got>>
      /\ call' = IF EndsLineAt(call.from, call.offset) THEN call
                 ELSE [call EXCEPT !.offset = 0, !.reset = TRUE]
  BY DEF Check
<1>2. Types' /\ Fresh' /\ Reading'
  BY <1>1 DEF Types, Fresh, Reading, file
<1>3. EndsLineAt(call.from, call.offset)'
  BY <1>1 DEF Types, EndsLineAt, file
<1>4. Checked'
  BY <1>3 DEF Checked
<1>5. Counted'
  BY <1>1 DEF Counted, NeverRewritten, First, Piece, EndsLineAt, file
<1> QED BY <1>2, <1>4, <1>5

LEMMA FailInv ==
  ASSUME Inv, Fail
  PROVE  Inv'
<1> USE DEF Inv
<1>1. stage' = "idle" /\ call' = Idle /\ UNCHANGED <<file, tail, got>>
  BY DEF Fail
<1>2. Types' /\ Fresh' /\ Reading'
  BY <1>1, Bounds DEF Types, Fresh, Reading, Idle, file
<1>3. Checked'
  BY <1>1 DEF Checked
<1>4. Counted'
  BY <1>1 DEF Counted, NeverRewritten, First, Piece, EndsLineAt, file
<1> QED BY <1>2, <1>3, <1>4

\* The caller's pieces after a read that starts where it has everything.
LEMMA PlusNext ==
  ASSUME NEW o \in Nat, NEW n \in Nat, path # 0
  PROVE  Plus(First(o), Piece(path, o, o + n)) = First(o + n)
<1>1. CASE n = 0
  BY <1>1 DEF Plus, Piece
<1>2. CASE n # 0 /\ o = 0
  BY <1>2 DEF Plus, Piece, First
<1>3. CASE n # 0 /\ o # 0
  <2>1. First(o) = <<Piece(path, 0, o)>> /\ First(o + n) = <<Piece(path, 0, o + n)>>
    BY <1>3 DEF First
  <2>2. Plus(<<Piece(path, 0, o)>>, Piece(path, o, o + n))
          = [<<Piece(path, 0, o)>> EXCEPT ![1].to = o + n]
    BY <1>3 DEF Plus, Piece
  <2>3. [<<Piece(path, 0, o)>> EXCEPT ![1].to = o + n] = <<Piece(path, 0, o + n)>>
    BY DEF Piece
  <2> QED BY <2>1, <2>2, <2>3
<1> QED BY <1>1, <1>2, <1>3

LEMMA ReadInv ==
  ASSUME Inv, Read
  PROVE  Inv'
<1> USE DEF Inv
<1> DEFINE n == Consumed(Data(call.from, call.offset))
<1>1. /\ stage = "checked" /\ stage' = "idle" /\ call' = Idle
      /\ path' = path /\ bytes' = bytes /\ gen' = gen /\ next' = next
      /\ tail' = [inode |-> call.ino, offset |-> call.offset + n]
      /\ got' = Plus(Kept, Piece(call.from, call.offset, call.offset + n))
  BY DEF Read, file
<1>2. call.from \in Inode /\ call.offset \in Nat /\ bytes[call.from] \in Content
  BY <1>1 DEF Types, Reading, Inode
<1>3. n \in Nat
  <2>1. Data(call.from, call.offset) \in Content
    BY <1>2, DataType
  <2>2. Len(Data(call.from, call.offset)) \in Nat
    BY <2>1 DEF Content
  <2>3. n \in 0 .. Len(Data(call.from, call.offset))
    BY <2>1, LastNewlineType DEF Consumed
  <2> QED BY <2>2, <2>3
<1>4. Types' /\ Fresh' /\ Reading'
  BY <1>1, <1>3, Bounds DEF Types, Fresh, Reading, Idle
<1>5. Checked'
  BY <1>1 DEF Checked
<1>6. Counted'
  <2> SUFFICES ASSUME NeverRewritten, path # 0, call.ino = path
               PROVE  /\ got' = First(call.offset + n)
                      /\ EndsLineAt(path, call.offset + n)
    BY <1>1 DEF Counted, Reading, NeverRewritten, First, Piece, EndsLineAt
  <2>1. call.from = path
    BY <1>1 DEF Reading
  <2>2. EndsLineAt(path, call.offset + n)
    BY <1>1, <1>2, <2>1, ConsumedLines DEF Checked
  <2>3. Kept = First(call.offset)
    <3>1. CASE call.reset
      BY <3>1 DEF Kept, Reading, First
    <3>2. CASE ~ call.reset
      BY <1>1, <3>2 DEF Kept, Reading, Counted, First
    <3> QED BY <3>1, <3>2
  <2> QED BY <1>1, <1>2, <1>3, <2>1, <2>2, <2>3, PlusNext
<1> QED BY <1>4, <1>5, <1>6

\* Every step of the agent and of a call keeps the invariant.
LEMMA StepInv == Inv /\ [Next]_vars => Inv'
<1> SUFFICES ASSUME Inv, [Next]_vars PROVE Inv'
  OBVIOUS
<1>1. CASE UNCHANGED vars
  BY <1>1 DEF vars, file, Inv, Types, Fresh, Reading, Checked, Counted,
              NeverRewritten, First, Piece, EndsLineAt
<1> QED BY <1>1, WriteInv, TruncateInv, RemoveInv, CreateInv, StatInv, OpenInv,
           CheckInv, ReadInv, FailInv DEF Next

LEMMA InvHolds == Spec => []Inv
BY InitInv, StepInv, PTL DEF Spec

\* Whatever falls between two steps of a call, as long as no file is rewritten
\* in place: between two calls the caller has every byte up to the offset once
\* and nothing of another file, and the offset is at the end of a line, or the
\* next stat finds another file and starts over (tail.go:19-31, 64-96,
\* source.go:211-221).
THEOREM RotationsAreCountedOnce == Spec => []RotationCountedOnceOrNoticed
<1>1. Inv => RotationCountedOnceOrNoticed
  BY DEF Inv, Types, Counted, RotationCountedOnceOrNoticed, StartsOver, First,
         EndsLineAt
<1> QED BY <1>1, InvHolds, PTL

\* Lines are never delivered from the middle of a record, as long as no rewrite
\* falls between the check of the offset and the read (tail.go:98-106, 164-168).
THEOREM RecordsAreWhole ==
  ASSUME "checked" \notin RewriteStages
  PROVE  Spec => WholeRecords
<1>1. Inv /\ [Next]_vars =>
        [tail'.offset > call.offset /\ stage = "checked"
           => EndsLineAt(call.from, call.offset)]_vars
  BY DEF Inv, Checked
<1> QED BY <1>1, InvHolds, PTL DEF Spec, WholeRecords
=============================================================================
