---------------------------- MODULE RolloutIndex ----------------------------
(***************************************************************************)
(* The cached discovery of rollout files (internal/agent/codex/rollouts.go *)
(* rolloutIndex).  Codex files a rollout under the day its session started *)
(* and appends to it for as long as the session lives, so a recent one may *)
(* lie in any folder.  A poll walks the whole tree at most every Rewalk,   *)
(* and between the walks lists today's folder, yesterday's and those that  *)
(* held something recent at the last walk.                                 *)
(*                                                                         *)
(* Codex starts sessions and resumes any of them at any time; the tree may *)
(* be removed and made again; a folder may be unreadable during a poll.    *)
(* The bounds are MaxNow, MaxFault and MaxTree, and the rollouts.          *)
(***************************************************************************)
EXTENDS Integers, FiniteSets

CONSTANTS Day, Year,   \* the length of each
          Window,      \* how far back the caller's cutoff lies (24 h)
          Rewalk,      \* rewalkInterval
          Rollout,     \* the rollout files
          MaxNow, MaxFault, MaxTree,
          Never        \* no walk yet

ASSUME SpansAssumption ==
  /\ {Day, Year, Window, Rewalk} \subseteq Nat \ {0}
  /\ Rewalk <= Day /\ Never \notin Nat
ASSUME BoundAssumption == {MaxNow, MaxFault, MaxTree} \subseteq Nat

Time == 0 .. MaxNow
Folder(t) == t \div Day
Today == 0 .. Folder(MaxNow)   \* the day folders, by day

VARIABLES now,
          files,      \* the rollouts there are
          day, mtime, \* of each: its folder, its last write
          root,       \* the years in the tree, and how often that has changed
          index,      \* rolloutIndex: walkedAt, walkCutoff, rootMtime, hotDirs
          listed,     \* what the poll just made answered
          woke,       \* history: when each last became recent
          blind       \* history: when a poll last found each folder unreadable

disk == <<files, day, mtime, root, woke>>
indexVars == <<now, disk, index, listed, blind>>

Cutoff == now - Window
\* The recent rollouts of some folders: scanRolloutDir for each of them.
In(folders) == {r \in files : day[r] \in folders /\ mtime[r] >= Cutoff}
Faults == {d \in Today : blind[d] # Never}

\* Mutant: the age of the last walk is not looked at.
NeedWalkOnChange ==
  index.walkedAt # Never =>
    \/ now < index.walkedAt \/ Cutoff < index.walkCutoff
    \/ root.changes # index.rootMtime

NeedWalk ==
  index.walkedAt # Never =>
    \/ now - index.walkedAt >= Rewalk \/ now < index.walkedAt
    \/ Cutoff < index.walkCutoff \/ root.changes # index.rootMtime

\* Mutant: today's folder only.
HotToday == index.hotDirs \cup {Folder(now)}

\* The folders listed between two walks: the hot ones, today's, yesterday's.
Hot == index.hotDirs \cup {Folder(now), Folder(now - Day)}

-----------------------------------------------------------------------------
Unwalked == [walkedAt |-> Never, walkCutoff |-> 0, rootMtime |-> 0, hotDirs |-> {}]

IndexInit ==
  /\ now = 0 /\ files = {}
  /\ day = [r \in Rollout |-> 0] /\ mtime = [r \in Rollout |-> 0]
  /\ root = [years |-> {}, changes |-> 0]
  /\ index = Unwalked /\ listed = {}
  /\ woke = [r \in Rollout |-> 0]
  /\ blind = [d \in Today |-> Never]

Tick ==
  now < MaxNow /\ now' = now + 1 /\ listed' = {} /\ UNCHANGED <<disk, index, blind>>

\* A session starts: its file goes to today's folder.
Start(r) ==
  /\ r \notin files /\ files' = files \cup {r}
  /\ day' = [day EXCEPT ![r] = Folder(now)]
  /\ mtime' = [mtime EXCEPT ![r] = now]
  /\ woke' = [woke EXCEPT ![r] = now]
  /\ root' = IF now \div Year \in root.years THEN root
             ELSE [years |-> root.years \cup {now \div Year},
                   changes |-> root.changes + 1]
  /\ listed' = {} /\ UNCHANGED <<now, index, blind>>

\* A session writes, perhaps after days.
Grow(r) ==
  /\ r \in files /\ mtime[r] # now
  /\ mtime' = [mtime EXCEPT ![r] = now]
  /\ woke' = IF mtime[r] >= Cutoff THEN woke ELSE [woke EXCEPT ![r] = now]
  /\ listed' = {} /\ UNCHANGED <<now, files, day, root, index, blind>>

\* The tree is removed; a later session makes it again.
RemoveTree ==
  /\ root.years # {} /\ root.changes < MaxTree
  /\ root' = [root EXCEPT !.years = {}]
  /\ files' = {}
  /\ day' = [r \in Rollout |-> 0]
  /\ mtime' = [r \in Rollout |-> 0] /\ woke' = [r \in Rollout |-> 0]
  /\ listed' = {} /\ UNCHANGED <<now, index, blind>>

\* A poll while there is no tree.
PollNoRoot ==
  /\ root.years = {}
  /\ index' = [index EXCEPT !.walkedAt = Never, !.hotDirs = {}]
  /\ listed' = {}
  /\ UNCHANGED <<now, disk, blind>>

\* walkRollouts; what is unreadable is skipped.
Walk(unreadable) ==
  /\ NeedWalk
  /\ LET found == In(Today \ unreadable)
     IN /\ listed' = found
        /\ index' = [walkedAt |-> now, walkCutoff |-> Cutoff,
                     rootMtime |-> root.changes, hotDirs |-> {day[r] : r \in found}]

Scan(unreadable) ==
  /\ ~NeedWalk
  /\ listed' = In(Hot \ unreadable)
  /\ UNCHANGED index

Poll(unreadable) ==
  /\ root.years # {}
  /\ blind' = [d \in Today |-> IF d \in unreadable THEN now ELSE blind[d]]
  /\ Walk(unreadable) \/ Scan(unreadable)
  /\ UNCHANGED <<now, disk>>

Unreadable(d) == Cardinality(Faults) < MaxFault /\ Poll({d})

IndexNext ==
  \/ Tick \/ RemoveTree \/ PollNoRoot \/ Poll({})
  \/ \E r \in Rollout : Start(r) \/ Grow(r)
  \/ \E d \in Today : Unreadable(d)

IndexSpec == IndexInit /\ [][IndexNext]_indexVars

-----------------------------------------------------------------------------
\* What a poll missed was resumed, or lay in a folder that could not be read,
\* within the last Rewalk.
MissedLately ==
  \A r \in In(Today) \ listed' :
    \/ woke[r] > now - Rewalk
    \/ blind'[day[r]] # Never /\ blind'[day[r]] > now - Rewalk

\* A rollout written within the window is missing from an answer only where it
\* was resumed within the last Rewalk or its folder could not be read within
\* it, and never for longer (rollouts.go:234-237).
FoundWithinRewalk ==
  [][\A unreadable \in {{}} \cup {{d} : d \in Today} :
       Poll(unreadable) => MissedLately]_indexVars

\* A session of today or of yesterday is never missing, walk or not, unless its
\* folder cannot be read in this very poll (rollouts.go:237-239).
NewAtOnce ==
  [][\A unreadable \in {{}} \cup {{d} : d \in Today} :
       Poll(unreadable) =>
         In({Folder(now), Folder(now) - 1} \ unreadable) \subseteq listed']_indexVars
=============================================================================
