------------------------------- MODULE UiModel -------------------------------
(***************************************************************************)
(* The terminal UI (internal/ui/model.go, keys.go): what the keys, the     *)
(* resizes and the arriving cycles do to the model, and the frame View     *)
(* makes of it - the heights of its sections, the rows of the table        *)
(* (panel/sessions.go, children.go), its columns, and the footer's lines   *)
(* (panel/footer.go).  Keys, resizes and cycles come in any order.  A      *)
(* snapshot is any sequence of sessions, told apart by the rows they have, *)
(* by what makes them dormant and by the metrics the table is sorted by.   *)
(***************************************************************************)
EXTENDS Integers, FiniteSets, Sequences, SequencesExt, Functions

CONSTANTS Sessions,   \* the sequences of sessions a snapshot may hold
          Sizes,      \* the terminal's sizes: <<width, height>>
          Clusters,   \* how many CPU clusters the hardware has
          Palettes,   \* the palettes there are: <<name, width of the name>>
          Given,      \* the theme it was started with, one of them or its own
          NoSnapshot, NoValue

Notice == {"unpriced", "degraded"}   \* what the footer may have to report

VARIABLES snap, notices,             \* the last snapshot taken
          selected, sort, theme, size,
          on                         \* the flags that are set

Flag == {"filtered", "showAll", "paused", "metersOnly", "detail", "help"}
view == <<sort, theme, on, size>>
uiVars == <<snap, notices, selected, view>>

\* What the display reads of a session; what is not known has NoValue.
SessionView ==
  [id : Nat, subagents : Seq([workflow : STRING]), workflows : Seq(STRING),
   stale : BOOLEAN, live : BOOLEAN, unknown : BOOLEAN,
   metric : [{"cost", "burn", "cpu"} -> Nat \cup {NoValue}]]

ASSUME SessionsAssumption == Sessions \subseteq Seq(SessionView) /\ NoSnapshot \notin Sessions
ASSUME DisplayAssumption ==
  /\ Sizes \subseteq Nat \X Nat /\ Clusters \in Nat
  /\ Palettes \in Seq(STRING \X Nat) /\ Given \in STRING \X Nat

SortKeys == <<"status", "cost", "burn", "cpu">>      \* sortKeys
KeyWidth == <<6, 4, 4, 3>>           \* how wide the name of each is

\* A theme that is no palette goes ahead of them.
ThemeNames == IF Contains(Palettes, Given) THEN Palettes ELSE <<Given>> \o Palettes

Width == size[1]
Height == size[2]
Paused == "paused" \in on

AtMost(a, b) == IF a < b THEN a ELSE b
AtLeast(a, b) == IF a > b THEN a ELSE b

-----------------------------------------------------------------------------
\* The table's rows.

\* dormant: stale, and bound to no process of this cycle.
Dormant(s) == s.stale /\ (~s.live \/ s.unknown)

\* The places in the snapshot of the sessions that are listed.
Listed == IF snap = NoSnapshot THEN {}
          ELSE {i \in DOMAIN snap : "showAll" \in on \/ ~Dormant(snap[i])}

\* costOrZero and its like: what is not known sorts as nothing.
OrZero(value) == IF value = NoValue THEN 0 ELSE value

\* The metric of the sort, of which "status" has none.
MetricOf(s) == IF SortKeys[sort] = "status" THEN 0 ELSE OrZero(s.metric[SortKeys[sort]])

\* Mutant: the metric first.
BeforeByMetric(s, t) ==
  \/ MetricOf(s) > MetricOf(t)
  \/ MetricOf(s) = MetricOf(t) /\ Dormant(t) /\ ~Dormant(s)

\* Whether s goes above t: live before dormant, then by the metric.
Before(s, t) ==
  \/ Dormant(t) /\ ~Dormant(s)
  \/ Dormant(s) = Dormant(t) /\ MetricOf(s) > MetricOf(t)

\* visibleSessions.  The sort is stable: each goes below those that go before
\* it, and below the earlier ones it does not go before.
Visible ==
  LET above(i) == {j \in Listed : \/ Before(snap[j], snap[i])
                                  \/ j < i /\ ~Before(snap[i], snap[j])}
      rank == [i \in Listed |-> Cardinality(above(i))]
  IN [n \in 1 .. Cardinality(Listed) |-> snap[CHOOSE i \in Listed : rank[i] = n - 1]]

\* ChildRows, how many: the agents outside workflows, and the workflows, which
\* stand for theirs; none while filtered, when visibleSessions strips them.
ChildRows(s) ==
  IF "filtered" \in on THEN 0
  ELSE Cardinality({i \in DOMAIN s.subagents : s.subagents[i].workflow = ""}) + Len(s.workflows)

RowsOf(s) == 1 + ChildRows(s)

\* flatRowCount
FlatRowCount == SumFunction([i \in Listed |-> RowsOf(snap[i])])

\* The sessions of the table's rows, top to bottom.
TableRows ==
  LET shown == Visible
  IN FlattenSeq([i \in DOMAIN shown |-> [n \in 1 .. RowsOf(shown[i]) |-> shown[i].id]])

Above(shown, i) == SumFunction([k \in 1 .. i - 1 |-> RowsOf(shown[k])])

\* Mutant: every agent is taken to have a row.
SelectedSessionByAgents ==
  LET shown == Visible
      rows(i) == SumFunction([k \in 1 .. i - 1 |-> 1 + Len(shown[k].subagents)])
  IN {shown[i].id : i \in {j \in DOMAIN shown :
                             /\ rows(j) <= selected
                             /\ \A k \in DOMAIN shown : k > j => rows(k) > selected}}

\* selectedSession: the one that owns the selected row, as a set.
SelectedSession ==
  LET shown == Visible
  IN {shown[i].id : i \in {j \in DOMAIN shown :
                             /\ Above(shown, j) <= selected
                             /\ selected < Above(shown, j) + RowsOf(shown[j])}}

\* clampSelection
Clamped(n, count) == AtLeast(0, AtMost(n, count - 1))

\* Mutant: what is stale.
HiddenStale ==
  IF snap = NoSnapshot \/ "showAll" \in on THEN 0
  ELSE Cardinality({i \in DOMAIN snap : snap[i].stale})

\* hiddenSessions
Hidden ==
  IF snap = NoSnapshot \/ "showAll" \in on THEN 0
  ELSE Cardinality({i \in DOMAIN snap : Dormant(snap[i])})

-----------------------------------------------------------------------------
\* The frame.

\* View: the height of each section.
Heights ==
  LET footer == AtMost(4, Height)
      graphed == "metersOnly" \notin on /\ Height >= 24 /\ Width >= 80
      graphs == IF ~graphed THEN 0 ELSE IF Height >= 38 THEN 13 ELSE 9
      strip == IF Width < 110 THEN 10 + Clusters ELSE AtLeast(12, 10 + Clusters)
      hardware == IF graphed /\ Height < 38 THEN 3 ELSE AtMost(strip, Height - footer)
  IN [footer |-> footer, graphs |-> graphs, hardware |-> hardware,
      table |-> AtLeast(0, Height - hardware - graphs - footer)]

\* Below the table's title and its header.
DataHeight == AtLeast(0, Heights.table - 1) - 1

More(n) == [more |-> n]
Line(n) == [row |-> n]

\* Mutant: a marker goes over whatever is on its line.
WindowMarked(count, visible) ==
  IF visible <= 0 THEN <<>>
  ELSE IF count <= visible THEN [i \in 1 .. count |-> Line(i - 1)]
  ELSE LET first == AtMost(AtLeast(0, selected - visible \div 2), count - visible)
           last == first + visible - 1
       IN [i \in 1 .. visible |->
             IF i = visible /\ last < count - 1 THEN More(count - last)
             ELSE IF i = 1 /\ first > 0 THEN More(first + 1)
             ELSE Line(first + i - 1)]

\* windowRows: the rows from 0 of which as many as fit are shown, the selected
\* one in the middle where it can be, and what the markers say is hidden.
Window(count, visible) ==
  IF visible <= 0 THEN <<>>
  ELSE IF count <= visible THEN [i \in 1 .. count |-> Line(i - 1)]
  ELSE LET first == AtMost(AtLeast(0, selected - visible \div 2), count - visible)
           last == first + visible - 1
       IN [i \in 1 .. visible |->
             IF i = visible /\ last < count - 1 /\ last # selected THEN More(count - last)
             ELSE IF i = 1 /\ first > 0 /\ first # selected THEN More(first + 1)
             ELSE Line(first + i - 1)]

\* The columns that shrink, in the order they do, and their base widths; those
\* that never do; and the three that are dropped.
Flexible == <<"rate", "ctx", "model", "cwd", "pid", "status">>
BaseWidth == [rate |-> 7, ctx |-> 18, model |-> 14, cwd |-> 16, pid |-> 13, status |-> 16]
Fixed == <<6, 8, 8, 5, 6>>           \* agent, cost, burn, cpu, rss
Droppable == <<3, 7, 6>>             \* tl, sa, gpu
colFloor == 5

\* total, given the widths of the flexible columns and how many of the three are
\* dropped; a blank stands between two columns.
TotalWidth(cols, drop) ==
  SumFunction(cols) + SumFunction(Fixed) + SumFunction([k \in drop + 1 .. 3 |-> Droppable[k]])
    + 5 + 6 + (3 - drop) - 1

\* Mutant: a column gives up what is missing, whatever it has.
ShrunkBelow(cols, col, over) ==
  IF over <= 0 THEN cols ELSE [cols EXCEPT ![col] = @ - over]

Shrunk(cols, col, over) ==
  IF over <= 0 \/ cols[col] <= colFloor THEN cols
  ELSE [cols EXCEPT ![col] = @ - AtMost(over, @ - colFloor)]

\* computeSessionCols
Columns(width) ==
  LET budget == width - 2
      fits(d) == TotalWidth(BaseWidth, d) <= budget
      drop == IF fits(0) THEN 0 ELSE IF fits(1) THEN 1 ELSE IF fits(2) THEN 2 ELSE 3
      shrink[n \in 0 .. 6] ==
        IF n = 0 THEN BaseWidth
        ELSE Shrunk(shrink[n - 1], Flexible[n], TotalWidth(shrink[n - 1], drop) - budget)
      shrunk == shrink[6]
      slack == AtLeast(0, budget - TotalWidth(shrunk, drop))
      cwd == AtMost(slack, 40)
  IN [cols |-> [shrunk EXCEPT !.cwd = @ + cwd, !.model = @ + slack - cwd], drop |-> drop]

\* How many digits a number from 1 on is printed with.
Digits(n) == Cardinality({k \in 0 .. n \div 10 : 10 ^ k <= n})

\* The segments and their widths, three blanks apart, the first left out for as
\* long as the rest does not fit.
SegmentsIn(room) ==
  LET all == <<<<"sort", 5 + KeyWidth[sort]>>, <<"theme", 6 + ThemeNames[theme][2]>>,
               <<"paused", 8>>, <<"hidden", 11 + Digits(Hidden)>>, <<"graphs", 8>>, <<"help", 6>>>>
      there == {k \in 1 .. 6 : (k = 3 => Paused) /\ (k = 4 => Hidden > 0)}
      from(n) == {k \in there : k >= n}
      wide(n) == SumFunction([k \in from(n) |-> all[k][2] + 3]) - 3
      first == CHOOSE n \in there : /\ \A m \in there : m < n => wide(m) > room
                                    /\ wide(n) <= room \/ n = 6
  IN {all[k][1] : k \in from(first)}

\* Mutant: what just fits is taken not to.
StatusLineShort == SegmentsIn(Width - 1)

\* statusLine
StatusLine == SegmentsIn(Width)

\* FooterRender: the lines that the height leaves.
Footer ==
  LET all == <<"machine", "status", "unpriced", "degraded", "caveat">>
      there == {k \in 1 .. 5 : all[k] \in Notice => all[k] \in notices}
  IN {all[k] : k \in {n \in there : Cardinality({m \in there : m < n}) < Heights.footer}}

\* What View shows.
Screen ==
  IF snap = NoSnapshot THEN "waiting"
  ELSE IF "help" \in on THEN "help"
  ELSE IF "detail" \in on /\ SelectedSession # {} THEN "detail"
  ELSE "table"

-----------------------------------------------------------------------------
UiInit ==
  /\ snap = NoSnapshot /\ notices = {}
  /\ selected = 0 /\ sort = 1 /\ on = {}
  /\ theme = IF Contains(Palettes, Given) THEN CHOOSE i \in DOMAIN Palettes : Palettes[i] = Given
             ELSE 1
  /\ size = <<120, 40>>

\* CycleMsg: dropped while paused.
Cycle ==
  \/ /\ ~Paused
     /\ snap' \in Sessions /\ notices' \in SUBSET Notice
     /\ UNCHANGED view
     /\ selected' = Clamped(selected, FlatRowCount')
  \/ Paused /\ UNCHANGED uiVars

Resize ==
  size' \in Sizes /\ UNCHANGED <<snap, notices, selected, sort, theme, on>>

Up ==
  /\ selected' = AtLeast(0, selected - 1)
  /\ UNCHANGED <<snap, notices, view>>

Down ==
  /\ selected' = IF selected < FlatRowCount - 1 THEN selected + 1 ELSE selected
  /\ UNCHANGED <<snap, notices, view>>

CycleSort ==
  /\ sort' = (sort % Len(SortKeys)) + 1
  /\ UNCHANGED <<snap, notices, selected, theme, on, size>>

\* cycleTheme, forward and back.
CycleTheme ==
  /\ \E dir \in {1, Len(ThemeNames) - 1} :
       theme' = ((theme - 1 + dir) % Len(ThemeNames)) + 1
  /\ UNCHANGED <<snap, notices, selected, sort, on, size>>

Toggled(flag) ==
  /\ on' = IF flag \in on THEN on \ {flag} ELSE on \cup {flag}
  /\ UNCHANGED <<snap, notices, sort, theme, size>>

ToggleFilter == Toggled("filtered") /\ selected' = Clamped(selected, FlatRowCount')

\* Mutant: the selection stays where it is.
ToggleShowAllOnly == Toggled("showAll") /\ UNCHANGED selected

ToggleShowAll == Toggled("showAll") /\ selected' = Clamped(selected, FlatRowCount')

\* Pause, graphs, detail and help.
ToggleScreen ==
  \E flag \in {"paused", "metersOnly", "detail", "help"} :
    Toggled(flag) /\ UNCHANGED selected

Pressed ==
  \/ Up \/ Down \/ CycleSort \/ CycleTheme \/ ToggleFilter \/ ToggleShowAll \/ ToggleScreen

UiNext == Cycle \/ Resize \/ Pressed

UiSpec == UiInit /\ [][UiNext]_uiVars

-----------------------------------------------------------------------------
\* The selected row is on the table, whatever keys and cycles came in whatever
\* order, and its line shows it and not a marker (panel/sessions.go:160-163);
\* the markers and the rows make up all the rows there are once there is room
\* for both markers and a row; and the session a detail is shown of is the one
\* that owns the row (panel/children.go:28-30).
SelectionShown ==
  LET window == Window(FlatRowCount, DataHeight)
      told == SumFunction([i \in DOMAIN window |->
                             IF "more" \in DOMAIN window[i] THEN window[i].more ELSE 1])
  IN FlatRowCount > 0 =>
       /\ selected < FlatRowCount
       /\ SelectedSession = {TableRows[selected + 1]}
       /\ DataHeight > 0 => \E i \in DOMAIN window : window[i] = Line(selected)
       /\ DataHeight > 2 => told = FlatRowCount

\* No session that may be running is hidden or stands below a dormant one, and
\* the footer tells that the picture stands still and how many are hidden, at
\* any width that has room for it and for what is right of it: "[PAUSED]", the
\* count with its digits, "g graphs" and "? help" (footer.go:91-119,
\* model.go:239-242).  On a narrower one the code drops the pause too, which
\* footer.go:87-100 says it never does.
NothingHiddenUnsaid ==
  LET running(s) == ~s.stale \/ (s.live /\ ~s.unknown)
      shown == Visible
      ids == [i \in DOMAIN shown |-> shown[i].id]
  IN snap # NoSnapshot =>
       /\ \A i \in DOMAIN snap : running(snap[i]) => Contains(ids, snap[i].id)
       /\ \A i, j \in DOMAIN shown : i < j /\ running(shown[j]) => running(shown[i])
       /\ Hidden = Len(snap) - Len(shown)
       /\ Screen = "table" /\ Height >= 2 =>
            /\ "status" \in Footer
            /\ Paused /\ Width >= 28 + (IF Hidden > 0 THEN 14 + Digits(Hidden) ELSE 0) =>
                 "paused" \in StatusLine
            /\ Hidden > 0 /\ Width >= 31 + Digits(Hidden) => "hidden" \in StatusLine

\* The sections fill the terminal to the line, and the table's columns fill it
\* to the column with every one of them legible, from 80 columns on
\* (model.go:395-399, panel/sessions.go:64-76).
FrameFits ==
  /\ Heights.footer + Heights.hardware + Heights.graphs + Heights.table = Height
  /\ Width >= 80 =>
       LET c == Columns(Width)
       IN /\ TotalWidth(c.cols, c.drop) = Width - 2
          /\ \A i \in DOMAIN Flexible : c.cols[Flexible[i]] >= colFloor
=============================================================================
