----------------------------- MODULE StopGroups -----------------------------
(***************************************************************************)
(* Stop detection in src/find_stops.py: find_stops keeps the rows whose    *)
(* execution is STOPPED and whose numeric fields are mostly zero, and      *)
(* group_stops merges each machine's stop timestamps into intervals whose  *)
(* consecutive points are at most max_gap_seconds apart.  main() runs     *)
(* both on each DATA_DIR/<day>.jsonl file in turn; the first recorder      *)
(* names that file by the day of the flush that wrote a row, the day of    *)
(* its timestamp or a later one.  The rows of all files are chosen in      *)
(* Init; the loops of main() and group_stops are the actions.  Timestamps  *)
(* are whole seconds; a day is DayLen of them.                             *)
(***************************************************************************)
EXTENDS Naturals, Sequences, SequencesExt, FiniteSetsExt, TLC

CONSTANTS
  MachineOrder,  \* the machines, in the order groupby sorts them
  NONE,          \* start, last = None
  MaxTime,       \* bound: timestamps are 0..MaxTime
  MaxRows,       \* bound: rows in the input frame
  MaxGap,        \* MAX_GAP_SECONDS
  NumCols,       \* numeric columns present in the frame (available_cols)
  DayLen         \* seconds per day

Machines == ToSet(MachineOrder)

STOPPED_STATES == {"STOPPED"}

Day(t) == t \div DayLen

\* A log row as find_stops sees it: the machine, the timestamp, execution,
\* how many of the available numeric columns are 0, and the day file the
\* flush appended it to (the sample's day, or the next one when the flush
\* came after midnight).
Row == UNION {[machine : Machines, t : {x}, execution : {"STOPPED", "ACTIVE"},
               zeros : 0..NumCols, file : {Day(x), Day(x) + 1}] : x \in 0..MaxTime}

Interval == [machine : Machines, start : 0..MaxTime, end : 0..MaxTime,
             duration : 0..MaxTime]

VARIABLES
  rows,      \* the rows of all day files
  pc,        \* "file", "begin", "machine" (next groupby key), "loop", "done"
  files,     \* the files main() has not visited yet
  file,      \* the current file
  todo,      \* groupby keys not visited yet
  machine,   \* the current key
  ts,        \* mdf["timestamp"] still to visit
  start,
  last,
  grouped,   \* group_stops' result for the current file
  intervals  \* the intervals of the files done, in order (all_intervals)

vars == <<rows, pc, files, file, todo, machine, ts, start, last, grouped,
          intervals>>

MaxOf(a, b) == IF a >= b THEN a ELSE b

\* stopped_mask of find_stops.
IsStopped(r) ==
  /\ r.execution \in STOPPED_STATES
  /\ r.zeros >= MaxOf(1, NumCols \div 2)

\* find_stops: no numeric column yields an empty frame.
FindStops(df) == IF NumCols = 0 THEN <<>> ELSE SelectSeq(df, IsStopped)

\* load_jsonl: the rows of one file, sorted by timestamp.
FileRows(f) ==
  SortSeq(SelectSeq(rows, LAMBDA r : r.file = f), LAMBDA a, b : a.t < b.t)

Stops == FindStops(FileRows(file))

\* The timestamps of machine m in the stops frame, sorted.
TimesOf(m) ==
  SortSeq([i \in 1..Len(SelectSeq(Stops, LAMBDA r : r.machine = m)) |->
             SelectSeq(Stops, LAMBDA r : r.machine = m)[i].t], <)

Init ==
  /\ rows \in SeqOf(Row, MaxRows)
  \* Flushes write samples in time order, so the files split the log in
  \* time: a later sample is never in an earlier day's file.
  /\ \A i, j \in DOMAIN rows : rows[i].t < rows[j].t => rows[i].file <= rows[j].file
  \* sorted(DATA_DIR.glob("*.jsonl")): the day files, in date order.
  /\ files = SetToSortSeq({rows[i].file : i \in DOMAIN rows}, <)
  /\ pc = "file" /\ file = NONE
  /\ todo = <<>> /\ machine = NONE /\ ts = <<>>
  /\ start = NONE /\ last = NONE
  /\ grouped = <<>> /\ intervals = <<>>

\* main(): the next file, load_jsonl and find_stops; or the end of the loop.
NextFile ==
  /\ pc = "file"
  /\ IF files = <<>>
       THEN /\ pc' = "done" /\ UNCHANGED <<files, file>>
       ELSE /\ pc' = "begin" /\ file' = Head(files) /\ files' = Tail(files)
  /\ grouped' = <<>>
  /\ UNCHANGED <<rows, todo, machine, ts, start, last, intervals>>

\* group_stops: `if df.empty: return ...`; sort; `for machine, mdf in
\* df.groupby(...)`.  An empty result makes main() `continue`.
Begin ==
  /\ pc = "begin"
  /\ pc' = IF Stops = <<>> THEN "file" ELSE "machine"
  /\ todo' = SelectSeq(MachineOrder, LAMBDA m : \E i \in DOMAIN Stops : Stops[i].machine = m)
  /\ UNCHANGED <<rows, files, file, machine, ts, start, last, grouped, intervals>>

\* Variant: start and last carried over from the previous group.
NextMachineNoReset ==
  /\ pc = "machine" /\ todo /= <<>>
  /\ pc' = "loop"
  /\ machine' = Head(todo)
  /\ todo' = Tail(todo)
  /\ ts' = TimesOf(Head(todo))
  /\ UNCHANGED <<rows, files, file, start, last, grouped, intervals>>

\* The next group: `start, last = None, None`.
NextMachine ==
  /\ pc = "machine" /\ todo /= <<>>
  /\ pc' = "loop"
  /\ machine' = Head(todo)
  /\ todo' = Tail(todo)
  /\ ts' = TimesOf(Head(todo))
  /\ start' = NONE /\ last' = NONE
  /\ UNCHANGED <<rows, files, file, grouped, intervals>>

\* group_stops returns its frame; main() plots its intervals by hour (and
\* corrolation.py's main() appends them to all_intervals).
EndFile ==
  /\ pc = "machine" /\ todo = <<>>
  /\ intervals' = intervals \o grouped
  /\ pc' = "file"
  /\ UNCHANGED <<rows, files, file, todo, machine, ts, start, last, grouped>>

\* Variant: `(start - last).total_seconds()`.
CloseSwapped(m, s, l) == [machine |-> m, start |-> s, end |-> l, duration |-> s - l]

\* The row [machine, start, last, (last - start).total_seconds()].
Close(m, s, l) == [machine |-> m, start |-> s, end |-> l, duration |-> l - s]

\* Variant: `if gap < max_gap_seconds`.
StepStrict ==
  /\ pc = "loop" /\ ts /= <<>>
  /\ LET t == Head(ts) IN
       IF start = NONE THEN /\ start' = t /\ last' = t /\ UNCHANGED grouped
       ELSE IF t - last < MaxGap THEN /\ last' = t /\ UNCHANGED <<start, grouped>>
       ELSE /\ grouped' = Append(grouped, Close(machine, start, last))
            /\ start' = t /\ last' = t
  /\ ts' = Tail(ts)
  /\ UNCHANGED <<rows, pc, files, file, todo, machine, intervals>>

\* One iteration of `for t in mdf["timestamp"]`.
Step ==
  /\ pc = "loop" /\ ts /= <<>>
  /\ LET t == Head(ts) IN
       IF start = NONE THEN /\ start' = t /\ last' = t /\ UNCHANGED grouped
       ELSE IF t - last <= MaxGap THEN /\ last' = t /\ UNCHANGED <<start, grouped>>
       ELSE /\ grouped' = Append(grouped, Close(machine, start, last))
            /\ start' = t /\ last' = t
  /\ ts' = Tail(ts)
  /\ UNCHANGED <<rows, pc, files, file, todo, machine, intervals>>

\* `if start is not None: grouped.append(...)`.
EndMachine ==
  /\ pc = "loop" /\ ts = <<>>
  /\ grouped' = IF start = NONE THEN grouped
                ELSE Append(grouped, Close(machine, start, last))
  /\ pc' = "machine"
  /\ UNCHANGED <<rows, files, file, todo, machine, ts, start, last, intervals>>

Done == pc = "done" /\ UNCHANGED vars

Next ==
  NextFile \/ Begin \/ NextMachine \/ Step \/ EndMachine \/ EndFile \/ Done

Spec == Init /\ [][Next]_vars

-----------------------------------------------------------------------------
(* Properties *)

TypeOK ==
  /\ rows \in Seq(Row) /\ Len(rows) <= MaxRows
  /\ pc \in {"file", "begin", "machine", "loop", "done"}
  /\ files \in Seq(Nat) /\ file \in Nat \cup {NONE}
  /\ ts \in Seq(0..MaxTime)
  /\ start \in 0..MaxTime \cup {NONE} /\ last \in 0..MaxTime \cup {NONE}
  /\ grouped \in Seq(Interval) /\ intervals \in Seq(Interval)
  /\ Len(intervals) <= Len(rows)

\* Reference: for each machine, the maximal sets of stop times in which
\* every point but the last has a successor at most MaxGap later, as
\* [start, end] intervals, ordered by machine and then by start.
StopTimes(df, m) ==
  LET st == FindStops(df) IN {st[i].t : i \in {j \in DOMAIN st : st[j].machine = m}}

IsRun(T, s, e) ==
  /\ s \in T /\ e \in T /\ s <= e
  /\ \A x \in T \cap s..(e - 1) : \E y \in T : x < y /\ y <= x + MaxGap
  /\ ~\E p \in T : p < s /\ s - p <= MaxGap
  /\ ~\E p \in T : p > e /\ p - e <= MaxGap

Runs(df, m) ==
  {Close(m, s, e) : s, e \in 0..MaxTime} \cap
    {iv \in Interval : IsRun(StopTimes(df, m), iv.start, iv.end)}

Rank(m) == CHOOSE i \in DOMAIN MachineOrder : MachineOrder[i] = m

Before(a, b) ==
  Rank(a.machine) < Rank(b.machine)
  \/ (a.machine = b.machine /\ a.start < b.start)

Reference(df) == SetToSortSeq(UNION {Runs(df, m) : m \in Machines}, Before)

\* group_stops returns, for each day file, exactly the maximal stop runs of
\* every machine in groupby order, whatever the order of the rows and
\* however the gaps fall on the max_gap_seconds boundary.
GroupsAreMaximalRuns ==
  (pc = "machine" /\ todo = <<>>) => grouped = Reference(FileRows(file))

\* main() runs group_stops per day file, so a stop that goes on across
\* midnight, or across the first recorder's flush-time split of the files,
\* is cut in two.  The cut only splits: every interval main() reports lies
\* inside one stop of the whole log, and the per-machine sum of durations
\* that corrolation.py pivots never exceeds the stop time the whole log
\* holds (it is less by each gap the cut hides).
SplitOnlyUndercounts ==
  pc = "done" =>
    \A m \in Machines :
      LET mine == {i \in DOMAIN intervals : intervals[i].machine = m} IN
      /\ \A i \in mine : \E r \in Runs(rows, m) :
           r.start <= intervals[i].start /\ intervals[i].end <= r.end
      /\ MapThenSumSet(LAMBDA i : intervals[i].duration, mine)
           <= MapThenSumSet(LAMBDA r : r.duration, Runs(rows, m))
=============================================================================
