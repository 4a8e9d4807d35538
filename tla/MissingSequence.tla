-------------------------- MODULE MissingSequence --------------------------
(***************************************************************************)
(* The gap count of src/missing_per_day_by_machine.py, over the rows the   *)
(* script reads from the recorder's log.  A row is abstracted to its       *)
(* machine, its timestamp t (a number ordered like the timestamps) and its *)
(* sequence field.  The split by calendar day is not modelled: a machine's *)
(* counts summed over the days are its count over all rows.                *)
(***************************************************************************)
EXTENDS Integers, Sequences, SequencesExt

\* groupby("machine") after sort_values(["machine", "timestamp"]): the
\* machine's rows in timestamp order.
RowsOf(rows, m) ==
  SortSeq(SelectSeq(rows, LAMBDA r : r.machine = m), LAMBDA a, b : a.t < b.t)

\* `["sequence"].diff().fillna(1)` over rows in order: the first row's NaN
\* becomes 1.
SequenceGap(rows, i) == IF i = 1 THEN 1 ELSE rows[i].seq - rows[i - 1].seq

\* `sequence_gap.clip(lower=1) - 1`.
MissingCount(g) == IF g < 1 THEN 0 ELSE g - 1

\* Variant, as src/analyze_missing_sequence_number.py computes it: one
\* diff over all rows sorted by timestamp, across machines; each row's
\* count is charged to its machine.
MissingAcrossMachines(rows, m) ==
  LET all == SortSeq(rows, LAMBDA a, b : a.t < b.t) IN
  MapThenSumSet(LAMBDA i : MissingCount(SequenceGap(all, i)),
                {i \in DOMAIN all : all[i].machine = m})

\* The machine's missing_count summed over its rows (and days).
MissingOfMachine(rows, m) ==
  LET mrows == RowsOf(rows, m) IN
  MapThenSumSet(LAMBDA i : MissingCount(SequenceGap(mrows, i)), DOMAIN mrows)
=============================================================================
