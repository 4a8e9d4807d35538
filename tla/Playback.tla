------------------------------ MODULE Playback ------------------------------
(***************************************************************************)
(* The Streamlit playback tool src/data_simulator.py.                      *)
(*                                                                         *)
(* Streamlit runs the whole script again on every widget interaction and   *)
(* on every st.rerun(); only st.session_state (index, playing, last_run)   *)
(* and the widgets' values survive between runs.  One run of the script is *)
(* one atomic action, caused either by the user (Play/Pause, Reset, the    *)
(* machine select box) or by the st.rerun() at the end of the previous     *)
(* run.  An exception ends the run where it is raised and Streamlit shows  *)
(* it; session state written before it stays, and no rerun is scheduled.   *)
(* Wall-clock time is abstracted: `now - last_run >= speed` is a           *)
(* nondeterministic outcome, and a run where it is false changes nothing.  *)
(***************************************************************************)
EXTENDS Naturals

CONSTANTS
  Machines,    \* df["machine"].unique()
  FirstMachine,\* the select box's default choice
  RowCount,    \* rows of each machine's frame (at least one: st.stop() otherwise)
  MaxInputs    \* bound: user interactions

ASSUME
  /\ FirstMachine \in Machines
  /\ RowCount \in [Machines -> Nat \ {0}]

VARIABLES
  index,       \* st.session_state.index
  playing,     \* st.session_state.playing
  selected,    \* the select box's value
  rerun,       \* the last run called st.rerun()
  failed,      \* the last run raised; the page shows the exception
  inputs       \* user interactions so far

vars == <<index, playing, selected, rerun, failed, inputs>>

MaxIndex(m) == RowCount[m] - 1

\* The largest index any machine's frame has.
LargestIndex == CHOOSE n \in {MaxIndex(m) : m \in Machines} :
                  \A m \in Machines : MaxIndex(m) <= n

\* The first run: the session_state defaults.
Init ==
  /\ index = 0 /\ playing = FALSE
  /\ selected = FirstMachine
  /\ rerun = FALSE /\ failed = FALSE
  /\ inputs = 0

\* Variant: the end of the frame stops playback without clamping index.
FinishRunNoClamp(i, p, m) ==
  IF i > MaxIndex(m)
  THEN /\ failed' = TRUE /\ rerun' = FALSE
       /\ index' = i /\ playing' = p
  ELSE /\ failed' = FALSE
       /\ rerun' = p
       /\ IF p
            THEN \/ /\ index' = i /\ playing' = p
                 \/ /\ index' = i + 1
                    /\ playing' = (i + 1 < MaxIndex(m))
            ELSE /\ index' = i /\ playing' = p

\* Variant: the end of the frame clamps index but leaves playing set.
FinishRunKeepsPlaying(i, p, m) ==
  IF i > MaxIndex(m)
  THEN /\ failed' = TRUE /\ rerun' = FALSE
       /\ index' = i /\ playing' = p
  ELSE /\ failed' = FALSE
       /\ rerun' = p
       /\ IF p
            THEN \/ /\ index' = i /\ playing' = p
                 \/ /\ index' = IF i + 1 >= MaxIndex(m) THEN MaxIndex(m) ELSE i + 1
                    /\ playing' = p
            ELSE /\ index' = i /\ playing' = p

\* The end of a run from line 69 on, given the session state the earlier
\* lines left: st.slider(..., value=index) and df.iloc[index] raise when
\* index is past the end of the selected machine's frame; otherwise, when
\* playing and the step time has elapsed, advance, clamp and stop at the
\* end; then st.rerun() if playing.
FinishRun(i, p, m) ==
  IF i > MaxIndex(m)
  THEN /\ failed' = TRUE /\ rerun' = FALSE
       /\ index' = i /\ playing' = p
  ELSE /\ failed' = FALSE
       /\ rerun' = p
       /\ IF p
            THEN \/ /\ index' = i /\ playing' = p
                 \/ /\ index' = IF i + 1 >= MaxIndex(m) THEN MaxIndex(m) ELSE i + 1
                    /\ playing' = (i + 1 < MaxIndex(m))
            ELSE /\ index' = i /\ playing' = p

\* Play / Pause clicked: the button returns True in the new run, which
\* flips playing at line 62 before the slider is built.
TogglePlay ==
  /\ inputs < MaxInputs
  /\ inputs' = inputs + 1
  /\ FinishRun(index, ~playing, selected)
  /\ UNCHANGED selected

\* Reset clicked: its on_click callback sets index 0 and playing False
\* before the script runs.
Reset ==
  /\ inputs < MaxInputs
  /\ inputs' = inputs + 1
  /\ FinishRun(0, FALSE, selected)
  /\ UNCHANGED selected

\* Another machine chosen: df is filtered to it; session state is kept.
SelectMachine ==
  /\ inputs < MaxInputs
  /\ \E m \in Machines \ {selected} :
       /\ selected' = m
       /\ FinishRun(index, playing, m)
  /\ inputs' = inputs + 1

\* The rerun requested by st.rerun() at the end of a playing run.
AutoRerun ==
  /\ rerun
  /\ FinishRun(index, playing, selected)
  /\ UNCHANGED <<selected, inputs>>

Next == TogglePlay \/ Reset \/ SelectMachine \/ AutoRerun

Spec == Init /\ [][Next]_vars

\* Streamlit performs a rerun the script requests; the user is not fair.
FairSpec == Spec /\ WF_vars(AutoRerun)

-----------------------------------------------------------------------------
(* Properties *)

TypeOK ==
  /\ index \in 0..LargestIndex /\ playing \in BOOLEAN /\ selected \in Machines
  /\ rerun \in BOOLEAN /\ failed \in BOOLEAN /\ inputs \in 0..MaxInputs

\* Every run of the script reaches the playback step: the session's index
\* stays within the selected machine's frame, as st.slider's value and
\* df.iloc require.
IndexInRange == index <= MaxIndex(selected)

\* Playback started with Play ends: once the user stops clicking, the
\* rerun loop of lines 88-96 reaches the last row and clears playing.
PlaybackEnds == <>[]~playing
=============================================================================
