-------------------------- MODULE RecorderAbstract --------------------------
(***************************************************************************)
(* What the recorder of src/record data/standalone-recorder_v2.py promises *)
(* about the samples it accepts, with threads, locks and files abstracted  *)
(* away.  An accepted sample joins its machine's queue; it then either     *)
(* reaches the machine's log, in the order it was accepted and exactly     *)
(* once, or it is dropped on purpose (buffer overflow, a failed write), or *)
(* it is lost because the process crashed while holding it.  A clean      *)
(* shutdown is not a way to lose a sample.                                 *)
(***************************************************************************)
EXTENDS Naturals, Sequences, SequencesExt

CONSTANTS
  Sources,     \* the machines
  MaxSamples,  \* bound: samples accepted in one behaviour
  SeqValues    \* values a sample's sequence field can take

VARIABLES
  queue,    \* per machine: accepted samples not yet resolved, oldest first
  alog,     \* per machine: the log file's entries
  dropped,  \* samples discarded on purpose
  lost,     \* samples lost in a crash
  count     \* arrival number of the next accepted sample

avars == <<queue, alog, dropped, lost, count>>

Entry == [id : 1..MaxSamples, machine : Sources, seq : SeqValues]

Queued == UNION {ToSet(queue[s]) : s \in Sources}

NoEntries == [s \in Sources |-> <<>>]

Init ==
  /\ queue = NoEntries /\ alog = NoEntries
  /\ dropped = {} /\ lost = {}
  /\ count = 1

\* A snapshot of machine s is accepted.
Accept(s, v) ==
  /\ count <= MaxSamples
  /\ queue' = [queue EXCEPT ![s] = Append(@, [id |-> count, machine |-> s, seq |-> v])]
  /\ count' = count + 1
  /\ UNCHANGED <<alog, dropped, lost>>

\* The oldest unresolved sample of machine s reaches its log.
Write(s) ==
  /\ queue[s] /= <<>>
  /\ alog' = [alog EXCEPT ![s] = Append(@, Head(queue[s]))]
  /\ queue' = [queue EXCEPT ![s] = Tail(@)]
  /\ UNCHANGED <<dropped, lost, count>>

\* Some unresolved samples are discarded on purpose.
Drop(D) ==
  /\ D /= {}
  /\ queue' = [s \in Sources |-> SelectSeq(queue[s], LAMBDA e : e \notin D)]
  /\ dropped' = dropped \cup D
  /\ UNCHANGED <<alog, lost, count>>

\* The process crashes: every unresolved sample is lost.
CrashLose ==
  /\ Queued /= {}
  /\ lost' = lost \cup Queued
  /\ queue' = NoEntries
  /\ UNCHANGED <<alog, dropped, count>>

Next ==
  \/ \E s \in Sources, v \in SeqValues : Accept(s, v)
  \/ \E s \in Sources : Write(s)
  \/ \E D \in SUBSET Queued : Drop(D)
  \/ CrashLose

Spec == Init /\ [][Next]_avars

\* A machine's queue does not stay unresolved for ever while it can be
\* written.
FairSpec == Spec /\ \A s \in Sources : WF_avars(Write(s))
=============================================================================
