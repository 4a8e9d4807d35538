----------------------------- MODULE RecorderV1 -----------------------------
(***************************************************************************)
(* The first recorder, src/standalone_recorder.py.                         *)
(*                                                                         *)
(* The same three threads as in Recorder, but the shared `buffer` has no   *)
(* lock.  Python runs each bytecode atomically, so the steps are:          *)
(*   fetch_loop  `buffer.append(parsed)` loads the global list, then calls *)
(*               append on it: two steps, another thread may run between;  *)
(*   flush       `for entry in buffer` walks the live list by index, so it *)
(*               also writes entries appended during the walk; then, after *)
(*               the walk, `buffer = []` rebinds the global to a new list. *)
(* A fetch thread that loaded the old list before the rebinding appends to *)
(* a list nobody reads any more: `stale` records that it holds that list.  *)
(* run() sets stop_event on KeyboardInterrupt, joins both threads, and     *)
(* only then flushes.  No state file, no backoff, no buffer bound, and no  *)
(* heartbeat: a snapshot without lastSequence is not recorded.  One log    *)
(* file for all machines.                                                  *)
(***************************************************************************)
EXTENDS Naturals, Sequences, SequencesExt

CONSTANTS
  SourceOrder,   \* SOURCES, in dict iteration order
  NONE,          \* an absent dict key / a snapshot without lastSequence
  MaxSeq,        \* largest lastSequence a controller reaches in the model
  MaxSamples     \* bound: samples accepted in one behaviour

Sources == ToSet(SourceOrder)

ASSUME
  /\ SourceOrder \in Seq(Sources) /\ Len(SourceOrder) > 0
  /\ NONE \notin Nat /\ MaxSeq \in Nat /\ MaxSamples \in Nat

Flushers == {"flush", "main"}

Sample == [id : 1..MaxSamples, machine : Sources, seq : 0..MaxSeq]

VARIABLES
  srcSeq,    \* each controller's current Header/@lastSequence
  lastSeq,   \* last_sequence (NONE: key absent)
  buffer,    \* the list the global `buffer` is bound to
  log,       \* DATA_DIR/<day>.jsonl
  stop,      \* stop_event
  up,        \* the process is running
  pc,        \* program counter of each thread
  idx,       \* fetch_loop: position in SOURCES
  pending,   \* fetch_loop: `parsed`, accepted and being appended
  stale,     \* fetch_loop: the list it loaded is no longer `buffer`
  next,      \* flush_buffer_to_disk: index of the walk over the list
  nextId     \* history: arrival number of the next accepted sample

vars == <<srcSeq, lastSeq, buffer, log, stop, up, pc, idx, pending, stale,
          next, nextId>>

Ids(s) == {s[i].id : i \in DOMAIN s}

Init ==
  /\ srcSeq = [s \in Sources |-> 0]
  /\ lastSeq = [s \in Sources |-> NONE]
  /\ buffer = <<>> /\ log = <<>>
  /\ stop = FALSE /\ up = TRUE
  /\ pc = [fetch |-> "top", flush |-> "top", main |-> "run"]
  /\ idx = 1 /\ pending = NONE /\ stale = FALSE
  /\ next = [t \in Flushers |-> 1]
  /\ nextId = 1

\* A controller produces new data.
Advance(s) ==
  /\ srcSeq[s] < MaxSeq
  /\ srcSeq' = [srcSeq EXCEPT ![s] = @ + 1]
  /\ UNCHANGED <<lastSeq, buffer, log, stop, up, pc, idx, pending, stale,
                 next, nextId>>

-----------------------------------------------------------------------------
(* fetch_loop *)

Current == SourceOrder[idx]

\* What extract_mtconnect_values yields for `sequence`: the controller's
\* lastSequence, or nothing (no attribute, or a body that does not parse).
ParsedSeqs(s) == {srcSeq[s], NONE}

NextSource ==
  /\ idx' = IF idx < Len(SourceOrder) THEN idx + 1 ELSE 1
  /\ pc' = [pc EXCEPT !.fetch = IF idx < Len(SourceOrder) THEN "src" ELSE "top"]

\* `while not stop_event.is_set()`.
FetchLoop ==
  /\ up /\ pc.fetch = "top"
  /\ pc' = [pc EXCEPT !.fetch = IF stop THEN "exit" ELSE "src"]
  /\ UNCHANGED <<srcSeq, lastSeq, buffer, log, stop, up, idx, pending, stale,
                 next, nextId>>

\* Variant: `seq != last_sequence.get(name)` without the None test.
IsNewNoneAccepted(s, seq) == seq /= lastSeq[s]

\* `seq is not None and seq != last_sequence.get(name)`.
IsNew(s, seq) == seq /= NONE /\ seq /= lastSeq[s]

\* Nothing recorded: the request raised (the error is printed), the body
\* was empty, or the parsed snapshot has no new sequence.
FetchNoRecord ==
  /\ up /\ pc.fetch = "src"
  /\ \E seq \in ParsedSeqs(Current) : ~IsNew(Current, seq)
  /\ NextSource
  /\ UNCHANGED <<srcSeq, lastSeq, buffer, log, stop, up, pending, stale,
                 next, nextId>>

\* A new sequence: stamp `parsed`, and load the global `buffer` for append.
FetchAccept ==
  /\ up /\ pc.fetch = "src" /\ nextId <= MaxSamples
  /\ \E seq \in ParsedSeqs(Current) :
       /\ IsNew(Current, seq)
       /\ pending' = [id |-> nextId, machine |-> Current, seq |-> seq]
  /\ stale' = FALSE
  /\ nextId' = nextId + 1
  /\ pc' = [pc EXCEPT !.fetch = "append"]
  /\ UNCHANGED <<srcSeq, lastSeq, buffer, log, stop, up, idx, next>>

\* Variant: `buffer.insert(0, parsed)`.
FetchAppendFront ==
  /\ up /\ pc.fetch = "append"
  /\ buffer' = IF stale THEN buffer ELSE <<pending>> \o buffer
  /\ lastSeq' = [lastSeq EXCEPT ![pending.machine] = pending.seq]
  /\ pending' = NONE
  /\ NextSource
  /\ UNCHANGED <<srcSeq, log, stop, up, stale, next, nextId>>

\* The append call on the loaded list, then last_sequence[name] = seq.
FetchAppend ==
  /\ up /\ pc.fetch = "append"
  /\ buffer' = IF stale THEN buffer ELSE Append(buffer, pending)
  /\ lastSeq' = [lastSeq EXCEPT ![pending.machine] = pending.seq]
  /\ pending' = NONE
  /\ NextSource
  /\ UNCHANGED <<srcSeq, log, stop, up, stale, next, nextId>>

-----------------------------------------------------------------------------
(* flush_buffer_to_disk, run by the flush thread and, after the joins, by  *)
(* the main thread.                                                        *)

ReturnTo(t) == IF t = "flush" THEN "top" ELSE "done"

\* `if not buffer: return`.
FlushCheck(t) ==
  /\ up /\ pc[t] = "check"
  /\ pc' = [pc EXCEPT ![t] = IF buffer = <<>> THEN ReturnTo(t) ELSE "write"]
  /\ next' = [next EXCEPT ![t] = 1]
  /\ UNCHANGED <<srcSeq, lastSeq, buffer, log, stop, up, idx, pending, stale,
                 nextId>>

\* One iteration of `for entry in buffer`: write the entry at the walk's
\* index, or leave the loop when the index is past the list's end.
FlushWrite(t) ==
  /\ up /\ pc[t] = "write"
  /\ \/ /\ next[t] <= Len(buffer)
        /\ log' = Append(log, buffer[next[t]])
        /\ next' = [next EXCEPT ![t] = @ + 1]
        /\ UNCHANGED pc
     \/ /\ next[t] > Len(buffer)
        /\ pc' = [pc EXCEPT ![t] = "clear"]
        /\ UNCHANGED <<log, next>>
  /\ UNCHANGED <<srcSeq, lastSeq, buffer, stop, up, idx, pending, stale,
                 nextId>>

\* `buffer = []`: the global is rebound; a fetch thread holding the old
\* list now appends to an orphan.
FlushClear(t) ==
  /\ up /\ pc[t] = "clear"
  /\ buffer' = <<>>
  /\ stale' = (pc.fetch = "append")
  /\ pc' = [pc EXCEPT ![t] = ReturnTo(t)]
  /\ UNCHANGED <<srcSeq, lastSeq, log, stop, up, idx, pending, next, nextId>>

\* `while not stop_event.is_set(): time.sleep(FLUSH_INTERVAL); flush...`
FlushLoop ==
  /\ up /\ pc.flush = "top"
  /\ pc' = [pc EXCEPT !.flush = IF stop THEN "exit" ELSE "check"]
  /\ UNCHANGED <<srcSeq, lastSeq, buffer, log, stop, up, idx, pending, stale,
                 next, nextId>>

-----------------------------------------------------------------------------
(* run() *)

\* KeyboardInterrupt in the main thread's sleep: set stop_event.
Interrupt ==
  /\ up /\ pc.main = "run"
  /\ stop' = TRUE
  /\ pc' = [pc EXCEPT !.main = "join"]
  /\ UNCHANGED <<srcSeq, lastSeq, buffer, log, up, idx, pending, stale, next,
                 nextId>>

\* Variant: only the flush thread is joined.
JoinFlushOnly ==
  /\ up /\ pc.main = "join"
  /\ pc.flush = "exit"
  /\ pc' = [pc EXCEPT !.main = "check"]
  /\ UNCHANGED <<srcSeq, lastSeq, buffer, log, stop, up, idx, pending, stale,
                 next, nextId>>

\* fetch_thread.join(); flush_thread.join(); then the final flush.
JoinThreads ==
  /\ up /\ pc.main = "join"
  /\ pc.fetch = "exit" /\ pc.flush = "exit"
  /\ pc' = [pc EXCEPT !.main = "check"]
  /\ UNCHANGED <<srcSeq, lastSeq, buffer, log, stop, up, idx, pending, stale,
                 next, nextId>>

\* run() returns and the interpreter exits.
Exit ==
  /\ up /\ pc.main = "done"
  /\ up' = FALSE
  /\ UNCHANGED <<srcSeq, lastSeq, buffer, log, stop, pc, idx, pending, stale,
                 next, nextId>>

Terminated == ~up /\ UNCHANGED vars

Flush(t) == FlushCheck(t) \/ FlushWrite(t) \/ FlushClear(t)

Next ==
  \/ FetchLoop \/ FetchNoRecord \/ FetchAccept \/ FetchAppend
  \/ FlushLoop \/ Flush("flush")
  \/ Interrupt \/ JoinThreads \/ Flush("main") \/ Exit
  \/ (\E s \in Sources : Advance(s)) \/ Terminated

Spec == Init /\ [][Next]_vars

-----------------------------------------------------------------------------
(* Properties *)

TypeOK ==
  /\ srcSeq \in [Sources -> 0..MaxSeq]
  /\ lastSeq \in [Sources -> 0..MaxSeq \cup {NONE}]
  /\ buffer \in Seq(Sample) /\ log \in Seq(Sample)
  /\ pending \in Sample \cup {NONE}
  /\ {stop, up, stale} \subseteq BOOLEAN
  /\ next \in [Flushers -> Nat \ {0}]
  /\ nextId \in 1..MaxSamples + 1

\* No accepted sample disappears: each is still in the list `buffer`, in
\* the fetch thread's hands, or written to the log.
NoLostSample ==
  \A i \in 1..nextId - 1 :
    i \in Ids(buffer) \cup Ids(log)
          \cup (IF pending = NONE THEN {} ELSE {pending.id})

\* The log holds samples in arrival order, although flush walks a list the
\* fetch thread keeps appending to.
LogOrder ==
  \A i, j \in DOMAIN log : i < j => log[i].id < log[j].id

\* A clean shutdown leaves nothing buffered: run() joins both threads
\* before its final flush, so nothing is appended after it.
ExitLeavesNothingBuffered == ~up => buffer = <<>>
-----------------------------------------------------------------------------
(* The log as src/missing_per_day_by_machine.py reads it *)

Gaps == INSTANCE MissingSequence

\* The rows of DATA_DIR/<day>.jsonl.  A machine gets one sample per fetch
\* cycle, stamped with the cycle's start time, so within a machine the
\* timestamps are ordered like the arrival numbers.
LogRows == [i \in DOMAIN log |-> [machine |-> log[i].machine, t |-> log[i].id,
                                  seq |-> log[i].seq]]

LoggedSeqs(m) == {log[i].seq : i \in {j \in DOMAIN log : log[j].machine = m}}

\* Controller sequence numbers inside a machine's logged range that the
\* log does not hold: the samples the recorder missed or lost.
Unlogged(m) ==
  IF LoggedSeqs(m) = {} THEN {}
  ELSE (Min(LoggedSeqs(m))..Max(LoggedSeqs(m))) \ LoggedSeqs(m)

\* The per-machine analysis reports exactly what the recorder missed: for
\* every machine, missing_per_day_by_machine's count over the log that
\* fetch_loop's dedup and the lock-free flush produce equals the number of
\* sequence numbers absent from the machine's logged range, whatever the
\* interleaving of the machines' samples in the shared file.
MissingCountExact ==
  \A m \in Sources : Gaps!MissingOfMachine(LogRows, m) = Cardinality(Unlogged(m))
=============================================================================
