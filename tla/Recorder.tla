------------------------------ MODULE Recorder ------------------------------
(***************************************************************************)
(* The telemetry recorder of src/record data/standalone-recorder_v2.py.    *)
(*                                                                         *)
(* Three threads share one process:                                        *)
(*   "fetch"  fetch_loop: polls every source in SOURCES order, dedups on   *)
(*            Header/@lastSequence, appends accepted samples to buffer     *)
(*            under buffer_lock, then updates last_sequence and backoff;   *)
(*   "flush"  flush_loop: sleeps FLUSH_INTERVAL, then flush_buffer_to_disk;*)
(*   "main"   run(): waits for stop_event, then calls flush_buffer_to_disk *)
(*            once more and returns, which ends the process (both worker   *)
(*            threads are daemons and are not joined).                    *)
(* flush_buffer_to_disk is run by "flush" and by "main", so its steps are  *)
(* parameterised by the calling thread.  The environment advances the      *)
(* controllers' sequence numbers, delivers SIGINT/SIGTERM, crashes and     *)
(* restarts the process.                                                  *)
(*                                                                         *)
(* flush_buffer_to_disk drains with `to_write, buffer[:] = buffer, []`.    *)
(* The right side is evaluated first, so to_write is bound to the buffer   *)
(* list itself, which `buffer[:] = []` then empties: to_write is always    *)
(* [], no entry is written, `written` stays 0 and state_save is never      *)
(* called.  The model keeps only what the code does: a drain discards the  *)
(* buffered samples, no log line is ever appended, and no STATE_FILE is    *)
(* ever created, so state_load at a restart finds none.                    *)
(*                                                                         *)
(* A sample is abstracted to its identity (a ghost arrival number), its    *)
(* machine and its sequence field; field extraction is not modelled here.  *)
(* Time is abstracted away: every sleep is a point where other threads     *)
(* run.                                                                    *)
(***************************************************************************)
EXTENDS Naturals, Integers, Sequences, FiniteSets, SequencesExt

CONSTANTS
  SourceOrder,     \* SOURCES, in dict iteration order (a sequence of names)
  NONE,            \* an absent dict key / a snapshot without lastSequence
  MaxSeq,          \* largest lastSequence a controller reaches in the model
  MaxBuffer,       \* MAX_BUFFER_SIZE
  BackoffInitial,  \* BACKOFF_INITIAL, in units of 0.5 s
  BackoffMax,      \* BACKOFF_MAX, in the same units
  MaxSamples,      \* bound: samples accepted in one behaviour
  MaxCrashes,      \* bound: process crashes
  MaxRestarts,     \* bound: process restarts (after a crash or an exit)
  MaxSignals       \* bound: termination signals delivered

Sources == ToSet(SourceOrder)

ASSUME
  /\ SourceOrder \in Seq(Sources) /\ Len(SourceOrder) > 0
  /\ NONE \notin Int
  /\ MaxSeq \in Nat /\ MaxBuffer \in Nat \ {0} /\ MaxSamples \in Nat
  /\ BackoffInitial \in Nat \ {0} /\ BackoffMax >= BackoffInitial
  /\ {MaxCrashes, MaxRestarts, MaxSignals} \subseteq Nat

\* Threads that call flush_buffer_to_disk.
Flushers == {"flush", "main"}

\* Values of last_sequence[name] and of a sample's "sequence" field; -1 is
\* the placeholder a heartbeat gets when the source has no entry yet.
SeqVal == -1..MaxSeq

Sample == [id : 1..MaxSamples, machine : Sources, seq : SeqVal]

VARIABLES
  srcSeq,     \* each controller's current Header/@lastSequence
  lastSeq,    \* last_sequence (NONE: key absent)
  backoff,    \* per_source_backoff
  buffer,     \* buffer, guarded by buffer_lock
  stop,       \* stop_event
  up,         \* the process is running
  pc,         \* program counter of each thread
  idx,        \* fetch_loop: position in SOURCES of the current source
  pending,    \* fetch_loop: the accepted sample (`parsed`) being recorded
  nextId,     \* history: arrival number of the next accepted sample
  evicted,    \* history: samples dropped by the overflow valve
  discarded,  \* history: samples emptied out of the buffer by a drain
  crashLost,  \* history: samples in memory when the process crashed
  killed,     \* history: samples buffered when the process exited
  crashes, restarts, signals

memVars  == <<lastSeq, backoff, buffer, stop, pc, idx, pending>>
histVars == <<nextId, evicted, discarded, crashLost, killed, crashes, restarts,
              signals>>
vars == <<srcSeq, up, memVars, histVars>>

\* Samples held in the process's memory.
Buffered == ToSet(buffer)

InitPc == [fetch |-> "top", flush |-> "top", main |-> "run"]

\* The in-memory state of a freshly started process (module globals).
NoLastSeq == [s \in Sources |-> NONE]
InitialBackoff == [s \in Sources |-> BackoffInitial]

\* The process loses its memory; last_sequence is (re)set separately.
ResetMemory ==
  /\ backoff' = InitialBackoff
  /\ buffer' = <<>>
  /\ stop' = FALSE
  /\ pc' = InitPc
  /\ idx' = 1
  /\ pending' = NONE

Init ==
  /\ srcSeq = [s \in Sources |-> 0]
  /\ lastSeq = NoLastSeq
  /\ up = TRUE
  /\ backoff = InitialBackoff /\ buffer = <<>> /\ stop = FALSE /\ pc = InitPc
  /\ idx = 1 /\ pending = NONE
  /\ nextId = 1
  /\ evicted = {} /\ discarded = {} /\ crashLost = {} /\ killed = {}
  /\ crashes = 0 /\ restarts = 0 /\ signals = 0
-----------------------------------------------------------------------------
(***************************************************************************)
(* Environment: the controllers and the operating system.                  *)
(***************************************************************************)

\* A controller produces new data: its lastSequence advances.
Advance(s) ==
  /\ srcSeq[s] < MaxSeq
  /\ srcSeq' = [srcSeq EXCEPT ![s] = @ + 1]
  /\ UNCHANGED <<up, memVars, histVars>>

\* SIGINT/SIGTERM: request_stop sets stop_event if it is not set yet.
RequestStop ==
  /\ up /\ ~stop /\ signals < MaxSignals
  /\ stop' = TRUE
  /\ signals' = signals + 1
  /\ UNCHANGED <<srcSeq, up, lastSeq, backoff, buffer, pc, idx, pending,
                 nextId, evicted, discarded, crashLost, killed, crashes,
                 restarts>>

\* The process dies at an arbitrary point; its memory is lost.
Crash ==
  /\ up /\ crashes < MaxCrashes
  /\ up' = FALSE
  /\ crashes' = crashes + 1
  /\ crashLost' = crashLost \cup Buffered
                    \cup (IF pending = NONE THEN {} ELSE {pending})
  /\ ResetMemory /\ lastSeq' = NoLastSeq
  /\ UNCHANGED <<srcSeq, nextId, evicted, discarded, killed, restarts,
                 signals>>

\* run() after a restart: state_load finds no STATE_FILE (state_save is
\* never called) and returns, leaving last_sequence empty.
Restart ==
  /\ ~up /\ restarts < MaxRestarts
  /\ up' = TRUE
  /\ restarts' = restarts + 1
  /\ ResetMemory /\ lastSeq' = NoLastSeq
  /\ UNCHANGED <<srcSeq, nextId, evicted, discarded, crashLost, killed,
                 crashes, signals>>


-----------------------------------------------------------------------------
(***************************************************************************)
(* fetch_loop                                                              *)
(***************************************************************************)

Current == SourceOrder[idx]

\* Leave the body of `for name, url in SOURCES.items()`: go on with the next
\* source, or end the cycle (the tick sleep) and re-test stop_event.
NextSource ==
  /\ idx' = IF idx < Len(SourceOrder) THEN idx + 1 ELSE 1
  /\ pc' = [pc EXCEPT !.fetch = IF idx < Len(SourceOrder) THEN "src" ELSE "top"]

\* `while not stop_event.is_set()`: start a cycle, or leave the loop.
FetchLoop ==
  /\ up /\ pc.fetch = "top"
  /\ pc' = [pc EXCEPT !.fetch = IF stop THEN "exit" ELSE "src"]
  /\ UNCHANGED <<srcSeq, up, lastSeq, backoff, buffer, stop,
                 idx, pending, histVars>>

\* `if stop_event.is_set(): break` at the head of the per-source body.
FetchBreak ==
  /\ up /\ pc.fetch = "src" /\ stop
  /\ pc' = [pc EXCEPT !.fetch = "top"]
  /\ idx' = 1
  /\ UNCHANGED <<srcSeq, up, lastSeq, backoff, buffer, stop,
                 pending, histVars>>

\* Variant: the doubling without the min(..., BACKOFF_MAX) cap.
FetchErrorUncapped ==
  /\ up /\ pc.fetch = "src" /\ ~stop
  /\ backoff' = [backoff EXCEPT ![Current] = @ * 2]
  /\ NextSource
  /\ UNCHANGED <<srcSeq, up, lastSeq, buffer, stop, pending,
                 histVars>>

\* The request raises (connection error, timeout, non-2xx): double the
\* source's backoff up to BACKOFF_MAX and sleep that long, in this loop.
FetchError ==
  /\ up /\ pc.fetch = "src" /\ ~stop
  /\ backoff' = [backoff EXCEPT ![Current] = Min({@ * 2, BackoffMax})]
  /\ NextSource
  /\ UNCHANGED <<srcSeq, up, lastSeq, buffer, stop, pending,
                 histVars>>

\* `if not body: continue`.
FetchEmpty ==
  /\ up /\ pc.fetch = "src" /\ ~stop
  /\ NextSource
  /\ UNCHANGED <<srcSeq, up, lastSeq, backoff, buffer, stop,
                 pending, histVars>>

\* What extract_mtconnect_values yields for `sequence`: the controller's
\* lastSequence, or nothing (no attribute, or a body that does not parse,
\* for which the parser returns {}).
ParsedSeqs(s) == {srcSeq[s], NONE}

\* `seq is None or seq != last_sequence.get(name)`.
IsNew(s, seq) == seq = NONE \/ seq /= lastSeq[s]

\* The heartbeat placeholder: last_sequence.get(name, -1).
Heartbeat(s) == IF lastSeq[s] = NONE THEN -1 ELSE lastSeq[s]

\* A parsed snapshot that is not new: nothing is recorded.
FetchDuplicate ==
  /\ up /\ pc.fetch = "src" /\ ~stop
  /\ \E seq \in ParsedSeqs(Current) : ~IsNew(Current, seq)
  /\ NextSource
  /\ UNCHANGED <<srcSeq, up, lastSeq, backoff, buffer, stop,
                 pending, histVars>>

\* A parsed snapshot that is new (or a heartbeat): stamp it as `parsed`.
FetchAccept ==
  /\ up /\ pc.fetch = "src" /\ ~stop
  /\ nextId <= MaxSamples
  /\ \E seq \in ParsedSeqs(Current) :
       /\ IsNew(Current, seq)
       /\ pending' = [id |-> nextId, machine |-> Current,
                      seq |-> IF seq = NONE THEN Heartbeat(Current) ELSE seq]
  /\ nextId' = nextId + 1
  /\ pc' = [pc EXCEPT !.fetch = "append"]
  /\ UNCHANGED <<srcSeq, up, lastSeq, backoff, buffer, stop,
                 idx, evicted, discarded, crashLost, killed,
                 crashes, restarts, signals>>

\* `len(buffer) // 10 or 1`.
DropCount(n) == IF n \div 10 = 0 THEN 1 ELSE n \div 10

\* Variant: the overflow test as `len(buffer) > MAX_BUFFER_SIZE`.
FetchAppendGt ==
  /\ up /\ pc.fetch = "append"
  /\ LET full == Len(buffer) > MaxBuffer
         drop == IF full THEN DropCount(Len(buffer)) ELSE 0
     IN /\ buffer' = Append(SubSeq(buffer, drop + 1, Len(buffer)), pending)
        /\ evicted' = evicted \cup ToSet(SubSeq(buffer, 1, drop))
  /\ pc' = [pc EXCEPT !.fetch = "update"]
  /\ UNCHANGED <<srcSeq, up, lastSeq, backoff, stop, idx,
                 pending, nextId, discarded, crashLost, killed,
                 crashes, restarts, signals>>

\* Variant: `del buffer[-drop:]`, evicting the newest entries.
FetchAppendDropNewest ==
  /\ up /\ pc.fetch = "append"
  /\ LET n == Len(buffer)
         drop == IF n >= MaxBuffer THEN DropCount(n) ELSE 0
     IN /\ buffer' = Append(SubSeq(buffer, 1, n - drop), pending)
        /\ evicted' = evicted \cup ToSet(SubSeq(buffer, n - drop + 1, n))
  /\ pc' = [pc EXCEPT !.fetch = "update"]
  /\ UNCHANGED <<srcSeq, up, lastSeq, backoff, stop, idx,
                 pending, nextId, discarded, crashLost, killed,
                 crashes, restarts, signals>>

\* Under buffer_lock: on a full buffer delete the oldest DropCount entries,
\* then append.
FetchAppend ==
  /\ up /\ pc.fetch = "append"
  /\ LET full == Len(buffer) >= MaxBuffer
         drop == IF full THEN DropCount(Len(buffer)) ELSE 0
     IN /\ buffer' = Append(SubSeq(buffer, drop + 1, Len(buffer)), pending)
        /\ evicted' = evicted \cup ToSet(SubSeq(buffer, 1, drop))
  /\ pc' = [pc EXCEPT !.fetch = "update"]
  /\ UNCHANGED <<srcSeq, up, lastSeq, backoff, stop, idx,
                 pending, nextId, discarded, crashLost, killed,
                 crashes, restarts, signals>>

\* After the lock: last_sequence[name] = parsed["sequence"]; reset backoff.
FetchUpdate ==
  /\ up /\ pc.fetch = "update"
  /\ lastSeq' = [lastSeq EXCEPT ![pending.machine] = pending.seq]
  /\ backoff' = [backoff EXCEPT ![pending.machine] = BackoffInitial]
  /\ pending' = NONE
  /\ NextSource
  /\ UNCHANGED <<srcSeq, up, buffer, stop, histVars>>
-----------------------------------------------------------------------------
(***************************************************************************)
(* flush_buffer_to_disk, run by thread t \in Flushers                      *)
(***************************************************************************)

\* Where flush_buffer_to_disk returns to in its caller.
ReturnTo(t) == IF t = "flush" THEN "top" ELSE "done"

\* Under buffer_lock: `if not buffer: return`.
DrainEmpty(t) ==
  /\ up /\ pc[t] = "drain" /\ buffer = <<>>
  /\ pc' = [pc EXCEPT ![t] = ReturnTo(t)]
  /\ UNCHANGED <<srcSeq, up, lastSeq, backoff, buffer, stop, idx, pending,
                 histVars>>

\* Under buffer_lock: `to_write, buffer[:] = buffer, []` binds to_write to
\* the buffer list and empties it.  The loop over to_write then has
\* nothing to write, written is 0, and `if written: state_save()` is
\* skipped: the call returns with the samples gone.
Drain(t) ==
  /\ up /\ pc[t] = "drain" /\ buffer /= <<>>
  /\ discarded' = discarded \cup ToSet(buffer)
  /\ buffer' = <<>>
  /\ pc' = [pc EXCEPT ![t] = ReturnTo(t)]
  /\ UNCHANGED <<srcSeq, up, lastSeq, backoff, stop, idx, pending, nextId,
                 evicted, crashLost, killed, crashes, restarts, signals>>

-----------------------------------------------------------------------------
(***************************************************************************)
(* flush_loop and run()                                                    *)
(***************************************************************************)

\* `while not stop_event.is_set(): time.sleep(FLUSH_INTERVAL); flush...`
FlushLoop ==
  /\ up /\ pc.flush = "top"
  /\ pc' = [pc EXCEPT !.flush = IF stop THEN "exit" ELSE "drain"]
  /\ UNCHANGED <<srcSeq, up, lastSeq, backoff, buffer, stop,
                 idx, pending, histVars>>

\* run(): `while not stop_event.is_set(): sleep`, then the final flush.
MainWait ==
  /\ up /\ pc.main = "run" /\ stop
  /\ pc' = [pc EXCEPT !.main = "drain"]
  /\ UNCHANGED <<srcSeq, up, lastSeq, backoff, buffer, stop,
                 idx, pending, histVars>>

\* run() returns: the interpreter exits and the daemon threads die with
\* whatever they hold.
Exit ==
  /\ up /\ pc.main = "done"
  /\ up' = FALSE
  /\ killed' = killed \cup Buffered
  /\ ResetMemory /\ lastSeq' = NoLastSeq
  /\ UNCHANGED <<srcSeq, nextId, evicted, discarded, crashLost,
                 crashes, restarts, signals>>

\* The recorder is down for good: no restart is left.
Terminated ==
  /\ ~up /\ restarts = MaxRestarts
  /\ UNCHANGED vars

FetchThread ==
  \/ FetchLoop \/ FetchBreak \/ FetchError \/ FetchEmpty \/ FetchDuplicate
  \/ FetchAccept \/ FetchAppend \/ FetchUpdate

FlusherThread(t) == DrainEmpty(t) \/ Drain(t)

FlushThread == FlushLoop \/ FlusherThread("flush")

MainThread == MainWait \/ FlusherThread("main") \/ Exit

Environment ==
  (\E s \in Sources : Advance(s)) \/ RequestStop \/ Crash \/ Restart

Next == FetchThread \/ FlushThread \/ MainThread \/ Environment \/ Terminated

Spec == Init /\ [][Next]_vars
-----------------------------------------------------------------------------
(***************************************************************************)
(* Properties                                                              *)
(***************************************************************************)

TypeOK ==
  /\ srcSeq \in [Sources -> 0..MaxSeq]
  /\ lastSeq \in [Sources -> SeqVal \cup {NONE}]
  /\ backoff \in [Sources -> BackoffInitial..BackoffMax]
  /\ buffer \in Seq(Sample)
  /\ pending \in Sample \cup {NONE}
  /\ pc \in [fetch : {"top", "src", "append", "update", "exit"},
             flush : {"top", "drain", "exit"},
             main  : {"run", "drain", "done"}]
  /\ idx \in 1..Len(SourceOrder)
  /\ {stop, up} \subseteq BOOLEAN
  /\ nextId \in 1..MaxSamples + 1
  /\ evicted \cup discarded \cup crashLost \cup killed \subseteq Sample

\* The overflow valve in fetch_loop (`>= MAX_BUFFER_SIZE`, then delete
\* `len // 10 or 1` entries) keeps the shared buffer within
\* MAX_BUFFER_SIZE, whatever the flusher is doing meanwhile.
BufferBound == Len(buffer) <= MaxBuffer

\* Overflow drops the oldest samples: every sample the valve evicted
\* arrived before every sample still waiting in the buffer.
EvictsOldest == \A e \in evicted : \A b \in ToSet(buffer) : e.id < b.id

\* Clean shutdown (run()'s final flush) loses no buffered sample: when the
\* process exits, nothing accepted is still in the buffer.
ShutdownKeepsBuffered == killed = {}

-----------------------------------------------------------------------------
(***************************************************************************)
(* Refinement of RecorderAbstract                                          *)
(***************************************************************************)

\* The samples the process holds: the buffer, and the fetch thread's
\* `parsed` until it is appended.
InFlight ==
  Buffered \cup (IF pc.fetch = "append" THEN {pending} ELSE {})

\* A machine's unresolved samples, oldest first.
QueueOf(s) ==
  SetToSortSeq({e \in InFlight : e.machine = s}, LAMBDA a, b : a.id < b.id)

\* No log line is ever appended: the log of every machine stays empty.
Abs == INSTANCE RecorderAbstract WITH
         queue   <- [s \in Sources |-> QueueOf(s)],
         alog    <- [s \in Sources |-> <<>>],
         dropped <- evicted,
         lost    <- crashLost,
         count   <- nextId,
         SeqValues <- SeqVal

\* Spec 2 and 4.4: the recorder implements its promise that each accepted
\* sample reaches its machine's log once and in arrival order, or is
\* dropped by the overflow valve or a failed write, or is lost with a
\* crash.  flush_buffer_to_disk's drain is where this is decided.
Refinement == Abs!Spec
=============================================================================
