--------------------------- MODULE RecorderClock ---------------------------
(***************************************************************************)
(* The timing of fetch_loop in src/record data/standalone-recorder_v2.py.  *)
(*                                                                         *)
(* Recorder abstracts time away; this module keeps the loop's clock and    *)
(* abstracts the data instead.  Time is a natural number of ticks of       *)
(* 0.1 s.  A request to a reachable source takes RequestTime and then the  *)
(* sample is or is not recorded (dedup); a request to an unreachable       *)
(* source raises after REQUEST_TIMEOUT, doubles the source's backoff and   *)
(* sleeps it, inside the loop over SOURCES.  At the end of a cycle the     *)
(* loop sleeps until next_tick, or resets next_tick when it is behind.     *)
(* Which sources are unreachable is fixed for the behaviour.               *)
(***************************************************************************)
EXTENDS Naturals, Sequences, SequencesExt

CONSTANTS
  SourceOrder,     \* SOURCES, in dict iteration order
  NONE,            \* no request to the source yet
  PollInterval,    \* POLL_INTERVAL, in ticks
  RequestTimeout,  \* REQUEST_TIMEOUT, in ticks
  RequestTime,     \* duration of a request that succeeds, in ticks
  BackoffInitial,  \* BACKOFF_INITIAL, in ticks
  BackoffMax,      \* BACKOFF_MAX, in ticks
  MaxTime          \* bound: no cycle starts after this time

Sources == ToSet(SourceOrder)

ASSUME
  /\ Len(SourceOrder) > 0 /\ NONE \notin Nat
  /\ {PollInterval, RequestTimeout, RequestTime, MaxTime} \subseteq Nat
  /\ BackoffInitial \in Nat \ {0} /\ BackoffMax >= BackoffInitial

VARIABLES
  now,        \* time.monotonic()
  nextTick,   \* next_tick
  pc,         \* "top", "src", "backoff" (in the error sleep), "tick"
  idx,        \* position in SOURCES of the current source
  backoff,    \* per_source_backoff
  down,       \* the unreachable sources (environment)
  lastPoll    \* history: when each source's last request started

vars == <<now, nextTick, pc, idx, backoff, down, lastPoll>>

Current == SourceOrder[idx]

Init ==
  /\ now = 0 /\ nextTick = 0
  /\ pc = "top" /\ idx = 1
  /\ backoff = [s \in Sources |-> BackoffInitial]
  /\ down \in SUBSET Sources
  /\ lastPoll = [s \in Sources |-> NONE]

\* Go on with the next source, or end the cycle.
NextSource ==
  /\ idx' = IF idx < Len(SourceOrder) THEN idx + 1 ELSE 1
  /\ pc' = IF idx < Len(SourceOrder) THEN "src" ELSE "tick"

\* `while not stop_event.is_set(): ts = now_iso_utc()`.
Loop ==
  /\ pc = "top" /\ now <= MaxTime
  /\ pc' = "src"
  /\ UNCHANGED <<now, nextTick, idx, backoff, down, lastPoll>>

\* session.get on a reachable source; a recorded sample resets the
\* source's backoff, an empty or duplicate one leaves it.
RequestOk ==
  /\ pc = "src" /\ Current \notin down
  /\ lastPoll' = [lastPoll EXCEPT ![Current] = now]
  /\ now' = now + RequestTime
  /\ \E recorded \in BOOLEAN :
       backoff' = [backoff EXCEPT ![Current] =
                     IF recorded THEN BackoffInitial ELSE @]
  /\ NextSource
  /\ UNCHANGED <<nextTick, down>>

\* session.get on an unreachable source raises after REQUEST_TIMEOUT; the
\* handler doubles the backoff up to BACKOFF_MAX.
RequestFail ==
  /\ pc = "src" /\ Current \in down
  /\ lastPoll' = [lastPoll EXCEPT ![Current] = now]
  /\ now' = now + RequestTimeout
  /\ backoff' = [backoff EXCEPT ![Current] = Min({@ * 2, BackoffMax})]
  /\ pc' = "backoff"
  /\ UNCHANGED <<nextTick, idx, down>>

\* time.sleep(per_source_backoff[name]), still inside the loop over SOURCES.
BackoffSleep ==
  /\ pc = "backoff"
  /\ now' = now + backoff[Current]
  /\ NextSource
  /\ UNCHANGED <<nextTick, backoff, down, lastPoll>>

\* next_tick += POLL_INTERVAL; sleep until it, or reset it when behind.
Tick ==
  /\ pc = "tick"
  /\ IF nextTick + PollInterval > now
       THEN /\ now' = nextTick + PollInterval
            /\ nextTick' = nextTick + PollInterval
       ELSE /\ nextTick' = now
            /\ UNCHANGED now
  /\ pc' = "top"
  /\ UNCHANGED <<idx, backoff, down, lastPoll>>

\* The bound on time is reached.
Done == pc = "top" /\ now > MaxTime /\ UNCHANGED vars

Next == Loop \/ RequestOk \/ RequestFail \/ BackoffSleep \/ Tick \/ Done

Spec == Init /\ [][Next]_vars

-----------------------------------------------------------------------------
(* Properties *)

\* The longest a reachable source may wait between two requests when its
\* own wait is not shared: the tick, plus every source's request running
\* to its timeout.
MaxPollGap == PollInterval + Len(SourceOrder) * RequestTimeout

\* A stalled source does not delay the healthy ones (spec 4.2): when the
\* loop is about to request a reachable source, no more than MaxPollGap
\* has passed since its previous request, however long the backoff of the
\* unreachable sources has grown.
HealthyPolledOnTime ==
  (pc = "src" /\ Current \notin down /\ lastPoll[Current] /= NONE)
    => now - lastPoll[Current] <= MaxPollGap
=============================================================================
