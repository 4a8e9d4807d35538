---------------------------- MODULE AutoConnect ----------------------------
(***************************************************************************)
(* The screen-automation script src/record data/auto_connect.py.           *)
(*                                                                         *)
(* pynput runs the mouse callbacks on one listener thread and the keyboard *)
(* callbacks on another; every callback calls trigger_pause, which tests   *)
(* cooldown_event, sets pause_event and cooldown_event, and starts a       *)
(* daemon thread running resume(): sleep 60 s, clear pause_event, clear    *)
(* cooldown_event.  The main loop sleeps while pause_event is set and      *)
(* otherwise runs run(): two moves, a template match, and a click when the *)
(* button is found.  Each Event method is one bytecode-level step; user    *)
(* input is bounded by MaxEvents.  Time is abstracted: a sleep is a point  *)
(* where other threads run.                                                *)
(***************************************************************************)
EXTENDS Naturals

CONSTANTS
  MaxEvents   \* bound: input events the user produces

Listeners == {"mouse", "keyboard"}

\* Resume threads are numbered in the order trigger_pause starts them.
ResumeIds == 1..MaxEvents

VARIABLES
  pause,      \* pause_event
  cooldown,   \* cooldown_event
  lpc,        \* where each listener thread is in trigger_pause
  resume,     \* state of each resume thread ("none" before it starts)
  started,    \* resume threads started so far
  mpc,        \* where the main loop is
  events      \* input events delivered so far

vars == <<pause, cooldown, lpc, resume, started, mpc, events>>

Init ==
  /\ pause = FALSE /\ cooldown = FALSE
  /\ lpc = [l \in Listeners |-> "idle"]
  /\ resume = [r \in ResumeIds |-> "none"]
  /\ started = 0
  /\ mpc = "check"
  /\ events = 0

-----------------------------------------------------------------------------
(* trigger_pause, on listener thread l *)

\* The user moves, clicks, scrolls or types: the listener calls back.
Input(l) ==
  /\ lpc[l] = "idle" /\ events < MaxEvents
  /\ lpc' = [lpc EXCEPT ![l] = "check"]
  /\ events' = events + 1
  /\ UNCHANGED <<pause, cooldown, resume, started, mpc>>

\* `if cooldown_event.is_set(): return`.
CheckCooldown(l) ==
  /\ lpc[l] = "check"
  /\ lpc' = [lpc EXCEPT ![l] = IF cooldown THEN "idle" ELSE "setPause"]
  /\ UNCHANGED <<pause, cooldown, resume, started, mpc, events>>

\* print(...); pause_event.set().
SetPause(l) ==
  /\ lpc[l] = "setPause"
  /\ pause' = TRUE
  /\ lpc' = [lpc EXCEPT ![l] = "setCooldown"]
  /\ UNCHANGED <<cooldown, resume, started, mpc, events>>

\* cooldown_event.set().
SetCooldown(l) ==
  /\ lpc[l] = "setCooldown"
  /\ cooldown' = TRUE
  /\ lpc' = [lpc EXCEPT ![l] = "spawn"]
  /\ UNCHANGED <<pause, resume, started, mpc, events>>

\* Thread(target=resume, daemon=True).start().
SpawnResume(l) ==
  /\ lpc[l] = "spawn"
  /\ started' = started + 1
  /\ resume' = [resume EXCEPT ![started + 1] = "sleep"]
  /\ lpc' = [lpc EXCEPT ![l] = "idle"]
  /\ UNCHANGED <<pause, cooldown, mpc, events>>

-----------------------------------------------------------------------------
(* resume(), on resume thread r *)

\* sleep(60) ends.
ResumeWake(r) ==
  /\ resume[r] = "sleep"
  /\ resume' = [resume EXCEPT ![r] = "clearPause"]
  /\ UNCHANGED <<pause, cooldown, lpc, started, mpc, events>>

\* Variant: resume() that forgets pause_event.clear().
ResumeClearPauseDropped(r) ==
  /\ resume[r] = "clearPause"
  /\ resume' = [resume EXCEPT ![r] = "clearCooldown"]
  /\ UNCHANGED <<pause, cooldown, lpc, started, mpc, events>>

\* print(...); pause_event.clear().
ResumeClearPause(r) ==
  /\ resume[r] = "clearPause"
  /\ pause' = FALSE
  /\ resume' = [resume EXCEPT ![r] = "clearCooldown"]
  /\ UNCHANGED <<cooldown, lpc, started, mpc, events>>

\* cooldown_event.clear(); the thread ends.
ResumeClearCooldown(r) ==
  /\ resume[r] = "clearCooldown"
  /\ cooldown' = FALSE
  /\ resume' = [resume EXCEPT ![r] = "done"]
  /\ UNCHANGED <<pause, lpc, started, mpc, events>>

-----------------------------------------------------------------------------
(* The main loop *)

\* `if pause_event.is_set(): sleep(1); continue`.
MainWait ==
  /\ mpc = "check" /\ pause
  /\ UNCHANGED vars

\* pause_event is clear: run(): moveTo(100, 100); moveTo(200, 100);
\* locate_button_fast.
MainCheck ==
  /\ mpc = "check" /\ ~pause
  /\ mpc' = "locate"
  /\ UNCHANGED <<pause, cooldown, lpc, resume, started, events>>

\* locate_button_fast returns a location (click) or None (print).
MainLocate ==
  /\ mpc = "locate"
  /\ mpc' \in {"click", "sleep"}
  /\ UNCHANGED <<pause, cooldown, lpc, resume, started, events>>

\* moveTo(location); click().
MainClick ==
  /\ mpc = "click"
  /\ mpc' = "sleep"
  /\ UNCHANGED <<pause, cooldown, lpc, resume, started, events>>

\* sleep(10).
MainSleep ==
  /\ mpc = "sleep"
  /\ mpc' = "check"
  /\ UNCHANGED <<pause, cooldown, lpc, resume, started, events>>

Listener(l) ==
  Input(l) \/ CheckCooldown(l) \/ SetPause(l) \/ SetCooldown(l)
  \/ SpawnResume(l)

Resume(r) ==
  ResumeWake(r) \/ ResumeClearPause(r) \/ ResumeClearCooldown(r)

Main == MainWait \/ MainCheck \/ MainLocate \/ MainClick \/ MainSleep

Next ==
  \/ \E l \in Listeners : Listener(l)
  \/ \E r \in ResumeIds : Resume(r)
  \/ Main

Spec == Init /\ [][Next]_vars

\* The OS schedules every started thread; the user (Input) is not fair.
FairSpec ==
  /\ Spec
  /\ \A l \in Listeners :
       WF_vars(CheckCooldown(l) \/ SetPause(l) \/ SetCooldown(l)
               \/ SpawnResume(l))
  /\ \A r \in ResumeIds : WF_vars(Resume(r))
  /\ WF_vars(Main)

-----------------------------------------------------------------------------
(* Properties *)

\* Once the user stops, the automation resumes for good: every pause set
\* by trigger_pause is eventually cleared by a resume thread, whichever
\* way the two listeners and the resume threads interleave.
EventuallyResumes == <>[]~pause
=============================================================================
