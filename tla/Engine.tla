------------------------------- MODULE Engine -------------------------------
(* Engine::run(): the seven systems are registered and sorted by priority,   *)
(* initialised, updated every frame and shut down in reverse; the window's   *)
(* callbacks post events while the platform is polled, SystemEvents delivers *)
(* them in a later frame; an exception leaves main() with nobody to catch it. *)
EXTENDS Integers, Sequences, SequencesExt

CONSTANTS Events,    \* what the window can post
          MaxEvents  \* bound: events posted in a run

ASSUME EngineAssumption == MaxEvents \in Nat

\* Mutant: the events' priority is mistyped.
MutRegistrations_EventsLate ==
  << [system |-> "SystemLogging",   priority |-> 100],
     [system |-> "SystemEvents",    priority |-> 45],
     [system |-> "SystemPlatform",  priority |-> 80],
     [system |-> "SystemRenderer",  priority |-> 50],
     [system |-> "SystemScripting", priority |-> 40],
     [system |-> "SystemResources", priority |-> 20],
     [system |-> "SystemScene",     priority |-> 10] >>

(* Engine::initialise: set_system_priority and provide_system, in order.     *)
Registrations ==
  << [system |-> "SystemLogging",   priority |-> 100],
     [system |-> "SystemEvents",    priority |-> 90],
     [system |-> "SystemPlatform",  priority |-> 80],
     [system |-> "SystemRenderer",  priority |-> 50],
     [system |-> "SystemScripting", priority |-> 40],
     [system |-> "SystemResources", priority |-> 20],
     [system |-> "SystemScene",     priority |-> 10] >>

Systems == {Registrations[i].system : i \in DOMAIN Registrations}

(* Whom the functions of a system call, get_system by get_system and log     *)
(* macro by log macro, and when: the renderer's initialise() registers its   *)
(* receiver, every initialise() and shutdown() logs.                         *)
AtInitialise == [s \in Systems |-> IF s = "SystemRenderer" THEN {"SystemLogging", "SystemEvents"}
                                                           ELSE {"SystemLogging"}]

AtShutdown == [s \in Systems |-> {"SystemLogging"}]

(* What it calls while run() works with all of them: its update(), receiver, *)
(* callback or factories, for the scripting system the glue of its scripts,  *)
(* which goes back to the scene that invoked them.                           *)
AtRun == [s \in Systems |->
            CASE s = "SystemLogging"   -> {}
              [] s = "SystemEvents"    -> {"SystemRenderer"}
              [] s = "SystemPlatform"  -> {"SystemEvents"}
              [] s = "SystemRenderer"  -> {"SystemLogging", "SystemPlatform"}
              [] s = "SystemScripting" -> {"SystemLogging", "SystemPlatform", "SystemScene"}
              [] s = "SystemResources" -> {"SystemLogging", "SystemRenderer"}
              [] s = "SystemScene"     -> {"SystemPlatform", "SystemRenderer", "SystemScripting",
                                           "SystemResources"}]

(* run() itself: the window, the first scene, the flush and its log lines.   *)
RunCalls == {"SystemLogging", "SystemPlatform", "SystemScene", "SystemRenderer"}

(* The systems whose initialise() can throw, the logging system when its     *)
(* file cannot be opened.                                                    *)
Throwers == {"SystemLogging", "SystemPlatform", "SystemRenderer", "SystemScripting",
             "SystemResources"}

VARIABLES
  pc,              \* the phase run() is in, or how the program ended
  order,           \* m_systemPriorityVec
  at,              \* the registration, or the place in order, the phase is at
  up,              \* systems initialised and not shut down
  logger,          \* defaultLogger: "null", "open", then "null" again
  unflushed,       \* the log file misses lines that were logged
  closeRequested,  \* glfwWindowShouldClose
  isRunning,       \* m_isRunning
  frameStart,      \* how many events had been posted when the frame began
  receivers, messages, current, posted, first, seen  \* SystemEvents

queue  == <<receivers, messages, current, posted, first, seen>>
engine == <<order, at, up, logger, unflushed, closeRequested, isRunning, frameStart>>
vars   == <<pc, engine, queue>>

Receivers == {"SystemRenderer"}
Queue     == INSTANCE EventQueue

Phases == {"register", "initialise", "load", "update", "flush", "shutdown"}
Ended  == {"returned", "threw", "crashed", "undefined"}

TypeOK == /\ pc \in Phases \cup Ended
          /\ order \in Seq([system : Systems, priority : Nat])
          /\ at \in 0 .. Len(Registrations) + 1
          /\ up \in SUBSET Systems
          /\ logger \in {"null", "open"}
          /\ unflushed \in BOOLEAN /\ closeRequested \in BOOLEAN /\ isRunning \in BOOLEAN
          /\ frameStart \in 0 .. Len(posted)
          /\ Queue!TypeOK

Init == /\ pc = "register" /\ order = <<>> /\ at = 1
        /\ up = {}
        /\ logger = "null" /\ unflushed = FALSE
        /\ closeRequested = FALSE /\ isRunning = FALSE
        /\ frameStart = 0
        /\ Queue!Init

(* A line is logged through defaultLogger, which may be null; the phase then *)
(* goes on as after.                                                         *)
LogThen(after) == pc' = (IF logger = "open" THEN after ELSE "crashed")

(* The system the phase is at. *)
System == order[at].system

-----------------------------------------------------------------------------
(* initialise() *)

\* Mutant: the comparison is the wrong way round.
MutSorted_Ascending(v) == \A i, j \in DOMAIN v : i < j => v[i].priority <= v[j].priority

Sorted(v) == \A i, j \in DOMAIN v : i < j => v[i].priority >= v[j].priority

(* set_system_priority appends and sorts; no system is registered twice.     *)
Register ==
  /\ pc = "register"
  /\ order' \in {v \in {InsertAt(order, i, Registrations[at]) : i \in 1 .. Len(order) + 1} :
                   Sorted(v)}
  /\ at' = (IF at = Len(Registrations) THEN 1 ELSE at + 1)
  /\ pc' = (IF at = Len(Registrations) THEN "initialise" ELSE "register")
  /\ UNCHANGED <<up, logger, unflushed, closeRequested, isRunning, frameStart, queue>>

\* Mutant: every system registers a receiver.
MutInitialiseSystem_AllReceive ==
  /\ pc = "initialise"
  /\ at <= Len(order)
  /\ up' = up \cup {System}
  /\ at' = at + 1
  /\ logger' = (IF System = "SystemLogging" THEN "open" ELSE logger)
  /\ unflushed' = TRUE
  /\ pc' = (IF logger' = "open" THEN "initialise" ELSE "crashed")
  /\ Queue!RegisterReceiver(System)
  /\ UNCHANGED <<order, closeRequested, isRunning, frameStart>>

(* The renderer registers the one receiver; every system logs that it is up, *)
(* the logging system after it has made its logger.                          *)
InitialiseSystem ==
  /\ pc = "initialise"
  /\ at <= Len(order)
  /\ up' = up \cup {System}
  /\ at' = at + 1
  /\ logger' = (IF System = "SystemLogging" THEN "open" ELSE logger)
  /\ unflushed' = TRUE
  /\ pc' = (IF logger' = "open" THEN "initialise" ELSE "crashed")
  /\ IF System = "SystemRenderer" THEN Queue!RegisterReceiver(System) ELSE UNCHANGED queue
  /\ UNCHANGED <<order, closeRequested, isRunning, frameStart>>

InitialiseThrows ==
  /\ pc = "initialise"
  /\ at <= Len(order)
  /\ System \in Throwers
  /\ pc' = "threw"
  /\ UNCHANGED <<engine, queue>>

(* A script assembly that is not there: load_mono_assembly dereferences an   *)
(* expected without a value, before the test that would throw.               *)
InitialiseUndefined ==
  /\ pc = "initialise"
  /\ at <= Len(order)
  /\ System = "SystemScripting"
  /\ pc' = "undefined"
  /\ UNCHANGED <<engine, queue>>

(* "All systems initialised", and the primary window is created and shown.   *)
CreateWindow ==
  /\ pc = "initialise"
  /\ at > Len(order)
  /\ LogThen("load")
  /\ unflushed' = TRUE
  /\ UNCHANGED <<order, at, up, logger, closeRequested, isRunning, frameStart, queue>>

(* glfwCreateWindow gives no window, and a callback is set on it.            *)
CreateWindowUndefined == /\ pc = "initialise"
                         /\ at > Len(order)
                         /\ pc' = "undefined"
                         /\ UNCHANGED <<engine, queue>>

(* The initial scene is loaded; then run() enters its loop. *)
LoadScene ==
  /\ pc = "load"
  /\ isRunning' = TRUE
  /\ at' = 1
  /\ frameStart' = Len(posted)
  /\ pc' = "update"
  /\ UNCHANGED <<order, up, logger, unflushed, closeRequested, queue>>

LoadSceneThrows == pc = "load" /\ pc' = "threw" /\ UNCHANGED <<engine, queue>>

-----------------------------------------------------------------------------
(* update() *)

Updating(s) == pc = "update" /\ at <= Len(order) /\ System = s

(* The logging, renderer, scripting and resources systems do nothing; what   *)
(* the scene hands to the renderer is in Renderer's actions.                 *)
UpdateSystem ==
  /\ pc = "update" /\ at <= Len(order)
  /\ System \notin {"SystemEvents", "SystemPlatform"}
  /\ at' = at + 1
  /\ UNCHANGED <<pc, order, up, logger, unflushed, closeRequested, isRunning, frameStart, queue>>

BeginEvents == /\ Updating("SystemEvents")
               /\ Queue!BeginUpdate
               /\ UNCHANGED <<pc, engine>>

(* The renderer's receiver logs the event. *)
DeliverEvent == /\ Updating("SystemEvents")
                /\ Queue!CallReceiver
                /\ LogThen("update")
                /\ unflushed' = TRUE
                /\ UNCHANGED <<order, at, up, logger, closeRequested, isRunning, frameStart>>

PopEvent == /\ Updating("SystemEvents")
            /\ Queue!PopMessage
            /\ UNCHANGED <<pc, engine>>

\* Mutant: update() handles one event a frame.
MutEndEvents_One ==
  /\ Updating("SystemEvents")
  /\ current = 1
  /\ current' = 0
  /\ at' = at + 1
  /\ UNCHANGED <<pc, order, up, logger, unflushed, closeRequested, isRunning, frameStart,
                 receivers, messages, posted, first, seen>>

EndEvents == /\ Updating("SystemEvents")
             /\ Queue!EndUpdate
             /\ at' = at + 1
             /\ UNCHANGED <<pc, order, up, logger, unflushed, closeRequested, isRunning, frameStart>>

(* glfwPollEvents: size callbacks post, a close button sets the flag. *)
PollResize(e) == /\ Updating("SystemPlatform")
                 /\ Queue!PostEvent(e)
                 /\ UNCHANGED <<pc, engine>>

PollClose == /\ Updating("SystemPlatform")
             /\ ~closeRequested
             /\ closeRequested' = TRUE
             /\ UNCHANGED <<pc, order, at, up, logger, unflushed, isRunning, frameStart, queue>>

PollReturns == /\ Updating("SystemPlatform")
               /\ at' = at + 1
               /\ UNCHANGED <<pc, order, up, logger, unflushed, closeRequested, isRunning,
                              frameStart, queue>>

\* Mutant: the close request is not acted on.
MutCheckClose_Ignored ==
  /\ pc = "update"
  /\ at > Len(order)
  /\ pc' = "flush"
  /\ UNCHANGED <<engine, queue>>

(* has_window_requested_close, then the window's title. *)
CheckClose == /\ pc = "update"
              /\ at > Len(order)
              /\ isRunning' = (isRunning /\ ~closeRequested)
              /\ pc' = "flush"
              /\ UNCHANGED <<order, at, up, logger, unflushed, closeRequested, frameStart, queue>>

FlushThrows == pc = "flush" /\ pc' = "threw" /\ UNCHANGED <<engine, queue>>

(* The renderer has flushed; run() tests m_isRunning. *)
NextFrame == /\ pc = "flush" /\ isRunning
             /\ at' = 1
             /\ frameStart' = Len(posted)
             /\ pc' = "update"
             /\ UNCHANGED <<order, up, logger, unflushed, closeRequested, isRunning, queue>>

(* "Shutting all systems down." *)
LeaveLoop == /\ pc = "flush" /\ ~isRunning
             /\ at' = Len(order)
             /\ LogThen("shutdown")
             /\ unflushed' = TRUE
             /\ UNCHANGED <<order, up, logger, closeRequested, isRunning, frameStart, queue>>

-----------------------------------------------------------------------------
(* shutdown() *)

\* Mutant: the logging system is shut down without a flush.
MutShutdownSystem_NoFlush ==
  /\ pc = "shutdown"
  /\ at >= 1
  /\ up' = up \ {System}
  /\ at' = at - 1
  /\ LogThen("shutdown")
  /\ logger' = (IF System = "SystemLogging" THEN "null" ELSE logger)
  /\ unflushed' = TRUE
  /\ UNCHANGED <<order, closeRequested, isRunning, frameStart, queue>>

(* Every system logs that it is down, the logging system before it flushes   *)
(* the file and drops its logger.                                            *)
ShutdownSystem ==
  /\ pc = "shutdown"
  /\ at >= 1
  /\ up' = up \ {System}
  /\ at' = at - 1
  /\ LogThen("shutdown")
  /\ logger' = (IF System = "SystemLogging" THEN "null" ELSE logger)
  /\ unflushed' = (System # "SystemLogging")
  /\ UNCHANGED <<order, closeRequested, isRunning, frameStart, queue>>

Return == /\ pc = "shutdown"
          /\ at = 0
          /\ pc' = "returned"
          /\ UNCHANGED <<engine, queue>>

Terminated == pc \in Ended /\ UNCHANGED vars

Initialise == Register \/ InitialiseSystem \/ InitialiseThrows \/ InitialiseUndefined
                \/ CreateWindow \/ CreateWindowUndefined
                \/ LoadScene \/ LoadSceneThrows
DispatchEvents == BeginEvents \/ DeliverEvent \/ PopEvent \/ EndEvents
Poll       == (\E e \in Events : PollResize(e)) \/ PollClose \/ PollReturns
Update     == UpdateSystem \/ DispatchEvents \/ Poll \/ CheckClose
EndFrame   == FlushThrows \/ NextFrame \/ LeaveLoop
Shutdown   == ShutdownSystem \/ Return

Run  == Initialise \/ Update \/ EndFrame \/ Shutdown
Next == Run \/ Terminated

(* One thread: it goes on as long as it can. *)
Spec     == Init /\ [][Next]_vars
FairSpec == Spec /\ WF_vars(Run)

-----------------------------------------------------------------------------
(* Nothing is logged before the logging system is up or after it is down,    *)
(* from no system's initialise(), update(), receiver or shutdown().          *)
NeverCrashes == pc # "crashed"

(* No call goes to a system that is not up: none from an initialise() or a   *)
(* shutdown(), at its place in the order, and none from the window's making  *)
(* to the last flush, when the systems call one another in both directions.  *)
CalledAreUp ==
  /\ pc = "initialise" /\ at <= Len(order) => AtInitialise[System] \subseteq up \cup {System}
  /\ pc \in {"load", "update", "flush"} \/ (pc = "initialise" /\ at > Len(order)) =>
       RunCalls \subseteq up /\ \A s \in up : AtRun[s] \subseteq up
  /\ pc = "shutdown" /\ at >= 1 => AtShutdown[System] \subseteq up

(* Once SystemEvents has been updated, only events of this frame are queued: *)
(* every receiver sees an event in the frame after the one that polled it.   *)
EventsWithinAFrame ==
  /\ pc = "flush" => Len(messages) <= Len(posted) - frameStart
  /\ \A i \in DOMAIN order : pc = "update" /\ order[i].system = "SystemEvents" /\ i < at =>
       Len(messages) <= Len(posted) - frameStart

(* A program that returns has shut every system down and flushed its log.    *)
CleanExit == pc = "returned" => up = {} /\ ~unflushed

(* A close request ends the program.                                         *)
CloseEnds == closeRequested ~> pc \in {"returned", "threw"}

(* design.md: when an exception reaches the entry point, the logging system  *)
(* is flushed before the program closes.                                     *)
FlushedOnException == pc = "threw" => ~unflushed
=============================================================================
