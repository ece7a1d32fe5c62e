-------------------------------- MODULE Alarm --------------------------------
(***************************************************************************)
(* The auto-flush timer and the fatal signals (alarm.cc) against the       *)
(* request loop of the server (main in server.c) and BlockCache::flush     *)
(* (btbuf.c).  Time is counted in alarm intervals.  The loop notices a     *)
(* signal only when it interrupts msgrcv: one that arrives while a request *)
(* is executed, or between Alarm::check and the next msgrcv, runs its      *)
(* handler and nothing else.                                               *)
(***************************************************************************)
EXTENDS Naturals

CONSTANTS
  Limit,       \* flushtime / interval: 10 with the default of 30 seconds
  AutoFlush,   \* flushtime # 0
  Early,       \* may a SIGALRM find the server anywhere but in msgrcv
  MaxTicks,    \* bound: ticks is not counted further (> Limit + 1, so check sees no difference)
  MaxOps       \* bound: requests in a behaviour

ASSUME AlarmAssumption ==
  /\ Limit \in Nat \ {0} /\ MaxTicks \in Nat /\ MaxTicks > Limit + 1
  /\ AutoFlush \in BOOLEAN /\ Early \in BOOLEAN /\ MaxOps \in Nat

VARIABLES
  pc,          \* where the server is
  queued,      \* requests waiting in btasreq
  dev,         \* the filesystem: clean, modified, or a checkpoint not yet in place
  age,         \* intervals since the oldest change that is not yet on disk
  ticks,       \* Alarm::ticks
  limit,       \* Alarm::limit
  armed,       \* the kernel will deliver a SIGALRM
  fatal,       \* Alarm::fatal
  ops          \* requests so far

vars == <<pc, queued, dev, age, ticks, limit, armed, fatal, ops>>

Phases == {"loop", "recv", "busy", "check", "down"}
Devs == {"clean", "modified", "checkpoint"}

Init ==
  /\ pc = "loop" /\ queued = 0
  /\ dev = "clean" /\ age = 0
  /\ ticks = 0 /\ limit = 1 /\ armed = FALSE
  /\ fatal = FALSE
  /\ ops = 0

(* A client sends a request. *)
Send ==
  /\ ops < MaxOps
  /\ pc # "down"
  /\ queued' = queued + 1
  /\ ops' = ops + 1
  /\ UNCHANGED <<pc, dev, age, ticks, limit, armed, fatal>>

(* msgrcv with nothing queued blocks; with a request it returns it. *)
Block ==
  /\ pc = "loop" /\ queued = 0
  /\ pc' = "recv"
  /\ UNCHANGED <<queued, dev, age, ticks, limit, armed, fatal, ops>>

Receive ==
  /\ pc \in {"loop", "recv"} /\ queued > 0
  /\ pc' = "busy"
  /\ queued' = queued - 1
  /\ UNCHANGED <<dev, age, ticks, limit, armed, fatal, ops>>

(* Alarm::handler: counts, and asks for the next SIGALRM while ticks runs. *)
Counted(n) == IF n < MaxTicks THEN n + 1 ELSE n

Handler(n) ==
  IF n # 0 THEN ticks' = Counted(n) /\ armed' = TRUE
           ELSE ticks' = 0 /\ UNCHANGED armed

(* Alarm::enable: restarts the count; calls the handler if it is not        *)
(* running.                                                                 *)
Enable ==
  /\ limit' = Limit
  /\ IF ticks = 0 THEN Handler(1) ELSE ticks' = 1 /\ UNCHANGED armed

(* One pass of BlockCache::flush over the device: a checkpoint is written   *)
(* in place, and modified buffers become the next checkpoint (BTERBUSY), or *)
(* go in place at once on a device without one.                             *)
Flushed(d) == IF d = "modified" THEN {"checkpoint", "clean"} ELSE {"clean"}

SetDev(d) ==
  /\ dev' = d
  /\ age' = IF d = "clean" THEN 0 ELSE age

(* The request is executed and answered: it reads, updates or is a BTFLUSH. *)
Execute ==
  /\ pc = "busy"
  /\ \E d \in {dev, "modified"} \cup Flushed(dev) : SetDev(d)
  /\ IF AutoFlush THEN Enable ELSE UNCHANGED <<limit, ticks, armed>>
  /\ pc' = "loop"
  /\ UNCHANGED <<queued, fatal, ops>>

(* SIGALRM.  The interval it ends has made unwritten changes older. *)
Alrm ==
  /\ armed
  /\ pc # "down"
  /\ Early \/ pc = "recv"
  /\ IF ticks # 0 THEN Handler(ticks) ELSE armed' = FALSE /\ UNCHANGED ticks
  /\ age' = IF dev = "clean" THEN 0 ELSE Counted(age)
  /\ pc' = IF pc = "recv" THEN "check" ELSE pc
  /\ UNCHANGED <<queued, dev, limit, fatal, ops>>

AlrmInRecv == pc = "recv" /\ Alrm

(* SIGTERM, SIGPWR. *)
Term ==
  /\ ~fatal
  /\ pc # "down"
  /\ fatal' = TRUE
  /\ pc' = IF pc = "recv" THEN "check" ELSE pc
  /\ UNCHANGED <<queued, dev, age, ticks, limit, armed, ops>>

(* Alarm::check after msgrcv failed with EINTR: shut down (every filesystem *)
(* is unmounted) ... *)
CheckFatal ==
  /\ pc = "check"
  /\ fatal
  /\ pc' = "down"
  /\ SetDev("clean")
  /\ UNCHANGED <<queued, ticks, limit, armed, fatal, ops>>

(* Seeded faults: the timer stops although flush() returned BTERBUSY; the   *)
(* count is looked at although a fatal signal has come.                     *)
CheckTicksStops ==
  /\ pc = "check"
  /\ ~fatal
  /\ IF ticks > limit
     THEN \E d \in Flushed(dev) : SetDev(d) /\ ticks' = 0
     ELSE UNCHANGED <<dev, age, ticks>>
  /\ limit' = 1
  /\ pc' = "loop"
  /\ UNCHANGED <<queued, armed, fatal, ops>>

CheckTicksFirst ==
  /\ pc = "check"
  /\ IF ticks > limit
     THEN \E d \in Flushed(dev) :
            /\ SetDev(d)
            /\ ticks' = IF d = "clean" THEN 0 ELSE ticks
     ELSE UNCHANGED <<dev, age, ticks>>
  /\ limit' = 1
  /\ pc' = "loop"
  /\ UNCHANGED <<queued, armed, fatal, ops>>

(* ... or flush once the count has passed the limit. *)
CheckTicks ==
  /\ pc = "check"
  /\ ~fatal
  /\ IF ticks > limit
     THEN \E d \in Flushed(dev) :
            /\ SetDev(d)
            /\ ticks' = IF d = "clean" THEN 0 ELSE ticks
     ELSE UNCHANGED <<dev, age, ticks>>
  /\ limit' = 1
  /\ pc' = "loop"
  /\ UNCHANGED <<queued, armed, fatal, ops>>

Server == Block \/ Receive \/ Execute \/ CheckFatal \/ CheckTicks

Next == Send \/ Server \/ Alrm \/ Term

Spec == Init /\ [][Next]_vars

(* The server runs.  A SIGALRM comes every interval, seconds apart, while   *)
(* the server takes microseconds to get back to msgrcv: it finds it blocked *)
(* there if it is, time and again.                                          *)
FairSpec == Spec /\ WF_vars(Server) /\ SF_vars(AlrmInRecv)

-----------------------------------------------------------------------------
TypeOK ==
  /\ pc \in Phases /\ queued \in Nat
  /\ dev \in Devs /\ age \in 0..MaxTicks
  /\ ticks \in 0..MaxTicks /\ limit \in {1, Limit}
  /\ armed \in BOOLEAN /\ fatal \in BOOLEAN
  /\ ops \in Nat

(* With auto-flush on, changes that are not in place never wait without a   *)
(* timer, however requests, flushes and signals interleave: ticks runs      *)
(* until the pass of flush() that leaves nothing to write, and only with a  *)
(* SIGALRM on its way.                                                      *)
TimerRuns ==
  /\ ticks # 0 => armed
  /\ AutoFlush /\ dev # "clean" => ticks # 0 \/ pc = "down"

(* Once requests stop coming everything gets on disk.                       *)
FlushedWhenIdle == dev # "clean" ~> dev = "clean"

(* A fatal signal that arrives while the timer runs shuts the server down,  *)
(* wherever in the loop it arrives.                                         *)
FatalWithTimer == fatal /\ ticks # 0 ~> pc = "down"

(* "Alarm class ... signals a shutdown for fatal signals" (alarm.cc).       *)
FatalSeen == fatal ~> pc = "down"

(* "Secs is the maximum age of dirty buffers.  For now, we enforce this by  *)
(* forcing a flush at that interval" (alarm.cc): here with as much again to *)
(* spare, and an interval for each pass of the flush.                       *)
MaximumAge == age <= 2 * Limit + 3
=============================================================================
