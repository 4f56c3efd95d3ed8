------------------------------- MODULE AgentBus --------------------------------
(***************************************************************************)
(* The goroutines of "sentinel-agent run" around the channel eventBus.     *)
(*                                                                         *)
(* Collectors, the file watcher's timers and the scans of the heartbeat    *)
(* loop send events on the channel; the sender takes them to StreamEvents. *)
(* A goroutine closes the channel when collectors and watcher have ended.  *)
(* Sender and heartbeat loop form an errgroup: the process ends when both  *)
(* have.  Sending on a closed channel is a panic: it ends the process.     *)
(***************************************************************************)
EXTENDS Naturals, Sequences, FiniteSets

CONSTANTS
  Collectors,  \* log collectors a command line may enable (sshd, mac)
  BusCap,      \* capacity of eventBus (256)
  OutCap,      \* capacity of a collector's own channel (64)
  MaxEvents,   \* events a collector finds in its log (a bound)
  Timers,      \* timers of one file at once (a bound)
  NoTimer

ASSUME CapAssumption == {BusCap, OutCap, MaxEvents} \subseteq Nat \ {0}
ASSUME OriginAssumption == Collectors \cap {"timer", "scan", "none"} = {}
ASSUME TimerAssumption == NoTimer \notin Timers

VARIABLES
  proc,     \* the process: running, exited, or who panicked
  signal,   \* ctx is cancelled: SIGTERM or Ctrl+C
  gone,     \* gctx is cancelled: ctx is, or the sender returned an error
  source,   \* source[c]: collector.Run
  found,    \* found[c]: events it has parsed so far
  out,      \* out[c]: its channel Out
  pump,     \* pump[c]: the goroutine from Out to the bus, the event it holds
  watcher,  \* filewatcher.Run
  timer,    \* timer[n]: a timer of the watched file, and its scan
  pending,  \* the file's entry in the map of the watcher
  dirty,    \* history: the file was written since its last scan began
  missed,   \* history: Stop missed a timer that had fired, and one is left
  bus,      \* the channel eventBus: events <<origin, number>>
  closed,   \* the channel is closed
  sender,   \* eventstream.Run, the event it holds
  stream,   \* the gRPC stream
  sent,     \* sent[c]: events of collector c given to the stream, in order
  hb        \* the heartbeat loop: what its command is doing

busVars == <<bus, closed>>
debounce == <<timer, pending, dirty, missed>>
sources == <<source, found, out, pump, watcher, debounce>>
group == <<sender, stream, sent, hb>>
vars == <<proc, signal, gone, sources, busVars, group>>

Held(pc, ev) == [pc |-> pc, ev |-> ev]
Nothing == <<"none", 0>>

Origins == Collectors \cup {"timer", "scan", "none"}
Event == Origins \X Nat
Panics == {"pump", "timer", "scan"}

TypeOK ==
  /\ proc \in {"running", "exited"} \cup Panics
  /\ signal \in BOOLEAN /\ gone \in BOOLEAN /\ closed \in BOOLEAN
  /\ source \in [Collectors -> {"running", "ended"}]
  /\ found \in [Collectors -> 0..MaxEvents]
  /\ out \in [Collectors -> Seq(Event)]
  /\ pump \in [Collectors -> [pc : {"waiting", "holding", "done"}, ev : Event]]
  /\ watcher \in {"off", "starting", "running", "done"}
  /\ timer \in [Timers -> {"none", "armed", "fired", "sending"}]
  /\ pending \in Timers \cup {NoTimer}
  /\ dirty \in BOOLEAN /\ missed \in BOOLEAN
  /\ bus \in Seq(Event)
  /\ sender \in [pc : {"opening", "running", "sending", "closing", "ended", "failed"},
                 ev : Event]
  /\ stream \in {"up", "broken"}
  /\ sent \in [Collectors -> Seq(Event)]
  /\ hb \in {"idle", "tool", "yara", "ended"}

(* Which collectors and whether the watcher run is the command line's.     *)
Init ==
  /\ proc = "running"
  /\ signal = FALSE /\ gone = FALSE /\ closed = FALSE
  /\ \E on \in SUBSET Collectors :
       /\ source = [c \in Collectors |-> IF c \in on THEN "running" ELSE "ended"]
       /\ pump = [c \in Collectors |->
                    Held(IF c \in on THEN "waiting" ELSE "done", Nothing)]
  /\ found = [c \in Collectors |-> 0]
  /\ out = [c \in Collectors |-> <<>>]
  /\ watcher \in {"off", "starting"}
  /\ timer = [n \in Timers |-> "none"]
  /\ pending = NoTimer
  /\ dirty = FALSE /\ missed = FALSE
  /\ bus = <<>>
  /\ sender = Held("opening", Nothing)
  /\ stream = "up"
  /\ sent = [c \in Collectors |-> <<>>]
  /\ hb = "idle"

-----------------------------------------------------------------------------
(* A goroutine that sends e: it panics, or e is queued; it waits otherwise.*)
Full == Len(bus) >= BusCap

Panic(who) ==
  /\ closed
  /\ proc' = who
  /\ UNCHANGED <<signal, gone, sources, busVars, group>>

Queue(e) ==
  /\ ~closed
  /\ ~Full
  /\ bus' = Append(bus, e)
  /\ UNCHANGED <<proc, signal, gone, closed>>

-----------------------------------------------------------------------------
(* Collectors. A line that parses becomes an event in Out.                 *)
Collect(c) ==
  /\ source[c] = "running"
  /\ found[c] < MaxEvents
  /\ Len(out[c]) < OutCap
  /\ found' = [found EXCEPT ![c] = @ + 1]
  /\ out' = [out EXCEPT ![c] = Append(@, <<c, found[c] + 1>>)]
  /\ UNCHANGED <<proc, signal, gone, source, pump, watcher, debounce, busVars, group>>

(* Run ends: end of file in replay mode, file missing, ctx cancelled.      *)
SourceEnds(c) ==
  /\ source[c] = "running"
  /\ source' = [source EXCEPT ![c] = "ended"]
  /\ UNCHANGED <<proc, signal, gone, found, out, pump, watcher, debounce, busVars, group>>

PumpTakes(c) ==
  /\ pump[c].pc = "waiting"
  /\ out[c] # <<>>
  /\ pump' = [pump EXCEPT ![c] = Held("holding", Head(out[c]))]
  /\ out' = [out EXCEPT ![c] = Tail(out[c])]
  /\ UNCHANGED <<proc, signal, gone, source, found, watcher, debounce, busVars, group>>

PumpSends(c) ==
  /\ pump[c].pc = "holding"
  /\ Queue(pump[c].ev)
  /\ pump' = [pump EXCEPT ![c] = Held("waiting", Nothing)]
  /\ UNCHANGED <<source, found, out, watcher, debounce, group>>

PumpPanics(c) == pump[c].pc = "holding" /\ Panic("pump")

(* Mutation: an event that finds the channel full is dropped.              *)
PumpGivesUpWhenFull(c) ==
  /\ \/ pump[c].pc = "waiting" /\ out[c] = <<>> /\ source[c] = "ended"
     \/ pump[c].pc = "holding" /\ (signal \/ Full)
  /\ pump' = [pump EXCEPT ![c] =
                Held(IF signal \/ (out[c] = <<>> /\ source[c] = "ended")
                     THEN "done" ELSE "waiting", Nothing)]
  /\ UNCHANGED <<proc, signal, gone, source, found, out, watcher, debounce, busVars, group>>

(* The pump ends with its collector; or gives up its event with ctx.       *)
PumpEnds(c) ==
  /\ \/ pump[c].pc = "waiting" /\ out[c] = <<>> /\ source[c] = "ended"
     \/ pump[c].pc = "holding" /\ signal
  /\ pump' = [pump EXCEPT ![c] = Held("done", Nothing)]
  /\ UNCHANGED <<proc, signal, gone, source, found, out, watcher, debounce, busVars, group>>

-----------------------------------------------------------------------------
(* The file watcher.                                                       *)

(* Setup: without yara or inotify, Run returns at once.                    *)
WatcherStarts ==
  /\ watcher = "starting"
  /\ watcher' \in {"running", "done"}
  /\ UNCHANGED <<proc, signal, gone, source, found, out, pump, debounce, busVars, group>>

(* Mutation: an fsnotify error ends Run.                                   *)
WatcherMayEnd == TRUE

WatcherMustEnd == signal

WatcherEnds ==
  /\ watcher = "running"
  /\ WatcherMustEnd
  /\ watcher' = "done"
  /\ UNCHANGED <<proc, signal, gone, source, found, out, pump, debounce, busVars, group>>

Due == {n \in Timers : timer[n] \in {"armed", "fired"}}

(* Stop; it misses a timer that has fired and waits for the mutex.         *)
Stopped == [n \in Timers |-> IF n = pending /\ timer[n] = "armed" THEN "none" ELSE timer[n]]

(* Mutations: the timer is stopped and not started again; it is started    *)
(* again without being stopped.                                            *)
StopOnly(n) ==
  /\ timer' = IF pending = NoTimer THEN [timer EXCEPT ![n] = "armed"] ELSE Stopped
  /\ pending' = n

StartOnly(n) ==
  /\ timer[n] = "none"
  /\ timer' = [timer EXCEPT ![n] = "armed"]
  /\ pending' = n

Restart(n) ==
  /\ Stopped[n] = "none"
  /\ timer' = [Stopped EXCEPT ![n] = "armed"]
  /\ pending' = n

(* The file is written: scheduleScan.                                      *)
FileWritten(n) ==
  /\ watcher = "running"
  /\ Restart(n)
  /\ dirty' = TRUE
  /\ missed' = (missed \/ \E m \in Timers : m = pending /\ timer[m] = "fired")
  /\ UNCHANGED <<proc, signal, gone, source, found, out, pump, watcher, busVars, group>>

TimerFires(n) ==
  /\ timer[n] = "armed"
  /\ timer' = [timer EXCEPT ![n] = "fired"]
  /\ UNCHANGED <<proc, signal, gone, source, found, out, pump, watcher, pending,
                 dirty, missed, busVars, group>>

(* It has the mutex: it deletes the entry, whoever's that is, and scans    *)
(* the file: it finds a match, or not, or is cut short.                    *)
TimerScans(n) ==
  /\ timer[n] = "fired"
  /\ \E then \in {"none", "sending"} :
       /\ signal => then = "none"
       /\ timer' = [timer EXCEPT ![n] = then]
  /\ pending' = NoTimer
  /\ dirty' = FALSE
  /\ missed' = (missed /\ Due # {n})
  /\ UNCHANGED <<proc, signal, gone, source, found, out, pump, watcher, busVars, group>>

Done(n) ==
  /\ timer' = [timer EXCEPT ![n] = "none"]
  /\ UNCHANGED <<pending, dirty, missed>>

(* The scan's goroutine outlives Run.                                      *)
TimerSends(n) ==
  /\ timer[n] = "sending"
  /\ Queue(<<"timer", 0>>)
  /\ Done(n)
  /\ UNCHANGED <<source, found, out, pump, watcher, group>>

TimerPanics(n) == timer[n] = "sending" /\ Panic("timer")

TimerGivesUp(n) ==
  /\ timer[n] = "sending" /\ signal
  /\ Done(n)
  /\ UNCHANGED <<proc, signal, gone, source, found, out, pump, watcher, busVars, group>>

-----------------------------------------------------------------------------
(* Mutation: the pumps are not in the wait group.                          *)
CollectorsReturned ==
  /\ \A c \in Collectors : source[c] = "ended"
  /\ watcher \in {"off", "done"}

(* wg.Wait: the collectors, their pumps and the watcher have returned; at  *)
(* once when none was enabled.                                             *)
AllReturned ==
  /\ \A c \in Collectors : source[c] = "ended" /\ pump[c].pc = "done"
  /\ watcher \in {"off", "done"}

CloseBus ==
  /\ ~closed
  /\ AllReturned
  /\ closed' = TRUE
  /\ UNCHANGED <<proc, signal, gone, sources, bus, group>>

-----------------------------------------------------------------------------
(* The sender.                                                             *)
SenderOpens ==
  /\ sender.pc = "opening"
  /\ stream = "up" /\ ~gone
  /\ sender' = Held("running", Nothing)
  /\ UNCHANGED <<proc, signal, gone, sources, busVars, stream, sent, hb>>

SenderTakes ==
  /\ sender.pc = "running"
  /\ bus # <<>>
  /\ sender' = Held("sending", Head(bus))
  /\ bus' = Tail(bus)
  /\ UNCHANGED <<proc, signal, gone, sources, closed, stream, sent, hb>>

SenderSends ==
  /\ sender.pc = "sending"
  /\ stream = "up" /\ ~gone
  /\ sent' = [c \in Collectors |-> IF sender.ev[1] = c THEN Append(sent[c], sender.ev)
                                   ELSE sent[c]]
  /\ sender' = Held("running", Nothing)
  /\ UNCHANGED <<proc, signal, gone, sources, busVars, stream, hb>>

(* An error: the errgroup cancels gctx.                                    *)
SenderFails ==
  /\ sender.pc \in {"opening", "sending", "closing"}
  /\ stream = "broken" \/ gone
  /\ sender' = Held("failed", Nothing)
  /\ gone' = TRUE
  /\ UNCHANGED <<proc, signal, sources, busVars, stream, sent, hb>>

(* No error: gctx is cancelled; or the channel is closed and drained, and  *)
(* the server ended the stream. Only the first ends the heartbeat loop.    *)
SenderQuits ==
  /\ sender.pc = "running" /\ gone
  /\ sender' = Held("ended", Nothing)
  /\ UNCHANGED <<proc, signal, gone, sources, busVars, stream, sent, hb>>

SenderCloses ==
  /\ \/ /\ sender.pc = "running" /\ closed /\ bus = <<>>
        /\ sender' = Held("closing", Nothing)
     \/ /\ sender.pc = "closing" /\ stream = "up"
        /\ sender' = Held("ended", Nothing)
  /\ UNCHANGED <<proc, signal, gone, sources, busVars, stream, sent, hb>>

StreamBreaks ==
  /\ stream = "up"
  /\ stream' = "broken"
  /\ UNCHANGED <<proc, signal, gone, sources, busVars, sender, sent, hb>>

-----------------------------------------------------------------------------
(* The heartbeat loop: a tick brings a command, a scan.                    *)
StartScan ==
  /\ hb = "idle"
  /\ ~gone
  /\ hb' \in {"tool", "yara"}
  /\ UNCHANGED <<proc, signal, gone, sources, busVars, sender, stream, sent>>

(* ClamAV and the audit tools do not wait for room in the channel.         *)
ToolReports ==
  /\ hb = "tool"
  /\ hb' = "idle"
  /\ \/ Queue(<<"scan", 0>>)
     \/ /\ ~closed /\ Full
        /\ UNCHANGED <<proc, signal, gone, busVars>>
  /\ UNCHANGED <<sources, sender, stream, sent>>

(* A YARA scan waits, ...                                                  *)
YaraReports ==
  /\ hb = "yara"
  /\ hb' = "idle"
  /\ Queue(<<"scan", 0>>)
  /\ UNCHANGED <<sources, sender, stream, sent>>

(* Mutation: ... for ever.                                                 *)
YaraWaits == FALSE

(* ... but not longer than the scan's own deadline of 5 minutes.           *)
YaraGivesUp ==
  /\ hb = "yara"
  /\ hb' = "idle"
  /\ UNCHANGED <<proc, signal, gone, sources, busVars, sender, stream, sent>>

ScanPanics == hb \in {"tool", "yara"} /\ Panic("scan")

(* Between two ticks the loop sees gctx.                                   *)
LoopEnds ==
  /\ hb = "idle"
  /\ gone
  /\ hb' = "ended"
  /\ UNCHANGED <<proc, signal, gone, sources, busVars, sender, stream, sent>>

-----------------------------------------------------------------------------
Signal ==
  /\ ~signal
  /\ signal' = TRUE
  /\ gone' = TRUE
  /\ UNCHANGED <<proc, sources, busVars, group>>

(* g.Wait returns, and main with it, whatever else still runs.             *)
Exit ==
  /\ hb = "ended"
  /\ sender.pc \in {"ended", "failed"}
  /\ proc' = "exited"
  /\ UNCHANGED <<signal, gone, sources, busVars, group>>

Collecting(c) ==
  Collect(c) \/ SourceEnds(c) \/ PumpTakes(c) \/ PumpSends(c) \/ PumpPanics(c)
  \/ PumpEnds(c)

Timing(n) ==
  FileWritten(n) \/ TimerFires(n) \/ TimerScans(n) \/ TimerSends(n)
  \/ TimerPanics(n) \/ TimerGivesUp(n)

Watching == WatcherStarts \/ WatcherEnds \/ \E n \in Timers : Timing(n)

Sending == SenderOpens \/ SenderTakes \/ SenderSends \/ SenderFails \/ SenderCloses

Scanning == ToolReports \/ YaraReports \/ YaraGivesUp \/ ScanPanics

Next ==
  /\ proc = "running"
  /\ \/ \E c \in Collectors : Collecting(c)
     \/ Watching \/ CloseBus \/ Sending \/ SenderQuits \/ StreamBreaks
     \/ StartScan \/ Scanning \/ LoopEnds \/ Signal \/ Exit

Spec == Init /\ [][Next]_vars

(* Goroutines that can go on do; select picks at random among the ready,   *)
(* so what stays ready is picked.                                          *)
Running(A) == proc = "running" /\ A

FairSpec ==
  /\ Spec
  /\ WF_vars(Running(Sending \/ SenderQuits))
  /\ WF_vars(Running(SenderQuits))
  /\ WF_vars(Running(Scanning))
  /\ WF_vars(Running(LoopEnds))
  /\ WF_vars(Running(Exit))

=============================================================================
