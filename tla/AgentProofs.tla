------------------------------ MODULE AgentProofs ------------------------------
(***************************************************************************)
(* Theorems about the agent's process: what the goroutines around eventBus *)
(* keep, for any collectors, channels of any capacity and any number of    *)
(* events, and what a collector that follows a log emits, for any number   *)
(* of lines, rotations and restarts.                                       *)
(***************************************************************************)
EXTENDS AgentBusProps, LogTail, Integers, SequenceTheorems, FiniteSetTheorems,
        WellFoundedInduction, TLAPS

-----------------------------------------------------------------------------
(* The channel of events: AgentBus.                                        *)

(* The head and the tail of a queue of events.                             *)
LEMMA QueueHead ==
  ASSUME NEW q \in Seq(Event), q # <<>>
  PROVE  /\ Head(q) \in Event /\ Head(q) = q[1]
         /\ Len(q) \in Nat /\ Len(q) >= 1
         /\ Tail(q) \in Seq(Event) /\ Len(Tail(q)) = Len(q) - 1
         /\ \A i \in 1..Len(Tail(q)) : Tail(q)[i] = q[i + 1]
  OBVIOUS

(* An event at the end of a queue.                                         *)
LEMMA QueueLast ==
  ASSUME NEW q \in Seq(Event), NEW e \in Event
  PROVE  /\ Append(q, e) \in Seq(Event)
         /\ Len(q) \in Nat /\ Len(Append(q, e)) = Len(q) + 1
         /\ \A i \in 1..Len(q) : Append(q, e)[i] = q[i]
         /\ Append(q, e)[Len(q) + 1] = e
  OBVIOUS

(* The events the agent makes.                                             *)
LEMMA Events ==
  /\ Nothing \in Event /\ <<"timer", 0>> \in Event /\ <<"scan", 0>> \in Event
  /\ \A c \in Collectors, n \in Nat : <<c, n>> \in Event
  BY DEF Nothing, Event, Origins

-----------------------------------------------------------------------------
(* A goroutine puts an event of type Event on the channel.                 *)
LEMMA QueueType ==
  ASSUME TypeOK, NEW e \in Event, Queue(e)
  PROVE  /\ bus' \in Seq(Event)
         /\ UNCHANGED <<proc, signal, gone, closed>>
  BY QueueLast DEF TypeOK, Queue

LEMMA CollectingType ==
  ASSUME TypeOK, NEW c \in Collectors, Collecting(c)
  PROVE  TypeOK'
<1>1. CASE Collect(c)
  <2>1. found[c] + 1 \in 0..MaxEvents /\ found[c] + 1 \in Nat
    BY <1>1, CapAssumption DEF TypeOK, Collect
  <2>2. found' \in [Collectors -> 0..MaxEvents]
    BY <1>1, <2>1 DEF TypeOK, Collect
  <2>3. Append(out[c], <<c, found[c] + 1>>) \in Seq(Event)
    BY <2>1, Events, QueueLast DEF TypeOK
  <2>4. out' \in [Collectors -> Seq(Event)]
    BY <1>1, <2>3 DEF TypeOK, Collect
  <2> QED
    BY <1>1, <2>2, <2>4 DEF TypeOK, Collect, busVars, group, debounce
<1>2. CASE SourceEnds(c)
  BY <1>2 DEF TypeOK, SourceEnds, busVars, group, debounce
<1>3. CASE PumpTakes(c)
  <2>1. Head(out[c]) \in Event /\ Tail(out[c]) \in Seq(Event)
    BY <1>3, QueueHead DEF TypeOK, PumpTakes
  <2>2. /\ pump' \in [Collectors -> [pc : {"waiting", "holding", "done"}, ev : Event]]
        /\ out' \in [Collectors -> Seq(Event)]
    BY <1>3, <2>1 DEF TypeOK, PumpTakes, Held
  <2> QED
    BY <1>3, <2>2 DEF TypeOK, PumpTakes, busVars, group, debounce
<1>4. CASE PumpSends(c)
  <2>1. pump[c].ev \in Event
    BY DEF TypeOK
  <2>2. bus' \in Seq(Event) /\ UNCHANGED <<proc, signal, gone, closed>>
    BY <1>4, <2>1, QueueType DEF PumpSends
  <2>3. pump' \in [Collectors -> [pc : {"waiting", "holding", "done"}, ev : Event]]
    BY <1>4, Events DEF TypeOK, PumpSends, Held
  <2> QED
    BY <1>4, <2>2, <2>3 DEF TypeOK, PumpSends, group, debounce
<1>5. CASE PumpPanics(c)
  BY <1>5 DEF TypeOK, PumpPanics, Panic, Panics, sources, busVars, group, debounce
<1>6. CASE PumpEnds(c)
  <2>1. pump' \in [Collectors -> [pc : {"waiting", "holding", "done"}, ev : Event]]
    BY <1>6, Events DEF TypeOK, PumpEnds, Held
  <2> QED
    BY <1>6, <2>1 DEF TypeOK, PumpEnds, busVars, group, debounce
<1> QED
  BY <1>1, <1>2, <1>3, <1>4, <1>5, <1>6 DEF Collecting

LEMMA TimingType ==
  ASSUME TypeOK, NEW n \in Timers, Timing(n)
  PROVE  /\ timer' \in [Timers -> {"none", "armed", "fired", "sending"}]
         /\ pending' \in Timers \cup {NoTimer}
         /\ dirty' \in BOOLEAN /\ missed' \in BOOLEAN
<1>1. CASE FileWritten(n)
  <2>1. Stopped \in [Timers -> {"none", "armed", "fired", "sending"}]
    BY DEF TypeOK, Stopped
  <2>2. timer' = [Stopped EXCEPT ![n] = "armed"] /\ pending' = n /\ dirty' = TRUE
    BY <1>1 DEF FileWritten, Restart
  <2>3. missed' \in BOOLEAN
    BY <1>1, Zenon DEF FileWritten, TypeOK
  <2> QED
    BY <2>1, <2>2, <2>3
<1>2. CASE TimerFires(n)
  BY <1>2 DEF TypeOK, TimerFires
<1>3. CASE TimerScans(n)
  <2>1. PICK then \in {"none", "sending"} : timer' = [timer EXCEPT ![n] = then]
    BY <1>3 DEF TimerScans
  <2>2. timer' \in [Timers -> {"none", "armed", "fired", "sending"}]
    BY <2>1 DEF TypeOK
  <2>3. pending' = NoTimer /\ dirty' = FALSE
    BY <1>3 DEF TimerScans
  <2>4. missed' \in BOOLEAN
    BY <1>3, Zenon DEF TimerScans, TypeOK
  <2> QED
    BY <2>2, <2>3, <2>4
<1>4. CASE TimerSends(n) \/ TimerGivesUp(n)
  BY <1>4 DEF TypeOK, TimerSends, TimerGivesUp, Done
<1>5. CASE TimerPanics(n)
  BY <1>5 DEF TypeOK, TimerPanics, Panic, sources, debounce
<1> QED
  BY <1>1, <1>2, <1>3, <1>4, <1>5 DEF Timing

LEMMA WatchingType ==
  ASSUME TypeOK, Watching
  PROVE  TypeOK'
<1>1. CASE WatcherStarts \/ WatcherEnds
  BY <1>1 DEF TypeOK, WatcherStarts, WatcherEnds, debounce, busVars, group
<1>2. ASSUME NEW n \in Timers, Timing(n)
      PROVE  TypeOK'
  <2>1. /\ timer' \in [Timers -> {"none", "armed", "fired", "sending"}]
        /\ pending' \in Timers \cup {NoTimer}
        /\ dirty' \in BOOLEAN /\ missed' \in BOOLEAN
    BY <1>2, TimingType
  <2>2. CASE FileWritten(n) \/ TimerFires(n) \/ TimerScans(n) \/ TimerGivesUp(n)
    BY <2>1, <2>2 DEF TypeOK, FileWritten, TimerFires, TimerScans, TimerGivesUp, busVars, group
  <2>3. CASE TimerSends(n)
    <3>1. bus' \in Seq(Event) /\ UNCHANGED <<proc, signal, gone, closed>>
      BY <2>3, Events, QueueType DEF TimerSends
    <3> QED
      BY <2>1, <2>3, <3>1 DEF TypeOK, TimerSends, group
  <2>4. CASE TimerPanics(n)
    BY <2>1, <2>4 DEF TypeOK, TimerPanics, Panic, Panics, sources, busVars, group
  <2> QED
    BY <1>2, <2>2, <2>3, <2>4 DEF Timing
<1> QED
  BY <1>1, <1>2 DEF Watching

LEMMA SendingType ==
  ASSUME TypeOK, Sending \/ SenderQuits \/ StreamBreaks
  PROVE  TypeOK'
<1>1. CASE SenderTakes
  <2>1. Head(bus) \in Event /\ Tail(bus) \in Seq(Event)
    BY <1>1, QueueHead DEF TypeOK, SenderTakes
  <2> QED
    BY <1>1, <2>1 DEF TypeOK, SenderTakes, Held, sources, debounce
<1>2. CASE SenderSends
  <2>1. sender.ev \in Event
    BY DEF TypeOK
  <2>2. \A c \in Collectors : Append(sent[c], sender.ev) \in Seq(Event)
    BY <2>1, QueueLast DEF TypeOK
  <2>3. sent' \in [Collectors -> Seq(Event)]
    BY <1>2, <2>2 DEF TypeOK, SenderSends
  <2> QED
    BY <1>2, <2>3, Events DEF TypeOK, SenderSends, Held, sources, busVars, debounce
<1>3. CASE SenderOpens \/ SenderFails \/ SenderQuits \/ SenderCloses
  <2>1. /\ \E pc \in {"running", "failed", "ended", "closing"} : sender' = Held(pc, Nothing)
        /\ gone' \in BOOLEAN
        /\ UNCHANGED <<proc, signal, sources, busVars, stream, sent, hb>>
    BY <1>3 DEF SenderOpens, SenderFails, SenderQuits, SenderCloses, TypeOK
  <2>2. sender' \in [pc : {"opening", "running", "sending", "closing", "ended", "failed"},
                     ev : Event]
    BY <2>1, Events DEF Held
  <2> QED
    BY <2>1, <2>2 DEF TypeOK, sources, busVars, debounce
<1>4. CASE StreamBreaks
  BY <1>4 DEF TypeOK, StreamBreaks, sources, busVars, debounce
<1> QED
  BY <1>1, <1>2, <1>3, <1>4 DEF Sending

LEMMA LoopType ==
  ASSUME TypeOK, StartScan \/ Scanning \/ LoopEnds
  PROVE  TypeOK'
<1>1. CASE StartScan \/ YaraGivesUp \/ LoopEnds
  BY <1>1 DEF TypeOK, StartScan, YaraGivesUp, LoopEnds, sources, busVars, debounce
<1>2. CASE ToolReports \/ YaraReports
  <2>1. bus' \in Seq(Event) /\ UNCHANGED <<proc, signal, gone, closed>>
    BY <1>2, Events, QueueType DEF ToolReports, YaraReports, busVars, TypeOK
  <2> QED
    BY <1>2, <2>1 DEF TypeOK, ToolReports, YaraReports, sources, debounce
<1>3. CASE ScanPanics
  BY <1>3 DEF TypeOK, ScanPanics, Panic, Panics, sources, busVars, group, debounce
<1> QED
  BY <1>1, <1>2, <1>3 DEF Scanning

(* The variables keep their types from step to step.                       *)
LEMMA TypeKept ==
  ASSUME TypeOK, [Next]_vars
  PROVE  TypeOK'
<1>1. CASE CloseBus \/ Signal \/ Exit
  <2>1. /\ proc' \in {"running", "exited"} \/ proc' = proc
        /\ signal' \in BOOLEAN /\ gone' \in BOOLEAN /\ closed' \in BOOLEAN
        /\ UNCHANGED <<sources, bus, group>>
    BY <1>1 DEF TypeOK, CloseBus, Signal, Exit, busVars
  <2> QED
    BY <2>1 DEF TypeOK, sources, group, debounce
<1>2. CASE UNCHANGED vars
  BY <1>2 DEF TypeOK, vars, sources, busVars, group, debounce
<1> QED
  BY <1>1, <1>2, CollectingType, WatchingType, SendingType, LoopType DEF Next

-----------------------------------------------------------------------------
(* No event but a collector's own carries its name.                        *)
LEMMA Foreign ==
  ASSUME NEW c \in Collectors
  PROVE  Nothing[1] # c /\ <<"timer", 0>>[1] # c /\ <<"scan", 0>>[1] # c
  BY OriginAssumption DEF Nothing

(* Who holds an event, from step to step.                                  *)
LEMMA HeldKept ==
  ASSUME TypeOK, HeldInv, [Next]_vars
  PROVE  HeldInv'
<1>1. ASSUME NEW c \in Collectors, Collecting(c)
      PROVE  HeldInv'
  <2>1. CASE Collect(c)
    <3>1. /\ found[c] + 1 \in Nat /\ out[c] \in Seq(Event)
          /\ out' = [out EXCEPT ![c] = Append(out[c], <<c, found[c] + 1>>)]
          /\ UNCHANGED <<sender, pump>>
      BY <2>1 DEF Collect, TypeOK, group
    <3>2. \A i \in 1..Len(out'[c]) : out'[c][i][1] = c
      BY <3>1, Events, QueueLast DEF HeldInv, TypeOK
    <3> QED
      BY <3>1, <3>2 DEF HeldInv, TypeOK
  <2>2. CASE PumpTakes(c)
    <3>1. /\ out[c] \in Seq(Event) /\ out[c] # <<>>
          /\ out' = [out EXCEPT ![c] = Tail(out[c])]
          /\ pump' = [pump EXCEPT ![c] = Held("holding", Head(out[c]))]
          /\ UNCHANGED sender
      BY <2>2 DEF PumpTakes, TypeOK, group
    <3>2. Head(out[c])[1] = c /\ \A i \in 1..Len(out'[c]) : out'[c][i][1] = c
      BY <3>1, QueueHead DEF HeldInv, TypeOK
    <3> QED
      BY <3>1, <3>2 DEF HeldInv, TypeOK, Held
  <2>3. CASE SourceEnds(c) \/ PumpPanics(c)
    BY <2>3 DEF SourceEnds, PumpPanics, Panic, HeldInv, sources, group
  <2>4. CASE PumpSends(c) \/ PumpEnds(c)
    <3>1. /\ \E pc \in {"waiting", "done"} : pump' = [pump EXCEPT ![c] = Held(pc, Nothing)]
          /\ UNCHANGED <<sender, out>>
      BY <2>4 DEF PumpSends, PumpEnds, group
    <3> QED
      BY <3>1 DEF HeldInv, TypeOK, Held
  <2> QED
    BY <1>1, <2>1, <2>2, <2>3, <2>4 DEF Collecting
<1>2. CASE Sending \/ SenderQuits
  <2>1. UNCHANGED <<pump, out>>
    BY <1>2 DEF Sending, SenderOpens, SenderTakes, SenderSends, SenderFails,
                SenderCloses, SenderQuits, sources
  <2>2. sender'.pc # "sending" => sender'.ev = Nothing
    BY <1>2 DEF Sending, SenderOpens, SenderTakes, SenderSends, SenderFails,
                SenderCloses, SenderQuits, Held
  <2> QED
    BY <2>1, <2>2 DEF HeldInv
<1>3. CASE \/ Watching \/ CloseBus \/ StreamBreaks \/ StartScan \/ Scanning
           \/ LoopEnds \/ Signal \/ Exit \/ UNCHANGED vars
  <2>1. UNCHANGED <<sender, pump, out>>
    BY <1>3 DEF Watching, WatcherStarts, WatcherEnds, Timing, FileWritten, TimerFires,
      TimerScans, TimerSends, TimerPanics, TimerGivesUp, CloseBus, StreamBreaks, StartScan,
      Scanning, ToolReports, YaraReports, YaraGivesUp, ScanPanics, LoopEnds,
      Signal, Exit, Panic, sources, group, vars
  <2> QED
    BY <2>1 DEF HeldInv
<1> QED
  BY <1>1, <1>2, <1>3 DEF Next

(* Who is past his last send when the channel is closed: whoever returned  *)
(* stays returned, and a timer outlives its watcher only under a signal.   *)
LEMMA CloseKept ==
  ASSUME TypeOK, CloseInv, [Next]_vars
  PROVE  CloseInv'
<1>1. ASSUME NEW c \in Collectors, Collecting(c)
      PROVE  CloseInv'
  <2>1. UNCHANGED <<closed, watcher, timer, signal>>
    BY <1>1 DEF Collecting, Collect, SourceEnds, PumpTakes, PumpSends, PumpPanics,
                PumpEnds, Queue, Panic, sources, debounce, busVars
  <2>2. closed => source[c] = "ended" /\ pump[c].pc = "done"
    BY DEF CloseInv, AllReturned
  <2>3. closed => UNCHANGED <<source, pump>>
    BY <1>1, <2>2 DEF Collecting, Collect, SourceEnds, PumpTakes, PumpSends, PumpPanics,
                      PumpEnds, Panic, sources
  <2> QED
    BY <2>1, <2>3 DEF CloseInv, AllReturned
<1>2. CASE Watching
  <2>1. UNCHANGED <<closed, source, pump, signal>>
    BY <1>2 DEF Watching, WatcherStarts, WatcherEnds, Timing, FileWritten, TimerFires,
      TimerScans, TimerSends, TimerPanics, TimerGivesUp, Queue, Panic, sources, busVars
  <2>2. watcher \in {"off", "done"} => watcher' = watcher
    BY <1>2 DEF Watching, WatcherStarts, WatcherEnds, Timing, FileWritten, TimerFires,
      TimerScans, TimerSends, TimerPanics, TimerGivesUp, Panic, sources
  <2>3. ASSUME NEW m \in Timers, timer'[m] # "none"
        PROVE  watcher' = "running" \/ signal'
    <3>1. CASE WatcherStarts \/ WatcherEnds
      BY <2>1, <2>3, <3>1 DEF CloseInv, WatcherStarts, WatcherEnds, WatcherMustEnd, debounce
    <3>2. ASSUME NEW n \in Timers, Timing(n)
          PROVE  watcher' = "running" \/ signal'
      <4>1. watcher' = watcher
        BY <3>2 DEF Timing, FileWritten, TimerFires, TimerScans, TimerSends, TimerPanics,
          TimerGivesUp, Panic, sources
      <4>2. \/ watcher = "running"
            \/ timer[n] # "none" /\ (m # n => timer'[m] = timer[m])
        BY <3>2 DEF Timing, FileWritten, TimerFires, TimerScans, TimerSends, TimerPanics,
          TimerGivesUp, Done, Panic, sources, debounce, TypeOK
      <4> QED
        BY <2>1, <4>1, <4>2 DEF CloseInv
    <3> QED
      BY <1>2, <3>1, <3>2 DEF Watching
  <2> QED
    BY <2>1, <2>2, <2>3 DEF CloseInv, AllReturned
<1>3. CASE CloseBus
  BY <1>3 DEF CloseInv, CloseBus, AllReturned, sources, debounce
<1>4. CASE \/ Sending \/ SenderQuits \/ StreamBreaks \/ StartScan \/ Scanning
           \/ LoopEnds \/ Signal \/ Exit \/ UNCHANGED vars
  <2>1. UNCHANGED <<closed, source, pump, watcher, timer>> /\ (signal => signal')
    BY <1>4 DEF Sending, SenderOpens, SenderTakes, SenderSends, SenderFails,
      SenderCloses, SenderQuits, StreamBreaks, StartScan,
      Scanning, ToolReports, YaraReports, YaraGivesUp, ScanPanics, LoopEnds,
      Signal, Exit, Queue, Panic, sources, debounce, busVars, vars
  <2> QED
    BY <2>1 DEF CloseInv, AllReturned
<1> QED
  BY <1>1, <1>2, <1>3, <1>4 DEF Next

(* The timers: what is written has a scan to come, by the timer in the map *)
(* unless Stop missed one that has fired.                                  *)
LEMMA TimingKeeps ==
  ASSUME TypeOK, WrittenIsDue, Debounced, NEW n \in Timers, Timing(n)
  PROVE  WrittenIsDue' /\ Debounced'
<1>1. CASE FileWritten(n)
  <2>1. Stopped \in [Timers -> {"none", "armed", "fired", "sending"}]
    BY DEF TypeOK, Stopped
  <2>2. timer' = [Stopped EXCEPT ![n] = "armed"] /\ pending' = n
    BY <1>1 DEF FileWritten, Restart
  <2>3. n \in Due'
    BY <2>1, <2>2 DEF Due
  <2>4. ASSUME ~missed', NEW m \in Due'
        PROVE  m = n
    <3>1. ~missed /\ ~(m = pending /\ timer[m] = "fired")
      BY <1>1, <2>4 DEF FileWritten, Due
    <3>2. SUFFICES ASSUME m # n PROVE FALSE
      OBVIOUS
    <3>3. m \in Timers /\ Stopped[m] \in {"armed", "fired"}
      BY <2>1, <2>2, <2>4, <3>2 DEF Due
    <3>4. timer[m] \in {"armed", "fired"} /\ ~(m = pending /\ timer[m] = "armed")
      BY <3>3 DEF Stopped
    <3>5. m = pending
      BY <3>1, <3>3, <3>4 DEF Debounced, Due
    <3> QED
      BY <3>1, <3>4, <3>5
  <2> QED
    BY <2>2, <2>3, <2>4 DEF WrittenIsDue, Debounced
<1>2. CASE TimerFires(n)
  <2>1. Due' = Due
    BY <1>2 DEF TypeOK, TimerFires, Due
  <2> QED
    BY <1>2, <2>1 DEF TimerFires, WrittenIsDue, Debounced
<1>3. CASE TimerScans(n)
  <2>1. PICK then \in {"none", "sending"} : timer' = [timer EXCEPT ![n] = then]
    BY <1>3 DEF TimerScans
  <2>2. n \in Due /\ Due' = Due \ {n} /\ ~dirty'
    BY <1>3, <2>1 DEF TypeOK, TimerScans, Due
  <2>3. missed' <=> missed /\ Due # {n}
    BY <1>3 DEF TimerScans
  <2>4. CASE missed
    BY <2>2, <2>3, <2>4 DEF WrittenIsDue, Debounced
  <2>5. CASE ~missed
    <3>1. \A m \in Due : m = n
      BY <2>2, <2>5 DEF Debounced
    <3>2. Due' = {}
      BY <2>2, <3>1
    <3> QED
      BY <2>2, <3>2 DEF WrittenIsDue, Debounced
  <2> QED
    BY <2>4, <2>5
<1>4. CASE TimerSends(n) \/ TimerGivesUp(n)
  <2>1. Due' = Due
    BY <1>4 DEF TypeOK, TimerSends, TimerGivesUp, Done, Due
  <2>2. UNCHANGED <<pending, dirty, missed>>
    BY <1>4 DEF TimerSends, TimerGivesUp, Done
  <2> QED
    BY <2>1, <2>2 DEF WrittenIsDue, Debounced
<1>5. CASE TimerPanics(n)
  BY <1>5 DEF TimerPanics, Panic, sources, debounce, Due, WrittenIsDue, Debounced
<1> QED
  BY <1>1, <1>2, <1>3, <1>4, <1>5 DEF Timing

LEMMA DebounceKept ==
  ASSUME TypeOK, WrittenIsDue, Debounced, [Next]_vars
  PROVE  WrittenIsDue' /\ Debounced'
<1>1. CASE \E n \in Timers : Timing(n)
  BY <1>1, TimingKeeps
<1>2. CASE ~ \E n \in Timers : Timing(n)
  <2>1. UNCHANGED debounce
    BY <1>2 DEF Next, Collecting, Collect, SourceEnds, PumpTakes, PumpSends, PumpPanics,
      PumpEnds, Watching, WatcherStarts, WatcherEnds, CloseBus, Sending, SenderOpens,
      SenderTakes, SenderSends, SenderFails, SenderCloses, SenderQuits, StreamBreaks,
      StartScan, Scanning, ToolReports, YaraReports, YaraGivesUp, ScanPanics, LoopEnds,
      Signal, Exit, Queue, Panic, sources, vars
  <2> QED
    BY <2>1 DEF debounce, Due, WrittenIsDue, Debounced
<1> QED
  BY <1>1, <1>2

(* Only a send on the closed channel panics.                               *)
LEMMA WhoPanics ==
  ASSUME [Next]_vars
  PROVE  \/ proc' \in {proc, "exited"}
         \/ \E c \in Collectors : PumpPanics(c)
         \/ \E n \in Timers : TimerPanics(n)
         \/ ScanPanics
  BY DEF Next, Collecting, Collect, SourceEnds, PumpTakes, PumpSends, PumpEnds,
    Watching, WatcherStarts, WatcherEnds, Timing, FileWritten,
    TimerFires, TimerScans, TimerSends, TimerGivesUp, CloseBus, Sending, SenderOpens, SenderTakes, SenderSends, SenderFails,
    SenderCloses, SenderQuits, StreamBreaks, StartScan, Scanning, ToolReports, YaraReports,
    YaraGivesUp, LoopEnds, Signal, Exit, Queue, vars

LEMMA SignalStays ==
  ASSUME TypeOK, [Next]_vars
  PROVE  signal => signal'
  BY DEF TypeOK, Next, Collecting, Collect, SourceEnds, PumpTakes, PumpSends, PumpEnds,
    PumpPanics, TimerPanics, ScanPanics, Panic,
    Watching, WatcherStarts, WatcherEnds, Timing, FileWritten,
    TimerFires, TimerScans, TimerSends, TimerGivesUp, CloseBus, Sending, SenderOpens, SenderTakes, SenderSends, SenderFails,
    SenderCloses, SenderQuits, StreamBreaks, StartScan, Scanning, ToolReports, YaraReports,
    YaraGivesUp, LoopEnds, Signal, Exit, Queue, vars

LEMMA PanicKept ==
  ASSUME TypeOK, CloseInv, PumpsNeverPanic, TimerPanicsOnlyStopping, [Next]_vars
  PROVE  PumpsNeverPanic' /\ TimerPanicsOnlyStopping'
<1>1. CASE proc' \in {proc, "exited"}
  BY <1>1, SignalStays DEF PumpsNeverPanic, TimerPanicsOnlyStopping
<1>2. ~ \E c \in Collectors : PumpPanics(c)
  BY DEF PumpPanics, Panic, CloseInv, AllReturned
<1>3. ASSUME NEW n \in Timers, TimerPanics(n)
      PROVE  PumpsNeverPanic' /\ TimerPanicsOnlyStopping'
  <2>1. /\ proc' = "timer" /\ signal' = signal
        /\ closed /\ timer[n] # "none"
    BY <1>3 DEF TimerPanics, Panic
  <2>2. signal
    BY <2>1 DEF CloseInv, AllReturned
  <2> QED
    BY <2>1, <2>2 DEF PumpsNeverPanic, TimerPanicsOnlyStopping
<1>4. CASE ScanPanics
  BY <1>4 DEF ScanPanics, Panic, PumpsNeverPanic, TimerPanicsOnlyStopping
<1> QED
  BY <1>1, <1>2, <1>3, <1>4, WhoPanics

-----------------------------------------------------------------------------
(* The place of the events of one collector c.  A step that moves none of  *)
(* them, whatever it does with the events of others.                       *)
LEMMA PlaceSame ==
  ASSUME NEW c \in Collectors, PlaceInv(c),
         sent'[c] = sent[c], bus' = bus, out'[c] = out[c], found'[c] = found[c],
         \/ sender'.ev = sender.ev
         \/ sender.ev[1] # c /\ sender'.ev[1] # c,
         \/ pump'[c].ev = pump[c].ev
         \/ pump[c].ev[1] # c /\ pump'[c].ev[1] # c
  PROVE  PlaceInv(c)'
<1>1. Has(sender.ev, c)' = Has(sender.ev, c) /\ Has(pump[c].ev, c)' = Has(pump[c].ev, c)
  BY DEF Has
<1> QED
  BY <1>1 DEF PlaceInv, Left, Entered

(* An event of another origin is put on the channel.                       *)
LEMMA PlaceForeign ==
  ASSUME TypeOK, NEW c \in Collectors, PlaceInv(c), NEW e \in Event, e[1] # c,
         bus' = Append(bus, e),
         sent'[c] = sent[c], out'[c] = out[c], found'[c] = found[c],
         sender'.ev = sender.ev, pump'[c].ev = pump[c].ev
  PROVE  PlaceInv(c)'
<1>1. Left(c)' = Left(c) /\ Entered(c)' = Entered(c)
  BY DEF Left, Entered, Has
<1>2. /\ Len(bus) \in Nat /\ Len(bus') = Len(bus) + 1
      /\ \A i \in 1..Len(bus) : bus'[i] = bus[i]
      /\ bus'[Len(bus) + 1] = e
  BY QueueLast DEF TypeOK
<1>3. \A i \in 1..Len(bus') : bus'[i][1] = c => i \in 1..Len(bus)
  BY <1>2
<1>4. \A n \in 1..found'[c] :
        Left(c)' < n /\ n <= Entered(c)' => \E i \in 1..Len(bus') : bus'[i] = <<c, n>>
  <2> SUFFICES ASSUME NEW n \in 1..found[c], Left(c) < n, n <= Entered(c)
               PROVE  \E i \in 1..Len(bus') : bus'[i] = <<c, n>>
    BY <1>1
  <2>1. PICK i \in 1..Len(bus) : bus[i] = <<c, n>>
    BY DEF PlaceInv
  <2> QED
    BY <2>1, <1>2
<1>5. \A i \in 1..Len(bus') :
        bus'[i][1] = c => Left(c)' < bus'[i][2] /\ bus'[i][2] <= Entered(c)'
  BY <1>1, <1>2, <1>3 DEF PlaceInv
<1>6. \A i, j \in 1..Len(bus') :
        i < j /\ bus'[i][1] = c /\ bus'[j][1] = c => bus'[i][2] < bus'[j][2]
  BY <1>2, <1>3 DEF PlaceInv
<1> QED
  BY <1>1, <1>4, <1>5, <1>6 DEF PlaceInv

(* The collector finds its next event.                                     *)
LEMMA PlaceCollect ==
  ASSUME TypeOK, NEW c \in Collectors, PlaceInv(c), Collect(c)
  PROVE  PlaceInv(c)'
<1>1. /\ out[c] \in Seq(Event) /\ found[c] \in Nat
      /\ found'[c] = found[c] + 1
      /\ out'[c] = Append(out[c], <<c, found[c] + 1>>)
      /\ UNCHANGED <<pump, bus, sender, sent>>
  BY DEF Collect, TypeOK, busVars, group
<1>2. /\ Len(out[c]) \in Nat /\ Len(out'[c]) = Len(out[c]) + 1
      /\ \A i \in 1..Len(out[c]) : out'[c][i] = out[c][i]
      /\ out'[c][Len(out[c]) + 1] = <<c, found[c] + 1>>
  BY <1>1, Events, QueueLast
<1>3. Left(c)' = Left(c)
  BY <1>1 DEF Left, Has
<1>4. Has(pump[c].ev, c)' = Has(pump[c].ev, c) /\ Has(pump[c].ev, c) \in {0, 1}
  BY <1>1 DEF Has
<1>5. /\ Len(out[c]) \in Nat /\ Len(out'[c]) = Len(out[c]) + 1
      /\ found[c] \in Nat /\ found'[c] = found[c] + 1
  BY <1>1, <1>2
<1>6. found'[c] - Len(out'[c]) = found[c] - Len(out[c])
  BY <1>5
<1>7. Entered(c)' = Entered(c) /\ Entered(c) <= found[c]
  <2>1. /\ Entered(c) = found[c] - Len(out[c]) - Has(pump[c].ev, c)
        /\ Entered(c)' = found'[c] - Len(out'[c]) - Has(pump[c].ev, c)
    BY <1>1 DEF Entered, Has
  <2>2. Entered(c)' = Entered(c)
    BY <2>1, <1>4, <1>6
  <2>3. Entered(c) <= found[c]
    BY <2>1, <1>4, <1>5
  <2> QED  BY <2>2, <2>3
<1>8. \A i \in 1..Len(out'[c]) : out'[c][i] = <<c, found'[c] - Len(out'[c]) + i>>
  <2> SUFFICES ASSUME NEW i \in 1..Len(out'[c])
               PROVE  out'[c][i] = <<c, found[c] - Len(out[c]) + i>>
    BY <1>6
  <2>1. CASE i \in 1..Len(out[c])
    BY <2>1, <1>2 DEF PlaceInv
  <2>2. CASE i = Len(out[c]) + 1
    <3>1. found[c] - Len(out[c]) + i = found[c] + 1
      BY <2>2, <1>1, <1>2
    <3> QED
      BY <3>1, <2>2, <1>2
  <2> QED
    BY <2>1, <2>2, <1>2
<1>9. \A n \in 1..found'[c] :
        Left(c)' < n /\ n <= Entered(c)' => \E i \in 1..Len(bus') : bus'[i] = <<c, n>>
  <2> SUFFICES ASSUME NEW n \in 1..found'[c], Left(c) < n, n <= Entered(c)
               PROVE  \E i \in 1..Len(bus) : bus[i] = <<c, n>>
    <3>1. bus' = bus /\ Left(c)' = Left(c) /\ Entered(c)' = Entered(c)
      BY <1>1, <1>3, <1>7
    <3> QED
      BY <3>1
  <2>1. Entered(c) \in Int
    BY <1>1, <1>2, <1>4 DEF Entered
  <2>2. n \in 1..found[c]
    BY <2>1, <1>1, <1>7
  <2> QED
    BY <2>2 DEF PlaceInv
<1> QED
  BY <1>1, <1>3, <1>6, <1>8, <1>9, <1>7 DEF PlaceInv

(* The pump takes the oldest event of the collector's own channel.         *)
LEMMA PlaceTakes ==
  ASSUME TypeOK, HeldInv, NEW c \in Collectors, PlaceInv(c), PumpTakes(c)
  PROVE  PlaceInv(c)'
<1>1. /\ out[c] \in Seq(Event) /\ out[c] # <<>> /\ found[c] \in Nat
      /\ out'[c] = Tail(out[c]) /\ pump'[c].ev = Head(out[c])
      /\ UNCHANGED <<found, bus, sender, sent>>
  BY DEF PumpTakes, TypeOK, Held, busVars, group
<1>2. /\ Len(out[c]) \in Nat /\ Len(out[c]) >= 1
      /\ Len(out'[c]) = Len(out[c]) - 1
      /\ \A i \in 1..Len(out'[c]) : out'[c][i] = out[c][i + 1]
      /\ pump'[c].ev = out[c][1]
  BY <1>1, QueueHead
<1>3. Left(c)' = Left(c)
  BY <1>1 DEF Left, Has
<1>4. found[c] - Len(out'[c]) = found[c] - Len(out[c]) + 1
  BY <1>1, <1>2
<1>5. pump'[c].ev = <<c, found[c] - Len(out'[c])>>
  BY <1>2, <1>4 DEF PlaceInv
<1>6. Has(pump[c].ev, c)' = 1 /\ Has(pump[c].ev, c) = 0
  BY <1>5, Foreign DEF Has, HeldInv, PumpTakes
<1>7. Entered(c)' = Entered(c)
  BY <1>1, <1>2, <1>4, <1>6 DEF Entered
<1>8. \A i \in 1..Len(out'[c]) : out'[c][i] = <<c, found'[c] - Len(out'[c]) + i>>
  <2> SUFFICES ASSUME NEW i \in 1..Len(out'[c])
               PROVE  out'[c][i] = <<c, found[c] - Len(out'[c]) + i>>
    BY <1>1
  <2>1. out'[c][i] = <<c, found[c] - Len(out[c]) + (i + 1)>>
    BY <1>2 DEF PlaceInv
  <2>2. found[c] - Len(out[c]) + (i + 1) = found[c] - Len(out'[c]) + i
    BY SMTT(40), <1>1, <1>2
  <2> QED
    BY <2>1, <2>2
<1> QED
  BY <1>1, <1>3, <1>5, <1>7, <1>8 DEF PlaceInv

(* The pump puts its event on the channel.                                 *)
LEMMA PlaceSends ==
  ASSUME TypeOK, HeldInv, NEW c \in Collectors, PlaceInv(c), PumpSends(c)
  PROVE  PlaceInv(c)'
<1>1. /\ out[c] \in Seq(Event) /\ found[c] \in Nat /\ bus \in Seq(Event)
      /\ pump[c].ev \in Event /\ pump[c].ev[1] = c
      /\ bus' = Append(bus, pump[c].ev)
      /\ pump'[c].ev = Nothing
      /\ UNCHANGED <<found, out, sender, sent>>
  BY DEF PumpSends, Queue, HeldInv, TypeOK, Held, group
<1>2. pump[c].ev = <<c, found[c] - Len(out[c])>>
  BY <1>1 DEF PlaceInv
<1>3. /\ Len(bus) \in Nat /\ Len(bus') = Len(bus) + 1
      /\ \A i \in 1..Len(bus) : bus'[i] = bus[i]
      /\ bus'[Len(bus) + 1] = <<c, found[c] - Len(out[c])>>
  BY <1>1, <1>2, QueueLast
<1>4. Left(c)' = Left(c)
  BY <1>1 DEF Left, Has
<1>5. Has(pump[c].ev, c) = 1 /\ Has(pump[c].ev, c)' = 0
  BY <1>1, Foreign DEF Has
<1>6. Len(out[c]) \in Nat
  BY <1>1
<1>7. Entered(c)' = found[c] - Len(out[c]) /\ Entered(c) = found[c] - Len(out[c]) - 1
  BY <1>1, <1>5, <1>6 DEF Entered
<1>8. Left(c) \in Nat
  BY DEF Left, Has, TypeOK
<1> DEFINE m == found[c] - Len(out[c])
<1>9. m \in Int /\ Entered(c)' = m /\ Entered(c) = m - 1 /\ bus'[Len(bus) + 1] = <<c, m>>
  BY <1>1, <1>3, <1>6, <1>7
<1> HIDE DEF m
<1>10. \A n \in 1..found'[c] :
         Left(c)' < n /\ n <= Entered(c)' => \E i \in 1..Len(bus') : bus'[i] = <<c, n>>
  <2> SUFFICES ASSUME NEW n \in 1..found[c], Left(c) < n, n <= m
               PROVE  \E i \in 1..Len(bus') : bus'[i] = <<c, n>>
    BY <1>1, <1>4, <1>9
  <2>1. CASE n = m
    BY <2>1, <1>3, <1>9
  <2>2. CASE n # m
    <3>1. n <= Entered(c)
      BY <2>2, <1>9
    <3>2. PICK i \in 1..Len(bus) : bus[i] = <<c, n>>
      BY <3>1 DEF PlaceInv
    <3> QED
      BY <3>2, <1>3
  <2> QED
    BY <2>1, <2>2
<1>11. \A i \in 1..Len(bus') :
         bus'[i][1] = c => Left(c)' < bus'[i][2] /\ bus'[i][2] <= Entered(c)'
  <2> SUFFICES ASSUME NEW i \in 1..Len(bus'), bus'[i][1] = c
               PROVE  Left(c) < bus'[i][2] /\ bus'[i][2] <= m
    BY <1>4, <1>9
  <2>1. CASE i \in 1..Len(bus)
    <3>1. bus[i][2] \in Nat /\ Left(c) < bus[i][2] /\ bus[i][2] <= Entered(c)
      BY <2>1, <1>1, <1>3 DEF PlaceInv, Event
    <3> QED
      BY <3>1, <2>1, <1>3, <1>9
  <2>2. CASE i = Len(bus) + 1
    <3>1. Left(c) <= Entered(c)
      BY DEF PlaceInv
    <3> QED
      BY <3>1, <2>2, <1>8, <1>9
  <2> QED
    BY <2>1, <2>2, <1>3
<1>12. \A i, j \in 1..Len(bus') :
         i < j /\ bus'[i][1] = c /\ bus'[j][1] = c => bus'[i][2] < bus'[j][2]
  <2> SUFFICES ASSUME NEW i \in 1..Len(bus'), NEW j \in 1..Len(bus'),
                      i < j, bus'[i][1] = c, bus'[j][1] = c
               PROVE  bus'[i][2] < bus'[j][2]
    OBVIOUS
  <2>1. i \in 1..Len(bus) /\ bus'[i] = bus[i]
    BY <1>3
  <2>2. CASE j \in 1..Len(bus)
    BY <2>1, <2>2, <1>3 DEF PlaceInv
  <2>3. CASE j = Len(bus) + 1
    <3>1. bus[i][2] \in Nat /\ bus[i][2] <= Entered(c)
      BY <2>1, <1>1 DEF PlaceInv, Event
    <3> QED
      BY <3>1, <2>1, <2>3, <1>9
  <2> QED
    BY <2>2, <2>3, <1>3
<1>13. Left(c)' <= Entered(c)'
  BY <1>4, <1>8, <1>9 DEF PlaceInv
<1>14. pump'[c].ev[1] # c
  BY <1>1, Foreign
<1> QED
  BY <1>1, <1>4, <1>10, <1>11, <1>12, <1>13, <1>14 DEF PlaceInv

(* The sender takes the oldest event of the channel.                       *)
LEMMA PlaceSenderTakes ==
  ASSUME TypeOK, HeldInv, NEW c \in Collectors, PlaceInv(c), SenderTakes
  PROVE  PlaceInv(c)'
<1>1. /\ bus \in Seq(Event) /\ bus # <<>>
      /\ bus' = Tail(bus) /\ sender'.ev = Head(bus) /\ sender.ev = Nothing
      /\ UNCHANGED <<found, out, pump, sent>>
  BY DEF SenderTakes, TypeOK, HeldInv, Held, sources
<1>2. /\ Len(bus) \in Nat /\ Len(bus) >= 1
      /\ Len(bus') = Len(bus) - 1
      /\ \A i \in 1..Len(bus') : bus'[i] = bus[i + 1] /\ i + 1 \in 1..Len(bus) /\ i \in Nat
      /\ 1 \in 1..Len(bus)
      /\ sender'.ev = bus[1]
  BY <1>1, QueueHead
<1>3. Entered(c)' = Entered(c) /\ Entered(c) \in Int
  BY <1>1 DEF Entered, Has, TypeOK
<1>4. sender.ev[1] # c
  BY <1>1, Foreign
<1>5. Left(c) = Len(sent[c]) /\ Len(sent[c]) \in Nat
  BY <1>4 DEF Left, Has, TypeOK
<1>6. \A n \in 1..found[c] :
        Left(c) < n /\ n <= Entered(c) => \E i \in 1..Len(bus) : bus[i] = <<c, n>>
  BY DEF PlaceInv
<1>7. \A i, j \in 1..Len(bus) :
        i < j /\ bus[i][1] = c /\ bus[j][1] = c => bus[i][2] < bus[j][2]
  BY DEF PlaceInv
<1>8. \A i, j \in 1..Len(bus') :
        i < j /\ bus'[i][1] = c /\ bus'[j][1] = c => bus'[i][2] < bus'[j][2]
  <2> SUFFICES ASSUME NEW i \in 1..Len(bus'), NEW j \in 1..Len(bus'),
                      i < j, bus'[i][1] = c, bus'[j][1] = c
               PROVE  bus'[i][2] < bus'[j][2]
    OBVIOUS
  <2>1. /\ i + 1 \in 1..Len(bus) /\ j + 1 \in 1..Len(bus) /\ i + 1 < j + 1
        /\ bus'[i] = bus[i + 1] /\ bus'[j] = bus[j + 1]
    BY <1>2
  <2> QED
    BY <2>1, <1>7
<1>9. CASE bus[1][1] # c
  <2>1. Left(c)' = Left(c)
    BY <1>1, <1>2, <1>4, <1>9 DEF Left, Has
  <2>2. \A n \in 1..found'[c] :
          Left(c)' < n /\ n <= Entered(c)' => \E i \in 1..Len(bus') : bus'[i] = <<c, n>>
    <3> SUFFICES ASSUME NEW n \in 1..found[c], Left(c) < n, n <= Entered(c)
                 PROVE  \E i \in 1..Len(bus') : bus'[i] = <<c, n>>
      BY <1>1, <1>3, <2>1
    <3>1. PICK i \in 1..Len(bus) : bus[i] = <<c, n>>
      BY DEF PlaceInv
    <3>2. i # 1
      BY <3>1, <1>9
    <3>3. i - 1 \in 1..Len(bus') /\ (i - 1) + 1 = i
      BY <3>2, <1>2
    <3>4. bus'[i - 1] = bus[i]
      BY <3>3, <1>2
    <3> QED
      BY <3>1, <3>3, <3>4
  <2>3. \A i \in 1..Len(bus') :
          bus'[i][1] = c => Left(c)' < bus'[i][2] /\ bus'[i][2] <= Entered(c)'
    BY <1>2, <1>3, <2>1 DEF PlaceInv
  <2>4. \A i, j \in 1..Len(bus') :
          i < j /\ bus'[i][1] = c /\ bus'[j][1] = c => bus'[i][2] < bus'[j][2]
    BY <1>8
  <2>5. sender'.ev[1] # c
    BY <1>2, <1>9
  <2> QED
    BY <1>1, <1>3, <2>1, <2>2, <2>3, <2>4, <2>5 DEF PlaceInv
<1>10. CASE bus[1][1] = c
  <2>1. Left(c)' = Left(c) + 1 /\ Left(c)' = Len(sent[c]) + 1
    BY <1>1, <1>2, <1>5, <1>10 DEF Left, Has
  <2>2. /\ bus[1] \in Event /\ bus[1][2] \in Nat
        /\ Left(c) < bus[1][2] /\ bus[1][2] <= Entered(c)
    BY <1>1, <1>2, <1>10 DEF PlaceInv, Event
  <2>3. Left(c) + 1 \in 1..found[c] /\ Left(c) + 1 <= Entered(c)
    <3>1. Entered(c) <= found[c] /\ found[c] \in Nat
      BY DEF Entered, Has, TypeOK
    <3> QED
      BY <3>1, <2>2, <1>3, <1>5
  <2>4. PICK k \in 1..Len(bus) : bus[k] = <<c, Left(c) + 1>>
    <3> DEFINE n == Left(c) + 1
    <3>1. n \in 1..found[c] /\ Left(c) < n /\ n <= Entered(c)
      BY <2>3, <1>5
    <3> HIDE DEF n
    <3>2. \E k \in 1..Len(bus) : bus[k] = <<c, n>>
      BY <3>1, <1>6
    <3> QED
      BY <3>2 DEF n
  <2>5. k = 1
    <3>1. ASSUME k # 1 PROVE FALSE
      <4>1. 1 < k /\ bus[k][1] = c /\ bus[k][2] = Left(c) + 1
        BY <3>1, <2>4, <1>2
      <4>2. bus[1][2] < Left(c) + 1
        BY <4>1, <1>2, <1>10 DEF PlaceInv
      <4> QED
        BY <4>2, <2>2, <1>5
    <3> QED
      BY <3>1
  <2>6. bus[1] = <<c, Left(c) + 1>>
    BY <2>4, <2>5
  <2>7. \A n \in 1..found'[c] :
          Left(c)' < n /\ n <= Entered(c)' => \E i \in 1..Len(bus') : bus'[i] = <<c, n>>
    <3> SUFFICES ASSUME NEW n \in 1..found[c], Left(c) + 1 < n, n <= Entered(c)
                 PROVE  \E i \in 1..Len(bus') : bus'[i] = <<c, n>>
      BY <1>1, <1>3, <2>1
    <3>0. Left(c) < n
      BY <1>5
    <3>1. PICK i \in 1..Len(bus) : bus[i] = <<c, n>>
      BY <3>0, <1>6
    <3>2. i # 1
      BY <3>1, <2>6, <1>5
    <3>3. i - 1 \in 1..Len(bus') /\ (i - 1) + 1 = i
      BY <3>2, <1>2
    <3>4. bus'[i - 1] = bus[i]
      BY <3>3, <1>2
    <3> QED
      BY <3>1, <3>3, <3>4
  <2>8. \A i \in 1..Len(bus') :
          bus'[i][1] = c => Left(c)' < bus'[i][2] /\ bus'[i][2] <= Entered(c)'
    <3> SUFFICES ASSUME NEW i \in 1..Len(bus'), bus'[i][1] = c
                 PROVE  Left(c) + 1 < bus'[i][2] /\ bus'[i][2] <= Entered(c)
      BY <1>3, <2>1
    <3>1. i + 1 \in 1..Len(bus) /\ bus'[i] = bus[i + 1] /\ 1 < i + 1
      BY <1>2
    <3>2. bus[1][2] < bus[i + 1][2] /\ bus[i + 1][2] <= Entered(c)
      BY <3>1, <1>2, <1>10 DEF PlaceInv
    <3> QED
      BY <3>1, <3>2, <2>6
  <2>9. \A i, j \in 1..Len(bus') :
          i < j /\ bus'[i][1] = c /\ bus'[j][1] = c => bus'[i][2] < bus'[j][2]
    BY <1>8
  <2>10. sender'.ev = <<c, Len(sent[c]) + 1>> /\ Left(c)' <= Entered(c)'
    BY <1>2, <1>3, <1>5, <2>1, <2>3, <2>6
  <2> QED
    BY <1>1, <1>3, <2>1, <2>7, <2>8, <2>9, <2>10 DEF PlaceInv
<1> QED
  BY <1>9, <1>10

(* It gives the event it holds to the stream.                              *)
LEMMA PlaceSenderSends ==
  ASSUME TypeOK, NEW c \in Collectors, PlaceInv(c), SenderSends
  PROVE  PlaceInv(c)'
<1>1. /\ sent[c] \in Seq(Event) /\ sender.ev \in Event
      /\ sent'[c] = IF sender.ev[1] = c THEN Append(sent[c], sender.ev) ELSE sent[c]
      /\ sender'.ev = Nothing
      /\ UNCHANGED <<found, out, pump, bus>>
  BY DEF SenderSends, TypeOK, Held, sources, busVars
<1>2. CASE sender.ev[1] # c
  <2>1. sender'.ev[1] # c /\ sent'[c] = sent[c]
    BY <1>1, <1>2, Foreign
  <2> QED
    BY <2>1, <1>1, <1>2, PlaceSame
<1>3. CASE sender.ev[1] = c
  <2>1. sender'.ev[1] # c /\ sender.ev = <<c, Len(sent[c]) + 1>>
    BY <1>1, <1>3, Foreign DEF PlaceInv
  <2>2. /\ Len(sent[c]) \in Nat /\ Len(sent'[c]) = Len(sent[c]) + 1
        /\ \A i \in 1..Len(sent[c]) : sent'[c][i] = sent[c][i]
        /\ sent'[c][Len(sent[c]) + 1] = sender.ev
    BY <1>1, <1>3, QueueLast
  <2>3. Left(c)' = Left(c)
    BY <1>3, <2>1, <2>2 DEF Left, Has
  <2>4. Entered(c)' = Entered(c)
    BY <1>1 DEF Entered, Has
  <2>5. \A i \in 1..Len(sent'[c]) : sent'[c][i] = <<c, i>>
    <3> SUFFICES ASSUME NEW i \in 1..Len(sent'[c]) PROVE sent'[c][i] = <<c, i>>
      OBVIOUS
    <3>1. CASE i \in 1..Len(sent[c])
      BY <3>1, <2>2 DEF PlaceInv
    <3>2. CASE i = Len(sent[c]) + 1
      BY <3>2, <2>1, <2>2
    <3> QED
      BY <3>1, <3>2, <2>2
  <2> QED
    BY <1>1, <2>1, <2>3, <2>4, <2>5 DEF PlaceInv
<1> QED
  BY <1>2, <1>3

(* Where the events of a collector are, from step to step.                 *)
LEMMA PlaceKept ==
  ASSUME TypeOK, HeldInv, [Next]_vars, Calm', NEW c \in Collectors, PlaceInv(c)
  PROVE  PlaceInv(c)'
<1>1. ASSUME NEW d \in Collectors, Collecting(d)
      PROVE  PlaceInv(c)'
  <2>1. CASE d = c
    <3>1. CASE SourceEnds(c) \/ PumpPanics(c)
      BY <3>1, PlaceSame DEF SourceEnds, PumpPanics, Panic, sources, busVars, group
    <3>2. CASE PumpEnds(c)
      <4>1. pump[c].pc = "waiting" /\ pump[c].ev = Nothing
        BY <3>2 DEF PumpEnds, Calm, HeldInv
      <4>2. /\ pump'[c].ev = Nothing
            /\ UNCHANGED <<sent, bus, out, found, sender>>
        BY <3>2 DEF PumpEnds, Held, TypeOK, busVars, group
      <4> QED
        BY <4>1, <4>2, PlaceSame
    <3> QED
      BY <1>1, <2>1, <3>1, <3>2, PlaceCollect, PlaceTakes, PlaceSends DEF Collecting
  <2>2. CASE d # c
    <3>1. /\ UNCHANGED <<sent, sender>>
          /\ out'[c] = out[c] /\ found'[c] = found[c] /\ pump'[c] = pump[c]
      BY <1>1, <2>2 DEF Collecting, Collect, SourceEnds, PumpTakes, PumpSends,
        PumpPanics, PumpEnds, Panic, TypeOK, sources, group
    <3>2. CASE PumpSends(d)
      <4>1. pump[d].ev \in Event /\ pump[d].ev[1] # c /\ bus' = Append(bus, pump[d].ev)
        BY <2>2, <3>2 DEF PumpSends, Queue, HeldInv, TypeOK
      <4> QED
        BY <3>1, <4>1, PlaceForeign
    <3>3. CASE ~PumpSends(d)
      <4>1. bus' = bus
        BY <1>1, <3>3 DEF Collecting, Collect, SourceEnds, PumpTakes,
          PumpPanics, PumpEnds, Panic, busVars
      <4> QED
        BY <3>1, <4>1, PlaceSame
    <3> QED
      BY <3>2, <3>3
  <2> QED
    BY <2>1, <2>2
<1>2. ASSUME NEW e \in {"timer", "scan"}, Queue(<<e, 0>>),
             UNCHANGED <<sent, sender, out, found, pump>>
      PROVE  PlaceInv(c)'
  <2>1. <<e, 0>> \in Event /\ <<e, 0>>[1] # c
    BY OriginAssumption DEF Event, Origins
  <2> QED
    BY <1>2, <2>1, PlaceForeign DEF Queue
<1>3. CASE (\E n \in Timers : TimerSends(n)) \/ ToolReports \/ YaraReports
  <2>1. UNCHANGED <<sent, sender, out, found, pump>>
    BY <1>3 DEF TimerSends, ToolReports, YaraReports, sources, group
  <2>2. \/ Queue(<<"timer", 0>>) \/ Queue(<<"scan", 0>>)
        \/ bus' = bus
    BY <1>3 DEF TimerSends, ToolReports, YaraReports, busVars
  <2> QED
    BY <1>2, <2>1, <2>2, PlaceSame
<1>4. CASE SenderOpens \/ SenderQuits \/ SenderCloses
  <2>1. sender.pc # "sending" /\ sender'.ev = Nothing
    BY <1>4 DEF SenderOpens, SenderQuits, SenderCloses, Held
  <2>2. UNCHANGED <<sent, bus, out, found, pump>>
    BY <1>4 DEF SenderOpens, SenderQuits, SenderCloses, sources, busVars
  <2> QED
    BY <2>1, <2>2, PlaceSame DEF HeldInv
<1>5. ~SenderFails
  BY DEF SenderFails, Calm, Held
<1>6. CASE \/ WatcherStarts \/ WatcherEnds
           \/ \E n \in Timers : \/ FileWritten(n) \/ TimerFires(n) \/ TimerScans(n)
                               \/ TimerPanics(n) \/ TimerGivesUp(n)
           \/ CloseBus \/ StreamBreaks \/ StartScan \/ YaraGivesUp
           \/ ScanPanics \/ LoopEnds \/ Signal \/ Exit \/ UNCHANGED vars
  <2>1. UNCHANGED <<sent, sender, bus, out, found, pump>>
    BY <1>6 DEF WatcherStarts, WatcherEnds, FileWritten, TimerFires, TimerScans,
      TimerPanics, TimerGivesUp, CloseBus, StreamBreaks, StartScan, YaraGivesUp, ScanPanics,
      LoopEnds, Signal, Exit, Panic, sources, busVars, group, vars
  <2> QED
    BY <2>1, PlaceSame
<1> QED
  BY <1>1, <1>3, <1>4, <1>5, <1>6, PlaceSenderTakes, PlaceSenderSends
  DEF Next, Watching, Timing, Sending, Scanning

(* An agent that stops does not start again.                               *)
LEMMA CalmBefore ==
  ASSUME TypeOK, [Next]_vars, Calm'
  PROVE  Calm
<1>1. ~signal
  BY SignalStays DEF Calm
<1>2. sender.pc = "failed" => sender' = sender
  BY DEF Next, Collecting, Collect, SourceEnds, PumpTakes, PumpSends, PumpEnds,
    PumpPanics, TimerPanics, ScanPanics, Panic,
    Watching, WatcherStarts, WatcherEnds, Timing, FileWritten,
    TimerFires, TimerScans, TimerSends, TimerGivesUp, CloseBus, Sending, SenderOpens, SenderTakes, SenderSends, SenderFails,
    SenderCloses, SenderQuits, StreamBreaks, StartScan, Scanning, ToolReports, YaraReports,
    YaraGivesUp, LoopEnds, Signal, Exit, Queue, sources, group, vars
<1> QED
  BY <1>1, <1>2 DEF Calm

-----------------------------------------------------------------------------
LEMMA InitInv == Init => IInv
<1> SUFFICES ASSUME Init PROVE IInv
  OBVIOUS
<1>1. PICK on \in SUBSET Collectors :
        /\ source = [c \in Collectors |-> IF c \in on THEN "running" ELSE "ended"]
        /\ pump = [c \in Collectors |-> Held(IF c \in on THEN "waiting" ELSE "done", Nothing)]
  BY DEF Init
<1>2. <<>> \in Seq(Event) /\ Len(<<>>) = 0
  BY EmptySeq
<1>3. TypeOK
  <2>1. /\ source \in [Collectors -> {"running", "ended"}]
        /\ pump \in [Collectors -> [pc : {"waiting", "holding", "done"}, ev : Event]]
    BY <1>1, Events DEF Held
  <2>2. /\ found \in [Collectors -> 0..MaxEvents]
        /\ out \in [Collectors -> Seq(Event)] /\ sent \in [Collectors -> Seq(Event)]
        /\ bus \in Seq(Event)
    BY <1>2, CapAssumption DEF Init
  <2>3. sender \in [pc : {"opening", "running", "sending", "closing", "ended", "failed"},
                    ev : Event]
    BY Events DEF Init, Held
  <2> QED
    BY <2>1, <2>2, <2>3 DEF Init, TypeOK, Panics
<1>4. HeldInv
  BY <1>1, <1>2 DEF Init, HeldInv, Held
<1>5. /\ CloseInv /\ PumpsNeverPanic /\ TimerPanicsOnlyStopping
      /\ WrittenIsDue /\ Debounced
  BY DEF Init, CloseInv, PumpsNeverPanic, TimerPanicsOnlyStopping, WrittenIsDue, Debounced, Due
<1>6. ASSUME NEW c \in Collectors
      PROVE  PlaceInv(c)
  <2>1. /\ Len(sent[c]) = 0 /\ Len(out[c]) = 0 /\ Len(bus) = 0 /\ found[c] = 0
        /\ sender.ev[1] # c /\ pump[c].ev[1] # c
    BY <1>1, <1>2, Foreign DEF Init, Held
  <2>2. Left(c) = 0 /\ Entered(c) = 0
    <3>1. Has(sender.ev, c) = 0 /\ Has(pump[c].ev, c) = 0
      BY <2>1 DEF Has
    <3> QED
      BY <2>1, <3>1 DEF Left, Entered
  <2> QED
    BY <2>1, <2>2 DEF PlaceInv
<1> QED
  BY <1>3, <1>4, <1>5, <1>6 DEF IInv

(* The invariant holds in every state of the agent.                        *)
THEOREM Invariance == Spec => []IInv
<1>1. IInv /\ [Next]_vars => IInv'
  <2> SUFFICES ASSUME IInv, [Next]_vars
               PROVE  IInv'
    OBVIOUS
  <2>1. /\ TypeOK /\ HeldInv /\ CloseInv /\ PumpsNeverPanic /\ TimerPanicsOnlyStopping
        /\ WrittenIsDue /\ Debounced
    BY DEF IInv
  <2>2. TypeOK' /\ HeldInv' /\ CloseInv'
    BY <2>1, TypeKept, HeldKept, CloseKept
  <2>3. PumpsNeverPanic' /\ TimerPanicsOnlyStopping'
    BY <2>1, PanicKept
  <2>5. WrittenIsDue' /\ Debounced'
    BY <2>1, DebounceKept
  <2>4. ASSUME Calm', NEW c \in Collectors
        PROVE  PlaceInv(c)'
    <3>1. PlaceInv(c)
      BY <2>1, <2>4, CalmBefore DEF IInv
    <3> QED
      BY <2>1, <2>4, <3>1, PlaceKept
  <2> QED
    BY <2>2, <2>3, <2>4, <2>5 DEF IInv
<1> QED
  BY <1>1, InitInv, PTL DEF Spec

(* The variables keep their types.                                         *)
THEOREM TypeCorrect == Spec => []TypeOK
<1>1. IInv => TypeOK
  BY DEF IInv
<1> QED
  BY <1>1, Invariance, PTL

(* Two queues, one after the other.                                        *)
LEMMA Joined ==
  ASSUME NEW s \in Seq(Event), NEW t \in Seq(Event)
  PROVE  /\ s \o t \in Seq(Event) /\ Len(s \o t) = Len(s) + Len(t)
         /\ Len(s) \in Nat /\ Len(t) \in Nat
         /\ \A i \in 1..Len(s) : (s \o t)[i] = s[i]
         /\ \A i \in 1..Len(t) : (s \o t)[Len(s) + i] = t[i]
<1>1. /\ s \o t \in Seq(Event) /\ Len(s \o t) = Len(s) + Len(t)
      /\ \A i \in 1..(Len(s) + Len(t)) :
           (s \o t)[i] = IF i <= Len(s) THEN s[i] ELSE t[i - Len(s)]
  BY ConcatProperties
<1>2. Len(s) \in Nat /\ Len(t) \in Nat
  OBVIOUS
<1>3. ASSUME NEW i \in 1..Len(s)
      PROVE  (s \o t)[i] = s[i]
  BY <1>1, <1>2
<1>4. ASSUME NEW i \in 1..Len(t)
      PROVE  (s \o t)[Len(s) + i] = t[i]
  <2>1. Len(s) + i \in 1..(Len(s) + Len(t)) /\ ~(Len(s) + i <= Len(s)) /\ (Len(s) + i) - Len(s) = i
    BY <1>2
  <2> QED
    BY <1>1, <2>1
<1> QED
  BY <1>1, <1>2, <1>3, <1>4

(* The places of the way of a collector's events.                          *)
LEMMA WayPlaces ==
  ASSUME TypeOK, NEW c \in Collectors
  PROVE  LET a == Len(sent[c])  b == Len(bus)  o == Len(out[c])
         IN /\ a \in Nat /\ b \in Nat /\ o \in Nat
            /\ DOMAIN Way(c) = 1..(a + 1 + b + 1 + o)
            /\ \A i \in 1..a : Way(c)[i] = sent[c][i]
            /\ Way(c)[a + 1] = sender.ev
            /\ \A i \in 1..b : Way(c)[a + 1 + i] = bus[i]
            /\ Way(c)[a + 1 + b + 1] = pump[c].ev
            /\ \A i \in 1..o : Way(c)[a + 1 + b + 1 + i] = out[c][i]
<1>0. PICK a, b, o : a = Len(sent[c]) /\ b = Len(bus) /\ o = Len(out[c])
  OBVIOUS
<1> DEFINE s == sent[c]  e == <<sender.ev>>  p == <<pump[c].ev>>  q == out[c]
           x == s \o e  y == x \o bus  z == y \o p  w == z \o q
<1>1. /\ s \in Seq(Event) /\ e \in Seq(Event) /\ bus \in Seq(Event)
      /\ p \in Seq(Event) /\ q \in Seq(Event)
      /\ Len(s) = a /\ Len(bus) = b /\ Len(e) = 1 /\ Len(p) = 1 /\ Len(q) = o
      /\ e[1] = sender.ev /\ p[1] = pump[c].ev
      /\ a \in Nat /\ b \in Nat /\ o \in Nat
  BY <1>0 DEF TypeOK
<1>2. w = Way(c)
  BY DEF Way
<1> HIDE DEF s, e, p, q
<1>3. /\ x \in Seq(Event) /\ Len(x) = a + 1
      /\ \A i \in 1..a : x[i] = s[i]
      /\ x[a + 1] = e[1]
  <2>0. s \in Seq(Event) /\ e \in Seq(Event)
    BY <1>1
  <2>1. /\ x \in Seq(Event) /\ Len(x) = Len(s) + Len(e)
        /\ \A i \in 1..Len(s) : x[i] = s[i]
        /\ \A i \in 1..Len(e) : x[Len(s) + i] = e[i]
    BY <2>0, Joined, Zenon
  <2> QED
    BY <1>1, <2>1
<1> HIDE DEF x
<1>4. /\ y \in Seq(Event) /\ Len(y) = a + 1 + b
      /\ \A i \in 1..(a + 1) : y[i] = x[i]
      /\ \A i \in 1..b : y[a + 1 + i] = bus[i]
  <2>0. x \in Seq(Event) /\ bus \in Seq(Event)
    BY <1>1, <1>3
  <2>1. /\ y \in Seq(Event) /\ Len(y) = Len(x) + Len(bus)
        /\ \A i \in 1..Len(x) : y[i] = x[i]
        /\ \A i \in 1..Len(bus) : y[Len(x) + i] = bus[i]
    BY <2>0, Joined, Zenon
  <2> QED
    BY <1>1, <1>3, <2>1
<1> HIDE DEF y
<1>5. /\ z \in Seq(Event) /\ Len(z) = a + 1 + b + 1
      /\ \A i \in 1..(a + 1 + b) : z[i] = y[i]
      /\ z[a + 1 + b + 1] = p[1]
  <2>0. y \in Seq(Event) /\ p \in Seq(Event)
    BY <1>1, <1>4
  <2>1. /\ z \in Seq(Event) /\ Len(z) = Len(y) + Len(p)
        /\ \A i \in 1..Len(y) : z[i] = y[i]
        /\ \A i \in 1..Len(p) : z[Len(y) + i] = p[i]
    BY <2>0, Joined, Zenon
  <2> QED
    BY <1>1, <1>4, <2>1
<1> HIDE DEF z
<1>6. /\ w \in Seq(Event) /\ Len(w) = a + 1 + b + 1 + o
      /\ \A i \in 1..(a + 1 + b + 1) : w[i] = z[i]
      /\ \A i \in 1..o : w[a + 1 + b + 1 + i] = q[i]
  <2>0. z \in Seq(Event) /\ q \in Seq(Event)
    BY <1>1, <1>5
  <2>1. /\ w \in Seq(Event) /\ Len(w) = Len(z) + Len(q)
        /\ \A i \in 1..Len(z) : w[i] = z[i]
        /\ \A i \in 1..Len(q) : w[Len(z) + i] = q[i]
    BY <2>0, Joined, Zenon
  <2> QED
    BY <1>1, <1>5, <2>1
<1> HIDE DEF w
<1>7. DOMAIN w = 1..(a + 1 + b + 1 + o)
  BY <1>6
<1>8. ASSUME NEW i \in 1..a
      PROVE  w[i] = s[i]
  <2>1. i \in 1..(a + 1) /\ i \in 1..(a + 1 + b) /\ i \in 1..(a + 1 + b + 1)
    BY <1>1
  <2>2. w[i] = z[i]
    BY <2>1, <1>6
  <2>3. z[i] = y[i]
    BY <2>1, <1>5
  <2>4. y[i] = x[i]
    BY <2>1, <1>4
  <2> QED
    BY <2>2, <2>3, <2>4, <1>3
<1>9. w[a + 1] = sender.ev
  <2>1. /\ a + 1 \in 1..(a + 1) /\ a + 1 \in 1..(a + 1 + b)
        /\ a + 1 \in 1..(a + 1 + b + 1)
    BY <1>1
  <2>2. w[a + 1] = y[a + 1]
    BY <2>1, <1>5, <1>6
  <2> QED
    BY <2>1, <2>2, <1>1, <1>3, <1>4
<1>10. ASSUME NEW i \in 1..b
       PROVE  w[a + 1 + i] = bus[i]
  <2>1. a + 1 + i \in 1..(a + 1 + b) /\ a + 1 + i \in 1..(a + 1 + b + 1)
    BY <1>1
  <2> QED
    BY <2>1, <1>4, <1>5, <1>6
<1>11. w[a + 1 + b + 1] = pump[c].ev
  <2>1. a + 1 + b + 1 \in 1..(a + 1 + b + 1)
    BY <1>1
  <2> QED
    BY <2>1, <1>1, <1>5, <1>6
<1> QED
  BY <1>0, <1>1, <1>2, <1>6, <1>7, <1>8, <1>9, <1>10, <1>11 DEF s, q

(* Which event of its collector is at each place of the way.               *)
LEMMA WayNumbers ==
  ASSUME TypeOK, HeldInv, NEW c \in Collectors, PlaceInv(c),
         NEW i \in DOMAIN Way(c), Way(c)[i][1] = c
  PROVE  LET n == Way(c)[i][2]
             a == Len(sent[c])  b == Len(bus)  o == Len(out[c])  f == found[c]
         IN \/ i <= a /\ n = i
            \/ i = a + 1 /\ n = Left(c) /\ Left(c) = a + 1
            \/ /\ a + 1 < i /\ i <= a + 1 + b
               /\ n \in Nat /\ Left(c) < n /\ n <= Entered(c)
            \/ i = a + 1 + b + 1 /\ n = f - o /\ Entered(c) = f - o - 1
            \/ a + 1 + b + 1 < i /\ n = f - o + (i - (a + 1 + b + 1))
<1>0. PICK a, b, o, f :
        a = Len(sent[c]) /\ b = Len(bus) /\ o = Len(out[c]) /\ f = found[c]
  OBVIOUS
<1>10. DOMAIN Way(c) = 1..(a + 1 + b + 1 + o)
  BY <1>0, WayPlaces
<1>11. \A k \in 1..a : Way(c)[k] = sent[c][k]
  BY <1>0, WayPlaces
<1>12. Way(c)[a + 1] = sender.ev
  BY <1>0, WayPlaces
<1>13. \A k \in 1..b : Way(c)[a + 1 + k] = bus[k]
  BY <1>0, WayPlaces
<1>14. Way(c)[a + 1 + b + 1] = pump[c].ev
  BY <1>0, WayPlaces
<1>15. \A k \in 1..o : Way(c)[a + 1 + b + 1 + k] = out[c][k]
  BY <1>0, WayPlaces
<1>1. /\ a \in Nat /\ b \in Nat /\ o \in Nat /\ f \in Nat /\ i \in Nat
      /\ 1 <= i /\ i <= a + 1 + b + 1 + o
  BY <1>0, <1>10 DEF TypeOK
<1> SUFFICES LET n == Way(c)[i][2]
             IN \/ i <= a /\ n = i
                \/ i = a + 1 /\ n = Left(c) /\ Left(c) = a + 1
                \/ /\ a + 1 < i /\ i <= a + 1 + b
                   /\ n \in Nat /\ Left(c) < n /\ n <= Entered(c)
                \/ i = a + 1 + b + 1 /\ n = f - o /\ Entered(c) = f - o - 1
                \/ a + 1 + b + 1 < i /\ n = f - o + (i - (a + 1 + b + 1))
  BY <1>0
<1>2. CASE i <= a
  <2>1. i \in 1..a
    BY <1>1, <1>2
  <2>2. Way(c)[i] = <<c, i>>
    BY <2>1, <1>0, <1>11 DEF PlaceInv
  <2> QED
    BY <2>2, <1>2
<1>3. CASE i = a + 1
  <2>0. Way(c)[i] = sender.ev
    BY <1>3, <1>12, Zenon
  <2>1. sender.ev = <<c, a + 1>>
    BY <2>0, <1>0 DEF PlaceInv
  <2>2. Left(c) = a + 1
    BY <2>1, <1>0 DEF Left, Has
  <2> QED
    BY <2>0, <2>1, <2>2, <1>3
<1>4. CASE a + 1 < i /\ i <= a + 1 + b
  <2>1. i - (a + 1) \in 1..b /\ a + 1 + (i - (a + 1)) = i
    BY <1>1, <1>4
  <2>4. Way(c)[a + 1 + (i - (a + 1))] = bus[i - (a + 1)]
    BY <2>1, <1>13, Zenon
  <2>2. Way(c)[i] = bus[i - (a + 1)]
    BY <2>1, <2>4, Zenon
  <2>3. bus[i - (a + 1)][2] \in Nat
    BY <2>1, <1>0 DEF TypeOK, Event
  <2> QED
    BY <2>1, <2>2, <2>3, <1>0, <1>4 DEF PlaceInv
<1>5. CASE i = a + 1 + b + 1
  <2>1. Way(c)[i] = pump[c].ev
    BY <1>5, <1>14, Zenon
  <2>2. Has(pump[c].ev, c) = 1 /\ pump[c].ev = <<c, f - o>>
    BY <2>1, <1>0 DEF PlaceInv, Has
  <2>3. Entered(c) = f - o - 1
    BY <2>2, <1>0 DEF Entered
  <2> QED
    BY <2>1, <2>2, <2>3, <1>1, <1>5
<1>6. CASE a + 1 + b + 1 < i
  <2>1. PICK m \in Nat : m = a + 1 + b + 1
    BY <1>1
  <2>2. i - m \in 1..o /\ m + (i - m) = i
    <3>1. m < i /\ i <= m + o
      BY <1>1, <1>6, <2>1
    <3> QED
      BY <3>1, <1>1, <2>1
  <2>3. \A k \in 1..o : Way(c)[m + k] = out[c][k]
    BY <2>1, <1>15, Zenon
  <2>4. Way(c)[m + (i - m)] = out[c][i - m]
    BY <2>2, <2>3
  <2>5. out[c][i - m] = <<c, f - o + (i - m)>>
    BY <2>2, <1>0 DEF PlaceInv
  <2> QED
    BY <1>1, <1>6, <2>1, <2>2, <2>4, <2>5
<1> QED
  BY <1>1, <1>2, <1>3, <1>4, <1>5, <1>6

(* While the agent is not stopping, nothing is dropped and nothing is out  *)
(* of order.                                                               *)
THEOREM NothingDroppedHolds == Spec => []NothingDropped
<1>1. IInv => NothingDropped
  <2> SUFFICES ASSUME IInv, Calm, NEW c \in Collectors
               PROVE  Complete(Way(c), c) /\ Ordered(Way(c), c)
    BY DEF NothingDropped
  <2>0. PICK a, b, o, f :
          a = Len(sent[c]) /\ b = Len(bus) /\ o = Len(out[c]) /\ f = found[c]
    OBVIOUS
  <2>1. TypeOK /\ HeldInv /\ PlaceInv(c)
    BY DEF IInv
  <2>10. /\ \A k \in 1..a : Way(c)[k] = sent[c][k]
         /\ Way(c)[a + 1] = sender.ev
         /\ \A k \in 1..b : Way(c)[a + 1 + k] = bus[k]
         /\ Way(c)[a + 1 + b + 1] = pump[c].ev
         /\ \A k \in 1..o : Way(c)[a + 1 + b + 1 + k] = out[c][k]
    BY <2>0, <2>1, WayPlaces
  <2>2. /\ a \in Nat /\ b \in Nat /\ o \in Nat /\ f \in Nat
        /\ DOMAIN Way(c) = 1..(a + 1 + b + 1 + o)
    BY <2>0, <2>1, WayPlaces DEF TypeOK
  <2>3. /\ Left(c) \in {a, a + 1}
        /\ Left(c) = a + 1 => sender.ev = <<c, a + 1>>
    <3>1. CASE sender.ev[1] = c
      BY <3>1, <2>0, <2>1, <2>2 DEF Left, Has, PlaceInv
    <3>2. CASE sender.ev[1] # c
      BY <3>2, <2>0, <2>2 DEF Left, Has
    <3> QED
      BY <3>1, <3>2
  <2>4. /\ Entered(c) \in {f - o, f - o - 1}
        /\ Entered(c) = f - o - 1 => pump[c].ev = <<c, f - o>>
        /\ Left(c) <= Entered(c)
    BY <2>0, <2>1, <2>2 DEF Entered, Has, PlaceInv
  <2>5. ASSUME NEW n \in 1..f
        PROVE  \E i \in DOMAIN Way(c) : Way(c)[i] = <<c, n>>
    <3>1. CASE n <= a
      <4>1. n \in 1..a /\ n \in DOMAIN Way(c)
        BY <3>1, <2>2
      <4>2. Way(c)[n] = <<c, n>>
        BY <4>1, <2>0, <2>1, <2>10 DEF PlaceInv
      <4> QED
        BY <4>1, <4>2
    <3>2. CASE a < n /\ n <= Left(c)
      <4>1. n = a + 1 /\ Left(c) = a + 1 /\ a + 1 \in DOMAIN Way(c)
        BY <3>2, <2>2, <2>3
      <4>2. Way(c)[a + 1] = sender.ev
        BY <2>10
      <4> QED
        BY <4>1, <4>2, <2>3
    <3>3. CASE Left(c) < n /\ n <= Entered(c)
      <4>1. PICK k \in 1..b : bus[k] = <<c, n>>
        BY <3>3, <2>0, <2>1 DEF PlaceInv
      <4>2. a + 1 + k \in DOMAIN Way(c)
        BY <2>2
      <4>3. Way(c)[a + 1 + k] = bus[k]
        BY <2>10
      <4> QED
        BY <4>1, <4>2, <4>3
    <3>4. CASE Entered(c) < n /\ n <= f - o
      <4>1. n = f - o /\ Entered(c) = f - o - 1 /\ a + 1 + b + 1 \in DOMAIN Way(c)
        BY <3>4, <2>2, <2>4
      <4>2. Way(c)[a + 1 + b + 1] = pump[c].ev
        BY <2>10
      <4> QED
        BY <4>1, <4>2, <2>4
    <3>5. CASE f - o < n
      <4> DEFINE k == n - (f - o)
      <4>1. k \in 1..o /\ a + 1 + b + 1 + k \in DOMAIN Way(c) /\ f - o + k = n
        BY <3>5, <2>2
      <4> HIDE DEF k
      <4>2. Way(c)[a + 1 + b + 1 + k] = out[c][k]
        BY <4>1, <2>10
      <4>3. out[c][k] = <<c, f - o + k>>
        BY <4>1, <2>0, <2>1 DEF PlaceInv
      <4> QED
        BY <4>1, <4>2, <4>3
    <3> QED
      BY <3>1, <3>2, <3>3, <3>4, <3>5, <2>2, <2>3, <2>4
  <2>6. ASSUME NEW i \in DOMAIN Way(c), NEW j \in DOMAIN Way(c), i < j,
               Way(c)[i][1] = c, Way(c)[j][1] = c
        PROVE  Way(c)[i][2] < Way(c)[j][2]
    <3> DEFINE m == Way(c)[i][2]  n == Way(c)[j][2]
    <3>1. i \in Nat /\ j \in Nat /\ Left(c) \in Nat /\ Entered(c) \in Int
      BY <2>2, <2>3, <2>4, SMTT(40)
    <3>2. \/ i <= a /\ m = i
          \/ i = a + 1 /\ m = Left(c) /\ Left(c) = a + 1
          \/ a + 1 < i /\ i <= a + 1 + b /\ m \in Nat /\ Left(c) < m /\ m <= Entered(c)
          \/ i = a + 1 + b + 1 /\ m = f - o /\ Entered(c) = f - o - 1
          \/ a + 1 + b + 1 < i /\ m = f - o + (i - (a + 1 + b + 1))
      BY <2>0, <2>1, <2>6, WayNumbers
    <3>3. \/ j <= a /\ n = j
          \/ j = a + 1 /\ n = Left(c) /\ Left(c) = a + 1
          \/ a + 1 < j /\ j <= a + 1 + b /\ n \in Nat /\ Left(c) < n /\ n <= Entered(c)
          \/ j = a + 1 + b + 1 /\ n = f - o /\ Entered(c) = f - o - 1
          \/ a + 1 + b + 1 < j /\ n = f - o + (j - (a + 1 + b + 1))
      BY <2>0, <2>1, <2>6, WayNumbers
    <3>4. CASE a + 1 < i /\ j <= a + 1 + b
      <4>1. /\ i - (a + 1) \in 1..b /\ a + 1 + (i - (a + 1)) = i
            /\ j - (a + 1) \in 1..b /\ a + 1 + (j - (a + 1)) = j
            /\ i - (a + 1) < j - (a + 1)
        BY <3>1, <3>4, <2>2, <2>6
      <4>2. Way(c)[i] = bus[i - (a + 1)] /\ Way(c)[j] = bus[j - (a + 1)]
        BY <4>1, <2>10
      <4> QED
        BY <4>1, <4>2, <2>0, <2>1, <2>6 DEF PlaceInv
    <3> HIDE DEF m, n
    <3>5. ASSUME ~(a + 1 < i /\ j <= a + 1 + b)
          PROVE  m < n
      <4>1. CASE i <= a
        BY <3>1, <3>2, <3>3, <4>1, <2>2, <2>3, <2>4, <2>6
      <4>2. CASE i = a + 1
        BY <3>1, <3>2, <3>3, <4>2, <2>2, <2>3, <2>4, <2>6
      <4>3. CASE a + 1 < i
        BY <3>1, <3>2, <3>3, <3>5, <4>3, <2>2, <2>3, <2>4, <2>6
      <4> QED
        BY <4>1, <4>2, <4>3, <3>1, <2>2
    <3> QED
      BY <3>4, <3>5 DEF m, n
  <2>7. Complete(Way(c), c)
    BY <2>0, <2>5 DEF Complete
  <2>8. Ordered(Way(c), c)
    BY <2>6 DEF Ordered
  <2> QED
    BY <2>7, <2>8
<1> QED
  BY <1>1, Invariance, PTL

(* No pump sends on the closed channel.                                    *)
THEOREM PumpsNeverPanicHolds == Spec => []PumpsNeverPanic
<1>1. IInv => PumpsNeverPanic
  BY DEF IInv
<1> QED
  BY <1>1, Invariance, PTL

(* A write the watcher has seen has a scan to come.                         *)
THEOREM WrittenIsDueHolds == Spec => []WrittenIsDue
<1>1. IInv => WrittenIsDue
  BY DEF IInv
<1> QED
  BY <1>1, Invariance, PTL

(* The timer that is due is the one in the map, unless Stop missed one.    *)
THEOREM DebouncedHolds == Spec => []Debounced
<1>1. IInv => Debounced
  BY DEF IInv
<1> QED
  BY <1>1, Invariance, PTL

(* A timer panics only in an agent that is being stopped.                  *)
THEOREM TimerPanicsOnlyStoppingHolds == Spec => []TimerPanicsOnlyStopping
<1>1. IInv => TimerPanicsOnlyStopping
  BY DEF IInv
<1> QED
  BY <1>1, Invariance, PTL

-----------------------------------------------------------------------------
(* A log another program writes and rotates: LogTail.                      *)

Lines == [line : 1 .. MaxLines, whole : BOOLEAN]

-----------------------------------------------------------------------------
(* A set of positions has a least one: of the intervals up to each of them *)
(* one has no other strictly inside.                                       *)
LEMMA LeastPosition ==
  ASSUME NEW n \in Nat, NEW T, T \subseteq 1 .. n, T # {}
  PROVE  \E x \in T : \A y \in T : x <= y
<1> DEFINE S == 1 .. n
           R == StrictSubsetOrdering(S)
           F == {1 .. x : x \in T}
<1>1. IsWellFoundedOn(R, SUBSET S)
  <2>1. IsFiniteSet(S)
    BY FS_Interval
  <2>2. FiniteSubsetsOf(S) = SUBSET S
    BY <2>1, FS_FiniteSubsetsOfFinite
  <2>3. IsWellFoundedOn(R, FiniteSubsetsOf(S))
    BY FS_StrictSubsetOrderingWellFounded
  <2> QED  BY <2>2, <2>3, Zenon
<1>2. F \subseteq SUBSET S /\ F # {}
  <2>1. \A x \in T : 1 .. x \subseteq S
    OBVIOUS
  <2> QED  BY <2>1
<1>3. \A x, y \in T : y < x => <<1 .. y, 1 .. x>> \in R
  <2> SUFFICES ASSUME NEW x \in T, NEW y \in T, y < x PROVE <<1 .. y, 1 .. x>> \in R
    OBVIOUS
  <2>1. 1 .. y \subseteq 1 .. x /\ x \in 1 .. x /\ x \notin 1 .. y
    OBVIOUS
  <2> QED  BY <2>1 DEF StrictSubsetOrdering
<1> HIDE DEF R, F, S
<1>4. PICK A \in F : \A B \in F : ~ (<<B, A>> \in R)
  BY <1>1, <1>2, WFMin
<1>5. PICK x \in T : A = 1 .. x
  BY <1>4 DEF F
<1>6. \A y \in T : ~ (y < x)
  BY <1>3, <1>4, <1>5 DEF F
<1> QED  BY <1>6

(* What stands where when d is written behind c.                           *)
LEMMA Concatenated ==
  ASSUME NEW S, NEW c \in Seq(S), NEW d \in Seq(S)
  PROVE  /\ c \o d \in Seq(S)
         /\ Len(c) \in Nat /\ Len(d) \in Nat /\ Len(c \o d) = Len(c) + Len(d)
         /\ \A i \in 1 .. Len(c) : (c \o d)[i] = c[i]
         /\ \A i \in 1 .. Len(d) : (c \o d)[Len(c) + i] = d[i]
  OBVIOUS

LEMMA PartTypes ==
  ASSUME NEW c \in Seq(Parts), NEW i \in 1 .. Len(c)
  PROVE  c[i] \in Parts /\ c[i][1] \in 1 .. MaxLines /\ c[i][1] \in Nat /\ c[i][2] \in {"head", "tail"}
<1>1. c[i] \in Parts
  OBVIOUS
<1> QED  BY <1>1, BoundsAssumption DEF Parts

(* Files grow as FileOK says: a line written elsewhere, a line written at    *)
(* once, the head of a line, its tail.                                     *)
LEMMA FileAside ==
  ASSUME NEW c \in Seq(Parts), NEW m \in Nat, NEW n \in Nat, NEW a \in BOOLEAN, NEW b \in BOOLEAN,
         NEW s, NEW t, FileOK(c, m, a, s), m <= n, s \subseteq t, b => m < n \/ a
  PROVE  FileOK(c, n, b, t)
<1>1. ASSUME NEW i \in 1 .. Len(c)
      PROVE  c[i][1] \in Nat /\ c[i][1] <= m
  BY PartTypes DEF FileOK
<1>2. ASSUME NEW i \in 1 .. Len(c), b, c[i][1] = n PROVE c[i][2] = "head"
  BY <1>1, <1>2 DEF FileOK
<1>3. ASSUME NEW i \in 1 .. Len(c) PROVE c[i][1] <= n
  BY <1>1
<1>4. ASSUME NEW i \in 1 .. Len(c), c[i][1] \notin t
      PROVE  /\ c[i][2] = "head" => i < Len(c) /\ c[i + 1] = <<c[i][1], "tail">>
             /\ c[i][2] = "tail" => i > 1 /\ c[i - 1] = <<c[i][1], "head">>
  BY <1>4 DEF FileOK
<1>5. ASSUME NEW i \in 1 .. Len(c), NEW j \in 1 .. Len(c), i < j
      PROVE  c[i][1] <= c[j][1] /\ (c[i][2] = "tail" => c[i][1] < c[j][1])
  BY <1>5 DEF FileOK
<1>6. ASSUME NEW i \in 1 .. Len(c)
      PROVE  /\ c[i][1] <= n
             /\ b /\ c[i][1] = n => c[i][2] = "head"
             /\ c[i][1] \notin t =>
                  /\ c[i][2] = "head" => i < Len(c) /\ c[i + 1] = <<c[i][1], "tail">>
                  /\ c[i][2] = "tail" => i > 1 /\ c[i - 1] = <<c[i][1], "head">>
             /\ \A j \in 1 .. Len(c) :
                  i < j => c[i][1] <= c[j][1] /\ (c[i][2] = "tail" => c[i][1] < c[j][1])
  BY <1>2, <1>3, <1>4, <1>5
<1> QED  BY <1>6, Zenon DEF FileOK

LEMMA FileLine ==
  ASSUME NEW c \in Seq(Parts), NEW m \in Nat, NEW s, FileOK(c, m, FALSE, s),
         NEW e \in Seq(Parts), Len(e) = Len(c) + 2, \A i \in 1 .. Len(c) : e[i] = c[i],
         e[Len(c) + 1] = <<m + 1, "head">>, e[Len(c) + 2] = <<m + 1, "tail">>
  PROVE  FileOK(e, m + 1, FALSE, s)
<1>1. Len(c) \in Nat
  OBVIOUS
<1>2. ASSUME NEW i \in 1 .. Len(c) PROVE c[i][1] \in Nat /\ c[i][1] <= m
  BY PartTypes DEF FileOK
<1>3. ASSUME NEW i \in 1 .. Len(e) PROVE i \in 1 .. Len(c) \/ i = Len(c) + 1 \/ i = Len(c) + 2
  BY <1>1
<1>4. ASSUME NEW i \in 1 .. Len(e) PROVE e[i][1] \in Nat /\ e[i][1] <= m + 1
  <2>1. CASE i \in 1 .. Len(c)
    <3>1. e[i] = c[i] /\ c[i][1] \in Nat /\ c[i][1] <= m
      BY <1>2, <2>1
    <3> QED  BY <3>1
  <2>2. CASE i \notin 1 .. Len(c)
    <3>1. e[i][1] = m + 1
      BY <1>3, <2>2
    <3> QED  BY <3>1
  <2> QED  BY <2>1, <2>2
<1>5. ASSUME NEW i \in 1 .. Len(e), e[i][1] \notin s
      PROVE  /\ e[i][2] = "head" => i < Len(e) /\ e[i + 1] = <<e[i][1], "tail">>
             /\ e[i][2] = "tail" => i > 1 /\ e[i - 1] = <<e[i][1], "head">>
  <2>1. CASE i \in 1 .. Len(c)
    <3>1. /\ c[i][2] = "head" => i < Len(c) /\ c[i + 1] = <<c[i][1], "tail">>
          /\ c[i][2] = "tail" => i > 1 /\ c[i - 1] = <<c[i][1], "head">>
      BY <1>5, <2>1 DEF FileOK
    <3>2. (i < Len(c) => e[i + 1] = c[i + 1]) /\ (i > 1 => e[i - 1] = c[i - 1])
      <4>1. i < Len(c) => i + 1 \in 1 .. Len(c)
        BY <1>1, <2>1
      <4>2. i > 1 => i - 1 \in 1 .. Len(c)
        BY <1>1, <2>1
      <4> QED  BY <4>1, <4>2
    <3> QED  BY <1>1, <2>1, <3>1, <3>2
  <2>2. CASE i = Len(c) + 1
    <3>1. e[i] = <<m + 1, "head">> /\ e[i + 1] = <<m + 1, "tail">> /\ i < Len(e)
      BY <1>1, <2>2
    <3> QED  BY <3>1
  <2>3. CASE i = Len(c) + 2
    <3>1. e[i] = <<m + 1, "tail">> /\ e[i - 1] = <<m + 1, "head">> /\ i > 1
      BY <1>1, <2>3
    <3> QED  BY <3>1
  <2> QED  BY <1>3, <2>1, <2>2, <2>3
<1>6. ASSUME NEW i \in 1 .. Len(e), NEW j \in 1 .. Len(e), i < j
      PROVE  e[i][1] <= e[j][1] /\ (e[i][2] = "tail" => e[i][1] < e[j][1])
  <2>1. CASE i \in 1 .. Len(c) /\ j \in 1 .. Len(c)
    BY <1>6, <2>1 DEF FileOK
  <2>2. CASE i \in 1 .. Len(c) /\ j \notin 1 .. Len(c)
    <3>1. e[i] = c[i] /\ c[i][1] \in Nat /\ c[i][1] <= m
      BY <1>2, <2>2
    <3>2. e[j][1] = m + 1
      BY <1>3, <2>2
    <3> QED  BY <3>1, <3>2
  <2>3. CASE i \notin 1 .. Len(c)
    BY <1>1, <1>3, <1>6, <2>3
  <2> QED  BY <2>1, <2>2, <2>3
<1> QED  BY <1>4, <1>5, <1>6 DEF FileOK

LEMMA FileHead ==
  ASSUME NEW c \in Seq(Parts), NEW m \in Nat, NEW s, FileOK(c, m, FALSE, s),
         NEW e \in Seq(Parts), Len(e) = Len(c) + 1, \A i \in 1 .. Len(c) : e[i] = c[i],
         e[Len(c) + 1] = <<m + 1, "head">>
  PROVE  FileOK(e, m + 1, TRUE, s \cup {m + 1})
<1>1. Len(c) \in Nat
  OBVIOUS
<1>2. ASSUME NEW i \in 1 .. Len(c) PROVE c[i][1] \in Nat /\ c[i][1] <= m
  BY PartTypes DEF FileOK
<1>3. ASSUME NEW i \in 1 .. Len(e) PROVE i \in 1 .. Len(c) \/ i = Len(c) + 1
  BY <1>1
<1>4. ASSUME NEW i \in 1 .. Len(e)
      PROVE  e[i][1] \in Nat /\ e[i][1] <= m + 1 /\ (e[i][1] = m + 1 => e[i][2] = "head")
  BY <1>2, <1>3
<1>5. ASSUME NEW i \in 1 .. Len(e), e[i][1] \notin s \cup {m + 1}
      PROVE  /\ e[i][2] = "head" => i < Len(e) /\ e[i + 1] = <<e[i][1], "tail">>
             /\ e[i][2] = "tail" => i > 1 /\ e[i - 1] = <<e[i][1], "head">>
  <2>1. i \in 1 .. Len(c)
    BY <1>3, <1>5
  <2>2. /\ c[i][2] = "head" => i < Len(c) /\ c[i + 1] = <<c[i][1], "tail">>
        /\ c[i][2] = "tail" => i > 1 /\ c[i - 1] = <<c[i][1], "head">>
    BY <1>5, <2>1 DEF FileOK
  <2>3. (i < Len(c) => e[i + 1] = c[i + 1]) /\ (i > 1 => e[i - 1] = c[i - 1])
    <3>1. i < Len(c) => i + 1 \in 1 .. Len(c)
      BY <1>1, <2>1
    <3>2. i > 1 => i - 1 \in 1 .. Len(c)
      BY <1>1, <2>1
    <3> QED  BY <3>1, <3>2
  <2> QED  BY <1>1, <2>1, <2>2, <2>3
<1>6. ASSUME NEW i \in 1 .. Len(e), NEW j \in 1 .. Len(e), i < j
      PROVE  e[i][1] <= e[j][1] /\ (e[i][2] = "tail" => e[i][1] < e[j][1])
  <2>1. CASE i \in 1 .. Len(c) /\ j \in 1 .. Len(c)
    BY <1>6, <2>1 DEF FileOK
  <2>2. CASE i \in 1 .. Len(c) /\ j \notin 1 .. Len(c)
    BY <1>1, <1>2, <1>3, <2>2
  <2>3. i \in 1 .. Len(c)
    BY <1>1, <1>6
  <2> QED  BY <2>1, <2>2, <2>3
<1> QED  BY <1>4, <1>5, <1>6 DEF FileOK

LEMMA FileTail ==
  ASSUME NEW c \in Seq(Parts), NEW m \in Nat, NEW s, FileOK(c, m, TRUE, s), m \in s,
         NEW e \in Seq(Parts), Len(e) = Len(c) + 1, \A i \in 1 .. Len(c) : e[i] = c[i],
         e[Len(c) + 1] = <<m, "tail">>
  PROVE  FileOK(e, m, FALSE, s)
<1>1. Len(c) \in Nat
  OBVIOUS
<1>2. ASSUME NEW i \in 1 .. Len(c)
      PROVE  c[i][1] \in Nat /\ c[i][1] <= m /\ (c[i][1] = m => c[i][2] = "head")
  BY PartTypes DEF FileOK
<1>3. ASSUME NEW i \in 1 .. Len(e) PROVE i \in 1 .. Len(c) \/ i = Len(c) + 1
  BY <1>1
<1>4. ASSUME NEW i \in 1 .. Len(e) PROVE e[i][1] \in Nat /\ e[i][1] <= m
  BY <1>2, <1>3
<1>5. ASSUME NEW i \in 1 .. Len(e), e[i][1] \notin s
      PROVE  /\ e[i][2] = "head" => i < Len(e) /\ e[i + 1] = <<e[i][1], "tail">>
             /\ e[i][2] = "tail" => i > 1 /\ e[i - 1] = <<e[i][1], "head">>
  <2>1. i \in 1 .. Len(c)
    BY <1>3, <1>5
  <2>2. /\ c[i][2] = "head" => i < Len(c) /\ c[i + 1] = <<c[i][1], "tail">>
        /\ c[i][2] = "tail" => i > 1 /\ c[i - 1] = <<c[i][1], "head">>
    BY <1>5, <2>1 DEF FileOK
  <2>3. (i < Len(c) => e[i + 1] = c[i + 1]) /\ (i > 1 => e[i - 1] = c[i - 1])
    <3>1. i < Len(c) => i + 1 \in 1 .. Len(c)
      BY <1>1, <2>1
    <3>2. i > 1 => i - 1 \in 1 .. Len(c)
      BY <1>1, <2>1
    <3> QED  BY <3>1, <3>2
  <2> QED  BY <1>1, <2>1, <2>2, <2>3
<1>6. ASSUME NEW i \in 1 .. Len(e), NEW j \in 1 .. Len(e), i < j
      PROVE  e[i][1] <= e[j][1] /\ (e[i][2] = "tail" => e[i][1] < e[j][1])
  <2>1. CASE i \in 1 .. Len(c) /\ j \in 1 .. Len(c)
    BY <1>6, <2>1 DEF FileOK
  <2>2. CASE i \in 1 .. Len(c) /\ j \notin 1 .. Len(c)
    BY <1>1, <1>2, <1>3, <2>2
  <2>3. i \in 1 .. Len(c)
    BY <1>1, <1>6
  <2> QED  BY <2>1, <2>2, <2>3
<1> QED  BY <1>4, <1>5, <1>6 DEF FileOK

(* The parts of a file.                                                    *)
LEMMA FileTypes ==
  ASSUME TailTypeOK, NEW f \in DOMAIN files
  PROVE  /\ files[f] \in Seq(Parts) /\ Len(files[f]) \in Nat
         /\ \A i \in 1 .. Len(files[f]) :
              /\ files[f][i] \in Parts
              /\ files[f][i][1] \in 1 .. MaxLines /\ files[f][i][2] \in {"head", "tail"}
              /\ files[f][i] = <<files[f][i][1], files[f][i][2]>>
<1>1. files[f] \in Seq(Parts)
  BY DEF TailTypeOK
<1>2. ASSUME NEW i \in 1 .. Len(files[f]) PROVE files[f][i] \in Parts
  BY <1>1
<1> QED  BY <1>1, <1>2 DEF Parts

LEMMA Types ==
  ASSUME TailTypeOK
  PROVE  /\ MaxLines \in Nat /\ written \in Nat /\ logger.line \in Nat
         /\ reader.at \in Nat /\ reader.file \in Nat
         /\ reader.pc \in {"closed", "reading", "polling", "ended"}
         /\ files \in Seq(Seq(Parts)) /\ Len(files) \in Nat /\ DOMAIN files = 1 .. Len(files)
         /\ emitted \in Seq(Lines) /\ Len(emitted) \in Nat
         /\ \A k \in 1 .. Len(emitted) : emitted[k].line \in 1 .. MaxLines
<1>1. emitted \in Seq(Lines)
  BY DEF TailTypeOK, Lines
<1>2. ASSUME NEW k \in 1 .. Len(emitted) PROVE emitted[k] \in Lines
  BY <1>1
<1>3. /\ MaxLines \in Nat /\ written \in Nat /\ logger.line \in Nat
      /\ reader.at \in Nat /\ reader.file \in Nat
      /\ reader.pc \in {"closed", "reading", "polling", "ended"}
  BY BoundsAssumption DEF TailTypeOK
<1>4. files \in Seq(Seq(Parts)) /\ Len(files) \in Nat /\ DOMAIN files = 1 .. Len(files)
  BY DEF TailTypeOK
<1>5. Len(emitted) \in Nat
  BY <1>1
<1>6. \A k \in 1 .. Len(emitted) : emitted[k].line \in 1 .. MaxLines
  BY <1>2 DEF Lines
<1> QED  BY <1>1, <1>3, <1>4, <1>5, <1>6

(* When a line is complete, NextEnd is one's end.                          *)
LEMMA NextEndFacts ==
  ASSUME TailTypeOK, ReaderInv, Opened, LineComplete
  PROVE  /\ NextEnd \in 1 .. Len(Content) /\ NextEnd > reader.at
         /\ Content[NextEnd][2] = "tail"
<1>1. Content \in Seq(Parts) /\ Len(Content) \in Nat /\ DOMAIN Content = 1 .. Len(Content)
  BY FileTypes DEF ReaderInv, Content
<1>2. Ends \subseteq 1 .. Len(Content) /\ Ends # {}
  BY <1>1 DEF Ends, LineComplete
<1>3. \E i \in Ends : \A j \in Ends : i <= j
  BY <1>1, <1>2, LeastPosition
<1>4. NextEnd \in Ends
  BY <1>3 DEF NextEnd
<1> QED  BY <1>1, <1>4 DEF Ends

-----------------------------------------------------------------------------
(* The logger writes parts to the file it has open.                        *)
LEMMA WriteFacts ==
  ASSUME TailTypeOK, LoggerInv, NEW d \in Seq(Parts), Write(d)
  PROVE  /\ files' \in Seq(Seq(Parts)) /\ DOMAIN files' = DOMAIN files
         /\ \A f \in DOMAIN files :
              /\ f # logger.file => files'[f] = files[f]
              /\ Len(files'[f]) = IF f = logger.file THEN Len(files[f]) + Len(d) ELSE Len(files[f])
              /\ \A i \in 1 .. Len(files[f]) : files'[f][i] = files[f][i]
              /\ f = logger.file =>
                   \A i \in 1 .. Len(d) : files'[f][Len(files[f]) + i] = d[i]
<1> DEFINE e == files[logger.file] \o d
<1>1. files \in Seq(Seq(Parts)) /\ logger.file \in DOMAIN files /\ files[logger.file] \in Seq(Parts)
  BY DEF TailTypeOK, LoggerInv
<1>2. /\ e \in Seq(Parts) /\ Len(e) = Len(files[logger.file]) + Len(d)
      /\ \A i \in 1 .. Len(files[logger.file]) : e[i] = files[logger.file][i]
      /\ \A i \in 1 .. Len(d) : e[Len(files[logger.file]) + i] = d[i]
  BY <1>1, Concatenated
<1>3. files' = [files EXCEPT ![logger.file] = e]
  BY DEF Write
<1> HIDE DEF e
<1>4. files' \in Seq(Seq(Parts)) /\ DOMAIN files' = DOMAIN files
  BY <1>1, <1>2, <1>3
<1>5. \A f \in DOMAIN files : files'[f] = IF f = logger.file THEN e ELSE files[f]
  BY <1>1, <1>3
<1> QED  BY <1>2, <1>4, <1>5

(* Parts of the line that comes next, or of the one that is being written, *)
(* leave the reader where it is and everything emitted behind it.          *)
LEMMA WriteAside ==
  ASSUME TailInv, NEW d \in Seq(Parts), Write(d), UNCHANGED <<reader, emitted, truncated>>,
         split \subseteq split', written' \in Nat, written <= written',
         logger'.line # 0 => written < written',
         \A i \in 1 .. Len(d) :
           d[i][1] = written' /\ (written < written' \/ logger.line # 0)
  PROVE  /\ ReaderInv' /\ InOrderOnce' /\ TornOnlyIfSplit'
         /\ \A k \in 1 .. Len(emitted) : AheadInv(k)'
<1>0. TailTypeOK /\ LoggerInv /\ ReaderInv /\ InOrderOnce /\ TornOnlyIfSplit
  BY DEF TailInv
<1>1. /\ DOMAIN files' = DOMAIN files
      /\ \A f \in DOMAIN files :
              /\ Len(files'[f]) = IF f = logger.file THEN Len(files[f]) + Len(d) ELSE Len(files[f])
              /\ \A i \in 1 .. Len(files[f]) : files'[f][i] = files[f][i]
              /\ f = logger.file =>
                   \A i \in 1 .. Len(d) : files'[f][Len(files[f]) + i] = d[i]
  BY <1>0, WriteFacts
<1>2. Len(d) \in Nat
  OBVIOUS
<1>3. Opened' = Opened
  BY DEF Opened
<1>4. ASSUME Opened
      PROVE  /\ reader.file \in DOMAIN files /\ reader.at \in Nat
             /\ Len(Content) \in Nat /\ Len(Content') \in Nat /\ Len(Content) <= Len(Content')
             /\ \A i \in 1 .. Len(Content) : Content'[i] = Content[i]
             /\ \A i \in 1 .. Len(Content') : i > Len(Content) =>
                  Content'[i][1] = written' /\ (written < written' \/ logger.line # 0)
  <2>1. reader.file \in DOMAIN files /\ Content' = files'[reader.file] /\ Content = files[reader.file]
    BY <1>0, <1>4 DEF ReaderInv, Content
  <2>2. Len(Content) \in Nat
    BY <1>0, <2>1, FileTypes
  <2>3. /\ Len(Content') = IF reader.file = logger.file THEN Len(Content) + Len(d) ELSE Len(Content)
        /\ \A i \in 1 .. Len(Content) : Content'[i] = Content[i]
        /\ reader.file = logger.file => \A i \in 1 .. Len(d) : Content'[Len(Content) + i] = d[i]
    BY <1>1, <2>1
  <2> HIDE DEF Content
  <2>4. ASSUME NEW i \in 1 .. Len(Content'), i > Len(Content)
        PROVE  Content'[i][1] = written' /\ (written < written' \/ logger.line # 0)
    <3>1. PICK m \in 1 .. Len(d) : i = Len(Content) + m
      <4>1. i - Len(Content) \in 1 .. Len(d) /\ i = Len(Content) + (i - Len(Content))
        BY <1>2, <2>2, <2>3, <2>4
      <4> QED  BY <4>1
    <3>2. reader.file = logger.file
      BY <2>2, <2>3, <2>4
    <3>3. Content'[i] = d[m]
      BY <2>3, <3>1, <3>2
    <3> QED  BY <3>3
  <2>5. Len(Content') \in Nat /\ Len(Content) <= Len(Content')
    BY <1>2, <2>2, <2>3
  <2>6. reader.at \in Nat
    BY <1>0, Types
  <2> QED  BY <2>1, <2>2, <2>3, <2>4, <2>5, <2>6
<1>5. ReaderInv'
  <2>1. Opened' => reader'.file \in DOMAIN files'
    BY <1>1, <1>3, <1>4
  <2>2. ASSUME Opened', ~truncated', reader'.at # 0
        PROVE  reader'.at <= Len(Content') /\ (Content'[reader'.at][2] = "tail" \/ Content'[reader'.at][1] \in split')
    <3>1. reader.at <= Len(Content) /\ (Content[reader.at][2] = "tail" \/ Content[reader.at][1] \in split)
      BY <1>0, <1>3, <2>2 DEF ReaderInv
    <3>2. reader.at \in 1 .. Len(Content)
      BY <1>3, <1>4, <2>2, <3>1
    <3> QED  BY <1>3, <1>4, <2>2, <3>1, <3>2
  <2>3. reader'.pc = "closed" => emitted' = <<>>
    BY <1>0 DEF ReaderInv
  <2> QED  BY <2>1, <2>2, <2>3 DEF ReaderInv
<1>6. InOrderOnce' /\ TornOnlyIfSplit'
  BY <1>0 DEF InOrderOnce, TornOnlyIfSplit
<1>7. ASSUME NEW k \in 1 .. Len(emitted) PROVE AheadInv(k)'
  <2>1. AheadInv(k)
    BY DEF TailInv
  <2>2. emitted[k].line \in Nat /\ written \in Nat
    BY <1>0, Types
  <2>3. emitted[k].line <= written' /\ (Opened /\ logger'.line # 0 => emitted[k].line < written')
    BY <2>1, <2>2 DEF AheadInv
  <2>4. ASSUME Opened, NEW i \in 1 .. Len(Content'), i > reader.at
        PROVE  emitted[k].line < Content'[i][1]
    <3>1. CASE i \in 1 .. Len(Content)
      BY <1>4, <2>1, <2>4, <3>1 DEF AheadInv
    <3>2. CASE i \notin 1 .. Len(Content)
      <4>1. Content'[i][1] = written' /\ (written < written' \/ logger.line # 0)
        BY <1>4, <2>4, <3>2
      <4>2. logger.line # 0 => emitted[k].line < written
        BY <2>1, <2>4 DEF AheadInv
      <4> QED  BY <2>1, <2>2, <4>1, <4>2 DEF AheadInv
    <3> QED  BY <3>1, <3>2
  <2> QED  BY <1>3, <2>3, <2>4 DEF AheadInv
<1> QED  BY <1>5, <1>6, <1>7

LEMMA WriteLineKeeps ==
  ASSUME TailInv, WriteLine
  PROVE  TailInv'
<1>0. TailTypeOK /\ LoggerInv /\ \A f \in DOMAIN files : FileInv(f)
  BY DEF TailInv
<1> DEFINE n == written + 1
           d == << <<n, "head">>, <<n, "tail">> >>
<1>1. /\ logger.line = 0 /\ written < MaxLines /\ written' = n /\ Write(d)
      /\ UNCHANGED <<logger, rotations, restarts, once, reader, emitted, split, truncated>>
  BY DEF WriteLine
<1>2. n \in 1 .. MaxLines /\ n \in Nat /\ written \in Nat /\ written <= n
  BY <1>0, <1>1, Types DEF TailTypeOK
<1>3. d \in Seq(Parts) /\ Len(d) = 2 /\ d[1] = <<n, "head">> /\ d[2] = <<n, "tail">>
  BY <1>2 DEF Parts
<1>4. \A i \in 1 .. Len(d) : d[i][1] = n
  BY <1>3
<1> HIDE DEF d
<1>5. /\ files' \in Seq(Seq(Parts)) /\ DOMAIN files' = DOMAIN files
      /\ \A f \in DOMAIN files : f # logger.file => files'[f] = files[f]
  BY <1>0, <1>1, <1>3, WriteFacts
<1>6. TailTypeOK' /\ LoggerInv'
  BY <1>0, <1>1, <1>2, <1>5 DEF TailTypeOK, LoggerInv
<1>7. /\ ReaderInv' /\ InOrderOnce' /\ TornOnlyIfSplit'
      /\ \A k \in 1 .. Len(emitted) : AheadInv(k)'
  <2>1. written' \in Nat /\ written < written' /\ logger'.line = 0 /\ split' = split
    BY <1>1, <1>2
  <2>2. UNCHANGED <<reader, emitted, truncated>> /\ written <= written'
    BY <1>1, <1>2
  <2>3. \A i \in 1 .. Len(d) : d[i][1] = written'
    BY <1>1, <1>4
  <2> QED  BY <1>1, <1>3, <2>1, <2>2, <2>3, WriteAside
<1>8. ASSUME NEW f \in DOMAIN files PROVE FileInv(f)'
  <2>1. files[f] \in Seq(Parts) /\ files'[f] \in Seq(Parts)
    BY <1>0, <1>5, FileTypes
  <2>2. FileOK(files[f], written, FALSE, split)
    <3>1. (logger.line # 0) = FALSE
      BY <1>1
    <3> QED  BY <1>0, <3>1 DEF FileInv
  <2>3. ((logger.line # 0) = FALSE)'
    BY <1>1
  <2>4. CASE f # logger.file
    <3>1. FileOK(files[f], n, FALSE, split)
      <4>1. FALSE \in BOOLEAN /\ (FALSE => written < n \/ FALSE) /\ split \subseteq split
        OBVIOUS
      <4> QED  BY <1>2, <2>1, <2>2, <4>1, FileAside
    <3> QED  BY <1>1, <1>5, <2>3, <2>4, <3>1 DEF FileInv
  <2>5. CASE f = logger.file
    <3>1. 1 \in 1 .. Len(d) /\ 2 \in 1 .. Len(d)
      BY <1>3
    <3>2. /\ Len(files'[f]) = Len(files[f]) + Len(d)
          /\ \A i \in 1 .. Len(files[f]) : files'[f][i] = files[f][i]
          /\ \A i \in 1 .. Len(d) : files'[f][Len(files[f]) + i] = d[i]
      BY <1>0, <1>1, <1>3, <2>5, WriteFacts
    <3>3. FileOK(files'[f], n, FALSE, split)
      BY <1>2, <1>3, <2>1, <2>2, <3>1, <3>2, FileLine
    <3> QED  BY <1>1, <2>3, <3>3 DEF FileInv
  <2> QED  BY <2>4, <2>5
<1> QED  BY <1>1, <1>5, <1>6, <1>7, <1>8 DEF TailInv

LEMMA WriteHeadKeeps ==
  ASSUME TailInv, WriteHead
  PROVE  TailInv'
<1>0. TailTypeOK /\ LoggerInv /\ \A f \in DOMAIN files : FileInv(f)
  BY DEF TailInv
<1> DEFINE n == written + 1
           d == << <<n, "head">> >>
<1>1. /\ logger.line = 0 /\ written < MaxLines /\ written' = n /\ Write(d)
      /\ logger' = [logger EXCEPT !.line = n] /\ split' = split \cup {n}
      /\ UNCHANGED <<rotations, restarts, once, reader, emitted, truncated>>
  BY DEF WriteHead
<1>2. n \in 1 .. MaxLines /\ n \in 0 .. MaxLines /\ n \in Nat /\ n # 0 /\ written \in Nat /\ written < n
  BY <1>0, <1>1, Types DEF TailTypeOK
<1>3. d \in Seq(Parts) /\ Len(d) = 1 /\ d[1] = <<n, "head">>
  BY <1>2 DEF Parts
<1>4. \A i \in 1 .. Len(d) : d[i][1] = n
  BY <1>3
<1> HIDE DEF d
<1>5. /\ files' \in Seq(Seq(Parts)) /\ DOMAIN files' = DOMAIN files
      /\ \A f \in DOMAIN files : f # logger.file => files'[f] = files[f]
  BY <1>0, <1>1, <1>3, WriteFacts
<1>6. logger' \in [file : Nat, line : 0 .. MaxLines] /\ logger'.file = logger.file /\ logger'.line = n
  BY <1>0, <1>1, <1>2 DEF TailTypeOK
<1>7. TailTypeOK' /\ LoggerInv'
  <2>1. split' \in SUBSET (1 .. MaxLines)
    BY <1>0, <1>1, <1>2 DEF TailTypeOK
  <2>2. TailTypeOK'
    BY <1>0, <1>1, <1>2, <1>5, <1>6, <2>1 DEF TailTypeOK
  <2> QED  BY <1>0, <1>1, <1>5, <1>6, <2>2 DEF LoggerInv
<1>8. /\ ReaderInv' /\ InOrderOnce' /\ TornOnlyIfSplit'
      /\ \A k \in 1 .. Len(emitted) : AheadInv(k)'
  <2>1. written' \in Nat /\ written < written' /\ written <= written' /\ split \subseteq split'
    BY <1>1, <1>2
  <2>2. UNCHANGED <<reader, emitted, truncated>>
    BY <1>1
  <2>3. \A i \in 1 .. Len(d) : d[i][1] = written'
    BY <1>1, <1>4
  <2> QED  BY <1>1, <1>3, <2>1, <2>2, <2>3, WriteAside
<1>9. ASSUME NEW f \in DOMAIN files PROVE FileInv(f)'
  <2>1. files[f] \in Seq(Parts) /\ files'[f] \in Seq(Parts)
    BY <1>0, <1>5, FileTypes
  <2>2. FileOK(files[f], written, FALSE, split)
    <3>1. (logger.line # 0) = FALSE
      BY <1>1
    <3> QED  BY <1>0, <3>1 DEF FileInv
  <2>3. ((logger.line # 0) = TRUE)'
    BY <1>2, <1>6
  <2>4. CASE f # logger.file
    <3>1. FileOK(files[f], n, TRUE, split')
      <4>1. FALSE \in BOOLEAN /\ TRUE \in BOOLEAN /\ (TRUE => written < n \/ FALSE) /\ split \subseteq split'
            /\ written <= n
        BY <1>1, <1>2
      <4> QED  BY <1>2, <2>1, <2>2, <4>1, FileAside
    <3> QED  BY <1>1, <1>5, <2>3, <2>4, <3>1 DEF FileInv
  <2>5. CASE f = logger.file
    <3>1. 1 \in 1 .. Len(d)
      BY <1>3
    <3>2. /\ Len(files'[f]) = Len(files[f]) + Len(d)
          /\ \A i \in 1 .. Len(files[f]) : files'[f][i] = files[f][i]
          /\ \A i \in 1 .. Len(d) : files'[f][Len(files[f]) + i] = d[i]
      BY <1>0, <1>1, <1>3, <2>5, WriteFacts
    <3>3. FileOK(files'[f], n, TRUE, split \cup {n})
      BY <1>2, <1>3, <2>1, <2>2, <3>1, <3>2, FileHead
    <3> QED  BY <1>1, <2>3, <3>3 DEF FileInv
  <2> QED  BY <2>4, <2>5
<1> QED  BY <1>1, <1>5, <1>7, <1>8, <1>9 DEF TailInv

LEMMA WriteTailKeeps ==
  ASSUME TailInv, WriteTail
  PROVE  TailInv'
<1>0. TailTypeOK /\ LoggerInv /\ \A f \in DOMAIN files : FileInv(f)
  BY DEF TailInv
<1> DEFINE d == << <<written, "tail">> >>
<1>1. /\ logger.line # 0 /\ logger.line = written /\ written \in split /\ Write(d)
      /\ logger' = [logger EXCEPT !.line = 0]
      /\ UNCHANGED <<written, rotations, restarts, once, reader, emitted, split, truncated>>
  BY <1>0 DEF WriteTail, LoggerInv
<1>2. written \in 1 .. MaxLines /\ written \in Nat /\ 0 \in 0 .. MaxLines
  BY <1>0, <1>1, Types DEF TailTypeOK
<1>3. d \in Seq(Parts) /\ Len(d) = 1 /\ d[1] = <<written, "tail">>
  BY <1>2 DEF Parts
<1>4. \A i \in 1 .. Len(d) : d[i][1] = written
  BY <1>3
<1> HIDE DEF d
<1>5. /\ files' \in Seq(Seq(Parts)) /\ DOMAIN files' = DOMAIN files
      /\ \A f \in DOMAIN files : f # logger.file => files'[f] = files[f]
  BY <1>0, <1>1, <1>3, WriteFacts
<1>6. logger' \in [file : Nat, line : 0 .. MaxLines] /\ logger'.file = logger.file /\ logger'.line = 0
  BY <1>0, <1>1, <1>2 DEF TailTypeOK
<1>7. TailTypeOK' /\ LoggerInv'
  BY <1>0, <1>1, <1>2, <1>5, <1>6 DEF TailTypeOK, LoggerInv
<1>8. /\ ReaderInv' /\ InOrderOnce' /\ TornOnlyIfSplit'
      /\ \A k \in 1 .. Len(emitted) : AheadInv(k)'
  <2>1. written' \in Nat /\ written <= written' /\ split \subseteq split' /\ logger'.line = 0
    BY <1>1, <1>2, <1>6
  <2>2. UNCHANGED <<reader, emitted, truncated>>
    BY <1>1
  <2>3. \A i \in 1 .. Len(d) : d[i][1] = written'
    BY <1>1, <1>4
  <2> QED  BY <1>1, <1>3, <2>1, <2>2, <2>3, WriteAside
<1>9. ASSUME NEW f \in DOMAIN files PROVE FileInv(f)'
  <2>1. files[f] \in Seq(Parts) /\ files'[f] \in Seq(Parts)
    BY <1>0, <1>5, FileTypes
  <2>2. FileOK(files[f], written, TRUE, split)
    <3>1. (logger.line # 0) = TRUE
      BY <1>1
    <3> QED  BY <1>0, <3>1 DEF FileInv
  <2>3. ((logger.line # 0) = FALSE)'
    BY <1>6
  <2>4. CASE f # logger.file
    <3>1. FileOK(files[f], written, FALSE, split)
      <4>1. FALSE \in BOOLEAN /\ TRUE \in BOOLEAN /\ (FALSE => written < written \/ TRUE)
            /\ split \subseteq split /\ written <= written
        BY <1>2
      <4> QED  BY <1>2, <2>1, <2>2, <4>1, FileAside
    <3> QED  BY <1>1, <1>5, <2>3, <2>4, <3>1 DEF FileInv
  <2>5. CASE f = logger.file
    <3>1. 1 \in 1 .. Len(d)
      BY <1>3
    <3>2. /\ Len(files'[f]) = Len(files[f]) + Len(d)
          /\ \A i \in 1 .. Len(files[f]) : files'[f][i] = files[f][i]
          /\ \A i \in 1 .. Len(d) : files'[f][Len(files[f]) + i] = d[i]
      BY <1>0, <1>1, <1>3, <2>5, WriteFacts
    <3>3. FileOK(files'[f], written, FALSE, split)
      BY <1>1, <1>2, <1>3, <2>1, <2>2, <3>1, <3>2, FileTail
    <3> QED  BY <1>1, <2>3, <3>3 DEF FileInv
  <2> QED  BY <2>4, <2>5
<1> QED  BY <1>1, <1>5, <1>7, <1>8, <1>9 DEF TailInv

-----------------------------------------------------------------------------
(* Rotation: a file is new and empty, or it is emptied, and marked so.     *)
LEMMA RotationKeeps ==
  ASSUME TailInv, Rename \/ Truncate
  PROVE  TailInv'
<1>0. /\ TailTypeOK /\ LoggerInv /\ ReaderInv /\ InOrderOnce /\ TornOnlyIfSplit
      /\ \A f \in DOMAIN files : FileInv(f)
  BY DEF TailInv
<1>1. /\ rotations' \in 0 .. MaxRotations
      /\ UNCHANGED <<logger, written, restarts, once, reader, emitted, split>>
  <2>1. /\ rotations < MaxRotations /\ rotations' = rotations + 1
        /\ UNCHANGED <<logger, written, restarts, once, reader, emitted, split>>
    BY DEF Rename, Truncate
  <2>2. rotations \in 0 .. MaxRotations /\ MaxRotations \in Nat
    BY <1>0, BoundsAssumption DEF TailTypeOK
  <2> QED  BY <2>1, <2>2
<1>2. /\ files' \in Seq(Seq(Parts)) /\ DOMAIN files \subseteq DOMAIN files'
      /\ truncated' \in BOOLEAN /\ (truncated => truncated')
      /\ \A f \in DOMAIN files : files'[f] = files[f] \/ (files'[f] = <<>> /\ truncated')
      /\ \A f \in DOMAIN files' : f \in DOMAIN files \/ files'[f] = <<>>
  <2>1. /\ files \in Seq(Seq(Parts)) /\ <<>> \in Seq(Parts) /\ truncated \in BOOLEAN
        /\ Len(files) \in Nat /\ DOMAIN files = 1 .. Len(files)
    BY <1>0, Types DEF TailTypeOK
  <2>2. CASE Rename
    <3>1. files' = Append(files, <<>>) /\ truncated' = truncated
      BY <2>2 DEF Rename
    <3>2. /\ files' \in Seq(Seq(Parts)) /\ Len(files') = Len(files) + 1
          /\ DOMAIN files' = 1 .. Len(files) + 1
          /\ \A f \in 1 .. Len(files) : files'[f] = files[f]
          /\ files'[Len(files) + 1] = <<>>
      BY <2>1, <3>1
    <3>3. \A f \in 1 .. Len(files) : f \in 1 .. Len(files) + 1
      BY <2>1
    <3>4. \A f \in 1 .. Len(files) + 1 : f \in 1 .. Len(files) \/ f = Len(files) + 1
      BY <2>1
    <3>5. \A f \in DOMAIN files : files'[f] = files[f]
      BY <2>1, <3>2
    <3>6. \A f \in DOMAIN files' : f \in DOMAIN files \/ files'[f] = <<>>
      BY <2>1, <3>2, <3>4
    <3>7. DOMAIN files \subseteq DOMAIN files'
      BY <2>1, <3>2, <3>3
    <3> QED  BY <2>1, <3>1, <3>2, <3>5, <3>6, <3>7
  <2>3. CASE Truncate
    <3>1. files' = [files EXCEPT ![Path] = <<>>] /\ truncated' = TRUE
      BY <2>3 DEF Truncate
    <3> DEFINE e == <<>>
    <3>2. e \in Seq(Parts) /\ files' = [files EXCEPT ![Path] = e]
      BY <2>1, <3>1
    <3> HIDE DEF e
    <3>4. files' \in Seq(Seq(Parts)) /\ DOMAIN files' = DOMAIN files
      <4>1. files' = [f \in 1 .. Len(files) |-> IF f = Path THEN e ELSE files[f]]
        BY <2>1, <3>2
      <4>2. \A f \in 1 .. Len(files) : (IF f = Path THEN e ELSE files[f]) \in Seq(Parts)
        BY <2>1, <3>2
      <4> QED  BY <2>1, <4>1, <4>2
    <3>3. \A f \in DOMAIN files : files'[f] = files[f] \/ files'[f] = <<>>
      BY <2>1, <3>1
    <3> QED  BY <3>1, <3>3, <3>4
  <2> QED  BY <2>2, <2>3
<1>3. TailTypeOK' /\ LoggerInv'
  BY <1>0, <1>1, <1>2 DEF TailTypeOK, LoggerInv
<1>4. ASSUME NEW f \in DOMAIN files' PROVE FileInv(f)'
  <2>1. CASE files'[f] = <<>>
    BY <2>1 DEF FileInv, FileOK
  <2>2. CASE f \in DOMAIN files /\ files'[f] = files[f]
    BY <1>0, <1>1, <2>2 DEF FileInv
  <2> QED  BY <1>2, <2>1, <2>2
<1>5. (Opened' => Opened) /\ (Opened => Opened')
  BY <1>1 DEF Opened
<1>6. ASSUME Opened
      PROVE  /\ reader.file \in DOMAIN files 
             /\ Content' = Content \/ (Content' = <<>> /\ truncated')
  BY <1>0, <1>1, <1>2, <1>6 DEF ReaderInv, Content
<1>7. ReaderInv'
  <2>1. ASSUME Opened' PROVE reader'.file \in DOMAIN files'
    <3>1. reader.file \in DOMAIN files /\ reader' = reader
      BY <1>1, <1>5, <1>6, <2>1
    <3> QED  BY <1>2, <3>1
  <2>2. ASSUME Opened', ~truncated', reader'.at # 0
        PROVE  reader'.at <= Len(Content') /\ (Content'[reader'.at][2] = "tail" \/ Content'[reader'.at][1] \in split')
    <3>1. Content' = Content
      BY <1>5, <1>6, <2>2
    <3> QED  BY <1>0, <1>1, <1>2, <1>5, <2>2, <3>1 DEF ReaderInv
  <2>3. reader'.pc = "closed" => emitted' = <<>>
    BY <1>0, <1>1 DEF ReaderInv
  <2> QED  BY <2>1, <2>2, <2>3 DEF ReaderInv
<1>8. InOrderOnce' /\ TornOnlyIfSplit'
  BY <1>0, <1>1, <1>2 DEF InOrderOnce, TornOnlyIfSplit
<1>9. ASSUME NEW k \in 1 .. Len(emitted') PROVE AheadInv(k)'
  <2>1. AheadInv(k)
    BY <1>1 DEF TailInv
  <2>2. ASSUME Opened, NEW i \in 1 .. Len(Content'), i > reader.at
        PROVE  emitted[k].line < Content'[i][1]
    <3>1. CASE Content' = Content
      BY <2>1, <2>2, <3>1 DEF AheadInv
    <3>2. CASE Content' = <<>>
      BY <2>2, <3>2
    <3> QED  BY <1>6, <2>2, <3>1, <3>2
  <2>3. emitted[k].line <= written /\ (Opened /\ logger.line # 0 => emitted[k].line < written)
    BY <2>1 DEF AheadInv
  <2> QED  BY <1>1, <1>5, <2>2, <2>3 DEF AheadInv
<1> QED  BY <1>3, <1>4, <1>7, <1>8, <1>9 DEF TailInv

LEMMA LoggerReopensKeeps ==
  ASSUME TailInv, LoggerReopens
  PROVE  TailInv'
<1>0. /\ TailTypeOK /\ LoggerInv /\ ReaderInv /\ InOrderOnce /\ TornOnlyIfSplit
      /\ \A f \in DOMAIN files : FileInv(f)
      /\ \A k \in 1 .. Len(emitted) : AheadInv(k)
  BY DEF TailInv
<1>1. /\ logger.line = 0 /\ logger' = [logger EXCEPT !.file = Len(files)]
      /\ UNCHANGED <<files, written, rotations, restarts, once, reader, emitted, split, truncated>>
  BY DEF LoggerReopens, Path
<1>2. /\ logger' \in [file : Nat, line : 0 .. MaxLines] /\ logger'.file = Len(files)
      /\ logger'.line = logger.line
  BY <1>0, <1>1, Types DEF TailTypeOK
<1>3. TailTypeOK'
  BY <1>0, <1>1, <1>2 DEF TailTypeOK
<1>4. LoggerInv'
  <2>1. 1 <= Len(files)
    BY <1>0, Types DEF LoggerInv
  <2>2. Len(files) \in DOMAIN files
    BY <1>0, <2>1, Types
  <2> QED  BY <1>0, <1>1, <1>2, <2>2 DEF LoggerInv
<1>5. \A f \in DOMAIN files' : FileInv(f)'
  BY <1>0, <1>1, <1>2 DEF FileInv
<1>6. ReaderInv' /\ InOrderOnce' /\ TornOnlyIfSplit'
  BY <1>0, <1>1 DEF ReaderInv, Opened, Content, InOrderOnce, TornOnlyIfSplit
<1>7. \A k \in 1 .. Len(emitted') : AheadInv(k)'
  BY <1>0, <1>1, <1>2 DEF AheadInv, Opened, Content
<1> QED  BY <1>3, <1>4, <1>5, <1>6, <1>7 DEF TailInv

-----------------------------------------------------------------------------
(* The reader changes nothing of the files.                                *)
LEMMA LogKept ==
  ASSUME TailInv, UNCHANGED logSide
  PROVE  LoggerInv' /\ \A f \in DOMAIN files' : FileInv(f)'
<1>1. UNCHANGED <<files, logger, written, split>> /\ LoggerInv /\ \A f \in DOMAIN files : FileInv(f)
  BY DEF TailInv, logSide
<1> QED  BY <1>1 DEF LoggerInv, FileInv

(* Opening a file, polling it, going away: nothing is emitted.             *)
LEMMA OpenKeeps ==
  ASSUME TailInv, Open \/ AgentRestarts
  PROVE  TailInv'
<1>0. TailTypeOK /\ LoggerInv /\ ReaderInv
  BY DEF TailInv
<1>1. UNCHANGED logSide /\ UNCHANGED <<files, logger, written, rotations, split, truncated, once>>
  BY DEF Open, AgentRestarts, logSide
<1>2. emitted' = <<>> /\ reader'.at = 0
  BY <1>0 DEF Open, AgentRestarts, ReaderInv
<1>3. Path \in Nat /\ Path \in DOMAIN files
  <2>1. 1 <= Len(files)
    BY <1>0, Types DEF LoggerInv
  <2> QED  BY <1>0, <2>1, Types DEF Path
<1>4. TailTypeOK'
  <2>1. reader' \in [pc : {"closed", "reading", "polling", "ended"}, file : Nat, at : Nat]
    BY <1>3 DEF Open, AgentRestarts
  <2>2. restarts' \in 0 .. MaxRestarts
    <3>1. restarts \in 0 .. MaxRestarts /\ MaxRestarts \in Nat
      BY <1>0, BoundsAssumption DEF TailTypeOK
    <3>2. restarts' = restarts \/ (restarts < MaxRestarts /\ restarts' = restarts + 1)
      BY DEF Open, AgentRestarts
    <3> QED  BY <3>1, <3>2
  <2> QED  BY <1>0, <1>1, <1>2, <2>1, <2>2 DEF TailTypeOK
<1>5. ReaderInv'
  <2>1. Opened' => reader'.file = Path
    BY DEF Open, AgentRestarts, Opened
  <2> QED  BY <1>1, <1>2, <1>3, <2>1 DEF ReaderInv
<1>6. InOrderOnce' /\ TornOnlyIfSplit' /\ \A k \in 1 .. Len(emitted') : AheadInv(k)'
  BY <1>2 DEF InOrderOnce, TornOnlyIfSplit
<1> QED  BY <1>1, <1>4, <1>5, <1>6, LogKept DEF TailInv

LEMMA PollKeeps ==
  ASSUME TailInv, Poll
  PROVE  TailInv'
<1>0. /\ TailTypeOK /\ ReaderInv /\ InOrderOnce /\ TornOnlyIfSplit
      /\ \A k \in 1 .. Len(emitted) : AheadInv(k)
  BY DEF TailInv
<1>1. UNCHANGED logSide
      /\ UNCHANGED <<files, logger, written, rotations, split, truncated, restarts, once, emitted>>
  BY DEF Poll, logSide
<1>2. reader.pc = "polling" /\ reader' = [reader EXCEPT !.pc = "reading"]
  BY <1>0 DEF Poll, PolledFrom, TailTypeOK
<1>3. /\ reader' \in [pc : {"closed", "reading", "polling", "ended"}, file : Nat, at : Nat]
      /\ reader'.pc = "reading" /\ reader'.file = reader.file /\ reader'.at = reader.at
  BY <1>0, <1>2 DEF TailTypeOK
<1>4. Opened /\ Opened' /\ Content' = Content
  BY <1>1, <1>2, <1>3 DEF Opened, Content
<1>5. TailTypeOK'
  BY <1>0, <1>1, <1>3 DEF TailTypeOK
<1>6. ReaderInv'
  BY <1>0, <1>1, <1>3, <1>4 DEF ReaderInv
<1>7. InOrderOnce' /\ TornOnlyIfSplit'
  BY <1>0, <1>1 DEF InOrderOnce, TornOnlyIfSplit
<1>8. \A k \in 1 .. Len(emitted') : AheadInv(k)'
  BY <1>0, <1>1, <1>3, <1>4 DEF AheadInv
<1> QED  BY <1>1, <1>5, <1>6, <1>7, <1>8, LogKept DEF TailInv

(* Nothing behind the reader ends a line: the last part is of a split one. *)
LEMMA IncompleteEnd ==
  ASSUME TailInv, reader.pc = "reading", ~LineComplete
  PROVE  /\ Content \in Seq(Parts) /\ Len(Content) \in Nat /\ reader.at \in Nat /\ AtEnd \in Nat
         /\ FileInv(reader.file) /\ reader.file \in DOMAIN files
         /\ reader.at < Len(Content) =>
              Content[Len(Content)][2] = "head" /\ Content[Len(Content)][1] \in split
<1>1. TailTypeOK /\ ReaderInv /\ (\A f \in DOMAIN files : FileInv(f)) /\ Opened
  BY DEF TailInv, Opened
<1>2. reader.file \in DOMAIN files /\ Content = files[reader.file] /\ FileInv(reader.file)
  BY <1>1 DEF ReaderInv, Content
<1>3. Content \in Seq(Parts) /\ Len(Content) \in Nat /\ reader.at \in Nat
  BY <1>1, <1>2, FileTypes, Types
<1>4. ASSUME reader.at < Len(Content)
      PROVE  Content[Len(Content)][2] = "head" /\ Content[Len(Content)][1] \in split
  <2>1. Len(Content) \in 1 .. Len(Content) /\ DOMAIN Content = 1 .. Len(Content)
    BY <1>3, <1>4
  <2>2. Content[Len(Content)][2] # "tail"
    BY <1>4, <2>1 DEF LineComplete, Ends
  <2>3. Content[Len(Content)][2] = "head"
    BY <1>3, <2>1, <2>2, PartTypes
  <2>4. Content[Len(Content)][1] \notin split => Len(Content) < Len(Content)
    BY <1>2, <2>1, <2>3 DEF FileInv, FileOK
  <2> QED  BY <1>3, <2>3, <2>4
<1> QED  BY <1>2, <1>3, <1>4 DEF AtEnd

LEMMA ReadEndKeeps ==
  ASSUME TailInv, ReadEnd
  PROVE  TailInv'
<1>0. /\ TailTypeOK /\ ReaderInv /\ InOrderOnce /\ TornOnlyIfSplit
      /\ \A k \in 1 .. Len(emitted) : AheadInv(k)
  BY DEF TailInv
<1>1. UNCHANGED logSide
      /\ UNCHANGED <<files, logger, written, rotations, split, truncated, restarts, once, emitted>>
  BY DEF ReadEnd, logSide
<1>2. reader.pc = "reading" /\ reader' = [reader EXCEPT !.pc = "polling", !.at = AtEnd] /\ ~LineComplete
  BY DEF ReadEnd
<1>3. /\ Len(Content) \in Nat /\ reader.at \in Nat /\ AtEnd \in Nat
      /\ reader.file \in DOMAIN files
      /\ reader.at < Len(Content) => Content[Len(Content)][1] \in split
  BY <1>2, IncompleteEnd
<1>4. /\ reader' \in [pc : {"closed", "reading", "polling", "ended"}, file : Nat, at : Nat]
      /\ reader'.pc = "polling" /\ reader'.file = reader.file /\ reader'.at = AtEnd
  BY <1>0, <1>2, <1>3 DEF TailTypeOK
<1>5. Opened /\ Opened' /\ Content' = Content
  BY <1>1, <1>2, <1>4 DEF Opened, Content
<1>6. TailTypeOK'
  BY <1>0, <1>1, <1>4 DEF TailTypeOK
<1>7. ReaderInv'
  <2>1. ASSUME ~truncated, AtEnd # 0
        PROVE  AtEnd <= Len(Content) /\ (Content[AtEnd][2] = "tail" \/ Content[AtEnd][1] \in split)
    <3>1. CASE reader.at < Len(Content)
      BY <1>3, <3>1 DEF AtEnd
    <3>2. CASE ~ (reader.at < Len(Content))
      BY <1>0, <1>5, <2>1, <3>2 DEF AtEnd, ReaderInv
    <3> QED  BY <3>1, <3>2
  <2>2. reader'.file \in DOMAIN files' /\ reader'.pc # "closed"
    BY <1>1, <1>3, <1>4
  <2> QED  BY <1>1, <1>4, <1>5, <2>1, <2>2 DEF ReaderInv
<1>8. InOrderOnce' /\ TornOnlyIfSplit'
  BY <1>0, <1>1 DEF InOrderOnce, TornOnlyIfSplit
<1>9. \A k \in 1 .. Len(emitted') : AheadInv(k)'
  <2>1. AtEnd >= reader.at
    BY <1>3 DEF AtEnd
  <2> QED  BY <1>0, <1>1, <1>3, <1>4, <1>5, <2>1 DEF AheadInv
<1> QED  BY <1>1, <1>6, <1>7, <1>8, <1>9, LogKept DEF TailInv

-----------------------------------------------------------------------------
(* One more line is emitted, a later one than all before.                  *)
LEMMA EmitFacts ==
  ASSUME TailInv, NEW e \in Lines, emitted' = Append(emitted, e), UNCHANGED logSide,
         \A k \in 1 .. Len(emitted) : emitted[k].line < e.line,
         e.whole \/ e.line \in split \/ truncated
  PROVE  /\ emitted' \in Seq(Lines) /\ InOrderOnce' /\ TornOnlyIfSplit'
         /\ Len(emitted) \in Nat /\ Len(emitted') = Len(emitted) + 1
         /\ \A k \in 1 .. Len(emitted) : emitted'[k] = emitted[k]
         /\ emitted'[Len(emitted) + 1] = e
<1>0. TailTypeOK /\ InOrderOnce /\ TornOnlyIfSplit
  BY DEF TailInv
<1>1. emitted \in Seq(Lines) /\ Len(emitted) \in Nat /\ DOMAIN emitted = 1 .. Len(emitted)
      /\ \A k \in 1 .. Len(emitted) : emitted[k].line \in 1 .. MaxLines
  BY <1>0, Types
<1>2. /\ emitted' \in Seq(Lines) /\ Len(emitted') = Len(emitted) + 1
      /\ DOMAIN emitted' = 1 .. Len(emitted) + 1
      /\ \A k \in 1 .. Len(emitted) : emitted'[k] = emitted[k]
      /\ emitted'[Len(emitted) + 1] = e
  BY <1>1
<1>3. \A k \in 1 .. Len(emitted) + 1 : k \in 1 .. Len(emitted) \/ k = Len(emitted) + 1
  BY <1>1
<1>4. InOrderOnce'
  <2> SUFFICES ASSUME NEW i \in DOMAIN emitted', NEW j \in DOMAIN emitted', i < j
               PROVE  emitted'[i].line < emitted'[j].line
    BY DEF InOrderOnce
  <2>1. i \in 1 .. Len(emitted)
    BY <1>1, <1>2
  <2>2. CASE j \in 1 .. Len(emitted)
    BY <1>0, <1>1, <1>2, <2>1, <2>2 DEF InOrderOnce
  <2>3. CASE j = Len(emitted) + 1
    BY <1>2, <2>1, <2>3
  <2> QED  BY <1>2, <1>3, <2>2, <2>3
<1>5. TornOnlyIfSplit'
  <2>1. UNCHANGED <<split, truncated>>
    BY DEF logSide
  <2> SUFFICES ASSUME NEW i \in DOMAIN emitted'
               PROVE  emitted'[i].whole \/ emitted'[i].line \in split \/ truncated
    BY <2>1 DEF TornOnlyIfSplit
  <2>2. CASE i \in 1 .. Len(emitted)
    BY <1>0, <1>1, <1>2, <2>2 DEF TornOnlyIfSplit
  <2>3. CASE i = Len(emitted) + 1
    BY <1>2, <2>3
  <2> QED  BY <1>2, <1>3, <2>2, <2>3
<1> QED  BY <1>1, <1>2, <1>4, <1>5

LEMMA ReadLineKeeps ==
  ASSUME TailInv, ReadLine
  PROVE  TailInv'
<1>0. /\ TailTypeOK /\ LoggerInv /\ ReaderInv /\ Opened
      /\ \A f \in DOMAIN files : FileInv(f)
      /\ \A k \in 1 .. Len(emitted) : AheadInv(k)
  BY DEF TailInv, ReadLine, Opened
<1> DEFINE e == LineTo(NextEnd)
<1>1. /\ emitted' = Append(emitted, e) /\ reader' = [reader EXCEPT !.at = NextEnd]
      /\ UNCHANGED logSide
      /\ UNCHANGED <<files, logger, written, rotations, split, truncated, restarts, once>>
  BY DEF ReadLine, logSide
<1>2. /\ NextEnd \in 1 .. Len(Content) /\ NextEnd > reader.at
      /\ Content[NextEnd][2] = "tail"
  BY <1>0, NextEndFacts DEF ReadLine
<1>3. /\ reader.file \in DOMAIN files /\ Content = files[reader.file]
      /\ Content \in Seq(Parts) /\ Len(Content) \in Nat
      /\ FileOK(Content, written, logger.line # 0, split)
  BY <1>0, FileTypes DEF ReaderInv, Content, FileInv
<1>4. Content[NextEnd][1] \in 1 .. MaxLines /\ Content[NextEnd][1] \in Nat
  BY <1>2, <1>3, PartTypes
<1>5. e \in Lines /\ e.line = Content[NextEnd][1] /\ e.whole = (NextEnd > reader.at + 1)
  BY <1>4 DEF LineTo, Lines
<1>6. ASSUME NEW k \in 1 .. Len(emitted) PROVE emitted[k].line < e.line
  BY <1>0, <1>2, <1>5 DEF AheadInv
<1>7. e.whole \/ e.line \in split \/ truncated
  <2> SUFFICES ASSUME ~e.whole, e.line \notin split, ~truncated PROVE FALSE
    OBVIOUS
  <2>0. reader.at \in Nat /\ NextEnd \in Nat /\ ~ (NextEnd > reader.at + 1)
    <3>1. reader.at \in Nat /\ NextEnd \in Nat
      BY <1>0, <1>2, <1>3, Types
    <3>2. ~ (NextEnd > reader.at + 1)
      BY <1>5
    <3> QED  BY <3>1, <3>2
  <2>1. NextEnd = reader.at + 1
    BY <1>2, <2>0
  <2>2. NextEnd > 1 /\ Content[NextEnd - 1] = <<Content[NextEnd][1], "head">>
    BY <1>2, <1>3, <1>5 DEF FileOK
  <2>3. reader.at # 0 /\ Content[reader.at] = <<Content[NextEnd][1], "head">>
    <3>1. NextEnd - 1 = reader.at /\ reader.at # 0
      BY <2>0, <2>1, <2>2
    <3> QED  BY <2>2, <3>1
  <2>4. Content[reader.at][2] = "tail" \/ Content[reader.at][1] \in split
    BY <1>0, <2>3 DEF ReaderInv
  <2> QED  BY <1>5, <2>3, <2>4
<1>8. /\ Content[NextEnd][1] <= written /\ (logger.line # 0 => Content[NextEnd][1] < written)
      /\ \A i \in 1 .. Len(Content) : i > NextEnd => Content[NextEnd][1] < Content[i][1]
  <2>1. /\ Content[NextEnd][1] <= written
        /\ logger.line # 0 => Content[NextEnd][1] # written
        /\ \A i \in 1 .. Len(Content) : NextEnd < i => Content[NextEnd][1] < Content[i][1]
    BY <1>2, <1>3 DEF FileOK
  <2> QED  BY <1>0, <1>2, <1>4, <2>1, Types
<1> HIDE DEF e
<1>9. /\ emitted' \in Seq(Lines) /\ InOrderOnce' /\ TornOnlyIfSplit'
      /\ Len(emitted) \in Nat /\ Len(emitted') = Len(emitted) + 1
      /\ \A k \in 1 .. Len(emitted) : emitted'[k] = emitted[k]
      /\ emitted'[Len(emitted) + 1] = e
  BY <1>1, <1>5, <1>6, <1>7, EmitFacts
<1>10. /\ reader' \in [pc : {"closed", "reading", "polling", "ended"}, file : Nat, at : Nat]
       /\ reader'.pc = reader.pc /\ reader'.file = reader.file /\ reader'.at = NextEnd
  <2>1. NextEnd \in Nat
    BY <1>2, <1>3
  <2>2. reader \in [pc : {"closed", "reading", "polling", "ended"}, file : Nat, at : Nat]
    BY <1>0 DEF TailTypeOK
  <2> HIDE DEF NextEnd
  <2> QED  BY <1>1, <2>1, <2>2
<1>11. Opened' /\ Content' = Content /\ reader.pc # "closed"
  BY <1>0, <1>1, <1>10 DEF Opened, Content
<1>12. TailTypeOK'
  BY <1>0, <1>1, <1>9, <1>10 DEF TailTypeOK, Lines
<1>13. ReaderInv'
  BY <1>1, <1>2, <1>3, <1>10, <1>11 DEF ReaderInv
<1>14. ASSUME NEW k \in 1 .. Len(emitted') PROVE AheadInv(k)'
  <2>1. k \in 1 .. Len(emitted) \/ k = Len(emitted) + 1
    BY <1>9
  <2>2. CASE k \in 1 .. Len(emitted)
    <3>1. /\ emitted[k].line <= written
          /\ logger.line # 0 => emitted[k].line < written
          /\ \A i \in 1 .. Len(Content) : i > reader.at => emitted[k].line < Content[i][1]
      BY <1>0, <2>2 DEF AheadInv
    <3>2. \A i \in 1 .. Len(Content) : i > NextEnd => i > reader.at
      BY <1>0, <1>2, <1>3, Types
    <3> QED  BY <1>1, <1>9, <1>10, <1>11, <2>2, <3>1, <3>2 DEF AheadInv
  <2>3. CASE k = Len(emitted) + 1
    BY <1>1, <1>5, <1>8, <1>9, <1>10, <1>11, <2>3 DEF AheadInv
  <2> QED  BY <2>1, <2>2, <2>3
<1> QED  BY <1>1, <1>9, <1>12, <1>13, <1>14, LogKept DEF TailInv

LEMMA ReadLastKeeps ==
  ASSUME TailInv, ReadLast
  PROVE  TailInv'
<1>0. /\ TailTypeOK /\ InOrderOnce /\ TornOnlyIfSplit /\ Opened
      /\ \A k \in 1 .. Len(emitted) : AheadInv(k)
  BY DEF TailInv, ReadLast, Opened
<1> DEFINE e == [line |-> Content[Len(Content)][1], whole |-> FALSE]
<1>1. /\ emitted' = IF reader.at < Len(Content) THEN Append(emitted, e) ELSE emitted
      /\ reader' = [reader EXCEPT !.pc = "ended", !.at = AtEnd] /\ UNCHANGED logSide
      /\ UNCHANGED <<files, logger, written, rotations, split, truncated, restarts, once>>
  BY DEF ReadLast, logSide
<1>2. /\ Content \in Seq(Parts) /\ Len(Content) \in Nat /\ reader.at \in Nat /\ AtEnd \in Nat
      /\ FileInv(reader.file)
      /\ reader.at < Len(Content) => Content[Len(Content)][1] \in split
  BY IncompleteEnd DEF ReadLast
<1>3. /\ reader' \in [pc : {"closed", "reading", "polling", "ended"}, file : Nat, at : Nat]
      /\ reader'.pc = "ended"
  BY <1>0, <1>1, <1>2 DEF TailTypeOK
<1>4. /\ emitted' \in Seq(Lines) /\ InOrderOnce' /\ TornOnlyIfSplit'
      /\ \A k \in 1 .. Len(emitted') : emitted'[k].line <= written
  <2>1. CASE ~ (reader.at < Len(Content))
    <3>1. emitted' = emitted
      BY <1>1, <2>1
    <3> QED  BY <1>0, <1>1, <3>1, Types DEF InOrderOnce, TornOnlyIfSplit, AheadInv
  <2>2. CASE reader.at < Len(Content)
    <3>1. Len(Content) \in 1 .. Len(Content)
      BY <1>2, <2>2
    <3>2. Content[Len(Content)][1] \in 1 .. MaxLines /\ Content[Len(Content)][1] <= written
      BY <1>2, <3>1, PartTypes DEF FileInv, FileOK, Content
    <3>3. e \in Lines /\ e.line = Content[Len(Content)][1] /\ emitted' = Append(emitted, e)
      BY <1>1, <2>2, <3>2 DEF Lines
    <3>4. \A k \in 1 .. Len(emitted) : emitted[k].line < e.line /\ emitted[k].line <= written
      BY <1>0, <2>2, <3>1, <3>3 DEF AheadInv
    <3>5. e.line \in split /\ e.line <= written
      BY <1>2, <2>2, <3>2, <3>3
    <3> HIDE DEF e
    <3>6. /\ emitted' \in Seq(Lines) /\ InOrderOnce' /\ TornOnlyIfSplit'
          /\ Len(emitted) \in Nat /\ Len(emitted') = Len(emitted) + 1
          /\ \A k \in 1 .. Len(emitted) : emitted'[k] = emitted[k]
          /\ emitted'[Len(emitted) + 1] = e
      BY <1>1, <3>3, <3>4, <3>5, EmitFacts
    <3>7. ASSUME NEW k \in 1 .. Len(emitted') PROVE emitted'[k].line <= written
      <4>1. k \in 1 .. Len(emitted) \/ k = Len(emitted) + 1
        BY <3>6
      <4> QED  BY <3>4, <3>5, <3>6, <4>1
    <3> QED  BY <3>6, <3>7
  <2> QED  BY <2>1, <2>2
<1>5. ~Opened'
  BY <1>3 DEF Opened
<1>6. TailTypeOK'
  BY <1>0, <1>1, <1>3, <1>4 DEF TailTypeOK, Lines
<1>7. ReaderInv' /\ \A k \in 1 .. Len(emitted') : AheadInv(k)'
  BY <1>1, <1>3, <1>4, <1>5 DEF ReaderInv, AheadInv
<1> QED  BY <1>1, <1>4, <1>6, <1>7, LogKept DEF TailInv

-----------------------------------------------------------------------------
LEMMA InitGood ==
  ASSUME TailInit
  PROVE  TailInv
<1>1. files \in Seq(Seq(Parts)) /\ DOMAIN files = {1} /\ files[1] = <<>>
  BY DEF TailInit
<1>2. emitted = <<>> /\ emitted \in Seq(Lines)
  BY DEF TailInit
<1>3. TailTypeOK
  <2>1. /\ logger \in [file : Nat, line : 0 .. MaxLines] /\ written \in 0 .. MaxLines
        /\ rotations \in 0 .. MaxRotations /\ restarts \in 0 .. MaxRestarts
    BY BoundsAssumption DEF TailInit
  <2>2. /\ reader \in [pc : {"closed", "reading", "polling", "ended"}, file : Nat, at : Nat]
        /\ once \in BOOLEAN /\ split \in SUBSET (1 .. MaxLines) /\ truncated \in BOOLEAN
    BY DEF TailInit
  <2> QED  BY <1>1, <1>2, <2>1, <2>2 DEF TailTypeOK, Lines
<1>4. LoggerInv /\ ReaderInv
  BY <1>1 DEF TailInit, LoggerInv, ReaderInv, Opened
<1>5. \A f \in DOMAIN files : FileInv(f)
  BY <1>1 DEF FileInv, FileOK
<1>6. InOrderOnce /\ TornOnlyIfSplit /\ \A k \in 1 .. Len(emitted) : AheadInv(k)
  BY <1>2 DEF InOrderOnce, TornOnlyIfSplit
<1> QED  BY <1>3, <1>4, <1>5, <1>6 DEF TailInv

LEMMA StutterKeeps ==
  ASSUME TailInv, UNCHANGED tailVars
  PROVE  TailInv'
<1>1. UNCHANGED <<files, logger, written, rotations, restarts, once, reader, emitted, split, truncated>>
  BY DEF tailVars
<1>2. /\ TailTypeOK /\ LoggerInv /\ ReaderInv /\ InOrderOnce /\ TornOnlyIfSplit
      /\ \A f \in DOMAIN files : FileInv(f)
      /\ \A k \in 1 .. Len(emitted) : AheadInv(k)
  BY DEF TailInv
<1>3. TailTypeOK' /\ LoggerInv' /\ ReaderInv' /\ InOrderOnce' /\ TornOnlyIfSplit'
  BY <1>1, <1>2 DEF TailTypeOK, LoggerInv, ReaderInv, Opened, Content, InOrderOnce, TornOnlyIfSplit
<1>4. \A f \in DOMAIN files' : FileInv(f)'
  BY <1>1, <1>2 DEF FileInv
<1>5. \A k \in 1 .. Len(emitted') : AheadInv(k)'
  BY <1>1, <1>2 DEF AheadInv, Opened, Content
<1> QED  BY <1>3, <1>4, <1>5 DEF TailInv

LEMMA StepKeeps ==
  ASSUME TailInv, [TailNext]_tailVars
  PROVE  TailInv'
<1>1. CASE Log
  BY <1>1, WriteLineKeeps, WriteHeadKeeps, WriteTailKeeps, LoggerReopensKeeps DEF Log
<1>2. CASE Reader
  BY <1>2, OpenKeeps, ReadLineKeeps, ReadLastKeeps, ReadEndKeeps, PollKeeps DEF Reader
<1>3. CASE Rename \/ Truncate
  BY <1>3, RotationKeeps
<1>4. CASE AgentRestarts
  BY <1>4, OpenKeeps
<1>5. CASE UNCHANGED tailVars
  BY <1>5, StutterKeeps
<1> QED  BY <1>1, <1>2, <1>3, <1>4, <1>5 DEF TailNext

(* Of every execution, with any number of lines, rotations and restarts.   *)
THEOREM TailInductive == TailSpec => []TailInv
<1>1. TailInit => TailInv
  BY InitGood
<1>2. TailInv /\ [TailNext]_tailVars => TailInv'
  BY StepKeeps
<1> QED  BY <1>1, <1>2, PTL DEF TailSpec

(* The reader and the logs it follows keep their types.                    *)
THEOREM TailTypeCorrect == TailSpec => []TailTypeOK
<1>1. TailInv => TailTypeOK
  BY DEF TailInv
<1> QED  BY <1>1, TailInductive, PTL

(* A run of FileSource.Run sends the lines in the order they were written, *)
(* and no line twice, however often the log is renamed or truncated.       *)
THEOREM InOrderOnceHolds == TailSpec => []InOrderOnce
<1>1. TailInv => InOrderOnce
  BY DEF TailInv
<1> QED  BY <1>1, TailInductive, PTL

(* Only a line the logger wrote in two goes, or one of a truncated file,   *)
(* comes out in part: dropping what ReadString returned at the end of the  *)
(* file costs nothing else.                                                *)
THEOREM TornOnlyIfSplitHolds == TailSpec => []TornOnlyIfSplit
<1>1. TailInv => TornOnlyIfSplit
  BY DEF TailInv
<1> QED  BY <1>1, TailInductive, PTL

=============================================================================
