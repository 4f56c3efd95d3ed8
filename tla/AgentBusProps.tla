----------------------------- MODULE AgentBusProps -----------------------------
(***************************************************************************)
(* What is checked of AgentBus.                                            *)
(***************************************************************************)
EXTENDS AgentBus

Calm == ~signal /\ sender.pc # "failed"

(* The queues between the log of a collector and the stream, oldest first. *)
Way(c) == sent[c] \o <<sender.ev>> \o bus \o <<pump[c].ev>> \o out[c]

Complete(w, c) == \A n \in 1..found[c] : \E i \in DOMAIN w : w[i] = <<c, n>>

Ordered(w, c) ==
  \A i, j \in DOMAIN w : i < j /\ w[i][1] = c /\ w[j][1] = c => w[i][2] < w[j][2]

(* What a collector found is on its way, complete and in order, in the     *)
(* four queues between its log and the stream, while the agent is not      *)
(* stopping: a full channel slows collectors down, it drops nothing.       *)
NothingDropped ==
  Calm => \A c \in Collectors : Complete(Way(c), c) /\ Ordered(Way(c), c)

(* The channel is closed only when no collector can still send on it (the  *)
(* wait group counts the pumps too).                                       *)
PumpsNeverPanic == proc # "pump"

(* A scan of the file watcher finds the channel closed only in an agent    *)
(* that is being stopped: its goroutine is in no wait group.               *)
TimerPanicsOnlyStopping == proc = "timer" => signal

(* A write that the watcher has seen is followed by a scan, whatever of    *)
(* the timers has fired, is stopped or waits for the mutex.                *)
WrittenIsDue == dirty => Due # {}

(* One scan follows a burst of writes: the timer that runs is the one in   *)
(* the map, unless a write came while one that had fired waited for the    *)
(* mutex (it then deletes its successor's entry), until those are done.    *)
Debounced == missed \/ \A n \in Due : pending = n

(* An agent whose stream failed, or that was told to stop, ends: nothing   *)
(* keeps the heartbeat loop on a channel nobody reads any more.            *)
EndsWhenItMust == sender.pc = "failed" \/ signal ~> proc # "running"

-----------------------------------------------------------------------------
(* The inductive invariant behind the safety properties.                   *)

Has(e, c) == IF e[1] = c THEN 1 ELSE 0

(* How many of a collector's events have left the channel, and entered it. *)
Left(c) == Len(sent[c]) + Has(sender.ev, c)
Entered(c) == found[c] - Len(out[c]) - Has(pump[c].ev, c)

(* Who holds an event; nobody queues an event of a collector but its pump. *)
HeldInv ==
  /\ sender.pc # "sending" => sender.ev = Nothing
  /\ \A c \in Collectors : /\ pump[c].pc # "holding" => pump[c].ev = Nothing
                           /\ pump[c].pc = "holding" => pump[c].ev[1] = c
                           /\ \A i \in 1..Len(out[c]) : out[c][i][1] = c

(* Where the n-th event of a collector is.                                 *)
PlaceInv(c) ==
  /\ \A i \in 1..Len(sent[c]) : sent[c][i] = <<c, i>>
  /\ sender.ev[1] = c => sender.ev = <<c, Len(sent[c]) + 1>>
  /\ Left(c) <= Entered(c)
  /\ \A n \in 1..found[c] : Left(c) < n /\ n <= Entered(c) => \E i \in 1..Len(bus) : bus[i] = <<c, n>>
  /\ \A i \in 1..Len(bus) :
       bus[i][1] = c => Left(c) < bus[i][2] /\ bus[i][2] <= Entered(c)
  /\ \A i, j \in 1..Len(bus) :
       i < j /\ bus[i][1] = c /\ bus[j][1] = c => bus[i][2] < bus[j][2]
  /\ pump[c].ev[1] = c => pump[c].ev = <<c, found[c] - Len(out[c])>>
  /\ \A i \in 1..Len(out[c]) : out[c][i] = <<c, found[c] - Len(out[c]) + i>>

(* Who is past his last send when the channel is closed.                   *)
CloseInv ==
  /\ closed => AllReturned
  /\ \A n \in Timers : timer[n] # "none" => watcher = "running" \/ signal

IInv ==
  /\ TypeOK /\ HeldInv /\ CloseInv
  /\ Calm => \A c \in Collectors : PlaceInv(c)
  /\ WrittenIsDue /\ Debounced
  /\ PumpsNeverPanic /\ TimerPanicsOnlyStopping

=============================================================================
