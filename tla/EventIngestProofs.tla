--------------------------- MODULE EventIngestProofs ---------------------------
(***************************************************************************)
(* What StreamEvents keeps, for any events and any batch size.             *)
(***************************************************************************)
EXTENDS EventIngestProps, TLAPS, FiniteSetTheorems

(* The head and the tail of what is on the wire.                           *)
LEMMA WireHead ==
  ASSUME wire \in Seq(Events), wire # <<>>
  PROVE  /\ Head(wire) \in Events /\ Head(wire) = wire[1]
         /\ Len(wire) \in Nat /\ Len(wire) > 0
         /\ Tail(wire) \in Seq(Events)
         /\ Len(Tail(wire)) = Len(wire) - 1
         /\ \A i \in 1..Len(Tail(wire)) : Tail(wire)[i] = wire[i + 1]
  OBVIOUS

(* Taking the head off leaves events that are not it.                      *)
LEMMA WireTail ==
  ASSUME TypeOK, WireInv, wire # <<>>,
         wire' = Tail(wire),
         acked' = acked \/ acked' = acked \cup {Head(wire)},
         quiet' \subseteq acked'
  PROVE  WireInv'
<1>1. \A i \in 1..Len(wire') : /\ wire'[i] = wire[i + 1]
                               /\ i + 1 \in 1..Len(wire) /\ i + 1 # 1 /\ i \in Nat
  BY WireHead DEF TypeOK
<1>2. 1 \in 1..Len(wire) /\ Head(wire) = wire[1]
  BY WireHead DEF TypeOK
<1>3. ASSUME NEW i \in 1..Len(wire'), NEW j \in 1..Len(wire')
      PROVE  wire'[i] \notin acked' /\ (wire'[i] = wire'[j] => i = j)
  <2>1. wire[i + 1] \notin acked /\ wire[i + 1] # wire[1]
    BY <1>1, <1>2 DEF WireInv
  <2>2. wire[i + 1] = wire[j + 1] => i + 1 = j + 1
    BY <1>1 DEF WireInv
  <2> QED
    BY <2>1, <2>2, <1>1, <1>2
<1> QED
  BY <1>3 DEF WireInv

(* An unknown event at the end of the wire.                                *)
LEMMA WireAppend ==
  ASSUME TypeOK, WireInv, NEW e \in Events, e \notin Known,
         wire' = Append(wire, e), UNCHANGED <<acked, quiet>>
  PROVE  wire' \in Seq(Events) /\ WireInv'
<1>1. /\ wire' \in Seq(Events)
      /\ Len(wire) \in Nat /\ Len(wire') = Len(wire) + 1
      /\ \A i \in 1..Len(wire) : wire'[i] = wire[i]
      /\ wire'[Len(wire) + 1] = e
  BY DEF TypeOK
<1>2. e \notin acked /\ \A i \in 1..Len(wire) : wire[i] # e
  BY DEF Known, TypeOK
<1>3. ASSUME NEW i \in 1..Len(wire'), NEW j \in 1..Len(wire')
      PROVE  wire'[i] \notin acked /\ (wire'[i] = wire'[j] => i = j)
  <2>1. i \in 1..Len(wire) \/ i = Len(wire) + 1
    BY <1>1
  <2>2. j \in 1..Len(wire) \/ j = Len(wire) + 1
    BY <1>1
  <2> QED
    BY <2>1, <2>2, <1>1, <1>2 DEF WireInv
<1> QED
  BY <1>1, <1>3 DEF WireInv

(* Appending one event to the list.                                        *)
LEMMA BatchGrows ==
  ASSUME IsFiniteSet(batch), NEW e
  PROVE  /\ IsFiniteSet(batch \cup {e})
         /\ Cardinality(batch) \in Nat
         /\ Cardinality(batch \cup {e}) \in Nat
         /\ Cardinality(batch \cup {e}) <= Cardinality(batch) + 1
  BY FS_AddElement, FS_CardinalityType

(* The empty list.                                                         *)
LEMMA BatchEmpty == IsFiniteSet({}) /\ Cardinality({}) = 0
  BY FS_EmptySet

(* Everything starts empty.                                                *)
LEMMA InitInv == Init => IInv
<1> SUFFICES ASSUME Init PROVE IInv
  OBVIOUS
<1>1. /\ wire = <<>> /\ ended = FALSE /\ batch = {} /\ loki = {} /\ acked = {}
      /\ quiet = {} /\ failed = {} /\ cut = {}
      /\ main = [pc |-> "reading", held |-> {}]
      /\ ticker = [pc |-> "asleep", held |-> {}]
  BY DEF Init, Flush
<1>2. wire \in Seq(Events) /\ Len(wire) = 0
  BY <1>1
<1>3. TypeOK
  BY <1>1, <1>2 DEF TypeOK, MainPcs, TickerPcs
<1>4. WireInv
  BY <1>1, <1>2 DEF WireInv
<1>5. IsFiniteSet(batch) /\ BatchBounded
  BY <1>1, BatchEmpty, BatchSizeAssumption DEF BatchBounded
<1>6. PushInv /\ QuietEventsKept /\ OwnEventsOnly /\ ClosedIsDrained
  BY <1>1 DEF PushInv, QuietEventsKept, OwnEventsOnly, ClosedIsDrained
<1> QED
  BY <1>3, <1>4, <1>5, <1>6 DEF IInv

(* The agent's steps touch the wire only.                                  *)
LEMMA AgentInv ==
  ASSUME IInv, Agent
  PROVE  IInv'
<1>1. /\ wire' \in Seq(Events) /\ WireInv' /\ ended' \in BOOLEAN
      /\ UNCHANGED <<batch, main, ticker, loki, acked, quiet, failed, cut>>
  <2>1. CASE CloseSend
    BY <2>1 DEF IInv, TypeOK, WireInv, CloseSend
  <2>2. ASSUME NEW e \in Events, Send(e)
        PROVE  /\ wire' \in Seq(Events) /\ WireInv' /\ ended' \in BOOLEAN
               /\ UNCHANGED <<batch, main, ticker, loki, acked, quiet, failed, cut>>
    BY <2>2, WireAppend DEF IInv, TypeOK, Send
  <2> QED
    BY <2>1, <2>2 DEF Agent
<1> QED
  BY <1>1 DEF IInv, TypeOK, PushInv, QuietEventsKept, OwnEventsOnly,
              ClosedIsDrained, BatchBounded

(* An event is appended.                                                   *)
LEMMA ReceiveInv ==
  ASSUME IInv, Receive
  PROVE  IInv'
<1>1. /\ Head(wire) \in Own /\ Head(wire) \in Events
      /\ Tail(wire) \in Seq(Events) /\ Head(wire) \notin quiet
  BY WireHead DEF IInv, TypeOK, WireInv, Receive, OfPeer
<1>2. /\ main.pc = "reading" /\ wire # <<>> /\ wire' = Tail(wire)
      /\ main' = [pc |-> "acking", held |-> {}]
      /\ batch' = batch \cup {Head(wire)}
      /\ acked' = acked \cup {Head(wire)}
      /\ UNCHANGED <<ended, ticker, loki, failed, cut>>
  BY DEF Receive, Flush
<1>3. \/ Pushing /\ quiet' = quiet
      \/ ~Pushing /\ quiet' = quiet \cup {Head(wire)}
  BY DEF Receive
<1>4. TypeOK'
  BY <1>1, <1>2, <1>3 DEF IInv, TypeOK, MainPcs
<1>5. IsFiniteSet(batch') /\ BatchBounded'
  <2>1. /\ IsFiniteSet(batch) /\ Cardinality(batch) < BatchSize
        /\ main'.pc = "acking"
    BY <1>2 DEF IInv, BatchBounded
  <2>2. /\ IsFiniteSet(batch')
        /\ Cardinality(batch) \in Nat /\ Cardinality(batch') \in Nat
        /\ Cardinality(batch') <= Cardinality(batch) + 1
    BY <2>1, <1>2, BatchGrows
  <2> QED
    BY <2>1, <2>2, BatchSizeAssumption DEF BatchBounded
<1>6. PushInv'
  BY <1>1, <1>2, <1>3 DEF IInv, PushInv, Pushing
<1>7. WireInv'
  <2>1. quiet' \subseteq acked'
    BY <1>2, <1>3 DEF IInv, WireInv
  <2> QED
    BY <2>1, <1>2, WireTail DEF IInv
<1>8. QuietEventsKept' /\ OwnEventsOnly' /\ ClosedIsDrained'
  BY <1>1, <1>2, <1>3 DEF IInv, QuietEventsKept, OwnEventsOnly, ClosedIsDrained
<1> QED
  BY <1>4, <1>5, <1>6, <1>7, <1>8 DEF IInv

(* The handler refuses an event, or resumes after an acknowledgement.      *)
LEMMA HandlerInv ==
  ASSUME IInv, Refuse \/ Resume
  PROVE  IInv'
<1>1. CASE Refuse
  <2>1. /\ main.pc = "reading" /\ wire # <<>> /\ wire' = Tail(wire)
        /\ main' = [pc |-> "aborting", held |-> {}]
        /\ UNCHANGED <<ended, batch, ticker, loki, acked, quiet, failed, cut>>
    BY <1>1 DEF Refuse, Flush
  <2>2. WireInv' /\ wire' \in Seq(Events)
    BY <2>1, WireTail, WireHead DEF IInv, WireInv, TypeOK
  <2> QED
    BY <2>1, <2>2 DEF IInv, TypeOK, PushInv, QuietEventsKept, OwnEventsOnly,
       ClosedIsDrained, BatchBounded, MainPcs
<1>2. CASE Resume
  <2>1. Cardinality(batch) \in Nat
    BY FS_CardinalityType DEF IInv
  <2>2. \/ main' = [pc |-> "pushing", held |-> batch]
        \/ main' = [pc |-> "reading", held |-> {}] /\ Cardinality(batch) < BatchSize
    BY <1>2, <2>1, BatchSizeAssumption DEF Resume, Flush, Full
  <2>3. /\ main.pc = "acking"
        /\ UNCHANGED <<wire, ended, batch, ticker, loki, acked, quiet, failed, cut>>
    BY <1>2 DEF Resume
  <2> QED
    BY <2>2, <2>3 DEF IInv, TypeOK, PushInv, WireInv, QuietEventsKept, OwnEventsOnly,
       ClosedIsDrained, BatchBounded, MainPcs
<1> QED
  BY <1>1, <1>2

(* A push of the handler or of the ticker ends, one way or the other: what *)
(* it carried is stored or counted as failed, and the list is cleared.     *)
LEMMA PushInvKept ==
  ASSUME IInv,
         \/ MainPushed \/ MainPushFails \/ TickerPushed \/ TickerPushFails
         \/ LastPushed \/ LastPushFails
  PROVE  IInv'
<1>1. CASE MainPushed \/ MainPushFails \/ LastPushed \/ LastPushFails
  <2>1. /\ main.pc \in {"pushing", "last"}
        /\ \/ main.pc = "pushing" /\ main' = [pc |-> "reading", held |-> {}]
           \/ main.pc = "last" /\ main' = [pc |-> "closed", held |-> {}]
        /\ batch' = {}
        /\ UNCHANGED <<wire, ended, ticker, acked, quiet, cut>>
    BY <1>1 DEF MainPushed, MainPushFails, LastPushed, LastPushFails, Flush
  <2>2. /\ loki \subseteq loki' /\ loki' \subseteq loki \cup main.held
        /\ failed \subseteq failed' /\ failed' \subseteq failed \cup main.held
        /\ main.held \subseteq loki' \cup failed'
    BY <1>1 DEF MainPushed, MainPushFails, LastPushed, LastPushFails
  <2> QED
    BY <2>1, <2>2, BatchEmpty, BatchSizeAssumption
    DEF IInv, TypeOK, PushInv, WireInv, QuietEventsKept, OwnEventsOnly,
        ClosedIsDrained, BatchBounded, MainPcs
<1>2. CASE TickerPushed \/ TickerPushFails
  <2>1. /\ ticker.pc = "pushing"
        /\ ticker' = [pc |-> "asleep", held |-> {}]
        /\ batch' = {}
        /\ UNCHANGED <<wire, ended, main, acked, quiet, cut>>
    BY <1>2 DEF TickerPushed, TickerPushFails, Flush
  <2>2. /\ loki \subseteq loki' /\ loki' \subseteq loki \cup ticker.held
        /\ failed \subseteq failed' /\ failed' \subseteq failed \cup ticker.held
        /\ ticker.held \subseteq loki' \cup failed'
    BY <1>2 DEF TickerPushed, TickerPushFails
  <2>3. main.pc \notin {"last", "closed"}
    BY <2>1 DEF IInv, ClosedIsDrained, Flush
  <2> QED
    BY <2>1, <2>2, <2>3, BatchEmpty, BatchSizeAssumption
    DEF IInv, TypeOK, PushInv, WireInv, QuietEventsKept, OwnEventsOnly,
        ClosedIsDrained, BatchBounded, TickerPcs
<1> QED
  BY <1>1, <1>2

(* The ticker takes what it will push.                                     *)
LEMMA TickInv ==
  ASSUME IInv, Tick
  PROVE  IInv'
<1>1. /\ ticker.pc = "asleep"
      /\ ticker' = [pc |-> "pushing", held |-> batch]
      /\ UNCHANGED <<wire, ended, batch, main, loki, acked, quiet, failed, cut>>
  BY DEF Tick, Flush
<1>2. main.pc \notin {"last", "closed"}
  BY <1>1 DEF IInv, ClosedIsDrained, Flush
<1> QED
  BY <1>1, <1>2 DEF IInv, TypeOK, PushInv, WireInv, QuietEventsKept,
     OwnEventsOnly, ClosedIsDrained, BatchBounded, TickerPcs

(* The call ends: the ticker is cancelled, the list is kept for one more   *)
(* push.                                                                   *)
LEMMA FinallyInv ==
  ASSUME IInv, Finish \/ Cancel
  PROVE  IInv'
<1>1. /\ ticker' = [pc |-> "stopped", held |-> {}]
      /\ batch' = batch
      /\ \/ batch = {} /\ main' = [pc |-> "closed", held |-> {}]
         \/ main' = [pc |-> "last", held |-> batch]
      /\ UNCHANGED <<acked, quiet, failed, cut>>
  BY DEF Finish, Cancel, Finally, AfterCancel, TickerCancelled, Flush
<1>2. loki \subseteq loki' /\ loki' \subseteq loki \cup main.held \cup ticker.held
  BY DEF Finish, Cancel, Finally
<1>3. wire' \in Seq(Events) /\ ended' \in BOOLEAN /\ WireInv'
  <2>1. \/ wire' = wire /\ ended' = ended
        \/ wire' = <<>> /\ ended' = TRUE
    <3>1. CASE Finish
      BY <3>1 DEF Finish
    <3>2. CASE Cancel
      BY <3>2 DEF Cancel
    <3> QED
      BY <3>1, <3>2
  <2>2. CASE wire' = wire /\ ended' = ended
    BY <2>2, <1>1 DEF IInv, TypeOK, WireInv
  <2>3. CASE wire' = <<>> /\ ended' = TRUE
    BY <2>3, <1>1 DEF IInv, WireInv
  <2> QED
    BY <2>1, <2>2, <2>3
<1> QED
  BY <1>1, <1>2, <1>3
  DEF IInv, TypeOK, PushInv, QuietEventsKept, OwnEventsOnly,
      ClosedIsDrained, BatchBounded, MainPcs, TickerPcs, Flush

(* The server stops.                                                       *)
LEMMA StopInv ==
  ASSUME IInv, Stop
  PROVE  IInv'
<1>1. /\ ticker' = [pc |-> "stopped", held |-> {}]
      /\ main' = [pc |-> "closed", held |-> {}]
      /\ batch' = {}
      /\ cut' = cut \cup batch
      /\ UNCHANGED <<wire, ended, acked, quiet, failed>>
  BY DEF Stop, Flush
<1>2. loki \subseteq loki' /\ loki' \subseteq loki \cup main.held \cup ticker.held
  BY DEF Stop
<1> QED
  BY <1>1, <1>2, BatchEmpty, BatchSizeAssumption
  DEF IInv, TypeOK, PushInv, WireInv, QuietEventsKept, OwnEventsOnly,
      ClosedIsDrained, BatchBounded, MainPcs, TickerPcs, Flush

(* The invariant holds in every state of the stream.                       *)
THEOREM Invariance == Spec => []IInv
<1>1. IInv /\ [Next]_vars => IInv'
  <2> SUFFICES ASSUME IInv, [Next]_vars
               PROVE  IInv'
    OBVIOUS
  <2>1. CASE Agent
    BY <2>1, AgentInv
  <2>2. CASE Receive
    BY <2>2, ReceiveInv
  <2>3. CASE Refuse \/ Resume
    BY <2>3, HandlerInv
  <2>4. CASE \/ MainPushed \/ MainPushFails \/ TickerPushed \/ TickerPushFails
             \/ LastPushed \/ LastPushFails
    BY <2>4, PushInvKept
  <2>5. CASE Tick
    BY <2>5, TickInv
  <2>6. CASE Finish \/ Cancel
    BY <2>6, FinallyInv
  <2>7. CASE Stop
    BY <2>7, StopInv
  <2>8. CASE UNCHANGED vars
    BY <2>8 DEF vars, IInv, TypeOK, PushInv, WireInv, QuietEventsKept, OwnEventsOnly,
                ClosedIsDrained, BatchBounded
  <2> QED
    BY <2>1, <2>2, <2>3, <2>4, <2>5, <2>6, <2>7, <2>8
    DEF Next, ReliableNext, Handler, Ticker, LokiFails
<1> QED
  BY <1>1, InitInv, PTL DEF Spec

(* The variables keep their types.                                         *)
THEOREM TypeCorrect == Spec => []TypeOK
<1>1. IInv => TypeOK
  BY DEF IInv
<1> QED
  BY <1>1, Invariance, PTL

(* No event received while nothing was being pushed is lost between the    *)
(* two coroutines.                                                         *)
THEOREM QuietEventsKeptHolds == Spec => []QuietEventsKept
<1>1. IInv => QuietEventsKept
  BY DEF IInv
<1> QED
  BY <1>1, Invariance, PTL

(* The list never holds more than a batch.                                 *)
THEOREM BatchBoundedHolds == Spec => []BatchBounded
<1>1. IInv => BatchBounded
  BY DEF IInv
<1> QED
  BY <1>1, Invariance, PTL

(* What is stored under a host came from that host.                        *)
THEOREM OwnEventsOnlyHolds == Spec => []OwnEventsOnly
<1>1. IInv => OwnEventsOnly
  BY DEF IInv
<1> QED
  BY <1>1, Invariance, PTL

(* The last flush is alone, and leaves nothing.                            *)
THEOREM ClosedIsDrainedHolds == Spec => []ClosedIsDrained
<1>1. IInv => ClosedIsDrained
  BY DEF IInv
<1> QED
  BY <1>1, Invariance, PTL

=============================================================================
