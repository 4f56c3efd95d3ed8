------------------------------ MODULE EventIngest ------------------------------
(***************************************************************************)
(* Ingestion of the events of one agent: one StreamEvents call.            *)
(*                                                                         *)
(* Two coroutines of one event loop share the list "batch": the handler    *)
(* appends, acknowledges and flushes a full batch, the ticker flushes      *)
(* every 2s.  A flush takes what it sends when it begins, awaits Loki, and *)
(* then clears the list, whatever it holds by then.  A step goes from one  *)
(* await to the next.                                                      *)
(***************************************************************************)
EXTENDS Naturals, Sequences, FiniteSets

CONSTANTS
  Events,     \* events the agent may send, each once
  Own,        \* those that name the host of the agent's certificate
  BatchSize   \* a batch of this size is flushed at once (50)

ASSUME OwnAssumption == Own \subseteq Events
ASSUME BatchSizeAssumption == BatchSize \in Nat \ {0}

VARIABLES
  wire,    \* events sent and not yet read by the handler
  ended,   \* the agent has closed its side of the stream
  batch,   \* the list "batch" (its order is lost in the push)
  main,    \* the handler: where it awaits, and what it is pushing
  ticker,  \* periodic_flush: the same
  loki,    \* events Loki has stored
  acked,   \* history: events acknowledged as stored
  quiet,   \* history: events received while nothing was being pushed
  failed,  \* history: events of a push that Loki did not accept
  cut      \* history: events in memory when the server process stopped

vars == <<wire, ended, batch, main, ticker, loki, acked, quiet, failed, cut>>

Flush(pc, held) == [pc |-> pc, held |-> held]

MainPcs == {"reading", "acking", "pushing", "aborting", "last", "closed"}
TickerPcs == {"asleep", "pushing", "stopped"}

TypeOK ==
  /\ wire \in Seq(Events)
  /\ ended \in BOOLEAN
  /\ batch \in SUBSET Events
  /\ main \in [pc : MainPcs, held : SUBSET Events]
  /\ ticker \in [pc : TickerPcs, held : SUBSET Events]
  /\ loki \in SUBSET Events
  /\ acked \in SUBSET Events
  /\ quiet \in SUBSET Events
  /\ failed \in SUBSET Events
  /\ cut \in SUBSET Events

Init ==
  /\ wire = <<>>
  /\ ended = FALSE
  /\ batch = {}
  /\ main = Flush("reading", {})
  /\ ticker = Flush("asleep", {})
  /\ loki = {}
  /\ acked = {}
  /\ quiet = {}
  /\ failed = {}
  /\ cut = {}

Known == {wire[i] : i \in DOMAIN wire} \cup acked

-----------------------------------------------------------------------------
(* The agent's side of the stream.                                         *)

Send(e) ==
  /\ ~ended
  /\ main.pc # "closed"
  /\ e \notin Known
  /\ wire' = Append(wire, e)
  /\ UNCHANGED <<ended, batch, main, ticker, loki, acked, quiet, failed, cut>>

CloseSend ==
  /\ ~ended
  /\ ended' = TRUE
  /\ UNCHANGED <<wire, batch, main, ticker, loki, acked, quiet, failed, cut>>

-----------------------------------------------------------------------------
(* The handler.                                                            *)

Pushing == main.pc \in {"pushing", "last"} \/ ticker.pc = "pushing"

OfPeer(e) == e \in Own

(* An event of the peer is appended and acknowledged at once.              *)
Receive ==
  /\ main.pc = "reading"
  /\ wire # <<>>
  /\ OfPeer(Head(wire))
  /\ wire' = Tail(wire)
  /\ batch' = batch \cup {Head(wire)}
  /\ acked' = acked \cup {Head(wire)}
  /\ quiet' = IF Pushing THEN quiet ELSE quiet \cup {Head(wire)}
  /\ main' = Flush("acking", {})
  /\ UNCHANGED <<ended, ticker, loki, failed, cut>>

(* An event of another host aborts the call.                               *)
Refuse ==
  /\ main.pc = "reading"
  /\ wire # <<>>
  /\ ~OfPeer(Head(wire))
  /\ wire' = Tail(wire)
  /\ main' = Flush("aborting", {})
  /\ UNCHANGED <<ended, batch, ticker, loki, acked, quiet, failed, cut>>

(* Mutation: off by one.                                                   *)
OverFull == Cardinality(batch) > BatchSize

Full == Cardinality(batch) >= BatchSize

(* The acknowledgement has left: a full batch is flushed.                  *)
Resume ==
  /\ main.pc = "acking"
  /\ main' = IF Full THEN Flush("pushing", batch)
             ELSE Flush("reading", {})
  /\ UNCHANGED <<wire, ended, batch, ticker, loki, acked, quiet, failed, cut>>

(* Loki answers the handler's push: the list is cleared.                   *)
MainPushed ==
  /\ main.pc = "pushing"
  /\ loki' = loki \cup main.held
  /\ batch' = {}
  /\ main' = Flush("reading", {})
  /\ UNCHANGED <<wire, ended, ticker, acked, quiet, failed, cut>>

(* The push fails or times out after 10s, whatever part of it Loki kept.   *)
MainPushFails ==
  /\ main.pc = "pushing"
  /\ \E kept \in SUBSET main.held : loki' = loki \cup kept
  /\ failed' = failed \cup main.held
  /\ batch' = {}
  /\ main' = Flush("reading", {})
  /\ UNCHANGED <<wire, ended, ticker, acked, quiet, cut>>

-----------------------------------------------------------------------------
(* The ticker.                                                             *)

(* Mutation: only a full batch is worth a flush.                           *)
WorthFlushingFull == Full

WorthFlushing == batch # {}

Tick ==
  /\ ticker.pc = "asleep"
  /\ WorthFlushing
  /\ ticker' = Flush("pushing", batch)
  /\ UNCHANGED <<wire, ended, batch, main, loki, acked, quiet, failed, cut>>

TickerPushed ==
  /\ ticker.pc = "pushing"
  /\ loki' = loki \cup ticker.held
  /\ batch' = {}
  /\ ticker' = Flush("asleep", {})
  /\ UNCHANGED <<wire, ended, main, acked, quiet, failed, cut>>

TickerPushFails ==
  /\ ticker.pc = "pushing"
  /\ \E kept \in SUBSET ticker.held : loki' = loki \cup kept
  /\ failed' = failed \cup ticker.held
  /\ batch' = {}
  /\ ticker' = Flush("asleep", {})
  /\ UNCHANGED <<wire, ended, main, acked, quiet, cut>>

-----------------------------------------------------------------------------
(* The end of the call.                                                    *)

(* Mutation: a cancelled push clears the list as a finished one does.      *)
AfterCancelCleared == IF Pushing THEN {} ELSE batch

(* CancelledError passes through flush before the list is cleared.         *)
AfterCancel == batch

(* Mutation: the ticker is not cancelled.                                  *)
TickerLeftAlone == ticker

TickerCancelled == Flush("stopped", {})

(* The finally clause: the ticker is cancelled, wherever it awaits, and    *)
(* what the list holds is flushed. A cancelled push may have reached Loki. *)
Finally ==
  /\ \E kept \in SUBSET (main.held \cup ticker.held) : loki' = loki \cup kept
  /\ ticker' = TickerCancelled
  /\ batch' = AfterCancel
  /\ main' = IF AfterCancel = {} THEN Flush("closed", {})
             ELSE Flush("last", AfterCancel)

(* The agent closed its side and everything was read; or the abort is out. *)
Finish ==
  /\ \/ main.pc = "reading" /\ wire = <<>> /\ ended
     \/ main.pc = "aborting"
  /\ Finally
  /\ UNCHANGED <<wire, ended, acked, quiet, failed, cut>>

(* The connection breaks: the call is cancelled, wherever it awaits.       *)
Cancel ==
  /\ main.pc \in {"reading", "acking", "pushing", "aborting"}
  /\ Finally
  /\ wire' = <<>>
  /\ ended' = TRUE
  /\ UNCHANGED <<acked, quiet, failed, cut>>

LastPushed ==
  /\ main.pc = "last"
  /\ loki' = loki \cup main.held
  /\ batch' = {}
  /\ main' = Flush("closed", {})
  /\ UNCHANGED <<wire, ended, ticker, acked, quiet, failed, cut>>

LastPushFails ==
  /\ main.pc = "last"
  /\ \E kept \in SUBSET main.held : loki' = loki \cup kept
  /\ failed' = failed \cup main.held
  /\ batch' = {}
  /\ main' = Flush("closed", {})
  /\ UNCHANGED <<wire, ended, ticker, acked, quiet, cut>>

(* The server process stops, or cancels the call during its last push.     *)
Stop ==
  /\ main.pc # "closed"
  /\ \E kept \in SUBSET (main.held \cup ticker.held) : loki' = loki \cup kept
  /\ cut' = cut \cup batch
  /\ batch' = {}
  /\ main' = Flush("closed", {})
  /\ ticker' = Flush("stopped", {})
  /\ UNCHANGED <<wire, ended, acked, quiet, failed>>

-----------------------------------------------------------------------------
Agent == CloseSend \/ \E e \in Events : Send(e)
Handler == Receive \/ Refuse \/ Resume \/ MainPushed \/ Finish \/ LastPushed
Ticker == Tick \/ TickerPushed

ReliableNext == Agent \/ Handler \/ Ticker

LokiFails == MainPushFails \/ TickerPushFails \/ LastPushFails

Next == ReliableNext \/ LokiFails \/ Cancel \/ Stop

Spec == Init /\ [][Next]_vars

(* The event loop goes on and every push ends: httpx gives up after 10s.   *)
Fairness ==
  /\ WF_vars(Handler \/ MainPushFails \/ LastPushFails)
  /\ WF_vars(Ticker \/ TickerPushFails)

FairSpec == Spec /\ Fairness

=============================================================================
