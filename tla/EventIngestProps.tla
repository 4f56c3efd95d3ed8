--------------------------- MODULE EventIngestProps ---------------------------
(***************************************************************************)
(* What is checked of EventIngest.                                         *)
(***************************************************************************)
EXTENDS EventIngest

(* An event received while no push was under way is not lost between the   *)
(* two coroutines: it stays in the list until a push that carries it has   *)
(* ended, also when the call is cancelled in the middle of one.            *)
QuietEventsKept == quiet \subseteq loki \cup batch \cup failed \cup cut

(* Nothing of another host is acknowledged or stored through this          *)
(* connection (the comparison with the certificate in StreamEvents).       *)
OwnEventsOnly == loki \cup acked \cup batch \subseteq Own

(* The last flush is alone with the list: the ticker has stopped before    *)
(* it begins, and nothing is left when the call is closed (finally).       *)
ClosedIsDrained ==
  /\ main.pc \in {"last", "closed"} => ticker = Flush("stopped", {})
  /\ main.pc = "closed" => batch = {}

(* However the two coroutines interleave, the list is bounded, and the     *)
(* handler never reads on with a full one: a slow Loki slows the agent     *)
(* down instead of filling the server's memory.                            *)
BatchBounded ==
  /\ Cardinality(batch) <= BatchSize
  /\ main.pc = "reading" => Cardinality(batch) < BatchSize

(* An event does not wait in the list for more events to come: the ticker  *)
(* flushes what the handler would leave there.                             *)
EveryEventLeaves == \A e \in Events : e \in batch ~> e \notin batch

-----------------------------------------------------------------------------
(* Why no quiet event is lost: every push under way carries all of them    *)
(* that are in the list.                                                   *)
PushInv ==
  /\ main.pc \in {"pushing", "last"} => quiet \cap batch \subseteq main.held
  /\ ticker.pc = "pushing" => quiet \cap batch \subseteq ticker.held
  /\ main.pc \notin {"pushing", "last"} => main.held = {}
  /\ ticker.pc # "pushing" => ticker.held = {}
  /\ main.held \cup ticker.held \subseteq Own

(* An event is on the wire once, and no more once it is acknowledged.      *)
WireInv ==
  /\ quiet \subseteq acked
  /\ \A i, j \in 1..Len(wire) :
       wire[i] \notin acked /\ (wire[i] = wire[j] => i = j)

IInv ==
  /\ TypeOK /\ IsFiniteSet(batch) /\ PushInv /\ WireInv
  /\ QuietEventsKept /\ OwnEventsOnly /\ ClosedIsDrained /\ BatchBounded

=============================================================================
