------------------------------ MODULE HostActions ------------------------------
(***************************************************************************)
(* What an operator asks of one host: the row of an action, its way to the *)
(* agent in the answer of a heartbeat, its execution on the host's lists   *)
(* (firewall rules, banned addresses), and the snapshot of these lists a   *)
(* later heartbeat brings back.                                            *)
(*                                                                         *)
(* A heartbeat is one step here; what happens inside a call, and what a    *)
(* restart does to the rows, is the subject of ActionDelivery.             *)
(***************************************************************************)
EXTENDS SequencesExt

CONSTANTS
  Items,     \* rules, addresses or paths
  NoItem,
  Ids,       \* bound: actions created
  MaxEdits   \* bound: others change the host that often

ASSUME HostAssumption ==
  /\ IsFiniteSet(Items) /\ Items # {} /\ NoItem \notin Items
  /\ MaxEdits \in Nat

VARIABLES
  has,      \* the tool the host has for the panel that is looked at
  tool,     \* it is active, or "none"
  lists,    \* the rules of ufw, those of firewalld (permanent and live), the bans (live)
  edits,    \* how often others have changed the host
  todo,     \* agent: actions it has been handed
  results,  \* agent: actions it has run and not reported
  action,   \* the table of actions
  row       \* the row of the host: its tool and its snapshot

host == <<has, tool, lists, edits>>
agent == <<todo, results>>
hostVars == <<has, tool, lists, edits, todo, results, action, row>>

Firewalls == {"ufw", "firewalld"}
Tools == Firewalls \cup {"fail2ban", "scanner"}
Positions == Nat \ {0}
Targets == Items \cup Positions \cup {NoItem}

(* Scans of the whole host: one at a time, whatever the target.            *)
Whole == {"rkhunter", "chkrootkit", "lynis", "aide"}
Rules == {"addRule", "removeRule"}
Kinds == Rules \cup {"ban", "unban", "yara", "clamav"} \cup Whole

(* A draft is what the operator names.  History: the item meant by it and  *)
(* the snapshot it was taken from.                                         *)
Lines == [at : Positions \cup {0}, item : Items]
Drafts == [id : Targets, meant : Items \cup {NoItem}, raw : SUBSET Lines]

Unfinished == {"pending", "sent"}
Action == [kind : Kinds, tool : Tools \cup {"none"}, draft : Drafts,
           status : Unfinished \cup {"finished"}]
NoAction == [kind |-> "none", status |-> "none"]

Row == [tool : Tools \cup {"none"}, raw : SUBSET Lines]
NoRow == [tool |-> "none", raw |-> {}]

HostTypeOK ==
  /\ has \in Tools /\ tool \in {has, "none"}
  /\ lists \in [ufw : Seq(Items), permanent : SUBSET Items, live : SUBSET Items]
  /\ edits \in 0..MaxEdits
  /\ todo \subseteq Ids /\ results \subseteq Ids
  /\ action \in [Ids -> Action \cup {NoAction}]
  /\ row \in Row

-----------------------------------------------------------------------------
(* The commands the agent runs: the lists each may leave behind.           *)

(* firewall-cmd --permanent, then --reload: the second may fail.           *)
Permanently(l, p) ==
  { [l EXCEPT !.permanent = p, !.live = p], [l EXCEPT !.permanent = p] }

AddRule(c, l) ==
  IF c.tool = "ufw"
  THEN { [l EXCEPT !.ufw = IF Contains(@, c.draft.id) THEN @ ELSE Append(@, c.draft.id)] }
  ELSE Permanently(l, l.permanent \cup {c.draft.id})

(* ufw by number, firewalld by the text of the rule.                       *)
RemoveRule(c, l) ==
  IF c.tool = "ufw"
  THEN { [l EXCEPT !.ufw = RemoveAt(@, n)] : n \in {c.draft.id} \cap DOMAIN l.ufw }
  ELSE UNION { Permanently(l, l.permanent \ {r}) : r \in {c.draft.id} \cap Items }

SetBan(c, l) ==
  { [l EXCEPT !.live = IF c.kind = "ban" THEN @ \cup {c.draft.id} ELSE @ \ {c.draft.id}] }

(* Every command may fail before it does anything.                         *)
Outcomes(c, l) ==
  {l} \cup (CASE c.kind = "addRule" -> AddRule(c, l)
              [] c.kind = "removeRule" -> RemoveRule(c, l)
              [] c.kind \in {"ban", "unban"} -> SetBan(c, l)
              [] OTHER -> {})

-----------------------------------------------------------------------------
HostInit(t) ==
  /\ has = t /\ tool = t
  /\ LET r == CHOOSE r \in Items : TRUE
     IN lists = [ufw |-> SetToSeq(Items), permanent |-> {r}, live |-> {r}]
  /\ edits = 0
  /\ todo = {} /\ results = {}
  /\ action = [a \in Ids |-> NoAction]
  /\ row = [NoRow EXCEPT !.tool = t]

(* Somebody else changes the host.                                         *)
Elsewhere == edits < MaxEdits /\ edits' = edits + 1

Toggled(s, r) == IF Contains(s, r) THEN { RemoveAt(s, n) : n \in { n \in DOMAIN s : s[n] = r } }
                 ELSE { Append(s, r) }

Touched(q, r) == {q \cup {r}, q \ {r}}

(* firewall-cmd with --permanent or without it; with --reload, with        *)
(* --runtime-to-permanent.                                                 *)
EditsByHand(l, r) ==
  [ufw : {l.ufw}, permanent : Touched(l.permanent, r), live : Touched(l.live, r)]
  \cup { [l EXCEPT !.live = l.permanent], [l EXCEPT !.permanent = l.live] }

SomeoneEdits(r) ==
  /\ Elsewhere
  /\ lists' \in
       CASE tool = "ufw" -> { [lists EXCEPT !.ufw = q] : q \in Toggled(lists.ufw, r) }
         [] tool = "firewalld" -> EditsByHand(lists, r)
         [] tool = "fail2ban" -> { [lists EXCEPT !.live = q] : q \in Touched(lists.live, r) }
         [] OTHER -> {}
  /\ UNCHANGED <<has, tool, agent, action, row>>

(* firewalld is started with its permanent rules.                          *)
SomeoneSwitches ==
  /\ Elsewhere
  /\ tool' = IF tool = has THEN "none" ELSE has
  /\ lists' = IF tool' = "firewalld" THEN [lists EXCEPT !.live = lists.permanent] ELSE lists
  /\ UNCHANGED <<has, agent, action, row>>

-----------------------------------------------------------------------------
(* The agent's heartbeat.                                                  *)

NumberedRules(s) == { [at |-> n, item |-> s[n]] : n \in DOMAIN s }

Raw ==
  CASE tool = "ufw" -> NumberedRules(lists.ufw)
    [] tool \in {"firewalld", "fail2ban"} -> { [at |-> 0, item |-> r] : r \in lists.live }
    [] OTHER -> {}

(* The tool always, the snapshot only if its command gave one.             *)
Stored(filled) ==
  IF filled THEN [tool |-> tool, raw |-> Raw] ELSE [row EXCEPT !.tool = tool]

Reported(a) == IF a \in results THEN "finished" ELSE action[a].status

(* The results and the snapshot go up, the pending actions come down.  A   *)
(* lost answer is ActionDelivery's subject.                                *)
Heartbeat(filled) ==
  /\ todo = {}
  /\ filled => tool # "none"
  /\ row' = Stored(filled)
  /\ todo' = { a \in Ids : Reported(a) = "pending" }
  /\ action' = [a \in Ids |->
       [action[a] EXCEPT !.status = IF a \in todo' THEN "sent" ELSE Reported(a)]]
  /\ results' = {}
  /\ UNCHANGED host

(* The commands come in no order the server asks for.                      *)
Execute(a) ==
  /\ a \in todo
  /\ lists' \in Outcomes(action[a], lists)
  /\ results' = results \cup {a}
  /\ todo' = todo \ {a}
  /\ UNCHANGED <<has, tool, edits, action, row>>

-----------------------------------------------------------------------------
(* create_pending_action: first the check, then the insert.                *)

Key(k, t, id) == <<k, IF k \in Rules THEN t ELSE "none",
                   IF k \in Whole THEN NoItem ELSE id>>

KeyOf(a) == Key(action[a].kind, action[a].tool, action[a].draft.id)

Open == { a \in Ids : action[a].status \in Unfinished }

(* Mutation: only what no heartbeat has taken yet is looked for.           *)
ExistsPending(key) == \E a \in Open : action[a].status = "pending" /\ KeyOf(a) = key

Exists(key) == \E a \in Open : KeyOf(a) = key

(* The router's check of the host's row.                                   *)
Supported(k) == k = "yara" \/ row.tool # "none"

FreeIds == { a \in Ids : action[a] = NoAction }

Insert(k, t, draft) ==
  /\ FreeIds # {}
  /\ action' = [action EXCEPT ![CHOOSE a \in FreeIds : TRUE] =
       [kind |-> k, tool |-> t, draft |-> draft, status |-> "pending"]]

-----------------------------------------------------------------------------
HostNext ==
  \/ \E r \in Items : SomeoneEdits(r)
  \/ SomeoneSwitches
  \/ \E filled \in BOOLEAN : Heartbeat(filled)
  \/ \E a \in Ids : Execute(a)

=============================================================================
