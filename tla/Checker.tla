------------------------------- MODULE Checker -------------------------------
(***************************************************************************)
(* The consequence-class checker: rule changes that wait for a second      *)
(* signature (dual control) or for a delay (tightening).  Every call loads *)
(* a whole request document, decides, and later overwrites the document    *)
(* with what it loaded plus its own change; nothing checks that the        *)
(* document is still the one it read.                                      *)
(*                                                                         *)
(* Mongo keeps request_id without a unique index, so docs[id] is the       *)
(* sequence of documents carrying that id in insertion order: reads and    *)
(* updates by request_id reach only the first.                             *)
(***************************************************************************)
EXTENDS Naturals, Sequences, FiniteSets

CONSTANTS
  Dual,        \* rule changes of a dual_control class
  Tightening,  \* rule changes of a tightening_unilateral class
  Compliance,  \* rule changes of the four compliance rule classes
  DPOs,        \* identities with the dpo role
  Admins,      \* identities with the admin or master_admin role
  Handlers,    \* concurrent calls the process serves at once
  Library,     \* operations with no HTTP door that some caller runs
  Delay,       \* effective_delay_seconds, in ticks of the clock
  MaxTime,     \* bound on the clock
  MaxDocs,     \* bound on the documents ever initiated
  Nobody       \* the None of checker_id

ASSUME CheckerAssumption ==
  /\ Dual \cap Tightening = {} /\ Compliance \subseteq Dual \cup Tightening
  /\ Nobody \notin DPOs \cup Admins
  /\ Library \subseteq {"advance_delay", "void"}
  /\ Delay \in Nat \ {0} /\ MaxTime \in Nat \ {0} /\ MaxDocs \in Nat

VARIABLES
  docs,      \* per request_id, the documents in the collection, oldest first
  calls,     \* calls in progress: operation, next await, caller, loaded document
  sweep,     \* documents the retrofit void sweep has matched and not yet updated
  ledger,    \* countersign rows written (no code reads the rows of other events)
  unlogged,  \* countersign rows owed by a call that died before writing them
  clock

vars == <<docs, calls, sweep, ledger, unlogged, clock>>

Changes == Dual \cup Tightening
People == DPOs \cup Admins

\* request_id: rc-<hash of the change>, or with a -g<second> suffix (gen > 0).
Ids == [change : Changes, gen : 0 .. MaxTime]
Base(change) == [change |-> change, gen |-> 0]

Capacity(p) == IF p \in DPOs THEN "compliance" ELSE "admin"

Pending == {"pending_counter_sign", "pending_delay"}
States == Pending \cup {"effective", "suspended"}
Document == [state : States, initiator : People, since : 0 .. MaxTime,
             checker : People \cup {Nobody}, objected : BOOLEAN, team : BOOLEAN]

Initiated(change, p) ==
  [state |-> IF change \in Dual THEN "pending_counter_sign" ELSE "pending_delay",
   initiator |-> p, since |-> clock, checker |-> Nobody, objected |-> FALSE, team |-> FALSE]

\* find_one and update_one by request_id.
First(id) == docs[id][1]

\* A team decision leaves a field that the model forbids: such a document fails
\* validation on load, whatever the call.
Loadable(id) == docs[id] # <<>> /\ ~First(id).team

Ops == {"initiate", "countersign", "object", "suspend", "advance_delay"}
Calls == [by : Handlers, op : Ops, pc : {"fork", "insert", "persist", "row"},
          id : Ids, who : People \cup {Nobody}, req : Document]
Rows == [id : Ids, who : People \cup {Nobody}]

Free(h) == \A c \in calls : c.by # h
Start(h, op, pc, id, p, req) ==
  /\ Free(h)
  /\ calls' = calls \cup
       {[by |-> h, op |-> op, pc |-> pc, id |-> id, who |-> p, req |-> req]}
Goto(c, pc) == calls' = (calls \ {c}) \cup {[c EXCEPT !.pc = pc]}
End(c) == calls' = calls \ {c}

------------------------------------------------------------------------------
(* initiate: look for a pending document, choose an id, insert.            *)

Stored == {x \in Ids \X (1 .. MaxDocs) : x[2] <= Len(docs[x[1]])}
RoomForDocs == Cardinality(Stored) + Cardinality({c \in calls : c.op = "initiate"}) < MaxDocs

\* The idempotency check asks for the base id only; a hit ends the call.
AlreadyPending(change) ==
  \E i \in DOMAIN docs[Base(change)] : docs[Base(change)][i].state \in Pending

Initiate(h, change, p) ==
  /\ RoomForDocs /\ ~AlreadyPending(change)
  /\ Start(h, "initiate", "fork", Base(change), p, Initiated(change, p))
  /\ UNCHANGED <<docs, sweep, ledger, unlogged, clock>>

\* Any earlier document under the base id: a suffix of the current second.
Fork(c) ==
  LET id == [c.id EXCEPT !.gen = IF docs[c.id] = <<>> THEN 0 ELSE clock]
      req == Initiated(c.id.change, c.who) IN
  /\ c.pc = "fork"
  /\ calls' = (calls \ {c}) \cup {[c EXCEPT !.pc = "insert", !.id = id, !.req = req]}
  /\ UNCHANGED <<docs, sweep, ledger, unlogged, clock>>

Insert(c) ==
  /\ c.pc = "insert" /\ End(c)
  /\ docs' = [docs EXCEPT ![c.id] = Append(@, c.req)]
  /\ UNCHANGED <<sweep, ledger, unlogged, clock>>

------------------------------------------------------------------------------
(* The other calls: load and decide, then overwrite; a signature is then   *)
(* ledgered.  A refused call changes nothing and is no action.             *)

Load(h, op, id, p) ==
  /\ Start(h, op, "persist", id, p, First(id))
  /\ UNCHANGED <<docs, sweep, ledger, unlogged, clock>>

\* Mutant: the signature of the initiator is accepted.
MayCountersign_Anybody(id, p) ==
  id.change \in Dual /\ First(id).state = "pending_counter_sign"

MayCountersign(id, p) ==
  /\ id.change \in Dual
  /\ First(id).state = "pending_counter_sign"
  /\ p # First(id).initiator

Countersign(h, id, p) ==
  p \in People /\ Loadable(id) /\ MayCountersign(id, p) /\ Load(h, "countersign", id, p)

MayObject(id) == id.change \in Tightening /\ First(id).state = "pending_delay"

\* Who objects and which administrator suspends make no difference later.
Object(h, id) == Loadable(id) /\ MayObject(id) /\ Load(h, "object", id, Nobody)

\* Mutant: anything not yet suspended can be suspended.
MaySuspend_Effective(id) == First(id).state # "suspended"

MaySuspend(id) == First(id).state \in Pending

\* Two doors, one suspend; a request already suspended is answered as it is.
Suspend(h, id) ==
  Admins # {} /\ Loadable(id) /\ MaySuspend(id) /\ Load(h, "suspend", id, Nobody)

\* Mutant: the delay runs from the first request for the change, not from this one.
Elapsed_SinceFirstRequest(id) == clock - First(Base(id.change)).since >= Delay

Elapsed(id) == clock - First(id).since >= Delay

AdvanceDelay(h, id) ==
  /\ "advance_delay" \in Library /\ Loadable(id)
  /\ id.change \in Tightening /\ First(id).state = "pending_delay" /\ Elapsed(id)
  /\ Load(h, "advance_delay", id, Nobody)

\* Mutant: a misspelt state, which the plain string field would take.
Decided_Halted(c) ==
  CASE c.op = "countersign" -> [c.req EXCEPT !.state = "effective", !.checker = c.who]
    [] c.op = "object" -> [c.req EXCEPT !.objected = TRUE]
    [] c.op = "advance_delay" -> [c.req EXCEPT !.state = "effective"]
    [] OTHER -> [c.req EXCEPT !.state = "halted"]

\* What the call makes of the document it loaded.
Decided(c) ==
  CASE c.op = "countersign" -> [c.req EXCEPT !.state = "effective", !.checker = c.who]
    [] c.op = "object" -> [c.req EXCEPT !.objected = TRUE]
    [] c.op = "advance_delay" -> [c.req EXCEPT !.state = "effective"]
    [] OTHER -> [c.req EXCEPT !.state = "suspended"]

\* _persist sets every field of the model, and only those.
Persist(c) ==
  /\ c.pc = "persist"
  /\ docs' = [docs EXCEPT ![c.id][1] = [Decided(c) EXCEPT !.team = First(c.id).team]]
  /\ IF c.op = "countersign" THEN Goto(c, "row") ELSE End(c)
  /\ UNCHANGED <<sweep, ledger, unlogged, clock>>

\* Mutant: the row names the initiator as the signer.
RowOf_Initiator(c) == [id |-> c.id, who |-> c.req.initiator]

RowOf(c) == [id |-> c.id, who |-> c.who]

WriteRow(c) ==
  /\ c.pc = "row" /\ End(c)
  /\ ledger' = ledger \cup {RowOf(c)}
  /\ UNCHANGED <<docs, sweep, unlogged, clock>>

\* The process dies, or Mongo fails the call, at any await.
Fail(c) ==
  /\ End(c)
  /\ unlogged' = unlogged \cup (IF c.pc = "row" THEN {RowOf(c)} ELSE {})
  /\ UNCHANGED <<docs, sweep, ledger, clock>>

------------------------------------------------------------------------------
(* Writers that do not load: the team decision and the retrofit void.      *)

\* approval_decision pushes onto the document, whatever its state.
TeamDecision(id) ==
  /\ docs[id] # <<>>
  /\ docs' = [docs EXCEPT ![id][1].team = TRUE]
  /\ UNCHANGED <<calls, sweep, ledger, unlogged, clock>>

Voidable(x) ==
  LET doc == docs[x[1]][x[2]] IN
  x[1].change \in Compliance /\ doc.state \in Pending /\ Capacity(doc.initiator) = "admin"

VoidFind ==
  /\ "void" \in Library /\ sweep = {}
  /\ sweep' = {x \in Stored : Voidable(x)}
  /\ UNCHANGED <<docs, calls, ledger, unlogged, clock>>

\* The update names a request_id, not the document the query matched, and does
\* not ask for its state.
VoidUpdate(x) ==
  /\ x \in sweep /\ sweep' = sweep \ {x}
  /\ docs' = [docs EXCEPT ![x[1]][1].state = "suspended"]
  /\ UNCHANGED <<calls, ledger, unlogged, clock>>

VoidFail ==
  /\ sweep # {} /\ sweep' = {}
  /\ UNCHANGED <<docs, calls, ledger, unlogged, clock>>

Tick ==
  /\ clock < MaxTime /\ clock' = clock + 1
  /\ UNCHANGED <<docs, calls, sweep, ledger, unlogged>>

Init ==
  /\ docs = [id \in Ids |-> <<>>]
  /\ calls = {} /\ sweep = {}
  /\ ledger = {} /\ unlogged = {}
  /\ clock = 1

Arrive(h) ==
  \/ \E change \in Changes, p \in People : Initiate(h, change, p)
  \/ \E id \in Ids :
       \/ \E p \in People : Countersign(h, id, p)
       \/ Object(h, id) \/ Suspend(h, id) \/ AdvanceDelay(h, id)

Step(c) == Fork(c) \/ Insert(c) \/ Persist(c) \/ WriteRow(c) \/ Fail(c)

Void == VoidFind \/ (\E x \in sweep : VoidUpdate(x)) \/ VoidFail

Next ==
  \/ \E h \in Handlers : Arrive(h)
  \/ \E c \in calls : Step(c)
  \/ \E id \in Ids : TeamDecision(id)
  \/ Void
  \/ Tick

Spec == Init /\ [][Next]_vars

------------------------------------------------------------------------------
(* Properties.                                                             *)

TypeOK ==
  /\ docs \in [Ids -> Seq(Document)]
  /\ calls \subseteq Calls
  /\ sweep \subseteq Ids \X (Nat \ {0})
  /\ ledger \subseteq Rows /\ unlogged \subseteq Rows
  /\ clock \in 0 .. MaxTime

Documents(id) == {docs[id][i] : i \in DOMAIN docs[id]}

\* Dual control: whatever calls overlap and overwrite each other, a change takes
\* effect only with the signature of somebody who did not initiate it.
FourEyes ==
  \A id \in Ids : \A doc \in Documents(id) :
    id.change \in Dual /\ doc.state = "effective"
      => doc.checker \in People /\ doc.checker # doc.initiator

\* Tightening: no interleaving, objection or re-initiation shortens the delay;
\* every document has served its own.
WindowServed ==
  \A id \in Ids : \A doc \in Documents(id) :
    id.change \in Tightening /\ doc.state = "effective" => clock - doc.since >= Delay

\* A signature in effect has its ledger row, or the call that owes it is still
\* under way or died before writing it.
SignatureOnRecord ==
  \A id \in Ids : \A doc \in Documents(id) :
    id.change \in Dual /\ doc.state = "effective" =>
      LET row == [id |-> id, who |-> doc.checker] IN
      \/ row \in ledger \cup unlogged
      \/ \E c \in calls : c.pc = "row" /\ RowOf(c) = row

\* A settled request moves again only under a call that loaded it before it
\* settled, or under the void sweep: no call reopens what it can see is settled.
SettledUnlessStale ==
  [][\A id \in Ids :
       docs[id] # <<>> /\ First(id).state \notin Pending /\ First(id)'.state # First(id).state =>
         \/ \E c \in calls \ calls' : c.pc = "persist" /\ c.id = id /\ c.req.state \in Pending
         \/ \E x \in sweep \ sweep' : x[1] = id]_vars

------------------------------------------------------------------------------
(* What the documentation says and the code does not do.                   *)

\* "Suspended state is terminal": a countersign or an objection that loaded the
\* request before the suspension overwrites it with what it had loaded.
SuspendedIsFinal ==
  [][\A id \in Ids :
       docs[id] # <<>> /\ First(id).state = "suspended" => First(id)'.state = "suspended"]_vars

\* "Identical initiate while a matching request is pending: idempotent": the
\* check asks for the base id, and a change once settled is pending under another.
OnePendingPerChange ==
  \A change \in Changes :
    Cardinality({x \in Stored : x[1].change = change /\ docs[x[1]][x[2]].state \in Pending}) <= 1

\* "Same-role countersign = refused": only the identity is compared, and two
\* administrators sign for both consoles.
SecondConsole ==
  \A id \in Ids : \A doc \in Documents(id) :
    id.change \in Dual /\ doc.state = "effective" /\ doc.checker \in People
      => Capacity(doc.checker) # Capacity(doc.initiator)
=============================================================================
