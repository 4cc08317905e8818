---------------------------- MODULE OperatorWizard -----------------------------
(***************************************************************************)
(* The operator's shaping wizard: a session lives in the memory of the     *)
(* process and, as a snapshot, in Mongo; turns fill its fields in, a       *)
(* freeze commits it once its milestones are agreed.  What a request does  *)
(* to the session in memory it does in one go, and the snapshot it then    *)
(* upserts is the whole document.                                          *)
(*                                                                         *)
(* Requests of callers the session is not bound to change nothing, so      *)
(* callers and bindings do not appear; reviews and reads change nothing.   *)
(* Nor does a handoff: it answers 404 or 422 for a session that is not     *)
(* frozen, and for a frozen one it raises before it admits anything, as    *)
(* the function it calls to compose the objective is not there.            *)
(***************************************************************************)
EXTENDS FiniteSets

CONSTANTS
  Sessions,
  Mandatory,  \* operator-mandatory fields
  Optional,   \* the other fields
  Lists,      \* milestone lists that can be proposed, the empty one among them
  EmptyList,
  Handlers,   \* requests served at once; a freeze's committed_at is named by its own
  None

Fields == Mandatory \cup Optional

VARIABLES
  live,        \* _SESSIONS: which sessions the process holds
  work,        \* their working values; requests that fetched a session keep hold of it
  docs,        \* wizard_sessions: the snapshot of each session
  milestones,  \* wizard_session_milestones
  rows,        \* sessions with a wizard_freeze row
  calls,       \* requests in progress
  lost,        \* sessions whose freeze died before its row
  agreedOnce   \* history: sessions whose milestones have been agreed

vars == <<live, work, docs, milestones, rows, calls, lost, agreedOnce>>

Sources == {"none", "operator_supplied", "agent_assumed"}
Values == [Fields -> Sources]
Blank == [f \in Fields |-> "none"]
Snapshot == [committed : Handlers \cup {None}, values : Values]
ASSUME WizardAssumption ==
  EmptyList \in Lists /\ None \notin Handlers \cup Lists \cup Fields \cup Snapshot

MilestoneList == [list : Lists, agreed : BOOLEAN]

Calls == [by : Handlers, of : Sessions,
          op : {"open", "turn", "assume", "freeze", "propose", "agree"},
          pc : {"fetch", "apply", "upsert", "gate", "row", "drop", "write"},
          field : Fields \cup {None}, list : Lists, snap : Snapshot]

Open(values) == [committed |-> None, values |-> values]
Frozen(s) == docs[s] # None /\ docs[s].committed # None

Start(h, op, pc, s, field, list) ==
  /\ \A c \in calls : c.by # h
  /\ calls' = calls \cup {[by |-> h, of |-> s, op |-> op, pc |-> pc, field |-> field,
                           list |-> list, snap |-> Open(Blank)]}
Continue(c, d) == calls' = (calls \ {c}) \cup {d}
End(c) == calls' = calls \ {c}

------------------------------------------------------------------------------
(* Opening a session, and the turns that fill it in.                       *)

PostSession(h, s) ==
  /\ ~live[s] /\ docs[s] = None /\ \A c \in calls : c.of # s
  /\ live' = [live EXCEPT ![s] = TRUE]
  /\ Start(h, "open", "upsert", s, None, EmptyList)
  /\ UNCHANGED <<work, docs, milestones, rows, lost, agreedOnce>>

\* field None: a turn that answers nothing.
PostTurn(h, s, field) ==
  /\ Start(h, "turn", "fetch", s, field, EmptyList)
  /\ UNCHANGED <<live, work, docs, milestones, rows, lost, agreedOnce>>

PostAssumption(h, s, field) ==
  /\ Start(h, "assume", "fetch", s, field, EmptyList)
  /\ UNCHANGED <<live, work, docs, milestones, rows, lost, agreedOnce>>

PostFreeze(h, s) ==
  /\ Start(h, "freeze", "fetch", s, None, EmptyList)
  /\ UNCHANGED <<live, work, docs, milestones, rows, lost, agreedOnce>>

\* Mutant: a session that is not in memory is picked up from its snapshot.
InMemory_Reloaded(s) == live[s] \/ docs[s] # None

InMemory(s) == live[s]

\* _get_session_or_404, before the body is read.
Fetch(c) ==
  /\ c.pc = "fetch"
  /\ IF InMemory(c.of) THEN Continue(c, [c EXCEPT !.pc = "apply"]) ELSE End(c)
  /\ UNCHANGED <<live, work, docs, milestones, rows, lost, agreedOnce>>

\* record_operator_response with next_agent_turn, or record_agent_assumption: the values
\* change, and the snapshot is taken, without a pause.
Fill(c, source) ==
  LET values == IF c.field = None THEN work[c.of] ELSE [work[c.of] EXCEPT ![c.field] = source]
  IN  /\ work' = [work EXCEPT ![c.of] = values]
      /\ Continue(c, [c EXCEPT !.pc = "upsert", !.snap = Open(values)])
      /\ UNCHANGED <<live, docs, milestones, rows, lost, agreedOnce>>

Turn(c) == c.op = "turn" /\ c.pc = "apply" /\ Fill(c, "operator_supplied")

\* Guard 1: 422 for a mandatory field.
Assume(c) ==
  /\ c.op = "assume" /\ c.pc = "apply"
  /\ IF c.field \in Mandatory
     THEN End(c) /\ UNCHANGED <<live, work, docs, milestones, rows, lost, agreedOnce>>
     ELSE Fill(c, "agent_assumed")

\* upsert_session: the document is replaced by the snapshot, whatever it is by now.
Upsert(c) ==
  /\ c.pc = "upsert"
  /\ docs' = [docs EXCEPT ![c.of] = c.snap]
  /\ IF c.op = "freeze" THEN Continue(c, [c EXCEPT !.pc = "row"]) ELSE End(c)
  /\ UNCHANGED <<live, work, milestones, rows, lost, agreedOnce>>

------------------------------------------------------------------------------
(* The milestones.                                                         *)

\* A proposal replaces the list and takes the agreement back.
Propose(h, s, list) ==
  /\ Start(h, "propose", "write", s, None, list)
  /\ UNCHANGED <<live, work, docs, milestones, rows, lost, agreedOnce>>

ProposeWrite(c) ==
  /\ c.op = "propose" /\ c.pc = "write" /\ End(c)
  /\ milestones' = [milestones EXCEPT ![c.of] = [list |-> c.list, agreed |-> FALSE]]
  /\ UNCHANGED <<live, work, docs, rows, lost, agreedOnce>>

Agree(h, s) ==
  /\ Start(h, "agree", "fetch", s, None, EmptyList)
  /\ UNCHANGED <<live, work, docs, milestones, rows, lost, agreedOnce>>

\* Refused for an empty list.
AgreeRead(c) ==
  /\ c.op = "agree" /\ c.pc = "fetch"
  /\ IF milestones[c.of].list = EmptyList THEN End(c)
     ELSE Continue(c, [c EXCEPT !.pc = "write"])
  /\ UNCHANGED <<live, work, docs, milestones, rows, lost, agreedOnce>>

\* The mark goes on the list that is there by now.
AgreeWrite(c) ==
  /\ c.op = "agree" /\ c.pc = "write" /\ End(c)
  /\ milestones' = [milestones EXCEPT ![c.of].agreed = TRUE]
  /\ agreedOnce' = agreedOnce \cup {c.of}
  /\ UNCHANGED <<live, work, docs, rows, lost>>

------------------------------------------------------------------------------
(* The freeze: pre-flight, milestones, freeze, upsert, row, out of memory. *)

\* Mutant: a value will do, wherever it comes from.
Ready_Any(values) == \E f \in Fields : values[f] # "none"

\* Guard 1, at the pre-flight and again as the frozen state is constructed.  (That the
\* declared standard can be preserved is data.)
Ready(values) == \A f \in Mandatory : values[f] = "operator_supplied"

Preflight(c) ==
  /\ c.op = "freeze" /\ c.pc = "apply"
  /\ IF Ready(work[c.of]) THEN Continue(c, [c EXCEPT !.pc = "gate"]) ELSE End(c)
  /\ UNCHANGED <<live, work, docs, milestones, rows, lost, agreedOnce>>

\* Mutant: the list need only be there.
Agreed_Listed(s) == milestones[s].list # EmptyList

Agreed(s) == milestones[s].agreed

\* The frozen state is made from the session as it is after the milestones were read.
Freeze(c) ==
  /\ c.pc = "gate"
  /\ IF Agreed(c.of) /\ Ready(work[c.of])
     THEN Continue(c, [c EXCEPT !.pc = "upsert",
                         !.snap = [Open(work[c.of]) EXCEPT !.committed = c.by]])
     ELSE End(c)
  /\ UNCHANGED <<live, work, docs, milestones, rows, lost, agreedOnce>>

\* A row that is there already is not written again.
FreezeRow(c) ==
  /\ c.pc = "row" /\ rows' = rows \cup {c.of}
  /\ Continue(c, [c EXCEPT !.pc = "drop"])
  /\ UNCHANGED <<live, work, docs, milestones, lost, agreedOnce>>

Drop(c) ==
  /\ c.pc = "drop" /\ End(c)
  /\ live' = [live EXCEPT ![c.of] = FALSE]
  /\ UNCHANGED <<work, docs, milestones, rows, lost, agreedOnce>>

------------------------------------------------------------------------------
(* A request fails at Mongo, or the process restarts.                      *)

OwedBy(ended) == {c.of : c \in {d \in ended : d.pc = "row"}}

Fail(c) ==
  /\ c.pc # "drop" /\ End(c) /\ lost' = lost \cup OwedBy({c})
  /\ UNCHANGED <<live, work, docs, milestones, rows, agreedOnce>>

Restart ==
  /\ \E s \in Sessions : live[s]
  /\ live' = [s \in Sessions |-> FALSE] /\ work' = [s \in Sessions |-> Blank]
  /\ calls' = {} /\ lost' = lost \cup OwedBy(calls)
  /\ UNCHANGED <<docs, milestones, rows, agreedOnce>>

Init ==
  /\ live = [s \in Sessions |-> FALSE] /\ work = [s \in Sessions |-> Blank]
  /\ docs = [s \in Sessions |-> None]
  /\ milestones = [s \in Sessions |-> [list |-> EmptyList, agreed |-> FALSE]]
  /\ rows = {} /\ calls = {} /\ lost = {} /\ agreedOnce = {}

Request(h, s) ==
  \/ PostSession(h, s)
  \/ \E f \in Fields \cup {None} : PostTurn(h, s, f)
  \/ \E f \in Fields : PostAssumption(h, s, f)
  \/ PostFreeze(h, s) \/ Agree(h, s)
  \/ \E l \in Lists : Propose(h, s, l)

Step(c) ==
  \/ (c.op \in {"turn", "assume", "freeze"} /\ Fetch(c)) \/ Turn(c) \/ Assume(c) \/ Upsert(c)
  \/ ProposeWrite(c) \/ AgreeRead(c) \/ AgreeWrite(c)
  \/ Preflight(c) \/ Freeze(c) \/ FreezeRow(c) \/ Drop(c)
  \/ Fail(c)

Next ==
  \/ \E h \in Handlers, s \in Sessions : Request(h, s)
  \/ \E c \in calls : Step(c)
  \/ Restart

Spec == Init /\ [][Next]_vars

------------------------------------------------------------------------------
(* Properties.                                                             *)

TypeOK ==
  /\ live \in [Sessions -> BOOLEAN] /\ work \in [Sessions -> Values]
  /\ docs \in [Sessions -> Snapshot \cup {None}]
  /\ milestones \in [Sessions -> MilestoneList]
  /\ rows \subseteq Sessions /\ lost \subseteq Sessions /\ agreedOnce \subseteq Sessions
  /\ calls \subseteq Calls

\* The freeze boundary: the operator supplied every mandatory field of a frozen document,
\* the milestones had been agreed, and the ledger tells of it or the freeze has died
\* before its row.
FrozenIsGoverned ==
  \A s \in Sessions : Frozen(s) =>
    /\ Ready(docs[s].values) /\ s \in agreedOnce
    /\ s \in rows \cup lost \cup OwedBy({c \in calls : c.of = s})

\* Requests that may still write the session as they hold it in memory.
Holding(s) == {c \in calls : c.of = s /\ c.op \in {"open", "turn", "assume", "freeze"}
                               /\ c.pc # "fetch"}
Settled(s) == Frozen(s) /\ ~live[s] /\ Holding(s) = {}

\* "It's now immutable on disk": once the session is out of memory and the requests that
\* had fetched it are over, it stays frozen; no request gets hold of it again.
SettledFrozenStays == [][\A s \in Sessions : Settled(s) => Settled(s)']_vars

------------------------------------------------------------------------------
(* What a comment says and the code does not do.                           *)

\* "Clear the in-memory working session: it's now immutable on disk."
FrozenForGood ==
  [][\A s \in Sessions : Frozen(s) /\ s \in rows /\ ~live[s] => Frozen(s)']_vars
=============================================================================
