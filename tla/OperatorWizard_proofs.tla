-------------------------- MODULE OperatorWizard_proofs --------------------------
(***************************************************************************)
(* The wizard for any sessions, fields, milestone lists and requests.      *)
(* A request goes on from the snapshot it took, whatever becomes of the    *)
(* document, so the invariant says of the snapshots in flight what it says *)
(* of the documents: a snapshot that commits was ready and agreed on.      *)
(***************************************************************************)
EXTENDS OperatorWizard, TLAPS

\* The ledger tells of a freeze, or a request owes the row, or died owing it.
Told(s) == s \in rows \cup lost \/ \E c \in calls : c.of = s /\ c.pc = "row"

Writing == {"open", "turn", "assume", "freeze"}

CallOK(c) ==
  /\ c.pc = "upsert" => c.op \in Writing
  /\ c.pc \in {"row", "drop", "gate"} => c.op = "freeze"
  /\ c.op \in {"open", "turn", "assume"} => c.snap.committed = None
  /\ c.snap.committed # None => Ready(c.snap.values) /\ c.of \in agreedOnce

CallsOK == \A c \in calls : CallOK(c)

StoredOK(s) == Frozen(s) => Ready(docs[s].values) /\ s \in agreedOnce /\ Told(s)

MilestonesOK == \A s \in Sessions : milestones[s].agreed => s \in agreedOnce

WizardInv ==
  /\ TypeOK /\ CallsOK /\ MilestonesOK
  /\ \A s \in Sessions : StoredOK(s)

--------------------------------------------------------------------------------
(* Snapshots, requests, and what stays true of them.                           *)

LEMMA OpenIs ==
  ASSUME NEW values \in Values
  PROVE  Open(values) \in Snapshot /\ Open(values).committed = None
  BY DEF Open, Snapshot

LEMMA CallIs ==
  ASSUME WizardInv, NEW c \in calls
  PROVE  /\ c \in Calls /\ CallOK(c) /\ c.of \in Sessions /\ c.snap \in Snapshot /\ c.list \in Lists
         /\ c.by \in Handlers /\ c.by # None
  <1>1. c \in Calls /\ CallOK(c)
    BY DEF WizardInv, TypeOK, CallsOK
  <1> QED
    BY <1>1, WizardAssumption DEF Calls

LEMMA ToldGrows ==
  ASSUME rows \subseteq rows', lost \subseteq lost',
         \A c \in calls \ calls' : c.pc = "row" => c.of \in rows' \cup lost',
         NEW s, Told(s)
  PROVE  Told(s)'
  BY DEF Told

LEMMA StaysOK ==
  ASSUME NEW c, CallOK(c), agreedOnce \subseteq agreedOnce'
  PROVE  CallOK(c)'
  BY DEF CallOK

\* What a step has to show: the documents it writes and the requests it leaves are as the
\* invariant says; the rest follows.
LEMMA WizardStep ==
  ASSUME WizardInv,
         live' \in [Sessions -> BOOLEAN], work' \in [Sessions -> Values],
         docs' \in [Sessions -> Snapshot \cup {None}],
         milestones' \in [Sessions -> MilestoneList], MilestonesOK',
         rows' \subseteq Sessions, lost' \subseteq Sessions, agreedOnce' \subseteq Sessions,
         rows \subseteq rows', lost \subseteq lost', agreedOnce \subseteq agreedOnce',
         \A s \in Sessions : docs'[s] = docs[s] \/ StoredOK(s)',
         \A c \in calls \ calls' : c.pc = "row" => c.of \in rows' \cup lost',
         \A d \in calls' \ calls : d \in Calls /\ CallOK(d)'
  PROVE  WizardInv'
  <1>1. \A s : Told(s) => Told(s)'
    BY ToldGrows
  <1>2. \A c \in calls' : c \in Calls /\ CallOK(c)'
    <2> SUFFICES ASSUME NEW c \in calls' PROVE c \in Calls /\ CallOK(c)'
      OBVIOUS
    <2>1. CASE c \in calls
      BY <1>1, <2>1, CallIs, StaysOK
    <2>2. CASE c \notin calls
      BY <2>2
    <2> QED
      BY <2>1, <2>2
  <1>3. TypeOK' /\ CallsOK'
    BY <1>2 DEF TypeOK, CallsOK
  <1>4. ASSUME NEW s \in Sessions PROVE StoredOK(s)'
    <2>1. CASE docs'[s] = docs[s]
      BY <1>1, <2>1 DEF WizardInv, StoredOK, Frozen
    <2> QED
      BY <2>1
  <1> QED
    BY <1>3, <1>4 DEF WizardInv

\* Steps that write neither documents, milestones nor rows.
LEMMA CallStep ==
  ASSUME WizardInv, UNCHANGED <<docs, milestones, rows, lost, agreedOnce>>,
         live' \in [Sessions -> BOOLEAN], work' \in [Sessions -> Values],
         \A c \in calls \ calls' : c.pc # "row",
         \A d \in calls' \ calls : d \in Calls /\ CallOK(d)'
  PROVE  WizardInv'
  BY WizardStep DEF WizardInv, TypeOK, MilestonesOK

LEMMA EndsKeep ==
  ASSUME WizardInv, NEW c \in calls, c.pc # "row", End(c), live' \in [Sessions -> BOOLEAN],
         UNCHANGED <<work, docs, milestones, rows, lost, agreedOnce>>
  PROVE  WizardInv'
  BY CallStep DEF End, WizardInv, TypeOK

LEMMA GoesOnKeeps ==
  ASSUME WizardInv, NEW c \in calls, c.pc # "row", NEW d \in Calls, CallOK(d)', Continue(c, d),
         work' \in [Sessions -> Values],
         UNCHANGED <<live, docs, milestones, rows, lost, agreedOnce>>
  PROVE  WizardInv'
  BY CallStep DEF Continue, WizardInv, TypeOK

LEMMA StartKeeps ==
  ASSUME WizardInv, NEW h \in Handlers, NEW s \in Sessions,
         NEW op \in {"open", "turn", "assume", "freeze", "propose", "agree"},
         NEW pc \in {"fetch", "write", "upsert"}, NEW field \in Fields \cup {None}, NEW list \in Lists,
         pc = "upsert" => op = "open",
         Start(h, op, pc, s, field, list), live' \in [Sessions -> BOOLEAN],
         UNCHANGED <<work, docs, milestones, rows, lost, agreedOnce>>
  PROVE  WizardInv'
  <1> DEFINE d == [by |-> h, of |-> s, op |-> op, pc |-> pc, field |-> field, list |-> list,
                   snap |-> Open(Blank)]
  <1>1. Blank \in Values
    BY DEF Blank, Values, Sources
  <1>2. d \in Calls /\ d.op = op /\ d.pc = pc /\ d.snap.committed = None
    BY <1>1, OpenIs DEF Calls
  <1>3. calls' = calls \cup {d}
    BY DEF Start
  <1> HIDE DEF d
  <1>4. CallOK(d)'
    BY <1>2 DEF CallOK, Writing
  <1> QED
    BY <1>2, <1>3, <1>4, CallStep DEF WizardInv, TypeOK

LEMMA RequestKeeps ==
  ASSUME WizardInv, NEW h \in Handlers, NEW s \in Sessions, Request(h, s)
  PROVE  WizardInv'
  <1> EmptyList \in Lists /\ live \in [Sessions -> BOOLEAN]
    BY WizardAssumption DEF WizardInv, TypeOK
  <1>1. CASE PostSession(h, s)
    BY <1>1, StartKeeps DEF PostSession
  <1>2. ASSUME NEW f \in Fields \cup {None}, PostTurn(h, s, f) PROVE WizardInv'
    BY <1>2, StartKeeps DEF PostTurn
  <1>3. ASSUME NEW f \in Fields, PostAssumption(h, s, f) PROVE WizardInv'
    BY <1>3, StartKeeps DEF PostAssumption
  <1>4. CASE PostFreeze(h, s)
    BY <1>4, StartKeeps DEF PostFreeze
  <1>5. CASE Agree(h, s)
    BY <1>5, StartKeeps DEF Agree
  <1>6. ASSUME NEW l \in Lists, Propose(h, s, l) PROVE WizardInv'
    BY <1>6, StartKeeps DEF Propose
  <1> QED
    BY <1>1, <1>2, <1>3, <1>4, <1>5, <1>6 DEF Request

\* A request at another step, with the same snapshot.
LEMMA MovesOn ==
  ASSUME WizardInv, NEW c \in calls, c.pc # "row",
         NEW pc \in {"apply", "gate", "write"}, pc = "gate" => c.op = "freeze",
         Continue(c, [c EXCEPT !.pc = pc]),
         UNCHANGED <<live, work, docs, milestones, rows, lost, agreedOnce>>
  PROVE  WizardInv'
  <1> DEFINE d == [c EXCEPT !.pc = pc]
  <1>1. d \in Calls /\ Continue(c, d)
    BY CallIs DEF Calls
  <1>2. d.pc = pc /\ d.op = c.op /\ d.of = c.of /\ d.snap = c.snap
    BY CallIs DEF Calls
  <1> HIDE DEF d
  <1>3. CallOK(d)'
    BY <1>2, CallIs DEF CallOK
  <1> QED
    BY <1>1, <1>3, GoesOnKeeps DEF WizardInv, TypeOK

LEMMA ReadsKeep ==
  ASSUME WizardInv, NEW c \in calls,
         \/ (c.op \in {"turn", "assume", "freeze"} /\ Fetch(c)) \/ AgreeRead(c) \/ Preflight(c)
  PROVE  WizardInv'
  <1> live \in [Sessions -> BOOLEAN]
    BY DEF WizardInv, TypeOK
  <1>1. CASE c.op \in {"turn", "assume", "freeze"} /\ Fetch(c)
    BY <1>1, MovesOn, EndsKeep DEF Fetch
  <1>2. CASE AgreeRead(c)
    BY <1>2, MovesOn, EndsKeep DEF AgreeRead
  <1>3. CASE Preflight(c)
    BY <1>3, MovesOn, EndsKeep DEF Preflight
  <1> QED
    BY <1>1, <1>2, <1>3

\* A turn or an assumption, whose snapshot commits nothing.
LEMMA FillKeeps ==
  ASSUME WizardInv, NEW c \in calls, c.op \in {"turn", "assume"}, c.pc = "apply",
         NEW source \in Sources, Fill(c, source)
  PROVE  WizardInv'
  <1>1. PICK values : values = IF c.field = None THEN work[c.of] ELSE [work[c.of] EXCEPT ![c.field] = source]
    OBVIOUS
  <1>2. values \in Values /\ work' = [work EXCEPT ![c.of] = values]
        /\ Continue(c, [c EXCEPT !.pc = "upsert", !.snap = Open(values)])
        /\ UNCHANGED <<live, docs, milestones, rows, lost, agreedOnce>>
    <2>1. work[c.of] \in Values /\ c.field \in Fields \cup {None}
      BY CallIs DEF WizardInv, TypeOK, Calls
    <2>2. values \in Values
      BY <1>1, <2>1 DEF Values
    <2> QED
      BY <1>1, <2>2 DEF Fill
  <1> DEFINE d == [c EXCEPT !.pc = "upsert", !.snap = Open(values)]
  <1>3. d \in Calls /\ Continue(c, d)
    BY <1>2, CallIs, OpenIs DEF Calls
  <1>4. d.pc = "upsert" /\ d.op = c.op /\ d.of = c.of /\ d.snap.committed = None
    BY <1>2, CallIs, OpenIs DEF Calls
  <1> HIDE DEF d
  <1>5. CallOK(d)'
    BY <1>4 DEF CallOK, Writing
  <1>6. work' \in [Sessions -> Values]
    BY <1>2 DEF WizardInv, TypeOK
  <1> QED
    BY <1>2, <1>3, <1>5, <1>6, GoesOnKeeps

LEMMA TurnKeeps ==
  ASSUME WizardInv, NEW c \in calls, Turn(c) \/ Assume(c)
  PROVE  WizardInv'
  <1> live \in [Sessions -> BOOLEAN]
    BY DEF WizardInv, TypeOK
  <1>1. CASE Turn(c)
    BY <1>1, FillKeeps DEF Turn, Sources
  <1>2. CASE Assume(c) /\ c.field \in Mandatory
    BY <1>2, EndsKeep DEF Assume
  <1>3. CASE Assume(c) /\ c.field \notin Mandatory
    BY <1>3, FillKeeps DEF Assume, Sources
  <1> QED
    BY <1>1, <1>2, <1>3

--------------------------------------------------------------------------------
(* The milestones.                                                             *)

LEMMA ProposeWriteKeeps ==
  ASSUME WizardInv, NEW c \in calls, ProposeWrite(c)
  PROVE  WizardInv'
  <1>1. /\ c.pc = "write" /\ calls' = calls \ {c}
        /\ milestones' = [milestones EXCEPT ![c.of] = [list |-> c.list, agreed |-> FALSE]]
        /\ UNCHANGED <<live, work, docs, rows, lost, agreedOnce>>
    BY DEF ProposeWrite, End
  <1>2. milestones' \in [Sessions -> MilestoneList] /\ MilestonesOK'
    BY <1>1, CallIs DEF WizardInv, TypeOK, MilestoneList, MilestonesOK
  <1> QED
    BY <1>1, <1>2, WizardStep DEF WizardInv, TypeOK

LEMMA AgreeWriteKeeps ==
  ASSUME WizardInv, NEW c \in calls, AgreeWrite(c)
  PROVE  WizardInv'
  <1>1. /\ c.pc = "write" /\ calls' = calls \ {c} /\ agreedOnce' = agreedOnce \cup {c.of}
        /\ milestones' = [milestones EXCEPT ![c.of].agreed = TRUE]
        /\ UNCHANGED <<live, work, docs, rows, lost>>
    BY DEF AgreeWrite, End
  <1>2. milestones' \in [Sessions -> MilestoneList]
    BY <1>1, CallIs DEF WizardInv, TypeOK, MilestoneList
  <1>3. MilestonesOK'
    BY <1>1, CallIs DEF WizardInv, TypeOK, MilestonesOK
  <1>4. agreedOnce' \subseteq Sessions
    BY <1>1, CallIs DEF WizardInv, TypeOK
  <1> QED
    BY <1>1, <1>2, <1>3, <1>4, WizardStep DEF WizardInv, TypeOK

--------------------------------------------------------------------------------
(* The freeze.                                                                 *)

\* The snapshot of a freeze commits only what is ready and agreed on.
LEMMA FreezeKeeps ==
  ASSUME WizardInv, NEW c \in calls, Freeze(c)
  PROVE  WizardInv'
  <1>1. c.pc = "gate" /\ c.op = "freeze" /\ c.of \in Sessions
        /\ UNCHANGED <<live, work, docs, milestones, rows, lost, agreedOnce>>
    BY CallIs DEF Freeze, CallOK
  <1>2. CASE End(c)
    BY <1>1, <1>2, EndsKeep DEF WizardInv, TypeOK
  <1>3. CASE /\ Agreed(c.of) /\ Ready(work[c.of])
             /\ Continue(c, [c EXCEPT !.pc = "upsert", !.snap = [Open(work[c.of]) EXCEPT !.committed = c.by]])
    <2>1. PICK snap : snap = [Open(work[c.of]) EXCEPT !.committed = c.by]
      OBVIOUS
    <2>2. snap \in Snapshot /\ snap.values = work[c.of]
      BY <1>1, <2>1, CallIs DEF Open, Snapshot, WizardInv, TypeOK
    <2> DEFINE d == [c EXCEPT !.pc = "upsert", !.snap = snap]
    <2>3. d \in Calls
      BY <2>2, CallIs DEF Calls
    <2>4. d.pc = "upsert" /\ d.op = "freeze" /\ d.of = c.of /\ d.snap = snap
      BY <1>1, CallIs DEF Calls
    <2>5. Continue(c, d)
      BY <1>3, <2>1
    <2> HIDE DEF d
    <2>6. Ready(snap.values) /\ c.of \in agreedOnce
      BY <1>1, <1>3, <2>2 DEF Agreed, WizardInv, MilestonesOK
    <2>7. CallOK(d)'
      BY <1>1, <2>2, <2>4, <2>6 DEF CallOK, Writing
    <2> QED
      BY <1>1, <2>3, <2>5, <2>7, GoesOnKeeps DEF WizardInv, TypeOK
  <1> QED
    BY <1>2, <1>3 DEF Freeze

\* Whatever the document is by now: a freeze owes its row as it is written.
LEMMA UpsertKeeps ==
  ASSUME WizardInv, NEW c \in calls, Upsert(c)
  PROVE  WizardInv'
  <1>1. /\ c.pc = "upsert" /\ c.op \in Writing /\ docs' = [docs EXCEPT ![c.of] = c.snap]
        /\ UNCHANGED <<live, work, milestones, rows, lost, agreedOnce>>
        /\ c.snap \in Snapshot /\ c.of \in Sessions
    BY CallIs DEF Upsert, CallOK, Writing
  <1>2. /\ docs'[c.of] = c.snap /\ \A s \in Sessions : s # c.of => docs'[s] = docs[s]
        /\ docs' \in [Sessions -> Snapshot \cup {None}]
    BY <1>1 DEF WizardInv, TypeOK
  <1>3. CASE c.op = "freeze"
    <2> DEFINE d == [c EXCEPT !.pc = "row"]
    <2>1. d \in Calls /\ calls' = (calls \ {c}) \cup {d}
      BY <1>3, CallIs DEF Upsert, Continue, Calls
    <2>2. d.pc = "row" /\ d.op = c.op /\ d.of = c.of /\ d.snap = c.snap
      BY CallIs DEF Calls
    <2> HIDE DEF d
    <2>3. CallOK(d)'
      BY <1>1, <1>3, <2>2, CallIs DEF CallOK
    <2>4. Told(c.of)'
      BY <2>1, <2>2 DEF Told
    <2>5. StoredOK(c.of)'
      BY <1>1, <1>2, <2>4, CallIs DEF StoredOK, Frozen, CallOK
    <2>6. \A s \in Sessions : docs'[s] = docs[s] \/ StoredOK(s)'
      BY <1>2, <2>5
    <2>7. (\A e \in calls \ calls' : e.pc # "row") /\ \A e \in calls' \ calls : e = d
      BY <1>1, <2>1
    <2> QED
      BY <1>1, <1>2, <2>1, <2>3, <2>6, <2>7, WizardStep DEF WizardInv, TypeOK, MilestonesOK
  <1>4. CASE c.op # "freeze"
    <2>1. calls' = calls \ {c} /\ c.snap.committed = None
      BY <1>1, <1>4, CallIs DEF Upsert, End, CallOK, Writing
    <2>2. StoredOK(c.of)'
      BY <1>1, <1>2, <2>1 DEF StoredOK, Frozen
    <2>3. \A s \in Sessions : docs'[s] = docs[s] \/ StoredOK(s)'
      BY <1>2, <2>2
    <2> QED
      BY <1>1, <1>2, <2>1, <2>3, WizardStep DEF WizardInv, TypeOK, MilestonesOK
  <1> QED
    BY <1>3, <1>4

LEMMA FreezeRowKeeps ==
  ASSUME WizardInv, NEW c \in calls, FreezeRow(c)
  PROVE  WizardInv'
  <1> DEFINE d == [c EXCEPT !.pc = "drop"]
  <1>1. /\ c.pc = "row" /\ c.op = "freeze" /\ rows' = rows \cup {c.of} /\ calls' = (calls \ {c}) \cup {d}
        /\ UNCHANGED <<live, work, docs, milestones, lost, agreedOnce>> /\ d \in Calls
        /\ c.of \in Sessions
    BY CallIs DEF FreezeRow, Continue, CallOK, Calls
  <1>2. d.pc = "drop" /\ d.op = c.op /\ d.of = c.of /\ d.snap = c.snap
    BY CallIs DEF Calls
  <1> HIDE DEF d
  <1>3. CallOK(d)'
    BY <1>1, <1>2, CallIs DEF CallOK
  <1> QED
    BY <1>1, <1>3, WizardStep DEF WizardInv, TypeOK, MilestonesOK

LEMMA DropKeeps ==
  ASSUME WizardInv, NEW c \in calls, Drop(c)
  PROVE  WizardInv'
  BY EndsKeep DEF Drop, WizardInv, TypeOK

--------------------------------------------------------------------------------
(* Failures.                                                                   *)

LEMMA FailKeeps ==
  ASSUME WizardInv, NEW c \in calls, Fail(c)
  PROVE  WizardInv'
  <1>1. /\ calls' = calls \ {c} /\ lost' = lost \cup OwedBy({c})
        /\ UNCHANGED <<live, work, docs, milestones, rows, agreedOnce>>
    BY DEF Fail, End
  <1>2. lost' \subseteq Sessions /\ (c.pc = "row" => c.of \in lost')
    BY <1>1, CallIs DEF OwedBy, WizardInv, TypeOK
  <1> QED
    BY <1>1, <1>2, WizardStep DEF WizardInv, TypeOK, MilestonesOK

LEMMA RestartKeeps ==
  ASSUME WizardInv, Restart
  PROVE  WizardInv'
  <1>1. /\ calls' = {} /\ lost' = lost \cup OwedBy(calls)
        /\ UNCHANGED <<docs, milestones, rows, agreedOnce>>
    BY DEF Restart
  <1>2. live' \in [Sessions -> BOOLEAN] /\ work' \in [Sessions -> Values]
    BY DEF Restart, Blank, Values, Sources
  <1>3. lost' \subseteq Sessions /\ \A c \in calls : c.pc = "row" => c.of \in lost'
    BY <1>1, CallIs DEF OwedBy, WizardInv, TypeOK
  <1> QED
    BY <1>1, <1>2, <1>3, WizardStep DEF WizardInv, TypeOK, MilestonesOK

LEMMA WizardInitInv == Init => WizardInv
  BY WizardAssumption
     DEF Init, WizardInv, TypeOK, CallsOK, MilestonesOK, StoredOK, Frozen, Blank, Values,
         Sources, MilestoneList

LEMMA WizardKept == WizardInv /\ [Next]_vars => WizardInv'
  <1> SUFFICES ASSUME WizardInv, [Next]_vars PROVE WizardInv'
    OBVIOUS
  <1>1. CASE UNCHANGED vars
    BY <1>1, CallStep DEF vars, WizardInv, TypeOK
  <1>2. ASSUME NEW h \in Handlers, NEW s \in Sessions, Request(h, s) PROVE WizardInv'
    BY <1>2, RequestKeeps
  <1>3. ASSUME NEW c \in calls, Step(c) PROVE WizardInv'
    BY <1>3, ReadsKeep, TurnKeeps, UpsertKeeps, ProposeWriteKeeps, AgreeWriteKeeps, FreezeKeeps,
       FreezeRowKeeps, DropKeeps, FailKeeps DEF Step
  <1>4. CASE Restart
    BY <1>4, RestartKeeps
  <1> QED
    BY <1>1, <1>2, <1>3, <1>4 DEF Next

THEOREM WizardInductive == Spec => []WizardInv
  BY WizardInitInv, WizardKept, PTL DEF Spec

\* Every variable of the wizard keeps its type.
THEOREM WizardTypeCorrect == Spec => []TypeOK
  BY WizardInductive, PTL DEF WizardInv

LEMMA GovernedByStored == WizardInv => FrozenIsGoverned
  BY DEF WizardInv, StoredOK, FrozenIsGoverned, Told, OwedBy

\* "Guard 1" and the milestones, at the freeze: what is frozen was ready and agreed on, and
\* its freeze is on record or owed.
THEOREM FrozenIsGovernedHolds == Spec => []FrozenIsGoverned
  BY WizardInductive, GovernedByStored, PTL

--------------------------------------------------------------------------------
(* A settled session.                                                          *)

LEMMA SettledStep ==
  ASSUME WizardInv, NEW s \in Sessions, Settled(s), docs'[s] = docs[s] \/ Frozen(s)', live'[s] = FALSE,
         \A d \in calls' \ calls : d \notin Holding(s)'
  PROVE  Settled(s)'
  BY DEF Settled, Frozen, Holding

LEMMA SuccessorIs ==
  ASSUME WizardInv, NEW c \in calls, Step(c), NEW d \in calls' \ calls
  PROVE  d.of = c.of /\ d.op = c.op
  <1> c \in Calls
    BY CallIs
  <1>1. CASE End(c)
    BY <1>1 DEF End
  <1>2. ASSUME NEW pc, Continue(c, [c EXCEPT !.pc = pc]) PROVE d.of = c.of /\ d.op = c.op
    BY <1>2 DEF Continue, Calls
  <1>3. ASSUME NEW pc, NEW snap, Continue(c, [c EXCEPT !.pc = pc, !.snap = snap])
        PROVE  d.of = c.of /\ d.op = c.op
    BY <1>3 DEF Continue, Calls
  <1>4. CASE Fetch(c) \/ AgreeRead(c) \/ Preflight(c) \/ Upsert(c) \/ FreezeRow(c)
    BY <1>1, <1>2, <1>4 DEF Fetch, AgreeRead, Preflight, Upsert, FreezeRow
  <1>5. CASE Turn(c) \/ Assume(c) \/ Freeze(c)
    BY <1>1, <1>3, <1>5 DEF Turn, Assume, Freeze, Fill
  <1> QED
    BY <1>1, <1>4, <1>5 DEF Step, ProposeWrite, AgreeWrite, Drop, Fail

LEMMA SettledKept ==
  ASSUME WizardInv, [Next]_vars, NEW s \in Sessions, Settled(s)
  PROVE  Settled(s)'
  <1>0. Frozen(s) /\ live[s] = FALSE /\ Holding(s) = {} /\ live \in [Sessions -> BOOLEAN]
    BY DEF Settled, WizardInv, TypeOK
  <1>1. CASE UNCHANGED vars
    BY <1>0, <1>1, SettledStep DEF vars
  <1>2. ASSUME NEW h \in Handlers, NEW t \in Sessions, Request(h, t) PROVE Settled(s)'
    <2>1. CASE PostSession(h, t)
      <3>1. t # s
        BY <1>0, <2>1 DEF PostSession, Frozen
      <3>2. /\ live'[s] = FALSE /\ docs' = docs
        BY <1>0, <2>1, <3>1 DEF PostSession
      <3>3. \A d \in calls' \ calls : d.of = t
        BY <2>1 DEF PostSession, Start
      <3> QED
        BY <3>1, <3>2, <3>3, SettledStep DEF Holding
    <2>2. CASE ~PostSession(h, t)
      <3>1. live' = live /\ docs' = docs
            /\ \A d \in calls' \ calls : d.pc = "fetch" \/ d.op = "propose"
        BY <1>2, <2>2 DEF Request, PostTurn, PostAssumption, PostFreeze, Agree, Propose, Start
      <3> QED
        BY <1>0, <3>1, SettledStep DEF Holding
    <2> QED
      BY <2>1, <2>2
  <1>3. ASSUME NEW c \in calls, Step(c) PROVE Settled(s)'
    <2>0. c \in Calls /\ CallOK(c) /\ c \notin Holding(s)
      BY <1>0, CallIs
    <2>1. CASE c.of = s /\ Upsert(c)
      BY <2>0, <2>1 DEF Upsert, CallOK, Writing, Holding
    <2>2. CASE ~(c.of = s /\ Upsert(c))
      <3>1. docs'[s] = docs[s]
        BY <1>3, <2>2, CallIs
           DEF Step, Fetch, Turn, Assume, Fill, Upsert, ProposeWrite, AgreeRead, AgreeWrite, Preflight,
               Freeze, FreezeRow, Drop, Fail, WizardInv, TypeOK
      <3>2. live'[s] = FALSE
        BY <1>0, <1>3
           DEF Step, Fetch, Turn, Assume, Fill, Upsert, ProposeWrite, AgreeRead, AgreeWrite, Preflight,
               Freeze, FreezeRow, Drop, Fail
      <3>3. \A d \in calls' \ calls : d \notin Holding(s)'
        <4>1. CASE End(c)
          BY <4>1 DEF End
        <4>2. CASE c.of # s \/ c.op \notin Writing \/ c.pc # "fetch"
          <5>1. \A d \in calls' \ calls : d.of = c.of /\ d.op = c.op
            BY <1>3, SuccessorIs
          <5>2. c.of # s \/ c.op \notin Writing
            BY <2>0, <4>2 DEF Holding, Writing
          <5> QED
            BY <5>1, <5>2 DEF Holding, Writing
        <4>3. CASE c.of = s /\ c.op \in Writing /\ c.pc = "fetch"
          BY <1>0, <1>3, <4>1, <4>3
             DEF Step, Fetch, InMemory, Turn, Assume, Upsert, ProposeWrite, AgreeRead, AgreeWrite, Preflight,
                 Freeze, FreezeRow, Drop, Fail, Writing
        <4> QED
          BY <4>1, <4>2, <4>3
      <3> QED
        BY <3>1, <3>2, <3>3, SettledStep
    <2> QED
      BY <2>1, <2>2
  <1>4. CASE Restart
    BY <1>0, <1>4, SettledStep DEF Restart
  <1> QED
    BY <1>1, <1>2, <1>3, <1>4 DEF Next

\* "It's now immutable on disk": once a frozen session is out of memory and nobody holds it
\* any more, it stays frozen.
THEOREM SettledFrozenStaysHolds == Spec => SettledFrozenStays
  <1>1. WizardInv /\ [Next]_vars => [\A s \in Sessions : Settled(s) => Settled(s)']_vars
    BY SettledKept
  <1> QED
    BY <1>1, WizardInductive, PTL DEF Spec, SettledFrozenStays
================================================================================
