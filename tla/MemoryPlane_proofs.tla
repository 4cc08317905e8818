--------------------------- MODULE MemoryPlane_proofs ---------------------------
(***************************************************************************)
(* The memory service for any planes, contributions, references and calls. *)
(* What is told of a plane, by the ledger or by the rows still owed, grows *)
(* in the step that writes the document and moves only from owed to        *)
(* written; and what a call has found stays true of its plane, because     *)
(* contributions never leave a plane and planes never go.                  *)
(***************************************************************************)
EXTENDS MemoryPlane, TLAPS

Told == rows \cup Owed
Visible(x) == store[x] # None /\ store[x].rights = "registry_visible"

\* What a call knows: its plane was issued; past the fetch, its contribution lies in the
\* plane; past the attempt, the attempt is on the ledger.
CallOK(c) ==
  /\ plane[c.plane] # "absent"
  /\ c.op = "publish" => c.ref \in Contribs
  /\ c.op = "use" => c.ref \in Refs
  /\ c.op \in {"issue", "revoke"} => c.ref = None
  /\ c.pc \in {"attempt", "gate"} =>
       c.op = "publish" /\ c.ref \in Contributions(c.plane) /\ c.seen = "active"
  /\ c.pc = "gate" => Row("publication_attempted", c.plane, c.ref) \in rows
  /\ c.pc = "delete" => c.seen = "active"
  /\ c.pc = "row" => c.op \in {"issue", "contribute", "publish", "revoke"}
  /\ c.pc = "row" /\ c.op = "contribute" => c.ref \in Contribs

CallsOK == \A c \in calls : CallOK(c)

\* LedgerRebuilds, row by row.
ToldOK ==
  /\ \A r \in Told : plane[r.plane] # "absent"
  /\ \A p \in Planes : Row("revoked", p, None) \in Told <=> plane[p] = "revoked"
  /\ \A p \in Planes, x \in Contribs :
       /\ Row("contribution_landed", p, x) \in Told <=> x \in Contributions(p)
       /\ Row("publication_landed", p, x) \in Told <=> x \in Contributions(p) /\ Visible(x)

MemoryInv == TypeOK /\ CallsOK /\ ToldOK /\ PublishedByCeremony

--------------------------------------------------------------------------------
(* Rows.                                                                       *)

LEMMA RowIs ==
  ASSUME NEW e, NEW p, NEW x, NEW f, NEW q, NEW y
  PROVE  /\ Row(e, p, x) = Row(f, q, y) <=> e = f /\ p = q /\ x = y
         /\ Row(e, p, x).plane = p
  BY DEF Row

LEMMA OwedIs ==
  ASSUME NEW c
  PROVE  /\ c.op = "issue" => OwedBy(c) = Row("issued", c.plane, c.ref)
         /\ c.op = "contribute" => OwedBy(c) = Row("contribution_landed", c.plane, c.ref)
         /\ c.op = "publish" => OwedBy(c) = Row("publication_landed", c.plane, c.ref)
         /\ c.op = "revoke" => OwedBy(c) = Row("revoked", c.plane, c.ref)
  BY DEF OwedBy, EventOf

LEMMA OwedTyped ==
  ASSUME NEW c \in Calls, CallOK(c), c.pc = "row"
  PROVE  OwedBy(c) \in Rows /\ OwedBy(c).plane = c.plane
  <1>1. c.plane \in Planes /\ c.ref \in Contribs \cup {None}
    BY DEF CallOK, Calls
  <1> QED
    BY <1>1, OwedIs DEF CallOK, Row, Rows, Events

\* A call replaced by one that owes no row, and itself owing none: only rows written count.
LEMMA NothingOwed ==
  ASSUME \A c \in calls \ calls' : c.pc # "row", \A c \in calls' \ calls : c.pc # "row",
         rows \subseteq rows', lost' = lost
  PROVE  \A r : r \in Told' <=> r \in Told \/ r \in rows'
  BY DEF Told, Owed, OwedBy, Row

LEMMA NowOwed ==
  ASSUME \A c \in calls \ calls' : c.pc # "row", NEW d \in calls', d.pc = "row",
         \A c \in calls' \ calls : c = d, rows' = rows, lost' = lost
  PROVE  \A r : r \in Told' <=> r \in Told \/ r = OwedBy(d)
  BY DEF Told, Owed, OwedBy, Row

\* A row owed is written, or lost with its call: as much is told as before.
LEMMA OwedMoves ==
  ASSUME NEW c \in calls, c.pc = "row", calls' = calls \ {c},
         \/ rows' = rows \cup {OwedBy(c)} /\ lost' = lost
         \/ lost' = lost \cup {OwedBy(c)} /\ rows' = rows
  PROVE  Told' = Told
  BY DEF Told, Owed, OwedBy, Row

--------------------------------------------------------------------------------
(* What stays true of the other calls.                                         *)

\* Planes do not go, contributions do not move, and rows are only added.
Grown ==
  /\ \A p \in Planes : plane[p] # "absent" => plane'[p] # "absent"
  /\ \A p \in Planes : Contributions(p) \subseteq Contributions(p)'
  /\ rows \subseteq rows'

LEMMA StaysOK ==
  ASSUME Grown, NEW c \in Calls, CallOK(c)
  PROVE  CallOK(c)'
  BY DEF Grown, CallOK, Calls

LEMMA CallsKept ==
  ASSUME MemoryInv, Grown, \A d \in calls' \ calls : d \in Calls /\ CallOK(d)'
  PROVE  calls' \subseteq Calls /\ CallsOK'
  BY StaysOK DEF MemoryInv, TypeOK, CallsOK

\* Steps that leave every document alone.
LEMMA SameDocuments ==
  ASSUME UNCHANGED documents, rows \subseteq rows'
  PROVE  /\ Grown
         /\ \A p \in Planes : Contributions(p)' = Contributions(p)
         /\ \A x \in Contribs : Visible(x)' = Visible(x)
  BY DEF documents, Grown, Contributions, Visible

--------------------------------------------------------------------------------
(* The steps, by what they write.                                              *)

\* No document but a working set changes, and no row that tells of one.
LEMMA QuietStep ==
  ASSUME MemoryInv, plane' = plane, store' = store, lost' = lost,
         working' \in [Planes -> SUBSET Refs], rows \subseteq rows',
         \A r \in rows' \ rows : r \in Rows /\ plane[r.plane] # "absent"
            /\ r.event \in {"publication_attempted", "publication_refused", "contribution_refused"},
         \A c \in calls \ calls' : c.pc # "row",
         \A d \in calls' \ calls : d \in Calls /\ CallOK(d)' /\ d.pc # "row"
  PROVE  MemoryInv'
  <1>1. Grown /\ \A p \in Planes : Contributions(p)' = Contributions(p)
    BY DEF Grown, Contributions
  <1>2. TypeOK' /\ CallsOK'
    <2>1. calls' \subseteq Calls /\ CallsOK'
      BY <1>1, CallsKept
    <2> QED
      BY <2>1 DEF MemoryInv, TypeOK
  <1>3. \A r : r \in Told' <=> r \in Told \/ r \in rows'
    BY NothingOwed
  <1>4. ToldOK'
    <2>1. rows \subseteq Told
      BY DEF Told
    <2>2. \A r \in Told' : plane[r.plane] # "absent"
      BY <1>3, <2>1 DEF MemoryInv, ToldOK
    <2>3. \A e \in {"revoked", "contribution_landed", "publication_landed"} :
            \A p, x : Row(e, p, x) \in Told' <=> Row(e, p, x) \in Told
      BY <1>3, <2>1 DEF Row
    <2> QED
      BY <1>1, <2>2, <2>3 DEF MemoryInv, ToldOK, Visible
  <1>5. PublishedByCeremony'
    BY DEF MemoryInv, PublishedByCeremony
  <1> QED
    BY <1>2, <1>4, <1>5 DEF MemoryInv

\* A call ends with its row written, or dies owing it.
LEMMA OwedStep ==
  ASSUME MemoryInv, UNCHANGED documents, NEW c \in calls, c.pc = "row", calls' = calls \ {c},
         \/ rows' = rows \cup {OwedBy(c)} /\ lost' = lost
         \/ lost' = lost \cup {OwedBy(c)} /\ rows' = rows
  PROVE  MemoryInv'
  <1>1. OwedBy(c) \in Rows
    BY OwedTyped DEF MemoryInv, TypeOK, CallsOK
  <1>2. rows \subseteq rows' /\ rows' \subseteq Rows /\ lost' \subseteq Rows
    BY <1>1 DEF MemoryInv, TypeOK
  <1>3. TypeOK' /\ CallsOK'
    <2>1. calls' \subseteq Calls /\ CallsOK'
      BY <1>2, SameDocuments, CallsKept
    <2> QED
      BY <1>2, <2>1 DEF MemoryInv, TypeOK, documents
  <1>4. ToldOK'
    BY OwedMoves, SameDocuments DEF MemoryInv, ToldOK, documents
  <1>5. PublishedByCeremony'
    BY <1>2 DEF MemoryInv, PublishedByCeremony, documents
  <1> QED
    BY <1>3, <1>4, <1>5 DEF MemoryInv

LEMMA IssueKeeps ==
  ASSUME MemoryInv, NEW h \in Handlers, NEW p \in Planes, Issue(h, p)
  PROVE  MemoryInv'
  <1> DEFINE d == [by |-> h, op |-> "issue", plane |-> p, pc |-> "row", seen |-> "unread",
                   ref |-> None, doomed |-> {}]
  <1>1. /\ calls' = calls \cup {d} /\ plane' = [plane EXCEPT ![p] = "active"] /\ plane[p] = "absent"
        /\ store' = store /\ working' = working /\ rows' = rows /\ lost' = lost
    BY DEF Issue, Start
  <1>2. plane'[p] = "active" /\ \A q \in Planes : q # p => plane'[q] = plane[q]
    BY <1>1 DEF MemoryInv, TypeOK
  <1>3. Grown /\ \A q \in Planes : Contributions(q)' = Contributions(q)
    BY <1>1, <1>2 DEF Grown, Contributions
  <1>4. d \in Calls /\ CallOK(d)'
    BY <1>2 DEF Calls, Ops, CallOK
  <1>5. calls' \subseteq Calls /\ CallsOK'
    BY <1>1, <1>3, <1>4, CallsKept
  <1>6. \A r : r \in Told' <=> r \in Told \/ r = Row("issued", p, None)
    <2>1. OwedBy(d) = Row("issued", p, None)
      BY OwedIs
    <2>2. d.pc = "row" /\ d \in calls'
      BY <1>1
    <2> HIDE DEF d
    <2> QED
      BY <1>1, <2>1, <2>2, NowOwed
  <1>7. ToldOK'
    <2>1. \A r \in Told' : plane'[r.plane] # "absent"
      <3> SUFFICES ASSUME NEW r \in Told' PROVE plane'[r.plane] # "absent"
        OBVIOUS
      <3>1. CASE r \in Told
        <4>1. r.plane \in Planes
          <5>1. \A c \in calls : c.pc = "row" => OwedBy(c) \in Rows
            BY OwedTyped DEF MemoryInv, TypeOK, CallsOK
          <5> QED
            BY <3>1, <5>1 DEF Told, Owed, MemoryInv, TypeOK, Rows
        <4> QED
          BY <1>2, <3>1, <4>1 DEF MemoryInv, ToldOK
      <3>2. CASE r = Row("issued", p, None)
        BY <1>2, <3>2, RowIs
      <3> QED
        BY <1>6, <3>1, <3>2
    <2>2. \A e \in {"revoked", "contribution_landed", "publication_landed"} :
            \A q, x : Row(e, q, x) \in Told' <=> Row(e, q, x) \in Told
      BY <1>6, RowIs
    <2> QED
      BY <1>1, <1>2, <1>3, <2>1, <2>2 DEF MemoryInv, ToldOK, Visible
  <1>8. TypeOK'
    BY <1>1, <1>5 DEF MemoryInv, TypeOK
  <1>9. PublishedByCeremony'
    BY <1>1 DEF MemoryInv, PublishedByCeremony
  <1> QED
    BY <1>5, <1>7, <1>8, <1>9 DEF MemoryInv

LEMMA EnterKeeps ==
  ASSUME MemoryInv, NEW h \in Handlers, NEW p \in Planes, NEW op \in Ops, NEW ref \in Contribs \cup Refs \cup {None},
         Enter(h, op, p, ref), op # "issue", op = "publish" => ref \in Contribs, op = "use" => ref \in Refs,
         op = "revoke" => ref = None
  PROVE  MemoryInv'
  <1> DEFINE d == [by |-> h, op |-> op, plane |-> p, pc |-> "mint", seen |-> "unread",
                   ref |-> ref, doomed |-> {}]
  <1>1. /\ calls' = calls \cup {d} /\ UNCHANGED <<documents, rows, lost>> /\ plane[p] # "absent"
    BY DEF Enter, Start
  <1>2. d \in Calls /\ CallOK(d)' /\ d.pc # "row"
    BY <1>1 DEF Calls, CallOK, documents
  <1>3. working' \in [Planes -> SUBSET Refs]
    BY <1>1 DEF MemoryInv, TypeOK, documents
  <1> HIDE DEF d
  <1> QED
    BY <1>1, <1>2, <1>3, QuietStep DEF documents

LEMMA CallUpdates ==
  ASSUME NEW c \in Calls, NEW pc \in {"mint", "write", "attempt", "gate", "row", "delete"},
         NEW seen \in {"unread", "active", "revoked"}, NEW ref \in Contribs \cup Refs \cup {None},
         NEW doomed \in SUBSET Refs
  PROVE  /\ [c EXCEPT !.pc = pc] \in Calls
         /\ [c EXCEPT !.pc = pc, !.seen = seen] \in Calls
         /\ [c EXCEPT !.pc = pc, !.ref = ref] \in Calls
         /\ [c EXCEPT !.pc = pc, !.doomed = doomed] \in Calls
         /\ [c EXCEPT !.doomed = doomed] \in Calls
  BY DEF Calls

LEMMA CallIs ==
  ASSUME MemoryInv, NEW c \in calls
  PROVE  /\ c \in Calls /\ CallOK(c) /\ c.plane \in Planes
         /\ c.ref \in Contribs \cup Refs \cup {None} /\ c.doomed \in SUBSET Refs
         /\ c.seen \in {"unread", "active", "revoked"}
         /\ working \in [Planes -> SUBSET Refs] /\ plane[c.plane] \in {"active", "revoked"}
  <1>1. c \in Calls /\ CallOK(c)
    BY DEF MemoryInv, TypeOK, CallsOK
  <1>2. c.plane \in Planes
    BY <1>1 DEF Calls
  <1> QED
    BY <1>1, <1>2 DEF Calls, CallOK, MemoryInv, TypeOK

\* A call goes on, or ends, and nothing else happens but a row that tells of no document.
LEMMA ContinueStep ==
  ASSUME MemoryInv, UNCHANGED documents, lost' = lost, rows \subseteq rows',
         \A r \in rows' \ rows : r \in Rows /\ plane[r.plane] # "absent"
            /\ r.event \in {"publication_attempted", "publication_refused", "contribution_refused"},
         NEW c \in calls, c.pc # "row", NEW d \in Calls, CallOK(d)', d.pc # "row", Continue(c, d)
  PROVE  MemoryInv'
  BY QuietStep, CallIs DEF Continue, documents

LEMMA EndStep ==
  ASSUME MemoryInv, UNCHANGED documents, lost' = lost, rows \subseteq rows',
         \A r \in rows' \ rows : r \in Rows /\ plane[r.plane] # "absent"
            /\ r.event \in {"publication_attempted", "publication_refused", "contribution_refused"},
         NEW c \in calls, c.pc # "row", End(c)
  PROVE  MemoryInv'
  BY QuietStep, CallIs DEF End, documents

LEMMA MintKeeps ==
  ASSUME MemoryInv, NEW c \in calls, Mint(c)
  PROVE  MemoryInv'
  <1> PICK state \in {"active", "revoked"} : state = plane[c.plane]
    BY CallIs
  <1> DEFINE d == [c EXCEPT !.pc = "write", !.seen = state]
  <1>1. d \in Calls
    BY CallIs, CallUpdates
  <1>2. d.pc = "write" /\ d.op = c.op /\ d.plane = c.plane /\ d.ref = c.ref
    BY CallIs DEF Calls
  <1>3. Continue(c, d) /\ UNCHANGED <<documents, rows, lost>> /\ c.pc = "mint"
    BY DEF Mint, StateAtMint
  <1> HIDE DEF d
  <1>4. CallOK(d)'
    BY <1>2, <1>3, CallIs DEF CallOK, documents
  <1> QED
    BY <1>1, <1>2, <1>3, <1>4, ContinueStep

LEMMA EndsKeep ==
  ASSUME MemoryInv, NEW c \in calls,
         \/ Frozen(c) \/ RefuseContribution(c) \/ RefusePublication(c) \/ (Die(c) /\ c.pc # "row")
  PROVE  MemoryInv'
  <1> USE CallIs
  <1>1. CASE Frozen(c)
    BY <1>1, EndStep DEF Frozen
  <1>2. CASE RefuseContribution(c)
    <2> DEFINE row == Row("contribution_refused", c.plane, None)
    <2>1. row \in Rows /\ row.plane = c.plane /\ row.event = "contribution_refused"
      BY DEF Row, Rows, Events
    <2>2. rows' = rows \cup {row} /\ UNCHANGED <<documents, lost>> /\ End(c) /\ c.pc # "row"
      BY <1>2 DEF RefuseContribution
    <2> HIDE DEF row
    <2> QED
      BY <2>1, <2>2, EndStep DEF CallOK
  <1>3. CASE RefusePublication(c)
    <2> DEFINE row == Row("publication_refused", c.plane, c.ref)
    <2>1. c.ref \in Contribs
      BY <1>3 DEF RefusePublication, CallOK, Contributions
    <2>2. row \in Rows /\ row.plane = c.plane /\ row.event = "publication_refused"
      BY <2>1 DEF Row, Rows, Events
    <2>3. rows' = rows \cup {row} /\ UNCHANGED <<documents, lost>> /\ End(c) /\ c.pc # "row"
      BY <1>3 DEF RefusePublication
    <2> HIDE DEF row
    <2> QED
      BY <2>2, <2>3, EndStep DEF CallOK
  <1>4. CASE Die(c) /\ c.pc # "row"
    BY <1>4, EndStep DEF Die
  <1> QED
    BY <1>1, <1>2, <1>3, <1>4

LEMMA FetchKeeps ==
  ASSUME MemoryInv, NEW c \in calls, Fetch(c)
  PROVE  MemoryInv'
  <1>1. UNCHANGED <<documents, rows, lost>> /\ c.pc = "write" /\ c.op = "publish" /\ c.seen = "active"
    BY DEF Fetch, Active
  <1>2. CASE End(c)
    BY <1>1, <1>2, EndStep
  <1>3. CASE c.ref \in Contributions(c.plane) /\ Continue(c, [c EXCEPT !.pc = "attempt"])
    <2> DEFINE d == [c EXCEPT !.pc = "attempt"]
    <2>1. d \in Calls /\ Continue(c, d)
      BY <1>3, CallIs, CallUpdates
    <2>2. d.pc = "attempt" /\ d.op = c.op /\ d.plane = c.plane /\ d.ref = c.ref /\ d.seen = c.seen
      BY CallIs DEF Calls
    <2> HIDE DEF d
    <2>3. CallOK(d)'
      BY <1>1, <1>3, <2>2, CallIs, SameDocuments DEF CallOK, documents
    <2> QED
      BY <1>1, <2>1, <2>2, <2>3, ContinueStep
  <1> QED
    BY <1>2, <1>3 DEF Fetch

LEMMA AttemptKeeps ==
  ASSUME MemoryInv, NEW c \in calls, Attempt(c)
  PROVE  MemoryInv'
  <1> DEFINE d == [c EXCEPT !.pc = "gate"]
             row == Row("publication_attempted", c.plane, c.ref)
  <1>1. d \in Calls /\ Continue(c, d) /\ c.pc = "attempt"
    BY CallIs, CallUpdates DEF Attempt
  <1>2. d.pc = "gate" /\ d.op = c.op /\ d.plane = c.plane /\ d.ref = c.ref /\ d.seen = c.seen
    BY CallIs DEF Calls
  <1>3. rows' = rows \cup {row} /\ UNCHANGED documents /\ lost' = lost
    BY DEF Attempt, AttemptRow
  <1>4. c.ref \in Contribs /\ c.ref \in Contributions(c.plane) /\ c.op = "publish" /\ c.seen = "active"
    BY <1>1, CallIs DEF CallOK, Contributions
  <1>5. row \in Rows /\ plane[row.plane] # "absent" /\ row.event = "publication_attempted"
    BY <1>4, CallIs DEF Row, Rows, Events, CallOK
  <1> HIDE DEF d, row
  <1>6. CallOK(d)'
    BY <1>2, <1>3, <1>4, CallIs, SameDocuments DEF CallOK, documents, row
  <1> QED
    BY <1>1, <1>2, <1>3, <1>5, <1>6, ContinueStep

LEMMA RevokeReadKeeps ==
  ASSUME MemoryInv, NEW c \in calls, RevokeRead(c)
  PROVE  MemoryInv'
  <1>1. UNCHANGED <<documents, rows, lost>> /\ c.pc = "mint" /\ c.op = "revoke"
    BY DEF RevokeRead
  <1>2. CASE End(c)
    BY <1>1, <1>2, EndStep
  <1>3. CASE Continue(c, [c EXCEPT !.pc = "write"])
    <2> DEFINE d == [c EXCEPT !.pc = "write"]
    <2>1. d \in Calls /\ Continue(c, d)
      BY <1>3, CallIs, CallUpdates
    <2>2. d.pc = "write" /\ d.op = c.op /\ d.plane = c.plane /\ d.ref = c.ref /\ d.seen = c.seen
      BY CallIs DEF Calls
    <2> HIDE DEF d
    <2>3. CallOK(d)'
      BY <1>1, <2>2, CallIs DEF CallOK, documents
    <2> QED
      BY <1>1, <2>1, <2>2, <2>3, ContinueStep
  <1> QED
    BY <1>2, <1>3 DEF RevokeRead

LEMMA WorkingKeeps ==
  ASSUME MemoryInv, NEW c \in calls,
         \/ RecordUse(c) \/ (\E d \in SUBSET Refs : EvictList(c, d)) \/ (\E r \in Refs : EvictOne(c, r))
  PROVE  MemoryInv'
  <1>1. CASE RecordUse(c)
    <2>1. c.ref \in Refs /\ c.pc # "row"
      BY <1>1, CallIs DEF RecordUse, Active, CallOK
    <2>2. working' \in [Planes -> SUBSET Refs]
      BY <1>1, <2>1, CallIs DEF RecordUse
    <2> QED
      BY <1>1, <2>1, <2>2, QuietStep DEF RecordUse, End
  <1>2. ASSUME NEW gone \in SUBSET Refs, EvictList(c, gone) PROVE MemoryInv'
    <2> DEFINE d == [c EXCEPT !.pc = "delete", !.doomed = gone]
    <2>1. d \in Calls /\ Continue(c, d) /\ UNCHANGED <<documents, rows, lost>> /\ c.pc = "write" /\ c.seen = "active"
      BY <1>2, CallIs, CallUpdates DEF EvictList, Active
    <2>2. d.pc = "delete" /\ d.op = c.op /\ d.plane = c.plane /\ d.ref = c.ref /\ d.seen = c.seen
      BY CallIs DEF Calls
    <2> HIDE DEF d
    <2>3. CallOK(d)'
      BY <2>1, <2>2, CallIs DEF CallOK, documents
    <2> QED
      BY <2>1, <2>2, <2>3, ContinueStep
  <1>3. ASSUME NEW r \in Refs, EvictOne(c, r) PROVE MemoryInv'
    <2>1. /\ UNCHANGED <<plane, store, rows, lost>> /\ c.pc = "delete" /\ c.seen = "active"
          /\ working' = [working EXCEPT ![c.plane] = @ \ {r}]
      BY <1>3, CallIs DEF EvictOne, CallOK
    <2>2. working' \in [Planes -> SUBSET Refs]
      BY <2>1, CallIs
    <2>3. CASE End(c)
      BY <2>1, <2>2, <2>3, QuietStep DEF End
    <2>4. CASE Continue(c, [c EXCEPT !.doomed = @ \ {r}])
      <3> DEFINE d == [c EXCEPT !.doomed = c.doomed \ {r}]
      <3>1. d \in Calls /\ Continue(c, d)
        BY <2>4, CallIs, CallUpdates
      <3>2. d.pc = "delete" /\ d.op = c.op /\ d.plane = c.plane /\ d.ref = c.ref /\ d.seen = c.seen
        BY <2>1, CallIs DEF Calls
      <3> HIDE DEF d
      <3>3. CallOK(d)'
        BY <2>1, <3>2, CallIs DEF CallOK
      <3> QED
        BY <2>1, <2>2, <3>1, <3>2, <3>3, QuietStep DEF Continue
    <2> QED
      BY <1>3, <2>3, <2>4 DEF EvictOne
  <1> QED
    BY <1>1, <1>2, <1>3

\* The landing of a contribution: the document, and with it the row owed.
LEMMA InsertKeeps ==
  ASSUME MemoryInv, NEW c \in calls, NEW x \in Contribs, InsertContribution(c, x)
  PROVE  MemoryInv'
  <1> DEFINE d == [c EXCEPT !.pc = "row", !.ref = x]
             row == Row("contribution_landed", c.plane, x)
  <1>1. /\ d \in Calls /\ Continue(c, d) /\ UNCHANGED <<plane, working, rows, lost>>
        /\ c.pc = "write" /\ c.op = "contribute" /\ store[x] = None
        /\ store' = [store EXCEPT ![x] = [plane |-> c.plane, rights |-> "internal_only"]]
    BY CallIs, CallUpdates DEF InsertContribution, Active
  <1>2. d.pc = "row" /\ d.op = "contribute" /\ d.plane = c.plane /\ d.ref = x
    BY <1>1, CallIs DEF Calls
  <1>3. OwedBy(d) = row
    BY <1>2, OwedIs
  <1> HIDE DEF d, row
  <1>4. /\ store'[x] = [plane |-> c.plane, rights |-> "internal_only"] /\ store'[x] # None
        /\ \A y \in Contribs : y # x => store'[y] = store[y]
        /\ store' \in [Contribs -> Documents \cup {None}]
    <2>1. [plane |-> c.plane, rights |-> "internal_only"] \in Documents
      BY CallIs DEF Documents
    <2>2. [plane |-> c.plane, rights |-> "internal_only"] # None
      BY <2>1, MemoryAssumption
    <2> QED
      BY <1>1, <2>1, <2>2 DEF MemoryInv, TypeOK
  <1>5. /\ \A p \in Planes, y \in Contribs :
             y \in Contributions(p)' <=> y \in Contributions(p) \/ (y = x /\ p = c.plane)
        /\ \A y \in Contribs : Visible(y)' <=> Visible(y)
    BY <1>1, <1>4 DEF Contributions, Visible
  <1>6. Grown
    BY <1>1, <1>5 DEF Grown, Contributions
  <1>7. CallOK(d)'
    BY <1>1, <1>2, CallIs DEF CallOK
  <1>8. calls' \subseteq Calls /\ CallsOK'
    BY <1>1, <1>6, <1>7, CallsKept DEF Continue
  <1>9. \A r : r \in Told' <=> r \in Told \/ r = row
    <2>1. (\A y \in calls \ calls' : y.pc # "row") /\ d \in calls' /\ (\A y \in calls' \ calls : y = d)
      BY <1>1 DEF Continue
    <2> QED
      BY <1>1, <1>2, <1>3, <2>1, NowOwed
  <1>10. ToldOK'
    <2>1. \A r \in Told' : plane[r.plane] # "absent"
      <3>1. row.plane = c.plane /\ plane[c.plane] # "absent"
        BY CallIs DEF row, Row, CallOK
      <3>2. \A r \in Told : plane[r.plane] # "absent"
        BY DEF MemoryInv, ToldOK
      <3> QED
        BY <1>9, <3>1, <3>2
    <2>2. \A p \in Planes : Row("revoked", p, None) # row
      BY DEF Row, row
    <2>3. \A p \in Planes, y \in Contribs :
            /\ Row("publication_landed", p, y) # row
            /\ Row("contribution_landed", p, y) = row <=> y = x /\ p = c.plane
      BY DEF Row, row
    <2>4. ~Visible(x)
      BY <1>1 DEF Visible
    <2> QED
      BY <1>1, <1>5, <1>9, <2>1, <2>2, <2>3, <2>4 DEF MemoryInv, ToldOK
  <1>11. PublishedByCeremony'
    BY <1>1, <1>4 DEF MemoryInv, PublishedByCeremony
  <1> QED
    BY <1>1, <1>4, <1>8, <1>10, <1>11 DEF MemoryInv, TypeOK

\* The publication: the gate has the attempt on the ledger.
LEMMA WidenKeeps ==
  ASSUME MemoryInv, NEW c \in calls, Widen(c)
  PROVE  MemoryInv'
  <1> DEFINE d == [c EXCEPT !.pc = "row"]
             row == Row("publication_landed", c.plane, c.ref)
  <1>1. /\ d \in Calls /\ Continue(c, d) /\ UNCHANGED <<plane, working, rows, lost>>
        /\ c.pc = "gate" /\ Threshold /\ store' = [store EXCEPT ![c.ref].rights = "registry_visible"]
    BY CallIs, CallUpdates DEF Widen, GatesMayPass
  <1>2. /\ c.op = "publish" /\ c.ref \in Contribs /\ c.ref \in Contributions(c.plane)
        /\ store[c.ref] # None /\ store[c.ref].plane = c.plane
        /\ Row("publication_attempted", c.plane, c.ref) \in rows
    BY <1>1, CallIs DEF CallOK, Contributions
  <1>3. d.pc = "row" /\ d.op = "publish" /\ d.plane = c.plane /\ d.ref = c.ref
    BY <1>2, CallIs DEF Calls
  <1>4. OwedBy(d) = row
    BY <1>3, OwedIs
  <1> HIDE DEF d, row
  <1> DEFINE new == store'[c.ref]
  <1>5. /\ new.plane = c.plane /\ new.rights = "registry_visible" /\ new # None
        /\ new \in Documents
        /\ \A y \in Contribs : y # c.ref => store'[y] = store[y]
        /\ store' \in [Contribs -> Documents \cup {None}]
    <2>1. store[c.ref] \in Documents
      BY <1>2 DEF MemoryInv, TypeOK
    <2> DEFINE doc == [store[c.ref] EXCEPT !.rights = "registry_visible"]
    <2>2. store' = [store EXCEPT ![c.ref] = doc]
      BY <1>1
    <2>3. doc \in Documents /\ doc.plane = c.plane
          /\ doc.rights = "registry_visible"
      BY <1>2, <2>1 DEF Documents
    <2> HIDE DEF doc
    <2>4. new = doc
      BY <1>2, <2>2 DEF MemoryInv, TypeOK
    <2>5. doc # None
      BY <2>3, MemoryAssumption
    <2> QED
      BY <1>2, <2>2, <2>3, <2>4, <2>5 DEF MemoryInv, TypeOK
  <1> HIDE DEF new
  <1>6. /\ \A p \in Planes : Contributions(p)' = Contributions(p)
        /\ \A y \in Contribs : Visible(y)' <=> Visible(y) \/ y = c.ref
    BY <1>2, <1>5 DEF Contributions, Visible, new
  <1>7. Grown
    BY <1>1, <1>6 DEF Grown
  <1>8. CallOK(d)'
    BY <1>1, <1>2, <1>3, CallIs DEF CallOK
  <1>9. calls' \subseteq Calls /\ CallsOK'
    BY <1>1, <1>7, <1>8, CallsKept DEF Continue
  <1>10. \A r : r \in Told' <=> r \in Told \/ r = row
    <2>1. (\A y \in calls \ calls' : y.pc # "row") /\ d \in calls' /\ (\A y \in calls' \ calls : y = d)
      BY <1>1 DEF Continue
    <2> QED
      BY <1>1, <1>3, <1>4, <2>1, NowOwed
  <1>11. ToldOK'
    <2>1. \A r \in Told' : plane[r.plane] # "absent"
      <3>1. row.plane = c.plane /\ plane[c.plane] # "absent"
        BY CallIs DEF row, Row, CallOK
      <3>2. \A r \in Told : plane[r.plane] # "absent"
        BY DEF MemoryInv, ToldOK
      <3> QED
        BY <1>10, <3>1, <3>2
    <2>2. \A p \in Planes : Row("revoked", p, None) # row
      BY DEF Row, row
    <2>3. \A p \in Planes, y \in Contribs :
            /\ Row("contribution_landed", p, y) # row
            /\ Row("publication_landed", p, y) = row <=> y = c.ref /\ p = c.plane
      BY DEF Row, row
    <2>4. \A p \in Planes : c.ref \in Contributions(p) => p = c.plane
      BY <1>2 DEF Contributions
    <2> QED
      BY <1>1, <1>2, <1>6, <1>10, <2>1, <2>2, <2>3, <2>4, CallIs DEF MemoryInv, ToldOK
  <1>12. PublishedByCeremony'
    BY <1>1, <1>2, <1>5 DEF MemoryInv, PublishedByCeremony, new
  <1> QED
    BY <1>1, <1>5, <1>9, <1>11, <1>12 DEF MemoryInv, TypeOK

LEMMA RevokeKeeps ==
  ASSUME MemoryInv, NEW c \in calls, RevokeWrite(c)
  PROVE  MemoryInv'
  <1> DEFINE d == [c EXCEPT !.pc = "row"]
             row == Row("revoked", c.plane, None)
  <1>1. /\ d \in Calls /\ Continue(c, d) /\ UNCHANGED <<store, working, rows, lost>>
        /\ c.pc = "write" /\ c.op = "revoke" /\ plane' = [plane EXCEPT ![c.plane] = "revoked"]
    BY CallIs, CallUpdates DEF RevokeWrite
  <1>2. d.pc = "row" /\ d.op = "revoke" /\ d.plane = c.plane /\ d.ref = None
    BY <1>1, CallIs DEF Calls, CallOK
  <1>3. OwedBy(d) = row
    BY <1>2, OwedIs
  <1> HIDE DEF d, row
  <1>4. plane'[c.plane] = "revoked" /\ \A p \in Planes : p # c.plane => plane'[p] = plane[p]
    BY <1>1, CallIs DEF MemoryInv, TypeOK
  <1>5. Grown /\ (\A p \in Planes : Contributions(p)' = Contributions(p)) /\ (\A y \in Contribs : Visible(y)' = Visible(y))
    BY <1>1, <1>4 DEF Grown, Contributions, Visible
  <1>6. CallOK(d)'
    BY <1>1, <1>2, <1>4, CallIs DEF CallOK
  <1>7. calls' \subseteq Calls /\ CallsOK'
    BY <1>1, <1>5, <1>6, CallsKept DEF Continue
  <1>8. \A r : r \in Told' <=> r \in Told \/ r = row
    <2>1. (\A y \in calls \ calls' : y.pc # "row") /\ d \in calls' /\ (\A y \in calls' \ calls : y = d)
      BY <1>1 DEF Continue
    <2> QED
      BY <1>1, <1>2, <1>3, <2>1, NowOwed
  <1>9. ToldOK'
    <2>1. \A r \in Told : r.plane \in Planes
      <3>1. \A y \in calls : y.pc = "row" => OwedBy(y) \in Rows
        BY OwedTyped DEF MemoryInv, TypeOK, CallsOK
      <3> QED
        BY <3>1 DEF Told, Owed, MemoryInv, TypeOK, Rows
    <2>2. \A r \in Told' : plane'[r.plane] # "absent"
      BY <1>4, <1>8, <2>1, CallIs DEF MemoryInv, ToldOK, row, Row
    <2>3. \A p \in Planes : Row("revoked", p, None) = row <=> p = c.plane
      BY DEF Row, row
    <2>4. \A p \in Planes, y \in Contribs :
            Row("contribution_landed", p, y) # row /\ Row("publication_landed", p, y) # row
      BY DEF Row, row
    <2> QED
      BY <1>4, <1>5, <1>8, <2>2, <2>3, <2>4 DEF MemoryInv, ToldOK
  <1>10. PublishedByCeremony'
    BY <1>1 DEF MemoryInv, PublishedByCeremony
  <1>11. plane' \in [Planes -> {"absent", "active", "revoked"}]
    BY <1>1 DEF MemoryInv, TypeOK
  <1> QED
    BY <1>1, <1>7, <1>9, <1>10, <1>11 DEF MemoryInv, TypeOK

--------------------------------------------------------------------------------
(* The theorems.                                                               *)

LEMMA MemoryInitInv == Init => MemoryInv
  <1> SUFFICES ASSUME Init PROVE MemoryInv
    OBVIOUS
  <1>1. TypeOK /\ CallsOK /\ PublishedByCeremony
    BY DEF Init, TypeOK, CallsOK, PublishedByCeremony
  <1>2. Told = {} /\ \A p \in Planes : Contributions(p) = {}
    BY DEF Init, Told, Owed, Contributions
  <1>3. ToldOK
    BY <1>2 DEF Init, ToldOK
  <1> QED
    BY <1>1, <1>3 DEF MemoryInv

LEMMA ArriveKeeps ==
  ASSUME MemoryInv, NEW h \in Handlers, NEW p \in Planes, Arrive(h, p)
  PROVE  MemoryInv'
  <1>1. CASE Issue(h, p)
    BY <1>1, IssueKeeps
  <1>2. ASSUME NEW op \in {"contribute", "revoke", "evict"}, Enter(h, op, p, None) PROVE MemoryInv'
    BY <1>2, EnterKeeps DEF Ops
  <1>3. ASSUME NEW x \in Contribs, Enter(h, "publish", p, x) PROVE MemoryInv'
    BY <1>3, EnterKeeps DEF Ops
  <1>4. ASSUME NEW r \in Refs, Enter(h, "use", p, r) PROVE MemoryInv'
    BY <1>4, EnterKeeps DEF Ops
  <1> QED
    BY <1>1, <1>2, <1>3, <1>4 DEF Arrive

LEMMA StepKeeps ==
  ASSUME MemoryInv, NEW c \in calls, Step(c)
  PROVE  MemoryInv'
  <1>1. CASE WriteRow(c)
    BY <1>1, OwedStep DEF WriteRow, End
  <1>2. CASE Die(c) /\ c.pc = "row"
    BY <1>2, OwedStep DEF Die, End
  <1>3. CASE Mint(c) \/ Fetch(c) \/ Attempt(c) \/ RevokeRead(c)
    BY <1>3, MintKeeps, FetchKeeps, AttemptKeeps, RevokeReadKeeps
  <1>4. CASE Frozen(c) \/ RefuseContribution(c) \/ RefusePublication(c) \/ (Die(c) /\ c.pc # "row")
    BY <1>4, EndsKeep
  <1>5. CASE (\E x \in Contribs : InsertContribution(c, x)) \/ Widen(c) \/ RevokeWrite(c)
    BY <1>5, InsertKeeps, WidenKeeps, RevokeKeeps
  <1>6. CASE RecordUse(c) \/ (\E d \in SUBSET Refs : EvictList(c, d)) \/ (\E r \in Refs : EvictOne(c, r))
    BY <1>6, WorkingKeeps
  <1> QED
    BY <1>1, <1>2, <1>3, <1>4, <1>5, <1>6 DEF Step

LEMMA MemoryStutterInv == MemoryInv /\ UNCHANGED vars => MemoryInv'
  <1> SUFFICES ASSUME MemoryInv, UNCHANGED vars PROVE MemoryInv'
    OBVIOUS
  <1>1. calls' = calls /\ rows' = rows /\ lost' = lost /\ UNCHANGED documents
    BY DEF vars, documents
  <1>2. working' \in [Planes -> SUBSET Refs]
    BY <1>1 DEF documents, MemoryInv, TypeOK
  <1> QED
    BY <1>1, <1>2, QuietStep DEF documents

THEOREM MemoryInductive == Spec => []MemoryInv
  <1>1. MemoryInv /\ [Next]_vars => MemoryInv'
    BY ArriveKeeps, StepKeeps, MemoryStutterInv DEF Next
  <1> QED
    BY <1>1, MemoryInitInv, PTL DEF Spec

\* Every variable of the memory service keeps its type.
THEOREM MemoryTypeCorrect == Spec => []TypeOK
  BY MemoryInductive, PTL DEF MemoryInv

LEMMA RebuiltByRow == MemoryInv => LedgerRebuilds
  <1> SUFFICES ASSUME MemoryInv, NEW p \in Planes
               PROVE  IF plane[p] = "absent" THEN \A r \in Told : r.plane # p
                      ELSE Rebuilt(p, Told) = Documented(p)
    BY DEF LedgerRebuilds, Told
  <1>1. CASE plane[p] = "absent"
    BY <1>1 DEF MemoryInv, ToldOK
  <1>2. CASE plane[p] # "absent"
    <2>1. (IF Row("revoked", p, None) \in Told THEN "revoked" ELSE "active") = plane[p]
      BY <1>2 DEF MemoryInv, ToldOK, TypeOK
    <2>2. {x \in Contribs : Row("contribution_landed", p, x) \in Told} = Contributions(p)
      BY DEF MemoryInv, ToldOK, Contributions
    <2>3. {x \in Contribs : Row("publication_landed", p, x) \in Told}
            = {x \in Contributions(p) : store[x].rights = "registry_visible"}
      BY DEF MemoryInv, ToldOK, Contributions, Visible
    <2> QED
      BY <1>2, <2>1, <2>2, <2>3 DEF Rebuilt, Documented
  <1> QED
    BY <1>1, <1>2

\* "Plane state is ledger-reconstructible" (rebuild_state): what the rows written and the
\* rows owed say of a plane is its state, its contributions and the published ones.
THEOREM LedgerRebuildsHolds == Spec => []LedgerRebuilds
  BY MemoryInductive, RebuiltByRow, PTL

\* attempt_publication: what the Registry shows has an attempt on the ledger.
THEOREM PublishedByCeremonyHolds == Spec => []PublishedByCeremony
  BY MemoryInductive, PTL DEF MemoryInv

--------------------------------------------------------------------------------
(* A revoked plane.                                                            *)

StaysFrozen(p) ==
  /\ plane'[p] = "revoked" /\ Minted(p)' \subseteq Minted(p)
  /\ OfPlane(p)' # OfPlane(p) =>
       \E c \in calls : c \notin calls' /\ c.plane = p /\ c.seen = "active"

LEMMA MintedShrinks ==
  ASSUME NEW p,
         \A d \in calls' \ calls : d.plane = p /\ d.seen = "active" =>
           \E c \in calls : c.by = d.by /\ c.plane = p /\ c.seen = "active"
  PROVE  Minted(p)' \subseteq Minted(p)
  BY DEF Minted

LEMMA ArriveFrozen ==
  ASSUME MemoryInv, NEW h \in Handlers, NEW q \in Planes, Arrive(h, q),
         NEW p \in Planes, plane[p] = "revoked"
  PROVE  StaysFrozen(p)
  <1>1. \A d \in calls' \ calls : d.seen = "unread"
    BY DEF Arrive, Issue, Enter, Start
  <1>2. store' = store /\ working' = working /\ plane'[p] = plane[p]
    <2>1. CASE Issue(h, q)
      BY <2>1 DEF Issue, MemoryInv, TypeOK
    <2>2. CASE UNCHANGED documents
      BY <2>2 DEF documents
    <2> QED
      BY <2>1, <2>2 DEF Arrive, Enter
  <1>3. OfPlane(p)' = OfPlane(p)
    BY <1>2 DEF OfPlane, Documented, Contributions
  <1> QED
    BY <1>1, <1>2, <1>3, MintedShrinks DEF StaysFrozen

\* Only a mint makes an accessor, with the state the plane has by then.
LEMMA SuccessorSeen ==
  ASSUME MemoryInv, NEW c \in calls, Step(c), NEW p \in Planes, plane[p] = "revoked",
         NEW d \in calls' \ calls, d.plane = p, d.seen = "active"
  PROVE  d.by = c.by /\ c.plane = p /\ c.seen = "active"
  <1> c \in Calls
    BY CallIs
  <1>1. CASE Mint(c)
    BY <1>1 DEF Mint, StateAtMint, Continue, Calls
  <1>2. CASE End(c)
    BY <1>2 DEF End
  <1>3. ASSUME NEW e, Continue(c, e), e.by = c.by, e.plane = c.plane, e.seen = c.seen
        PROVE  d.by = c.by /\ c.plane = p /\ c.seen = "active"
    BY <1>3 DEF Continue
  <1>4. ASSUME NEW x \in Contribs, InsertContribution(c, x)
        PROVE  d.by = c.by /\ c.plane = p /\ c.seen = "active"
    BY <1>3, <1>4 DEF InsertContribution, Calls
  <1>5. CASE Fetch(c) \/ Attempt(c) \/ Widen(c) \/ RevokeRead(c) \/ RevokeWrite(c)
    <2>1. \A pc : LET e == [c EXCEPT !.pc = pc]
                  IN e.by = c.by /\ e.plane = c.plane /\ e.seen = c.seen
      BY DEF Calls
    <2> QED
      BY <1>2, <1>3, <1>5, <2>1 DEF Fetch, Attempt, Widen, RevokeRead, RevokeWrite
  <1>6. ASSUME NEW gone \in SUBSET Refs, EvictList(c, gone)
        PROVE  d.by = c.by /\ c.plane = p /\ c.seen = "active"
    BY <1>3, <1>6 DEF EvictList, Calls
  <1>7. ASSUME NEW r \in Refs, EvictOne(c, r)
        PROVE  d.by = c.by /\ c.plane = p /\ c.seen = "active"
    BY <1>2, <1>3, <1>7 DEF EvictOne, Calls
  <1> QED
    BY <1>1, <1>2, <1>4, <1>5, <1>6, <1>7
       DEF Step, Frozen, RefuseContribution, RefusePublication, WriteRow, Die, RecordUse

\* A write is the doing of a call that goes on from its accessor's copy of the state.
LEMMA ReplacedCall ==
  ASSUME NEW c \in calls, NEW d, d # c, Continue(c, d) \/ End(c)
  PROVE  c \notin calls'
  BY DEF Continue, End

LEMMA StepWrites ==
  ASSUME MemoryInv, NEW c \in calls, Step(c), NEW p \in Planes, plane[p] = "revoked"
  PROVE  /\ plane'[p] = "revoked"
         /\ OfPlane(p)' # OfPlane(p) => c \notin calls' /\ c.plane = p /\ c.seen = "active"
  <1> DEFINE Goal == /\ plane'[p] = "revoked"
                     /\ OfPlane(p)' # OfPlane(p) => c \notin calls' /\ c.plane = p /\ c.seen = "active"
  <1> c \in Calls /\ CallOK(c)
    BY CallIs
  <1>0. plane' = plane /\ Contributions(p)' = Contributions(p)
        /\ (\A x \in Contributions(p) : store'[x].rights = store[x].rights) /\ working'[p] = working[p]
          => OfPlane(p)' = OfPlane(p)
    BY DEF OfPlane, Documented
  <1>1. CASE UNCHANGED documents
    BY <1>0, <1>1 DEF documents, Contributions
  <1>2. ASSUME NEW x \in Contribs, InsertContribution(c, x) PROVE Goal
    <2>1. /\ c.seen = "active" /\ c.pc = "write" /\ store[x] = None /\ plane' = plane /\ working' = working
          /\ store' = [store EXCEPT ![x] = [plane |-> c.plane, rights |-> "internal_only"]]
      BY <1>2 DEF InsertContribution, Active
    <2>2. c \notin calls'
      BY <1>2, <2>1, ReplacedCall DEF InsertContribution, Calls
    <2>3. c.plane # p => Contributions(p)' = Contributions(p)
             /\ \A y \in Contributions(p) : store'[y].rights = store[y].rights
      BY <2>1 DEF Contributions, MemoryInv, TypeOK
    <2> QED
      BY <1>0, <2>1, <2>2, <2>3
  <1>3. CASE Widen(c)
    <2>1. /\ c.seen = "active" /\ c.pc = "gate" /\ c.ref \in Contributions(c.plane) /\ plane' = plane
          /\ working' = working /\ store' = [store EXCEPT ![c.ref].rights = "registry_visible"]
      BY <1>3 DEF Widen, CallOK
    <2>2. c \notin calls'
      BY <1>3, <2>1, ReplacedCall DEF Widen, Calls
    <2>3. c.plane # p => \A y \in Contribs : y = c.ref \/ store'[y] = store[y]
      BY <2>1 DEF MemoryInv, TypeOK
    <2>4. c.plane # p => c.ref \notin Contributions(p) /\ c.ref \notin Contributions(p)'
      <3>1. store[c.ref] # None /\ store[c.ref].plane = c.plane /\ c.ref \in Contribs
        BY <2>1 DEF Contributions
      <3>2. store'[c.ref].plane = store[c.ref].plane
        BY <2>1, <3>1, MemoryAssumption DEF MemoryInv, TypeOK, Documents
      <3> QED
        BY <3>1, <3>2 DEF Contributions
    <2>5. c.plane # p => Contributions(p)' = Contributions(p)
      BY <2>3, <2>4 DEF Contributions
    <2>6. c.plane # p => \A y \in Contributions(p) : store'[y].rights = store[y].rights
      BY <2>3, <2>4 DEF Contributions
    <2> QED
      BY <1>0, <2>1, <2>2, <2>5, <2>6
  <1>4. CASE RevokeWrite(c)
    <2>1. plane' = [plane EXCEPT ![c.plane] = "revoked"] /\ store' = store /\ working' = working
      BY <1>4 DEF RevokeWrite
    <2>2. plane' = plane \/ plane'[p] = plane[p]
      BY <2>1 DEF MemoryInv, TypeOK
    <2>3. plane'[p] = plane[p]
      BY <2>1 DEF MemoryInv, TypeOK
    <2> QED
      BY <2>1, <2>3 DEF OfPlane, Documented, Contributions
  <1>5. CASE RecordUse(c)
    <2>1. c.seen = "active" /\ c \notin calls' /\ plane' = plane /\ store' = store
          /\ working' = [working EXCEPT ![c.plane] = @ \cup {c.ref}]
      BY <1>5 DEF RecordUse, Active, End
    <2>2. c.plane # p => working'[p] = working[p]
      BY <2>1 DEF MemoryInv, TypeOK
    <2> QED
      BY <1>0, <2>1, <2>2 DEF Contributions
  <1>6. ASSUME NEW r \in Refs, EvictOne(c, r) PROVE Goal
    <2>1. c.seen = "active" /\ r \in c.doomed /\ plane' = plane /\ store' = store
          /\ working' = [working EXCEPT ![c.plane] = @ \ {r}]
      BY <1>6 DEF EvictOne, CallOK
    <2>2. c \notin calls'
      <3> DEFINE d == [c EXCEPT !.doomed = @ \ {r}]
      <3>1. d.doomed = c.doomed \ {r}
        BY DEF Calls
      <3>2. d # c
        BY <2>1, <3>1
      <3>3. Continue(c, d) \/ End(c)
        BY <1>6 DEF EvictOne
      <3> QED
        BY <3>2, <3>3, ReplacedCall
    <2>3. c.plane # p => working'[p] = working[p]
      BY <2>1 DEF MemoryInv, TypeOK
    <2> QED
      BY <1>0, <2>1, <2>2, <2>3 DEF Contributions
  <1> QED
    BY <1>1, <1>2, <1>3, <1>4, <1>5, <1>6
       DEF Step, Mint, Frozen, RefuseContribution, Fetch, Attempt, RefusePublication, RevokeRead,
           WriteRow, Die, EvictList

\* "Revocation freezes", as far as the code keeps it: a revoked plane stays revoked, no
\* accessor is minted any more that counts it as active, and only the calls that had one
\* by then still change anything in it.
THEOREM FrozenUnlessMintedHolds == Spec => FrozenUnlessMinted
  <1>1. MemoryInv /\ [Next]_vars =>
          [\A p \in Planes : plane[p] = "revoked" => StaysFrozen(p)]_vars
    <2> SUFFICES ASSUME MemoryInv, Next, NEW p \in Planes, plane[p] = "revoked" PROVE StaysFrozen(p)
      OBVIOUS
    <2>1. ASSUME NEW h \in Handlers, NEW q \in Planes, Arrive(h, q) PROVE StaysFrozen(p)
      BY <2>1, ArriveFrozen
    <2>2. ASSUME NEW c \in calls, Step(c) PROVE StaysFrozen(p)
      BY <2>2, SuccessorSeen, StepWrites, MintedShrinks DEF StaysFrozen
    <2> QED
      BY <2>1, <2>2 DEF Next
  <1> QED
    BY <1>1, MemoryInductive, PTL DEF Spec, FrozenUnlessMinted, StaysFrozen
================================================================================
