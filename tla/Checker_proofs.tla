---------------------------- MODULE Checker_proofs ----------------------------
(***************************************************************************)
(* Dual control and the delay hold for any number of concurrent calls,     *)
(* identities, changes and documents, although calls overwrite each other. *)
(***************************************************************************)
EXTENDS Checker, TLAPS

\* What a call knows between its load and its last await.
CallsOK ==
  \A c \in calls :
    /\ c.op = "initiate" <=> c.pc \in {"fork", "insert"}
    /\ c.op \in {"initiate", "countersign"} => c.who \in People
    /\ c.pc \in {"insert", "persist"} => c.req.state \in Pending
    /\ c.pc = "persist" => docs[c.id] # <<>>
    /\ c.pc = "row" => c.op = "countersign"
    /\ c.op = "countersign" => c.id.change \in Dual /\ c.who # c.req.initiator
    /\ c.op \in {"object", "advance_delay"} => c.id.change \in Tightening
    /\ c.op = "advance_delay" => clock - c.req.since >= Delay

SweepOK == \A x \in sweep : docs[x[1]] # <<>>

IInv == TypeOK /\ CallsOK /\ SweepOK

------------------------------------------------------------------------------
(* Documents: what an insert, an overwrite and an update of one field do.  *)

LEMMA IdType ==
  /\ \A id \in Ids : id.change \in Changes /\ id.gen \in 0 .. MaxTime
  /\ \A change \in Changes : Base(change) \in Ids /\ Base(change).change = change
  /\ \A id \in Ids, gen \in 0 .. MaxTime :
       [id EXCEPT !.gen = gen] \in Ids /\ [id EXCEPT !.gen = gen].change = id.change
BY CheckerAssumption DEF Ids, Base

LEMMA FreshDocument ==
  ASSUME TypeOK, NEW change \in Changes, NEW p \in People
  PROVE  Initiated(change, p) \in Document /\ Initiated(change, p).state \in Pending
BY DEF TypeOK, Initiated, Document, States, Pending

LEMMA DocumentUpdates ==
  ASSUME NEW doc \in Document, NEW p \in People, NEW b \in BOOLEAN, NEW s \in States
  PROVE  /\ [doc EXCEPT !.state = s] \in Document
         /\ [doc EXCEPT !.team = b] \in Document
         /\ [doc EXCEPT !.objected = TRUE] \in Document
         /\ [doc EXCEPT !.state = "effective", !.checker = p] \in Document
BY DEF Document, States

LEMMA FirstIsDocument ==
  ASSUME TypeOK, NEW id \in Ids, docs[id] # <<>>
  PROVE  First(id) \in Document /\ First(id) \in Documents(id) /\ 1 \in DOMAIN docs[id]
BY DEF TypeOK, First, Documents

\* Writing the first document of one id.
LEMMA WriteFirst ==
  ASSUME TypeOK, NEW id \in Ids, docs[id] # <<>>, NEW new \in Document,
         docs' = [docs EXCEPT ![id][1] = new]
  PROVE  /\ docs' \in [Ids -> Seq(Document)]
         /\ \A i \in Ids : docs[i] # <<>> => docs'[i] # <<>>
         /\ First(id)' = new
         /\ \A i \in Ids : i # id => docs'[i] = docs[i]
         /\ \A i \in Ids : Documents(i)' \subseteq
              Documents(i) \cup (IF i = id THEN {new} ELSE {})
<1>1. docs[id] \in Seq(Document) /\ Len(docs[id]) > 0 /\ DOMAIN docs[id] = 1 .. Len(docs[id])
  BY DEF TypeOK
<1>2. docs'[id] = [docs[id] EXCEPT ![1] = new] /\ \A i \in Ids : i # id => docs'[i] = docs[i]
  BY DEF TypeOK
<1>3. /\ docs'[id] \in Seq(Document) /\ Len(docs'[id]) = Len(docs[id])
      /\ docs'[id][1] = new
      /\ \A k \in DOMAIN docs[id] : k # 1 => docs'[id][k] = docs[id][k]
  BY <1>1, <1>2
<1>4. docs' \in [Ids -> Seq(Document)]
  BY <1>2, <1>3 DEF TypeOK
<1>5. Documents(id)' \subseteq Documents(id) \cup {new}
  BY <1>1, <1>3 DEF Documents
<1>6. \A i \in Ids : docs[i] # <<>> => docs'[i] # <<>>
  BY <1>1, <1>2, <1>3
<1> QED
  BY <1>2, <1>3, <1>4, <1>5, <1>6 DEF Documents, First

\* Appending a document to one id.
LEMMA AppendDocument ==
  ASSUME TypeOK, NEW id \in Ids, NEW new \in Document,
         docs' = [docs EXCEPT ![id] = Append(@, new)]
  PROVE  /\ docs' \in [Ids -> Seq(Document)]
         /\ \A i \in Ids : docs[i] # <<>> => docs'[i] # <<>> /\ First(i)' = First(i)
         /\ \A i \in Ids : Documents(i)' \subseteq
              Documents(i) \cup (IF i = id THEN {new} ELSE {})
<1>1. docs[id] \in Seq(Document) /\ docs'[id] = Append(docs[id], new)
  BY DEF TypeOK
<1>2. /\ docs'[id] \in Seq(Document) /\ Len(docs'[id]) = Len(docs[id]) + 1
      /\ docs'[id][Len(docs[id]) + 1] = new
      /\ \A k \in 1 .. Len(docs[id]) : docs'[id][k] = docs[id][k]
  BY <1>1
<1>3. \A i \in Ids : i # id => docs'[i] = docs[i]
  BY DEF TypeOK
<1>4. Documents(id)' \subseteq Documents(id) \cup {new}
  BY <1>1, <1>2 DEF Documents
<1>5. docs[id] # <<>> => docs'[id] # <<>> /\ docs'[id][1] = docs[id][1]
  BY <1>1, <1>2
<1> QED
  BY <1>1, <1>2, <1>3, <1>4, <1>5 DEF Documents, First, TypeOK

------------------------------------------------------------------------------
(* Calls.                                                                  *)

CallOK(c) ==
  /\ c.op = "initiate" <=> c.pc \in {"fork", "insert"}
  /\ c.op \in {"initiate", "countersign"} => c.who \in People
  /\ c.pc \in {"insert", "persist"} => c.req.state \in Pending
  /\ c.pc = "row" => c.op = "countersign"
  /\ c.op = "countersign" => c.id.change \in Dual /\ c.who # c.req.initiator
  /\ c.op \in {"object", "advance_delay"} => c.id.change \in Tightening
  /\ c.op = "advance_delay" => clock - c.req.since >= Delay

LEMMA CallsOKDef == CallsOK <=> \A c \in calls : CallOK(c) /\ (c.pc = "persist" => docs[c.id] # <<>>)
BY DEF CallsOK, CallOK

\* What a call writes over the first document.
LEMMA DecidedDocument ==
  ASSUME IInv, NEW c \in calls, c.pc = "persist"
  PROVE  LET new == [Decided(c) EXCEPT !.team = First(c.id).team] IN
         /\ new \in Document
         /\ c.op = "countersign" =>
              new.state = "effective" /\ new.checker = c.who /\ new.initiator = c.req.initiator
         /\ c.op = "object" => new.state \in Pending
         /\ c.op = "advance_delay" => new.state = "effective" /\ new.since = c.req.since
         /\ c.op = "suspend" => new.state = "suspended"
         /\ c.op \in {"countersign", "object", "advance_delay", "suspend"}
<1>1. /\ c.req \in Document /\ c.op \in Ops /\ c.op # "initiate" /\ c.id \in Ids
      /\ c.req.state \in Pending /\ docs[c.id] # <<>>
      /\ c.op = "countersign" => c.who \in People
  BY DEF IInv, TypeOK, Calls, CallsOK
<1>2. First(c.id).team \in BOOLEAN
  BY <1>1, FirstIsDocument DEF IInv, Document
<1>3. ASSUME c.op = "countersign"
      PROVE  /\ Decided(c) \in Document /\ Decided(c).state = "effective"
             /\ Decided(c).checker = c.who /\ Decided(c).initiator = c.req.initiator
  <2>1. Decided(c) = [c.req EXCEPT !.state = "effective", !.checker = c.who]
    BY <1>3 DEF Decided
  <2> QED
    BY <1>1, <1>3, <2>1 DEF Document, States
<1>5. ASSUME c.op = "object"
      PROVE  Decided(c) \in Document /\ Decided(c).state \in Pending
  <2>1. Decided(c) = [c.req EXCEPT !.objected = TRUE]
    BY <1>5 DEF Decided
  <2> QED
    BY <1>1, <2>1 DEF Document
<1>6. ASSUME c.op = "advance_delay"
      PROVE  /\ Decided(c) \in Document /\ Decided(c).state = "effective"
             /\ Decided(c).since = c.req.since
  <2>1. Decided(c) = [c.req EXCEPT !.state = "effective"]
    BY <1>6 DEF Decided
  <2> QED
    BY <1>1, <2>1 DEF Document, States
<1>7. ASSUME c.op = "suspend"
      PROVE  Decided(c) \in Document /\ Decided(c).state = "suspended"
  <2>1. Decided(c) = [c.req EXCEPT !.state = "suspended"]
    BY <1>7 DEF Decided
  <2> QED
    BY <1>1, <2>1 DEF Document, States
<1>4. Decided(c) \in Document /\ c.op \in {"countersign", "object", "advance_delay", "suspend"}
  BY <1>1, <1>3, <1>5, <1>6, <1>7 DEF Ops
<1> QED
  BY <1>2, <1>3, <1>4, <1>5, <1>6, <1>7 DEF Document

\* A new call carries the document it loaded.
LEMMA Started ==
  ASSUME TypeOK, NEW h \in Handlers, NEW op \in Ops, NEW pc \in {"fork", "persist"},
         NEW id \in Ids, NEW p \in People \cup {Nobody}, NEW req \in Document,
         Start(h, op, pc, id, p, req)
  PROVE  \E d \in Calls : /\ calls' = calls \cup {d}
                          /\ d.op = op /\ d.pc = pc /\ d.id = id /\ d.who = p /\ d.req = req
<1> DEFINE d == [by |-> h, op |-> op, pc |-> pc, id |-> id, who |-> p, req |-> req]
<1>1. d \in Calls
  BY DEF Calls
<1> QED
  BY <1>1 DEF Start

LEMMA Moved ==
  ASSUME TypeOK, NEW c \in calls, NEW pc \in {"fork", "insert", "persist", "row"}, Goto(c, pc)
  PROVE  \E d \in Calls : /\ calls' = (calls \ {c}) \cup {d}
                          /\ d.op = c.op /\ d.pc = pc /\ d.id = c.id /\ d.who = c.who /\ d.req = c.req
<1> DEFINE d == [c EXCEPT !.pc = pc]
<1>1. d \in Calls /\ d.op = c.op /\ d.pc = pc /\ d.id = c.id /\ d.who = c.who /\ d.req = c.req
  BY DEF TypeOK, Calls
<1> QED
  BY <1>1 DEF Goto

LEMMA CallsKept ==
  ASSUME IInv, clock' = clock, \A i \in Ids : docs[i] # <<>> => docs'[i] # <<>>,
         \A d \in calls' : \/ d \in calls
                           \/ d \in Calls /\ CallOK(d) /\ (d.pc = "persist" => docs[d.id] # <<>>)
  PROVE  calls' \subseteq Calls /\ CallsOK'
<1>1. calls \subseteq Calls /\ \A d \in calls : CallOK(d) /\ (d.pc = "persist" => docs[d.id] # <<>>)
  BY CallsOKDef DEF IInv, TypeOK
<1>2. \A d \in calls' : d \in Calls /\ CallOK(d) /\ (d.pc = "persist" => docs[d.id] # <<>>)
  BY <1>1
<1>3. \A d \in Calls : d.id \in Ids
  BY DEF Calls
<1>4. \A d \in calls' : d.pc = "persist" => docs'[d.id] # <<>>
  BY <1>2, <1>3
<1>5. CallsOK' <=> \A d \in calls' : CallOK(d)' /\ (d.pc = "persist" => docs'[d.id] # <<>>)
  BY DEF CallsOK, CallOK
<1>6. \A d \in calls' : CallOK(d)'
  BY <1>2 DEF CallOK
<1> QED
  BY <1>2, <1>4, <1>5, <1>6

------------------------------------------------------------------------------
(* The invariant is inductive.                                             *)

LEMMA ArriveKeeps ==
  ASSUME IInv, NEW h \in Handlers, Arrive(h)
  PROVE  IInv' /\ UNCHANGED <<docs, sweep, ledger, unlogged, clock>> /\ calls \subseteq calls'
<1>t. TypeOK
  BY DEF IInv
<1>1. /\ UNCHANGED <<docs, sweep, ledger, unlogged, clock>>
      /\ \E d \in Calls : /\ calls' = calls \cup {d} /\ CallOK(d)
                          /\ d.pc = "persist" => docs[d.id] # <<>>
  <2>1. ASSUME NEW change \in Changes, NEW p \in People, Initiate(h, change, p)
        PROVE  \E d \in Calls : /\ calls' = calls \cup {d} /\ CallOK(d)
                                /\ d.pc = "persist" => docs[d.id] # <<>>
    <3>1. PICK d \in Calls : /\ calls' = calls \cup {d} /\ d.op = "initiate" /\ d.pc = "fork"
                             /\ d.who = p /\ d.req = Initiated(change, p)
      BY <1>t, <2>1, IdType, FreshDocument, Started DEF Initiate, Ops
    <3> QED
      BY <3>1 DEF CallOK
  <2>2. ASSUME NEW id \in Ids, NEW p \in People, Countersign(h, id, p)
        PROVE  \E d \in Calls : /\ calls' = calls \cup {d} /\ CallOK(d)
                                /\ d.pc = "persist" => docs[d.id] # <<>>
    <3>1. PICK d \in Calls : /\ calls' = calls \cup {d} /\ d.op = "countersign" /\ d.pc = "persist"
                             /\ d.id = id /\ d.who = p /\ d.req = First(id)
      BY <1>t, <2>2, FirstIsDocument, Started DEF Countersign, Loadable, Load, Ops
    <3> QED
      BY <2>2, <3>1 DEF CallOK, Countersign, Loadable, MayCountersign, Pending
  <2>3. ASSUME NEW id \in Ids, Object(h, id) \/ Suspend(h, id) \/ AdvanceDelay(h, id)
        PROVE  \E d \in Calls : /\ calls' = calls \cup {d} /\ CallOK(d)
                                /\ d.pc = "persist" => docs[d.id] # <<>>
    <3>1. PICK op \in {"object", "suspend", "advance_delay"} :
            /\ Load(h, op, id, Nobody) /\ Loadable(id) /\ First(id).state \in Pending
            /\ op # "suspend" => id.change \in Tightening
            /\ op = "advance_delay" => clock - First(id).since >= Delay
      BY <2>3 DEF Object, Suspend, AdvanceDelay, MayObject, MaySuspend, Elapsed, Pending
    <3>2. PICK d \in Calls : /\ calls' = calls \cup {d} /\ d.op = op /\ d.pc = "persist"
                             /\ d.id = id /\ d.who = Nobody /\ d.req = First(id)
      BY <1>t, <3>1, FirstIsDocument, Started DEF Loadable, Load, Ops
    <3> QED
      BY <3>1, <3>2 DEF CallOK, Loadable
  <2>4. UNCHANGED <<docs, sweep, ledger, unlogged, clock>>
    BY DEF Arrive, Initiate, Countersign, Object, Suspend, AdvanceDelay, Load
  <2> QED
    BY <2>1, <2>2, <2>3, <2>4 DEF Arrive
<1>2. calls' \subseteq Calls /\ CallsOK'
  BY <1>1, CallsKept
<1> QED
  BY <1>t, <1>1, <1>2 DEF IInv, TypeOK, SweepOK

\* What one step of a call does to the documents.
LEMMA StepWrites ==
  ASSUME IInv, NEW c \in calls, Step(c)
  PROVE  /\ docs' \in [Ids -> Seq(Document)]
         /\ \A i \in Ids : docs[i] # <<>> => docs'[i] # <<>>
         /\ \A i \in Ids : \A doc \in Documents(i)' :
              \/ doc \in Documents(i)
              \/ c.pc = "insert" /\ i = c.id /\ doc.state \in Pending
              \/ /\ c.pc = "persist" /\ i = c.id
                 /\ doc = [Decided(c) EXCEPT !.team = First(c.id).team]
<1>t. TypeOK /\ c \in Calls /\ c.id \in Ids /\ c.req \in Document
  BY DEF IInv, TypeOK, Calls
<1>1. CASE Insert(c)
  BY <1>t, <1>1, AppendDocument DEF Insert, IInv, CallsOK
<1>2. CASE Persist(c)
  <2> DEFINE new == [Decided(c) EXCEPT !.team = First(c.id).team]
  <2>1. c.pc = "persist" /\ docs[c.id] # <<>> /\ docs' = [docs EXCEPT ![c.id][1] = new]
    BY <1>2 DEF Persist, IInv, CallsOK
  <2>2. new \in Document
    BY <2>1, DecidedDocument
  <2> HIDE DEF new
  <2>3. /\ docs' \in [Ids -> Seq(Document)]
        /\ \A i \in Ids : docs[i] # <<>> => docs'[i] # <<>>
        /\ \A i \in Ids : Documents(i)' \subseteq Documents(i) \cup (IF i = c.id THEN {new} ELSE {})
    BY <1>t, <2>1, <2>2, WriteFirst
  <2> QED
    BY <2>1, <2>3 DEF new
<1>3. CASE Fork(c) \/ WriteRow(c) \/ Fail(c)
  BY <1>t, <1>3 DEF Fork, WriteRow, Fail, TypeOK, Documents
<1> QED
  BY <1>1, <1>2, <1>3 DEF Step

LEMMA StepKeeps ==
  ASSUME IInv, NEW c \in calls, Step(c)
  PROVE  IInv'
<1>t. TypeOK /\ c \in Calls /\ c.id \in Ids /\ CallOK(c)
  BY CallsOKDef DEF IInv, TypeOK, Calls
<1>1. /\ UNCHANGED <<sweep, clock>> /\ ledger' \subseteq Rows /\ unlogged' \subseteq Rows
  <2>1. RowOf(c) \in Rows
    BY <1>t DEF RowOf, Rows, Calls
  <2> QED
    BY <1>t, <2>1 DEF Step, Fork, Insert, Persist, WriteRow, Fail, TypeOK
<1>2. \A d \in calls' : \/ d \in calls
                        \/ d \in Calls /\ CallOK(d) /\ (d.pc = "persist" => docs[d.id] # <<>>)
  <2>1. CASE Fork(c)
    <3> DEFINE id == [c.id EXCEPT !.gen = IF docs[c.id] = <<>> THEN 0 ELSE clock]
               req == Initiated(c.id.change, c.who)
               d == [c EXCEPT !.pc = "insert", !.id = id, !.req = req]
    <3>1. c.op = "initiate" /\ c.who \in People /\ c.id.change \in Changes
      BY <1>t, <2>1, IdType DEF Fork, CallOK
    <3>2. id \in Ids
      <4>1. (IF docs[c.id] = <<>> THEN 0 ELSE clock) \in 0 .. MaxTime
        BY <1>t, CheckerAssumption DEF TypeOK
      <4> QED
        BY <1>t, <4>1, IdType
    <3>3. req \in Document /\ req.state \in Pending
      BY <1>t, <3>1, FreshDocument
    <3>4. calls' = (calls \ {c}) \cup {d}
      BY <2>1 DEF Fork
    <3> HIDE DEF id, req
    <3>5. d \in Calls /\ d.op = c.op /\ d.pc = "insert" /\ d.who = c.who /\ d.req = req
      BY <1>t, <3>2, <3>3 DEF Calls
    <3>6. CallOK(d)
      BY <3>1, <3>3, <3>5 DEF CallOK
    <3> QED
      BY <3>4, <3>5, <3>6
  <2>2. CASE c.pc = "persist" /\ c.op = "countersign" /\ Goto(c, "row")
    <3>1. PICK d \in Calls : /\ calls' = (calls \ {c}) \cup {d}
                             /\ d.op = c.op /\ d.pc = "row" /\ d.id = c.id /\ d.who = c.who
                             /\ d.req = c.req
      BY <1>t, <2>2, Moved
    <3> QED
      BY <1>t, <2>2, <3>1 DEF CallOK
  <2>3. CASE End(c)
    BY <2>3 DEF End
  <2> QED
    BY <2>1, <2>2, <2>3 DEF Step, Insert, Persist, WriteRow, Fail
<1>3. docs' \in [Ids -> Seq(Document)] /\ \A i \in Ids : docs[i] # <<>> => docs'[i] # <<>>
  BY StepWrites
<1>4. calls' \subseteq Calls /\ CallsOK'
  BY <1>1, <1>2, <1>3, CallsKept
<1>5. SweepOK'
  BY <1>1, <1>3 DEF SweepOK, IInv, TypeOK
<1> QED
  BY <1>1, <1>3, <1>4, <1>5 DEF IInv, TypeOK

\* Writers that do not load leave state, signer, initiator and start of a
\* document alone, or suspend it.
LEMMA OtherWrites ==
  ASSUME IInv, Void \/ (\E id \in Ids : TeamDecision(id))
  PROVE  /\ IInv' /\ UNCHANGED <<calls, ledger, unlogged, clock>>
         /\ \A i \in Ids : \A doc \in Documents(i)' :
              \/ doc.state = "suspended"
              \/ \E old \in Documents(i) :
                   /\ doc.state = old.state /\ doc.checker = old.checker
                   /\ doc.initiator = old.initiator /\ doc.since = old.since
<1>t. TypeOK /\ calls \subseteq Calls /\ SweepOK /\ CallsOK
  BY DEF IInv, TypeOK
<1>1. CASE VoidFind \/ VoidFail
  <2>1. sweep' \subseteq Ids \X (Nat \ {0}) /\ \A x \in sweep' : docs[x[1]] # <<>>
    BY <1>t, <1>1, CheckerAssumption DEF VoidFind, VoidFail, Stored, TypeOK
  <2>2. UNCHANGED <<docs, calls, ledger, unlogged, clock>>
    BY <1>1 DEF VoidFind, VoidFail
  <2> QED
    BY <1>t, <2>1, <2>2 DEF IInv, TypeOK, SweepOK, CallsOK, Documents
<1>2. ASSUME NEW id \in Ids, docs[id] # <<>>, NEW new \in Document,
             docs' = [docs EXCEPT ![id][1] = new], sweep' \subseteq sweep,
             UNCHANGED <<calls, ledger, unlogged, clock>>,
             \/ new.state = "suspended"
             \/ /\ new.state = First(id).state /\ new.checker = First(id).checker
                /\ new.initiator = First(id).initiator /\ new.since = First(id).since
      PROVE  /\ IInv'
             /\ \A i \in Ids : \A doc \in Documents(i)' :
                  \/ doc.state = "suspended"
                  \/ \E old \in Documents(i) :
                       /\ doc.state = old.state /\ doc.checker = old.checker
                       /\ doc.initiator = old.initiator /\ doc.since = old.since
  <2>1. /\ docs' \in [Ids -> Seq(Document)]
        /\ \A i \in Ids : docs[i] # <<>> => docs'[i] # <<>>
        /\ \A i \in Ids : Documents(i)' \subseteq Documents(i) \cup (IF i = id THEN {new} ELSE {})
    BY <1>t, <1>2, WriteFirst
  <2>2. First(id) \in Documents(id)
    BY <1>t, <1>2, FirstIsDocument
  <2>3. calls' \subseteq Calls /\ CallsOK'
    BY <1>2, <2>1, CallsKept
  <2>4. SweepOK'
    BY <1>t, <1>2, <2>1 DEF SweepOK, TypeOK
  <2>5. IInv'
    BY <1>t, <1>2, <2>1, <2>3, <2>4 DEF IInv, TypeOK
  <2> QED
    BY <1>2, <2>1, <2>2, <2>5
<1>3. ASSUME NEW x \in sweep, VoidUpdate(x)
      PROVE  \E id \in Ids, new \in Document :
               /\ docs[id] # <<>> /\ docs' = [docs EXCEPT ![id][1] = new] /\ sweep' \subseteq sweep
               /\ new.state = "suspended" /\ UNCHANGED <<calls, ledger, unlogged, clock>>
  <2> DEFINE id == x[1]
             new == [First(id) EXCEPT !.state = "suspended"]
  <2>1. id \in Ids /\ docs[id] # <<>>
    BY <1>t DEF TypeOK, SweepOK
  <2>2. First(id) \in Document
    BY <1>t, <2>1, FirstIsDocument
  <2>3. new \in Document /\ new.state = "suspended"
    BY <2>2 DEF Document, States
  <2>4. docs' = [docs EXCEPT ![id][1] = new]
    BY <1>3 DEF VoidUpdate, First
  <2> QED
    BY <1>3, <2>1, <2>3, <2>4 DEF VoidUpdate
<1>4. ASSUME NEW id \in Ids, TeamDecision(id)
      PROVE  \E new \in Document :
               /\ docs[id] # <<>> /\ docs' = [docs EXCEPT ![id][1] = new] /\ sweep' \subseteq sweep
               /\ new.state = First(id).state /\ new.checker = First(id).checker
               /\ new.initiator = First(id).initiator /\ new.since = First(id).since
               /\ UNCHANGED <<calls, ledger, unlogged, clock>>
  <2> DEFINE new == [First(id) EXCEPT !.team = TRUE]
  <2>1. docs[id] # <<>> /\ First(id) \in Document
    BY <1>t, <1>4, FirstIsDocument DEF TeamDecision
  <2>2. /\ new \in Document /\ new.state = First(id).state /\ new.checker = First(id).checker
        /\ new.initiator = First(id).initiator /\ new.since = First(id).since
    BY <2>1 DEF Document
  <2>3. docs' = [docs EXCEPT ![id][1] = new]
    BY <1>4 DEF TeamDecision, First
  <2> QED
    BY <1>4, <2>1, <2>2, <2>3 DEF TeamDecision
<1>5. UNCHANGED <<calls, ledger, unlogged, clock>>
  BY DEF Void, VoidFind, VoidUpdate, VoidFail, TeamDecision
<1>6. CASE \E x \in sweep : VoidUpdate(x)
  BY <1>2, <1>3, <1>5, <1>6
<1>7. CASE \E id \in Ids : TeamDecision(id)
  BY <1>2, <1>4, <1>5, <1>7
<1>8. CASE VoidFind \/ VoidFail
  BY <1>1, <1>5, <1>8 DEF Documents, VoidFind, VoidFail
<1> QED
  BY <1>5, <1>6, <1>7, <1>8 DEF Void

LEMMA TickKeeps ==
  ASSUME IInv, Tick
  PROVE  IInv' /\ UNCHANGED <<docs, calls, sweep, ledger, unlogged>> /\ clock' = clock + 1
<1>1. UNCHANGED <<docs, calls, sweep, ledger, unlogged>> /\ clock' = clock + 1
  BY DEF Tick
<1>2. clock' \in 0 .. MaxTime /\ clock \in 0 .. MaxTime
  BY CheckerAssumption DEF Tick, IInv, TypeOK
<1>3. \A c \in calls : c.req.since \in 0 .. MaxTime
  BY DEF IInv, TypeOK, Calls, Document
<1>4. \A c \in calls : c.op = "advance_delay" => clock' - c.req.since >= Delay
  BY <1>1, <1>2, <1>3, CheckerAssumption DEF IInv, CallsOK
<1> QED
  BY <1>1, <1>2, <1>4 DEF IInv, TypeOK, CallsOK, SweepOK

LEMMA InvNext ==
  ASSUME IInv, [Next]_vars
  PROVE  IInv'
<1>1. CASE UNCHANGED vars
  BY <1>1 DEF vars, IInv, TypeOK, CallsOK, SweepOK
<1> QED
  BY <1>1, ArriveKeeps, StepKeeps, OtherWrites, TickKeeps DEF Next

LEMMA Invariance == Spec => []IInv
<1>1. Init => IInv
  BY CheckerAssumption DEF Init, IInv, TypeOK, CallsOK, SweepOK
<1> QED
  BY <1>1, InvNext, PTL DEF Spec

\* Type correctness of the checker, for any number of concurrent calls.
THEOREM TypeCorrect == Spec => []TypeOK
BY Invariance, PTL DEF IInv

\* Every document of a step is an old one up to its team flag, a pending or a
\* suspended one, or what a countersign or an elapsed delay makes of its load.
LEMMA NewDocuments ==
  ASSUME IInv, [Next]_vars, NEW i \in Ids, NEW doc \in Documents(i)'
  PROVE  \/ doc.state \in Pending \cup {"suspended"}
         \/ \E old \in Documents(i) :
              /\ doc.state = old.state /\ doc.checker = old.checker
              /\ doc.initiator = old.initiator /\ doc.since = old.since
         \/ \E c \in calls :
              /\ c.pc = "persist" /\ Persist(c) /\ c.id = i /\ doc.state = "effective"
              /\ \/ c.op = "countersign" /\ doc.checker = c.who /\ doc.initiator = c.req.initiator
                 \/ c.op = "advance_delay" /\ doc.since = c.req.since
<1>1. CASE \E c \in calls : Step(c)
  <2>1. PICK c \in calls : Step(c)
    BY <1>1
  <2>2. CASE doc \in Documents(i)
    BY <2>2
  <2>3. CASE c.pc = "insert" /\ i = c.id /\ doc.state \in Pending
    BY <2>3
  <2>4. CASE /\ c.pc = "persist" /\ i = c.id
             /\ doc = [Decided(c) EXCEPT !.team = First(c.id).team]
    <3>1. CASE Fail(c)
      BY <3>1 DEF Fail, Documents
    <3>2. CASE Persist(c)
      BY <2>4, <3>2, DecidedDocument
    <3> QED
      BY <2>1, <2>4, <3>1, <3>2 DEF Step, Fork, Insert, WriteRow
  <2> QED
    BY <2>1, <2>2, <2>3, <2>4, StepWrites
<1>2. CASE Void \/ \E id \in Ids : TeamDecision(id)
  BY <1>2, OtherWrites
<1>3. CASE UNCHANGED docs
  BY <1>3 DEF Documents
<1> QED
  BY <1>1, <1>2, <1>3, ArriveKeeps, TickKeeps DEF Next, vars

------------------------------------------------------------------------------
(* Results.                                                                *)

\* Four eyes: however calls overlap and overwrite each other, an effective
\* dual-control change bears the signature of somebody other than its initiator.
THEOREM FourEyesHolds == Spec => []FourEyes
<1>1. Init => FourEyes
  BY DEF Init, FourEyes, Documents
<1>2. IInv /\ FourEyes /\ [Next]_vars => FourEyes'
  <2> SUFFICES ASSUME IInv, FourEyes, [Next]_vars, NEW i \in Ids, NEW doc \in Documents(i)',
                      i.change \in Dual, doc.state = "effective"
               PROVE  doc.checker \in People /\ doc.checker # doc.initiator
    BY DEF FourEyes
  <2>1. doc.state \notin Pending \cup {"suspended"}
    BY DEF Pending
  <2>2. CASE \E old \in Documents(i) :
               /\ doc.state = old.state /\ doc.checker = old.checker /\ doc.initiator = old.initiator
    BY <2>2 DEF FourEyes
  <2>3. ASSUME NEW c \in calls, c.pc = "persist", c.id = i, c.op = "countersign",
               doc.checker = c.who, doc.initiator = c.req.initiator
        PROVE  doc.checker \in People /\ doc.checker # doc.initiator
    BY <2>3 DEF IInv, CallsOK
  <2>4. ASSUME NEW c \in calls, c.op = "advance_delay", c.id = i PROVE FALSE
    BY <2>4, CheckerAssumption DEF IInv, CallsOK
  <2> QED
    BY <2>1, <2>2, <2>3, <2>4, NewDocuments
<1> QED
  BY <1>1, <1>2, Invariance, PTL DEF Spec

\* The delay: an effective tightening has waited its own full delay since its
\* own initiation, whatever objections and re-initiations came in between.
THEOREM WindowServedHolds == Spec => []WindowServed
<1>1. Init => WindowServed
  BY DEF Init, WindowServed, Documents
<1>2. IInv /\ WindowServed /\ [Next]_vars => WindowServed'
  <2> SUFFICES ASSUME IInv, WindowServed, [Next]_vars, NEW i \in Ids, NEW doc \in Documents(i)',
                      i.change \in Tightening, doc.state = "effective"
               PROVE  clock' - doc.since >= Delay
    BY DEF WindowServed
  <2>t. clock \in 0 .. MaxTime /\ clock' \in Nat /\ clock' >= clock
    <3>1. clock \in 0 .. MaxTime
      BY DEF IInv, TypeOK
    <3>2. clock' = clock \/ clock' = clock + 1
      BY TickKeeps, ArriveKeeps, OtherWrites
      DEF Next, vars, Step, Fork, Insert, Persist, WriteRow, Fail
    <3> QED
      BY <3>1, <3>2, CheckerAssumption
  <2>1. doc.state \notin Pending \cup {"suspended"}
    BY DEF Pending
  <2>2. ASSUME NEW old \in Documents(i), doc.state = old.state, doc.since = old.since
        PROVE  clock' - doc.since >= Delay
    <3>1. clock - old.since >= Delay
      BY <2>2 DEF WindowServed
    <3>2. old.since \in 0 .. MaxTime
      <4>1. docs[i] \in Seq(Document)
        BY DEF IInv, TypeOK
      <4>2. old \in Document
        BY <2>2, <4>1 DEF Documents
      <4> QED
        BY <4>2 DEF Document
    <3> QED
      BY <2>t, <2>2, <3>1, <3>2, CheckerAssumption
  <2>3. ASSUME NEW c \in calls, c.op = "advance_delay", doc.since = c.req.since
        PROVE  clock' - doc.since >= Delay
    <3>1. clock - c.req.since >= Delay /\ c.req.since \in 0 .. MaxTime
      BY <2>3 DEF IInv, TypeOK, Calls, CallsOK, Document
    <3> QED
      BY <2>t, <2>3, <3>1, CheckerAssumption
  <2>4. ASSUME NEW c \in calls, c.op = "countersign", c.id = i PROVE FALSE
    BY <2>4, CheckerAssumption DEF IInv, CallsOK
  <2> QED
    BY <2>1, <2>2, <2>3, <2>4, NewDocuments
<1> QED
  BY <1>1, <1>2, Invariance, PTL DEF Spec

\* What a step does to the signatures that are written, owed or lost.
LEMMA SignaturesKept ==
  ASSUME IInv, [Next]_vars, NEW row,
         \/ row \in ledger \cup unlogged
         \/ \E c \in calls : c.pc = "row" /\ RowOf(c) = row
  PROVE  \/ row \in (ledger \cup unlogged)'
         \/ \E c \in calls' : c.pc = "row" /\ RowOf(c) = row
<1>1. ASSUME NEW c \in calls, Step(c)
      PROVE  /\ ledger \subseteq ledger' /\ unlogged \subseteq unlogged'
             /\ calls \ {c} \subseteq calls'
             /\ c.pc = "row" => RowOf(c) \in (ledger \cup unlogged)'
  BY <1>1 DEF Step, Fork, Insert, Persist, WriteRow, Fail, Goto, End
<1>2. CASE \E c \in calls : Step(c)
  BY <1>1, <1>2
<1>3. ASSUME UNCHANGED <<ledger, unlogged>>, calls \subseteq calls'
      PROVE  \/ row \in (ledger \cup unlogged)'
             \/ \E c \in calls' : c.pc = "row" /\ RowOf(c) = row
  BY <1>3
<1>4. CASE UNCHANGED vars
  BY <1>3, <1>4 DEF vars
<1> QED
  BY <1>2, <1>3, <1>4, ArriveKeeps, OtherWrites, TickKeeps DEF Next

\* Accountability: a signature in effect has its ledger row, or the call that
\* owes it is still under way, or it died between the two writes.
THEOREM SignatureOnRecordHolds == Spec => []SignatureOnRecord
<1>1. Init => SignatureOnRecord
  BY DEF Init, SignatureOnRecord, Documents
<1>2. IInv /\ SignatureOnRecord /\ [Next]_vars => SignatureOnRecord'
  <2> SUFFICES ASSUME IInv, SignatureOnRecord, [Next]_vars, NEW i \in Ids, NEW doc \in Documents(i)',
                      i.change \in Dual, doc.state = "effective"
               PROVE  LET row == [id |-> i, who |-> doc.checker] IN
                      \/ row \in (ledger \cup unlogged)'
                      \/ \E c \in calls' : c.pc = "row" /\ RowOf(c) = row
    BY DEF SignatureOnRecord, RowOf
  <2>1. doc.state \notin Pending \cup {"suspended"}
    BY DEF Pending
  <2>2. CASE \E old \in Documents(i) : doc.state = old.state /\ doc.checker = old.checker
    BY <2>2, SignaturesKept DEF SignatureOnRecord
  <2>3. ASSUME NEW c \in calls, c.pc = "persist", Persist(c), c.id = i, c.op = "countersign",
               doc.checker = c.who
        PROVE  \E d \in calls' : d.pc = "row" /\ RowOf(d) = [id |-> i, who |-> doc.checker]
    <3>1. PICK d \in Calls : /\ calls' = (calls \ {c}) \cup {d}
                             /\ d.pc = "row" /\ d.id = c.id /\ d.who = c.who
      BY <2>3, Moved DEF Persist, IInv
    <3> QED
      BY <2>3, <3>1 DEF RowOf
  <2>4. ASSUME NEW c \in calls, c.op = "advance_delay", c.id = i PROVE FALSE
    BY <2>4, CheckerAssumption DEF IInv, CallsOK
  <2> QED
    BY <2>1, <2>2, <2>3, <2>4, NewDocuments
<1> QED
  BY <1>1, <1>2, Invariance, PTL DEF Spec

\* Settlement: only a call that loaded the request while it was still pending,
\* or the void sweep, ever changes the state of a settled request.
THEOREM SettledUnlessStaleHolds == Spec => SettledUnlessStale
<1>1. ASSUME IInv, [Next]_vars, NEW i \in Ids, docs[i] # <<>>, First(i)'.state # First(i).state
      PROVE  \/ \E c \in calls \ calls' : c.pc = "persist" /\ c.id = i /\ c.req.state \in Pending
             \/ \E x \in sweep \ sweep' : x[1] = i
  <2>1. TypeOK
    BY <1>1 DEF IInv
  <2>2. ASSUME NEW c \in calls, Persist(c)
        PROVE  c \notin calls' /\ c.pc = "persist" /\ c.id = i /\ c.req.state \in Pending
    <3>1. c.pc = "persist" /\ c.req.state \in Pending /\ c.id \in Ids /\ docs[c.id] # <<>>
      BY <1>1, <2>2 DEF Persist, IInv, TypeOK, Calls, CallsOK
    <3>2. c \notin calls'
      <4>1. CASE End(c)
        BY <4>1 DEF End
      <4>2. CASE Goto(c, "row")
        BY <2>1, <3>1, <4>2, Moved
      <4> QED
        BY <2>2, <4>1, <4>2 DEF Persist
    <3>3. c.id = i
      <4>1. [Decided(c) EXCEPT !.team = First(c.id).team] \in Document
        BY <1>1, <3>1, DecidedDocument
      <4>2. c.id # i => docs'[i] = docs[i]
        BY <2>1, <2>2, <3>1, <4>1, WriteFirst DEF Persist
      <4> QED
        BY <1>1, <4>2 DEF First
    <3> QED
      BY <3>1, <3>2, <3>3
  <2>3. ASSUME NEW c \in calls, Insert(c) PROVE FALSE
    <3>1. c.id \in Ids /\ c.req \in Document
      BY <2>1 DEF TypeOK, Calls
    <3>2. First(i)' = First(i)
      BY <1>1, <2>1, <2>3, <3>1, AppendDocument DEF Insert
    <3> QED
      BY <1>1, <3>2
  <2>4. ASSUME NEW x \in sweep, VoidUpdate(x)
        PROVE  x \notin sweep' /\ x[1] = i
    <3>1. x[1] \in Ids
      BY <2>1 DEF TypeOK
    <3>2. x[1] # i => docs'[i] = docs[i]
      BY <2>1, <2>4, <3>1 DEF VoidUpdate, TypeOK
    <3> QED
      BY <1>1, <2>4, <3>2 DEF VoidUpdate, First
  <2>5. ASSUME NEW id \in Ids, TeamDecision(id) PROVE FALSE
    <3>1. First(i)'.state = First(i).state
      <4>1. docs[i] \in Seq(Document) /\ Len(docs[i]) > 0
        BY <1>1, <2>1 DEF TypeOK
      <4>2. First(i) \in Document
        BY <1>1, <2>1, FirstIsDocument
      <4>3. CASE id = i
        <5>1. First(i)' = [First(i) EXCEPT !.team = TRUE]
          <6> DEFINE new == [First(i) EXCEPT !.team = TRUE]
          <6>1. docs' = [docs EXCEPT ![i][1] = new]
            BY <2>5, <4>3 DEF TeamDecision, First
          <6>2. new \in Document
            BY <4>2 DEF Document
          <6> QED
            BY <1>1, <2>1, <6>1, <6>2, WriteFirst
        <5> QED
          BY <4>2, <5>1 DEF Document
      <4>4. CASE id # i
        BY <2>1, <2>5, <4>4 DEF TeamDecision, First, TypeOK
      <4> QED
        BY <4>3, <4>4
    <3> QED
      BY <1>1, <3>1
  <2>6. CASE UNCHANGED docs
    BY <1>1, <2>6 DEF First
  <2> QED
    BY <1>1, <2>2, <2>3, <2>4, <2>5, <2>6, ArriveKeeps, TickKeeps
    DEF Next, Step, Void, vars, Fork, WriteRow, Fail, VoidFind, VoidFail
<1>2. IInv /\ [Next]_vars =>
        (\A id \in Ids :
           docs[id] # <<>> /\ First(id).state \notin Pending /\ First(id)'.state # First(id).state =>
             \/ \E c \in calls \ calls' : c.pc = "persist" /\ c.id = id /\ c.req.state \in Pending
             \/ \E x \in sweep \ sweep' : x[1] = id)
  BY <1>1
<1> QED
  BY <1>2, Invariance, PTL DEF Spec, SettledUnlessStale
=============================================================================
