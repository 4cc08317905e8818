------------------------------ MODULE MemoryPlane ------------------------------
(***************************************************************************)
(* The memory service: planes are issued and revoked, contributions are    *)
(* written into a plane and published out of it, references are recorded   *)
(* in its working set and evicted.  Every change is a Mongo write followed *)
(* by a ledger row, and every call but the issue reads the plane twice:    *)
(* at the router, and when it mints the accessor whose copy of the plane's *)
(* state guards all the accessor does from then on.                        *)
(*                                                                         *)
(* Callers that _authorize_plane_access turns away change nothing, so the  *)
(* identity of a caller does not appear.                                   *)
(***************************************************************************)
EXTENDS Naturals, Sequences, FiniteSets

CONSTANTS
  Planes,     \* plane ids, minted one per issue
  Contribs,   \* contribution ids
  Refs,       \* references of the working sets
  Cap,        \* WORKING_SET_MAX_REFS_PER_PLANE
  Threshold,  \* BOOLEAN: PUBLICATION_QUALITY_THRESHOLD is set
  Library,    \* "use", "evict": the operations without a door that somebody runs
  Handlers,   \* calls served at once
  None        \* no document, or no reference

\* A contribution document: where it lies, and who may see it.
Documents == [plane : Planes, rights : {"internal_only", "registry_visible"}]

ASSUME MemoryAssumption ==
  /\ None \notin Planes \cup Contribs \cup Refs \cup Documents
  /\ Cap \in Nat /\ Threshold \in BOOLEAN /\ Library \subseteq {"use", "evict"}
  /\ IsFiniteSet(Refs)

VARIABLES
  plane,    \* the state of each plane's document, "absent" before the issue
  store,    \* the contribution documents: their plane and rights class
  working,  \* the references in each working set
  rows,     \* memory_* ledger rows
  calls,    \* calls in progress
  lost      \* rows owed by calls that died

vars == <<plane, store, working, rows, calls, lost>>
documents == <<plane, store, working>>

Events == {"issued", "revoked", "contribution_landed", "contribution_refused",
           "publication_attempted", "publication_landed", "publication_refused"}
Rows == [event : Events, plane : Planes, ref : Contribs \cup {None}]
Row(event, p, ref) == [event |-> event, plane |-> p, ref |-> ref]

Ops == {"issue", "contribute", "publish", "revoke", "use", "evict"}
Calls == [by : Handlers, op : Ops, plane : Planes,
          pc : {"mint", "write", "attempt", "gate", "row", "delete"},
          seen : {"unread", "active", "revoked"},
          ref : Contribs \cup Refs \cup {None}, doomed : SUBSET Refs]

Free(h) == \A c \in calls : c.by # h
Start(h, op, pc, p, ref) ==
  /\ Free(h)
  /\ calls' = calls \cup {[by |-> h, op |-> op, plane |-> p, pc |-> pc, seen |-> "unread",
                           ref |-> ref, doomed |-> {}]}
Continue(c, d) == calls' = (calls \ {c}) \cup {d}
End(c) == calls' = calls \ {c}

Contributions(p) == {x \in Contribs : store[x] # None /\ store[x].plane = p}

------------------------------------------------------------------------------
(* issue_plane, and the first read of every other call.                    *)

Issue(h, p) ==
  /\ plane[p] = "absent" /\ plane' = [plane EXCEPT ![p] = "active"]
  /\ Start(h, "issue", "row", p, None)
  /\ UNCHANGED <<store, working, rows, lost>>

\* The router's get_plane; a revocation alone goes on whatever it finds.
Enter(h, op, p, ref) ==
  /\ plane[p] = "active" \/ (op = "revoke" /\ plane[p] = "revoked")
  /\ Start(h, op, "mint", p, ref)
  /\ UNCHANGED <<documents, rows, lost>>

\* Mutant: a revoked plane is called frozen.
StateAtMint_Frozen(p) == IF plane[p] = "revoked" THEN "frozen" ELSE plane[p]

\* Mutant: for_plane gives every accessor an active state.
StateAtMint_Active(p) == "active"

StateAtMint(p) == plane[p]

\* for_plane: the accessor keeps the state it has just read.
Mint(c) ==
  /\ c.pc = "mint" /\ c.op # "revoke"
  /\ Continue(c, [c EXCEPT !.pc = "write", !.seen = StateAtMint(c.plane)])
  /\ UNCHANGED <<documents, rows, lost>>

Active(c) == c.pc = "write" /\ c.seen = "active"

\* _assert_active raises: nothing has been written.
Frozen(c) ==
  /\ c.pc = "write" /\ c.seen = "revoked" /\ c.op # "revoke" /\ End(c)
  /\ UNCHANGED <<documents, rows, lost>>

------------------------------------------------------------------------------
(* write_contribution.  What it refuses is data: the class cap, the rights *)
(* at birth (both ledgered), the shape (not ledgered, and no action).      *)

RefuseContribution(c) ==
  /\ c.op = "contribute" /\ c.pc = "write" /\ End(c)
  /\ rows' = rows \cup {Row("contribution_refused", c.plane, None)}
  /\ UNCHANGED <<documents, lost>>

InsertContribution(c, x) ==
  /\ c.op = "contribute" /\ Active(c) /\ store[x] = None
  /\ store' = [store EXCEPT ![x] = [plane |-> c.plane, rights |-> "internal_only"]]
  /\ Continue(c, [c EXCEPT !.pc = "row", !.ref = x])
  /\ UNCHANGED <<plane, working, rows, lost>>

------------------------------------------------------------------------------
(* attempt_publication.                                                    *)

\* get_contribution finds the contribution only in the accessor's own plane.
Fetch(c) ==
  /\ c.op = "publish" /\ Active(c)
  /\ IF c.ref \in Contributions(c.plane) THEN Continue(c, [c EXCEPT !.pc = "attempt"]) ELSE End(c)
  /\ UNCHANGED <<documents, rows, lost>>

\* Mutant: the attempt is not recorded.
AttemptRow_Skipped(c) == {}

AttemptRow(c) == {Row("publication_attempted", c.plane, c.ref)}

Attempt(c) ==
  /\ c.pc = "attempt" /\ Continue(c, [c EXCEPT !.pc = "gate"])
  /\ rows' = rows \cup AttemptRow(c)
  /\ UNCHANGED <<documents, lost>>

\* publication_quality_gate and publication_rights_gate: a threshold has to be set; with
\* one, the score and the number of cited sources decide, which are data.
GatesMayPass == Threshold

RefusePublication(c) ==
  /\ c.pc = "gate" /\ End(c)
  /\ rows' = rows \cup {Row("publication_refused", c.plane, c.ref)}
  /\ UNCHANGED <<documents, lost>>

Widen(c) ==
  /\ c.pc = "gate" /\ GatesMayPass
  /\ store' = [store EXCEPT ![c.ref].rights = "registry_visible"]
  /\ Continue(c, [c EXCEPT !.pc = "row"])
  /\ UNCHANGED <<plane, working, rows, lost>>

------------------------------------------------------------------------------
(* revoke_plane.                                                           *)

RevokeRead(c) ==
  /\ c.op = "revoke" /\ c.pc = "mint"
  /\ IF plane[c.plane] = "revoked" THEN End(c) ELSE Continue(c, [c EXCEPT !.pc = "write"])
  /\ UNCHANGED <<documents, rows, lost>>

RevokeWrite(c) ==
  /\ c.op = "revoke" /\ c.pc = "write"
  /\ plane' = [plane EXCEPT ![c.plane] = "revoked"]
  /\ Continue(c, [c EXCEPT !.pc = "row"])
  /\ UNCHANGED <<store, working, rows, lost>>

------------------------------------------------------------------------------
(* The row that follows a write, and a call that dies before it.           *)

EventOf == [issue |-> "issued", contribute |-> "contribution_landed",
            publish |-> "publication_landed", revoke |-> "revoked"]

\* Mutant: a published contribution is ledgered as landed once more.
OwedBy_Landed(c) ==
  Row(IF c.op = "publish" THEN "contribution_landed" ELSE EventOf[c.op], c.plane, c.ref)

OwedBy(c) == Row(EventOf[c.op], c.plane, c.ref)

WriteRow(c) ==
  /\ c.pc = "row" /\ End(c)
  /\ rows' = rows \cup {OwedBy(c)}
  /\ UNCHANGED <<documents, lost>>

\* A call dies, or returns without having found anything to do.
Die(c) ==
  /\ End(c)
  /\ lost' = lost \cup (IF c.pc = "row" THEN {OwedBy(c)} ELSE {})
  /\ UNCHANGED <<documents, rows>>

------------------------------------------------------------------------------
(* record_use and evict_by_halflife.                                       *)

RecordUse(c) ==
  /\ c.op = "use" /\ Active(c) /\ End(c)
  /\ working' = [working EXCEPT ![c.plane] = @ \cup {c.ref}]
  /\ UNCHANGED <<plane, store, rows, lost>>

\* The entries of lowest score beyond the cap; which those are is data.
Excess(p) ==
  {d \in SUBSET working[p] : Cardinality(d) = Cardinality(working[p]) - Cap}

EvictList(c, d) ==
  /\ c.op = "evict" /\ Active(c) /\ Cardinality(working[c.plane]) > Cap /\ d \in Excess(c.plane)
  /\ Continue(c, [c EXCEPT !.pc = "delete", !.doomed = d])
  /\ UNCHANGED <<documents, rows, lost>>

\* delete_one by reference, whatever has become of the entry since the listing.
EvictOne(c, r) ==
  /\ c.pc = "delete" /\ r \in c.doomed
  /\ working' = [working EXCEPT ![c.plane] = @ \ {r}]
  /\ IF c.doomed = {r} THEN End(c) ELSE Continue(c, [c EXCEPT !.doomed = @ \ {r}])
  /\ UNCHANGED <<plane, store, rows, lost>>

Init ==
  /\ plane = [p \in Planes |-> "absent"] /\ store = [x \in Contribs |-> None]
  /\ working = [p \in Planes |-> {}]
  /\ rows = {} /\ calls = {} /\ lost = {}

Arrive(h, p) ==
  \/ Issue(h, p)
  \/ Enter(h, "contribute", p, None) \/ Enter(h, "revoke", p, None)
  \/ \E x \in Contribs : Enter(h, "publish", p, x)
  \/ "use" \in Library /\ \E r \in Refs : Enter(h, "use", p, r)
  \/ "evict" \in Library /\ Enter(h, "evict", p, None)

Step(c) ==
  \/ Mint(c) \/ Frozen(c)
  \/ RefuseContribution(c) \/ \E x \in Contribs : InsertContribution(c, x)
  \/ Fetch(c) \/ Attempt(c) \/ RefusePublication(c) \/ Widen(c)
  \/ RevokeRead(c) \/ RevokeWrite(c)
  \/ WriteRow(c) \/ Die(c)
  \/ RecordUse(c) \/ \E d \in SUBSET Refs : EvictList(c, d)
  \/ \E r \in Refs : EvictOne(c, r)

Next ==
  \/ \E h \in Handlers, p \in Planes : Arrive(h, p)
  \/ \E c \in calls : Step(c)

Spec == Init /\ [][Next]_vars

------------------------------------------------------------------------------
(* Properties.                                                             *)

TypeOK ==
  /\ plane \in [Planes -> {"absent", "active", "revoked"}]
  /\ store \in [Contribs -> Documents \cup {None}]
  /\ working \in [Planes -> SUBSET Refs]
  /\ rows \subseteq Rows /\ lost \subseteq Rows /\ calls \subseteq Calls

\* rebuild_state: what a set of rows says of a plane.
Rebuilt(p, from) ==
  [state |-> IF Row("revoked", p, None) \in from THEN "revoked" ELSE "active",
   landed |-> {x \in Contribs : Row("contribution_landed", p, x) \in from},
   published |-> {x \in Contribs : Row("publication_landed", p, x) \in from}]

Documented(p) ==
  [state |-> plane[p], landed |-> Contributions(p),
   published |-> {x \in Contributions(p) : store[x].rights = "registry_visible"}]

Owed == lost \cup {OwedBy(c) : c \in {d \in calls : d.pc = "row"}}

\* "Plane state is ledger-reconstructible": the ledger never tells of what did not
\* happen, and all it does not tell is owed by a call under way or dead.
LedgerRebuilds ==
  \A p \in Planes :
    IF plane[p] = "absent" THEN \A r \in rows \cup Owed : r.plane # p
    ELSE Rebuilt(p, rows \cup Owed) = Documented(p)

\* A contribution becomes visible in the Registry only by an attempt that is on the
\* ledger, with the quality threshold set: also when calls overlap and die.
PublishedByCeremony ==
  \A x \in Contribs :
    store[x] # None /\ store[x].rights = "registry_visible" =>
      Threshold /\ Row("publication_attempted", store[x].plane, x) \in rows

OfPlane(p) == <<Documented(p), working[p]>>

\* The handlers whose accessor of a plane counts it as active.
Minted(p) == {c.by : c \in {d \in calls : d.plane = p /\ d.seen = "active"}}

\* Once a plane is revoked it stays so, no accessor that counts it as active is minted
\* any more, and only the calls that had one by then still change anything in it.
FrozenUnlessMinted ==
  [][\A p \in Planes : plane[p] = "revoked" =>
       /\ plane'[p] = "revoked" /\ Minted(p)' \subseteq Minted(p)
       /\ OfPlane(p)' # OfPlane(p) =>
            \E c \in calls : c \notin calls' /\ c.plane = p /\ c.seen = "active"]_vars

------------------------------------------------------------------------------
(* What the documentation says and the code does not do.                   *)

\* "Revocation freezes immediately": an accessor keeps the state it was minted with.
RevocationFreezes ==
  [][\A p \in Planes : plane[p] = "revoked" => OfPlane(p)' = OfPlane(p)]_vars
=============================================================================
