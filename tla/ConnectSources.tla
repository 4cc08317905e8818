---------------------------- MODULE ConnectSources -----------------------------
(***************************************************************************)
(* The sources of the connect console.  Adding looks an id up and inserts; *)
(* connecting and retrying read the state and set the new one by id alone. *)
(* No index makes ids unique, and a lookup finds the oldest document.      *)
(***************************************************************************)
EXTENDS Naturals, Sequences, SequencesExt, FiniteSets

CONSTANTS
  SourceIds,
  Hands,       \* requests served at once
  MaxSources   \* bound: documents

ASSUME SourcesAssumption == MaxSources \in Nat

VARIABLES
  sources,     \* connect_sources, oldest first
  asks,        \* requests in progress
  shown,       \* declared registries: how often each name is declared
  view         \* the registry console's view of the sources

sourceVars == <<sources, asks, shown, view>>

SourceStates == {"pending", "awaiting_credentials", "in_progress", "failed", "connected"}

ConnectTypeOK ==
  /\ \A i \in DOMAIN sources : sources[i] \in [id : SourceIds, state : SourceStates, seeded : BOOLEAN]
  /\ \A h \in DOMAIN asks : h \in Hands /\ asks[h].id \in SourceIds
  /\ shown \in [SourceIds -> 0..Cardinality(Hands)]

\* The seeder may have left a source that failed or lacks credentials.
ConnectInit ==
  /\ \/ sources = <<>>
     \/ \E id \in SourceIds, state \in {"awaiting_credentials", "failed", "connected"} :
          sources = <<[id |-> id, state |-> state, seeded |-> TRUE]>>
  /\ asks = [h \in {} |-> {}]
  /\ shown = [id \in SourceIds |-> 0]
  /\ view = [pc |-> "idle"]

\* get_source and find_one_and_update meet the oldest document of an id.
\* Mutant: they meet the youngest.
Found_Youngest(id) ==
  LET at == {i \in DOMAIN sources : sources[i].id = id}
  IN  {i \in at : \A j \in at : j <= i}

Found(id) ==
  LET at == {i \in DOMAIN sources : sources[i].id = id}
  IN  {i \in at : \A j \in at : i <= j}

Ask(h, op, id) == asks' = [k \in DOMAIN asks \cup {h} |->
                             IF k = h THEN [op |-> op, id |-> id] ELSE asks[k]]
Answered(h) == asks' = [k \in DOMAIN asks \ {h} |-> asks[k]]

------------------------------------------------------------------------------

\* add_source, 409 when the id is known.
AddSource(h, id) ==
  /\ h \notin DOMAIN asks /\ Found(id) = {}
  /\ Ask(h, "insert", id)
  /\ UNCHANGED <<sources, shown, view>>

InsertSource(h) ==
  /\ h \in DOMAIN asks /\ asks[h].op = "insert" /\ Len(sources) < MaxSources
  /\ sources' = Append(sources, [id |-> asks[h].id, state |-> "pending", seeded |-> FALSE])
  /\ Answered(h)
  /\ UNCHANGED <<shown, view>>

\* source_connect and source_retry, as far as their guards.
SourceConnect(h, id) ==
  /\ h \notin DOMAIN asks
  /\ \E i \in Found(id) : sources[i].state \in {"pending", "failed", "awaiting_credentials"}
  /\ Ask(h, "connected", id)
  /\ UNCHANGED <<sources, shown, view>>

SourceRetry(h, id) ==
  /\ h \notin DOMAIN asks
  /\ \E i \in Found(id) : sources[i].state = "failed"
  /\ Ask(h, "in_progress", id)
  /\ UNCHANGED <<sources, shown, view>>

\* update_state sets the state, whatever it is by now.
UpdateState(h) ==
  /\ h \in DOMAIN asks /\ asks[h].op \in {"connected", "in_progress"}
  /\ \E i \in Found(asks[h].id) : sources' = [sources EXCEPT ![i].state = asks[h].op]
  /\ Answered(h)
  /\ UNCHANGED <<shown, view>>

\* declare_registry: declared_registry_exists, then the insert.  The schema class is checked
\* before and changes nothing here.
DeclareRegistry(h, name) ==
  /\ h \notin DOMAIN asks /\ shown[name] = 0
  /\ Ask(h, "declare", name)
  /\ UNCHANGED <<sources, shown, view>>

InsertDeclared(h) ==
  /\ h \in DOMAIN asks /\ asks[h].op = "declare"
  /\ shown' = [shown EXCEPT ![asks[h].id] = @ + 1]
  /\ Answered(h)
  /\ UNCHANGED <<sources, view>>

\* get_what_you_hold: the counts per state, then the sources once more, row by row.  A row is
\* measured when its source is connected and the extract of its corpus can be read.
CountByState(state) == Cardinality({i \in DOMAIN sources : sources[i].state = state})
HoldCounts ==
  /\ view.pc = "idle"
  /\ view' = [pc |-> "counted", counts |-> [state \in SourceStates |-> CountByState(state)], total |-> Len(sources)]
  /\ UNCHANGED <<sources, asks, shown>>

UnmeasuredReason(state) ==
  CASE state = "awaiting_credentials" -> "no_credentials"
    [] state = "failed" -> "connect_failed"
    [] state = "in_progress" -> "partial"
    [] state = "pending" -> "not_yet_connected"
    [] OTHER -> "declared_only"
HoldingsRow(source, readable) ==
  LET measured == source.state = "connected" /\ readable
  IN  [id |-> source.id, measured |-> measured,
       reason |-> IF measured THEN "none" ELSE UnmeasuredReason(source.state)]
HoldRows(unreadable) ==
  /\ view.pc = "counted"
  /\ view' = [pc |-> "told", counts |-> view.counts, total |-> view.total,
              rows |-> [i \in DOMAIN sources |-> HoldingsRow(sources[i], i \notin unreadable)]]
  /\ UNCHANGED <<sources, asks, shown>>

ConnectNext ==
  \/ \E h \in Hands, id \in SourceIds : AddSource(h, id)
  \/ \E h \in Hands : InsertSource(h)
  \/ \E h \in Hands, id \in SourceIds : SourceConnect(h, id)
  \/ \E h \in Hands, id \in SourceIds : SourceRetry(h, id)
  \/ \E h \in Hands : UpdateState(h)
  \/ \E h \in Hands, name \in SourceIds : DeclareRegistry(h, name)
  \/ \E h \in Hands : InsertDeclared(h)
  \/ HoldCounts
  \/ \E unreadable \in {{}, DOMAIN sources} : HoldRows(unreadable)

ConnectSpec == ConnectInit /\ [][ConnectNext]_sourceVars

------------------------------------------------------------------------------
\* get_landing: the headline says that all sources are connected.
SteadyState ==
  /\ Len(sources) > 0
  /\ CountByState("connected") = Len(sources) - CountByState("pending")
  /\ \A state \in {"awaiting_credentials", "failed", "in_progress"} : CountByState(state) = 0

\* Two requests may add one id twice.  Only the oldest document of an id is ever moved: a
\* younger one stays pending, so the view shows at most one measured row of an id, and tells
\* of the others that nobody connected them.  The counts and the rows of a view, read one
\* after the other, agree that no source went missing between them.
HoldingsAreHonest ==
  /\ \A i, j \in DOMAIN sources : i < j /\ sources[i].id = sources[j].id => sources[j].state = "pending"
  /\ view.pc = "told" =>
       /\ view.total <= Len(view.rows)
       /\ view.counts["pending"] + view.counts["awaiting_credentials"] + view.counts["in_progress"]
          + view.counts["failed"] + view.counts["connected"] = view.total
       /\ \A i, j \in DOMAIN view.rows : i < j /\ view.rows[i].id = view.rows[j].id =>
            ~view.rows[j].measured /\ view.rows[j].reason = "not_yet_connected"
==============================================================================
