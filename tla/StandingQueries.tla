---------------------------- MODULE StandingQueries ----------------------------
(***************************************************************************)
(* The findings tables and the consolidation log of the promise registry,  *)
(* and the reports of the standing queries: what a scan finds is new, or   *)
(* overlaps a subject that an earlier decision or finding is about.        *)
(*                                                                         *)
(* A subject is a pair of its kind and its name.  What a text says is the  *)
(* set of the subjects whose form it mentions.                             *)
(***************************************************************************)
EXTENDS PromiseRegistry

CONSTANTS
  ExpectedFindings,  \* the identifiers the findings gate asks for
  ClientFacing,      \* the promises made to clients
  Testable,          \* the gates and tests that can be run
  RegistryDocs       \* documents: [v0, old, later, log, rows]

IsList(s) == Len(s) \in Nat /\ s = [i \in 1..Len(s) |-> s[i]]

ASSUME DocumentsAssumption ==
  /\ IsFiniteSet(ExpectedFindings)
  /\ \A doc \in RegistryDocs :
       /\ IsList(doc.v0) /\ IsList(doc.old) /\ IsList(doc.later) /\ IsList(doc.log) /\ IsList(doc.rows)
       /\ \A i \in DOMAIN doc.log : doc.log[i].kind \in {"heading", "section", "text"}

VARIABLE registryDocs  \* the documents the registry is read from, each on its own

Fun(name) == <<"function", name>>
Surface(name) == <<"surface", name>>
Step(name) == <<"step", name>>
WholeS5 == <<"S5", "S5">>
StepsOfS5 == {Step("S5.ask")}

\* _extract_subject_identifiers: a mention of S5 counts where no step of S5 is mentioned.
SubjectIdentifiers(said) == IF said \cap StepsOfS5 = {} THEN said ELSE said \ {WholeS5}

------------------------------------------------------------------------------
\* load_archaeological_q1, over lines that are headings, sections or texts: an entry is closed
\* by the next heading, by a section or by the end.
ClosedEntry(state) ==
  IF state.open THEN Append(state.entries, [id |-> state.entry, subjects |-> SubjectIdentifiers(state.said)])
  ELSE state.entries
ReadLine(state, line) ==
  CASE line.kind = "heading" -> [entries |-> ClosedEntry(state), open |-> TRUE, entry |-> line.entry, said |-> line.said]
    [] line.kind = "section" -> [state EXCEPT !.entries = ClosedEntry(state), !.open = FALSE]
    [] line.kind = "text" -> IF state.open THEN [state EXCEPT !.said = @ \cup line.said] ELSE state
LoadQ1(log) == ClosedEntry(FoldLeft(ReadLine, [entries |-> <<>>, open |-> FALSE, entry |-> Blank, said |-> {}], log))

\* parse_findings_from_v0: rows of the findings tables; where the ruling stands in another cell,
\* the whole row is taken for the observation.
IsFinding(row) == row.query \in {"Q2", "Q3"}
Finding(row) ==
  LET whole == row.ruled = "elsewhere"
  IN  [query |-> row.query, id |-> row.id, subject |-> row.subject, ruled |-> row.ruled # "no",
       observation |-> IF whole THEN row.subject \cup row.observation \cup row.elsewhere ELSE row.observation,
       marked |-> row.marked = "observation" \/ (whole /\ row.marked = "elsewhere")]
ParseFindings(rows) ==
  LET found == EntriesAt(rows, {n \in DOMAIN rows : IsFinding(rows[n])}) IN [n \in DOMAIN found |-> Finding(found[n])]

\* build_supersession_ledger, and attach_rulings_to_functions.
SupersessionLedger(findings) == EntriesAt(findings, {n \in DOMAIN findings : findings[n].ruled})
RulingsOf(function, findings) ==
  EntriesAt(findings, {n \in DOMAIN findings : findings[n].ruled /\ Fun(function.id) \in findings[n].observation})

\* check_mrr_g4_findings_coverage; Marked: the findings that must carry an owner's marker.
FindingsCovered(findings, Marked) ==
  /\ ExpectedFindings \subseteq {f.id : f \in ToSet(findings)}
  /\ \A f \in ToSet(findings) : f.ruled /\ (f.id \in Marked => f.marked)
  /\ Len(SupersessionLedger(findings)) = Cardinality(ExpectedFindings)

------------------------------------------------------------------------------
\* build_archaeological_index: the first to say a subject keeps it, decisions before findings.
Claim(index, source) ==
  [s \in DOMAIN index \cup source.subjects |-> IF s \in DOMAIN index THEN index[s] ELSE source.id]
ArchaeologicalIndex(entries, findings) ==
  LET subjects(f) == SubjectIdentifiers(f.subject \cup f.observation)
      sources == entries \o [n \in DOMAIN findings |-> [id |-> findings[n].id, subjects |-> subjects(findings[n])]]
  IN  FoldLeft(Claim, <<>>, sources)

\* overlaps_for, and the two lists of a mechanical report.
OverlapsFor(subjects, index) == {index[s] : s \in subjects \cap DOMAIN index}
Report(found, index) ==
  [new |-> {e \in found : OverlapsFor(e.subjects, index) = {}},
   overlaps |-> {[entry |-> e, by |-> OverlapsFor(e.subjects, index)] :
                   e \in {x \in found : OverlapsFor(x.subjects, index) # {}}}]

\* What each scan finds, with its subjects.
Q1Report(model, index) ==
  LET entry(p) ==
        LET a == model.functions[p[1]]
            b == model.functions[p[2]]
        IN  [finding |-> p, subjects |-> PromTokens(a.promise) \cup {Fun(a.id), Fun(b.id), Surface(a.surface)}]
  IN  Report({entry(p) : p \in Redundancies(model)}, index)
Q2Report(model, index) ==
  LET about(f, case) == {Fun(f.id)} \cup (IF case = "b" THEN PromTokens(f.promise) ELSE {})
      strange(f) == f.trace \ ({Narrative, WholeJourney} \cup PartIISteps)
      entries(f, case) ==
        IF case = "d" THEN {[finding |-> <<case, f.id>>, subjects |-> {Fun(f.id), Step(s)}] : s \in strange(f)}
        ELSE {[finding |-> <<case, f.id>>, subjects |-> about(f, case)]}
  IN  Report(UNION {UNION {entries(f, o[1]) : f \in {g \in ToSet(model.functions) : g.id = o[2]}} :
                      o \in Orphans(model)}, index)
Q3Report(model, index) ==
  Report({[finding |-> g, subjects |-> IF g[1] = "a" THEN {g[2]} ELSE {Step(g[2])}] : g \in Gaps(model)}, index)
\* scan_q4_behavioral_rules: what is promised to a client is escalated.
Q4Report(model, testable, index) ==
  Report({[finding |-> f, escalated |-> PromTokens(f.promise) \cap ClientFacing # {},
           subjects |-> {Fun(f.id)} \cup PromTokens(f.promise)] : f \in Unverified(model, testable)}, index)

\* render_q1_archaeological, render_q2_archaeological, render_q3_archaeological.
Q1Archaeology(entries) == [n \in DOMAIN entries |-> entries[n].id]
Q2Archaeology(findings) == EntriesAt(findings, {n \in DOMAIN findings : findings[n].query = "Q2"})
Q3Archaeology(findings) == EntriesAt(findings, {n \in DOMAIN findings : findings[n].query = "Q3"})

\* run_queries.
RunQueries(model, log, findings, testable) ==
  LET entries == LoadQ1(log)
      index == ArchaeologicalIndex(entries, findings)
  IN  [mechanical |-> <<Q1Report(model, index), Q2Report(model, index), Q3Report(model, index),
                        Q4Report(model, testable, index)>>,
       decided |-> Q1Archaeology(entries), found |-> <<Q2Archaeology(findings), Q3Archaeology(findings)>>]

------------------------------------------------------------------------------
\* The decisions of a log, said without reading it line by line: those of its headings, each
\* about what it and the lines up to the next heading or section say.
BlockOf(log, i) == {j \in i..Len(log) : \A k \in (i + 1)..j : log[k].kind = "text"}
Decision(log, i) ==
  [id |-> log[i].entry, subjects |-> SubjectIdentifiers(UNION {log[j].said : j \in BlockOf(log, i)})]
Decisions(log) ==
  EntriesAt([i \in DOMAIN log |-> Decision(log, i)], {i \in DOMAIN log : log[i].kind = "heading"})

\* Nothing decided or found is lost between the documents and the reports, and nothing is
\* raised as new that an earlier decision or finding is about: the log's decisions are read
\* whole; an overlap names the first to speak of a subject, wherever it stands; when the
\* findings gate is green, each finding it asks for is in one report, once, ruled, and each
\* ruling on a function is of a finding in the ledger.
QueriesLoseNothing(model, log, rows, testable) ==
  LET findings == ParseFindings(rows)
      reports == RunQueries(model, log, findings, testable)
      said == Decisions(log) \o [n \in DOMAIN findings |->
                [id |-> findings[n].id, subjects |-> SubjectIdentifiers(findings[n].subject \cup findings[n].observation)]]
      first(s) == CHOOSE n \in DOMAIN said : s \in said[n].subjects /\ \A m \in 1..(n - 1) : s \notin said[m].subjects
      known == UNION {said[n].subjects : n \in DOMAIN said}
  IN  /\ reports.decided = [n \in DOMAIN Decisions(log) |-> Decisions(log)[n].id]
      /\ \A n \in 1..4 :
           LET report == reports.mechanical[n]
           IN  /\ \A e \in report.new : e.subjects \cap known = {}
               /\ \A o \in report.overlaps :
                    o.by = {said[first(s)].id : s \in o.entry.subjects \cap known} /\ o.by # {}
      /\ FindingsCovered(findings, {}) =>
           LET listed == reports.found[1] \o reports.found[2]
           IN  /\ \A id \in ExpectedFindings : Cardinality({n \in DOMAIN listed : listed[n].id = id}) = 1
               /\ Len(listed) = Cardinality(ExpectedFindings)
               /\ \A f \in ToSet(model.functions) :
                    ToSet(RulingsOf(f, findings)) \subseteq ToSet(SupersessionLedger(findings))

\* For every documents the registry is read from, the machine form agrees with the report of the
\* gates and queries, and the standing queries lose no decision and no finding of them.
RegistryFormIsAsReported ==
  \A doc \in registryDocs :
    /\ FormIsAsReported(doc, Testable)
    /\ QueriesLoseNothing(ParseSource(doc.v0, <<doc.old, doc.later>>), doc.log, doc.rows, Testable)

\* The documents are read, never written.
RegistrySpec == registryDocs \in SUBSET RegistryDocs /\ [][FALSE]_registryDocs
================================================================================
