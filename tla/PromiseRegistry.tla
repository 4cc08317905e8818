---------------------------- MODULE PromiseRegistry ----------------------------
(***************************************************************************)
(* The machine-readable registry of functions and promises: its tables are *)
(* read from a document and its supplements, judged by gates, scanned by   *)
(* standing queries, and rendered from a consolidated document.            *)
(*                                                                         *)
(* A text is a sequence of lines: a table row with its cells, the rule     *)
(* under a header, or prose.  A promise cell is the set of tokens it       *)
(* names, a service trace the set of steps without their annotations; the  *)
(* cells alike for every operator (mandate, cost, owner, ...) are one.     *)
(* Every file ends its last line, so a blank line lies between two files.  *)
(***************************************************************************)
EXTENDS Naturals, Sequences, SequencesExt, FiniteSets

CONSTANT Blank

Prose == [kind |-> "prose"]
Rule == [kind |-> "rule"]
Cells(row) == [kind |-> "row", cells |-> row]

PromiseHeader == <<"promise_id", "text">>
FunctionHeader == <<"function_id", "governor", "promise", "service_trace", "surface", "enforcement",
                    "dependencies", "owner">>
Column(name) == CHOOSE i \in DOMAIN FunctionHeader : FunctionHeader[i] = name

PartIISteps == {"S3.prove", "S4.verify"}
RetiredSteps == {"S3.prove-end-to-end", "S4.verify-receipt"}
Governors == {"SyniSense", "Named surfaces"}
Narrative == "(narrative)"      \* a step wholly in parentheses
WholeJourney == "S1..S5"

------------------------------------------------------------------------------
\* The entries of a sequence at some of its places, in their order.
EntriesAt(seq, places) == FlattenSeq([i \in DOMAIN seq |-> IF i \in places THEN <<seq[i]>> ELSE <<>>])

\* _iter_pipe_tables: runs of consecutive table lines, their rules stripped, of two rows or more.
InTable(line) == line.kind # "prose"
Begins(text, i) == InTable(text[i]) /\ (i = 1 \/ ~InTable(text[i - 1]))
EndsOf(text, i) ==
  {j \in i..Len(text) : (\A k \in i..j : InTable(text[k])) /\ (j = Len(text) \/ ~InTable(text[j + 1]))}
TableAt(text, i) ==
  LET lines == SubSeq(text, i, CHOOSE j \in EndsOf(text, i) : TRUE)
  IN  EntriesAt(lines, {n \in DOMAIN lines : lines[n].kind = "row"})
Tables(text) ==
  LET tables == [i \in DOMAIN text |-> IF Begins(text, i) THEN TableAt(text, i) ELSE <<>>]
  IN  EntriesAt(tables, {i \in DOMAIN text : Len(tables[i]) >= 2})

\* parse_promise_table: short rows and rows without an identifier are skipped.
PromisesOf(table) ==
  IF table[1].cells # PromiseHeader THEN {}
  ELSE {table[i].cells[1] : i \in {j \in 2..Len(table) : Len(table[j].cells) >= Len(PromiseHeader)}} \ {Blank}

\* A short row is filled where the dependencies column stands; a long one is cut.
Padded(row) ==
  LET at == Column("dependencies")
      before == SubSeq(row, 1, IF Len(row) < at THEN Len(row) ELSE at - 1)
      missing == IF Len(row) < Len(FunctionHeader) THEN Len(FunctionHeader) - Len(row) ELSE 0
  IN  SubSeq(before \o [i \in 1..missing |-> Blank] \o SubSeq(row, Len(before) + 1, Len(row)),
             1, Len(FunctionHeader))

\* parse_function_table: a row without an identifier is skipped, no dependencies read "none".
FunctionOf(cells) ==
  LET cell(name) == Padded(cells)[Column(name)]
      list(name) == IF cell(name) = Blank THEN {} ELSE cell(name)
  IN  [id |-> cell("function_id"), governor |-> cell("governor"),
       promise |-> list("promise"), trace |-> list("service_trace"),
       surface |-> cell("surface"), enforcement |-> cell("enforcement"),
       dependencies |-> IF cell("dependencies") = Blank THEN "none" ELSE cell("dependencies"),
       owner |-> cell("owner"), source |-> Blank]
FunctionsOf(table) ==
  LET functions == [i \in 1..(Len(table) - 1) |-> FunctionOf(table[i + 1].cells)]
  IN  IF table[1].cells # FunctionHeader THEN <<>>
      ELSE EntriesAt(functions, {i \in DOMAIN functions : functions[i].id # Blank})

\* The promises and the functions of a text, these with the name of their source.
FunctionsIn(text) ==
  LET tables == Tables(text) IN FlattenSeq([n \in DOMAIN tables |-> FunctionsOf(tables[n])])
Sourced(functions, source) == [i \in DOMAIN functions |-> [functions[i] EXCEPT !.source = source]]
ParseText(text, source) ==
  [promises  |-> UNION {PromisesOf(table) : table \in ToSet(Tables(text))},
   functions |-> Sourced(FunctionsIn(text), source)]

Glue(texts) == FlattenSeq([n \in DOMAIN texts |-> Append(texts[n], Prose)])

\* parse_source: the files as one text; a row of a supplement's id takes its name as source.
ParseSource(v0, supplements) ==
  LET all == ParseText(Glue(<<v0>> \o supplements), "v0.md")
      inSupplement == {f.id : f \in UNION {ToSet(ParseText(supplements[n], "supplement").functions) :
                                             n \in DOMAIN supplements}}
  IN  [promises |-> all.promises,
       functions |-> [i \in DOMAIN all.functions |->
         [all.functions[i] EXCEPT !.source = IF all.functions[i].id \in inSupplement THEN "supplement" ELSE @]]]

\* The first of each identifier.
Deduplicated(functions) ==
  EntriesAt(functions, {i \in DOMAIN functions : \A j \in 1..(i - 1) : functions[j].id # functions[i].id})

\* parse_v1_source: the consolidated text, then the supplements that came after it, each on its own.
ParseV1(v1, later) ==
  LET parts == <<ParseText(v1, "v1.md")>> \o [n \in DOMAIN later |-> ParseText(later[n], "supplement")]
  IN  [promises |-> UNION {parts[n].promises : n \in DOMAIN parts},
       functions |-> Deduplicated(FlattenSeq([n \in DOMAIN parts |-> parts[n].functions]))]

------------------------------------------------------------------------------
IsPromiseToken(token) == token[1] = "PROM"
PromTokens(promise) == {token \in promise : IsPromiseToken(token)}

\* check_mrr_g1_schema_conformance: no mandatory field of a function is empty.
SchemaErrors(model) ==
  {f \in ToSet(model.functions) :
     f.promise = {} \/ f.trace = {} \/ Blank \in {f.governor, f.surface, f.enforcement, f.owner}}

\* check_mrr_g2_vocabulary_lock.
\* Mutant: a retired alias passes.
VocabularyErrors_RetiredPass(model) ==
  {f \in ToSet(model.functions) :
     \/ PromTokens(f.promise) \ model.promises # {}
     \/ f.trace \ (PartIISteps \cup RetiredSteps \cup {Narrative, WholeJourney}) # {}
     \/ f.governor \notin Governors}

VocabularyErrors(model) ==
  {f \in ToSet(model.functions) :
     \/ PromTokens(f.promise) \ model.promises # {}
     \/ f.trace \ (PartIISteps \cup {Narrative, WholeJourney}) # {}
     \/ f.governor \notin Governors}

\* scan_q1_redundancy: pairs of rows with the same promises and the same surface.
Redundancies(model) ==
  {pair \in (DOMAIN model.functions) \X (DOMAIN model.functions) :
     /\ pair[1] < pair[2]
     /\ LET a == model.functions[pair[1]]
            b == model.functions[pair[2]]
        IN  /\ PromTokens(a.promise) = PromTokens(b.promise) /\ PromTokens(a.promise) # {}
            /\ a.surface = b.surface /\ a.surface # Blank}

\* scan_q2_orphans, by sub-case.
Orphans(model) ==
  LET functions == ToSet(model.functions)
      proms(f) == PromTokens(f.promise)
      of(case, found) == {<<case, f.id>> : f \in found}
  IN  UNION {of("a", {f \in functions : f.promise = {}}),
             of("b", {f \in functions : proms(f) # {} /\ proms(f) \cap model.promises = {}}),
             of("c", {f \in functions : f.trace = {}}),
             of("d", {f \in functions :
                        f.trace \ ({Narrative, WholeJourney} \cup PartIISteps) # {}})}

\* scan_q3_gaps: promises and journey steps no row names.
Gaps(model) ==
  LET functions == ToSet(model.functions)
  IN  {<<"a", p>> : p \in model.promises \ UNION {f.promise : f \in functions}}
      \cup {<<"b", s>> : s \in PartIISteps \ UNION {f.trace : f \in functions}}

\* scan_q4_behavioral_rules: rows whose enforcement names no gate or test.
Unverified(model, testable) ==
  {f \in ToSet(model.functions) : f.enforcement \notin testable /\ f.surface \notin testable}

------------------------------------------------------------------------------
\* The gates and the standing queries read the first document with all supplements, and the
\* machine form is rendered from the consolidated one.  While that one holds the bodies of
\* the first and of the older supplements, nothing is wrong with a row of the machine form
\* that the queries do not report, and green gates leave no orphan in either: two parsers,
\* the gates and the scans agree.
FormIsAsReported(doc, testable) ==
  LET gated == ParseSource(doc.v0, <<doc.old, doc.later>>)
      form == ParseV1(Glue(<<doc.v0, doc.old>>), <<doc.later>>)
      ids(functions) == {f.id : f \in functions}
      pairs(model) == {<<model.functions[p[1]].id, model.functions[p[2]].id>> : p \in Redundancies(model)}
  IN  /\ ids(ToSet(form.functions)) = ids(ToSet(gated.functions))
      /\ Orphans(form) \subseteq Orphans(gated)
      /\ SchemaErrors(gated) \cup VocabularyErrors(gated) = {} => Orphans(gated) = {}
      /\ pairs(form) \subseteq pairs(gated)
      /\ ids(Unverified(form, testable)) \subseteq ids(Unverified(gated, testable))
      /\ Gaps(gated) \subseteq Gaps(form)
==============================================================================
