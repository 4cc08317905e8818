---------------------------- MODULE OpportunityBriefs ----------------------------
(***************************************************************************)
(* Opportunity briefs over the census: a desk takes a candidate of the     *)
(* vocabularies as they are, has it drafted through the shield, lets the   *)
(* gate compare every figure with the reads and registers what passes.     *)
(* Slices, reads and the reference of the census come from the caller;     *)
(* nothing ties one to the other.  While a draft is out the registry,      *)
(* which lives in memory, may be refreshed or lost.                        *)
(***************************************************************************)
EXTENDS CensusDimensions, ShieldCall, FiniteSetsExt

CONSTANTS
  Desks,     \* calls of generate_one_brief
  CensusRefs,  \* census_ref: how a caller names a census
  ReadMaps,  \* registry_read_texts: per reference the facts its text states
  Drafts     \* what the model may answer: [text, anchors] over items

VARIABLES
  briefs,    \* the registry's rows, in the order they were written
  desk,      \* the calls
  setting,   \* the environment of the process
  nlp,       \* the shield's model: unloaded, loaded, failed
  refreshed  \* history: the census of the last refresh, and how many rows there were then

briefVars == <<briefs, desk, setting, nlp, refreshed>>

NeverRefreshed == [census |-> Absent, rows |-> 0]
BriefsInit ==
  /\ CensusInit
  /\ briefs = <<>> /\ desk = [w \in Desks |-> [pc |-> "idle"]]
  /\ setting \in Settings /\ nlp = "unloaded" /\ refreshed = NeverRefreshed

Slices == UNION {{<<kind, vocabulary[kind][i]>> : i \in DOMAIN vocabulary[kind]} : kind \in Kinds}
\* enumerate_candidates: each slice, each pair, and the estate, which may be empty.
Candidates ==
  {[scope |-> "slice", slices |-> s] : s \in kSubset(1, Slices)} \cup
  {[scope |-> "combined", slices |-> s] : s \in kSubset(2, Slices)} \cup
  {[scope |-> "estate", slices |-> Slices]}

\* verify_brief_grounding: every anchor's value stands in the raw text of its read, and every
\* numeral found in the brief is the value of an anchor, of whatever read.
AnchorsStand(draft, reads) ==
  \A a \in draft.anchors : a.ref \in DOMAIN reads /\ StandsIn(a.value, reads[a.ref])
\* Mutant: only what is anchored is compared.
Grounded_AnchorsOnly(draft, reads) == AnchorsStand(draft, reads)
Grounded(draft, reads) ==
  /\ AnchorsStand(draft, reads)
  /\ \A item \in draft.text : \A n \in NumeralsOf(item) : Fact(n) \in {a.value : a \in draft.anchors}

\* BriefRegistry.write: the last row of the same key is marked stale and kept.
BriefKey(row) == <<row.scope, row.slices, row.census>>
\* Mutant: a new row leaves the one before it fresh.
Written_KeepsPrior(rows, row) == Append(rows, row)
Written(rows, row) ==
  Append([i \in DOMAIN rows |->
            IF BriefKey(rows[i]) = BriefKey(row) THEN [rows[i] EXCEPT !.stale = TRUE] ELSE rows[i]], row)

Begin(w, candidate, reads, census) ==
  /\ desk[w].pc = "idle"
  /\ desk' = [desk EXCEPT ![w] =
       [pc |-> "begun", scope |-> candidate.scope, slices |-> candidate.slices,
        reads |-> reads, census |-> census]]
  /\ UNCHANGED <<censusVars, briefs, setting, nlp, refreshed>>
\* synthesise_brief up to the model: loading the shield's model blocks the event loop, so
\* nothing happens between.
Ask(w, loads) ==
  LET loaded == IF KeyMissing(setting) THEN nlp ELSE EnsureSpacy(nlp, loads)
      told == BeforeTheModel(setting, loaded)
  IN  /\ desk[w].pc = "begun"
      /\ nlp' = loaded
      /\ desk' = [desk EXCEPT ![w].pc = IF told = "ask" THEN "asked" ELSE told]
      /\ UNCHANGED <<censusVars, briefs, setting, refreshed>>
Fail(w, fault) ==
  /\ desk[w].pc = "asked"
  /\ desk' = [desk EXCEPT ![w].pc = AfterTheModel(fault)]
  /\ UNCHANGED <<censusVars, briefs, setting, nlp, refreshed>>
\* generate_one_brief from the draft to its telemetry.
Return(w, answer) ==
  LET draft == ReidentifiedDraft(answer)
      row == [scope |-> desk[w].scope, slices |-> desk[w].slices, census |-> desk[w].census,
              text |-> draft.text, reads |-> desk[w].reads, by |-> w, stale |-> FALSE]
      good == Grounded(draft, desk[w].reads)
  IN  /\ desk[w].pc = "asked"
      /\ desk' = [desk EXCEPT ![w].pc = IF good THEN "success" ELSE "grounding_reject"]
      /\ briefs' = IF good THEN Written(briefs, row) ELSE briefs
      /\ UNCHANGED <<censusVars, setting, nlp, refreshed>>

\* refresh_on_census_change: it does not know of the drafts that are out.
Refreshed(rows, census) ==
  [i \in DOMAIN rows |-> IF rows[i].census # census THEN [rows[i] EXCEPT !.stale = TRUE] ELSE rows[i]]
RefreshOnCensusChange(census) ==
  /\ briefs' = Refreshed(briefs, census)
  /\ refreshed' = [census |-> census, rows |-> Len(briefs)]
  /\ UNCHANGED <<censusVars, desk, setting, nlp>>

\* The registry, the calls and what the shield remembers are in memory.
BriefsCrash ==
  /\ CensusDeath
  /\ briefs' = <<>> /\ nlp' = "unloaded" /\ refreshed' = NeverRefreshed
  /\ desk' = [w \in Desks |-> IF desk[w].pc = "idle" THEN desk[w] ELSE [pc |-> "lost"]]
  /\ UNCHANGED setting

DeskNext ==
  \E w \in Desks :
    \/ \E candidate \in Candidates, reads \in ReadMaps, census \in CensusRefs : Begin(w, candidate, reads, census)
    \/ \E loads \in BOOLEAN : Ask(w, loads)
    \/ \E fault \in Faults : Fail(w, fault)
    \/ \E answer \in Drafts : Return(w, answer)
BriefsNext == DeskNext \/ (\E census \in CensusRefs : RefreshOnCensusChange(census)) \/ BriefsCrash
\* Recordings go on beside the briefs.
BriefsSpec ==
  BriefsInit /\ [][BriefsNext \/ (Records /\ UNCHANGED briefVars)]_<<censusVars, briefVars>>

------------------------------------------------------------------------------
\* Per candidate and census one brief at most is fresh, and of those the last refresh saw only
\* the ones that name its census; a draft that was out comes back fresh.  Every numeral a brief
\* shows, the last digits of a masked fact among them, stands in the raw text of a read it was
\* given.  Success is told of a brief that is on record.
FiguresStand(row) ==
  \A item \in row.text : \A n \in NumeralsOf(item) :
    \E ref \in DOMAIN row.reads : StandsIn(Fact(n), row.reads[ref])
BriefsStand ==
  /\ \A i \in DOMAIN briefs :
       /\ FiguresStand(briefs[i])
       /\ \A j \in DOMAIN briefs :
            i # j /\ BriefKey(briefs[i]) = BriefKey(briefs[j]) => briefs[i].stale \/ briefs[j].stale
       /\ i <= refreshed.rows => briefs[i].stale \/ briefs[i].census = refreshed.census
  /\ \A w \in Desks : desk[w].pc = "success" => \E i \in DOMAIN briefs : briefs[i].by = w

\* The census says what its vocabularies hold, and the briefs what their reads do.
CensusAndBriefsStand == CensusInVocabulary /\ BriefsStand
================================================================================
