----------------------------- MODULE EstateGrammar -----------------------------
(***************************************************************************)
(* The pure rules Service 1 answers by: the reach match, the feasibility   *)
(* of a standard, the grain matrix, licences, eligibility and ranking, the *)
(* class of a conclusion and the grounding of a fluent answer.             *)
(*                                                                         *)
(* Classes are numbers: 0 non_factual, 1 utterance, 2 fact.  A Registry    *)
(* row is [ref, feed, class]; its region is its feed.                      *)
(***************************************************************************)
EXTENDS Naturals, Sequences, SequencesExt, FiniteSets, FiniteSetsExt

CONSTANTS LicenseOf,     \* per feed of the table: its licence class
          DefaultClass,  \* per commissioner: the licence class it asks under
          Numbered       \* the sentences that hold a numeral

Classes == 0..2
Forms == {"qualified_data", "composed_conclusion", "knowledge_artifact", "callable_skill", "model"}
Grains == {"per_claim", "aggregated", "synthesized_whole"}

------------------------------------------------------------------------------
\* A row of the request's reach: in scope and not excluded.
RowMatchesReach(row, reach) == row.feed \notin reach.exclusions /\ row.feed \in reach.scope

\* compute_feasibility: the classes in reach; no row at all means that nothing is known.
Qualifying(rows, reach) == {row \in rows : RowMatchesReach(row, reach)}
Known(rows) == rows # {}
ClassCount(rows) == [class \in Classes |-> Cardinality({row \in rows : row.class = class})]

\* derive_floor_feasibility: some class at or above the floor has a row.
Feasible(count, floor) == \E class \in Classes : class >= floor /\ count[class] > 0

\* dispatch, the admission fork.
Fork(rows, reach, floor) ==
  IF Known(Qualifying(rows, reach)) /\ Feasible(ClassCount(Qualifying(rows, reach)), floor)
  THEN "warm" ELSE "fresh"

\* evaluate_grain_form.
GrainsOf == [qualified_data |-> {"per_claim", "aggregated"},
             composed_conclusion |-> {"synthesized_whole"},
             knowledge_artifact |-> {"per_claim", "aggregated"},
             callable_skill |-> {"per_claim", "synthesized_whole"},
             model |-> {}]
GrainFits(form, grain) == grain \in GrainsOf[form]

------------------------------------------------------------------------------
\* _read_reach_rows: packaging matches the reach again.
\* Mutant: the second match forgets the exclusions.
ReachRows_NoExclusions(rows, reach) == {row \in rows : row.feed \in reach.scope}
ReachRows(rows, reach) == {row \in rows : row.feed \notin reach.exclusions /\ row.feed \in reach.scope}

StandardHardFilter(rows, floor) == {row \in rows : row.class >= floor}

\* derive_license_class_from_commissioner and select_by_class.
SelectByClass(rows, commissioner) ==
  {row \in rows : row.feed \in DOMAIN LicenseOf /\ LicenseOf[row.feed] = DefaultClass[commissioner]}

\* conclusion_class: the floor over the load-bearing rows; the ceiling goes to the refusal.
ConclusionClass(rows) == Min({row.class : row \in rows})
MaxSupported(rows) == Max({row.class : row \in rows})

------------------------------------------------------------------------------
\* eligible_and_rank: the floor is a hard filter; then relevance to the scope, class, ref.
Relevance(record, scope) == IF record.feed = scope THEN 2 ELSE 1
RanksBefore(scope, p, q) ==
  \/ Relevance(p, scope) > Relevance(q, scope)
  \/ Relevance(p, scope) = Relevance(q, scope) /\ p.class > q.class
  \/ Relevance(p, scope) = Relevance(q, scope) /\ p.class = q.class /\ p.ref < q.ref
Eligible(records, floor) == {i \in DOMAIN records : records[i].class >= floor}
\* The sort is stable: equal keys keep the order of the records.
GoesBefore(records, scope, i, j) ==
  \/ RanksBefore(scope, records[i], records[j])
  \/ ~RanksBefore(scope, records[j], records[i]) /\ i < j
Place(records, floor, scope, i) ==
  1 + Cardinality({j \in Eligible(records, floor) : GoesBefore(records, scope, j, i)})
EligibleAndRank(records, floor, scope) ==
  [n \in 1..Cardinality(Eligible(records, floor)) |->
     records[CHOOSE i \in Eligible(records, floor) : Place(records, floor, scope, i) = n]]

\* A plan keeps the source and the feed of what was ranked, its identifier the sources.
TargetsOf(ranked) == [i \in DOMAIN ranked |-> [ref |-> ranked[i].ref, feed |-> ranked[i].feed]]
RefsOf(ranked) == [i \in DOMAIN ranked |-> ranked[i].ref]

------------------------------------------------------------------------------
\* verify_grounding: only load-bearing anchors, every sentence anchored, no empty anchor, and
\* no numeral, since a Registry row carries no text a numeral could be found in.
GroundingPasses(draft, loadBearing) ==
  /\ \A i \in DOMAIN draft.anchors : draft.anchors[i].units \subseteq loadBearing
  /\ \A i \in DOMAIN draft.prose : \E j \in DOMAIN draft.anchors : draft.anchors[j].sentence = draft.prose[i]
  /\ \A i \in DOMAIN draft.anchors : draft.anchors[i].units # {} /\ draft.anchors[i].sentence \notin Numbered
================================================================================
