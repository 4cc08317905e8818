-------------------------------- MODULE UnitRings --------------------------------
(***************************************************************************)
(* A normalized unit from the cue it is made of to the conclusion that     *)
(* rests on it: layer C gives it the class its row of the qualification    *)
(* matrix allows, a diarization names its speaker, the ring 5 stamper      *)
(* classifies it again from what it says of itself, the convergence checks *)
(* its signal and Solva concludes under a floor.                           *)
(***************************************************************************)
EXTENDS ExtractionParams, SequencesExt, FiniteSetsExt

CONSTANTS
  NoOne,         \* no speaker, no standing declared
  Declarations,  \* feed_declarations.seed.json: <<reference, standing>> in the file's order
  AuditBuffer    \* entries the stamp audit keeps

\* The matrix, v0: the highest class per genre and standing of the source.
Matrix ==
  [news_anchor_read |-> [primary_recorded |-> "fact", wire_republish |-> "utterance"],
   panel_debate |-> [primary_recorded |-> "utterance", wire_republish |-> "utterance"]]
Rank == [non_factual |-> 0, utterance |-> 1, fact |-> 2]
HasRow(genre, standing) == genre \in DOMAIN Matrix /\ standing \in DOMAIN Matrix[genre]
Ceiling(row) == Matrix[row[1]][row[2]]
LowestRow == <<"panel_debate", "wire_republish">>
Ring(class, row) == [class |-> class, row |-> row]

\* Layer C: the class of the row; a pair without one gets the lowest row and its class.
BaselineRing(genre, standing) ==
  LET row == IF HasRow(genre, standing) THEN <<genre, standing>> ELSE LowestRow
  IN  Ring(Ceiling(row), row)
Unit(modality, source, span, speaker, context, params, ring) ==
  [modality |-> modality, source |-> source, span |-> span, speaker |-> speaker, context |-> context,
   dims |-> {}, edges |-> {}, params |-> params, ring |-> ring]
\* NormalizedUnit's validator.
UnitAccepted(unit) == ParamsAccepted(unit.modality, unit.params)
FromAsr(perception, source, speaker, context, ring) ==
  [i \in DOMAIN perception.cues |->
     Unit("audio", source, perception.cues[i], speaker, context, perception.params, ring)]
FromVision(params, source, context, ring) == Unit("image", source, <<0, 0>>, NoOne, context, params, ring)

\* merge_diarization: the turn that overlaps most, the first of several; with none, no change.
SharedTime(span, turn) ==
  LET shared == Min({span[2], turn.span[2]}) - Max({span[1], turn.span[1]})
  IN  IF Min({span[2], turn.span[2]}) > Max({span[1], turn.span[1]}) THEN shared ELSE 0
\* Mutant: of several the last.
BestTurn_Last(span, turns) ==
  FoldLeft(LAMBDA best, turn :
             IF SharedTime(span, turn) > 0 /\ SharedTime(span, turn) >= best.shared
             THEN [shared |-> SharedTime(span, turn), speaker |-> turn.speaker] ELSE best,
           [shared |-> 0, speaker |-> NoOne], turns)
BestTurn(span, turns) ==
  FoldLeft(LAMBDA best, turn :
             IF SharedTime(span, turn) > best.shared
             THEN [shared |-> SharedTime(span, turn), speaker |-> turn.speaker] ELSE best,
           [shared |-> 0, speaker |-> NoOne], turns)
Diarized(units, turns) ==
  [i \in DOMAIN units |->
     LET best == BestTurn(units[i].span, turns)
     IN  IF units[i].modality = "audio" /\ best.shared > 0
         THEN [units[i] EXCEPT !.speaker = best.speaker] ELSE units[i]]

\* The genre the unit's own words suggest; a panel wins over the news.
Classify(unit) ==
  CASE unit.context \cap {"panel", "debate"} # {} \/ unit.speaker \in {"panellist", "caller"} -> "panel_debate"
    [] /\ unit.speaker = "anchor" \/ unit.context \cap {"newsdesk", "headline", "news"} # {}
       /\ ~(unit.context \cap {"panel", "debate"} # {} \/ unit.speaker \in {"panellist", "caller"})
       /\ unit.modality \in {"audio", "text", "video"} -> "news_anchor_read"
    [] /\ unit.modality = "image" /\ unit.context \cap {"keyframe", "logo"} # {}
       /\ unit.context \cap {"panel", "debate"} = {} -> "news_anchor_read"
    [] OTHER -> "unknown"

\* read_declared: the reference itself, or the first declared one it starts with.
ReadDeclared(source) ==
  LET exact == {i \in DOMAIN Declarations : Declarations[i][1] = source}
      prefix == {i \in DOMAIN Declarations : IsPrefix(Declarations[i][1], source)}
  IN  CASE exact # {} -> Declarations[Min(exact)][2]
        [] exact = {} /\ prefix # {} -> Declarations[Min(prefix)][2]
        [] OTHER -> NoOne

SignalCatalogue ==
  [audio |-> {"prosody", "vocal_emphasis", "affect_valence", "affect_arousal", "speech_rate", "pause_density"},
   video |-> {"visual_emphasis", "scene_change_density", "framing_markedness"},
   image |-> {"visual_emphasis", "composition_markedness"},
   text |-> {"lexical_intensity", "stance_intensity", "hedging_density"}, composite |-> {}]
\* The convergence and the governor each look at the signal.
SignalConforms(unit) == unit.dims \subseteq SignalCatalogue[unit.modality]
DimensionOffenders(unit) ==
  IF unit.modality = "composite" THEN unit.dims ELSE unit.dims \ SignalCatalogue[unit.modality]
OverCeiling(ring) ==
  HasRow(ring.row[1], ring.row[2]) => Rank[ring.class] > Rank[Ceiling(ring.row)]

\* SolvaDepthGovernor.judge over the unit and the ring it would get.
Judge(unit, ring) ==
  CASE DimensionOffenders(unit) # {} -> "dimension_violation"
    [] DimensionOffenders(unit) = {} /\ OverCeiling(ring) -> "floor_violation"
    [] OTHER -> "clean"

\* stamp: what cannot be resolved, and what the governor refuses, is not factual.
Stamped(unit, genre, standing, class, row, decision) ==
  [ring |-> Ring(class, row), audit |-> [unit |-> unit.span, decision |-> decision, judged |-> unit.dims]]
\* Mutant: a refusal of the governor leaves the candidate as it is.
Stamp_KeepsClass(unit, genre, standing) ==
  IF HasRow(genre, standing)
  THEN Stamped(unit, genre, standing, Matrix[genre][standing], <<genre, standing>>,
               IF Judge(unit, Ring(Matrix[genre][standing], <<genre, standing>>)) = "clean" THEN "accept" ELSE "refuse")
  ELSE Stamped(unit, genre, standing, "non_factual", LowestRow, "refuse")
Stamp(unit, genre, standing) ==
  IF ~HasRow(genre, standing) THEN Stamped(unit, genre, standing, "non_factual", LowestRow, "refuse")
  ELSE LET row == <<genre, standing>> IN
       IF Judge(unit, Ring(Ceiling(row), row)) = "clean"
       THEN Stamped(unit, genre, standing, Ceiling(row), row, "accept")
       ELSE Stamped(unit, genre, standing, "non_factual", row, "refuse")
StampOf(unit) == Stamp(unit, Classify(unit), ReadDeclared(unit.source))

\* stamp_audit: the newest entries, newest first.
RecordedAudit(buffer, entry) ==
  LET grown == Append(buffer, entry) IN IF Len(grown) > AuditBuffer THEN Tail(grown) ELSE grown
RecentAudits(buffer, limit) == Reverse(SubSeq(buffer, Max({1, Len(buffer) - limit + 1}), Len(buffer)))

\* Solva: every unit is a candidate, and every candidate load bearing; the conclusion has the
\* least of their classes and says so in its form, or is refused below the floor.
LoadBearing(candidates) == candidates
ConclusionClass(units) == CHOOSE class \in DOMAIN Rank : Rank[class] = Min({Rank[u.ring.class] : u \in ToSet(units)})
ClaimForm == [fact |-> "as it is", utterance |-> "was stated", non_factual |-> "context only"]
Conclusion(units) == [kind |-> "assertion", class |-> ConclusionClass(units), claim |-> ClaimForm[ConclusionClass(units)]]
BelowFloor(class, floor) == Rank[class] < Rank[floor]
\* Mutant: the floor is met when one unit meets it.
Enforce_AnyUnit(units, floor) ==
  IF \A u \in ToSet(units) : BelowFloor(u.ring.class, floor)
  THEN [kind |-> "refusal", class |-> ConclusionClass(units)] ELSE Conclusion(units)
Enforce(units, floor) ==
  IF BelowFloor(ConclusionClass(units), floor)
  THEN [kind |-> "refusal", class |-> ConclusionClass(units)] ELSE Conclusion(units)
\* tension asks every edge of a candidate for fields an edge does not have.
TensionFails(candidates) == \E u \in ToSet(candidates) : u.edges # {}
RunSolva(units, floor) ==
  CASE \E u \in ToSet(units) : ~SignalConforms(u) -> [kind |-> "SignalRingConformanceError"]
    [] (\A u \in ToSet(units) : SignalConforms(u)) /\ TensionFails(units) -> [kind |-> "AttributeError"]
    [] units = <<>> -> [kind |-> "ValueError"]
    [] OTHER -> Enforce(LoadBearing(units), floor)

-----------------------------------------------------------------------------
(* A diarization changes nothing but the speaker, and names one no other   *)
(* turn beats and no earlier one equals (merge_diarization).  Of what layer *)
(* C built the stamp raises no class when both read the same genre and      *)
(* standing, and accepts only a declared, classified unit whose signal      *)
(* converges; every class stays under the ceiling of the row it names       *)
(* (stamp, judge, converge_units).  What Solva asserts as it is rests on    *)
(* facts alone, and it refuses exactly when a unit is below the floor.      *)
SpeakersAreEarned(units, turns) ==
  \A i \in DOMAIN units :
    LET was == units[i]
        is == Diarized(units, turns)[i]
        shares == {j \in DOMAIN turns : SharedTime(was.span, turns[j]) > 0}
    IN  /\ [is EXCEPT !.speaker = was.speaker] = was
        /\ was.modality = "audio" /\ shares # {} =>
             \E j \in shares : /\ is.speaker = turns[j].speaker
                               /\ \A k \in shares : SharedTime(was.span, turns[j]) >= SharedTime(was.span, turns[k])
                               /\ \A k \in 1..(j - 1) : SharedTime(was.span, turns[j]) > SharedTime(was.span, turns[k])
        /\ was.modality # "audio" \/ shares = {} => is = was
UnderItsCeiling(ring) == HasRow(ring.row[1], ring.row[2]) /\ Rank[ring.class] <= Rank[Ceiling(ring.row)]
ClassesAreEarned(unit, genre, standing) ==
  LET stamped == StampOf(unit)
      accepted == stamped.audit.decision = "accept"
  IN  /\ UnderItsCeiling(unit.ring) /\ UnderItsCeiling(stamped.ring)
      /\ accepted <=> stamped.ring.class # "non_factual"
      /\ accepted => /\ SignalConforms(unit) /\ UnitAccepted(unit)
                     /\ stamped.ring.row = <<Classify(unit), ReadDeclared(unit.source)>>
      /\ <<genre, standing>> = <<Classify(unit), ReadDeclared(unit.source)>> =>
           Rank[stamped.ring.class] <= Rank[unit.ring.class]
ConclusionIsEarned(units, floor) ==
  LET result == RunSolva(units, floor)
      stamped == [i \in DOMAIN units |-> StampOf(units[i])]
  IN  /\ result.kind = "assertion" =>
           /\ \A u \in ToSet(units) : Rank[u.ring.class] >= Rank[floor] /\ Rank[u.ring.class] >= Rank[result.class]
           /\ result.claim = "as it is" => \A u \in ToSet(units) : u.ring.class = "fact"
           /\ result.claim = "was stated" => \A u \in ToSet(units) : u.ring.class # "non_factual"
      /\ result.kind = "refusal" => \E u \in ToSet(units) : Rank[u.ring.class] < Rank[floor]
      /\ result.kind = "SignalRingConformanceError" => \E i \in DOMAIN units : stamped[i].audit.decision = "refuse"
AuditsAreLatest(units) ==
  LET entries == [i \in DOMAIN units |-> StampOf(units[i]).audit]
      kept == FoldLeft(RecordedAudit, <<>>, entries)
  IN  \A limit \in 1..AuditBuffer : \A i \in DOMAIN RecentAudits(kept, limit) :
        RecentAudits(kept, limit)[i] = entries[Len(entries) - i + 1]
================================================================================
