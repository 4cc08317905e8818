--------------------------- MODULE OccurrencePipeline ----------------------------
(***************************************************************************)
(* The audio estate, from a recording to the units that say where a piece  *)
(* of it was heard again: the recording gets an identity from its content, *)
(* is cut into batches, its frames become segments of speech and           *)
(* non-speech, its spans are matched against the first of each fingerprint *)
(* and every repetition becomes a unit that walks back to that first one.  *)
(* Times are in steps of the smallest unit the properties need.            *)
(***************************************************************************)
EXTENDS UnitRings

CONSTANTS
  Threshold, MinSpeech, MinSilence, Frame,  \* the voice activity parameters, a frame's length
  MinWindow, MaxWindow                      \* the bounds of a batch

ASSUME WindowAssumption == MinWindow \in Nat \ {0} /\ MaxWindow \in Nat /\ MinWindow <= MaxWindow

\* The canonical identity: the content and the name the object has in its folder.
CanonicalId(object) == <<object.content, Last(object.path)>>

\* reduce_probes_to_segments: maximal runs of one kind over the probes in time order, of which
\* those that last long enough are reported.  A run that is not speech is named by its most
\* frequent hint, the first of several.
InTime(probes) == SortSeq(probes, LAMBDA p, q : p.t < q.t)
Speech(probe) == probe.probability >= Threshold
MajorityHint(hints) ==
  LET count(i) == Cardinality({j \in DOMAIN hints : hints[j] = hints[i]})
      most == Min({i \in DOMAIN hints : \A j \in DOMAIN hints : count(i) >= count(j)})
  IN  IF hints[most] = "speech" THEN "unknown" ELSE hints[most]
RunOf(probes, first, last) ==
  [start |-> probes[first].t,
   end |-> IF last = Len(probes) THEN probes[last].t + Frame ELSE probes[last + 1].t,
   speech |-> Speech(probes[first]),
   content |-> IF Speech(probes[first]) THEN "speech"
               ELSE MajorityHint([i \in 1..(last - first + 1) |-> probes[first + i - 1].hint]),
   confidence |-> <<MapThenSumSet(LAMBDA i : probes[i].probability, first..last), last - first + 1>>]
Runs(probes) ==
  LET opens == {i \in DOMAIN probes : i > 1 => Speech(probes[i]) # Speech(probes[i - 1])}
      closes(i) == Min({j \in i..Len(probes) : j = Len(probes) \/ j + 1 \in opens})
      firsts == SetToSortSeq(opens, <)
  IN  [n \in DOMAIN firsts |-> RunOf(probes, firsts[n], closes(firsts[n]))]
\* Mutant: a run just as long as it must be is dropped.
LongEnough_Strictly(run) == run.end - run.start > IF run.speech THEN MinSpeech ELSE MinSilence
LongEnough(run) == run.end - run.start >= IF run.speech THEN MinSpeech ELSE MinSilence
VadSegments(probes) == SelectSeq(Runs(InTime(probes)), LongEnough)

\* segment: blocks of the programme as they are given, short ones left out, or windows of one
\* length.  A window or a block out of bounds raises.
Invalid == [ok |-> FALSE, batches |-> <<>>]
Batches(spans) == [ok |-> TRUE, batches |-> spans]
SegmentByBlocks(blocks, duration) ==
  IF \E i \in DOMAIN blocks : blocks[i][1] < 0 \/ blocks[i][2] > duration THEN Invalid
  ELSE Batches(SelectSeq(blocks, LAMBDA block : block[2] >= block[1] + MinWindow))
Segment(duration, blocks, window) ==
  CASE duration = 0 -> Batches(<<>>)
    [] duration > 0 /\ window \notin MinWindow..MaxWindow -> Invalid
    [] duration > 0 /\ window \in MinWindow..MaxWindow /\ blocks # <<>> -> SegmentByBlocks(blocks, duration)
    [] OTHER -> Batches([i \in 1..((duration + window - 1) \div window) |->
                           <<(i - 1) * window, Min({i * window, duration})>>])

\* emit_occurrence_if_duplicate over spans in the order they come: the first of a fingerprint
\* is its canonical, news never becomes an occurrence.
Fingerprint(span) == <<span.sound, span.start, span.end>>
Occurrence(span, canonical) ==
  [canonical |-> canonical, source |-> CanonicalId(span.object), span |-> span, requeue |-> canonical]
\* Mutant: a repetition takes the place of what it repeats.
Deduped_Latest(index, span) ==
  LET fp == Fingerprint(span)
      seen == fp \in DOMAIN index.canonicals
  IN  [canonicals |-> (fp :> CanonicalId(span.object)) @@ index.canonicals,
       out |-> IF seen /\ ~span.news THEN Append(index.out, Occurrence(span, index.canonicals[fp])) ELSE index.out]
Deduped(index, span) ==
  LET fp == Fingerprint(span)
      seen == fp \in DOMAIN index.canonicals
  IN  [canonicals |-> index.canonicals @@ (fp :> CanonicalId(span.object)),
       out |-> IF seen /\ ~span.news THEN Append(index.out, Occurrence(span, index.canonicals[fp])) ELSE index.out]
Occurrences(spans) == FoldLeft(Deduped, [canonicals |-> <<>>, out |-> <<>>], spans).out

\* build_occurrence_unit: an audio unit with the canonical in its locator, always an utterance.
OccurrenceParams ==
  [k \in MandatoryKeys("audio") |->
     IF k = "model_decoding_params" THEN Block([s \in AudioDecoding |-> Plain("0")]) ELSE Plain(k)]
OccurrenceUnit(occurrence, source, row) ==
  [canonical |-> occurrence.canonical, raw |-> occurrence.requeue, lineage |-> <<occurrence.span.batch>>] @@
  Unit("audio", source, <<occurrence.span.start, occurrence.span.end>>, NoOne, {}, OccurrenceParams,
       Ring("utterance", row))
Chunked(units, size) ==
  [i \in 1..((Len(units) + size - 1) \div size) |-> SubSeq(units, (i - 1) * size + 1, Min({i * size, Len(units)}))]
\* resolve_canonical_pointer: the canonical of the locator, or else the source.
CanonicalPointer(unit) ==
  [canonical |-> IF "canonical" \in DOMAIN unit THEN unit.canonical ELSE unit.source,
   span |-> unit.span, lineage |-> IF "lineage" \in DOMAIN unit THEN unit.lineage ELSE <<>>]

-----------------------------------------------------------------------------
(* Segments come in order and do not overlap, say of every probe in them   *)
(* what it says, and leave out no run that lasts as long as it must.       *)
SegmentsAreHeard(probes) ==
  LET segments == VadSegments(probes)
      sorted == InTime(probes)
      n == Len(sorted)
      end(j) == IF j = n THEN sorted[n].t + Frame ELSE sorted[j + 1].t
  IN  /\ \A i, j \in DOMAIN segments : i < j => segments[i].end <= segments[j].start
      /\ \A i \in DOMAIN segments, p \in ToSet(probes) :
           segments[i].start <= p.t /\ p.t < segments[i].end => Speech(p) = segments[i].speech
      /\ \A i \in 1..n : \A j \in i..n :
           /\ \A m \in i..j : Speech(sorted[m]) = Speech(sorted[i])
           /\ end(j) - sorted[i].t >= (IF Speech(sorted[i]) THEN MinSpeech ELSE MinSilence)
           => \E s \in ToSet(segments) : s.start <= sorted[i].t /\ end(j) <= s.end

(* Windows tile the recording.  A block at least the minimum long is a      *)
(* batch, and none of the batches of a recording reaches beyond it.         *)
BatchesTile(duration, blocks, window) ==
  LET cut == Segment(duration, blocks, window)
      batches == cut.batches
  IN  cut.ok =>
        /\ \A i \in DOMAIN batches :
             0 <= batches[i][1] /\ batches[i][1] < batches[i][2] /\ batches[i][2] <= duration
        /\ blocks = <<>> =>
             /\ \A at \in 0..(duration - 1) :
                  Cardinality({i \in DOMAIN batches : batches[i][1] <= at /\ at < batches[i][2]}) = 1
             /\ \A i \in DOMAIN batches : batches[i][2] - batches[i][1] < MinWindow => i = Len(batches)
        /\ duration > 0 => \A b \in ToSet(blocks) : b[2] - b[1] >= MinWindow => b \in ToSet(batches)

(* Every span but news is the first of its fingerprint or one unit that    *)
(* walks back to the recording of that first one, in whichever chunk; the  *)
(* units are accepted, converge, and carry no claim above an utterance.    *)
RepetitionsWalkBack(spans, size) ==
  LET out == Occurrences(spans)
      units == [i \in DOMAIN out |-> OccurrenceUnit(out[i], <<"estate">>, LowestRow)]
      chunks == Chunked(units, size)
      firstOf(i) == Min({j \in DOMAIN spans : Fingerprint(spans[j]) = Fingerprint(spans[i])})
      repeats == SetToSortSeq({i \in DOMAIN spans : firstOf(i) < i /\ ~spans[i].news}, <)
  IN  /\ Len(units) = Len(repeats) /\ FlattenSeq(chunks) = units
      /\ \A i \in DOMAIN chunks : Len(chunks[i]) \in 1..size
      /\ \A i \in DOMAIN repeats :
           /\ CanonicalPointer(units[i]).canonical = CanonicalId(spans[firstOf(repeats[i])].object)
           /\ CanonicalPointer(units[i]).lineage = <<spans[repeats[i]].batch>>
           /\ UnitAccepted(units[i]) /\ Deterministic(units[i].params)
      /\ units # <<>> => RunSolva(units, "fact").kind = "refusal" /\ RunSolva(units, "utterance").claim = "was stated"
================================================================================
