------------------------------- MODULE MCTables --------------------------------
(***************************************************************************)
(* The pure algorithms, over inputs small enough to list: each initial     *)
(* state is one input of one algorithm, and nothing moves.  Some initial   *)
(* states have no input: from there the streaming reidentifier, the prove  *)
(* console, the tier lock, the census or its briefs run; they share no     *)
(* state.                                                                  *)
(***************************************************************************)
EXTENDS StandingQueries, ShieldText, ShieldStream, ProveRegister, TierLock, OpportunityBriefs,
        OccurrencePipeline, AudioWorkers, Integers

CONSTANTS qa, qn, fd, c1, v1

VARIABLE input

\* Two promises, a note, and rows that differ in what a gate or a query looks at.
P1 == <<"PROM", 1>>
P2 == <<"PROM", 2>>
Note == <<"governance", 8>>
MCClientFacing == {P1}
FunctionRow(id, governor, promise, trace, enforcement, dependencies) ==
  Cells(<<id, governor, promise, trace, "surface", enforcement>> \o dependencies \o <<"Owner">>)
PromiseTable(ids) ==
  <<Cells(PromiseHeader), Rule>> \o SetToSeq({Cells(<<id, "text">>) : id \in ids}) \o <<Prose>>
FunctionTable(row) == <<Cells(FunctionHeader), Rule, row>>

GateDocs ==
  [v0 : {PromiseTable(ids) \o FunctionTable(FunctionRow("f1", governor, promise, trace, enforcement, dependencies)) :
           ids \in {{P1}, {P1, P2}}, governor \in {"SyniSense", "Other"},
           promise \in {Blank, {P1}, {P1, P2}, {Note}},
           trace \in {Blank, {"S3.prove"}, {"S4.verify-receipt"}, {Narrative, WholeJourney}},
           enforcement \in {"test_x", "unknown"}, dependencies \in {<<>>, <<Blank>>}},
   old : {FunctionTable(FunctionRow(id, "SyniSense", {P1}, {"S3.prove"}, "test_x", <<"f1">>)) : id \in {"f1", "f2"}},
   later : {FunctionTable(FunctionRow(id, "SyniSense", {P2}, trace, "test_x", <<>>)) :
              id \in {"f2", "f3"}, trace \in {{"S4.verify"}, {"S9.none"}}},
   log : {<<>>}, rows : {<<>>}]

\* Logs of up to four lines, and findings rows that differ in where the ruling stands.
LogLine(kind, entry, said) == [kind |-> kind, entry |-> entry, said |-> said]
LogLines == {LogLine("heading", "CL-1", {P1}), LogLine("heading", "CL-2", {P1, Fun("f1"), WholeS5}),
  LogLine("section", Blank, {}), LogLine("text", Blank, {Step("S4.verify"), P2}),
  LogLine("text", Blank, {Step("S5.ask"), Surface("surface")})}
FindingRow(query, id, said, ruled) ==
  [query |-> query, id |-> id, subject |-> said, observation |-> {P2}, elsewhere |-> {Fun("f2")},
   ruled |-> ruled, marked |-> "elsewhere"]
FindingRows ==
  LET q2 == FindingRow("Q2", "Q2-1", {P1}, "observation")
      q3 == FindingRow("Q3", "Q3-1", {Step("S3.prove")}, "elsewhere")
      unruled == FindingRow("Q3", "Q3-1", {}, "no")
      note == FindingRow("none", Blank, {Fun("f1")}, "observation")
  IN  {<<>>, <<q2>>, <<q2, q3>>, <<q3, note, q2>>, <<q2, unruled>>, <<q2, q2, q3>>, <<q2, q3, unruled>>}
QueryDocs ==
  [v0 : {PromiseTable({P1, P2}) \o FunctionTable(FunctionRow("f1", "SyniSense", promise, trace, "unknown", <<>>)) :
           promise \in {Blank, {P1}}, trace \in {{"S3.prove"}, {"S9.none"}}},
   old : {FunctionTable(FunctionRow("f2", "SyniSense", {P1}, {"S3.prove"}, "unknown", <<>>))},
   later : {<<>>}, log : BoundedSeq(LogLines, 4), rows : FindingRows]
MCRegistryDocs == GateDocs \cup QueryDocs

\* Up to three hits on a text of three letters; one class finds disjoint spans, and the
\* catalogue's hits are what its lookup leaves of up to two surface forms.
Layer == [CREDIT_CARD |-> 1, MONEY |-> 1, ORG |-> 2, PERSON |-> 3]
HitsOf(type) ==
  {[start |-> s, end |-> e, type |-> type, layer |-> Layer[type], found |-> IF type = "MONEY" THEN 1 ELSE 2] :
     s \in 0..2, e \in 1..3} \cap {h \in [start : 0..2, end : 1..3, type : {type}, layer : 1..3, found : 1..2] : h.start < h.end}
Disjoint(hits) == \A g, h \in hits : g # h => ~Overlap(g, h)
ShieldHits ==
  {cards \cup money \cup orgs \cup persons :
     cards \in {{}} \cup {{h} : h \in HitsOf("CREDIT_CARD")},
     money \in {hits \in kSubset(2, HitsOf("MONEY")) : Disjoint(hits)} \cup {{}},
     orgs \in {TenantHits({g, h}) : g, h \in HitsOf("ORG")} \cup {{}},
     persons \in {{}} \cup {{h} : h \in HitsOf("PERSON")}}
Unshielded == [text |-> <<>>, hits |-> {}]
MCShieldings ==
  {Unshielded} \cup [text : {<<"a", "A", "b">>, <<"a", "b", "A">>}, hits : ShieldHits]

\* Two seeded questions, one of which offers a gap nobody files.
MCSamples == (qa :> "answered") @@ (qn :> "not_extracted_yet")

\* Posts, keys and the names of a census are interchangeable; the requests differ in what the decisions look at.
Symmetry == Permutations(LockPosts) \cup Permutations(LockKeys) \cup Permutations(CensusRefs)
Request(form, fork) == [form |-> form, grain |-> "per_claim", standard |-> "fact", scope |-> 4, fork |-> fork]
MCQuoteRequests ==
  {Request("qualified_data", "warm"), Request("qualified_data", "fresh"), Request("callable_skill", "fresh")}

\* A part of a figure the shield leaves alone, one it rehydrates, two facts it masks, of
\* which one shows its last four digits, and a figure the model makes up; an address has no
\* digits, a stray token a counter.
MCShownAs == [total |-> "plain", spend |-> "rehydrate", card |-> "last4", email |-> "redacted"]
MCNumerals ==
  [n \in {"total", "part", "spend", "card", "four", "guess", "email", "unknown"} |->
     IF n = "email" THEN {} ELSE IF n = "unknown" THEN {"counter"} ELSE {n}]
MCInside == [total |-> {"total", "part"}, spend |-> {"spend"}, card |-> {"card", "four"}, email |-> {"email"}]
MCLastFour == [card |-> "four"]
MCReadMaps == {[r1 |-> {"total", "spend"}, r2 |-> {"card", "email"}]}
Draft(text, anchors) == [text |-> text, anchors |-> {[value |-> a[1], ref |-> a[2]] : a \in anchors}]
MCDrafts ==
  {Draft({item}, {}) : item \in {Fact("guess"), TokenOf("card"), TokenOf("email")}} \cup
  {Draft({TokenOf("email"), item}, {<<item, ref>>}) :
     item \in {Fact("part"), TokenOf("spend"), TokenOf("card"), TokenOf("unknown")},
     ref \in {"r1", "r2", "r3"}} \cup
  {Draft({TokenOf("card")}, {<<Fact("four"), ref>>}) : ref \in {"r1", "r2"}}
\* Under the briefs one feed is recorded once, and the census only grows.
Observation(value) == [value |-> value, source |-> IF value = Absent THEN Absent ELSE "census_observed"]
CensusGrows ==
  \E surface, genre \in {v1, Absent} : Record(c1, fd, Observation(surface), Observation(genre))

\* Blocks of two modalities that differ from the same one in up to one key each.
ImageParams ==
  [k \in MandatoryKeys("image") |->
     IF k = "vision_decoding_params" THEN Block([s \in VisionDecoding |-> Plain("0")]) ELSE Plain("a")]
VideoParams ==
  [k \in MandatoryKeys("video") \cup {"audio", "keyframe_count"} |->
     CASE k = "vision_decoding_params" -> Block([s \in VisionDecoding |-> Plain("0")])
       [] k = "audio" -> Block([s \in Required.audio |-> Plain("a")])
       [] k = "keyframe_strategy" -> Plain("uniform_n")
       [] OTHER -> Plain("a")]
Extras == Block("temperature" :> Plain("1"))
Edited(params) ==
  {params} \cup {[k \in DOMAIN params \ {gone} |-> params[k]] : gone \in DOMAIN params} \cup
  {(changed :> Plain("b")) @@ params : changed \in DOMAIN params \cup {"ocr_engine", "unknown"}} \cup
  {("provider_extras" :> extras) @@ params : extras \in {Plain("b"), Extras}} \cup
  {("vision_decoding_params" :> Block((s :> Plain("1")) @@ params["vision_decoding_params"].block)) @@ params :
     s \in VisionDecoding} \cup
  {("keyframe_strategy" :> Plain("every_n_seconds")) @@ params}

\* Units of two rings, with a signal that conforms and one that does not, and with an edge.
MCDeclarations == << <<<<"hour", "audio">>, "primary_recorded">>, <<<<"hour", "text">>, "wire_republish">>,
                     <<<<"hour">>, "primary_recorded">> >>
AudioUnit(source, speaker, context, ring, dims, edges) ==
  LET perception == [cues |-> <<<<0, 4>>>>, params |-> OccurrenceParams]
  IN  [FromAsr(perception, source, speaker, context, ring)[1] EXCEPT !.dims = dims, !.edges = edges]
RingPairs == {<<"news_anchor_read", "primary_recorded">>, <<"panel_debate", "primary_recorded">>, <<"talk", NoOne>>}
UnitInputs ==
  [table : {"params"}, modality : {"image"}, a : Edited(ImageParams), b : Edited(ImageParams)] \cup
  [table : {"params"}, modality : {"video"}, a : Edited(VideoParams), b : Edited(VideoParams)] \cup
  [table : {"merge"}, turns : BoundedSeq([span : {<<0, 3>>, <<2, 6>>, <<4, 5>>}, speaker : {"anchor", "caller"}], 3),
   cues : {<<<<0, 4>>>>, <<<<5, 9>>, <<1, 5>>>>}] \cup
  [table : {"stamp"}, pair : RingPairs, source : {<<"hour", "audio">>, <<"hour", "text", "part">>, <<"day">>},
   speaker : {NoOne, "anchor", "caller"}, context : {{}, {"news"}, {"panel"}, {"logo"}},
   dims : {{}, {"prosody"}, {"visual_emphasis"}}, modality : {"audio", "image"}] \cup
  [table : {"solva"}, floor : DOMAIN Rank,
   units : BoundedSeq({AudioUnit(<<"hour", "audio">>, NoOne, {}, Ring(class, LowestRow), dims, edges) :
                         class \in DOMAIN Rank, dims \in {{"prosody"}, {"framing_markedness"}}, edges \in {{}, {"contradicts"}}}, 2)]

\* Up to five frames, recordings of up to nine units of time, and four spans of two recordings.
Probes(n) == {[i \in 1..n |-> [t |-> ts[i], probability |-> p[i], hint |-> h[i]]] :
                ts \in {[i \in 1..n |-> i], [i \in 1..n |-> IF i = 1 THEN n ELSE i - 1], [i \in 1..n |-> 2 * i]},
                p \in [1..n -> {1, 2}], h \in [1..n -> {"music", "speech"}]}
Recorded(name, sound, start, news) ==
  [object |-> [content |-> sound, path |-> <<"estate", name>>], sound |-> sound, start |-> start, end |-> start + 1,
   news |-> news, batch |-> name]
SpanInputs ==
  [table : {"vad"}, probes : UNION {Probes(n) : n \in 1..4}] \cup
  [table : {"cut"}, duration : 0..9, window : 1..5, blocks : BoundedSeq({<<-1, 1>>, <<0, 1>>, <<0, 3>>, <<2, 6>>, <<5, 9>>}, 2)] \cup
  [table : {"spans"}, size : 1..3,
   spans : BoundedSeq({Recorded(name, sound, start, news) :
                         name \in {"n1", "n2"}, sound \in {"s1"}, start \in {0, 1}, news \in BOOLEAN}, 4)]

\* Up to two recordings of five ticks, that may be silent or missing, and three registries.
Part(start, end) == [start |-> start, end |-> end, words |-> {"news"}]
PartLists == {<<>>, <<Part(0, 3)>>, <<Part(1, 5)>>, <<Part(0, 1), Part(1, 5)>>, <<Part(0, 2), Part(3, 4)>>}
Sounds == {Missing} \cup [duration : {5}, segments : PartLists, turns : {<<>>, <<Part(0, 2), Part(3, 5)>>}]
WorkerInputs ==
  [table : {"workers"}, handles : {<<>>, <<"one">>, <<"one", "two">>, <<"two", "one">>},
   sounds : [{"one", "two"} -> Sounds],
   files : {0 :> {ModelId}, 0 :> {"other"}, (0 :> {"other"}) @@ (1 :> {"other", ModelId})}]

inputs == <<input, registryDocs>>
TablesInit ==
  /\ \/ input \in UnitInputs \cup SpanInputs \cup WorkerInputs
     \/ input \in [table : {"registry", "shield", "stream", "prove", "tier", "census", "briefs"}]
  /\ registryDocs \in (IF input.table = "registry" THEN {{doc} : doc \in RegistryDocs} ELSE {{}})
  /\ shielding \in (IF input.table = "shield" THEN Shieldings ELSE {Unshielded})
  /\ ShieldInit /\ ProveInit /\ TierInit /\ BriefsInit
  /\ input.table # "tier" => fleetZero = {}
  /\ input.table # "briefs" => setting = [mode |-> "mock", key |-> FALSE, sdk |-> FALSE]
TablesNext ==
  \/ input.table = "stream" /\ ShieldNext /\ UNCHANGED <<inputs, proveVars, tierVars, censusVars, briefVars>>
  \/ input.table = "prove" /\ ProveNext /\ UNCHANGED <<inputs, shieldVars, tierVars, censusVars, briefVars>>
  \/ input.table = "tier" /\ TierNext /\ UNCHANGED <<inputs, shieldVars, proveVars, censusVars, briefVars>>
  \/ input.table = "census" /\ CensusNext /\ UNCHANGED <<inputs, shieldVars, proveVars, tierVars, briefVars>>
  \/ input.table = "briefs" /\ BriefsNext /\ UNCHANGED <<inputs, shieldVars, proveVars, tierVars>>
  \/ input.table = "briefs" /\ CensusGrows /\ UNCHANGED <<inputs, shieldVars, proveVars, tierVars, briefVars>>
TablesSpec ==
  TablesInit /\ [][TablesNext]_<<inputs, shieldVars, proveVars, tierVars, censusVars, briefVars>>

\* What is said of a unit stands on its source, from the parameters it is extracted with to the
\* conclusion that rests on it and the repetition that walks back to it (ExtractionParams,
\* UnitRings, OccurrencePipeline, AudioWorkers).
UnitsStandOnTheirSources ==
  /\ input.table = "params" => ComparisonIsHonest(input.modality, input.a, input.b)
  /\ input.table = "merge" =>
       LET perception == [cues |-> input.cues, params |-> OccurrenceParams]
       IN  SpeakersAreEarned(FromAsr(perception, <<"hour">>, NoOne, {}, BaselineRing("talk", NoOne)), input.turns)
  /\ input.table = "stamp" =>
       LET ring == BaselineRing(input.pair[1], input.pair[2])
           audio == AudioUnit(input.source, input.speaker, input.context, ring, input.dims, {})
           image == [FromVision(ImageParams, input.source, input.context, ring) EXCEPT !.dims = input.dims]
       IN  ClassesAreEarned(IF input.modality = "audio" THEN audio ELSE image, input.pair[1], input.pair[2])
  /\ input.table = "solva" => ConclusionIsEarned(input.units, input.floor) /\ AuditsAreLatest(input.units)
  /\ input.table = "vad" => SegmentsAreHeard(input.probes)
  /\ input.table = "cut" => BatchesTile(input.duration, input.blocks, input.window)
  /\ input.table = "workers" => RecordingsAreHeard(input.files, input.handles, input.sounds)
  /\ input.table = "spans" => RepetitionsWalkBack(input.spans, input.size)
================================================================================
