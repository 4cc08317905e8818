---------------------------- MODULE ExtractionParams ----------------------------
(***************************************************************************)
(* The block of parameters a unit is extracted with: what the catalogue    *)
(* accepts per modality, and the comparison of two runs, which looks at    *)
(* the anchors only and refuses runs that drew at random.                  *)
(***************************************************************************)
EXTENDS Naturals, Sequences, FiniteSets

\* A block maps keys to values; a value is plain or a block of its own.
Plain(value) == [plain |-> value]
Block(of) == [block |-> of]
IsBlock(value) == "block" \in DOMAIN value
None == Plain("None")

Base == {"provider_id", "provider_version", "extraction_run_id", "extracted_at"}
AudioDecoding == {"beam_size", "temperature", "vad_threshold"}
VisionDecoding == {"prompt_template_id", "max_tokens", "temperature"}
Required ==
  [audio |-> {"sample_rate_hz", "chunk_ms", "model_decoding_params"},
   video |-> {"keyframe_strategy", "vision_decoding_params"},
   image |-> {"target_resolution", "vision_decoding_params"},
   text |-> {"source_format", "max_chars", "encoding"},
   transcript |-> {"source_format", "gold_transcript_hash"},
   composite |-> {"source_artifact_refs", "aggregation_strategy"}]
Optional ==
  [audio |-> {}, video |-> {"keyframe_interval_ms", "keyframe_count", "audio"}, image |-> {"ocr_engine"},
   text |-> {"ocr_engine"}, transcript |-> {}, composite |-> {}]
SubKeys ==
  [model_decoding_params |-> AudioDecoding, vision_decoding_params |-> VisionDecoding, audio |-> Required.audio]
Enums ==
  [video |-> [keyframe_strategy |-> {"every_n_seconds", "scene_change", "uniform_n"}],
   text |-> [source_format |-> {"pdf", "docx", "pptx", "txt", "md", "rtf", "csv", "xlsx"}],
   transcript |-> [source_format |-> {"vtt", "srt", "json"}],
   composite |-> [aggregation_strategy |-> {"union", "weighted_merge", "summary"}]]

MandatoryKeys(modality) == Base \cup Required[modality]
\* Every mandatory key is an anchor but the time of the run; an optional one is none.
\* Mutant: the time of the run is compared as well.
ReproducibilityKeys_All(modality) == MandatoryKeys(modality)
ReproducibilityKeys(modality) == MandatoryKeys(modality) \ {"extracted_at"}

\* The paths at which a temperature is not zero, the provider's own extras included.
RECURSIVE Warm(_)
Warm(params) ==
  {<<k>> : k \in {k \in DOMAIN params : k = "temperature" /\ params[k] # Plain("0")}} \cup
  UNION {{<<k>> \o path : path \in Warm(params[k].block)} :
           k \in {k \in DOMAIN params \ {"temperature"} : IsBlock(params[k])}}
Deterministic(params) == Warm(params) = {}

Got(params, k) == IF k \in DOMAIN params THEN params[k] ELSE None

\* A nested block has the required keys of its own schema and is not looked into any further.
NestedAccepted(k, value) == IsBlock(value) /\ SubKeys[k] \subseteq DOMAIN value.block

\* validate_extraction_params, which every unit runs when it is built.
ParamsAccepted(modality, params) ==
  /\ modality \in DOMAIN Required
  /\ DOMAIN params \subseteq MandatoryKeys(modality) \cup Optional[modality] \cup {"provider_extras"}
  /\ MandatoryKeys(modality) \subseteq DOMAIN params
  /\ \A k \in DOMAIN params \cap DOMAIN SubKeys : NestedAccepted(k, params[k])
  /\ modality \in DOMAIN Enums =>
       \A k \in DOMAIN Enums[modality] : params[k] \in {Plain(value) : value \in Enums[modality][k]}
  /\ modality = "video" =>
       /\ params["keyframe_strategy"] = Plain("every_n_seconds") => Got(params, "keyframe_interval_ms") # None
       /\ params["keyframe_strategy"] = Plain("uniform_n") => Got(params, "keyframe_count") # None

CompareRuns(modality, a, b) ==
  IF Deterministic(a) /\ Deterministic(b)
  THEN [refused |-> FALSE, failing |-> {},
        equal |-> \A k \in ReproducibilityKeys(modality) : Got(a, k) = Got(b, k)]
  ELSE [refused |-> TRUE, failing |-> Warm(a) \cup Warm(b), equal |-> FALSE]

-----------------------------------------------------------------------------
(* Two accepted blocks compared either way round give one answer.  A       *)
(* decoding temperature of the catalogue that is not zero refuses it;       *)
(* otherwise runs that differ in their time alone are equal, equal runs     *)
(* differ at most in their time, the optional keys and the extras, and      *)
(* unequal ones differ in a key both were bound to carry (compare_runs).    *)
DifferIn(a, b) == {k \in DOMAIN a \cup DOMAIN b : Got(a, k) # Got(b, k)}
DrewAtRandom(params) ==
  \E k \in {"model_decoding_params", "vision_decoding_params"} \cap DOMAIN params :
     params[k].block["temperature"] # Plain("0")
ComparisonIsHonest(modality, a, b) ==
  LET report == CompareRuns(modality, a, b) IN
  ParamsAccepted(modality, a) /\ ParamsAccepted(modality, b) =>
    /\ report = CompareRuns(modality, b, a)
    /\ DrewAtRandom(a) \/ DrewAtRandom(b) => report.refused
    /\ report.refused <=> report.failing # {}
    /\ ~report.refused /\ DifferIn(a, b) \subseteq {"extracted_at"} => report.equal
    /\ report.equal => DifferIn(a, b) \subseteq {"extracted_at", "provider_extras"} \cup Optional[modality]
    /\ ~report.refused /\ ~report.equal =>
         (DifferIn(a, b) \cap MandatoryKeys(modality)) \ {"extracted_at"} # {}
================================================================================
