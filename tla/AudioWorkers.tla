------------------------------ MODULE AudioWorkers ------------------------------
(***************************************************************************)
(* The transcribing and the diarizing worker: a job's recordings, heard one *)
(* after the other by a model the registry of models names, become the      *)
(* units, the telemetry and the checkpoint of the result; and the versioned *)
(* registry, which grows by whole files.                                    *)
(***************************************************************************)
EXTENDS UnitRings

CONSTANTS
  TicksPerMs,  \* what a model hears is timed finer than the milliseconds of a locator
  Missing      \* a handle that is no file

Ms(t) == t \div TicksPerMs

\* The registry: version -> the models its file names; the highest version is current.
CurrentVersion(files) == Max(DOMAIN files)
CurrentModels(files) == files[CurrentVersion(files)]
Attested(files, model) == model \in CurrentModels(files)
\* register_model: a file of the next version, unless the model is named already.
RegisterModel(files, model) ==
  IF Attested(files, model) THEN files
  ELSE files @@ ((CurrentVersion(files) + 1) :> (CurrentModels(files) \cup {model}))

ModelId == "whisper-tiny"

AsrParams(at) ==
  [provider_id |-> Plain("faster-whisper"), provider_version |-> Plain("1.2.1"),
   extraction_run_id |-> Plain("9.2a-ci"), extracted_at |-> Plain(at),
   sample_rate_hz |-> Plain("16000"), chunk_ms |-> Plain("30000"),
   model_decoding_params |-> Block([language_hint |-> Plain("en"), beam_size |-> Plain("1"),
                                    temperature |-> Plain("0"), vad_threshold |-> Plain("0.5")])]
DiarizeParams(at) ==
  [AsrParams(at) EXCEPT !.provider_id = Plain("faster-whisper-vad-silero"),
     !.extraction_run_id = Plain("9.2a-ci-diarize"), !.model_decoding_params.block.language_hint = None]

\* A sound: its duration, and the segments and the voice turns a model hears in it, which
\* come in order and do not overlap.
SegmentUnit(handle, start, end, words, at) ==
  Unit("audio", handle, <<start, end>>, NoOne, words, AsrParams(at), Ring("utterance", <<"9.2a-ci-fixture", "v0">>))
\* Mutant: a recording in which nothing is said leaves no unit.
AsrUnits_SpeechOnly(handle, sound, at) ==
  [i \in DOMAIN sound.segments |->
     SegmentUnit(handle, Ms(sound.segments[i].start), Ms(sound.segments[i].end), sound.segments[i].words, at)]
AsrUnits(handle, sound, at) ==
  IF sound.segments = <<>> THEN <<SegmentUnit(handle, 0, Ms(sound.duration), {}, at)>>
  ELSE [i \in DOMAIN sound.segments |->
          SegmentUnit(handle, Ms(sound.segments[i].start), Ms(sound.segments[i].end), sound.segments[i].words, at)]

TurnUnit(handle, index, start, end, at) ==
  Unit("audio", handle, <<start, end>>, <<"turn", index>>, {}, DiarizeParams(at),
       Ring("utterance", <<"9.2a-ci-fixture-diarize", "v0">>))
TurnUnits(handle, sound, at) ==
  IF sound.turns = <<>> THEN <<TurnUnit(handle, 0, 0, 0, at)>>
  ELSE [i \in DOMAIN sound.turns |->
          TurnUnit(handle, i - 1, Ms(sound.turns[i].start), Ms(sound.turns[i].end), at)]

\* process_job of either worker: one recording that cannot be read fails the whole job.
ProcessJob(files, handles, sounds, unitsOf) ==
  IF ~Attested(files, ModelId) THEN [kind |-> "ValueError"]
  ELSE IF \E i \in DOMAIN handles : sounds[handles[i]] = Missing THEN [kind |-> "FileNotFoundError"]
  ELSE LET units == FlattenSeq([i \in DOMAIN handles |-> unitsOf[handles[i]]])
       IN  [kind |-> "complete", units |-> units, unit_yield |-> Len(units), broadcast_hours |-> Len(handles),
            completed |-> 1..Len(units), purged |-> TRUE]
Transcribe(files, handles, sounds, at) ==
  ProcessJob(files, handles, sounds, [h \in Range(handles) |-> AsrUnits(h, sounds[h], at)])
Diarize(files, handles, sounds, at) ==
  ProcessJob(files, handles, sounds, [h \in Range(handles) |-> TurnUnits(h, sounds[h], at)])

-----------------------------------------------------------------------------
(* Whatever is heard, a job is complete exactly when its model is           *)
(* registered and every recording can be read; then each recording has a    *)
(* unit of its own, in the order of the handles, a silent one a single unit *)
(* without words (process_job); no whole millisecond of speech falls        *)
(* between the units, and units of one recording do not overlap, although   *)
(* both their ends are cut down (int); every unit passes the catalogue, two *)
(* runs of one worker count as equal at any time and runs of the two        *)
(* workers never.  The registry loses no model and rewrites no version.     *)
SpeechIsCovered(parts, spans) ==
  \A i \in DOMAIN parts : \A ms \in 0..parts[i].end :
    parts[i].start <= ms * TicksPerMs /\ (ms + 1) * TicksPerMs <= parts[i].end =>
      \E j \in DOMAIN spans : spans[j][1] <= ms /\ ms < spans[j][2]
HeardWhole(result, handles, sounds, PartsOf(_)) ==
  LET units == result.units
      of(h) == SelectSeq(units, LAMBDA u : u.source = h)
      spans(h) == [i \in DOMAIN of(h) |-> of(h)[i].span]
  IN  /\ result.unit_yield = Len(units) /\ result.completed = DOMAIN units
      /\ units = FlattenSeq([i \in DOMAIN handles |-> of(handles[i])])
      /\ \A i \in DOMAIN handles :
           LET h == handles[i] IN
           /\ of(h) # <<>>
           /\ PartsOf(sounds[h]) = <<>> => Len(of(h)) = 1 /\ of(h)[1].context = {}
           /\ SpeechIsCovered(PartsOf(sounds[h]), spans(h))
           /\ \A j \in DOMAIN of(h) : spans(h)[j][1] <= spans(h)[j][2] /\ spans(h)[j][2] <= Ms(sounds[h].duration)
           /\ \A j, k \in DOMAIN of(h) : j < k =>
                /\ spans(h)[j][2] <= spans(h)[k][1]
                /\ of(h)[j].speaker = of(h)[k].speaker => of(h)[j].speaker = NoOne
      /\ \A i \in DOMAIN units : UnitAccepted(units[i])
RegistryOnlyGrows(files, model) ==
  LET grown == RegisterModel(files, model) IN
  /\ \A v \in DOMAIN files : v \in DOMAIN grown /\ grown[v] = files[v]
  /\ CurrentModels(files) \subseteq CurrentModels(grown) /\ Attested(grown, model)
  /\ RegisterModel(grown, model) = grown
RecordingsAreHeard(files, handles, sounds) ==
  LET asr == Transcribe(files, handles, sounds, "early")
      later == Transcribe(RegisterModel(files, "other"), handles, sounds, "late")
      turns == Diarize(files, handles, sounds, "late")
      readable == \A i \in DOMAIN handles : sounds[handles[i]] # Missing
  IN  /\ \A model \in {ModelId, "other"} : RegistryOnlyGrows(files, model)
      /\ \A result \in {asr, turns} :
           result.kind = "complete" <=> Attested(files, ModelId) /\ readable
      /\ later.kind = asr.kind
      /\ asr.kind = "complete" =>
           /\ HeardWhole(asr, handles, sounds, LAMBDA sound : sound.segments)
           /\ HeardWhole(turns, handles, sounds, LAMBDA sound : sound.turns)
           /\ \A i \in DOMAIN asr.units : \A j \in DOMAIN turns.units :
                /\ CompareRuns("audio", asr.units[i].params, later.units[i].params).equal
                /\ ~CompareRuns("audio", asr.units[i].params, turns.units[j].params).equal
================================================================================
