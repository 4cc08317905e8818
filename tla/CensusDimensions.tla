---------------------------- MODULE CensusDimensions ----------------------------
(***************************************************************************)
(* The content dimensions of the census: two vocabularies, each a chain of *)
(* versioned files that adds one value a version, and one record a feed.   *)
(* A recording registers what was observed, validates what was declared,   *)
(* and only then stores the record.  A value registered stays registered   *)
(* when the rest of its recording is refused or dies.                      *)
(***************************************************************************)
EXTENDS Naturals, Sequences, SequencesExt, FiniteSets

CONSTANTS
  CensusFeeds,
  CensusValues,  \* the values a dimension may take
  Recordings,    \* calls of record_census_dimension
  Absent

Kinds == {"content_surfaces", "genres"}
ValueSources == {"census_observed", "manifest_declared"}

VARIABLES
  vocabulary,  \* per kind the values in the order of their versions; version 0 has none
  damaged,     \* the kinds whose latest file is torn
  dimensions,  \* census_content_dimensions: per feed its record
  recording    \* the calls

censusVars == <<vocabulary, damaged, dimensions, recording>>

NoRecord == [surface |-> Absent, genre |-> Absent]
CensusInit ==
  /\ vocabulary = [kind \in Kinds |-> <<>>]
  /\ damaged = {}
  /\ dimensions = [feed \in CensusFeeds |-> NoRecord]
  /\ recording = [c \in Recordings |-> [pc |-> "idle"]]

\* A dimension of a call: a value and where it comes from, either of which may be missing.
Dimensions == [value : CensusValues \cup {Absent}, source : ValueSources \cup {Absent}]
\* _symmetric_contradiction.
Symmetric(d) == (d.value = Absent) <=> (d.source = Absent)

\* register_observation: a value that is known writes nothing.
Registered(vocab, value) == IF value \in ToSet(vocab) THEN vocab ELSE Append(vocab, value)
\* _apply_register_before_validate: the vocabulary after it.
\* Mutant: what a manifest declares is registered too.
Applied1_AnySource(vocab, d) == IF d.value # Absent THEN Registered(vocab, d.value) ELSE vocab
Applied1(vocab, d) ==
  IF d.value # Absent /\ d.source = "census_observed" THEN Registered(vocab, d.value) ELSE vocab
Accepted1(vocab, d) == d.value = Absent \/ d.value \in ToSet(vocab)
Unreadable(kind, d) == d.value # Absent /\ kind \in damaged

\* record_census_dimension up to its upsert, without an await: the surface first, then the
\* genre, whose refusal leaves the surface registered.
Record(c, feed, surface, genre) ==
  LET surfaces == Applied1(vocabulary["content_surfaces"], surface)
      genres == Applied1(vocabulary["genres"], genre)
      surfaceGood == ~Unreadable("content_surfaces", surface) /\ Accepted1(surfaces, surface)
      genreGood == ~Unreadable("genres", genre) /\ Accepted1(genres, genre)
      good == Symmetric(surface) /\ Symmetric(genre)
  IN  /\ recording[c].pc = "idle"
      /\ recording' = [recording EXCEPT ![c] =
           [pc |-> IF good /\ surfaceGood /\ genreGood THEN "upsert" ELSE "refused",
            feed |-> feed, surface |-> surface, genre |-> genre]]
      /\ vocabulary' = [vocabulary EXCEPT
           !["content_surfaces"] = IF good /\ surfaceGood THEN surfaces ELSE @,
           !["genres"] = IF good /\ surfaceGood /\ genreGood THEN genres ELSE @]
      /\ UNCHANGED <<damaged, dimensions>>
Upsert(c) ==
  /\ recording[c].pc = "upsert"
  /\ dimensions' = [dimensions EXCEPT ![recording[c].feed] =
       [surface |-> recording[c].surface.value, genre |-> recording[c].genre.value]]
  /\ recording' = [recording EXCEPT ![c].pc = "told"]
  /\ UNCHANGED <<vocabulary, damaged>>

\* The process dies and starts again; it may die while a version is being written, which
\* leaves a file no call can read.
Died(calls) == [c \in Recordings |-> IF calls[c].pc = "upsert" THEN [calls[c] EXCEPT !.pc = "lost"] ELSE calls[c]]
CensusCrash ==
  /\ recording' = Died(recording)
  /\ UNCHANGED <<vocabulary, damaged, dimensions>>
TornVersion(c, kind) ==
  /\ recording[c].pc = "idle" /\ kind \notin damaged
  /\ damaged' = damaged \cup {kind}
  /\ recording' = [Died(recording) EXCEPT ![c] = [pc |-> "lost"]]
  /\ UNCHANGED <<vocabulary, dimensions>>

Records ==
  \E c \in Recordings :
    \/ \E feed \in CensusFeeds, surface, genre \in Dimensions : Record(c, feed, surface, genre)
    \/ Upsert(c)
CensusDeath == CensusCrash \/ \E c \in Recordings, kind \in Kinds : TornVersion(c, kind)
CensusNext == Records \/ CensusDeath

------------------------------------------------------------------------------
\* What a feed is recorded with is in the vocabulary, although recordings overlap, are refused
\* half way and die; a vocabulary names no value twice, and none that was only declared.
Observed(kind, value) ==
  \E c \in Recordings : /\ recording[c].pc \notin {"idle", "lost"}
                        /\ (IF kind = "genres" THEN recording[c].genre ELSE recording[c].surface)
                             = [value |-> value, source |-> "census_observed"]
CensusInVocabulary ==
  /\ \A feed \in CensusFeeds :
       /\ dimensions[feed].surface \in ToSet(vocabulary["content_surfaces"]) \cup {Absent}
       /\ dimensions[feed].genre \in ToSet(vocabulary["genres"]) \cup {Absent}
  /\ \A kind \in Kinds :
       /\ Cardinality(ToSet(vocabulary[kind])) = Len(vocabulary[kind])
       /\ damaged = {} /\ (\A c \in Recordings : recording[c].pc # "lost") =>
            \A value \in ToSet(vocabulary[kind]) : Observed(kind, value)
================================================================================
