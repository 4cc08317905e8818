------------------------------- MODULE ShieldText -------------------------------
(***************************************************************************)
(* The privacy shield on one text: three layers find entities, overlaps    *)
(* are resolved, every accepted span is replaced by a token, and a reply   *)
(* gets its tokens replaced again, by the original for contextual classes  *)
(* and by a placeholder for hard ones.                                     *)
(*                                                                         *)
(* A text is a sequence of letters; a hit is a span of it, [start, end),   *)
(* with its class and layer (1 patterns, 2 tenant catalogue, 3 NER).  How  *)
(* a layer recognises an entity is left out; that one pattern, or one      *)
(* layer of the other two, finds disjoint spans is not.  A found span      *)
(* neither begins nor ends with a blank, so that stripping changes none.   *)
(***************************************************************************)
EXTENDS Naturals, Sequences, SequencesExt, FiniteSets

CONSTANT Shieldings   \* texts, each with the hits of the three layers on it

VARIABLE shielding    \* the text that is shielded

Lower(letter) == IF letter = "A" THEN "a" ELSE letter
Span(text, hit) == SubSeq(text, hit.start + 1, hit.end)
Normalized(said) == [i \in DOMAIN said |-> Lower(said[i])]

\* _VISIBLE_STRATEGY: the classes a reply keeps redacted.
HardClasses == {"CREDIT_CARD", "ACCOUNT_NUM"}

Overlap(g, h) == g.start < h.end /\ h.start < g.end

------------------------------------------------------------------------------
\* The order of hits: earlier, then the higher layer, then longer, then found first.
Before(g, h) ==
  \/ g.start < h.start
  \/ g.start = h.start /\ g.layer < h.layer
  \/ g.start = h.start /\ g.layer = h.layer /\ g.end > h.end
  \/ g.start = h.start /\ g.layer = h.layer /\ g.end = h.end /\ g.found < h.found

\* What the layers hand over: spans of the text, of two of which one comes before the other.
HitsOn(hits, length) ==
  /\ IsFiniteSet(hits)
  /\ \A h \in hits : /\ h.start \in Nat /\ h.end \in Nat /\ h.layer \in Nat /\ h.found \in Nat
                     /\ h.start < h.end /\ h.end <= length
  /\ \A g, h \in hits : g # h => Before(g, h) \/ Before(h, g)

ASSUME ShieldingsAssumption ==
  \A s \in Shieldings : s.text \in Seq(ToSet(s.text)) /\ HitsOn(s.hits, Len(s.text))

\* Each hit at the place the hits before it leave to it.
InOrder(hits) ==
  [i \in 1..Cardinality(hits) |-> CHOOSE h \in hits : Cardinality({g \in hits : Before(g, h)}) = i - 1]

\* lookup_in_text: leftmost and longest of the catalogue's surface forms.
TenantHits(forms) ==
  LET keep(kept, h) == IF kept = <<>> \/ h.start >= Last(kept).end THEN Append(kept, h) ELSE kept
  IN  ToSet(FoldLeft(keep, <<>>, InOrder(forms)))

\* deidentify: a hit that begins behind the last accepted one is accepted; one of a higher
\* layer replaces it when it covers it.
\* Mutant: a hit that begins where the last one ends is dropped.
Accept_StrictlyBehind(kept, h) ==
  LET dominates(g) == h.layer < g.layer /\ h.start <= g.start /\ g.end <= h.end
  IN  IF kept = <<>> \/ h.start > Last(kept).end THEN Append(kept, h)
      ELSE IF dominates(Last(kept)) THEN Append(Front(kept), h)
      ELSE kept

Accept(kept, h) ==
  LET dominates(g) == h.layer < g.layer /\ h.start <= g.start /\ g.end <= h.end
  IN  IF kept = <<>> \/ h.start >= Last(kept).end THEN Append(kept, h)
      ELSE IF dominates(Last(kept)) THEN Append(Front(kept), h)
      ELSE kept

Resolved(hits) == FoldLeft(Accept, <<>>, InOrder(hits))

------------------------------------------------------------------------------
\* _token_for: one token for one class and spelling, numbered within its class.
Key(text, hit) == <<hit.type, Normalized(Span(text, hit))>>
FirstSaid(text, kept, i) ==
  CHOOSE j \in 1..i : /\ Key(text, kept[j]) = Key(text, kept[i])
                      /\ \A k \in 1..(j - 1) : Key(text, kept[k]) # Key(text, kept[i])
Token(text, kept, i) ==
  LET j == FirstSaid(text, kept, i)
  IN  [type |-> kept[i].type,
       number |-> Cardinality({Key(text, kept[k]) : k \in {l \in 1..j : kept[l].type = kept[j].type}})]

TokenMap(text, kept) ==
  [token \in {Token(text, kept, i) : i \in DOMAIN kept} |->
     Span(text, kept[CHOOSE i \in DOMAIN kept : Token(text, kept, i) = token /\ FirstSaid(text, kept, i) = i])]

\* The redacted text: letters in the clear and tokens.
Redacted(text, kept) ==
  LET clearFrom(i) == IF i = 0 THEN 1 ELSE kept[i].end + 1
      clearTo(i) == IF i = Len(kept) THEN Len(text) ELSE kept[i + 1].start
      clear(i) == [p \in 1..(IF clearTo(i) < clearFrom(i) THEN 0 ELSE clearTo(i) - clearFrom(i) + 1) |->
                     [clear |-> TRUE, at |-> clearFrom(i) + p - 1]]
  IN  clear(0) \o FlattenSeq([i \in DOMAIN kept |->
        <<[clear |-> FALSE, token |-> Token(text, kept, i)]>> \o clear(i)])

\* reidentify: what the operator sees for one piece of a reply that repeats the redacted text.
Visible(text, kept, piece) ==
  IF piece.clear THEN <<text[piece.at]>>
  ELSE IF piece.token.type \in HardClasses THEN <<piece.token.type>>
  ELSE TokenMap(text, kept)[piece.token]

Echo(text, kept) ==
  FlattenSeq([n \in DOMAIN Redacted(text, kept) |-> Visible(text, kept, Redacted(text, kept)[n])])

------------------------------------------------------------------------------
\* What the three layers found is never wholly in the clear: every hit meets a replaced span;
\* the replaced spans are hits, in order and apart.  And a reply that repeats the redacted
\* text gives every letter back, up to case within a contextual span, with the class in place
\* of a hard one.
ShieldedTextIsWhole(text, hits) ==
  LET kept == Resolved(hits)
      expected == FlattenSeq([p \in DOMAIN text |->
        LET inside == {i \in DOMAIN kept : kept[i].start < p /\ p <= kept[i].end}
        IN  IF inside = {} THEN <<text[p]>>
            ELSE LET h == kept[CHOOSE i \in inside : TRUE]
                 IN  IF h.type \notin HardClasses THEN <<text[p]>>
                     ELSE IF p = h.start + 1 THEN <<h.type>> ELSE <<>>])
  IN  /\ ToSet(kept) \subseteq hits
      /\ \A h \in hits : \E i \in DOMAIN kept : Overlap(h, kept[i])
      /\ \A i, j \in DOMAIN kept : i < j => kept[i].end <= kept[j].start
      /\ Normalized(Echo(text, kept)) = Normalized(expected)

\* What the resolution's comment says: of two overlapping hits the higher layer is preferred.
\* A hit of a lower layer that begins earlier keeps the higher one out.
HigherLayerPreferred(hits) ==
  \A h \in hits : ~\E i \in DOMAIN Resolved(hits) :
    Overlap(h, Resolved(hits)[i]) /\ h.layer < Resolved(hits)[i].layer
==============================================================================
