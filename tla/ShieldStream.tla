------------------------------ MODULE ShieldStream ------------------------------
(***************************************************************************)
(* The streaming reidentifier: a reply arrives in pieces that may cut a    *)
(* token anywhere, and what is shown must not depend on the cuts.          *)
(*                                                                         *)
(* Of the letters of a reply only those that matter are told apart: the    *)
(* brackets, "E" for ENT_, and "T" for the class and number of a token     *)
(* that the map holds; "v" is what is shown in its place.                  *)
(***************************************************************************)
EXTENDS ShieldText

CONSTANTS
  MaxPending,   \* _MAX_PENDING_TOKEN_LEN
  MaxReply      \* bound: letters of a reply

ASSUME StreamAssumption == MaxPending > 6 /\ MaxReply \in Nat

VARIABLES
  fed,          \* history: the reply so far
  buffer,
  shown,        \* what feed and flush have returned
  overflows,    \* _overflow_count
  flushed

streamVars == <<fed, buffer, shown, overflows, flushed>>

Letters == {"[", "]", "E", "T"}
KnownToken == <<"[", "[", "E", "T", "]", "]">>
Opening == <<"[", "[", "E">>

StreamInit == fed = <<>> /\ buffer = <<>> /\ shown = <<>> /\ overflows = 0 /\ flushed = FALSE

------------------------------------------------------------------------------
From(text, i) == SubSeq(text, i, Len(text))
ClosesAt(text) == {k \in 1..(Len(text) - 1) : text[k] = "]" /\ text[k + 1] = "]"}
Closed(text) == SubSeq(text, 1, (CHOOSE k \in ClosesAt(text) : \A l \in ClosesAt(text) : k <= l) + 1)
Shown(token) == IF token = KnownToken THEN <<"v">> ELSE token

Release(text) == [out |-> text, rest |-> <<>>, over |-> 0]
Hold(text) == [out |-> <<>>, rest |-> text, over |-> 0]
After(out, drained) == [drained EXCEPT !.out = out \o @]

\* Mutant: too few letters to tell a token are let through.
Undecided_LetThrough(tail, final) == Release(tail)

Undecided(tail, final) == IF final THEN Release(tail) ELSE Hold(tail)

\* An opening without an end is held until the stream ends or the cap is met.
Unclosed(tail, final) ==
  IF Len(tail) >= MaxPending THEN [Release(tail) EXCEPT !.over = 1]
  ELSE IF final THEN Release(tail)
  ELSE Hold(tail)

\* _drain at one position, given what it makes of the positions behind.
DrainAt(buf, final, drain, i) ==
  LET tail == From(buf, i)
  IN  IF i > Len(buf) THEN Release(<<>>)
      ELSE IF buf[i] # "[" THEN After(<<buf[i]>>, drain[i + 1])
      ELSE IF Len(tail) < Len(Opening) THEN Undecided(tail, final)
      ELSE IF ~IsPrefix(Opening, tail) THEN After(<<"[">>, drain[i + 1])
      ELSE IF ClosesAt(tail) = {} THEN Unclosed(tail, final)
      ELSE After(Shown(Closed(tail)), drain[i + Len(Closed(tail))])

Drains(buf, final) ==
  LET drain[i \in 1..(Len(buf) + 1)] == DrainAt(buf, final, drain, i) IN drain
Drain(buf, final) == Drains(buf, final)[1]

Take(drained) ==
  /\ shown' = shown \o drained.out
  /\ buffer' = drained.rest
  /\ overflows' = overflows + drained.over

Feed(delta) ==
  /\ ~flushed /\ Len(fed) + Len(delta) <= MaxReply
  /\ fed' = fed \o delta
  /\ Take(Drain(buffer \o delta, FALSE))
  /\ UNCHANGED flushed

Flush ==
  /\ ~flushed /\ flushed' = TRUE
  /\ Take(Drain(buffer, TRUE))
  /\ UNCHANGED fed

StreamNext ==
  \/ \E n \in 1..(MaxReply - Len(fed)) : \E delta \in [1..n -> Letters] : Feed(delta)
  \/ Flush

\* The shield on one text and one reply.
shieldVars == <<shielding, streamVars>>
ShieldInit == shielding \in Shieldings /\ StreamInit
ShieldNext == StreamNext /\ UNCHANGED shielding
ShieldSpec == ShieldInit /\ [][ShieldNext]_shieldVars

------------------------------------------------------------------------------
\* reidentify: the tokens of a whole text, wherever they stand.
ShownAt(text, shownFrom, i) ==
  IF i > Len(text) THEN <<>>
  ELSE IF IsPrefix(KnownToken, From(text, i)) THEN <<"v">> \o shownFrom[i + Len(KnownToken)]
  ELSE <<text[i]>> \o shownFrom[i + 1]

ShownFrom(text) ==
  LET shownFrom[i \in 1..(Len(text) + 1)] == ShownAt(text, shownFrom, i) IN shownFrom
Reidentify(text) == ShownFrom(text)[1]

\* No opening stands before the end of an earlier one.
NothingNested(text) ==
  \A i, j \in DOMAIN text :
    i < j /\ IsPrefix(Opening, From(text, i)) /\ IsPrefix(Opening, From(text, j)) =>
      ClosesAt(SubSeq(text, i, j - 1)) # {}

\* Unless the cap forced a release, the cuts cannot be seen: what was shown, with what a
\* flush would add now, is what one feed of the whole reply shows.  And while no opening
\* stands inside another, that is what reidentify shows of the whole text, so no part of a
\* token is ever shown before its end is known.
CutsCannotBeSeen ==
  overflows = 0 =>
    /\ shown \o Drain(buffer, TRUE).out = Drain(fed, TRUE).out
    /\ NothingNested(fed) => /\ IsPrefix(shown, Reidentify(fed))
                             /\ flushed => shown = Reidentify(fed)

\* Whatever the hits, shielding and reidentifying return the text, and wherever the reply is cut,
\* what the reader has seen is what reidentifying the whole would show.
ShieldedTextIsSeenWhole ==
  ShieldedTextIsWhole(shielding.text, shielding.hits) /\ CutsCannotBeSeen
==============================================================================
