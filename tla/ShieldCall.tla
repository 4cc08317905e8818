-------------------------------- MODULE ShieldCall --------------------------------
(***************************************************************************)
(* The one way out to a language model: the setting is looked at, the      *)
(* content is shielded, the model answers, its answer is reidentified and  *)
(* read as JSON.  A text is a set of items: a fact or a figure it states,  *)
(* the token that stands for a fact, the mask a hard fact is shown as.     *)
(* Gates look at the digits in the writing of an item.                     *)
(***************************************************************************)
EXTENDS FiniteSets, Sequences

CONSTANTS
  Facts,       \* what a read may state
  ShownAs,     \* per fact: "plain" is not shielded; "rehydrate", "last4", "redacted"
  Numerals,    \* per fact, figure and token of no fact: the numerals in its writing
  Inside,      \* per fact: the facts and figures that stand within its writing, itself among them
  LastFour     \* per fact shown as "last4": the numeral in its mask

Settings == [mode : {"live", "mock"}, key : BOOLEAN, sdk : BOOLEAN]

Fact(f) == <<"fact", f>>
TokenOf(f) == <<"token", f>>
Mask(f) == <<"mask", f>>

\* deidentify, as the model sees it: what the layers find is a token.
Shielded(text) == {IF ShownAs[f] = "plain" THEN Fact(f) ELSE TokenOf(f) : f \in text}
\* reidentify: a hard fact stays masked, a token of no fact stays a token.
Reidentified(item) ==
  IF item[1] # "token" \/ item[2] \notin Facts THEN item
  ELSE IF ShownAs[item[2]] = "rehydrate" THEN Fact(item[2]) ELSE Mask(item[2])
\* What a gate's expression finds in an item: of a mask its last four digits, if it shows them.
NumeralsOf(item) ==
  IF item[1] # "mask" THEN Numerals[item[2]]
  ELSE IF ShownAs[item[2]] = "last4" THEN {LastFour[item[2]]} ELSE {}
\* A value stands in a raw text, as an item of it or within one; a token or a mask in none.
StandsIn(value, text) == value[1] = "fact" /\ \E f \in text : value[2] \in Inside[f]

\* _ensure_spacy: the model that loaded is kept, and so is the failure to load one.
EnsureSpacy(nlp, loads) ==
  IF nlp # "unloaded" THEN nlp ELSE IF loads THEN "loaded" ELSE "failed"

KeyMissing(setting) == ~setting.key /\ setting.mode # "mock"
\* What a synthesiser says of an attempt before the model is asked; "ask" goes on.  The echo
\* of the prompt, in mock mode or without the SDK, is not JSON.
BeforeTheModel(setting, nlp) ==
  IF KeyMissing(setting) THEN "key_missing"
  ELSE IF nlp = "failed" THEN "llm_unavailable"
  ELSE IF setting.mode = "mock" \/ ~setting.sdk THEN "llm_parse_failure"
  ELSE "ask"
\* What it says of the model's answer; only a failure that names a timeout is one.
Faults == {"timeout", "error", "malformed"}
AfterTheModel(fault) ==
  CASE fault = "timeout" -> "llm_timeout"
    [] fault = "error" -> "llm_unavailable"
    [] fault = "malformed" -> "llm_parse_failure"
\* A draft says a text and anchors figures, each in a read that it names.
ReidentifiedDraft(draft) ==
  [text |-> {Reidentified(item) : item \in draft.text},
   anchors |-> {[value |-> Reidentified(a.value), ref |-> a.ref] : a \in draft.anchors}]
================================================================================
