---------------------------- MODULE RetentionRules -----------------------------
(***************************************************************************)
(* Retention: the compliance surface writes versioned window files and     *)
(* deletes by them.  Reading the latest file, judging the write and        *)
(* opening the next file happen without a pause; the ledger rows come      *)
(* after, as do the checker's answers to a write that loosens.  A deletion *)
(* takes its cutoff when it reads its rule and deletes later: other        *)
(* requests come in between.                                               *)
(*                                                                         *)
(* No code applies a loosening once it is countersigned, so the checker's  *)
(* request ends here.                                                      *)
(***************************************************************************)
EXTENDS Integers, Sequences, SequencesExt, FiniteSets

CONSTANTS
  Held,        \* HELD_CLASSES
  Days,        \* windows a write or a deletion may name, zero and negatives among them
  Dated,       \* documents of the held collections
  Null,
  MaxDay,      \* bound: the clock
  MaxVersion   \* bound: retention.vN.json

ASSUME RetentionAssumption == Days \subseteq Int /\ Null \notin Days /\ MaxDay \in Nat /\ MaxVersion \in Nat

VARIABLES
  files,       \* retention.v0.json, retention.v1.json, ...: windows by class, or TornFile
  store,       \* the documents of the held collections: class and day, while they exist
  today,
  deleting,    \* deletions that have their cutoff and wait for the store; bound: one
  owed,        \* ledger rows that requests in progress still have to write; bound: one for a
               \* write to begin, a deletion's besides
  ledger,      \* the rows written, a tightening's with its version
  ruled        \* history: documents deleted by the configured rule

retentionVars == <<files, store, today, deleting, owed, ledger, ruled>>

TornFile == [h \in {} |-> Null]   \* no class can be read from it
Windows == [Held -> Days \cup {Null}]
Row == [kind : {"loosening_pending", "tightening_unilateral", "authorized_deletion"}, ref : Nat]

RetentionTypeOK ==
  /\ \A i \in DOMAIN files : files[i] \in Windows \cup {TornFile}
  /\ \A d \in DOMAIN store : d \in Dated /\ store[d] \in [class : Held, day : 0..MaxDay]
  /\ today \in 0..MaxDay
  /\ deleting \subseteq [class : Held, cutoff : Int, configured : BOOLEAN]
  /\ owed \subseteq Row /\ ledger \subseteq Row
  /\ ruled \subseteq [class : Held, day : 0..MaxDay]

RetentionInit ==
  /\ files = <<[h \in Held |-> Null]>>
  /\ store = [d \in {} |-> Null]
  /\ today = 0
  /\ deleting = {} /\ owed = {} /\ ledger = {} /\ ruled = {}

\* _latest_config_path_and_version and read_current_config: the highest version, torn or not.
Latest == files[Len(files)]
LatestVersion == Len(files) - 1

\* _is_loosening: the window lengthens, or a set one is taken away.
\* Mutant: only numbers are compared.
IsLoosening_NumbersOnly(old, new) == old # Null /\ new # Null /\ new > old

IsLoosening(old, new) ==
  \/ old # Null /\ new = Null
  \/ old # Null /\ new # Null /\ new > old

Classify(old, new) ==
  IF old = new THEN "unchanged"
  ELSE IF IsLoosening(old, new) THEN "loosening"
  ELSE IF old = Null THEN "setting_from_unset" ELSE "tightening"

\* _validate_payload: any subset of the classes, each null or a positive number of days.
ValidPayload(payload) == \A h \in DOMAIN payload : payload[h] # Null => payload[h] > 0

Accepted(payload) == \A h \in DOMAIN payload : Classify(Latest[h], payload[h]) # "loosening"

\* The file that follows; a write of unchanged windows makes one too.
NextWindows(payload) ==
  [h \in Held |-> IF h \in DOMAIN payload THEN payload[h] ELSE Latest[h]]

------------------------------------------------------------------------------

\* post_retention_config.  On a torn file the read raises what the handler takes for a
\* malformed payload: nothing changes.
PostRetentionConfig(payload) ==
  /\ owed = {} /\ ValidPayload(payload) /\ Latest # TornFile
  /\ IF Accepted(payload)
     THEN /\ LatestVersion < MaxVersion
          /\ files' = Append(files, NextWindows(payload))
          /\ owed' = {[kind |-> "tightening_unilateral", ref |-> LatestVersion + 1]}
     ELSE /\ owed' = {[kind |-> "loosening_pending", ref |-> 0]}
          /\ UNCHANGED files
  /\ UNCHANGED <<store, today, deleting, ledger, ruled>>

\* The process dies between opening the next file and its last line.
DieWriting(payload) ==
  /\ ValidPayload(payload) /\ Latest # TornFile /\ Accepted(payload) /\ LatestVersion < MaxVersion
  /\ files' = Append(files, TornFile)
  /\ deleting' = {} /\ owed' = {}
  /\ UNCHANGED <<store, today, ledger, ruled>>

\* emit_deletion_ledger_row, by the handler that owes it.
WriteLedgerRow(row) ==
  /\ row \in owed
  /\ ledger' = ledger \cup {row}
  /\ owed' = owed \ {row}
  /\ UNCHANGED <<files, store, today, deleting, ruled>>

RestartCompliance ==
  /\ owed # {} \/ deleting # {}
  /\ deleting' = {} /\ owed' = {}
  /\ UNCHANGED <<files, store, today, ledger, ruled>>

\* The documents execute_authorized_deletion selects: wizard transcripts are looked for in a
\* collection nobody writes, and the ledger's dates do not compare with a string.
Expired(class, cutoff) ==
  {d \in DOMAIN store : store[d].class = class /\ class = "delivered_artifact"
                        /\ store[d].day < cutoff}

\* The rule of the latest file; null is refused with no_retention_rule_set, and a torn file
\* fails the request.
DeleteByConfig(class) ==
  /\ deleting = {} /\ Latest # TornFile /\ Latest[class] # Null
  /\ deleting' = {[class |-> class, cutoff |-> today - Latest[class], configured |-> TRUE]}
  /\ UNCHANGED <<files, store, today, owed, ledger, ruled>>

\* The rule of the body is taken as it is, zero and negative windows too.
DeleteByBody(class, window) ==
  /\ deleting = {}
  /\ deleting' = {[class |-> class, cutoff |-> today - window, configured |-> FALSE]}
  /\ UNCHANGED <<files, store, today, owed, ledger, ruled>>

\* delete_many, by the cutoff taken when the rule was read.
ExecuteDeletion(d) ==
  LET gone == Expired(d.class, d.cutoff)
  IN  /\ store' = [e \in DOMAIN store \ gone |-> store[e]]
      /\ ruled' = ruled \cup {store[e] : e \in {g \in gone : d.configured}}
      /\ deleting' = deleting \ {d}
      /\ owed' = owed \cup {[kind |-> "authorized_deletion", ref |-> 0]}
      /\ UNCHANGED <<files, today, ledger>>

\* Documents come and days go.
Arrive(d, class) ==
  /\ d \notin DOMAIN store
  /\ store' = [e \in DOMAIN store \cup {d} |->
                 IF e = d THEN [class |-> class, day |-> today] ELSE store[e]]
  /\ UNCHANGED <<files, today, deleting, owed, ledger, ruled>>

NextDay ==
  /\ today < MaxDay /\ today' = today + 1
  /\ UNCHANGED <<files, store, deleting, owed, ledger, ruled>>

Payloads == UNION {[classes -> Days \cup {Null}] : classes \in SUBSET Held}

RetentionNext ==
  \/ \E payload \in Payloads : PostRetentionConfig(payload)
  \/ \E payload \in Payloads : DieWriting(payload)
  \/ \E row \in owed : WriteLedgerRow(row)
  \/ RestartCompliance
  \/ \E class \in Held : DeleteByConfig(class)
  \/ \E class \in Held, window \in Days : DeleteByBody(class, window)
  \/ \E d \in deleting : ExecuteDeletion(d)
  \/ \E d \in Dated, class \in Held : Arrive(d, class)
  \/ NextDay

RetentionSpec == RetentionInit /\ [][RetentionNext]_retentionVars

------------------------------------------------------------------------------
\* The last file an interrupted write did not tear.
Readable == IF Latest = TornFile THEN files[Len(files) - 1] ELSE Latest

\* Windows shorten on their own, and lengthen only with the checker: what the configured rule
\* once deleted, the latest readable rule would delete again today, by any sequence of
\* writes, those between a deletion's cutoff and its deletion among them, and whatever crashes
\* came between.
DeletedIsStillDue ==
  \A gone \in ruled :
    Readable[gone.class] # Null /\ gone.day < today - Readable[gone.class]
==============================================================================
