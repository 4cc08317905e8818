----------------------------- MODULE ArtifactStore -----------------------------
(***************************************************************************)
(* The artifact store: a six-step write of one object under one key, with  *)
(* a tmp copy as the marker of the write in flight, and the sweep that     *)
(* finishes or undoes what a write left behind.  A file operation is one   *)
(* step.  The store is a directory: any number of processes may work on    *)
(* it, each may die between two operations, and nothing locks a key.       *)
(***************************************************************************)
EXTENDS Naturals

CONSTANTS
  Keys,   \* artifact keys
  Puts,   \* calls of atomic_put_with_receipt and put_once, each with its own bytes
  Plain,  \* the calls of put_once: no tmp, no receipt, no row
  KeyOf,  \* the key each call writes
  NoFile,   \* no file, or no sweep
  Torn    \* a file that a write began and did not finish

ASSUME StoreAssumption ==
  /\ Plain \subseteq Puts /\ KeyOf \in [Puts -> Keys]
  /\ NoFile # Torn /\ {NoFile, Torn} \cap Puts = {} /\ NoFile \notin Keys

VARIABLES
  tmp,       \* the tmp copy of each key: whose bytes, and NoFile without one
  aged,      \* keys whose tmp copy is older than the threshold
  final,     \* whose bytes lie under the key
  receipts,  \* calls whose receipt the caller's callback has stored
  rows,      \* calls whose ledger row has landed
  step,      \* the step each call is at; a call that ended stays where it ended
  live,      \* calls in progress
  sweep,     \* the key the sweep is at, NoFile between keys
  verdict,   \* what it does next there: "final", "tmp"
  disturbed  \* history: keys where two actors met, or a tmp aged under its writer

vars == <<tmp, aged, final, receipts, rows, step, live, sweep, verdict, disturbed>>

Files == Puts \cup {Torn, NoFile}
Trying == {"write", "verify", "copy", "head", "receipt"}
Steps == Trying \cup
         {"idle", "plain", "row", "gc", "undo_tmp", "undo_final", "aborted", "done"}

Busy(k) == sweep = k \/ \E p \in live : KeyOf[p] = k

Goto(p, s) == step' = [step EXCEPT ![p] = s] /\ UNCHANGED live
Return(p, s) == step' = [step EXCEPT ![p] = s] /\ live' = live \ {p}

NoSweep == UNCHANGED <<sweep, verdict>>

------------------------------------------------------------------------------
(* atomic_put_with_receipt and put_once.                                   *)

\* Mutant: the key is not looked up before the write.
Vacant_Unchecked(k) == TRUE

\* Write-once: a key that exists is refused, with nothing undone.
Vacant(k) == final[k] = NoFile

Begin(p) ==
  LET k == KeyOf[p] IN
  /\ step[p] = "idle" /\ Vacant(k)
  /\ step' = [step EXCEPT ![p] = IF p \in Plain THEN "plain" ELSE "write"]
  /\ live' = live \cup {p}
  /\ disturbed' = disturbed \cup (IF Busy(k) THEN {k} ELSE {})
  /\ UNCHANGED <<tmp, aged, final, receipts, rows, sweep, verdict>>

WriteTmp(p) ==
  /\ step[p] = "write" /\ Goto(p, "verify")
  /\ tmp' = [tmp EXCEPT ![KeyOf[p]] = p] /\ aged' = aged \ {KeyOf[p]}
  /\ UNCHANGED <<final, receipts, rows, disturbed>> /\ NoSweep

VerifyTmp(p) ==
  /\ step[p] = "verify" /\ tmp[KeyOf[p]] = p /\ Goto(p, "copy")
  /\ UNCHANGED <<tmp, aged, final, receipts, rows, disturbed>> /\ NoSweep

Copy(p) ==
  /\ step[p] = "copy" /\ tmp[KeyOf[p]] # NoFile /\ Goto(p, "head")
  /\ final' = [final EXCEPT ![KeyOf[p]] = tmp[KeyOf[p]]]
  /\ UNCHANGED <<tmp, aged, receipts, rows, disturbed>> /\ NoSweep

HeadVerify(p) ==
  /\ step[p] = "head" /\ final[KeyOf[p]] = p /\ Goto(p, "receipt")
  /\ UNCHANGED <<tmp, aged, final, receipts, rows, disturbed>> /\ NoSweep

BuildReceipt(p) ==
  /\ step[p] = "receipt" /\ Goto(p, "row")
  /\ receipts' = receipts \cup {p}
  /\ UNCHANGED <<tmp, aged, final, rows, disturbed>> /\ NoSweep

EmitRow(p) ==
  /\ step[p] = "row" /\ Goto(p, "gc")
  /\ rows' = rows \cup {p}
  /\ UNCHANGED <<tmp, aged, final, receipts, disturbed>> /\ NoSweep

\* Mutant: the key goes with the file.
Unlink_Key(dir, k) == [x \in DOMAIN dir \ {k} |-> dir[x]]

\* A file operation that may fail without the caller being told.
Unlink(dir, k) == [dir EXCEPT ![k] = NoFile]

CollectTmp(p) ==
  /\ step[p] = "gc" /\ Return(p, "done")
  /\ tmp' \in {tmp, Unlink(tmp, KeyOf[p])}
  /\ UNCHANGED <<aged, final, receipts, rows, disturbed>> /\ NoSweep

PutOnce(p) ==
  /\ step[p] = "plain" /\ Return(p, "done")
  /\ final' = [final EXCEPT ![KeyOf[p]] = p]
  /\ UNCHANGED <<tmp, aged, receipts, rows, disturbed>> /\ NoSweep

\* An operation that does not finish may leave part of its file.
TmpCut(p) == IF step[p] = "write" THEN {tmp, [tmp EXCEPT ![KeyOf[p]] = Torn]} ELSE {tmp}
FinalCut(p) ==
  IF step[p] \in {"copy", "plain"} THEN {final, [final EXCEPT ![KeyOf[p]] = Torn]} ELSE {final}
AgedCut(p) == IF tmp' = tmp THEN aged ELSE aged \ {KeyOf[p]}

\* Mutant: the receipt flag is never set, so a failed row also rolls back.
RollsBack_Always(p) == step[p] \in Trying \cup {"row"}

RollsBack(p) == step[p] \in Trying

\* A step raises: rolled back before the receipt, left to the sweep after it.
Raise(p) ==
  /\ p \in live /\ step[p] \in Trying \cup {"plain", "row"}
  /\ IF RollsBack(p) THEN Goto(p, "undo_tmp") ELSE Return(p, step[p])
  /\ tmp' \in TmpCut(p) /\ final' \in FinalCut(p) /\ aged' = AgedCut(p)
  /\ UNCHANGED <<receipts, rows, disturbed>> /\ NoSweep

UndoTmp(p) ==
  /\ p \in live /\ step[p] = "undo_tmp" /\ Goto(p, "undo_final")
  /\ tmp' \in {tmp, Unlink(tmp, KeyOf[p])}
  /\ UNCHANGED <<aged, final, receipts, rows, disturbed>> /\ NoSweep

UndoFinal(p) ==
  /\ p \in live /\ step[p] = "undo_final"
  /\ \/ Return(p, "aborted") /\ final' = Unlink(final, KeyOf[p])
     \/ Return(p, "undo_final") /\ UNCHANGED final
  /\ UNCHANGED <<tmp, aged, receipts, rows, disturbed>> /\ NoSweep

Die(p) ==
  /\ p \in live /\ Return(p, step[p])
  /\ tmp' \in TmpCut(p) /\ final' \in FinalCut(p) /\ aged' = AgedCut(p)
  /\ UNCHANGED <<receipts, rows, disturbed>> /\ NoSweep

------------------------------------------------------------------------------
(* reconcile_incomplete_write.                                             *)

\* A tmp copy passes the threshold, under a slow writer too.
Age(k) ==
  /\ tmp[k] # NoFile /\ k \notin aged /\ aged' = aged \cup {k}
  /\ disturbed' = disturbed \cup (IF Busy(k) THEN {k} ELSE {})
  /\ UNCHANGED <<tmp, final, receipts, rows, step, live>> /\ NoSweep

\* Mutant: a receipt alone is taken for a finished write.
Complete_Receipt(k) == \E p \in receipts : KeyOf[p] = k

\* Both lookups are by key.
Complete(k) ==
  /\ \E p \in receipts : KeyOf[p] = k
  /\ \E p \in rows : KeyOf[p] = k

SweepJudge(k) ==
  /\ sweep = NoFile /\ tmp[k] # NoFile /\ k \in aged
  /\ sweep' = k /\ verdict' = IF Complete(k) THEN "tmp" ELSE "final"
  /\ disturbed' = disturbed \cup (IF Busy(k) THEN {k} ELSE {})
  /\ UNCHANGED <<tmp, aged, final, receipts, rows, step, live>>

SweepFinal ==
  /\ sweep # NoFile /\ verdict = "final"
  /\ final' = Unlink(final, sweep) /\ verdict' = "tmp"
  /\ UNCHANGED <<tmp, aged, receipts, rows, step, live, sweep, disturbed>>

SweepTmp ==
  /\ sweep # NoFile /\ verdict = "tmp"
  /\ tmp' = Unlink(tmp, sweep) /\ sweep' = NoFile /\ UNCHANGED verdict
  /\ UNCHANGED <<aged, final, receipts, rows, step, live, disturbed>>

\* An unlink fails, or the process dies: the key is left for the next sweep.
SweepStop ==
  /\ sweep # NoFile /\ sweep' = NoFile /\ UNCHANGED verdict
  /\ UNCHANGED <<tmp, aged, final, receipts, rows, step, live, disturbed>>

Init ==
  /\ tmp = [k \in Keys |-> NoFile] /\ final = [k \in Keys |-> NoFile]
  /\ aged = {} /\ receipts = {} /\ rows = {}
  /\ step = [p \in Puts |-> "idle"] /\ live = {}
  /\ sweep = NoFile /\ verdict = "tmp" /\ disturbed = {}

Put(p) ==
  \/ WriteTmp(p) \/ VerifyTmp(p) \/ Copy(p) \/ HeadVerify(p)
  \/ BuildReceipt(p) \/ EmitRow(p) \/ CollectTmp(p) \/ PutOnce(p)

Next ==
  \/ \E p \in Puts : Begin(p)
  \/ \E p \in live : Put(p) \/ Raise(p) \/ UndoTmp(p) \/ UndoFinal(p) \/ Die(p)
  \/ \E k \in Keys : Age(k) \/ SweepJudge(k)
  \/ SweepFinal \/ SweepTmp \/ SweepStop

Spec == Init /\ [][Next]_vars

------------------------------------------------------------------------------
(* Properties.                                                             *)

TypeOK ==
  /\ tmp \in [Keys -> Files] /\ final \in [Keys -> Files]
  /\ aged \subseteq Keys /\ disturbed \subseteq Keys
  /\ receipts \subseteq Puts /\ rows \subseteq Puts
  /\ step \in [Puts -> Steps] /\ live \subseteq Puts
  /\ sweep \in Keys \cup {NoFile} /\ verdict \in {"final", "tmp"}

\* Deaths, failures, retries and sweeps in any order: a call with a ledger row has
\* its own bytes under the key for good, unless somebody met it on that key.
GovernedIsStored ==
  \A p \in rows : KeyOf[p] \notin disturbed => final[KeyOf[p]] = p /\ p \in receipts

\* What the store holds without a row is either being written, or still marked for
\* the sweep, or put_once wrote it, or a rollback stopped between its two deletes.
LeftoverIsMarked ==
  \A k \in Keys \ disturbed :
    \/ final[k] \in rows \cup {NoFile} \/ Busy(k) \/ tmp[k] # NoFile
    \/ \E p \in Puts : KeyOf[p] = k /\
         \/ step[p] = "undo_final"
         \/ p \in Plain /\ (final[k] = p \/ (final[k] = Torn /\ step[p] = "plain"))

\* "The tmp object is the in-flight transaction marker": a rollback removes the
\* marker first, and one that stops there leaves bytes that no sweep will find.
MarkerOutlivesData ==
  \A k \in Keys \ disturbed :
    \/ final[k] \in rows \cup Plain \cup {NoFile} \/ Busy(k) \/ tmp[k] # NoFile
=============================================================================
