---------------------------- MODULE Registers_proofs ----------------------------
(***************************************************************************)
(* The registers of keys, of content dimensions and of briefs.             *)
(*                                                                         *)
(* The key register for any grants, invites and requests.  A request knows *)
(* what it has found of its grant or has put on record of it, and none of  *)
(* that is undone: a grant never goes, a revocation is never taken back,   *)
(* events and rows are only added, an approved invite stays approved.      *)
(*                                                                         *)
(* The census and the briefs for any feeds, values, recordings and desks.  *)
(* A vocabulary only grows, by values it has not, so what a recording      *)
(* found is there when its record is stored.  A row says for ever what it  *)
(* said, but for its being stale, and a draft that passes the gate shows   *)
(* no numeral that is not anchored.                                        *)
(***************************************************************************)
EXTENDS KeyGrants, OpportunityBriefs, FiniteSetTheorems, SequenceTheorems, TLAPS

Told == rows \cup Owed
IssuedRow(g) == [event |-> "issued", of |-> g, by |-> None]
RevokedRow(g, h) == [event |-> "revoked", of |-> g, by |-> h]
OnboardingRow(i) == [event |-> "onboarding", of |-> i, by |-> None]

\* Where a request is, and what it knows of its grant.
CallOK(c) ==
  /\ c.op \in {"register", "revoke", "decide"} => c.of \in Grants
  /\ c.op = "onboard" => c.of \in Invites
  /\ c.op = "register" => c.pc = "row" /\ Exists(c.of)
  /\ c.op = "revoke" => c.pc \in {"read", "write", "row"}
  /\ c.op = "revoke" /\ c.pc \in {"write", "row"} => Exists(c.of)
  /\ c.op = "revoke" /\ c.pc = "row" => Revoked(c.of)
  /\ c.op = "decide" => c.pc \in {"write", "apply"}
  /\ c.op = "decide" /\ c.pc = "apply" => EventOf(c) \in events
  /\ c.op = "login" => c.pc \in {"read", "mint"}

CallsOK == \A c \in calls : CallOK(c)

\* Where a grant's state and decision come from.
GrantOK(g) ==
  /\ grants[g].state = "pending_approval" => grants[g].seeded /\ grants[g].decision = None
  /\ grants[g].state = "unset" => ~grants[g].seeded

GrantsOK == \A g \in Grants : Exists(g) => GrantOK(g)

\* An approved invite whose token is still to be handed out: one request has it.
Onboarding(c) == c.op = "onboard" /\ c.pc = "row"
InvitesOK ==
  /\ OnboardedOnce
  /\ \A c \in calls : Onboarding(c) => invites[c.of].state = "approved" /\ handed[c.of] = 0
  /\ \A c, d \in calls : Onboarding(c) /\ Onboarding(d) /\ c.of = d.of => c = d

KeyInv == TypeOK /\ CallsOK /\ GrantsOK /\ InvitesOK /\ LedgerTells /\ DecisionOnRecord

--------------------------------------------------------------------------------
(* Rows, requests and what stays true of them.                                 *)

LEMMA RowIs ==
  ASSUME NEW c, c.op # "decide", c.op # "login"
  PROVE  /\ c.op = "register" => RowOf(c) = IssuedRow(c.of)
         /\ c.op = "revoke" => RowOf(c) = RevokedRow(c.of, c.by)
         /\ c.op = "onboard" => RowOf(c) = OnboardingRow(c.of)
  BY DEF RowOf, IssuedRow, RevokedRow, OnboardingRow

LEMMA CallIs ==
  ASSUME KeyInv, NEW c \in calls
  PROVE  /\ c \in Calls /\ CallOK(c)
         /\ c.by \in Handlers /\ c.by # None /\ c.of \in Grants \cup Invites \cup {None}
         /\ c.pc = "row" => c.op \in {"register", "revoke", "onboard"}
  <1>1. c \in Calls /\ CallOK(c)
    BY DEF KeyInv, TypeOK, CallsOK
  <1> QED
    BY <1>1, GrantAssumption DEF Calls, CallOK

LEMMA RowTyped ==
  ASSUME KeyInv, NEW c \in calls, c.pc = "row"
  PROVE  RowOf(c) \in Rows
  <1>1. c.of \in Grants \cup Invites
    BY CallIs DEF CallOK
  <1> QED
    BY <1>1, CallIs, RowIs DEF IssuedRow, RevokedRow, OnboardingRow, Rows

LEMMA NextCall ==
  ASSUME NEW c \in Calls, NEW pc \in {"read", "write", "row", "apply", "mint", "expire"}
  PROVE  \E d \in Calls : /\ d = [c EXCEPT !.pc = pc] /\ d.pc = pc /\ d.by = c.by /\ d.op = c.op
                          /\ d.of = c.of /\ d.verdict = c.verdict
  <1> DEFINE d == [c EXCEPT !.pc = pc]
  <1>1. /\ d \in Calls /\ d.pc = pc /\ d.by = c.by /\ d.op = c.op /\ d.of = c.of
        /\ d.verdict = c.verdict
    BY DEF Calls
  <1> HIDE DEF d
  <1>2. \E x \in Calls : /\ x = d /\ x.pc = pc /\ x.by = c.by /\ x.op = c.op /\ x.of = c.of
                        /\ x.verdict = c.verdict
    BY <1>1
  <1> QED
    BY <1>2 DEF d

LEMMA FoundCall ==
  ASSUME NEW c \in Calls, NEW found \in SUBSET Grants
  PROVE  \E d \in Calls : /\ d = [c EXCEPT !.pc = "mint", !.found = found] /\ d.pc = "mint"
                          /\ d.op = c.op /\ d.of = c.of
  <1> DEFINE d == [c EXCEPT !.pc = "mint", !.found = found]
  <1>1. d \in Calls /\ d.pc = "mint" /\ d.op = c.op /\ d.of = c.of
    BY DEF Calls
  <1> HIDE DEF d
  <1>2. \E x \in Calls : x = d /\ x.pc = "mint" /\ x.op = c.op /\ x.of = c.of
    BY <1>1
  <1> QED
    BY <1>2 DEF d

LEMMA NothingOwed ==
  ASSUME \A c \in calls \ calls' : c.pc # "row", \A c \in calls' \ calls : c.pc # "row",
         rows' = rows, lost' = lost
  PROVE  Told' = Told
  BY DEF Told, Owed, RowOf

LEMMA NowOwed ==
  ASSUME \A c \in calls \ calls' : c.pc # "row", NEW d \in calls', d.pc = "row",
         \A c \in calls' \ calls : c = d, rows' = rows, lost' = lost
  PROVE  Told' = Told \cup {RowOf(d)}
  BY DEF Told, Owed, RowOf

LEMMA OwedMoves ==
  ASSUME NEW c \in calls, c.pc = "row", calls' = calls \ {c},
         \/ rows' = rows \cup {RowOf(c)} /\ lost' = lost
         \/ lost' = lost \cup {RowOf(c)} /\ rows' = rows
  PROVE  Told' = Told
  BY DEF Told, Owed, RowOf

Grown ==
  /\ \A g \in Grants : (Exists(g) => Exists(g)') /\ (Revoked(g) => Revoked(g)')
  /\ events \subseteq events'

LEMMA StaysOK ==
  ASSUME Grown, NEW c \in Calls, CallOK(c)
  PROVE  CallOK(c)'
  BY DEF Grown, CallOK, EventOf

LEMMA CallsKept ==
  ASSUME KeyInv, Grown, \A d \in calls' \ calls : d \in Calls /\ CallOK(d)'
  PROVE  calls' \subseteq Calls /\ CallsOK'
  BY StaysOK DEF KeyInv, TypeOK, CallsOK

\* No token handed out, no new request that has one to hand out.
LEMMA InvitesKept ==
  ASSUME InvitesOK, invites \in [Invites -> Invite], handed' = handed, rows \subseteq rows',
         \A i \in Invites : invites[i].state = "approved" => invites'[i].state = "approved",
         \A c \in calls : Onboarding(c) => c.of \in Invites,
         \A d \in calls' \ calls : ~Onboarding(d)
  PROVE  InvitesOK'
  <1>1. OnboardedOnce'
    BY DEF InvitesOK, OnboardedOnce
  <1>2. \A c \in calls' : Onboarding(c) => c \in calls
    OBVIOUS
  <1> QED
    BY <1>1, <1>2 DEF InvitesOK

LEMMA OnboardingIs ==
  ASSUME KeyInv, NEW c \in calls, Onboarding(c)
  PROVE  c.of \in Invites
  BY CallIs DEF Onboarding, CallOK

LEMMA QuietStep ==
  ASSUME KeyInv, grants' = grants, handed' = handed, rows' = rows, lost' = lost,
         events \subseteq events', events' \subseteq DecisionEvents, tokens' \subseteq SUBSET Grants,
         invites' \in [Invites -> Invite],
         \A i \in Invites : invites[i].state = "approved" => invites'[i].state = "approved",
         \A c \in calls \ calls' : c.pc # "row",
         \A d \in calls' \ calls : d \in Calls /\ CallOK(d)' /\ d.pc # "row"
  PROVE  KeyInv'
  <1>1. Grown
    BY DEF Grown, Exists, Revoked
  <1>2. calls' \subseteq Calls /\ CallsOK'
    BY <1>1, CallsKept
  <1>3. TypeOK'
    BY <1>2 DEF KeyInv, TypeOK
  <1>4. InvitesOK'
    BY InvitesKept, OnboardingIs DEF KeyInv, TypeOK, Onboarding
  <1>5. Told' = Told
    BY NothingOwed
  <1>6. LedgerTells'
    BY <1>5 DEF KeyInv, LedgerTells, Told, Exists, Revoked
  <1>7. GrantsOK' /\ DecisionOnRecord'
    BY DEF KeyInv, GrantsOK, GrantOK, DecisionOnRecord, Exists
  <1> QED
    BY <1>2, <1>3, <1>4, <1>6, <1>7 DEF KeyInv

\* The requests end with their row written, or die owing it.
LEMMA OwedStep ==
  ASSUME KeyInv, NEW c \in calls, c.pc = "row", WriteRow(c) \/ Die(c)
  PROVE  KeyInv'
  <1>1. /\ UNCHANGED <<grants, invites, events, tokens>> /\ calls' = calls \ {c}
        /\ \/ rows' = rows \cup {RowOf(c)} /\ lost' = lost
           \/ lost' = lost \cup {RowOf(c)} /\ rows' = rows
    BY DEF WriteRow, Die, documents, End
  <1>2. RowOf(c) \in Rows
    BY RowTyped
  <1>3. Grown
    BY <1>1 DEF Grown, Exists, Revoked
  <1>4. calls' \subseteq Calls /\ CallsOK'
    BY <1>1, <1>3, CallsKept
  <1>5. handed' = handed \/ (Onboarding(c) /\ rows' = rows \cup {RowOf(c)} /\ handed' = [handed EXCEPT ![c.of] = @ + 1])
    BY DEF WriteRow, Die, documents, Onboarding
  <1>6. handed' \in [Invites -> Nat]
    BY <1>5, OnboardingIs DEF KeyInv, TypeOK
  <1>7. TypeOK'
    BY <1>1, <1>2, <1>4, <1>6 DEF KeyInv, TypeOK
  <1>8. InvitesOK'
    <2>1. CASE handed' = handed
      BY <1>1, <2>1, InvitesKept, OnboardingIs DEF KeyInv, TypeOK
    <2>2. CASE Onboarding(c) /\ rows' = rows \cup {RowOf(c)} /\ handed' = [handed EXCEPT ![c.of] = @ + 1]
      <3>1. c.of \in Invites /\ RowOf(c) = OnboardingRow(c.of)
        BY <2>2, OnboardingIs, RowIs DEF Onboarding
      <3>2. invites[c.of].state = "approved" /\ handed[c.of] = 0
        BY <2>2 DEF KeyInv, InvitesOK
      <3>3. handed'[c.of] = 1 /\ \A i \in Invites : i # c.of => handed'[i] = handed[i]
        BY <2>2, <3>1, <3>2 DEF KeyInv, TypeOK
      <3>4. OnboardedOnce'
        BY <1>1, <2>2, <3>1, <3>2, <3>3 DEF KeyInv, InvitesOK, OnboardedOnce, OnboardingRow
      <3>5. \A d \in calls' : Onboarding(d) => d \in calls /\ d.of # c.of /\ d.of \in Invites
        BY <1>1, <2>2, OnboardingIs DEF KeyInv, InvitesOK
      <3> QED
        BY <1>1, <3>3, <3>4, <3>5 DEF KeyInv, InvitesOK
    <2> QED
      BY <1>5, <2>1, <2>2
  <1>9. LedgerTells'
    <2>1. Told' = Told
      BY <1>1, OwedMoves
    <2> QED
      BY <1>1, <2>1 DEF KeyInv, LedgerTells, Told, Exists, Revoked
  <1>10. GrantsOK' /\ DecisionOnRecord'
    BY <1>1 DEF KeyInv, GrantsOK, GrantOK, DecisionOnRecord, Exists
  <1> QED
    BY <1>4, <1>7, <1>8, <1>9, <1>10 DEF KeyInv

--------------------------------------------------------------------------------
(* Requests arrive; steps that change no grant.                                *)

LEMMA ArrivesKeep ==
  ASSUME KeyInv, NEW h \in Handlers, NEW op \in {"revoke", "decide", "login", "onboard"},
         NEW of \in Grants \cup Invites \cup {None}, NEW verdict \in Verdicts, NEW pc \in {"read", "write"},
         op \in {"revoke", "decide"} => of \in Grants, op = "onboard" => of \in Invites,
         op = "decide" <=> pc = "write",
         Start(h, op, pc, of, verdict), UNCHANGED <<documents, rows, lost>>
  PROVE  KeyInv'
  <1> DEFINE d == [by |-> h, op |-> op, pc |-> pc, of |-> of, verdict |-> verdict, found |-> {}]
  <1>1. d \in Calls /\ d.pc # "row" /\ CallOK(d)'
    BY DEF Calls, CallOK
  <1>2. calls' = calls \cup {d}
    BY DEF Start
  <1> HIDE DEF d
  <1> QED
    BY <1>1, <1>2, QuietStep DEF documents, KeyInv, TypeOK

\* A request ends with nothing owed.
LEMMA EndsKeep ==
  ASSUME KeyInv, NEW c \in calls, c.pc # "row", End(c),
         UNCHANGED <<grants, events, handed, rows, lost>>, tokens' \subseteq SUBSET Grants,
         invites' \in [Invites -> Invite],
         \A i \in Invites : invites[i].state = "approved" => invites'[i].state = "approved"
  PROVE  KeyInv'
  BY QuietStep DEF End, KeyInv, TypeOK

\* A request goes on to a step that owes no row.
LEMMA GoesOnKeeps ==
  ASSUME KeyInv, NEW c \in calls, c.pc # "row", NEW d \in Calls, CallOK(d)', d.pc # "row",
         calls' = (calls \ {c}) \cup {d}, UNCHANGED <<grants, invites, tokens, handed, rows, lost>>,
         events \subseteq events', events' \subseteq DecisionEvents
  PROVE  KeyInv'
  BY QuietStep DEF KeyInv, TypeOK

LEMMA RevokeReadKeeps ==
  ASSUME KeyInv, NEW c \in calls, RevokeRead(c)
  PROVE  KeyInv'
  <1>1. c.op = "revoke" /\ c.pc = "read" /\ UNCHANGED <<documents, rows, lost>> /\ c.of \in Grants
    BY CallIs DEF RevokeRead, At, CallOK
  <1>2. CASE End(c)
    BY <1>1, <1>2, EndsKeep DEF documents, KeyInv, TypeOK
  <1>3. CASE Exists(c.of) /\ Continue(c, "write")
    <2>1. PICK d \in Calls : /\ d = [c EXCEPT !.pc = "write"] /\ d.pc = "write" /\ d.by = c.by
                             /\ d.op = c.op /\ d.of = c.of /\ d.verdict = c.verdict
      BY CallIs, NextCall
    <2>2. CallOK(d)'
      BY <1>1, <1>3, <2>1 DEF CallOK, documents, Exists
    <2>3. calls' = (calls \ {c}) \cup {d}
      BY <1>3, <2>1 DEF Continue
    <2> QED
      BY <1>1, <2>1, <2>2, <2>3, GoesOnKeeps DEF documents, KeyInv, TypeOK
  <1> QED
    BY <1>2, <1>3 DEF RevokeRead

\* The event goes before the decision.
LEMMA RecordKeeps ==
  ASSUME KeyInv, NEW c \in calls, RecordDecision(c)
  PROVE  KeyInv'
  <1>1. /\ c.op = "decide" /\ c.pc = "write" /\ UNCHANGED <<grants, invites, tokens, handed, rows, lost>>
        /\ c.of \in Grants /\ c.verdict \in Verdicts /\ events' = events \cup {EventOf(c)}
    BY CallIs DEF RecordDecision, At, CallOK, Recorded, Calls
  <1>2. EventOf(c) \in DecisionEvents
    BY <1>1 DEF EventOf, DecisionEvents
  <1>3. PICK d \in Calls : /\ d = [c EXCEPT !.pc = "apply"] /\ d.pc = "apply" /\ d.by = c.by
                           /\ d.op = c.op /\ d.of = c.of /\ d.verdict = c.verdict
    BY CallIs, NextCall
  <1>4. EventOf(d) = EventOf(c)
    BY <1>3 DEF EventOf
  <1>5. CallOK(d)'
    BY <1>1, <1>3, <1>4 DEF CallOK
  <1>6. calls' = (calls \ {c}) \cup {d}
    BY <1>3 DEF RecordDecision, Continue
  <1> QED
    BY <1>1, <1>2, <1>3, <1>5, <1>6, GoesOnKeeps DEF KeyInv, TypeOK

LEMMA LoginKeeps ==
  ASSUME KeyInv, NEW c \in calls, Resolve(c) \/ MintToken(c)
  PROVE  KeyInv'
  <1>1. CASE Resolve(c)
    <2>1. PICK found \in SUBSET Grants : found = Resolved
      BY DEF Resolved
    <2>2. PICK d \in Calls : /\ d = [c EXCEPT !.pc = "mint", !.found = found] /\ d.pc = "mint"
                             /\ d.op = c.op /\ d.of = c.of
      BY CallIs, FoundCall
    <2>3. c.op = "login" /\ c.pc = "read" /\ UNCHANGED <<documents, rows, lost>>
      BY <1>1 DEF Resolve, At
    <2>4. CallOK(d)'
      BY <2>2, <2>3 DEF CallOK
    <2>5. calls' = (calls \ {c}) \cup {d}
      BY <1>1, <2>1, <2>2 DEF Resolve
    <2> QED
      BY <2>2, <2>3, <2>4, <2>5, GoesOnKeeps DEF documents, KeyInv, TypeOK
  <1>2. CASE MintToken(c)
    <2>1. c.found \subseteq Grants
      BY CallIs DEF Calls
    <2>2. tokens' \subseteq SUBSET Grants
      BY <1>2, <2>1 DEF MintToken, KeyInv, TypeOK
    <2> QED
      BY <1>2, <2>2, EndsKeep DEF MintToken, At, KeyInv, TypeOK
  <1> QED
    BY <1>1, <1>2

LEMMA ApproveReadKeeps ==
  ASSUME KeyInv, NEW c \in calls, ApproveRead(c)
  PROVE  KeyInv'
  <1>1. c.op = "onboard" /\ c.pc = "read" /\ UNCHANGED <<documents, rows, lost>> /\ c.of \in Invites
    BY CallIs DEF ApproveRead, At, CallOK
  <1>2. CASE End(c)
    BY <1>1, <1>2, EndsKeep DEF documents, KeyInv, TypeOK
  <1>3. ASSUME NEW to \in {"expire", "write"}, Continue(c, to) PROVE KeyInv'
    <2> DEFINE d == [c EXCEPT !.pc = to]
    <2>1. d \in Calls /\ d.pc = to /\ d.op = c.op /\ d.of = c.of
      BY CallIs DEF Calls
    <2>2. calls' = (calls \ {c}) \cup {d}
      BY <1>3 DEF Continue
    <2> HIDE DEF d
    <2>3. CallOK(d)'
      BY <1>1, <2>1 DEF CallOK
    <2> QED
      BY <1>1, <2>1, <2>2, <2>3, GoesOnKeeps DEF documents, KeyInv, TypeOK
  <1> QED
    BY <1>2, <1>3 DEF ApproveRead

\* The expiry, and an approval that comes too late, touch no approved invite.
LEMMA NotApprovedKeeps ==
  ASSUME KeyInv, NEW c \in calls, ExpireInvite(c) \/ (ApproveWrite(c) /\ ~Pending(c.of))
  PROVE  KeyInv'
  <1>1. CASE ExpireInvite(c)
    <2>1. /\ c.op = "onboard" /\ c.pc = "expire" /\ End(c) /\ UNCHANGED <<grants, events, tokens, handed, rows, lost>>
          /\ invites' = [invites EXCEPT ![c.of].state = IF Pending(c.of) THEN "expired" ELSE @]
      BY <1>1 DEF ExpireInvite, At
    <2>2. c.of \in Invites /\ invites \in [Invites -> Invite]
      BY <2>1, CallIs DEF CallOK, KeyInv, TypeOK
    <2>3. invites' \in [Invites -> Invite]
      BY <2>1, <2>2 DEF Invite
    <2>4. \A i \in Invites : invites[i].state = "approved" => invites'[i].state = "approved"
      BY <2>1, <2>2 DEF Pending, Invite
    <2> QED
      BY <2>1, <2>3, <2>4, EndsKeep DEF KeyInv, TypeOK
  <1>2. CASE ApproveWrite(c) /\ ~Pending(c.of)
    BY <1>2, EndsKeep DEF ApproveWrite, At, KeyInv, TypeOK
  <1> QED
    BY <1>1, <1>2

LEMMA ElsewhereKeeps ==
  ASSUME KeyInv, \/ \E i \in Invites : IssueInvite(i) \/ Lapse(i)
                 \/ \E t \in tokens : ExpireToken(t)
  PROVE  KeyInv'
  <1>1. ASSUME NEW i \in Invites, IssueInvite(i) \/ Lapse(i) PROVE KeyInv'
    <2>1. invites \in [Invites -> Invite] /\ UNCHANGED <<grants, events, tokens, handed, rows, calls, lost>>
      BY <1>1 DEF KeyInv, TypeOK, IssueInvite, Lapse
    <2>2. invites' \in [Invites -> Invite]
      BY <1>1, <2>1 DEF IssueInvite, Lapse, Invite
    <2>3. \A j \in Invites : invites[j].state = "approved" => invites'[j].state = "approved"
      BY <1>1, <2>1 DEF IssueInvite, Lapse, Invite
    <2> QED
      BY <2>1, <2>2, <2>3, QuietStep DEF KeyInv, TypeOK
  <1>2. ASSUME NEW t \in tokens, ExpireToken(t) PROVE KeyInv'
    BY <1>2, QuietStep DEF ExpireToken, KeyInv, TypeOK
  <1> QED
    BY <1>1, <1>2

--------------------------------------------------------------------------------
(* Steps that change a grant, or approve an invite.                            *)

\* One more row is told of, about one grant.
LEMMA RegisterKeeps ==
  ASSUME KeyInv, NEW h \in Handlers, NEW g \in Grants, Register(h, g)
  PROVE  KeyInv'
  <1> DEFINE d == [by |-> h, op |-> "register", pc |-> "row", of |-> g, verdict |-> "approve", found |-> {}]
             doc == Arrived("unset")
  <1>1. /\ calls' = calls \cup {d} /\ ~Exists(g) /\ grants' = [grants EXCEPT ![g] = doc]
        /\ UNCHANGED <<invites, events, tokens, handed, rows, lost>>
    BY DEF Register, Start
  <1>2. d \in Calls /\ d.pc = "row" /\ d.op = "register" /\ d.of = g
    BY DEF Calls, Verdicts
  <1>3. RowOf(d) = IssuedRow(g)
    BY <1>2, RowIs
  <1>4. /\ doc \in Grant /\ doc.state = "unset" /\ ~doc.seeded /\ doc.revoked = None /\ doc.decision = None
        /\ doc # None
    <2>1. doc \in Grant
      BY DEF Arrived, Grant
    <2> QED
      BY <2>1, GrantAssumption DEF Arrived
  <1> HIDE DEF d, doc
  <1>5. grants'[g] = doc /\ \A a \in Grants : a # g => grants'[a] = grants[a]
    BY <1>1 DEF KeyInv, TypeOK
  <1>6. grants' \in [Grants -> Grant \cup {None}]
    BY <1>1, <1>4 DEF KeyInv, TypeOK
  <1>7. Grown
    BY <1>1, <1>5 DEF Grown, Exists, Revoked
  <1>8. CallOK(d)'
    BY <1>2, <1>4, <1>5 DEF CallOK, Exists
  <1>9. calls' \subseteq Calls /\ CallsOK'
    BY <1>1, <1>2, <1>7, <1>8, CallsKept
  <1>10. TypeOK'
    BY <1>1, <1>6, <1>9 DEF KeyInv, TypeOK
  <1>11. InvitesOK'
    BY <1>1, <1>2, InvitesKept, OnboardingIs DEF KeyInv, TypeOK, Onboarding
  <1>12. Told' = Told \cup {IssuedRow(g)}
    BY <1>1, <1>2, <1>3, NowOwed
  <1>13. LedgerTells'
    <2> SUFFICES ASSUME NEW a \in Grants
                 PROVE  /\ \A r \in Told' : r.of = a => Exists(a)' /\ (r.event = "revoked" => Revoked(a)')
                        /\ Exists(a)' /\ ~grants'[a].seeded => IssuedRow(a) \in Told'
                        /\ Revoked(a)' => RevokedRow(a, grants'[a].revoked) \in Told'
      BY DEF LedgerTells, Told, IssuedRow, RevokedRow
    <2>1. CASE a = g
      <3>1. \A r \in Told : r.of # g
        BY <1>1 DEF KeyInv, LedgerTells, Told
      <3>2. Exists(g)' /\ ~Revoked(g)'
        BY <1>4, <1>5 DEF Exists, Revoked
      <3> QED
        BY <1>12, <2>1, <3>1, <3>2 DEF IssuedRow
    <2>2. CASE a # g
      <3>1. (Exists(a)' <=> Exists(a)) /\ (Revoked(a)' <=> Revoked(a)) /\ grants'[a] = grants[a]
        BY <1>5, <2>2 DEF Exists, Revoked
      <3>2. IssuedRow(g).of # a
        BY <2>2 DEF IssuedRow
      <3> QED
        BY <1>12, <3>1, <3>2 DEF KeyInv, LedgerTells, Told, IssuedRow, RevokedRow
    <2> QED
      BY <2>1, <2>2
  <1>14. GrantsOK' /\ DecisionOnRecord'
    BY <1>1, <1>4, <1>5 DEF KeyInv, GrantsOK, GrantOK, DecisionOnRecord, Exists
  <1> QED
    BY <1>9, <1>10, <1>11, <1>13, <1>14 DEF KeyInv

\* The later of two revocations rewrites the earlier, and owes a row of its own.
LEMMA RevokeWriteKeeps ==
  ASSUME KeyInv, NEW c \in calls, RevokeWrite(c)
  PROVE  KeyInv'
  <1> DEFINE g == c.of
             doc == RevokedDoc(grants[g], c.by)
  <1>1. /\ c.op = "revoke" /\ c.pc = "write" /\ Continue(c, "row") /\ grants' = [grants EXCEPT ![g] = doc]
        /\ UNCHANGED <<invites, events, tokens, handed, rows, lost>> /\ g \in Grants /\ Exists(g)
    BY CallIs DEF RevokeWrite, At, CallOK
  <1>2. PICK d \in Calls : /\ d = [c EXCEPT !.pc = "row"] /\ d.pc = "row" /\ d.by = c.by
                           /\ d.op = c.op /\ d.of = c.of /\ d.verdict = c.verdict
    BY CallIs, NextCall
  <1>3. calls' = (calls \ {c}) \cup {d}
    BY <1>1, <1>2 DEF Continue
  <1>4. RowOf(d) = RevokedRow(g, c.by)
    BY <1>1, <1>2, RowIs
  <1>5. grants[g] \in Grant /\ c.by \in Handlers /\ c.by # None
    BY <1>1, CallIs DEF KeyInv, TypeOK, Exists
  <1>6. /\ doc \in Grant /\ doc # None /\ doc.revoked = c.by /\ doc.state = grants[g].state
        /\ doc.seeded = grants[g].seeded /\ doc.decision = grants[g].decision
    <2>1. doc \in Grant
      BY <1>5 DEF RevokedDoc, Grant
    <2> QED
      BY <1>5, <2>1, GrantAssumption DEF RevokedDoc, Grant
  <1> HIDE DEF g, doc
  <1>7. grants'[g] = doc /\ \A a \in Grants : a # g => grants'[a] = grants[a]
    BY <1>1 DEF KeyInv, TypeOK
  <1>8. grants' \in [Grants -> Grant \cup {None}]
    BY <1>1, <1>6 DEF KeyInv, TypeOK
  <1>9. Grown /\ Exists(g)' /\ Revoked(g)'
    BY <1>1, <1>5, <1>6, <1>7 DEF Grown, Exists, Revoked
  <1>10. CallOK(d)'
    BY <1>1, <1>2, <1>9 DEF CallOK, g
  <1>11. calls' \subseteq Calls /\ CallsOK'
    BY <1>2, <1>3, <1>9, <1>10, CallsKept
  <1>12. TypeOK'
    BY <1>1, <1>8, <1>11 DEF KeyInv, TypeOK
  <1>13. InvitesOK'
    BY <1>1, <1>2, <1>3, InvitesKept, OnboardingIs DEF KeyInv, TypeOK, Onboarding
  <1>14. Told' = Told \cup {RevokedRow(g, c.by)}
    BY <1>1, <1>2, <1>3, <1>4, NowOwed
  <1>15. LedgerTells'
    <2> SUFFICES ASSUME NEW a \in Grants
                 PROVE  /\ \A r \in Told' : r.of = a => Exists(a)' /\ (r.event = "revoked" => Revoked(a)')
                        /\ Exists(a)' /\ ~grants'[a].seeded => IssuedRow(a) \in Told'
                        /\ Revoked(a)' => RevokedRow(a, grants'[a].revoked) \in Told'
      BY DEF LedgerTells, Told, IssuedRow, RevokedRow
    <2>1. CASE a = g
      <3>1. IssuedRow(g) \in Told \/ grants[g].seeded
        BY <1>1 DEF KeyInv, LedgerTells, Told, IssuedRow
      <3> QED
        BY <1>6, <1>7, <1>9, <1>14, <2>1, <3>1
    <2>2. CASE a # g
      <3>1. (Exists(a)' <=> Exists(a)) /\ (Revoked(a)' <=> Revoked(a)) /\ grants'[a] = grants[a]
        BY <1>7, <2>2 DEF Exists, Revoked
      <3>2. RevokedRow(g, c.by).of # a
        BY <2>2 DEF RevokedRow
      <3> QED
        BY <1>14, <3>1, <3>2 DEF KeyInv, LedgerTells, Told, IssuedRow, RevokedRow
    <2> QED
      BY <2>1, <2>2
  <1>16. GrantsOK' /\ DecisionOnRecord'
    BY <1>1, <1>6, <1>7 DEF KeyInv, GrantsOK, GrantOK, DecisionOnRecord, Exists
  <1> QED
    BY <1>11, <1>12, <1>13, <1>15, <1>16 DEF KeyInv

\* The decision is applied as it was recorded.
LEMMA ApplyKeeps ==
  ASSUME KeyInv, NEW c \in calls, ApplyDecision(c)
  PROVE  KeyInv'
  <1>1. /\ c.op = "decide" /\ c.pc = "apply" /\ End(c) /\ c.of \in Grants /\ EventOf(c) \in events
        /\ UNCHANGED <<invites, events, tokens, handed, rows, lost>> /\ c.verdict \in Verdicts
    BY CallIs DEF ApplyDecision, At, CallOK, Calls
  <1>2. CASE grants' = grants
    BY <1>1, <1>2, EndsKeep DEF KeyInv, TypeOK
  <1>3. CASE Exists(c.of) /\ grants' # grants
    <2> DEFINE g == c.of
               state == IF c.verdict = "approve" THEN "active" ELSE "declined"
               doc == [grants[g] EXCEPT !.decision = EventOf(c), !.state = state]
    <2>1. grants[g] \in Grant /\ EventOf(c) \in DecisionEvents /\ EventOf(c).verdict = c.verdict
      BY <1>1, <1>3 DEF KeyInv, TypeOK, Exists, EventOf
    <2>2. /\ doc \in Grant /\ doc.state = state /\ doc.decision = EventOf(c)
          /\ doc.seeded = grants[g].seeded /\ doc.revoked = grants[g].revoked
      BY <2>1 DEF Grant
    <2>3. doc # None /\ EventOf(c) # None
      BY <2>1, <2>2, GrantAssumption
    <2>4. grants' = [grants EXCEPT ![g] = doc]
      BY <1>3 DEF ApplyDecision
    <2>5. state \in {"active", "declined"} /\ (c.verdict = "decline" <=> state = "declined")
      BY <1>1 DEF Verdicts
    <2> HIDE DEF g, doc, state
    <2>6. g \in Grants /\ Exists(g)
      BY <1>1, <1>3 DEF g
    <2>7. grants'[g] = doc /\ \A a \in Grants : a # g => grants'[a] = grants[a]
      BY <2>4, <2>6 DEF KeyInv, TypeOK
    <2>8. \A a \in Grants : /\ Exists(a)' <=> Exists(a)
                            /\ Revoked(a)' <=> Revoked(a)
                            /\ grants'[a].seeded = grants[a].seeded /\ grants'[a].revoked = grants[a].revoked
      BY <2>2, <2>3, <2>6, <2>7 DEF Exists, Revoked
    <2>9. Grown
      BY <1>1, <2>8 DEF Grown
    <2>10. calls' \subseteq Calls /\ CallsOK'
      BY <1>1, <2>9, CallsKept DEF End
    <2>11. TypeOK'
      BY <1>1, <2>2, <2>4, <2>10 DEF KeyInv, TypeOK
    <2>12. InvitesOK'
      BY <1>1, InvitesKept, OnboardingIs DEF KeyInv, TypeOK, End
    <2>13. LedgerTells'
      <3>1. Told' = Told
        BY <1>1, NothingOwed DEF End
      <3> QED
        BY <2>8, <3>1 DEF KeyInv, LedgerTells, Told
    <2>14. GrantsOK' /\ DecisionOnRecord'
      <3>1. \A a \in Grants : a # g /\ Exists(a)' => GrantOK(a)'
        BY <2>7, <2>8 DEF KeyInv, GrantsOK, GrantOK
      <3>2. GrantOK(g)'
        BY <2>2, <2>5, <2>7 DEF GrantOK
      <3>3. DecisionOnRecord'
        BY <1>1, <2>1, <2>2, <2>5, <2>7, <2>8 DEF KeyInv, DecisionOnRecord
      <3> QED
        BY <3>1, <3>2, <3>3 DEF GrantsOK
    <2> QED
      BY <2>10, <2>11, <2>12, <2>13, <2>14 DEF KeyInv
  <1> QED
    BY <1>2, <1>3 DEF ApplyDecision

\* Of two approvals one finds the invite pending, and has its token to hand out.
LEMMA ApproveWriteKeeps ==
  ASSUME KeyInv, NEW c \in calls, ApproveWrite(c), Pending(c.of)
  PROVE  KeyInv'
  <1> DEFINE i == c.of
  <1>1. /\ c.op = "onboard" /\ c.pc = "write" /\ Continue(c, "row") /\ i \in Invites
        /\ invites' = [invites EXCEPT ![i].state = "approved"] /\ invites[i].state = "pending_invite"
        /\ UNCHANGED <<grants, events, tokens, handed, rows, lost>>
    BY CallIs DEF ApproveWrite, At, Pending, CallOK
  <1>2. PICK d \in Calls : /\ d = [c EXCEPT !.pc = "row"] /\ d.pc = "row" /\ d.by = c.by
                           /\ d.op = c.op /\ d.of = c.of /\ d.verdict = c.verdict
    BY CallIs, NextCall
  <1>3. calls' = (calls \ {c}) \cup {d}
    BY <1>1, <1>2 DEF Continue
  <1>4. RowOf(d) = OnboardingRow(i)
    BY <1>1, <1>2, RowIs
  <1>5. Onboarding(d) /\ d.of = i
    BY <1>1, <1>2 DEF Onboarding
  <1> HIDE DEF i
  <1>6. /\ invites'[i].state = "approved" /\ \A a \in Invites : a # i => invites'[a] = invites[a]
        /\ invites' \in [Invites -> Invite]
    BY <1>1 DEF KeyInv, TypeOK, Invite
  <1>7. handed[i] = 0
    <2>1. handed[i] \in Nat
      BY <1>1 DEF KeyInv, TypeOK
    <2>2. handed[i] <= 1 /\ handed[i] # 1
      BY <1>1 DEF KeyInv, InvitesOK, OnboardedOnce
    <2> QED
      BY <2>1, <2>2
  <1>8. Grown
    BY <1>1 DEF Grown, Exists, Revoked
  <1>9. CallOK(d)'
    BY <1>1, <1>2 DEF CallOK, i
  <1>10. calls' \subseteq Calls /\ CallsOK'
    BY <1>2, <1>3, <1>8, <1>9, CallsKept
  <1>11. TypeOK'
    BY <1>1, <1>6, <1>10 DEF KeyInv, TypeOK
  <1>12. InvitesOK'
    <2>1. OnboardedOnce'
      BY <1>1, <1>6, <1>7 DEF KeyInv, InvitesOK, OnboardedOnce
    <2>2. \A e \in calls : Onboarding(e) => e.of \in Invites /\ e.of # i
      BY <1>1, OnboardingIs DEF KeyInv, InvitesOK
    <2> QED
      BY <1>1, <1>3, <1>5, <1>6, <1>7, <2>1, <2>2 DEF KeyInv, InvitesOK
  <1>13. LedgerTells'
    <2>1. Told' = Told \cup {OnboardingRow(i)}
      BY <1>1, <1>2, <1>3, <1>4, NowOwed
    <2>2. OnboardingRow(i).of \notin Grants
      BY <1>1, GrantAssumption DEF OnboardingRow
    <2> QED
      BY <1>1, <2>1, <2>2 DEF KeyInv, LedgerTells, Told, Exists, Revoked
  <1>14. GrantsOK' /\ DecisionOnRecord'
    BY <1>1 DEF KeyInv, GrantsOK, GrantOK, DecisionOnRecord, Exists
  <1> QED
    BY <1>10, <1>11, <1>12, <1>13, <1>14 DEF KeyInv

--------------------------------------------------------------------------------
(* The theorems.                                                               *)

LEMMA KeyInitInv == Init => KeyInv
  <1> SUFFICES ASSUME Init PROVE KeyInv
    OBVIOUS
  <1> DEFINE doc == Arrived("pending_approval")
  <1>1. /\ doc \in Grant /\ doc.state = "pending_approval" /\ doc.seeded /\ doc.revoked = None
        /\ doc.decision = None
    BY DEF Arrived, Grant
  <1>2. \A g \in Grants : grants[g] \in {doc, None}
    BY DEF Init
  <1> HIDE DEF doc
  <1>3. TypeOK
    <2>1. grants \in [Grants -> Grant \cup {None}]
      BY <1>1, <1>2 DEF Init
    <2> QED
      BY <2>1 DEF Init, TypeOK, Invite
  <1>4. CallsOK
    BY DEF Init, CallsOK
  <1>5. InvitesOK
    BY DEF Init, InvitesOK, OnboardedOnce
  <1>6. GrantsOK /\ DecisionOnRecord
    BY <1>1, <1>2 DEF GrantsOK, GrantOK, DecisionOnRecord, Exists
  <1>7. LedgerTells
    BY <1>1, <1>2 DEF Init, LedgerTells, Owed, Exists, Revoked
  <1> QED
    BY <1>3, <1>4, <1>5, <1>6, <1>7 DEF KeyInv

LEMMA RequestKeeps ==
  ASSUME KeyInv, NEW h \in Handlers, Request(h)
  PROVE  KeyInv'
  <1>1. ASSUME NEW g \in Grants, Register(h, g) PROVE KeyInv'
    BY <1>1, RegisterKeeps
  <1>2. ASSUME NEW g \in Grants, Revoke(h, g) PROVE KeyInv'
    BY <1>2, ArrivesKeep DEF Revoke, Verdicts
  <1>3. ASSUME NEW g \in Grants, NEW v \in Verdicts, Decide(h, g, v) PROVE KeyInv'
    BY <1>3, ArrivesKeep DEF Decide
  <1>4. CASE Login(h)
    BY <1>4, ArrivesKeep DEF Login, Verdicts
  <1>5. ASSUME NEW i \in Invites, Approve(h, i) PROVE KeyInv'
    BY <1>5, ArrivesKeep DEF Approve, Verdicts
  <1> QED
    BY <1>1, <1>2, <1>3, <1>4, <1>5 DEF Request

LEMMA StepKeeps ==
  ASSUME KeyInv, NEW c \in calls, Step(c)
  PROVE  KeyInv'
  <1>1. CASE RevokeRead(c) \/ RecordDecision(c) \/ Resolve(c) \/ MintToken(c) \/ ApproveRead(c)
    BY <1>1, RevokeReadKeeps, RecordKeeps, LoginKeeps, ApproveReadKeeps
  <1>2. CASE RevokeWrite(c) \/ ApplyDecision(c)
    BY <1>2, RevokeWriteKeeps, ApplyKeeps
  <1>3. CASE ExpireInvite(c) \/ ApproveWrite(c)
    BY <1>3, NotApprovedKeeps, ApproveWriteKeeps
  <1>4. CASE c.pc = "row" /\ (WriteRow(c) \/ Die(c))
    BY <1>4, OwedStep
  <1>5. CASE c.pc # "row" /\ Die(c)
    BY <1>5, EndsKeep DEF Die, documents, KeyInv, TypeOK
  <1> QED
    BY <1>1, <1>2, <1>3, <1>4, <1>5 DEF Step, WriteRow

THEOREM KeyInductive == Spec => []KeyInv
  <1>1. KeyInv /\ [Next]_vars => KeyInv'
    <2> SUFFICES ASSUME KeyInv, [Next]_vars PROVE KeyInv'
      OBVIOUS
    <2>1. CASE UNCHANGED vars
      BY <2>1, QuietStep DEF vars, KeyInv, TypeOK
    <2>2. CASE Next
      BY <2>2, RequestKeeps, StepKeeps, ElsewhereKeeps DEF Next
    <2> QED
      BY <2>1, <2>2
  <1> QED
    BY <1>1, KeyInitInv, PTL DEF Spec

\* Every variable of the key register keeps its type.
THEOREM KeyTypeCorrect == Spec => []TypeOK
  BY KeyInductive, PTL DEF KeyInv

\* A state field goes before a revocation in what is shown; where it comes from tells why.
LEMMA ShownByRecord == KeyInv => RegisterTells
  <1> SUFFICES ASSUME KeyInv, NEW g \in Grants, Exists(g)
               PROVE  /\ Shown(g) = "revoked" => RevokedRow(g, grants[g].revoked) \in Told
                      /\ Revoked(g) /\ Shown(g) # "revoked" => g \in Queue \/ grants[g].decision \in events
                      /\ grants[g].seeded => (g \in Queue <=> grants[g].decision = None)
                      /\ g \in Queue => grants[g].seeded
    BY DEF RegisterTells, RevokedRow, Told
  <1>1. grants[g].state \in {"unset", "pending_approval", "active", "declined"} /\ GrantOK(g)
    BY DEF KeyInv, TypeOK, GrantsOK, Exists, Grant
  <1>2. grants[g].state \in {"active", "declined"} => grants[g].decision \in events /\ grants[g].decision # None
    BY GrantAssumption DEF KeyInv, TypeOK, DecisionOnRecord
  <1>3. g \in Queue <=> grants[g].state = "pending_approval"
    BY <1>1 DEF Queue, Shown
  <1>4. Shown(g) = "revoked" <=> grants[g].state = "unset" /\ Revoked(g)
    BY <1>1 DEF Shown
  <1>5. Revoked(g) => RevokedRow(g, grants[g].revoked) \in Told
    BY DEF KeyInv, LedgerTells, Told, RevokedRow
  <1> QED
    BY <1>1, <1>2, <1>3, <1>4, <1>5 DEF GrantOK

\* "Both actions are ledger events": the ledger, the decision events and the register
\* agree on what was done to a grant, however requests race and die.
THEOREM GrantsOnRecordHolds == Spec => []GrantsOnRecord
  BY KeyInductive, ShownByRecord, PTL DEF GrantsOnRecord, KeyInv

\* An invite yields one token, and none without the audit row: find_one_and_update lets
\* one of the approvals have it.
THEOREM OnboardedOnceHolds == Spec => []OnboardedOnce
  BY KeyInductive, PTL DEF KeyInv, InvitesOK

--------------------------------------------------------------------------------
(* The invariant of the census and the briefs.                                 *)

DimensionValues == CensusValues \cup {Absent}
RecordingStates ==
  [pc : {"idle", "lost"}] \cup
  [pc : {"upsert", "refused", "told", "lost"}, feed : CensusFeeds, surface : Dimensions, genre : Dimensions]
CensusTypeOK ==
  /\ vocabulary \in [Kinds -> Seq(CensusValues)]
  /\ damaged \in SUBSET Kinds
  /\ dimensions \in [CensusFeeds -> [surface : DimensionValues, genre : DimensionValues]]
  /\ recording \in [Recordings -> RecordingStates]

\* What a recording is about to store is in the vocabularies.
UpsertsKnown ==
  \A c \in Recordings : recording[c].pc = "upsert" =>
    /\ recording[c].surface.value \in ToSet(vocabulary["content_surfaces"]) \cup {Absent}
    /\ recording[c].genre.value \in ToSet(vocabulary["genres"]) \cup {Absent}
VocabulariesFinite == \A kind \in Kinds : IsFiniteSet(ToSet(vocabulary[kind]))
CensusInv == CensusTypeOK /\ UpsertsKnown /\ VocabulariesFinite /\ CensusInVocabulary

Scopes == {"slice", "combined", "estate"}
BriefRows ==
  [scope : Scopes, slices : SUBSET (Kinds \X CensusValues), census : CensusRefs,
   text : {ReidentifiedDraft(answer).text : answer \in Drafts}, reads : ReadMaps, by : Desks, stale : BOOLEAN]
Settled ==
  {"success", "grounding_reject", "key_missing", "llm_unavailable", "llm_parse_failure", "llm_timeout"}
DeskStates ==
  [pc : {"idle", "lost"}] \cup
  [pc : {"begun", "asked"} \cup Settled, scope : Scopes, slices : SUBSET (Kinds \X CensusValues),
   reads : ReadMaps, census : CensusRefs]
BriefsTypeOK ==
  /\ briefs \in Seq(BriefRows)
  /\ desk \in [Desks -> DeskStates]

\* The last refresh saw rows that are still there.
RefreshOK == refreshed.rows \in Nat /\ refreshed.rows <= Len(briefs)
BriefsInv == BriefsTypeOK /\ RefreshOK /\ BriefsStand

AllInv == CensusInv /\ BriefsInv

--------------------------------------------------------------------------------
(* The vocabularies.                                                           *)

\* A vocabulary registers one value more, or none.
NoValueTwice(vocab) == IsFiniteSet(ToSet(vocab)) /\ Cardinality(ToSet(vocab)) = Len(vocab)
GrownBy(vocab, d, after) ==
  /\ after \in Seq(CensusValues) /\ NoValueTwice(after)
  /\ Len(vocab) <= Len(after) /\ \A i \in 1..Len(vocab) : after[i] = vocab[i]
  /\ \A value \in ToSet(after) :
       value \in ToSet(vocab) \/ d = [value |-> value, source |-> "census_observed"]
LEMMA RegisteredGrows ==
  ASSUME NEW vocab \in Seq(CensusValues), NEW d \in Dimensions, NoValueTwice(vocab)
  PROVE  GrownBy(vocab, d, Applied1(vocab, d))
  <1> PICK after : after = Applied1(vocab, d)
    OBVIOUS
  <1>0. IsFiniteSet(ToSet(vocab)) /\ Cardinality(ToSet(vocab)) = Len(vocab)
    BY DEF NoValueTwice
  <1>1. CASE after = vocab
    <2>1. Len(vocab) \in Nat
      BY LenProperties
    <2> QED
      BY <1>1, <2>1 DEF GrownBy
  <1>2. CASE after # vocab
    <2>1. /\ d.value \in CensusValues /\ d.source = "census_observed" /\ d.value \notin ToSet(vocab)
          /\ after = Append(vocab, d.value)
      BY <1>2 DEF Applied1, Registered, Dimensions
    <2>2. /\ after \in Seq(CensusValues) /\ Len(after) = Len(vocab) + 1 /\ Len(vocab) \in Nat
          /\ \A i \in 1..Len(vocab) : after[i] = vocab[i]
          /\ after[Len(vocab) + 1] = d.value
      BY <2>1, AppendProperties, LenProperties
    <2>3. DOMAIN vocab = 1..Len(vocab) /\ DOMAIN after = 1..(Len(vocab) + 1)
      BY <2>2, LenProperties
    <2>4. ToSet(after) = ToSet(vocab) \cup {d.value}
      <3>1. \A x \in ToSet(after) : x \in ToSet(vocab) \cup {d.value}
        <4> SUFFICES ASSUME NEW i \in 1..(Len(vocab) + 1)
                     PROVE  after[i] \in ToSet(vocab) \cup {d.value}
          BY <2>3 DEF ToSet
        <4>1. CASE i = Len(vocab) + 1
          BY <2>2, <4>1
        <4>2. CASE i \in 1..Len(vocab)
          BY <2>2, <2>3, <4>2 DEF ToSet
        <4> QED
          BY <2>2, <4>1, <4>2
      <3>2. \A x \in ToSet(vocab) : x \in ToSet(after)
        <4> SUFFICES ASSUME NEW i \in DOMAIN vocab
                     PROVE  vocab[i] \in ToSet(after)
          BY DEF ToSet
        <4>1. i \in 1..(Len(vocab) + 1) /\ after[i] = vocab[i]
          BY <2>2, <2>3
        <4> QED
          BY <2>3, <4>1 DEF ToSet
      <3>3. d.value \in ToSet(after)
        <4>1. Len(vocab) + 1 \in DOMAIN after
          BY <2>2, <2>3
        <4> QED
          BY <2>2, <4>1 DEF ToSet
      <3> QED
        BY <3>1, <3>2, <3>3
    <2>5. IsFiniteSet(ToSet(after)) /\ Cardinality(ToSet(after)) = Cardinality(ToSet(vocab)) + 1
      BY <1>0, <2>1, <2>4, FS_AddElement
    <2>6. d = [value |-> d.value, source |-> "census_observed"]
      BY <2>1 DEF Dimensions
    <2> QED
      BY <1>0, <2>2, <2>4, <2>5, <2>6 DEF GrownBy, NoValueTwice
  <1> QED
    BY <1>1, <1>2

--------------------------------------------------------------------------------
(* The recordings.                                                             *)

LEMMA RecordInv ==
  ASSUME CensusInv, NEW c \in Recordings, NEW feed \in CensusFeeds, NEW surface \in Dimensions,
         NEW genre \in Dimensions, Record(c, feed, surface, genre)
  PROVE  CensusInv'
  <1> DEFINE given(kind) == IF kind = "genres" THEN genre ELSE surface
  <1> PICK surfaces : surfaces = Applied1(vocabulary["content_surfaces"], surface)
    OBVIOUS
  <1> PICK genres : genres = Applied1(vocabulary["genres"], genre)
    OBVIOUS
  <1> PICK call : call = recording'[c]
    OBVIOUS
  <1>1. /\ CensusTypeOK /\ UpsertsKnown /\ VocabulariesFinite /\ CensusInVocabulary
        /\ UNCHANGED <<damaged, dimensions>> /\ recording[c].pc = "idle"
    BY DEF CensusInv, Record
  <1>2. /\ call.pc \in {"upsert", "refused"} /\ call.feed = feed /\ call.surface = surface /\ call.genre = genre
        /\ call \in RecordingStates
        /\ recording' \in [Recordings -> RecordingStates]
        /\ \A d \in Recordings : d # c => recording'[d] = recording[d]
    BY <1>1 DEF Record, CensusTypeOK, RecordingStates
  <1>3. /\ vocabulary'["content_surfaces"] \in {vocabulary["content_surfaces"], surfaces}
        /\ vocabulary'["genres"] \in {vocabulary["genres"], genres}
        /\ vocabulary' = [kind \in Kinds |-> vocabulary'[kind]]
        /\ \A kind \in Kinds : vocabulary'[kind] = vocabulary[kind] \/ vocabulary'[kind] = Applied1(vocabulary[kind], given(kind))
    BY <1>1 DEF Record, CensusTypeOK, Kinds
  <1>4. call.pc = "upsert" => /\ vocabulary'["content_surfaces"] = surfaces /\ vocabulary'["genres"] = genres
                              /\ Accepted1(surfaces, surface) /\ Accepted1(genres, genre)
    BY <1>1, <1>2 DEF Record, CensusTypeOK, Kinds
  <1>5. ASSUME NEW kind \in Kinds
        PROVE  GrownBy(vocabulary[kind], given(kind), vocabulary'[kind])
    <2>1. vocabulary[kind] \in Seq(CensusValues) /\ NoValueTwice(vocabulary[kind]) /\ given(kind) \in Dimensions
      BY <1>1 DEF CensusTypeOK, VocabulariesFinite, CensusInVocabulary, NoValueTwice
    <2> HIDE DEF given
    <2>2. CASE vocabulary'[kind] = vocabulary[kind]
      <3>1. Len(vocabulary[kind]) \in Nat
        BY <2>1, LenProperties
      <3> QED
        BY <2>1, <2>2, <3>1 DEF GrownBy
    <2>3. CASE vocabulary'[kind] = Applied1(vocabulary[kind], given(kind))
      BY <2>1, <2>3, RegisteredGrows
    <2> QED
      BY <1>3, <2>2, <2>3
  <1>6. VocabulariesFinite' /\ vocabulary' \in [Kinds -> Seq(CensusValues)]
    <2>1. \A kind \in Kinds : vocabulary'[kind] \in Seq(CensusValues)
      BY <1>5 DEF GrownBy
    <2>2. vocabulary' \in [Kinds -> Seq(CensusValues)]
      BY <1>3, <2>1
    <2> QED
      BY <1>5, <2>2 DEF VocabulariesFinite, GrownBy, NoValueTwice
  <1>7. \A kind \in Kinds : ToSet(vocabulary[kind]) \subseteq ToSet(vocabulary'[kind])
    <2> SUFFICES ASSUME NEW kind \in Kinds, NEW i \in DOMAIN vocabulary[kind]
                 PROVE  vocabulary[kind][i] \in ToSet(vocabulary'[kind])
      BY DEF ToSet
    <2>1. /\ DOMAIN vocabulary[kind] = 1..Len(vocabulary[kind]) /\ Len(vocabulary[kind]) \in Nat
          /\ DOMAIN vocabulary'[kind] = 1..Len(vocabulary'[kind]) /\ Len(vocabulary'[kind]) \in Nat
      BY <1>1, <1>6, LenProperties DEF CensusTypeOK
    <2>2. i \in DOMAIN vocabulary'[kind] /\ vocabulary'[kind][i] = vocabulary[kind][i]
      BY <1>5, <2>1 DEF GrownBy
    <2> QED
      BY <2>2 DEF ToSet
  <1>8. UpsertsKnown'
    <2> SUFFICES ASSUME NEW d \in Recordings, recording'[d].pc = "upsert"
                 PROVE  /\ recording'[d].surface.value \in ToSet(vocabulary'["content_surfaces"]) \cup {Absent}
                        /\ recording'[d].genre.value \in ToSet(vocabulary'["genres"]) \cup {Absent}
      BY DEF UpsertsKnown
    <2>1. CASE d = c
      BY <1>2, <1>4, <2>1 DEF Accepted1
    <2>2. CASE d # c
      <3>1. /\ recording[d].surface.value \in ToSet(vocabulary["content_surfaces"]) \cup {Absent}
            /\ recording[d].genre.value \in ToSet(vocabulary["genres"]) \cup {Absent}
            /\ recording'[d] = recording[d]
        BY <1>1, <1>2, <2>2 DEF UpsertsKnown
      <3> QED
        BY <1>7, <3>1 DEF Kinds
    <2> QED
      BY <2>1, <2>2
  <1>9. ASSUME NEW kind \in Kinds, damaged' = {}, \A d \in Recordings : recording'[d].pc # "lost",
               NEW value \in ToSet(vocabulary'[kind])
        PROVE  Observed(kind, value)'
    <2>1. CASE given(kind) = [value |-> value, source |-> "census_observed"]
      BY <1>2, <2>1 DEF Observed
    <2>2. CASE value \in ToSet(vocabulary[kind])
      <3>1. damaged = {} /\ \A d \in Recordings : recording[d].pc # "lost"
        BY <1>1, <1>2, <1>9
      <3>2. Observed(kind, value)
        BY <1>1, <2>2, <3>1 DEF CensusInVocabulary
      <3> PICK d \in Recordings : /\ recording[d].pc \notin {"idle", "lost"}
                                  /\ (IF kind = "genres" THEN recording[d].genre ELSE recording[d].surface)
                                       = [value |-> value, source |-> "census_observed"]
        BY <3>2 DEF Observed
      <3>3. recording'[d] = recording[d]
        BY <1>1, <1>2
      <3> QED
        BY <3>3 DEF Observed
    <2> QED
      BY <1>5, <2>1, <2>2 DEF GrownBy
  <1>10. CensusInVocabulary'
    <2>1. \A f \in CensusFeeds :
            /\ dimensions'[f].surface \in ToSet(vocabulary'["content_surfaces"]) \cup {Absent}
            /\ dimensions'[f].genre \in ToSet(vocabulary'["genres"]) \cup {Absent}
      <3>1. "content_surfaces" \in Kinds /\ "genres" \in Kinds
        BY DEF Kinds
      <3> QED
        BY <1>1, <1>7, <3>1 DEF CensusInVocabulary
    <2> QED
      BY <1>5, <1>9, <2>1 DEF CensusInVocabulary, GrownBy, NoValueTwice
  <1> QED
    BY <1>1, <1>2, <1>6, <1>8, <1>10 DEF CensusInv, CensusTypeOK

LEMMA UpsertInv ==
  ASSUME CensusInv, NEW c \in Recordings, Upsert(c)
  PROVE  CensusInv' /\ UNCHANGED vocabulary
  <1> PICK call : call = recording[c]
    OBVIOUS
  <1>1. /\ CensusTypeOK /\ UpsertsKnown /\ VocabulariesFinite /\ CensusInVocabulary
        /\ UNCHANGED <<vocabulary, damaged>> /\ call.pc = "upsert"
    BY DEF CensusInv, Upsert
  <1>2. /\ call \in [pc : {"upsert"}, feed : CensusFeeds, surface : Dimensions, genre : Dimensions]
        /\ call.surface.value \in ToSet(vocabulary["content_surfaces"]) \cup {Absent}
        /\ call.genre.value \in ToSet(vocabulary["genres"]) \cup {Absent}
    BY <1>1 DEF CensusTypeOK, RecordingStates, UpsertsKnown
  <1>3. /\ recording' \in [Recordings -> RecordingStates]
        /\ recording'[c].pc = "told" /\ recording'[c].surface = call.surface /\ recording'[c].genre = call.genre
        /\ \A d \in Recordings : d # c => recording'[d] = recording[d]
    BY <1>1, <1>2 DEF Upsert, CensusTypeOK, RecordingStates
  <1>4. /\ dimensions' \in [CensusFeeds -> [surface : DimensionValues, genre : DimensionValues]]
        /\ \A f \in CensusFeeds :
             \/ dimensions'[f] = dimensions[f]
             \/ dimensions'[f].surface = call.surface.value /\ dimensions'[f].genre = call.genre.value
    BY <1>1, <1>2 DEF Upsert, CensusTypeOK, Dimensions, DimensionValues
  <1>5. \A f \in CensusFeeds :
          /\ dimensions'[f].surface \in ToSet(vocabulary'["content_surfaces"]) \cup {Absent}
          /\ dimensions'[f].genre \in ToSet(vocabulary'["genres"]) \cup {Absent}
    BY <1>1, <1>2, <1>4 DEF CensusInVocabulary
  <1>6. ASSUME NEW kind \in Kinds, NEW value, Observed(kind, value)
        PROVE  Observed(kind, value)'
    <2> PICK d \in Recordings : /\ recording[d].pc \notin {"idle", "lost"}
                                /\ (IF kind = "genres" THEN recording[d].genre ELSE recording[d].surface)
                                     = [value |-> value, source |-> "census_observed"]
      BY <1>6 DEF Observed
    <2>1. /\ recording'[d].pc \notin {"idle", "lost"}
          /\ recording'[d].genre = recording[d].genre /\ recording'[d].surface = recording[d].surface
      BY <1>3
    <2> QED
      BY <2>1 DEF Observed
  <1>7. (\A d \in Recordings : recording'[d].pc # "lost") => \A d \in Recordings : recording[d].pc # "lost"
    BY <1>1, <1>3
  <1>8. CensusInVocabulary'
    BY <1>1, <1>5, <1>6, <1>7 DEF CensusInVocabulary
  <1>9. UpsertsKnown'
    BY <1>1, <1>3 DEF UpsertsKnown
  <1> QED
    BY <1>1, <1>3, <1>4, <1>8, <1>9 DEF CensusInv, CensusTypeOK, VocabulariesFinite

LEMMA DeathInv ==
  ASSUME CensusInv, CensusDeath
  PROVE  CensusInv' /\ UNCHANGED vocabulary
  <1>1. /\ CensusTypeOK /\ UpsertsKnown /\ VocabulariesFinite /\ CensusInVocabulary
        /\ UNCHANGED <<vocabulary, dimensions>>
    BY DEF CensusInv, CensusDeath, CensusCrash, TornVersion
  <1>2. Died(recording) \in [Recordings -> RecordingStates]
    BY <1>1 DEF Died, CensusTypeOK, RecordingStates
  <1>3. /\ recording' \in [Recordings -> RecordingStates] /\ damaged' \in SUBSET Kinds
        /\ \A c \in Recordings : recording'[c].pc # "upsert"
        /\ damaged' = {} /\ (\A c \in Recordings : recording'[c].pc # "lost") =>
             damaged = {} /\ \A c \in Recordings : recording'[c] = recording[c]
    <2>1. CASE CensusCrash
      <3>1. recording' = Died(recording) /\ damaged' = damaged
        BY <2>1 DEF CensusCrash
      <3>2. \A c \in Recordings :
              recording'[c].pc # "upsert" /\ (recording'[c].pc # "lost" => recording'[c] = recording[c])
        BY <1>1, <3>1 DEF Died, CensusTypeOK, RecordingStates
      <3> QED
        BY <1>1, <1>2, <3>1, <3>2 DEF CensusTypeOK
    <2>2. ASSUME NEW c \in Recordings, NEW kind \in Kinds, TornVersion(c, kind)
          PROVE  <1>3!1 /\ <1>3!2 /\ <1>3!3 /\ damaged' # {}
      <3>1. recording' = [Died(recording) EXCEPT ![c] = [pc |-> "lost"]] /\ damaged' = damaged \cup {kind}
        BY <2>2 DEF TornVersion
      <3>2. \A d \in Recordings : Died(recording)[d].pc # "upsert"
        BY <1>1 DEF Died, CensusTypeOK, RecordingStates
      <3> QED
        BY <1>1, <1>2, <3>1, <3>2 DEF CensusTypeOK, RecordingStates
    <2> QED
      BY <2>1, <2>2 DEF CensusDeath
  <1>4. ASSUME NEW kind \in Kinds, damaged' = {}, \A c \in Recordings : recording'[c].pc # "lost",
               NEW value \in ToSet(vocabulary'[kind])
        PROVE  Observed(kind, value)'
    <2>1. damaged = {} /\ \A c \in Recordings : recording'[c] = recording[c] /\ recording[c].pc # "lost"
      BY <1>3, <1>4
    <2>2. Observed(kind, value)
      BY <1>1, <1>4, <2>1 DEF CensusInVocabulary
    <2> QED
      BY <2>1, <2>2 DEF Observed
  <1>5. CensusInVocabulary'
    BY <1>1, <1>4 DEF CensusInVocabulary
  <1> QED
    BY <1>1, <1>3, <1>5 DEF CensusInv, CensusTypeOK, UpsertsKnown, VocabulariesFinite

--------------------------------------------------------------------------------
(* The briefs.                                                                 *)

\* What is said of the briefs does not look at the census.
LEMMA BriefsStay ==
  ASSUME BriefsInv, UNCHANGED <<briefs, desk, refreshed>>
  PROVE  BriefsInv'
  BY DEF BriefsInv, BriefsTypeOK, RefreshOK, BriefsStand, FiguresStand, BriefKey

\* A desk moves, and no brief is written: what is said of the rows stays.
LEMMA DeskKeepsBriefs ==
  ASSUME BriefsInv, UNCHANGED <<briefs, refreshed>>, desk' \in [Desks -> DeskStates],
         \A w \in Desks : desk'[w].pc = "success" => desk[w].pc = "success"
  PROVE  BriefsInv'
  BY DEF BriefsInv, BriefsTypeOK, RefreshOK, BriefsStand, FiguresStand, BriefKey

LEMMA BeginInv ==
  ASSUME CensusTypeOK, BriefsInv, NEW w \in Desks, NEW candidate \in Candidates, NEW reads \in ReadMaps,
         NEW census \in CensusRefs, Begin(w, candidate, reads, census)
  PROVE  BriefsInv'
  <1>1. Slices \subseteq Kinds \X CensusValues
    <2> SUFFICES ASSUME NEW kind \in Kinds, NEW i \in DOMAIN vocabulary[kind]
                 PROVE  <<kind, vocabulary[kind][i]>> \in Kinds \X CensusValues
      BY DEF Slices
    <2>1. vocabulary[kind] \in Seq(CensusValues)
      BY DEF CensusTypeOK
    <2>2. vocabulary[kind][i] \in CensusValues
      BY <2>1
    <2> QED
      BY <2>2
  <1>2. candidate.scope \in Scopes /\ candidate.slices \subseteq Slices
    BY DEF Candidates, kSubset, Scopes
  <1> DEFINE begun == [pc |-> "begun", scope |-> candidate.scope, slices |-> candidate.slices,
                       reads |-> reads, census |-> census]
  <1>3. begun \in DeskStates /\ begun.pc = "begun"
    BY <1>1, <1>2 DEF DeskStates
  <1>4. desk' = [desk EXCEPT ![w] = begun] /\ UNCHANGED <<briefs, refreshed>>
    BY DEF Begin
  <1> HIDE DEF begun
  <1>5. /\ desk' \in [Desks -> DeskStates]
        /\ \A v \in Desks : desk'[v].pc = "success" => desk[v].pc = "success"
    BY <1>3, <1>4 DEF BriefsInv, BriefsTypeOK
  <1> QED
    BY <1>4, <1>5, DeskKeepsBriefs

\* A desk changes nothing but where it is.
LEMMA MoveInv ==
  ASSUME BriefsInv, UNCHANGED <<briefs, refreshed>>, NEW w \in Desks, NEW pc \in {"asked"} \cup Settled,
         desk[w].pc \in {"begun", "asked"}, pc # "success", desk' = [desk EXCEPT ![w].pc = pc]
  PROVE  BriefsInv'
  <1>1. desk \in [Desks -> DeskStates]
    BY DEF BriefsInv, BriefsTypeOK
  <1> PICK call : call = desk[w]
    OBVIOUS
  <1>2. call \in [pc : {"begun", "asked"} \cup Settled, scope : Scopes, slices : SUBSET (Kinds \X CensusValues),
                  reads : ReadMaps, census : CensusRefs]
    BY <1>1 DEF DeskStates
  <1> PICK moved : moved = [call EXCEPT !.pc = pc]
    OBVIOUS
  <1>3. moved \in DeskStates /\ moved.pc = pc
    BY <1>2 DEF DeskStates
  <1>4. /\ desk' \in [Desks -> DeskStates]
        /\ \A v \in Desks : desk'[v].pc = "success" => desk[v].pc = "success"
    BY <1>1, <1>3
  <1> QED
    BY <1>4, DeskKeepsBriefs

LEMMA AskInv ==
  ASSUME BriefsInv, NEW w \in Desks, NEW loads \in BOOLEAN, Ask(w, loads)
  PROVE  BriefsInv'
  <1> PICK told : told = BeforeTheModel(setting, IF KeyMissing(setting) THEN nlp ELSE EnsureSpacy(nlp, loads))
    OBVIOUS
  <1> PICK pc : pc = IF told = "ask" THEN "asked" ELSE told
    OBVIOUS
  <1>1. pc \in {"asked"} \cup Settled /\ pc # "success"
    BY DEF BeforeTheModel, Settled
  <1>2. /\ desk[w].pc \in {"begun", "asked"} /\ desk' = [desk EXCEPT ![w].pc = pc]
        /\ UNCHANGED <<briefs, refreshed>>
    BY DEF Ask
  <1> QED
    BY <1>1, <1>2, MoveInv

LEMMA FailInv ==
  ASSUME BriefsInv, NEW w \in Desks, NEW fault \in Faults, Fail(w, fault)
  PROVE  BriefsInv'
  <1> PICK pc : pc = AfterTheModel(fault)
    OBVIOUS
  <1>1. pc \in {"asked"} \cup Settled /\ pc # "success"
    BY DEF AfterTheModel, Faults, Settled
  <1>2. /\ desk[w].pc \in {"begun", "asked"} /\ desk' = [desk EXCEPT ![w].pc = pc]
        /\ UNCHANGED <<briefs, refreshed>>
    BY DEF Fail
  <1> QED
    BY <1>1, <1>2, MoveInv

--------------------------------------------------------------------------------
(* What is written, and what is marked stale.                                  *)

\* A row that is marked stale says what it said.
Marked(row, after) ==
  /\ after \in BriefRows /\ BriefKey(after) = BriefKey(row) /\ after.text = row.text
  /\ after.reads = row.reads /\ after.by = row.by /\ (row.stale => after.stale)
LEMMA StaleMarks ==
  ASSUME NEW row \in BriefRows, NEW after \in {row, [row EXCEPT !.stale = TRUE]}
  PROVE  Marked(row, after) /\ after.slices = row.slices /\ after.census = row.census
  BY DEF Marked, BriefRows, BriefKey

\* A row marked stale stands as it stood.
LEMMA MarkedStands ==
  ASSUME NEW row, NEW after, Marked(row, after), FiguresStand(row)
  PROVE  FiguresStand(after)
  BY DEF Marked, FiguresStand

\* The rows there were, with those of one key marked, and one row more.
WrittenFrom(before, row, after) ==
  /\ after \in Seq(BriefRows) /\ DOMAIN after = 1..(Len(before) + 1) /\ after[Len(before) + 1] = row
  /\ \A i \in 1..Len(before) :
       /\ before[i] \in BriefRows /\ Marked(before[i], after[i])
       /\ after[i].slices = before[i].slices /\ after[i].census = before[i].census
       /\ BriefKey(before[i]) = BriefKey(row) => after[i].stale
LEMMA WrittenMarks ==
  ASSUME NEW before \in Seq(BriefRows), NEW row \in BriefRows
  PROVE  WrittenFrom(before, row, Written(before, row))
  <1> DEFINE mark(i) == IF BriefKey(before[i]) = BriefKey(row) THEN [before[i] EXCEPT !.stale = TRUE] ELSE before[i]
             marked == [i \in DOMAIN before |-> mark(i)]
  <1>1. DOMAIN before = 1..Len(before) /\ Len(before) \in Nat
    BY LenProperties
  <1>2. \A i \in 1..Len(before) : before[i] \in BriefRows
    BY ElementOfSeq
  <1>3. ASSUME NEW i \in 1..Len(before)
        PROVE  /\ Marked(before[i], mark(i)) /\ mark(i).slices = before[i].slices /\ mark(i).census = before[i].census
               /\ mark(i) \in BriefRows
               /\ BriefKey(before[i]) = BriefKey(row) => mark(i).stale
    <2>1. before[i] \in BriefRows
      BY <1>2
    <2>2. mark(i) \in {before[i], [before[i] EXCEPT !.stale = TRUE]}
      OBVIOUS
    <2>3. BriefKey(before[i]) = BriefKey(row) => mark(i).stale
      BY <2>1 DEF BriefRows
    <2> HIDE DEF mark
    <2>4. Marked(before[i], mark(i)) /\ mark(i).slices = before[i].slices /\ mark(i).census = before[i].census
      BY <2>1, <2>2, StaleMarks
    <2> QED
      BY <2>3, <2>4 DEF Marked
  <1>4. Written(before, row) = Append(marked, row)
    BY DEF Written
  <1> HIDE DEF mark
  <1>5. marked = [i \in 1..Len(before) |-> mark(i)] /\ marked \in Seq(BriefRows) /\ Len(marked) = Len(before)
    <2>1. marked = [i \in 1..Len(before) |-> mark(i)]
      BY <1>1
    <2>2. \A i \in 1..Len(before) : mark(i) \in BriefRows
      BY <1>3
    <2> QED
      BY <1>1, <2>1, <2>2
  <1>6. \A i \in 1..Len(before) : marked[i] = mark(i)
    BY <1>5
  <1> HIDE DEF marked
  <1>7. /\ Written(before, row) \in Seq(BriefRows) /\ Len(Written(before, row)) = Len(before) + 1
        /\ Written(before, row)[Len(before) + 1] = row
        /\ \A i \in 1..Len(before) : Written(before, row)[i] = mark(i)
    BY <1>4, <1>5, <1>6, AppendProperties
  <1>8. DOMAIN Written(before, row) = 1..(Len(before) + 1)
    BY <1>7, LenProperties
  <1> QED
    BY <1>2, <1>3, <1>7, <1>8 DEF WrittenFrom

LEMMA RefreshedMarks ==
  ASSUME NEW before \in Seq(BriefRows), NEW census
  PROVE  /\ Refreshed(before, census) \in Seq(BriefRows)
         /\ DOMAIN Refreshed(before, census) = DOMAIN before
         /\ \A i \in DOMAIN before :
              /\ Marked(before[i], Refreshed(before, census)[i])
              /\ Refreshed(before, census)[i].slices = before[i].slices
              /\ Refreshed(before, census)[i].census = before[i].census
              /\ before[i].census # census => Refreshed(before, census)[i].stale
  <1> DEFINE mark(i) == IF before[i].census # census THEN [before[i] EXCEPT !.stale = TRUE] ELSE before[i]
  <1>1. DOMAIN before = 1..Len(before) /\ Len(before) \in Nat
    BY LenProperties
  <1>2. ASSUME NEW i \in DOMAIN before
        PROVE  /\ Marked(before[i], mark(i)) /\ mark(i).slices = before[i].slices /\ mark(i).census = before[i].census
               /\ mark(i) \in BriefRows
               /\ before[i].census # census => mark(i).stale
    <2>1. before[i] \in BriefRows
      BY <1>1, ElementOfSeq
    <2>2. mark(i) \in {before[i], [before[i] EXCEPT !.stale = TRUE]}
      OBVIOUS
    <2>3. before[i].census # census => mark(i).stale
      BY <2>1 DEF BriefRows
    <2> HIDE DEF mark
    <2>4. Marked(before[i], mark(i)) /\ mark(i).slices = before[i].slices /\ mark(i).census = before[i].census
      BY <2>1, <2>2, StaleMarks
    <2> QED
      BY <2>3, <2>4 DEF Marked
  <1>3. Refreshed(before, census) = [i \in DOMAIN before |-> mark(i)]
    BY DEF Refreshed
  <1> HIDE DEF mark
  <1>4. Refreshed(before, census) = [i \in 1..Len(before) |-> mark(i)]
    BY <1>1, <1>3
  <1>5. \A i \in 1..Len(before) : mark(i) \in BriefRows
    BY <1>1, <1>2
  <1>6. Refreshed(before, census) \in Seq(BriefRows)
    BY <1>1, <1>4, <1>5
  <1> QED
    BY <1>2, <1>3, <1>6

\* The gate: every numeral of a draft that passes stands in a read.
LEMMA GroundedStands ==
  ASSUME NEW draft, NEW reads, Grounded(draft, reads), NEW item \in draft.text, NEW n \in NumeralsOf(item)
  PROVE  \E ref \in DOMAIN reads : StandsIn(Fact(n), reads[ref])
  <1> PICK a \in draft.anchors : a.value = Fact(n)
    BY DEF Grounded
  <1>1. a.ref \in DOMAIN reads /\ StandsIn(a.value, reads[a.ref])
    BY DEF Grounded, AnchorsStand
  <1> QED
    BY <1>1

--------------------------------------------------------------------------------
(* The steps that write and mark rows.                                         *)

\* Of two rows of one key one is stale.
Apart(row, other) == BriefKey(row) = BriefKey(other) => row.stale \/ other.stale

\* What the last refresh saw is stale or of its census.
RowSettled(i, row) == i <= refreshed.rows => row.stale \/ row.census = refreshed.census

\* What the next state asks of its rows.
RowsStandNext(after) ==
  /\ \A i \in DOMAIN after : FiguresStand(after[i])
  /\ \A i \in DOMAIN after : \A j \in DOMAIN after : i # j => Apart(after[i], after[j])
  /\ \A i \in DOMAIN after : RowSettled(i, after[i])'
  /\ \A v \in Desks : desk'[v].pc = "success" => \E i \in DOMAIN after : after[i].by = v
LEMMA RowsStand ==
  ASSUME NEW after, briefs' = after, RowsStandNext(after)
  PROVE  BriefsStand'
  <1>1. \A i \in DOMAIN briefs' : FiguresStand(briefs[i])'
    BY DEF RowsStandNext, FiguresStand
  <1>2. \A i \in DOMAIN briefs' : \A j \in DOMAIN briefs' :
          i # j /\ BriefKey(briefs[i])' = BriefKey(briefs[j])' => briefs'[i].stale \/ briefs'[j].stale
    BY DEF RowsStandNext, Apart, BriefKey
  <1>3. \A i \in DOMAIN briefs' :
          i <= refreshed'.rows => briefs'[i].stale \/ briefs'[i].census = refreshed'.census
    BY DEF RowsStandNext, RowSettled
  <1> QED
    BY <1>1, <1>2, <1>3 DEF RowsStandNext, BriefsStand, BriefKey

LEMMA ReturnInv ==
  ASSUME BriefsInv, NEW w \in Desks, NEW answer \in Drafts, Return(w, answer)
  PROVE  BriefsInv'
  <1> PICK draft : draft = ReidentifiedDraft(answer)
    OBVIOUS
  <1>1. /\ desk[w].pc = "asked" /\ UNCHANGED refreshed
        /\ desk \in [Desks -> DeskStates] /\ briefs \in Seq(BriefRows)
        /\ draft.text \in {ReidentifiedDraft(a).text : a \in Drafts}
    BY DEF Return, BriefsInv, BriefsTypeOK
  <1>2. CASE ~Grounded(draft, desk[w].reads)
    <2>1. desk' = [desk EXCEPT ![w].pc = "grounding_reject"] /\ briefs' = briefs
      BY <1>2 DEF Return
    <2>2. "grounding_reject" \in {"asked"} \cup Settled
      BY DEF Settled
    <2> QED
      BY <1>1, <2>1, <2>2, MoveInv
  <1>3. CASE Grounded(draft, desk[w].reads)
    <2> PICK call : call = desk[w]
      OBVIOUS
    <2> PICK row : row = [scope |-> call.scope, slices |-> call.slices, census |-> call.census,
                          text |-> draft.text, reads |-> call.reads, by |-> w, stale |-> FALSE]
      OBVIOUS
    <2>1. call \in [pc : {"begun", "asked"} \cup Settled, scope : Scopes, slices : SUBSET (Kinds \X CensusValues),
                    reads : ReadMaps, census : CensusRefs]
      BY <1>1 DEF DeskStates
    <2>2. row \in BriefRows /\ row.text = draft.text /\ row.reads = call.reads /\ row.by = w
      BY <1>1, <2>1 DEF BriefRows
    <2> PICK after : after = Written(briefs, row)
      OBVIOUS
    <2> PICK n : n = Len(briefs)
      OBVIOUS
    <2>3. briefs' = after /\ desk' = [desk EXCEPT ![w].pc = "success"]
      BY <1>3 DEF Return
    <2>form. WrittenFrom(briefs, row, after)
      BY <1>1, <2>2, WrittenMarks
    <2>len. DOMAIN briefs = 1..n /\ n \in Nat
      BY <1>1, LenProperties
    <2>rows. /\ after \in Seq(BriefRows) /\ DOMAIN after = 1..(n + 1) /\ after[n + 1] = row
             /\ \A i \in 1..(n + 1) : i = n + 1 \/ i \in 1..n
             /\ \A i \in 1..n : i \in 1..(n + 1)
      BY <2>form, <2>len DEF WrittenFrom
    <2>4. \A i \in 1..n : /\ briefs[i] \in BriefRows /\ Marked(briefs[i], after[i])
                          /\ after[i].census = briefs[i].census
                          /\ BriefKey(briefs[i]) = BriefKey(row) => after[i].stale
      BY <2>form DEF WrittenFrom
    <2>5. FiguresStand(row)
      <3>1. Grounded(draft, row.reads)
        BY <1>3, <2>2
      <3> QED
        BY <2>2, <3>1, GroundedStands DEF FiguresStand
    <2>6. \A i \in 1..(n + 1) : FiguresStand(after[i])
      <3> SUFFICES ASSUME NEW i \in 1..(n + 1)
                   PROVE  FiguresStand(after[i])
        OBVIOUS
      <3>1. CASE i = n + 1
        BY <2>rows, <2>5, <3>1
      <3>2. CASE i \in 1..n
        <4>1. FiguresStand(briefs[i])
          BY <2>len, <3>2 DEF BriefsInv, BriefsStand
        <4> QED
          BY <2>4, <3>2, <4>1, MarkedStands
      <3> QED
        BY <2>rows, <3>1, <3>2
    <2>7. \A i \in DOMAIN after : \A j \in DOMAIN after : i # j => Apart(after[i], after[j])
      <3> SUFFICES ASSUME NEW i \in DOMAIN after, NEW j \in DOMAIN after, i # j
                   PROVE  Apart(after[i], after[j])
        OBVIOUS
      <3> SUFFICES ASSUME BriefKey(after[i]) = BriefKey(after[j])
                   PROVE  after[i].stale \/ after[j].stale
        BY DEF Apart
      <3>1. CASE i = n + 1
        <4>1. j \in 1..n /\ after[i] = row
          BY <2>rows, <3>1
        <4>2. BriefKey(briefs[j]) = BriefKey(row)
          BY <2>4, <4>1 DEF Marked
        <4> QED
          BY <2>4, <4>1, <4>2
      <3>2. CASE j = n + 1
        <4>1. i \in 1..n /\ after[j] = row
          BY <2>rows, <3>2
        <4>2. BriefKey(briefs[i]) = BriefKey(row)
          BY <2>4, <4>1 DEF Marked
        <4> QED
          BY <2>4, <4>1, <4>2
      <3>3. CASE i \in 1..n /\ j \in 1..n
        <4>1. BriefKey(briefs[i]) = BriefKey(briefs[j])
          BY <2>4, <3>3 DEF Marked
        <4>2. briefs[i].stale \/ briefs[j].stale
          BY <2>len, <3>3, <4>1 DEF BriefsInv, BriefsStand
        <4> QED
          BY <2>4, <3>3, <4>2 DEF Marked
      <3> QED
        BY <2>rows, <3>1, <3>2, <3>3
    <2>8. \A i \in 1..(n + 1) : RowSettled(i, after[i])
      <3> SUFFICES ASSUME NEW i \in 1..(n + 1), i <= refreshed.rows
                   PROVE  after[i].stale \/ after[i].census = refreshed.census
        BY DEF RowSettled
      <3>1. i \in 1..n
        BY <2>len DEF BriefsInv, RefreshOK
      <3>2. briefs[i].stale \/ briefs[i].census = refreshed.census
        BY <2>len, <3>1 DEF BriefsInv, BriefsStand
      <3> QED
        BY <2>4, <3>1, <3>2 DEF Marked
    <2> PICK told : told = [call EXCEPT !.pc = "success"]
      OBVIOUS
    <2>9. told \in DeskStates /\ told.pc = "success"
      BY <2>1 DEF DeskStates, Settled
    <2>10. /\ desk' \in [Desks -> DeskStates] /\ desk'[w].pc = "success"
           /\ \A v \in Desks : v # w => desk'[v] = desk[v]
      BY <1>1, <2>3, <2>9
    <2>11. \A v \in Desks : desk'[v].pc = "success" => \E i \in 1..(n + 1) : after[i].by = v
      <3> SUFFICES ASSUME NEW v \in Desks, desk'[v].pc = "success"
                   PROVE  \E i \in 1..(n + 1) : after[i].by = v
        OBVIOUS
      <3>1. CASE v = w
        <4>1. n + 1 \in 1..(n + 1) /\ after[n + 1].by = v
          BY <2>2, <2>len, <2>rows, <3>1
        <4> QED
          BY <4>1
      <3>2. CASE v # w
        <4>1. \E i \in 1..n : briefs[i].by = v
          BY <2>len, <2>10, <3>2 DEF BriefsInv, BriefsStand
        <4> PICK i \in 1..n : briefs[i].by = v
          BY <4>1
        <4>2. i \in 1..(n + 1) /\ after[i].by = briefs[i].by
          BY <2>4, <2>rows DEF Marked
        <4> QED
          BY <4>2
      <3> QED
        BY <3>1, <3>2
    <2>12. BriefsStand'
      <3>1. \A i \in 1..(n + 1) : RowSettled(i, after[i])'
        BY <1>1, <2>8 DEF RowSettled
      <3>2. RowsStandNext(after)
        BY <2>6, <2>7, <2>11, <2>rows, <3>1 DEF RowsStandNext
      <3> QED
        BY <2>3, <3>2, RowsStand
    <2>13. RefreshOK'
      <3>1. Len(after) = n + 1
        BY <2>rows, <2>len, LenProperties
      <3> QED
        BY <1>1, <2>3, <2>len, <3>1 DEF BriefsInv, RefreshOK
    <2>14. BriefsTypeOK'
      BY <2>3, <2>rows, <2>10 DEF BriefsTypeOK
    <2> QED
      BY <2>12, <2>13, <2>14 DEF BriefsInv
  <1> QED
    BY <1>2, <1>3

LEMMA RefreshInv ==
  ASSUME BriefsInv, NEW census \in CensusRefs, RefreshOnCensusChange(census)
  PROVE  BriefsInv'
  <1> PICK after : after = Refreshed(briefs, census)
    OBVIOUS
  <1>1. /\ UNCHANGED desk /\ briefs' = after
        /\ refreshed' = [census |-> census, rows |-> Len(briefs)]
        /\ desk \in [Desks -> DeskStates] /\ briefs \in Seq(BriefRows)
    BY DEF RefreshOnCensusChange, BriefsInv, BriefsTypeOK
  <1>2. /\ after \in Seq(BriefRows) /\ DOMAIN after = DOMAIN briefs
        /\ \A i \in DOMAIN briefs : /\ Marked(briefs[i], after[i])
                                    /\ after[i].census = briefs[i].census
                                    /\ briefs[i].census # census => after[i].stale
    BY <1>1, RefreshedMarks
  <1>3. \A i \in DOMAIN briefs : FiguresStand(after[i])
    BY <1>2, MarkedStands DEF BriefsInv, BriefsStand
  <1>4. \A i \in DOMAIN briefs : \A j \in DOMAIN briefs : i # j => Apart(after[i], after[j])
    BY <1>2 DEF BriefsInv, BriefsStand, Marked, Apart
  <1>5. \A w \in Desks : desk[w].pc = "success" => \E i \in DOMAIN briefs : after[i].by = w
    <2> SUFFICES ASSUME NEW w \in Desks, desk[w].pc = "success"
                 PROVE  \E i \in DOMAIN briefs : after[i].by = w
      OBVIOUS
    <2> PICK i \in DOMAIN briefs : briefs[i].by = w
      BY DEF BriefsInv, BriefsStand
    <2> QED
      BY <1>2 DEF Marked
  <1>6. \A i \in DOMAIN briefs : RowSettled(i, after[i])'
    BY <1>1, <1>2 DEF RowSettled
  <1>7. RowsStandNext(after)
    BY <1>1, <1>2, <1>3, <1>4, <1>5, <1>6 DEF RowsStandNext
  <1>8. BriefsStand'
    BY <1>1, <1>7, RowsStand
  <1>9. Len(after) = Len(briefs) /\ Len(briefs) \in Nat
    BY <1>1, <1>2, LenProperties
  <1>10. BriefsTypeOK' /\ RefreshOK'
    BY <1>1, <1>2, <1>9 DEF BriefsTypeOK, RefreshOK
  <1> QED
    BY <1>8, <1>10 DEF BriefsInv

\* Everything the briefs keep is in memory.
LEMMA CrashInv ==
  ASSUME BriefsInv, BriefsCrash
  PROVE  BriefsInv'
  <1>1. /\ briefs' = <<>> /\ refreshed' = NeverRefreshed
        /\ desk' = [w \in Desks |-> IF desk[w].pc = "idle" THEN desk[w] ELSE [pc |-> "lost"]]
        /\ desk \in [Desks -> DeskStates]
    BY DEF BriefsCrash, BriefsInv, BriefsTypeOK
  <1>2. desk' \in [Desks -> DeskStates] /\ \A w \in Desks : desk'[w].pc \in {"idle", "lost"}
    BY <1>1 DEF DeskStates
  <1>3. <<>> \in Seq(BriefRows) /\ DOMAIN <<>> = {} /\ Len(<<>>) = 0
    OBVIOUS
  <1>4. BriefsTypeOK' /\ RefreshOK'
    BY <1>1, <1>2, <1>3 DEF BriefsTypeOK, RefreshOK, NeverRefreshed
  <1>5. BriefsStand'
    BY <1>1, <1>2, <1>3 DEF BriefsStand
  <1> QED
    BY <1>4, <1>5 DEF BriefsInv

--------------------------------------------------------------------------------
LEMMA BriefsInitInv ==
  BriefsInit => AllInv
  <1> SUFFICES ASSUME BriefsInit
               PROVE  AllInv
    OBVIOUS
  <1>1. /\ vocabulary = [kind \in Kinds |-> <<>>] /\ damaged = {}
        /\ dimensions = [feed \in CensusFeeds |-> NoRecord] /\ recording = [c \in Recordings |-> [pc |-> "idle"]]
        /\ briefs = <<>> /\ desk = [w \in Desks |-> [pc |-> "idle"]] /\ refreshed = NeverRefreshed
    BY DEF BriefsInit, CensusInit
  <1>2. /\ \A kind \in Kinds : vocabulary[kind] = <<>>
        /\ <<>> \in Seq(CensusValues) /\ <<>> \in Seq(BriefRows) /\ DOMAIN <<>> = {} /\ Len(<<>>) = 0
    BY <1>1
  <1>3. \A kind \in Kinds : ToSet(vocabulary[kind]) = {}
    BY <1>2 DEF ToSet
  <1>4. IsFiniteSet({}) /\ Cardinality({}) = 0
    BY FS_EmptySet
  <1>5. CensusTypeOK /\ UpsertsKnown
    BY <1>1, <1>2 DEF CensusTypeOK, UpsertsKnown, RecordingStates, NoRecord, DimensionValues
  <1>6. VocabulariesFinite /\ CensusInVocabulary
    <2>1. \A feed \in CensusFeeds : dimensions[feed].surface = Absent /\ dimensions[feed].genre = Absent
      BY <1>1 DEF NoRecord
    <2> QED
      BY <1>2, <1>3, <1>4, <2>1 DEF VocabulariesFinite, CensusInVocabulary
  <1>7. BriefsTypeOK /\ RefreshOK /\ BriefsStand
    BY <1>1, <1>2 DEF BriefsTypeOK, DeskStates, RefreshOK, NeverRefreshed, BriefsStand
  <1> QED
    BY <1>5, <1>6, <1>7 DEF AllInv, CensusInv, BriefsInv

LEMMA BriefsStepInv ==
  AllInv /\ [BriefsNext \/ (Records /\ UNCHANGED briefVars)]_<<censusVars, briefVars>> => AllInv'
  <1> SUFFICES ASSUME AllInv, [BriefsNext \/ (Records /\ UNCHANGED briefVars)]_<<censusVars, briefVars>>
               PROVE  AllInv'
    OBVIOUS
  <1>0. CensusInv /\ BriefsInv /\ CensusTypeOK
    BY DEF AllInv, CensusInv
  <1>1. ASSUME UNCHANGED censusVars
        PROVE  CensusInv'
    BY <1>0, <1>1 DEF CensusInv, CensusTypeOK, UpsertsKnown, VocabulariesFinite, CensusInVocabulary, Observed, censusVars
  <1>2. ASSUME DeskNext
        PROVE  AllInv'
    <2>1. UNCHANGED censusVars
      BY <1>2 DEF DeskNext, Begin, Ask, Fail, Return
    <2>2. BriefsInv'
      BY <1>0, <1>2, BeginInv, AskInv, FailInv, ReturnInv DEF DeskNext
    <2> QED
      BY <1>1, <2>1, <2>2 DEF AllInv
  <1>3. ASSUME NEW census \in CensusRefs, RefreshOnCensusChange(census)
        PROVE  AllInv'
    BY <1>0, <1>1, <1>3, RefreshInv DEF AllInv, RefreshOnCensusChange
  <1>4. ASSUME BriefsCrash
        PROVE  AllInv'
    BY <1>0, <1>4, CrashInv, DeathInv DEF AllInv, BriefsCrash
  <1>5. ASSUME Records, UNCHANGED briefVars
        PROVE  AllInv'
    <2>1. CensusInv'
      BY <1>0, <1>5, RecordInv, UpsertInv DEF Records
    <2>2. BriefsInv'
      BY <1>0, <1>5, BriefsStay DEF briefVars
    <2> QED
      BY <2>1, <2>2 DEF AllInv
  <1>6. ASSUME UNCHANGED <<censusVars, briefVars>>
        PROVE  AllInv'
    <2>1. BriefsInv'
      BY <1>0, <1>6, BriefsStay DEF briefVars
    <2> QED
      BY <1>1, <1>6, <2>1 DEF AllInv
  <1> QED
    BY <1>2, <1>3, <1>4, <1>5, <1>6 DEF BriefsNext

\* What a feed is recorded with is in its vocabulary, no value twice and none that was only
\* declared; per candidate and census one brief at most is fresh, and of those the last refresh
\* saw only the ones of its census; every numeral of a brief stands in its reads, and success is
\* told of a brief on record: although recordings and drafts overlap, the registry is refreshed
\* while a draft is out, and the process dies.
THEOREM CensusAndBriefsStandHolds ==
  BriefsSpec => []CensusAndBriefsStand
  <1>1. AllInv => CensusAndBriefsStand
    BY DEF AllInv, CensusInv, BriefsInv, CensusAndBriefsStand
  <1> QED
    BY <1>1, BriefsInitInv, BriefsStepInv, PTL DEF BriefsSpec
================================================================================
