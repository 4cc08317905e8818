------------------------------- MODULE KeyGrants -------------------------------
(***************************************************************************)
(* Who may do what: key grants are registered and revoked by engineers,    *)
(* decided on by the Master Admin, and carried by the access tokens that a *)
(* login or a refresh mints from the register; external engineers are      *)
(* invited and approved.  Every change is a Mongo write followed by a      *)
(* ledger row, or (a decision) preceded by an event.                       *)
(*                                                                         *)
(* Callers whom role and own-scope checks turn away change nothing, so     *)
(* callers do not appear; all grants are one grantee's.                    *)
(***************************************************************************)
EXTENDS Naturals, FiniteSets

CONSTANTS
  Grants,    \* grant ids: a registration mints one of its own, from its time
  Seeded,    \* grants the startup seeder inserts, awaiting approval
  Invites,   \* invite ids
  Handlers,  \* requests served at once
  None

VARIABLES
  grants,   \* engineer_key_grants documents
  invites,  \* engineer_invites documents
  events,   \* team_decision_events
  tokens,   \* the grants in each access token of the grantee that has not expired
  handed,   \* how many external_engineer tokens each invite has yielded
  rows,     \* ledger rows
  calls,    \* requests in progress
  lost      \* rows owed by requests that died

vars == <<grants, invites, events, tokens, handed, rows, calls, lost>>
documents == <<grants, invites, events, tokens, handed>>

Verdicts == {"approve", "decline"}
DecisionEvents == [item : Grants, verdict : Verdicts]

\* "unset": the document has no state field; revoked: who revoked it.
Grant == [state : {"unset", "pending_approval", "active", "declined"},
          seeded : BOOLEAN, revoked : Handlers \cup {None}, decision : DecisionEvents \cup {None}]
ASSUME GrantAssumption ==
  /\ Seeded \subseteq Grants /\ Grants \cap Invites = {}
  /\ None \notin Grants \cup Invites \cup Handlers \cup DecisionEvents \cup Grant

Invite == [state : {"absent", "pending_invite", "approved", "expired"}, late : BOOLEAN]
Rows == [event : {"issued", "revoked", "onboarding"}, of : Grants \cup Invites,
         by : Handlers \cup {None}]
Calls == [by : Handlers, op : {"register", "revoke", "decide", "login", "onboard"},
          pc : {"read", "write", "row", "apply", "mint", "expire"},
          of : Grants \cup Invites \cup {None}, verdict : Verdicts,
          found : SUBSET Grants]

Exists(g) == grants[g] # None
Revoked(g) == Exists(g) /\ grants[g].revoked # None

Start(h, op, pc, of, verdict) ==
  /\ \A c \in calls : c.by # h
  /\ calls' = calls \cup {[by |-> h, op |-> op, pc |-> pc, of |-> of, verdict |-> verdict,
                           found |-> {}]}
Continue(c, pc) == calls' = (calls \ {c}) \cup {[c EXCEPT !.pc = pc]}
End(c) == calls' = calls \ {c}
At(c, op, pc) == c.op = op /\ c.pc = pc

------------------------------------------------------------------------------
(* register_grant and revoke_grant, from either surface.                   *)

Arrived(state) ==
  [state |-> state, seeded |-> state # "unset", revoked |-> None, decision |-> None]

Register(h, g) ==
  /\ ~Exists(g) /\ grants' = [grants EXCEPT ![g] = Arrived("unset")]
  /\ Start(h, "register", "row", g, "approve")
  /\ UNCHANGED <<invites, events, tokens, handed, rows, lost>>

Revoke(h, g) ==
  /\ Start(h, "revoke", "read", g, "decline")
  /\ UNCHANGED <<documents, rows, lost>>

\* Not found, or revoked already: 404 or 409.
RevokeRead(c) ==
  /\ At(c, "revoke", "read")
  /\ IF Exists(c.of) /\ ~Revoked(c.of) THEN Continue(c, "write") ELSE End(c)
  /\ UNCHANGED <<documents, rows, lost>>

\* Mutant: the revocation is mirrored in the state field.
RevokedDoc_Mirrored(doc, h) == [doc EXCEPT !.revoked = h, !.state = "revoked"]

\* The update asks for the id alone, and leaves the state field as it is.
RevokedDoc(doc, h) == [doc EXCEPT !.revoked = h]

RevokeWrite(c) ==
  /\ At(c, "revoke", "write") /\ Continue(c, "row")
  /\ grants' = [grants EXCEPT ![c.of] = RevokedDoc(@, c.by)]
  /\ UNCHANGED <<invites, events, tokens, handed, rows, lost>>

------------------------------------------------------------------------------
(* The Master Admin's decision on an item of the approval surface.         *)

Decide(h, g, verdict) ==
  /\ Start(h, "decide", "write", g, verdict)
  /\ UNCHANGED <<documents, rows, lost>>

EventOf(c) == [item |-> c.of, verdict |-> c.verdict]

\* Mutant: the event is inserted with the seam's update, and a crash skips it.
Recorded_Approvals(c) == IF c.verdict = "approve" THEN {EventOf(c)} ELSE {}

Recorded(c) == {EventOf(c)}

RecordDecision(c) ==
  /\ At(c, "decide", "write") /\ Continue(c, "apply")
  /\ events' = events \cup Recorded(c)
  /\ UNCHANGED <<grants, invites, tokens, handed, rows, lost>>

\* Whatever state the grant is in, revoked included; nothing if there is none.  (A
\* decision on a checker's hold or on a source is recorded, and changes no state.)
ApplyDecision(c) ==
  /\ At(c, "decide", "apply") /\ End(c)
  /\ grants' = IF Exists(c.of)
               THEN [grants EXCEPT ![c.of].decision = EventOf(c),
                       ![c.of].state = IF c.verdict = "approve" THEN "active" ELSE "declined"]
               ELSE grants
  /\ UNCHANGED <<invites, events, tokens, handed, rows, lost>>

------------------------------------------------------------------------------
(* Login and refresh: the grants come from the register, and the token     *)
(* carries them until it expires.                                          *)

Login(h) ==
  /\ Start(h, "login", "read", None, "approve")
  /\ UNCHANGED <<documents, rows, lost>>

\* Mutant: the query does not filter.
Resolved_All == {g \in Grants : Exists(g)}

\* The state field is not looked at.
Resolved == {g \in Grants : Exists(g) /\ ~Revoked(g)}

Resolve(c) ==
  /\ At(c, "login", "read")
  /\ calls' = (calls \ {c}) \cup {[c EXCEPT !.pc = "mint", !.found = Resolved]}
  /\ UNCHANGED <<documents, rows, lost>>

\* A token without grants is left out.
MintToken(c) ==
  /\ At(c, "login", "mint") /\ End(c)
  /\ tokens' = tokens \cup ({c.found} \ {{}})
  /\ UNCHANGED <<grants, invites, events, handed, rows, lost>>

ExpireToken(t) ==
  /\ tokens' = tokens \ {t}
  /\ UNCHANGED <<grants, invites, events, handed, rows, calls, lost>>

------------------------------------------------------------------------------
(* Onboarding of external engineers.                                       *)

IssueInvite(i) ==
  /\ invites[i].state = "absent"
  /\ invites' = [invites EXCEPT ![i].state = "pending_invite"]
  /\ UNCHANGED <<grants, events, tokens, handed, rows, calls, lost>>

\* Seven days go by.
Lapse(i) ==
  /\ invites[i].state # "absent" /\ ~invites[i].late
  /\ invites' = [invites EXCEPT ![i].late = TRUE]
  /\ UNCHANGED <<grants, events, tokens, handed, rows, calls, lost>>

Approve(h, i) ==
  /\ Start(h, "onboard", "read", i, "approve")
  /\ UNCHANGED <<documents, rows, lost>>

ApproveRead(c) ==
  /\ At(c, "onboard", "read")
  /\ IF invites[c.of].state # "pending_invite" THEN End(c)
     ELSE Continue(c, IF invites[c.of].late THEN "expire" ELSE "write")
  /\ UNCHANGED <<documents, rows, lost>>

\* Mutant: the update asks for the invite, not for a pending one.
Pending_Any(i) == invites[i].state # "absent"

Pending(i) == invites[i].state = "pending_invite"

ExpireInvite(c) ==
  /\ At(c, "onboard", "expire") /\ End(c)
  /\ invites' = [invites EXCEPT ![c.of].state = IF Pending(c.of) THEN "expired" ELSE @]
  /\ UNCHANGED <<grants, events, tokens, handed, rows, lost>>

\* find_one_and_update: of two approvals, one wins.
ApproveWrite(c) ==
  /\ At(c, "onboard", "write")
  /\ IF Pending(c.of)
     THEN Continue(c, "row") /\ invites' = [invites EXCEPT ![c.of].state = "approved"]
     ELSE End(c) /\ UNCHANGED invites
  /\ UNCHANGED <<grants, events, tokens, handed, rows, lost>>

------------------------------------------------------------------------------
(* The row at the end of a request, with the answer (for an approval: the  *)
(* external engineer's token), and a request that dies before it.          *)

\* Mutant: the row of a revocation says that the grant was issued.
RowOf_Issued(c) ==
  [event |-> IF c.op = "onboard" THEN "onboarding" ELSE "issued", of |-> c.of,
   by |-> None]

RowOf(c) ==
  [event |-> CASE c.op = "register" -> "issued" [] c.op = "revoke" -> "revoked"
               [] OTHER -> "onboarding",
   of |-> c.of, by |-> IF c.op = "revoke" THEN c.by ELSE None]

WriteRow(c) ==
  /\ c.pc = "row" /\ End(c)
  /\ rows' = rows \cup {RowOf(c)}
  /\ handed' = IF c.op = "onboard" THEN [handed EXCEPT ![c.of] = @ + 1] ELSE handed
  /\ UNCHANGED <<grants, invites, events, tokens, lost>>

Die(c) ==
  /\ End(c)
  /\ lost' = lost \cup (IF c.pc = "row" THEN {RowOf(c)} ELSE {})
  /\ UNCHANGED <<documents, rows>>

Init ==
  /\ \E s \in {{}, Seeded} :
       grants = [g \in Grants |-> IF g \in s THEN Arrived("pending_approval") ELSE None]
  /\ invites = [i \in Invites |-> [state |-> "absent", late |-> FALSE]]
  /\ events = {} /\ tokens = {} /\ handed = [i \in Invites |-> 0]
  /\ rows = {} /\ calls = {} /\ lost = {}

Request(h) ==
  \/ \E g \in Grants : Register(h, g) \/ Revoke(h, g)
  \/ \E g \in Grants, v \in Verdicts : Decide(h, g, v)
  \/ Login(h)
  \/ \E i \in Invites : Approve(h, i)

Step(c) ==
  \/ RevokeRead(c) \/ RevokeWrite(c)
  \/ RecordDecision(c) \/ ApplyDecision(c)
  \/ Resolve(c) \/ MintToken(c)
  \/ ApproveRead(c) \/ ExpireInvite(c) \/ ApproveWrite(c)
  \/ WriteRow(c) \/ Die(c)

Carrying(g) == {t \in tokens : g \in t}

------------------------------------------------------------------------------
(* What the team surface shows: the access register, with one state per    *)
(* grant, and the grants that wait in the Master Admin's queue.            *)

\* A state field goes before a revocation.
Shown(g) ==
  IF grants[g].state # "unset" THEN grants[g].state
  ELSE IF Revoked(g) THEN "revoked" ELSE "active"
Queue == {g \in Grants : Exists(g) /\ Shown(g) = "pending_approval"}

Next ==
  \/ \E h \in Handlers : Request(h)
  \/ \E c \in calls : Step(c)
  \/ \E i \in Invites : IssueInvite(i) \/ Lapse(i)
  \/ \E t \in tokens : ExpireToken(t)

\* A token expires fifteen minutes after it was minted, whatever happens.
Fairness == \A g \in Grants : WF_vars(\E t \in Carrying(g) : ExpireToken(t))

Spec == Init /\ [][Next]_vars /\ Fairness

------------------------------------------------------------------------------
(* Properties.                                                             *)

TypeOK ==
  /\ grants \in [Grants -> Grant \cup {None}]
  /\ invites \in [Invites -> Invite]
  /\ events \subseteq DecisionEvents
  /\ tokens \subseteq SUBSET Grants /\ handed \in [Invites -> Nat]
  /\ rows \subseteq Rows /\ lost \subseteq Rows /\ calls \subseteq Calls

Owed == lost \cup {RowOf(c) : c \in {d \in calls : d.pc = "row"}}

\* The audit trail of a grant: it tells of no revocation that did not happen, and the
\* revocation that stands in the register is told of, or owed by a request under way
\* or dead; also when two revocations overlap and the later rewrites the earlier.
LedgerTells ==
  \A g \in Grants :
    /\ \A r \in rows \cup Owed : r.of = g =>
         Exists(g) /\ (r.event = "revoked" => Revoked(g))
    /\ Exists(g) /\ ~grants[g].seeded =>
         [event |-> "issued", of |-> g, by |-> None] \in rows \cup Owed
    /\ Revoked(g) => [event |-> "revoked", of |-> g, by |-> grants[g].revoked] \in rows \cup Owed

\* "Both actions are ledger events": what a decision did to a grant, an event tells of,
\* with the same verdict, however many decisions race and die.
DecisionOnRecord ==
  \A g \in Grants : Exists(g) /\ grants[g].state \in {"active", "declined"} =>
    /\ grants[g].decision \in events
    /\ grants[g].decision.verdict = "decline" <=> grants[g].state = "declined"

\* The register and the queue a Master Admin reads stand on the same record, however
\* requests race and die: shown as revoked is what a revocation is on record for; what is
\* revoked and shown as anything else was seeded, or decided on as it shows; and a seeded
\* grant leaves the queue by a decision on record alone, so that one whose handler died
\* before it was applied still waits there.
RegisterTells ==
  \A g \in Grants : Exists(g) =>
    /\ Shown(g) = "revoked" => [event |-> "revoked", of |-> g, by |-> grants[g].revoked] \in rows \cup Owed
    /\ Revoked(g) /\ Shown(g) # "revoked" => g \in Queue \/ grants[g].decision \in events
    /\ grants[g].seeded => (g \in Queue <=> grants[g].decision = None)
    /\ g \in Queue => grants[g].seeded

\* What is done to a grant can be told from what is kept of it: the ledger, the decision
\* events and the register agree.
GrantsOnRecord == LedgerTells /\ DecisionOnRecord /\ RegisterTells

\* However many approvals race, with each other and with the expiry: an invite yields
\* one token, and none without the audit row of the onboarding.
OnboardedOnce ==
  \A i \in Invites :
    /\ handed[i] <= 1
    /\ handed[i] = 1 => /\ invites[i].state = "approved"
                        /\ [event |-> "onboarding", of |-> i, by |-> None] \in rows

\* A revocation reaches every session: once the grant is revoked, the tokens that
\* carry it are at some time all gone, and no other carries it again.
RevocationPropagates == \A g \in Grants : Revoked(g) ~> [](Carrying(g) = {})

------------------------------------------------------------------------------
(* What the documentation says and the code does not do.                   *)

\* "Declined: never propagated; no session ever carried this grant."
DeclinedNeverCarried ==
  \A g \in Grants : Exists(g) /\ grants[g].state = "declined" => Carrying(g) = {}
=============================================================================
