-------------------------- MODULE MCHandoffService --------------------------
(***************************************************************************)
(* One handoff from alice to bob, with the commands a sender, a receiver   *)
(* and two of the receiver's workers send about it.                        *)
(***************************************************************************)
EXTENDS HandoffService, TLC

CONSTANTS alice, bob, carol, s1, h1, x1, f1, c1, c2,
          kSession, kFact, kContext, kSend, kSendAgain, kAccept1, kAccept2,
          kBeat, kReturn, kFail

Create(op, actor, target) == [op |-> op, actor |-> actor, target |-> target]

SessionTemplate ==
  [id |-> kSession, request |-> Create("session.create", alice, s1)]

FactTemplate ==
  [id |-> kFact,
   request |-> [session |-> s1] @@ Create("fact.create", bob, f1)]

ContextTemplate ==
  [id |-> kContext,
   request |-> [handoff |-> h1, session |-> s1, to |-> bob]
                 @@ Create("handoff_context.create", alice, x1)]

SendTemplate(id, context) ==
  [id |-> id,
   request |-> [session |-> s1, to |-> bob, context |-> context]
                 @@ Create("handoff.send", alice, h1)]

AcceptTemplate(id, claim) ==
  [id |-> id,
   request |-> [claim |-> claim] @@ Create("handoff.accept", bob, h1)]

BeatTemplate ==
  [id |-> kBeat,
   request |-> [claim |-> c1] @@ Create("handoff.heartbeat", bob, h1)]

ReturnTemplate(id, claim, outcome) ==
  [id |-> id,
   request |-> [claim |-> claim, fact |-> f1, outcome |-> outcome]
                 @@ Create("handoff.return", bob, h1)]

(* Two workers race for the handoff and one of them heartbeats, a viewer   *)
(* tries to write, and a receiver does so under the session's command id.  *)
LeaseTemplates ==
  { SessionTemplate, [FactTemplate EXCEPT !.id = kSession],
    SendTemplate(kSend, Nil), AcceptTemplate(kAccept1, c1),
    AcceptTemplate(kAccept2, c2), BeatTemplate,
    [FactTemplate EXCEPT !.request.actor = carol] }

(* The whole route, with a context packet, two claims, evidence and        *)
(* completion.                                                             *)
RouteTemplates ==
  { SessionTemplate, FactTemplate,
    ContextTemplate, SendTemplate(kSend, x1), AcceptTemplate(kAccept1, c1),
    AcceptTemplate(kAccept2, c2), ReturnTemplate(kReturn, c1, "succeeded") }

(* Evidence by the sender and by the receiver, of whom only the receiver   *)
(* may complete the handoff with it.                                       *)
EvidenceTemplates ==
  { SessionTemplate, FactTemplate,
    [FactTemplate EXCEPT !.request.actor = alice], SendTemplate(kSend, Nil),
    AcceptTemplate(kAccept1, c1), ReturnTemplate(kReturn, c1, "succeeded") }

(* Two different commands that create the same handoff.                    *)
DuplicateTemplates ==
  { SessionTemplate, SendTemplate(kSend, Nil), SendTemplate(kSendAgain, Nil),
    AcceptTemplate(kAccept1, c1) }

Sqlite == [templates |-> LeaseTemplates, slots |-> 1, until |-> 1]

Postgres == [templates |-> RouteTemplates, slots |-> 2, until |-> 0]

Evidence == [templates |-> EvidenceTemplates, slots |-> 1, until |-> 0]

MCDeployments == {Sqlite, Evidence, Postgres}

MCDuplicate == {[templates |-> DuplicateTemplates, slots |-> 2, until |-> 0]}
=============================================================================
