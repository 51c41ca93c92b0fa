------------------------------- MODULE Identity -------------------------------
(***************************************************************************)
(* The identity root in the two modes build_provider knows: AUTH_MODE says  *)
(* whether rows of users come from one Clerk account's webhooks and         *)
(* sign-ins, or one local user is made for every request.                   *)
(***************************************************************************)
EXTENDS Integers

CONSTANTS Deliveries, Signins, RetryDays, TombstoneDays, LastDay, MaxFaults,
          Requests, Replicas, TokenCap, MaxId, None

VARIABLES mode, row, tomb, tx, emitted, acked, erased, day, faults,
          users, lastId, cached, advisory, userLock, tokens, req, answered

Clerk == INSTANCE ClerkUser
Local == INSTANCE LocalUser

ASSUME IdentityAssumption == Clerk!ClerkConstants /\ Local!LocalConstants

clerkVars == <<row, tomb, tx, emitted, acked, erased, day, faults>>
localVars == <<users, lastId, cached, advisory, userLock, tokens, req, answered>>
vars == <<mode, clerkVars, localVars>>

Init == mode \in {"clerk", "none"} /\ Clerk!Init /\ Local!Init

Next ==
  /\ UNCHANGED mode
  /\ \/ mode = "clerk" /\ Clerk!Next /\ UNCHANGED localVars
     \/ mode = "none" /\ Local!Next /\ UNCHANGED clerkVars

Spec == Init /\ [][Next]_vars

\* As ClerkUser's, in the mode that has webhooks.
FairSpec == Spec /\ (mode = "clerk" => Clerk!Fairness)

-----------------------------------------------------------------------------
(* Properties: each module's own, under one name in each *)

\* The local user of AUTH_MODE=none is one, however many replicas make it at once.
OneLocalUser == Local!OneLocalUser

\* Requests are authenticated as committed users only.
AnsweredExists == Local!AnsweredExists

\* Concurrent token creations never pass quota_api_tokens.
TokenQuota == Local!TokenQuota

\* An acknowledged user.created left a row with an email, until the account is deleted.
AckedMeansSynced == Clerk!AckedMeansSynced

\* Sign-ins of a live account are not refused, however they race to provision its row.
RefusedOnlyDeleted == Clerk!RefusedOnlyDeleted

\* What begins after user.deleted committed does not bring the row back.
NoComeback == Clerk!NoComeback

\* Webhooks are applied in the end, unless svix gives up.
EventsApplied == mode = "clerk" => Clerk!EventsApplied
=============================================================================
