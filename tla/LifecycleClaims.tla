-------------------------- MODULE LifecycleClaims --------------------------
(* What the repository's documentation says of the lifecycle where the code   *)
(* does something else.  Claim_one_attempt checks the first; the README gives *)
(* the constants with which TLC violates each of the others.                  *)
EXTENDS Lifecycle

\* README.md: "A second attempt for the same flow is refused with
\* RejectedMigrationAlreadyInFlight."  A placement that moves a flow with an
\* attempt in flight clears the holder's handoff_pending mark, so the next
\* intent for the flow is accepted while the first attempt is still in flight.
OneAttemptPerFlow == \A f \in Flow : Cardinality(InFlightOf(f)) <= 1

\* engine.cpp, declare_target: "everything derived from the previous incarnation
\* is stale and must not be reused."  When the destination of an attempt gets a
\* new incarnation the attempt is aborted, but the holder at the source keeps
\* waiting for it, and every later intent is refused as already in flight.
PendingHandoffIsInFlight ==
  \A k \in DOMAIN holders :
    holders[k].handoff_pending => holders[k].pending_attempt \in InFlight

\* engine.cpp, declare_target: a decision taken against a previous capability
\* set "can no longer be authorised or verified".  An attempt in flight to the
\* target is not stopped, and its observation is checked against the capability
\* generation of the intent, so it is verified.
VerifiedOnCurrentCapability ==
  \A f \in DOMAIN assignments : assignments[f].effect = "Verified" =>
    targets[assignments[f].target].capability_generation
      = assignments[f].capability_generation

\* model.hpp: "An authorization permits application of exactly one
\* recommendation."  Completing a migration neither consumes the authorization
\* nor publishes a schedule, so the authorization of a flow on one target issues
\* an intent that moves it from another.
AuthorizationNamesAssignment ==
  \A z \in authorizations :
    AuthorizationCurrent(z) => assignments[z.flow].target = z.target

\* engine.hpp, open: "advances the coordinator epoch".  Reopening an engine
\* without persistence starts again at epoch 1 with every table kept.
EpochPerOpen == epoch = restarts

\* limits.hpp: "Every externally influenced size, count and payload is bounded".
\* max_migrations bounds the attempts in flight; records of finished attempts are
\* kept and persisted for ever, and a store with more than kMaxMigrationRecords of
\* them is refused when it is opened.
AttemptRecordsBounded == Cardinality(DOMAIN migrations) <= MaxMigrations

=============================================================================
