--------------------------- MODULE EvidenceClaims ---------------------------
(* What the repository says of load evidence where the code does something   *)
(* else.  The README gives the constants with which TLC violates each.       *)
EXTENDS Evidence

\* limits.hpp: "Exceeding a bound is an observable refusal".  A late report that
\* agrees with the load gives its source a watermark without looking at the bound,
\* and a store that holds more watermarks than kMaxEvidenceSources cannot be read.
SourcesBounded == Cardinality(DOMAIN watermarks) <= MaxSources

\* boundaries.md: "Two sources disagreeing at the same instant make the load
\* unknown".  A further report of the source that spoke last clears the conflict,
\* although it says the same about the same instant.
DisagreementIsConflict ==
  \A t \in Target : load[t] # NoLoad =>
    \A p, q \in reports[t] :
      p.source # q.source /\ p.used # q.used => conflicting[t]

\* boundaries.md: "A repeated sequence with different content is a conflicting
\* duplicate".  It is one only when the current load of the target has that
\* sequence; otherwise the second content is recorded.
RepeatsAreRefused ==
  [][\A t \in Target : load'[t] # load[t] /\ load'[t] # NoLoad =>
       load'[t].sequence # Mark(watermarks, load'[t].source)]_vars

=============================================================================
