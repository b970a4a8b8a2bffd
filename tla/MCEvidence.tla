----------------------------- MODULE MCEvidence -----------------------------
(* Instances of Evidence for TLC. *)
EXTENDS EvidenceClaims, TLC

\* Two utilisations.
MCContent == {[state |-> "Known", used |-> 0], [state |-> "Known", used |-> 1]}

\* Sources and targets are only compared for equality.
MCSymmetry == Permutations(Source) \cup Permutations(Target)

=============================================================================
