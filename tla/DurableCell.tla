---------------------------- MODULE DurableCell ----------------------------
(***************************************************************************)
(* What the store promises its caller: one durable cell.  A commit is      *)
(* begun, may reach the cell at any time, and is acknowledged only once it *)
(* has.  Opening the store returns what the cell holds.  After a fault     *)
(* nothing is promised until the cell has been written anew.               *)
(***************************************************************************)
CONSTANTS State, NoState,
          Unknown   \* neither a state nor NoState

VARIABLES
  cell,      \* the durable state, or Unknown after a fault
  acked,     \* the state last acknowledged, or returned by opening
  attempts   \* the states whose commit was begun since

cellVars == <<cell, acked, attempts>>

CellInit == cell = NoState /\ acked = NoState /\ attempts = {}

Begin(v) == /\ attempts' = attempts \cup {v}
            /\ UNCHANGED <<cell, acked>>

Write(v) == /\ cell # Unknown
            /\ v \in attempts
            /\ cell' = v
            /\ UNCHANGED <<acked, attempts>>

Acknowledge(v) == /\ v \in attempts
                  /\ cell \in {v, Unknown}
                  /\ acked' = v /\ attempts' = {}
                  /\ UNCHANGED cell

\* Opening settles the fate of every commit that was not acknowledged.  It may
\* find that the cell cannot be relied on.
Opened(v) == /\ cell \in {v, Unknown}
             /\ cell' \in {cell, Unknown}
             /\ acked' = v /\ attempts' = {}

Fault == /\ cell' = Unknown
         /\ UNCHANGED <<acked, attempts>>

Renew(v) == /\ cell = Unknown
            /\ v \in attempts
            /\ cell' = v
            /\ UNCHANGED <<acked, attempts>>

CellNext ==
  \/ \E v \in State : \/ Begin(v) \/ Write(v) \/ Acknowledge(v) \/ Renew(v)
  \/ \E v \in State \cup {NoState} : Opened(v)
  \/ Fault

CellSpec == CellInit /\ [][CellNext]_cellVars

\* A crash at any moment loses at most commits that were not acknowledged.
NothingAcknowledgedIsLost == cell \in {acked, Unknown} \cup attempts

=============================================================================
