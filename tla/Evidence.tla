------------------------------ MODULE Evidence ------------------------------
(***************************************************************************)
(* Load evidence (Engine::ingest_load): reports of several sources about   *)
(* several targets, which arrive late, twice, out of order or in           *)
(* contradiction, the watermarks that tell a replay, and what of them      *)
(* survives a failed commit and a crash.                                   *)
(*                                                                         *)
(* A report names the incarnation and the capability generation of its     *)
(* target; both must be current and a change of either drops the load, so  *)
(* one number, the version, stands for the pair.  Refusals and exact       *)
(* duplicates of the current load change nothing.  Ingestion does not      *)
(* persist; every other operation writes the watermarks out with the rest. *)
(* The store is the durable cell that Store implements (DurableCell): a    *)
(* commit that fails may still be found when the store is opened, and may  *)
(* leave the store damaged, as opening it may.  A damaged store can lose   *)
(* acknowledged commits until it has been compacted; opening it, if that   *)
(* succeeds, goes back to an earlier state.                                *)
(***************************************************************************)
EXTENDS Naturals, FiniteSets

CONSTANTS
  Source, Target,
  Content,             \* what a report says: its state and utilisation
  NoLoad,              \* has_load is false
  Unknown,             \* what a damaged store holds
  MaxSources           \* EngineConfig::max_evidence_sources

\* Bounds of the exploration: accepted reports, sequences, instants, versions and
\* reopenings.
CONSTANTS MaxReports, MaxSequence, MaxInstant, MaxVersion, MaxReopens

VARIABLES
  version, load, conflicting,   \* by target
  watermarks,          \* by source, of the sources heard: the highest sequence
  cell,                \* the versions and watermarks in the store, or Unknown
  accepted, reopens,   \* how often, for the bounds
  \* History: by target, the newest instant reported since its load was last
  \* dropped, and who reported what of it; by source, the sequence below which a
  \* report is a replay, and what of it the last acknowledged commit, or opening,
  \* covers.
  newest, reports, owed, acked

vars == <<version, load, conflicting, watermarks, cell, accepted, reopens, newest,
          reports, owed, acked>>

Report == [source: Source, sequence: 1..MaxSequence, version: 1..MaxVersion,
           instant: 1..MaxInstant, content: Content]

Watermarks == UNION {[S -> 1..MaxSequence] : S \in SUBSET Source}
StoredState == [version: [Target -> 1..MaxVersion], watermarks: Watermarks]

ASSUME EvidenceAssumption ==
  /\ IsFiniteSet(Source) /\ IsFiniteSet(Target)
  /\ Content \subseteq [state: {"Known", "Unsupported"}, used: Nat]
  /\ NoLoad \notin Report
  /\ MaxSources \in Nat
  /\ MaxSequence \in Nat /\ MaxInstant \in Nat /\ MaxVersion \in Nat \ {0}
  /\ Unknown \notin StoredState

\* A source that was never heard has no watermark.
Mark(marks, s) == IF s \in DOMAIN marks THEN marks[s] ELSE 0
Marks(marks) == [s \in Source |-> Mark(marks, s)]
Larger(m, n) == IF m > n THEN m ELSE n

Init ==
  /\ version = [t \in Target |-> 1]
  /\ load = [t \in Target |-> NoLoad] /\ conflicting = [t \in Target |-> FALSE]
  /\ watermarks = [s \in {} |-> 0]
  /\ cell = [version |-> version, watermarks |-> watermarks]
  /\ accepted = 0 /\ reopens = 0
  /\ newest = [t \in Target |-> 0] /\ reports = [t \in Target |-> {}]
  /\ owed = [s \in Source |-> 0] /\ acked = owed

-----------------------------------------------------------------------------
(* ingest_load *)

\* The report is about the target as declared, is not below its source's
\* watermark, and does not repeat the sequence of the current load.
Admitted(t, r) ==
  /\ r.version = version[t]
  /\ r.sequence >= Mark(watermarks, r.source)
  /\ load[t] # NoLoad => <<r.source, r.sequence>> # <<load[t].source, load[t].sequence>>

\* The source's watermark is raised to the report's sequence.
Raised(r) ==
  [s \in DOMAIN watermarks \cup {r.source} |->
     IF s = r.source THEN Larger(Mark(watermarks, s), r.sequence) ELSE watermarks[s]]

\* The report is older than the current load.  A Faulty definition, here and below,
\* is the next definition with one mistake.
FaultyLate(t, r) == load[t] # NoLoad /\ r.instant + 1 < load[t].instant
Late(t, r) == load[t] # NoLoad /\ r.instant < load[t].instant

\* An accepted report: the counter and the history.
Said(r) == [source |-> r.source, used |-> r.content.used]
Accepted(t, r) ==
  /\ accepted < MaxReports /\ accepted' = accepted + 1
  /\ newest' = [newest EXCEPT ![t] = Larger(@, r.instant)]
  /\ reports' = [reports EXCEPT ![t] =
       (IF r.instant > newest[t] THEN {} ELSE @)
       \cup (IF r.instant < newest[t] THEN {} ELSE {Said(r)})]
  /\ owed' = [owed EXCEPT ![r.source] = Larger(@, r.sequence)]
  /\ UNCHANGED acked

\* A late report that agrees with the current load only raises the watermark, also
\* of a source that was never heard.
IngestLate(t, r) ==
  /\ Admitted(t, r) /\ Late(t, r)
  /\ r.content = load[t].content
  /\ watermarks' = Raised(r)
  /\ Accepted(t, r)
  /\ UNCHANGED <<version, load, conflicting, cell, reopens>>

\* Whether the target's load is in conflict once the report is its load: another
\* source disagrees about the same instant.  Agreement leaves a conflict as it is;
\* a newer report and a further one of the same source resolve it.
FaultyConflictWith(t, r) ==
  IF load[t] = NoLoad \/ load[t].source = r.source THEN FALSE
  ELSE conflicting[t] \/ r.content.used # load[t].content.used
ConflictWith(t, r) ==
  IF load[t] = NoLoad \/ load[t].source = r.source \/ load[t].instant # r.instant
  THEN FALSE
  ELSE conflicting[t] \/ r.content.used # load[t].content.used

\* Any other report becomes the load, unless its source is one too many.
IngestLoad(t, r) ==
  /\ Admitted(t, r) /\ ~Late(t, r)
  /\ r.source \in DOMAIN watermarks \/ Cardinality(DOMAIN watermarks) < MaxSources
  /\ conflicting' = [conflicting EXCEPT ![t] = ConflictWith(t, r)]
  /\ load' = [load EXCEPT ![t] = r]
  /\ watermarks' = Raised(r)
  /\ Accepted(t, r)
  /\ UNCHANGED <<version, cell, reopens>>

-----------------------------------------------------------------------------
(* The operations that drop loads, and the store. *)

\* persist_locked.  On success the commit is acknowledged; a damaged store is sound
\* again if the commit compacted it.  On failure the memory keeps the change, and the
\* store may or may not, or is damaged.
Persist(versions) ==
  LET state == [version |-> versions, watermarks |-> watermarks] IN
  \/ /\ cell' \in IF cell = Unknown THEN {state, Unknown} ELSE {state}
     /\ acked' = Marks(watermarks)
  \/ cell' \in {cell, state, Unknown} /\ UNCHANGED acked

\* The targets in T lose their load.
FaultyDropped(T) ==
  /\ load' = [t \in Target |-> IF t \in T THEN NoLoad ELSE load[t]]
  /\ conflicting' = conflicting
Dropped(T) ==
  /\ load' = [t \in Target |-> IF t \in T THEN NoLoad ELSE load[t]]
  /\ conflicting' = [t \in Target |-> t \notin T /\ conflicting[t]]

Forgotten(T) ==
  /\ newest' = [t \in Target |-> IF t \in T THEN 0 ELSE newest[t]]
  /\ reports' = [t \in Target |-> IF t \in T THEN {} ELSE reports[t]]

\* declare_target with a newer incarnation or capability generation of t.  With a
\* newer topology too, others than t lose their load.  No target is declared anew
\* once one has MaxVersion.
DeclareTarget(t, T) ==
  /\ t \in T
  /\ \A u \in Target : version[u] < MaxVersion
  /\ version' = [version EXCEPT ![t] = @ + 1]
  /\ Dropped(T) /\ Forgotten(T) /\ Persist(version')
  /\ UNCHANGED <<watermarks, accepted, reopens, owed>>

\* remove_target drops the load of one target, a new topology that of several.
WithdrawTargets(T) ==
  /\ Dropped(T) /\ Forgotten(T) /\ Persist(version)
  /\ UNCHANGED <<version, watermarks, accepted, reopens, owed>>

\* Any other operation that persists, and shutdown.
Commit ==
  /\ Persist(version)
  /\ UNCHANGED <<version, load, conflicting, watermarks, accepted, reopens, newest, reports,
                 owed>>

\* restore_locked.
FaultyRestored(state) == [s \in {} |-> 0]
Restored(state) == state.watermarks

\* What opening the store may return.  No state a damaged one has kept is newer than
\* the memory.
Recovered ==
  IF cell # Unknown THEN {cell}
  ELSE {state \in StoredState :
          /\ \A t \in Target : state.version[t] <= version[t]
          /\ \A s \in Source : Mark(state.watermarks, s) <= Mark(watermarks, s)}

\* The process ends, and the engine is opened on what the store holds.  The repair
\* may damage the store (OpenErases and FinishOpen of Store).  open() ends with a
\* commit, without which the engine is not open; a store that the commit compacts is
\* sound.
Reopen ==
  /\ reopens < MaxReopens /\ reopens' = reopens + 1
  /\ \E state \in Recovered :
       /\ version' = state.version /\ watermarks' = Restored(state)
       /\ cell' \in {state, Unknown} /\ acked' = Marks(state.watermarks)
  /\ owed' = IF cell = Unknown THEN [s \in Source |-> 0] ELSE acked
  /\ Dropped(Target) /\ Forgotten(Target)
  /\ UNCHANGED accepted

Next ==
  \/ \E t \in Target, r \in Report : IngestLate(t, r) \/ IngestLoad(t, r)
  \/ \E T \in SUBSET Target \ {{}} :
       WithdrawTargets(T) \/ \E t \in Target : DeclareTarget(t, T)
  \/ Commit \/ Reopen

Spec == Init /\ [][Next]_vars

-----------------------------------------------------------------------------
(* Properties. *)

\* Loads, watermarks and the store's contents are well formed, and only a load can
\* be in conflict.
TypeOK ==
  /\ version \in [Target -> 1..MaxVersion]
  /\ load \in [Target -> Report \cup {NoLoad}]
  /\ conflicting \in [Target -> BOOLEAN]
  /\ \A t \in Target : conflicting[t] => load[t] # NoLoad
  /\ watermarks \in Watermarks
  /\ cell \in StoredState \cup {Unknown}
  /\ accepted \in Nat /\ reopens \in Nat
  /\ newest \in [Target -> Nat]
  /\ reports \in [Target -> SUBSET [source: Source, used: Nat]]
  /\ owed \in [Source -> Nat] /\ acked \in [Source -> Nat]

\* The load of a target is the newest report accepted since its load was last
\* dropped, and is about the target as it is declared now: no late, repeated or
\* reordered report takes its place, whichever source it is from (ingest_load,
\* declare_target).
LoadIsNewest ==
  \A t \in Target : load[t] # NoLoad =>
    /\ load[t].version = version[t]
    /\ load[t].instant = newest[t] /\ Said(load[t]) \in reports[t]

\* A load is called conflicting only while two sources that were both accepted
\* disagree about the load's own instant, so that placement never refuses a target
\* over a disagreement that newer reports have settled (ingest_load).
ConflictIsReal ==
  \A t \in Target : conflicting[t] =>
    /\ load[t].instant = newest[t]
    /\ \E p, q \in reports[t] : p.source # q.source /\ p.used # q.used

\* A replay stays refused: no watermark is below a sequence accepted since the
\* engine was opened, nor below what the last acknowledged commit or the opening
\* before covered, unless the engine was opened on a damaged store.  A commit that
\* failed without damaging the store takes nothing back, wherever the process ended
\* (ingest_load, persist_locked, restore_locked).
ReplaysStayRefused ==
  \A s \in Source : owed[s] <= Mark(watermarks, s)

=============================================================================
