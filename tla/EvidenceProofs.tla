--------------------------- MODULE EvidenceProofs ---------------------------
(***************************************************************************)
(* Proofs about Evidence, for any sources, targets and bounds.             *)
(***************************************************************************)
EXTENDS Evidence, TLAPS

\* Each leaf is tried with SMT, then with Zenon, then with SMT and more time.
USE SMTT(30), ZenonT(90), SMTT(60), SMTT(90)

\* A target without a load has no report in its history: whatever dropped the load
\* forgot them.
NoLoadIsForgotten ==
  \A t \in Target : load[t] = NoLoad => newest[t] = 0 /\ reports[t] = {}

\* What the last acknowledged commit or opening covers is covered by the memory, and by
\* the store unless it is damaged.
AckedIsCovered ==
  \A s \in Source :
    /\ acked[s] <= Mark(watermarks, s)
    /\ cell # Unknown => acked[s] <= Mark(cell.watermarks, s)

\* The inductive invariant: the checked properties and the two facts above.
EvidenceInv ==
  /\ TypeOK /\ LoadIsNewest /\ NoLoadIsForgotten
  /\ ConflictIsReal /\ ReplaysStayRefused /\ AckedIsCovered

\* The fields of a report have their types.
LEMMA ReportFields ==
  ASSUME NEW r \in Report
  PROVE  /\ r.source \in Source /\ r.sequence \in 1..MaxSequence
         /\ r.version \in 1..MaxVersion /\ r.instant \in 1..MaxInstant
         /\ r.content \in Content /\ r.content.used \in Nat
         /\ r.sequence \in Nat /\ r.instant \in Nat /\ r.instant > 0
         /\ r # NoLoad /\ Said(r) \in [source: Source, used: Nat]
         /\ Said(r).source = r.source /\ Said(r).used = r.content.used
<1>1. /\ r.source \in Source /\ r.sequence \in 1..MaxSequence
      /\ r.version \in 1..MaxVersion /\ r.instant \in 1..MaxInstant
      /\ r.content \in Content
  BY DEF Report
<1>2. r.content.used \in Nat
  BY <1>1, EvidenceAssumption
<1>3. r # NoLoad
  BY EvidenceAssumption
<1>4. QED
  BY <1>1, <1>2, <1>3, EvidenceAssumption DEF Said

\* A table of watermarks has its sources as domain, and a mark is a number.
LEMMA MarksAreNumbers ==
  ASSUME NEW marks \in Watermarks
  PROVE  /\ DOMAIN marks \subseteq Source
         /\ \A s \in DOMAIN marks : marks[s] \in 1..MaxSequence
         /\ \A s \in Source : Mark(marks, s) \in Nat
<1>1. PICK S \in SUBSET Source : marks \in [S -> 1..MaxSequence]
  BY DEF Watermarks
<1>2. QED
  BY <1>1, EvidenceAssumption DEF Mark

\* Raising a watermark gives a table of watermarks, lowers no mark, and covers the
\* report it is raised for.
LEMMA RaisedMarks ==
  ASSUME NEW r \in Report, watermarks \in Watermarks
  PROVE  /\ Raised(r) \in Watermarks
         /\ \A s \in Source : Mark(watermarks, s) <= Mark(Raised(r), s)
         /\ r.sequence <= Mark(Raised(r), r.source)
<1> DEFINE S == DOMAIN watermarks \cup {r.source}
           v(s) == IF s = r.source THEN Larger(Mark(watermarks, s), r.sequence)
                   ELSE watermarks[s]
<1>1. S \in SUBSET Source
  BY MarksAreNumbers, ReportFields
<1>2. r.sequence \in 1..MaxSequence /\ r.source \in Source
  BY ReportFields
<1>3. \A s \in S : v(s) \in 1..MaxSequence
  BY <1>2, MarksAreNumbers, EvidenceAssumption DEF Larger, Mark
<1>4. Raised(r) = [s \in S |-> v(s)]
  BY DEF Raised
<1>5. Raised(r) \in [S -> 1..MaxSequence]
  BY <1>3, <1>4
<1>6. Raised(r) \in Watermarks
  BY <1>1, <1>5 DEF Watermarks
<1>7. DOMAIN Raised(r) = S /\ \A s \in S : Raised(r)[s] = v(s)
  BY <1>4
<1>8. r.sequence <= Mark(Raised(r), r.source)
  BY <1>2, <1>7, MarksAreNumbers, EvidenceAssumption DEF Mark, Larger
<1>9. ASSUME NEW s \in Source
      PROVE  Mark(watermarks, s) <= Mark(Raised(r), s)
  <2>1. Mark(watermarks, s) \in Nat
    BY MarksAreNumbers
  <2>2. CASE s = r.source
    BY <1>2, <1>7, <2>1, <2>2, EvidenceAssumption DEF Mark, Larger
  <2>3. CASE s # r.source
    BY <1>7, <2>1, <2>3 DEF Mark
  <2>4. QED
    BY <2>2, <2>3
<1>10. QED
  BY <1>6, <1>8, <1>9

\* The history of an accepted report keeps its types, and the report's source is
\* owed its sequence.
LEMMA AcceptedHistory ==
  ASSUME TypeOK, NEW t \in Target, NEW r \in Report, Accepted(t, r)
  PROVE  /\ accepted' \in Nat
         /\ newest' \in [Target -> Nat]
         /\ reports' \in [Target -> SUBSET [source: Source, used: Nat]]
         /\ owed' \in [Source -> Nat] /\ acked' \in [Source -> Nat]
         /\ \A s \in Source : owed'[s] = owed[s] \/ (s = r.source /\ owed'[s] = r.sequence)
<1>1. r.sequence \in Nat /\ r.instant \in Nat /\ r.source \in Source
      /\ Said(r) \in [source: Source, used: Nat]
  BY ReportFields
<1>2. accepted' \in Nat /\ newest' \in [Target -> Nat]
  BY <1>1 DEF Accepted, TypeOK, Larger
<1>3. reports' \in [Target -> SUBSET [source: Source, used: Nat]]
  BY <1>1, SMTT(30) DEF Accepted, TypeOK
<1>4. owed' \in [Source -> Nat] /\ acked' \in [Source -> Nat]
  BY <1>1 DEF Accepted, TypeOK, Larger
<1>5. \A s \in Source : owed'[s] = owed[s] \/ (s = r.source /\ owed'[s] = r.sequence)
  BY <1>1 DEF Accepted, TypeOK, Larger
<1>6. QED
  BY <1>2, <1>3, <1>4, <1>5

\* The promise about replays survives an accepted report, whose source's watermark
\* is raised.
LEMMA AcceptedReplays ==
  ASSUME TypeOK, ReplaysStayRefused, AckedIsCovered,
         NEW t \in Target, NEW r \in Report, Accepted(t, r),
         watermarks' = Raised(r), cell' = cell
  PROVE  watermarks' \in Watermarks /\ ReplaysStayRefused' /\ AckedIsCovered'
<1>1. watermarks \in Watermarks
  BY DEF TypeOK
<1>2. /\ watermarks' \in Watermarks
      /\ \A s \in Source : Mark(watermarks, s) <= Mark(watermarks', s)
      /\ r.sequence <= Mark(watermarks', r.source)
  BY <1>1, RaisedMarks
<1>3. \A s \in Source : /\ Mark(watermarks, s) \in Nat /\ Mark(watermarks', s) \in Nat
                        /\ owed[s] \in Nat /\ acked[s] \in Nat
  BY <1>1, <1>2, MarksAreNumbers DEF TypeOK
<1>4. ReplaysStayRefused'
  BY <1>2, <1>3, AcceptedHistory DEF ReplaysStayRefused
<1>5. AckedIsCovered'
  BY <1>2, <1>3 DEF AckedIsCovered, Accepted
<1>6. QED
  BY <1>2, <1>4, <1>5

\* A late report that agrees changes watermarks only.
LEMMA IngestLateKeeps ==
  ASSUME EvidenceInv, NEW t \in Target, NEW r \in Report, IngestLate(t, r)
  PROVE  EvidenceInv'
<1> USE DEF EvidenceInv
<1>1. r.instant \in Nat /\ newest \in [Target -> Nat] /\ r.instant < newest[t]
  BY ReportFields DEF IngestLate, Late, LoadIsNewest, TypeOK
<1>2. Accepted(t, r) /\ watermarks' = Raised(r)
      /\ UNCHANGED <<version, load, conflicting, cell, reopens>>
  BY DEF IngestLate
<1>3. newest' = newest
  BY <1>1, <1>2 DEF Accepted, Larger
<1>4. reports' = reports
  BY <1>1, <1>2, SMTT(30) DEF Accepted, TypeOK
<1>5. watermarks' \in Watermarks /\ ReplaysStayRefused' /\ AckedIsCovered'
  BY <1>2, AcceptedReplays
<1>6. TypeOK'
  BY <1>2, <1>5, AcceptedHistory DEF TypeOK
<1>7. LoadIsNewest' /\ NoLoadIsForgotten' /\ ConflictIsReal'
  BY <1>2, <1>3, <1>4 DEF LoadIsNewest, NoLoadIsForgotten, ConflictIsReal
<1>8. QED
  BY <1>5, <1>6, <1>7

\* A report that becomes the load is the newest, and a conflict it leaves is one
\* that the history shows.
LEMMA IngestLoadKeeps ==
  ASSUME EvidenceInv, NEW t \in Target, NEW r \in Report, IngestLoad(t, r)
  PROVE  EvidenceInv'
<1> USE DEF EvidenceInv
<1>1. /\ r.instant \in Nat /\ r.instant > 0 /\ r # NoLoad
      /\ Said(r).source = r.source /\ Said(r).used = r.content.used
  BY ReportFields
<1>2. Accepted(t, r) /\ watermarks' = Raised(r) /\ UNCHANGED <<version, cell, reopens>>
      /\ load' = [load EXCEPT ![t] = r]
      /\ conflicting' = [conflicting EXCEPT ![t] = ConflictWith(t, r)]
      /\ r.version = version[t] /\ ~Late(t, r)
  BY DEF IngestLoad, Admitted
<1>3. /\ load \in [Target -> Report \cup {NoLoad}] /\ conflicting \in [Target -> BOOLEAN]
      /\ newest \in [Target -> Nat] /\ DOMAIN reports = Target
  BY DEF TypeOK
<1>4. ConflictWith(t, r) \in BOOLEAN
  BY ZenonT(90), <1>3 DEF ConflictWith
<1>5. /\ load'[t] = r /\ conflicting'[t] = ConflictWith(t, r)
      /\ \A u \in Target \ {t} : load'[u] = load[u] /\ conflicting'[u] = conflicting[u]
      /\ \A u \in Target \ {t} : newest'[u] = newest[u] /\ reports'[u] = reports[u]
  BY <1>2, <1>3 DEF Accepted
<1>6. load[t] # NoLoad => load[t] \in Report /\ load[t].instant \in Nat
                          /\ load[t].instant = newest[t] /\ load[t].instant <= r.instant
  BY <1>1, <1>2, <1>3, ReportFields DEF Late, LoadIsNewest
<1>7. newest[t] \in Nat /\ newest[t] <= r.instant
  BY <1>1, <1>3, <1>6 DEF NoLoadIsForgotten
<1>8. newest'[t] = r.instant
  BY <1>1, <1>2, <1>3, <1>7 DEF Accepted, Larger
<1>9. /\ Said(r) \in reports'[t]
      /\ newest[t] = r.instant => reports[t] \subseteq reports'[t]
  BY <1>1, <1>2, <1>3, <1>7, SMTT(30) DEF Accepted
<1>10. watermarks' \in Watermarks /\ ReplaysStayRefused' /\ AckedIsCovered'
  BY <1>2, AcceptedReplays
<1>11. TypeOK'
  <2>1. load' \in [Target -> Report \cup {NoLoad}] /\ conflicting' \in [Target -> BOOLEAN]
    BY <1>2, <1>3, <1>4
  <2>2. \A u \in Target : conflicting'[u] => load'[u] # NoLoad
    BY <1>1, <1>5 DEF TypeOK
  <2>3. QED
    BY <1>2, <1>10, <2>1, <2>2, AcceptedHistory DEF TypeOK
<1>12. LoadIsNewest'
  BY <1>2, <1>5, <1>8, <1>9 DEF LoadIsNewest
<1>13. NoLoadIsForgotten'
  BY <1>1, <1>5 DEF NoLoadIsForgotten
<1>14. ConflictIsReal'
  <2> SUFFICES ASSUME NEW u \in Target, conflicting'[u]
               PROVE  /\ load'[u].instant = newest'[u]
                      /\ \E p, q \in reports'[u] : p.source # q.source /\ p.used # q.used
    BY DEF ConflictIsReal
  <2>1. CASE u # t
    BY <1>5, <2>1 DEF ConflictIsReal
  <2>2. CASE u = t
    <3>1. /\ load[t] # NoLoad /\ load[t].source # r.source /\ load[t].instant = r.instant
          /\ conflicting[t] \/ r.content.used # load[t].content.used
      BY ZenonT(90), <1>5, <2>2 DEF ConflictWith
    <3>2. newest[t] = r.instant /\ reports[t] \subseteq reports'[t]
      BY <1>6, <1>9, <3>1
    <3>3. CASE conflicting[t]
      BY <1>5, <1>8, <2>2, <3>2, <3>3 DEF ConflictIsReal
    <3>4. CASE r.content.used # load[t].content.used
      <4>1. Said(load[t]) \in reports'[t]
        BY <3>1, <3>2 DEF LoadIsNewest
      <4>2. Said(load[t]).source = load[t].source /\ Said(load[t]).used = load[t].content.used
        BY DEF Said
      <4>3. QED
        BY <1>1, <1>5, <1>8, <1>9, <2>2, <3>1, <3>4, <4>1, <4>2
    <3>5. QED
      BY <3>1, <3>3, <3>4
  <2>3. QED
    BY <2>1, <2>2
<1>15. QED
  BY <1>10, <1>11, <1>12, <1>13, <1>14

\* Dropping the loads of some targets together with their history keeps what is
\* said of loads and conflicts, whatever the versions of those targets become.
LEMMA DroppedLoads ==
  ASSUME EvidenceInv, NEW T \in SUBSET Target, Dropped(T), Forgotten(T),
         \A t \in Target \ T : version'[t] = version[t]
  PROVE  /\ load' \in [Target -> Report \cup {NoLoad}]
         /\ conflicting' \in [Target -> BOOLEAN]
         /\ \A t \in Target : conflicting'[t] => load'[t] # NoLoad
         /\ newest' \in [Target -> Nat]
         /\ reports' \in [Target -> SUBSET [source: Source, used: Nat]]
         /\ LoadIsNewest' /\ NoLoadIsForgotten' /\ ConflictIsReal'
<1> USE DEF EvidenceInv
<1>1. \A t \in T : load'[t] = NoLoad /\ conflicting'[t] = FALSE
                   /\ newest'[t] = 0 /\ reports'[t] = {}
  BY ZenonT(90) DEF Dropped, Forgotten
<1>2. \A t \in Target \ T : /\ load'[t] = load[t] /\ conflicting'[t] = conflicting[t]
                            /\ newest'[t] = newest[t] /\ reports'[t] = reports[t]
  BY DEF Dropped, Forgotten, TypeOK
<1>3. load' \in [Target -> Report \cup {NoLoad}] /\ conflicting' \in [Target -> BOOLEAN]
  BY DEF Dropped, TypeOK
<1>4. newest' \in [Target -> Nat]
      /\ reports' \in [Target -> SUBSET [source: Source, used: Nat]]
  BY DEF Forgotten, TypeOK
<1>5. \A t \in Target : conflicting'[t] => load'[t] # NoLoad
  BY <1>1, <1>2 DEF TypeOK
<1>6. LoadIsNewest' /\ NoLoadIsForgotten'
  BY <1>1, <1>2 DEF LoadIsNewest, NoLoadIsForgotten
<1>7. ConflictIsReal'
  BY <1>1, <1>2 DEF ConflictIsReal
<1>8. QED
  BY <1>3, <1>4, <1>5, <1>6, <1>7

\* The marks of a table of watermarks, as a function of the source.
LEMMA MarksOfTable ==
  ASSUME NEW marks \in Watermarks
  PROVE  /\ Marks(marks) \in [Source -> Nat]
         /\ \A s \in Source : Marks(marks)[s] = Mark(marks, s)
  BY MarksAreNumbers DEF Marks

\* Whether a commit succeeds, fails without effect, fails and is still found, or fails
\* and damages the store, a store that is not damaged covers what is acknowledged.
LEMMA PersistKeeps ==
  ASSUME TypeOK, AckedIsCovered, ReplaysStayRefused,
         NEW versions \in [Target -> 1..MaxVersion], Persist(versions),
         watermarks' = watermarks, owed' = owed
  PROVE  /\ cell' \in StoredState \cup {Unknown}
         /\ acked' \in [Source -> Nat]
         /\ AckedIsCovered' /\ ReplaysStayRefused'
<1> DEFINE state == [version |-> versions, watermarks |-> watermarks]
<1>1. watermarks \in Watermarks /\ \A s \in Source : Mark(watermarks, s) \in Nat
  BY MarksAreNumbers DEF TypeOK
<1>2. state \in StoredState /\ state.watermarks = watermarks
  BY <1>1 DEF StoredState
<1>3. \/ cell' \in {state, Unknown} /\ acked' = Marks(watermarks)
      \/ cell' \in {cell, state, Unknown} /\ acked' = acked
  BY DEF Persist
<1> HIDE DEF state
<1>4. cell' \in StoredState \cup {Unknown}
  BY <1>2, <1>3 DEF TypeOK
<1>5. acked' \in [Source -> Nat]
  BY <1>1, <1>3, MarksOfTable DEF TypeOK
<1>6. AckedIsCovered'
  <2> SUFFICES ASSUME NEW s \in Source
               PROVE  /\ acked'[s] <= Mark(watermarks, s)
                      /\ cell' # Unknown => acked'[s] <= Mark(cell'.watermarks, s)
    BY DEF AckedIsCovered
  <2>1. Mark(watermarks, s) \in Nat /\ Marks(watermarks)[s] = Mark(watermarks, s)
    BY <1>1, MarksOfTable
  <2>2. /\ acked[s] <= Mark(watermarks, s)
        /\ cell # Unknown => acked[s] <= Mark(cell.watermarks, s)
    BY DEF AckedIsCovered
  <2>3. CASE acked' = Marks(watermarks) /\ cell' \in {state, Unknown}
    BY <1>2, <2>1, <2>3
  <2>4. CASE acked' = acked /\ cell' \in {cell, state, Unknown}
    BY <1>2, <2>2, <2>4
  <2>5. QED
    BY <1>3, <2>3, <2>4
<1>7. ReplaysStayRefused'
  BY DEF ReplaysStayRefused
<1>8. QED
  BY <1>4, <1>5, <1>6, <1>7

\* The invariant holds initially.
LEMMA EvidenceInitially == Init => EvidenceInv
<1> SUFFICES ASSUME Init PROVE EvidenceInv
  OBVIOUS
<1>1. watermarks \in [{} -> 1..MaxSequence] /\ DOMAIN watermarks = {}
  BY DEF Init
<1>2. watermarks \in Watermarks
  BY <1>1 DEF Watermarks
<1>3. cell.watermarks = watermarks /\ version \in [Target -> 1..MaxVersion]
      /\ cell \in StoredState
  BY <1>2, EvidenceAssumption DEF Init, StoredState
<1>4. TypeOK
  BY <1>2, <1>3 DEF Init, TypeOK
<1>5. LoadIsNewest /\ NoLoadIsForgotten /\ ConflictIsReal
  BY DEF Init, LoadIsNewest, NoLoadIsForgotten, ConflictIsReal
<1>6. ReplaysStayRefused /\ AckedIsCovered
  BY <1>1, <1>3 DEF Init, ReplaysStayRefused, AckedIsCovered, Mark
<1>7. QED
  BY <1>4, <1>5, <1>6 DEF EvidenceInv

\* Every step keeps the invariant.
LEMMA EvidenceStep == EvidenceInv /\ [Next]_vars => EvidenceInv'
<1> SUFFICES ASSUME EvidenceInv, [Next]_vars PROVE EvidenceInv'
  OBVIOUS
<1>t. TypeOK /\ ReplaysStayRefused /\ AckedIsCovered
  BY DEF EvidenceInv
<1>1. CASE \E t \in Target, r \in Report : IngestLate(t, r) \/ IngestLoad(t, r)
  BY <1>1, IngestLateKeeps, IngestLoadKeeps
<1>2. ASSUME NEW T \in SUBSET Target, NEW t \in Target, DeclareTarget(t, T)
      PROVE  EvidenceInv'
  <2>1. /\ version' = [version EXCEPT ![t] = @ + 1] /\ version[t] < MaxVersion
        /\ t \in T /\ Dropped(T) /\ Forgotten(T) /\ Persist(version')
        /\ UNCHANGED <<watermarks, accepted, reopens, owed>>
    BY <1>2 DEF DeclareTarget
  <2>2. version' \in [Target -> 1..MaxVersion]
        /\ \A u \in Target \ T : version'[u] = version[u]
    BY <1>t, <2>1, EvidenceAssumption DEF TypeOK
  <2>3. QED
    BY ZenonT(90), <1>t, <2>1, <2>2, DroppedLoads, PersistKeeps DEF EvidenceInv, TypeOK
<1>3. ASSUME NEW T \in SUBSET Target, WithdrawTargets(T) PROVE EvidenceInv'
  <2>1. /\ Dropped(T) /\ Forgotten(T) /\ Persist(version)
        /\ UNCHANGED <<version, watermarks, accepted, reopens, owed>>
        /\ version \in [Target -> 1..MaxVersion]
    BY <1>t, <1>3 DEF WithdrawTargets, TypeOK
  <2>2. QED
    BY <1>t, <2>1, DroppedLoads, PersistKeeps DEF EvidenceInv, TypeOK
<1>4. CASE Commit
  <2>1. /\ Persist(version) /\ version \in [Target -> 1..MaxVersion]
        /\ UNCHANGED <<version, load, conflicting, watermarks, accepted, reopens, newest,
                       reports, owed>>
    BY <1>t, <1>4 DEF Commit, TypeOK
  <2>2. TypeOK' /\ AckedIsCovered' /\ ReplaysStayRefused'
    BY <1>t, <2>1, PersistKeeps DEF TypeOK
  <2>3. LoadIsNewest' /\ NoLoadIsForgotten' /\ ConflictIsReal'
    BY <2>1 DEF EvidenceInv, LoadIsNewest, NoLoadIsForgotten, ConflictIsReal
  <2>4. QED
    BY <2>2, <2>3 DEF EvidenceInv
<1>5. CASE Reopen
  <2>1. PICK state \in Recovered :
          /\ version' = state.version /\ watermarks' = state.watermarks
          /\ cell' \in {state, Unknown} /\ acked' = Marks(state.watermarks)
    BY <1>5 DEF Reopen, Restored
  <2>2. /\ reopens' = reopens + 1
        /\ owed' = IF cell = Unknown THEN [s \in Source |-> 0] ELSE acked
        /\ Dropped(Target) /\ Forgotten(Target) /\ accepted' = accepted
    BY <1>5 DEF Reopen
  <2>3. state \in StoredState /\ (cell # Unknown => state = cell)
    BY <1>t DEF Recovered, TypeOK
  <2>4. version' \in [Target -> 1..MaxVersion] /\ watermarks' \in Watermarks
    BY <2>1, <2>3 DEF StoredState
  <2>5. /\ acked' \in [Source -> Nat]
        /\ \A s \in Source : Mark(watermarks', s) \in Nat /\ acked'[s] = Mark(watermarks', s)
    BY <2>1, <2>4, MarksOfTable, MarksAreNumbers
  <2>6. AckedIsCovered'
    BY <2>1, <2>5 DEF AckedIsCovered
  <2>7. ReplaysStayRefused' /\ owed' \in [Source -> Nat]
    <3>1. CASE cell = Unknown
      BY <2>2, <2>5, <3>1 DEF ReplaysStayRefused
    <3>2. CASE cell # Unknown
      BY <1>t, <2>1, <2>2, <2>3, <3>2 DEF AckedIsCovered, ReplaysStayRefused, TypeOK
    <3>3. QED
      BY <3>1, <3>2
  <2>8. cell' \in StoredState \cup {Unknown} /\ reopens' \in Nat /\ accepted' \in Nat
    BY <1>t, <2>1, <2>2, <2>3 DEF TypeOK
  <2>9. QED
    BY <2>2, <2>4, <2>5, <2>6, <2>7, <2>8, DroppedLoads DEF EvidenceInv, TypeOK
<1>6. CASE UNCHANGED vars
  BY <1>6 DEF vars, EvidenceInv, TypeOK, LoadIsNewest, NoLoadIsForgotten, ConflictIsReal,
              ReplaysStayRefused, AckedIsCovered
<1>7. QED
  BY <1>1, <1>2, <1>3, <1>4, <1>5, <1>6 DEF Next

\* The invariant holds in every reachable state.
THEOREM EvidenceCorrect == Spec => []EvidenceInv
  BY EvidenceInitially, EvidenceStep, PTL DEF Spec

\* Versions, loads, watermarks and what the store holds keep their types, and a
\* conflict is noted only on a target that has a load (ingest_load, declare_target).
THEOREM EvidenceWellFormed == Spec => []TypeOK
<1>1. EvidenceInv => TypeOK
  BY DEF EvidenceInv
<1>2. QED
  BY <1>1, EvidenceCorrect, PTL

\* The load of a target is the newest report accepted about it as it is declared
\* (ingest_load, declare_target).
THEOREM LoadsAreNewest == Spec => []LoadIsNewest
<1>1. EvidenceInv => LoadIsNewest
  BY DEF EvidenceInv
<1>2. QED
  BY <1>1, EvidenceCorrect, PTL

\* A load in conflict has two accepted sources that disagree about its instant
\* (ingest_load).
THEOREM ConflictsAreReal == Spec => []ConflictIsReal
<1>1. EvidenceInv => ConflictIsReal
  BY DEF EvidenceInv
<1>2. QED
  BY <1>1, EvidenceCorrect, PTL

\* Nothing below what was accepted since the engine was opened is accepted again, nor,
\* unless it was opened on a store that failed writes or repairs had damaged, below
\* what was acknowledged before (ingest_load, persist_locked, restore_locked).
THEOREM ReplaysAreRefused == Spec => []ReplaysStayRefused
<1>1. EvidenceInv => ReplaysStayRefused
  BY DEF EvidenceInv
<1>2. QED
  BY <1>1, EvidenceCorrect, PTL

=============================================================================
