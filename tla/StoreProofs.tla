---------------------------- MODULE StoreProofs ----------------------------
(***************************************************************************)
(* What a kill may cost the store, proved for any thresholds and any       *)
(* number of commits, kills and I/O errors, and that Store implements      *)
(* DurableCell.                                                            *)
(***************************************************************************)
EXTENDS Store, WellFoundedInduction, TLAPS

\* Each leaf is tried with SMT, then with Zenon, then with SMT and more time.
USE SMTT(30), ZenonT(90), SMTT(60), SMTT(90)

\* The shapes of the files and of a recovery pass.
AnyState == State \cup {NoState}
Snapshot == [sequence: Nat, state: AnyState]
Record == {Torn} \cup {Whole(n, v) : n \in Nat \ {0}, v \in State}
Journal == [exists: BOOLEAN, header: BOOLEAN, base: Nat, records: Seq(Record)]
Pass == [usable: BOOLEAN, sequence: Nat, state: AnyState, replayed: Nat,
         torn: BOOLEAN, records: Seq(Record)]

\* The steps of open(), those after a snapshot was renamed into place, those of a
\* commit or a compaction, and those of an open store.
Opening == {"Truncate", "Erase", "Header", "OpenForAppend"}
Replacing == {"CompactErase", "CompactHeader", "CompactOpen"}
Writing == Replacing \cup {"Append", "Compact", "ShutdownCompact", "Acknowledge"}
Opened == Writing \cup {"Idle"}
Step == Opening \cup Opened \cup {"Closed", "Unusable"}

\* Files, memory and history are well formed.
Types ==
  /\ snapshot \in Snapshot /\ journal \in Journal /\ pc \in Step /\ pass \in Pass
  /\ in_flight \in AnyState /\ state_ \in AnyState /\ acked \in AnyState
  /\ handle \in BOOLEAN /\ exposed \in BOOLEAN
  /\ commit_sequence_ \in Nat /\ records_since_snapshot_ \in Nat
  /\ journal_bytes_ \in Nat
  /\ commits \in 0..MaxCommits /\ attempts \subseteq State

\* What each step of a call may rely on, whatever has failed before: a record is
\* only appended to a journal with a header, and a journal is only replaced once
\* the snapshot holds the state being written.
Calls ==
  /\ journal.header => journal.exists
  /\ ~journal.header => journal.records = <<>>
  /\ handle => pc \in Opened /\ journal.header
  /\ pc \in {"CompactHeader", "CompactOpen"} =>
       ~handle /\ ~exposed /\ journal.exists /\ journal.records = <<>>
  /\ pc = "Append" => handle
  /\ pc \in {"OpenForAppend", "CompactOpen"} => journal.header
  /\ pc = "Header" => journal = EmptyJournal
  /\ pc \in Writing => in_flight \in attempts
  /\ pc \in Replacing => snapshot.sequence = commit_sequence_ /\ snapshot.state = in_flight

\* All records but the last are whole, and the whole ones are numbered upwards.
Ordered(records) ==
  /\ \A i \in 1..(Len(records) - 1) : records[i].whole
  /\ \A i, j \in 1..Len(records) :
       i < j /\ records[j].whole => records[i].sequence < records[j].sequence

\* How many records there are before the torn one.
Kept(records) ==
  IF records # <<>> /\ ~records[Len(records)].whole THEN Len(records) - 1
                                                    ELSE Len(records)

\* What recovery makes of an ordered journal: its last whole record, unless the
\* snapshot is as new.
Survivor(records) ==
  LET n == Kept(records) IN
  IF n > 0 /\ records[n].sequence > snapshot.sequence
  THEN [sequence |-> records[n].sequence, state |-> records[n].state]
  ELSE snapshot

\* The files hold an acknowledged state, or one whose commit was begun since.
Sound ==
  /\ Ordered(journal.records)
  /\ Len(journal.records) <= MaxJournal
  /\ journal.base <= snapshot.sequence
  /\ Survivor(journal.records).state \in {acked} \cup attempts

\* open() will return what the files hold.
OpeningAgrees ==
  LET kept == Survivor(journal.records) IN
  /\ pass.state = kept.state /\ pass.sequence = kept.sequence
  /\ pass.replayed = 0 => kept = snapshot
  /\ pc = "Truncate" => pass.records = Intact(journal.records)

\* The memory of an open store agrees with its files.
OpenAgrees ==
  LET records == journal.records IN
  /\ Kept(records) = Len(records)
  /\ Survivor(records).sequence = commit_sequence_
  /\ Len(records) <= journal_bytes_
  /\ pc = "Append" => journal_bytes_ + 1 <= MaxJournal
  /\ pc \in Replacing \cup {"Compact", "Acknowledge"} =>
       Survivor(records).state = in_flight

StoreInv ==
  /\ Types /\ Calls
  /\ ~exposed =>
       /\ Sound
       /\ pc \in Opening => OpeningAgrees
       /\ pc \in Opened => OpenAgrees

-----------------------------------------------------------------------------
(* Records and recovery passes. *)

\* A non-empty set of numbers has a least element: induction on the length of a
\* journal goes by the least length at which a statement fails.
LEMMA Least ==
  ASSUME NEW T, T \subseteq Nat, T # {}
  PROVE  \E n \in T : \A m \in T : n <= m
<1>1. PICK n \in T : \A m \in T : ~(<<m, n>> \in OpToRel(<, Nat))
  BY ZenonT(90), WFMin, NatLessThanWellFounded
<1>2. \A m \in T : ~(m < n)
  BY <1>1, ZenonT(90) DEF OpToRel
<1> QED
  BY <1>2

\* The fields of a record.
LEMMA RecordFields ==
  ASSUME NEW r \in Record
  PROVE  /\ r.whole \in BOOLEAN /\ r.sequence \in Nat /\ r.state \in AnyState
         /\ r.whole => /\ r.sequence > 0 /\ r.state \in State
                       /\ r = Whole(r.sequence, r.state)
         /\ ~r.whole => r = Torn
<1>1. CASE r = Torn
  BY <1>1 DEF Torn, AnyState
<1>2. CASE \E n \in Nat \ {0}, v \in State : r = Whole(n, v)
  <2>1. PICK n \in Nat \ {0}, v \in State : r = Whole(n, v)
    BY <1>2
  <2>2. r.whole /\ r.sequence = n /\ r.state = v
    BY <2>1 DEF Whole
  <2> QED
    BY <2>1, <2>2 DEF AnyState
<1> QED
  BY <1>1, <1>2 DEF Record

\* The two records a write may leave.
LEMMA RecordsMade ==
  /\ Torn \in Record /\ ~Torn.whole
  /\ \A n \in Nat \ {0}, v \in State :
       /\ Whole(n, v) \in Record /\ Whole(n, v).whole
       /\ Whole(n, v).sequence = n /\ Whole(n, v).state = v
<1>1. \A n \in Nat \ {0}, v \in State : Whole(n, v) \in Record
  BY DEF Record
<1>2. \A n, v : /\ Whole(n, v).whole
                /\ Whole(n, v).sequence = n /\ Whole(n, v).state = v
  BY DEF Whole
<1>3. Torn \in Record
  BY DEF Record
<1>4. ~Torn.whole
  BY DEF Torn
<1> QED
  BY <1>1, <1>2, <1>3, <1>4

\* A sequence and the same sequence with one more element.
LEMMA Appending ==
  ASSUME NEW S, NEW s \in Seq(S), NEW e \in S
  PROVE  /\ Append(s, e) \in Seq(S) /\ Len(Append(s, e)) = Len(s) + 1
         /\ \A i \in 1..Len(s) : Append(s, e)[i] = s[i]
         /\ Append(s, e)[Len(s) + 1] = e
  OBVIOUS

\* A prefix of a sequence.
LEMMA Prefix ==
  ASSUME NEW S, NEW s \in Seq(S), NEW n \in 0..Len(s)
  PROVE  /\ SubSeq(s, 1, n) \in Seq(S) /\ Len(SubSeq(s, 1, n)) = n
         /\ \A i \in 1..n : SubSeq(s, 1, n)[i] = s[i]
  OBVIOUS

\* The pass from one record to the next is well defined: recover()'s loop has one
\* result after each record.
LEMMA PassExists ==
  ASSUME NEW records, NEW k \in Nat
  PROVE  \E g : g = [n \in 0..k |->
                       IF n = 0 THEN FromSnapshot ELSE Replay(g[n - 1], records[n])]
<1> DEFINE Q(j) == \E g : g = [n \in 0..j |->
                       IF n = 0 THEN FromSnapshot ELSE Replay(g[n - 1], records[n])]
           T == {j \in Nat : ~Q(j)}
<1>1. Q(0)
  <2> DEFINE g == [n \in 0..0 |-> FromSnapshot]
  <2>1. g = [n \in 0..0 |->
               IF n = 0 THEN FromSnapshot ELSE Replay(g[n - 1], records[n])]
    OBVIOUS
  <2> QED
    BY ZenonT(90), <2>1
<1>2. ASSUME NEW j \in Nat, Q(j)
      PROVE  Q(j + 1)
  <2>1. PICK g : g = [n \in 0..j |->
                 IF n = 0 THEN FromSnapshot ELSE Replay(g[n - 1], records[n])]
    BY <1>2
  <2> DEFINE h == [n \in 0..(j + 1) |->
                     IF n <= j THEN g[n] ELSE Replay(g[j], records[j + 1])]
  <2>2. ASSUME NEW n \in 0..(j + 1)
        PROVE  h[n] = IF n = 0 THEN FromSnapshot ELSE Replay(h[n - 1], records[n])
    <3>1. CASE n = 0
      BY <3>1, <2>1
    <3>2. CASE n \in 1..j
      <4>1. h[n] = g[n] /\ h[n - 1] = g[n - 1]
        BY <3>2
      <4>2. g[n] = Replay(g[n - 1], records[n])
        BY <2>1, <3>2
      <4> QED
        BY <4>1, <4>2, <3>2
    <3>3. CASE n = j + 1
      <4>1. h[n] = Replay(g[j], records[j + 1]) /\ h[n - 1] = g[j]
        BY <3>3
      <4> QED
        BY <4>1, <3>3
    <3> QED
      BY <3>1, <3>2, <3>3
  <2>3. h = [n \in 0..(j + 1) |->
               IF n = 0 THEN FromSnapshot ELSE Replay(h[n - 1], records[n])]
    <3> HIDE DEF Q
    <3> QED
      BY <2>2
  <2> HIDE DEF h
  <2> QED
    BY <2>3
<1> HIDE DEF Q
<1>3. T = {}
  <2> SUFFICES ASSUME T # {} PROVE FALSE
    OBVIOUS
  <2>1. T \subseteq Nat
    OBVIOUS
  <2> HIDE DEF T
  <2>2. PICK n \in T : \A m \in T : n <= m
    BY <2>1, Least, ZenonT(90)
  <2> USE DEF T
  <2>3. n # 0
    BY <1>1, <2>2
  <2>4. Q(n - 1)
    BY <2>2, <2>3
  <2> QED
    BY <1>2, <2>2, <2>3, <2>4
<1>4. Q(k)
  BY <1>3
<1> QED
  BY <1>4 DEF Q

\* What the loop computes, one record at a time.
LEMMA AfterStep ==
  ASSUME NEW records, Len(records) \in Nat
  PROVE  /\ After(records)[0] = FromSnapshot
         /\ \A n \in 1..Len(records) :
              After(records)[n] = Replay(After(records)[n - 1], records[n])
<1>1. After(records) = [n \in 0..Len(records) |->
        IF n = 0 THEN FromSnapshot ELSE Replay(After(records)[n - 1], records[n])]
  BY ZenonT(90), PassExists DEF After
<1> QED
  BY <1>1

\* A pass stays well formed from record to record.
LEMMA ReplayTyped ==
  ASSUME NEW p \in Pass, NEW r \in Record
  PROVE  /\ Replay(p, r) \in Pass
         /\ Replay(p, r).usable = p.usable
         /\ r.sequence <= p.sequence => Replay(p, r) = p
         /\ r.sequence > p.sequence =>
              /\ Replay(p, r).sequence = r.sequence /\ Replay(p, r).state = r.state
              /\ Replay(p, r).replayed = p.replayed + 1
<1> DEFINE q == [p EXCEPT !.sequence = r.sequence, !.state = r.state,
                          !.replayed = @ + 1]
<1>1. r.sequence \in Nat /\ r.state \in AnyState
  BY RecordFields
<1>2. p.sequence \in Nat
  BY DEF Pass
<1>3. /\ q \in Pass /\ q.usable = p.usable
      /\ q.sequence = r.sequence /\ q.state = r.state /\ q.replayed = p.replayed + 1
  <2> DEFINE p1 == [p EXCEPT !.sequence = r.sequence]
             p2 == [p1 EXCEPT !.state = r.state]
  <2>1. p1 \in Pass /\ p1.usable = p.usable /\ p1.sequence = r.sequence
          /\ p1.replayed = p.replayed
    BY <1>1 DEF Pass
  <2>2. q = [p2 EXCEPT !.replayed = @ + 1]
    OBVIOUS
  <2> HIDE DEF p1, q
  <2>3. p2 \in Pass /\ p2.usable = p1.usable /\ p2.sequence = p1.sequence
          /\ p2.state = r.state /\ p2.replayed = p1.replayed
    BY <1>1, <2>1 DEF Pass
  <2> HIDE DEF p2
  <2>4. q \in Pass /\ q.usable = p2.usable /\ q.sequence = p2.sequence
          /\ q.state = p2.state /\ q.replayed = p2.replayed + 1
    BY <2>2, <2>3 DEF Pass
  <2> QED
    BY <2>1, <2>3, <2>4
<1>4. Replay(p, r) = IF r.sequence <= p.sequence THEN p ELSE q
  BY DEF Replay
<1> HIDE DEF q
<1> QED
  BY <1>1, <1>2, <1>3, <1>4

\* The pass begins with what the snapshot holds.
LEMMA FromSnapshotTyped ==
  ASSUME snapshot \in Snapshot
  PROVE  /\ FromSnapshot \in Pass /\ FromSnapshot.usable
         /\ FromSnapshot.sequence = snapshot.sequence
         /\ FromSnapshot.state = snapshot.state /\ FromSnapshot.replayed = 0
  BY DEF FromSnapshot, Snapshot, Pass

\* After every record the pass is well formed and the store still usable.
LEMMA AfterTyped ==
  ASSUME snapshot \in Snapshot, NEW records \in Seq(Record), NEW k \in 0..Len(records)
  PROVE  After(records)[k] \in Pass /\ After(records)[k].usable
<1> DEFINE P(n) == After(records)[n] \in Pass /\ After(records)[n].usable
           T == {n \in 0..Len(records) : ~P(n)}
<1>1. P(0)
  BY AfterStep, FromSnapshotTyped
<1>2. ASSUME NEW n \in 1..Len(records), P(n - 1)
      PROVE  P(n)
  <2>1. After(records)[n] = Replay(After(records)[n - 1], records[n])
    BY AfterStep
  <2>2. records[n] \in Record
    OBVIOUS
  <2> QED
    BY <1>2, <2>1, <2>2, ReplayTyped
<1> HIDE DEF P
<1>3. T = {}
  <2> SUFFICES ASSUME T # {} PROVE FALSE
    OBVIOUS
  <2>1. T \subseteq Nat
    OBVIOUS
  <2> HIDE DEF T
  <2>2. PICK n \in T : \A m \in T : n <= m
    BY <2>1, Least, ZenonT(90)
  <2> USE DEF T
  <2>3. n \in 1..Len(records)
    BY <1>1, <2>2
  <2>4. P(n - 1)
    BY <2>2, <2>3
  <2> QED
    BY <1>2, <2>2, <2>3, <2>4
<1> QED
  BY <1>3 DEF P

\* After each record of an ordered journal, the pass holds that record, or the
\* snapshot as long as no record was newer.
LEMMA AfterOrdered ==
  ASSUME snapshot \in Snapshot, NEW records \in Seq(Record),
         Ordered(records), Kept(records) = Len(records), NEW k \in 0..Len(records)
  PROVE  LET p == After(records)[k] IN
         IF k > 0 /\ records[k].sequence > snapshot.sequence
         THEN /\ p.sequence = records[k].sequence /\ p.state = records[k].state
              /\ p.replayed > 0
         ELSE /\ p.sequence = snapshot.sequence /\ p.state = snapshot.state
              /\ p.replayed = 0
<1> DEFINE P(n) ==
      LET p == After(records)[n] IN
      IF n > 0 /\ records[n].sequence > snapshot.sequence
      THEN /\ p.sequence = records[n].sequence /\ p.state = records[n].state
           /\ p.replayed > 0
      ELSE /\ p.sequence = snapshot.sequence /\ p.state = snapshot.state
           /\ p.replayed = 0
           T == {n \in 0..Len(records) : ~P(n)}
<1>1. P(0)
  BY AfterStep, FromSnapshotTyped
<1>2. ASSUME NEW n \in 1..Len(records), P(n - 1)
      PROVE  P(n)
  <2> DEFINE p == After(records)[n - 1]
             q == After(records)[n]
  <2>1. q = Replay(p, records[n])
    BY AfterStep
  <2>2. records[n] \in Record /\ records[n].sequence \in Nat
    BY RecordFields
  <2>3. p \in Pass /\ p.sequence \in Nat /\ p.replayed \in Nat
    BY AfterTyped DEF Pass
  <2>4. records[n].whole
    BY DEF Ordered, Kept
  <2>5. n > 1 => records[n - 1] \in Record /\ records[n - 1].sequence \in Nat
                   /\ records[n - 1].sequence < records[n].sequence
    BY <2>4, RecordFields DEF Ordered
  <2>6. snapshot.sequence \in Nat
    BY DEF Snapshot
  <2>7. records[n].sequence > snapshot.sequence <=> records[n].sequence > p.sequence
    BY <1>2, <2>2, <2>3, <2>5, <2>6
  <2>8. CASE records[n].sequence > snapshot.sequence
    <3>1. /\ q.sequence = records[n].sequence /\ q.state = records[n].state
          /\ q.replayed = p.replayed + 1
      <4> HIDE DEF p, q, P, T
      <4> QED
        BY <2>1, <2>2, <2>3, <2>7, <2>8, ReplayTyped
    <3>2. q.replayed > 0
      BY <2>3, <3>1
    <3> QED
      BY <2>8, <3>1, <3>2
  <2>9. CASE ~(records[n].sequence > snapshot.sequence)
    <3>1. q = p
      BY <2>1, <2>2, <2>3, <2>7, <2>9, ReplayTyped
    <3>2. ~(n - 1 > 0 /\ records[n - 1].sequence > snapshot.sequence)
      BY <2>2, <2>5, <2>6, <2>9
    <3> QED
      BY <1>2, <2>9, <3>1, <3>2
  <2> QED
    BY <2>8, <2>9
<1> HIDE DEF P
<1>3. T = {}
  <2> SUFFICES ASSUME T # {} PROVE FALSE
    OBVIOUS
  <2>1. T \subseteq Nat
    OBVIOUS
  <2> HIDE DEF T
  <2>2. PICK n \in T : \A m \in T : n <= m
    BY <2>1, Least, ZenonT(90)
  <2> USE DEF T
  <2>3. n \in 1..Len(records)
    BY <1>1, <2>2
  <2>4. P(n - 1)
    BY <2>2, <2>3
  <2> QED
    BY <1>2, <2>2, <2>3, <2>4
<1> QED
  BY <1>3 DEF P

\* Recovery never makes records up.
LEMMA IntactTyped ==
  ASSUME NEW records \in Seq(Record)
  PROVE  /\ Intact(records) \in Seq(Record)
         /\ Len(Intact(records)) <= Len(records)
<1> DEFINE torn == {i \in DOMAIN records : ~records[i].whole}
           first == CHOOSE i \in torn : \A j \in torn : i <= j
<1>1. CASE torn = {}
  BY <1>1 DEF Intact
<1>2. CASE torn # {}
  <2>1. torn \subseteq Nat
    OBVIOUS
  <2>2. \E i \in torn : \A j \in torn : i <= j
    <3> HIDE DEF torn
    <3> QED
      BY ZenonT(90), <1>2, <2>1, Least
  <2>3. first \in 1..Len(records)
    BY <2>2
  <2>4. Intact(records) = SubSeq(records, 1, first - 1)
    BY ZenonT(90), <1>2 DEF Intact
  <2> HIDE DEF first
  <2> QED
    BY <2>3, <2>4, Prefix
<1> QED
  BY <1>1, <1>2

\* Of an ordered journal recovery keeps all but a torn last record.
LEMMA IntactOrdered ==
  ASSUME NEW records \in Seq(Record), Ordered(records)
  PROVE  Intact(records) = IF Kept(records) = Len(records) THEN records
                           ELSE SubSeq(records, 1, Len(records) - 1)
<1> DEFINE torn == {i \in DOMAIN records : ~records[i].whole}
<1>1. CASE Kept(records) = Len(records)
  <2>1. torn = {}
    BY <1>1 DEF Kept, Ordered
  <2> QED
    BY <1>1, <2>1 DEF Intact
<1>2. CASE Kept(records) # Len(records)
  <2>1. torn = {Len(records)}
    BY <1>2 DEF Kept, Ordered
  <2>2. (CHOOSE i \in torn : \A j \in torn : i <= j) = Len(records)
    BY <2>1
  <2> QED
    BY <1>2, <2>1, <2>2 DEF Intact
<1> QED
  BY <1>1, <1>2

-----------------------------------------------------------------------------
(* What recover() returns. *)

\* A finished pass is the pass after its last record.
LEMMA FoundFields ==
  ASSUME snapshot \in Snapshot, NEW records \in Seq(Record), NEW torn \in BOOLEAN
  PROVE  LET p == Found(records, torn)
             q == After(records)[Len(records)] IN
         /\ p \in Pass /\ p.usable /\ p.records = records
         /\ p.sequence = q.sequence /\ p.state = q.state /\ p.replayed = q.replayed
<1> DEFINE q == After(records)[Len(records)]
           p1 == [q EXCEPT !.records = records]
           b == torn /\ q.state # NoState
<1>1. q \in Pass /\ q.usable
  BY AfterTyped
<1>2. Found(records, torn) = [p1 EXCEPT !.torn = b]
  BY DEF Found
<1>3. b \in BOOLEAN
  OBVIOUS
<1> HIDE DEF q, b
<1>4. /\ p1 \in Pass /\ p1.usable /\ p1.records = records
      /\ p1.sequence = q.sequence /\ p1.state = q.state /\ p1.replayed = q.replayed
  BY <1>1 DEF Pass
<1> HIDE DEF p1
<1>5. LET p == [p1 EXCEPT !.torn = b] IN
      /\ p \in Pass /\ p.usable /\ p.records = records
      /\ p.sequence = q.sequence /\ p.state = q.state /\ p.replayed = q.replayed
  BY <1>3, <1>4 DEF Pass
<1> QED
  BY <1>2, <1>5 DEF q

\* recover() always returns, with a well-formed result.
LEMMA RecoveriesTyped ==
  ASSUME snapshot \in Snapshot, journal \in Journal
  PROVE  Recoveries \subseteq Pass /\ Recoveries # {}
<1>1. journal.records \in Seq(Record)
  BY DEF Journal
<1>2. Intact(journal.records) \in Seq(Record) /\ <<>> \in Seq(Record)
  BY <1>1, IntactTyped
<1>3. Refused \in Pass
  BY DEF Refused, Pass, AnyState
<1>4. \A records \in Seq(Record), torn \in BOOLEAN : Found(records, torn) \in Pass
  BY FoundFields
<1> QED
  BY ZenonT(90), <1>2, <1>3, <1>4 DEF Recoveries

\* What survives is a snapshot or a record, and no older than the snapshot.
LEMMA SurvivorTyped ==
  ASSUME snapshot \in Snapshot, NEW records \in Seq(Record)
  PROVE  /\ Survivor(records) \in Snapshot
         /\ Survivor(records).sequence \in Nat /\ Survivor(records).state \in AnyState
         /\ Survivor(records).sequence >= snapshot.sequence
<1>1. Kept(records) \in 0..Len(records)
  BY DEF Kept
<1>2. Kept(records) > 0 => records[Kept(records)] \in Record
  BY <1>1
<1>3. snapshot.sequence \in Nat /\ snapshot.state \in AnyState
  BY DEF Snapshot
<1> QED
  BY <1>1, <1>2, <1>3, RecordFields DEF Survivor, Snapshot

\* What the pass over the intact records of an ordered journal returns.
LEMMA SurvivorFound ==
  ASSUME snapshot \in Snapshot, NEW records \in Seq(Record), Ordered(records),
         NEW torn \in BOOLEAN
  PROVE  LET p == Found(Intact(records), torn) IN
         /\ p \in Pass /\ p.usable /\ p.records = Intact(records)
         /\ p.sequence = Survivor(records).sequence
         /\ p.state = Survivor(records).state
         /\ p.replayed = 0 => Survivor(records) = snapshot
<1> DEFINE kept == Intact(records)
           n == Kept(records)
<1>1. n \in 0..Len(records) /\ (n # Len(records) => n = Len(records) - 1)
  BY DEF Kept
<1>2. /\ kept \in Seq(Record) /\ Len(kept) = n
      /\ \A i \in 1..n : kept[i] = records[i]
  <2>1. CASE n = Len(records)
    BY <2>1, IntactOrdered
  <2>2. CASE n # Len(records)
    BY <1>1, <2>2, IntactOrdered, Prefix
  <2> QED
    BY <2>1, <2>2
<1>3. \A i \in 1..n : records[i].whole
  BY <1>1 DEF Kept, Ordered
<1>4. Ordered(kept) /\ Kept(kept) = Len(kept)
  <2> HIDE DEF kept, n
  <2> QED
    BY <1>1, <1>2, <1>3 DEF Ordered, Kept
<1>5. LET q == After(kept)[n] IN
      IF n > 0 /\ kept[n].sequence > snapshot.sequence
      THEN /\ q.sequence = kept[n].sequence /\ q.state = kept[n].state
           /\ q.replayed > 0
      ELSE /\ q.sequence = snapshot.sequence /\ q.state = snapshot.state
           /\ q.replayed = 0
  <2> HIDE DEF kept, n
  <2> QED
    BY <1>1, <1>2, <1>4, AfterOrdered
<1>6. LET p == Found(kept, torn)
          q == After(kept)[n] IN
      /\ p \in Pass /\ p.usable /\ p.records = kept
      /\ p.sequence = q.sequence /\ p.state = q.state /\ p.replayed = q.replayed
  <2> HIDE DEF kept, n
  <2> QED
    BY <1>2, FoundFields
<1>7. n > 0 => kept[n] = records[n]
  BY <1>1, <1>2
<1>8. Survivor(records) =
        IF n > 0 /\ records[n].sequence > snapshot.sequence
        THEN [sequence |-> records[n].sequence, state |-> records[n].state]
        ELSE snapshot
  BY DEF Survivor
<1> HIDE DEF kept, n
<1>9. CASE n > 0 /\ records[n].sequence > snapshot.sequence
  <2>1. After(kept)[n].replayed > 0
    BY <1>5, <1>7, <1>9
  <2>2. After(kept)[n].replayed # 0
    BY <2>1
  <2> QED
    BY <1>5, <1>6, <1>7, <1>8, <1>9, <2>2 DEF kept
<1>10. CASE ~(n > 0 /\ records[n].sequence > snapshot.sequence)
  BY <1>5, <1>6, <1>7, <1>8, <1>10 DEF kept
<1> QED
  BY <1>9, <1>10

\* The files recovery can be trusted with: ordered records within the size limit,
\* none without a header, under a header no newer than the snapshot.
Trusted ==
  /\ snapshot \in Snapshot /\ journal \in Journal
  /\ journal.header => journal.exists
  /\ ~journal.header => journal.records = <<>>
  /\ Ordered(journal.records) /\ Len(journal.records) <= MaxJournal
  /\ journal.base <= snapshot.sequence

\* On trusted files every run of recover() returns what survives.
LEMMA Recovered ==
  ASSUME Trusted, NEW p \in Recoveries
  PROVE  /\ p.usable /\ p.records = Intact(journal.records)
         /\ p.sequence = Survivor(journal.records).sequence
         /\ p.state = Survivor(journal.records).state
         /\ p.replayed = 0 => Survivor(journal.records) = snapshot
<1> DEFINE records == journal.records
<1>1. records \in Seq(Record) /\ Ordered(records) /\ snapshot \in Snapshot
  BY DEF Trusted, Journal
<1>2. ~journal.exists \/ ~journal.header => records = <<>> /\ Intact(records) = <<>>
  <2>1. ~journal.exists \/ ~journal.header => records = <<>>
    BY DEF Trusted, Journal
  <2>2. Intact(<<>>) = <<>>
    BY DEF Intact
  <2> QED
    BY <2>1, <2>2
<1>3. ~(Len(records) > MaxJournal)
  BY <1>1, StoreAssumption DEF Trusted
<1>4. ~(journal.base > snapshot.sequence)
  BY DEF Trusted, Journal, Snapshot
<1>5. ~(Len(records) > Len(Intact(records)) + 1)
  <2>1. Kept(records) = Len(records) => Intact(records) = records
    BY <1>1, IntactOrdered
  <2>2. Kept(records) # Len(records) => Len(Intact(records)) = Len(records) - 1
    <3>1. Kept(records) # Len(records) => Len(records) - 1 \in 0..Len(records)
      BY <1>1 DEF Kept
    <3> QED
      BY <1>1, <3>1, IntactOrdered, Prefix
  <2> HIDE DEF records
  <2> QED
    BY <1>1, <2>1, <2>2
<1>6. \E torn \in BOOLEAN : p = Found(Intact(records), torn)
  BY <1>2, <1>3, <1>4, <1>5, ZenonT(90) DEF Recoveries
<1> QED
  BY <1>1, <1>6, SurvivorFound

-----------------------------------------------------------------------------
(* What the writes to the files do to what survives. *)

\* A journal without records leaves the snapshot.
LEMMA NoRecords ==
  /\ <<>> \in Seq(Record) /\ Len(<<>>) = 0 /\ Ordered(<<>>)
  /\ Kept(<<>>) = 0 /\ Survivor(<<>>) = snapshot
  BY DEF Ordered, Kept, Survivor

\* The journal of a new directory, and as rewrite_journal erases it.
LEMMA EmptyFields ==
  /\ EmptyJournal \in Journal /\ NoJournal \in Journal
  /\ EmptyJournal.exists /\ ~EmptyJournal.header
  /\ EmptyJournal.base = 0 /\ EmptyJournal.records = <<>>
  /\ ~NoJournal.exists /\ ~NoJournal.header
  /\ NoJournal.base = 0 /\ NoJournal.records = <<>>
  BY ZenonT(90), NoRecords DEF EmptyJournal, NoJournal, Journal

\* The journal with other records behind its header (append_record, truncate).
LEMMA WithRecords ==
  ASSUME NEW j \in Journal, NEW r \in Seq(Record)
  PROVE  LET k == [j EXCEPT !.records = r] IN
         /\ k \in Journal /\ k.exists = j.exists /\ k.header = j.header
         /\ k.base = j.base /\ k.records = r
  BY DEF Journal

\* The journal as rewrite_journal leaves it, with its header.
LEMMA WithHeader ==
  ASSUME NEW j \in Journal, NEW n \in Nat
  PROVE  LET k == [j EXCEPT !.header = TRUE, !.base = n] IN
         /\ k \in Journal /\ k.exists = j.exists /\ k.header
         /\ k.base = n /\ k.records = j.records
  BY ZenonT(90) DEF Journal

\* A whole record that is newer than all before it survives.
LEMMA AppendWhole ==
  ASSUME snapshot \in Snapshot, NEW records \in Seq(Record), Ordered(records),
         Kept(records) = Len(records), NEW n \in Nat, NEW v \in State,
         n > Survivor(records).sequence
  PROVE  LET after == Append(records, Whole(n, v)) IN
         /\ after \in Seq(Record) /\ Len(after) = Len(records) + 1
         /\ Ordered(after) /\ Kept(after) = Len(after)
         /\ Survivor(after) = [sequence |-> n, state |-> v]
<1> DEFINE r == Whole(n, v)
           after == Append(records, r)
<1>1. snapshot.sequence \in Nat /\ Survivor(records).sequence \in Nat
        /\ Survivor(records).sequence >= snapshot.sequence
  BY SurvivorTyped DEF Snapshot
<1>2. n \in Nat \ {0}
  BY <1>1
<1>3. r \in Record /\ r.whole /\ r.sequence = n /\ r.state = v
  BY <1>2, RecordsMade
<1> HIDE DEF r
<1>4. /\ after \in Seq(Record) /\ Len(after) = Len(records) + 1
      /\ \A i \in 1..Len(records) : after[i] = records[i]
      /\ after[Len(records) + 1] = r
  BY <1>3, Appending
<1> HIDE DEF after
<1>5. \A i \in 1..Len(records) : records[i] \in Record /\ records[i].whole
  BY DEF Kept, Ordered
<1>6. \A i \in 1..Len(records) : records[i].sequence \in Nat /\ records[i].sequence < n
  <2> SUFFICES ASSUME NEW i \in 1..Len(records)
               PROVE  records[i].sequence \in Nat /\ records[i].sequence < n
    OBVIOUS
  <2> DEFINE last == records[Len(records)]
  <2>1. Len(records) \in 1..Len(records) /\ Len(records) > 0
    OBVIOUS
  <2>2. last.sequence \in Nat /\ records[i].sequence \in Nat
    BY <1>5, <2>1, RecordFields
  <2>3. i < Len(records) => records[i].sequence < last.sequence
    BY <1>5, <2>1 DEF Ordered
  <2>4. last.sequence <= Survivor(records).sequence
    <3>1. CASE last.sequence > snapshot.sequence
      BY <2>1, <2>2, <3>1 DEF Survivor
    <3>2. CASE ~(last.sequence > snapshot.sequence)
      BY <1>1, <2>2, <3>2
    <3> QED
      BY <3>1, <3>2
  <2>5. i = Len(records) => records[i].sequence = last.sequence
    OBVIOUS
  <2> HIDE DEF last
  <2> QED
    BY <1>1, <2>2, <2>3, <2>4, <2>5
<1>7. Ordered(after)
  <2>1. \A i \in 1..(Len(after) - 1) : after[i].whole
    BY <1>4, <1>5
  <2>2. ASSUME NEW i \in 1..Len(after), NEW j \in 1..Len(after), i < j, after[j].whole
        PROVE  after[i].sequence < after[j].sequence
    <3>1. CASE j = Len(records) + 1
      BY <1>3, <1>4, <1>6, <2>2, <3>1
    <3>2. CASE j \in 1..Len(records)
      BY <1>4, <2>2, <3>2 DEF Ordered
    <3> QED
      BY <1>4, <3>1, <3>2
  <2> QED
    BY ZenonT(90), <2>1, <2>2 DEF Ordered
<1>8. Kept(after) = Len(after)
  BY <1>3, <1>4 DEF Kept
<1>9. Survivor(after) = [sequence |-> n, state |-> v]
  <2>1. Len(after) > 0 /\ after[Len(after)].sequence = n /\ after[Len(after)].state = v
    BY <1>3, <1>4
  <2>2. n > snapshot.sequence
    BY <1>1
  <2> QED
    BY <1>8, <2>1, <2>2 DEF Survivor
<1> QED
  BY <1>4, <1>7, <1>8, <1>9 DEF after, r

\* A torn record changes nothing that survives.
LEMMA AppendTorn ==
  ASSUME NEW records \in Seq(Record), Ordered(records), Kept(records) = Len(records)
  PROVE  LET after == Append(records, Torn) IN
         /\ after \in Seq(Record) /\ Len(after) = Len(records) + 1
         /\ Ordered(after) /\ Survivor(after) = Survivor(records)
<1> DEFINE after == Append(records, Torn)
<1>1. /\ after \in Seq(Record) /\ Len(after) = Len(records) + 1
      /\ \A i \in 1..Len(records) : after[i] = records[i]
      /\ after[Len(records) + 1] = Torn
  BY Appending, RecordsMade
<1> HIDE DEF after
<1>2. \A i \in 1..Len(records) : records[i].whole
  BY DEF Kept, Ordered
<1>3. Ordered(after)
  <2>1. \A i \in 1..(Len(after) - 1) : after[i].whole
    BY <1>1, <1>2
  <2>2. ASSUME NEW i \in 1..Len(after), NEW j \in 1..Len(after), i < j, after[j].whole
        PROVE  after[i].sequence < after[j].sequence
    <3>1. j \in 1..Len(records)
      BY <1>1, <2>2, RecordsMade
    <3> QED
      BY <1>1, <2>2, <3>1 DEF Ordered
  <2> QED
    BY <2>1, <2>2 DEF Ordered
<1>4. Kept(after) = Len(records)
  BY <1>1, RecordsMade DEF Kept
<1>5. Survivor(after) = Survivor(records)
  <2>1. Len(records) > 0 => after[Len(records)] = records[Len(records)]
    BY <1>1
  <2> QED
    BY <1>4, <2>1 DEF Survivor
<1> QED
  BY <1>1, <1>3, <1>5 DEF after

\* Truncating the torn tail changes nothing that survives.
LEMMA Truncated ==
  ASSUME NEW records \in Seq(Record), Ordered(records)
  PROVE  LET after == Intact(records) IN
         /\ after \in Seq(Record) /\ Len(after) <= Len(records)
         /\ Ordered(after) /\ Survivor(after) = Survivor(records)
<1>1. CASE Kept(records) = Len(records)
  BY <1>1, IntactOrdered
<1>2. CASE Kept(records) # Len(records)
  <2> DEFINE after == SubSeq(records, 1, Len(records) - 1)
  <2>1. Len(records) - 1 \in 0..Len(records) /\ Kept(records) = Len(records) - 1
    BY <1>2 DEF Kept
  <2>2. /\ after \in Seq(Record) /\ Len(after) = Len(records) - 1
        /\ \A i \in 1..Len(after) : after[i] = records[i]
    BY ZenonT(90), <2>1, Prefix
  <2>3. Intact(records) = after
    BY <1>2, IntactOrdered
  <2> HIDE DEF after
  <2>4. \A i \in 1..Len(after) : after[i].whole
    BY <2>1, <2>2 DEF Ordered
  <2>5. Ordered(after)
    BY <2>1, <2>2, <2>4 DEF Ordered
  <2>6. Kept(after) = Kept(records)
    BY <2>1, <2>2, <2>4 DEF Kept
  <2>7. Kept(records) > 0 => after[Kept(records)] = records[Kept(records)]
    BY <2>1, <2>2
  <2>8. Survivor(after) = Survivor(records)
    BY <2>6, <2>7 DEF Survivor
  <2> QED
    BY <2>1, <2>2, <2>3, <2>5, <2>8
<1> QED
  BY <1>1, <1>2

-----------------------------------------------------------------------------
(* The steps that leave the files alone. *)

\* Files that nobody touches hold what they held.
LEMMA SameFiles ==
  ASSUME UNCHANGED files
  PROVE  /\ snapshot' = snapshot /\ journal' = journal
         /\ Survivor(journal.records)' = Survivor(journal.records)
         /\ Recoveries' = Recoveries
<1>1. snapshot' = snapshot /\ journal' = journal
  BY DEF files
<1>2. \A r : Survivor(r)' = Survivor(r)
  BY <1>1 DEF Survivor
<1>3. FromSnapshot' = FromSnapshot
  BY <1>1 DEF FromSnapshot
<1>4. Recoveries' = Recoveries
  BY <1>1, <1>3 DEF Recoveries, Found, After
<1> QED
  BY <1>1, <1>2, <1>4

\* The files are trusted as long as the invariant vouches for them.
LEMMA InvTrusts ==
  ASSUME StoreInv, ~exposed
  PROVE  Trusted
  BY DEF StoreInv, Types, Calls, Sound, Trusted

\* Nothing is lost as long as the files stay and what they hold is still expected.
LEMMA SoundKept ==
  ASSUME Sound, UNCHANGED files,
         Survivor(journal.records).state \in {acked'} \cup attempts'
  PROVE  Sound'
  BY SameFiles DEF Sound

\* open() begins with what recover() returns.
LEMMA OpenKeeps == ASSUME StoreInv, Open PROVE StoreInv'
<1> USE DEF Opening, Replacing, Writing, Opened, Step
<1>1. PICK p \in Recoveries :
        /\ pass' = p
        /\ pc' = CASE ~p.usable -> "Unusable"
                   [] p.usable /\ p.torn -> "Truncate"
                   [] p.usable /\ ~p.torn ->
                        IF HeaderUsable(p) THEN "OpenForAppend" ELSE "Erase"
  BY DEF Open
<1>2. p \in Pass
  BY RecoveriesTyped DEF StoreInv, Types
<1>3. /\ pc \in {"Closed", "Unusable"}
      /\ UNCHANGED <<files, in_flight, memory, caller, exposed, crashes, failures>>
  BY DEF Open
<1>4. /\ pc' \in {"Unusable", "Truncate", "OpenForAppend", "Erase"}
      /\ pc' = "OpenForAppend" => journal.header
      /\ pc' # "Unusable" => p.usable
  BY <1>1, <1>2 DEF Pass, HeaderUsable
<1>5. Types'
  BY <1>1, <1>2, <1>3, <1>4 DEF StoreInv, Types, files, memory, caller
<1>6. Calls'
  BY <1>3, <1>4 DEF StoreInv, Calls, files, memory, caller
<1>7. ASSUME ~exposed' PROVE Sound' /\ OpeningAgrees'
  <2>1. Sound /\ Trusted /\ ~exposed
    BY <1>3, <1>7, InvTrusts DEF StoreInv
  <2>2. Sound'
    BY <1>3, <2>1, SoundKept DEF Sound, caller
  <2>3. /\ p.usable /\ p.records = Intact(journal.records)
        /\ p.sequence = Survivor(journal.records).sequence
        /\ p.state = Survivor(journal.records).state
        /\ p.replayed = 0 => Survivor(journal.records) = snapshot
    BY <2>1, Recovered
  <2>4. OpeningAgrees'
    BY <1>1, <1>3, <2>3, SameFiles DEF OpeningAgrees
  <2> QED
    BY <2>2, <2>4
<1> QED
  BY <1>4, <1>5, <1>6, <1>7 DEF StoreInv

\* open() returns what the files hold.
LEMMA FinishOpenKeeps == ASSUME StoreInv, FinishOpen PROVE StoreInv'
<1> USE DEF Opening, Replacing, Writing, Opened, Step
<1>1. journal.records \in Seq(Record) /\ pass \in Pass /\ pass.state \in AnyState
        /\ pass.sequence \in Nat /\ pass.replayed \in Nat
  BY DEF StoreInv, Types, Journal, Pass
<1>2. Refused \in Pass
  BY NoRecords DEF Refused, Pass, AnyState
<1>3. Len(journal.records) \in Nat
  BY <1>1
<1>4. Types'
  BY <1>1, <1>2, <1>3 DEF StoreInv, Types, FinishOpen, files
<1>5. Calls'
  BY DEF StoreInv, Calls, FinishOpen, files
<1>6. ASSUME ~exposed' PROVE Sound' /\ OpenAgrees'
  <2>1. ~exposed /\ Torn \notin Range(journal.records)
    BY ZenonT(90), <1>6 DEF FinishOpen, StoreInv, Types
  <2>2. Sound /\ OpeningAgrees
    BY <2>1 DEF StoreInv, FinishOpen
  <2>3. Sound'
    BY <2>2, SoundKept DEF OpeningAgrees, FinishOpen
  <2>4. Kept(journal.records) = Len(journal.records)
    <3>1. \A i \in 1..Len(journal.records) : journal.records[i] # Torn
      BY <1>1, <2>1 DEF Range
    <3>2. \A i \in 1..Len(journal.records) : journal.records[i].whole
      BY <1>1, <3>1, RecordFields
    <3> QED
      BY <1>1, <3>2 DEF Kept
  <2>5. OpenAgrees'
    BY <1>3, <2>2, <2>4, SameFiles DEF OpeningAgrees, OpenAgrees, FinishOpen
  <2> QED
    BY <2>3, <2>5
<1> QED
  BY <1>4, <1>5, <1>6 DEF StoreInv, FinishOpen

\* A failed open() leaves the store unusable until the next one.
LEMMA OpenFailsKeeps == ASSUME StoreInv, OpenFails PROVE StoreInv'
<1> USE DEF Opening, Replacing, Writing, Opened, Step
<1>1. Refused \in Pass
  BY NoRecords DEF Refused, Pass, AnyState
<1>2. Types' /\ Calls'
  BY <1>1 DEF StoreInv, Types, Calls, OpenFails, files, memory, caller
<1>3. ~exposed' => Sound'
  BY SoundKept DEF StoreInv, Sound, OpenFails, caller
<1> QED
  BY <1>2, <1>3 DEF StoreInv, OpenFails

\* The caller hands over a state, to commit it or to compact with it.
LEMMA BeginsKeeps == ASSUME StoreInv, Commit \/ \E v \in State : Compact(v) PROVE StoreInv'
<1> USE DEF Opening, Replacing, Writing, Opened, Step
<1>1. PICK v \in State : Begins(v) /\ (Commit \/ Compact(v))
  <2>1. CASE Commit
    BY <2>1, StoreAssumption DEF Commit, StoreInv, Types, State
  <2>2. CASE \E v \in State : Compact(v)
    BY <2>2 DEF Compact
  <2> QED
    BY <2>1, <2>2
<1>2. /\ pc = "Idle" /\ pc' \in {"Append", "ShutdownCompact"}
      /\ pc' = "Append" => handle /\ journal_bytes_ + 1 <= MaxJournal
      /\ UNCHANGED <<files, pass, memory, exposed, crashes, failures>>
  BY <1>1 DEF Commit, Compact
<1>3. Types'
  BY <1>1, <1>2, StoreAssumption
     DEF StoreInv, Types, Begins, State, AnyState, files, memory
<1>4. Calls'
  BY <1>1, <1>2 DEF StoreInv, Calls, Begins, files, memory
<1>5. ASSUME ~exposed' PROVE Sound' /\ OpenAgrees'
  <2>1. Sound /\ OpenAgrees
    BY <1>2, <1>5 DEF StoreInv
  <2>2. Sound'
    BY <1>1, <1>2, <2>1, SoundKept DEF Sound, Begins
  <2>3. OpenAgrees'
    BY <1>2, <2>1, SameFiles DEF OpenAgrees, memory
  <2> QED
    BY <2>2, <2>3
<1> QED
  BY <1>2, <1>3, <1>4, <1>5 DEF StoreInv

\* A state is acknowledged once the files hold it.
LEMMA AcknowledgeKeeps == ASSUME StoreInv, AcknowledgeCommit PROVE StoreInv'
<1> USE DEF Opening, Replacing, Writing, Opened, Step
<1>1. Types'
  BY DEF StoreInv, Types, AcknowledgeCommit, AnyState, files, memory
<1>2. Calls'
  BY DEF StoreInv, Calls, AcknowledgeCommit, files, memory
<1>3. ASSUME ~exposed' PROVE Sound' /\ OpenAgrees'
  <2>1. Sound /\ OpenAgrees
    BY <1>3 DEF StoreInv, AcknowledgeCommit
  <2>2. Sound'
    BY <2>1, SoundKept DEF OpenAgrees, AcknowledgeCommit
  <2>3. OpenAgrees'
    BY <2>1, SameFiles DEF OpenAgrees, AcknowledgeCommit, memory
  <2> QED
    BY <2>2, <2>3
<1> QED
  BY <1>1, <1>2, <1>3 DEF StoreInv, AcknowledgeCommit

\* A compaction whose snapshot or journal could not be written.
LEMMA CompactionFailsKeeps ==
  ASSUME StoreInv, SnapshotFails \/ JournalFails \/ CompactOpens
  PROVE  StoreInv'
<1> USE DEF Opening, Replacing, Writing, Opened, Step
<1>1. /\ UNCHANGED <<files, pass, caller, exposed>>
      /\ UNCHANGED <<state_, commit_sequence_, records_since_snapshot_, journal_bytes_>>
      /\ pc \in Writing /\ pc' \in {"Idle", "Acknowledge"}
      /\ pc' = "Acknowledge" => /\ pc \in Replacing \cup {"Compact"}
                                /\ in_flight' = in_flight
      /\ in_flight' \in {in_flight, NoState}
      /\ handle' \in BOOLEAN
      /\ handle' => handle \/ pc = "CompactOpen"
  <2>1. handle \in BOOLEAN
    BY DEF StoreInv, Types
  <2>2. CASE SnapshotFails
    BY <2>1, <2>2 DEF SnapshotFails, Compacting, memory
  <2>3. CASE JournalFails
    BY ZenonT(90), <2>3 DEF JournalFails
  <2>4. CASE CompactOpens
    BY <2>4 DEF CompactOpens
  <2> QED
    BY <2>2, <2>3, <2>4
<1>2. Types'
  BY <1>1 DEF StoreInv, Types, AnyState, files, caller
<1>3. Calls'
  BY <1>1 DEF StoreInv, Calls, files, caller
<1>4. ASSUME ~exposed' PROVE Sound' /\ OpenAgrees'
  <2>1. Sound /\ OpenAgrees
    BY <1>1, <1>4 DEF StoreInv
  <2>2. Sound'
    BY <1>1, <2>1, SoundKept DEF Sound, caller
  <2>3. OpenAgrees'
    BY <1>1, <2>1, SameFiles DEF OpenAgrees
  <2> QED
    BY <2>2, <2>3
<1> QED
  BY <1>1, <1>2, <1>3, <1>4 DEF StoreInv

\* close() forgets what is in memory.
LEMMA CloseKeeps == ASSUME StoreInv, Close PROVE StoreInv'
<1> USE DEF Opening, Replacing, Writing, Opened, Step
<1>1. Refused \in Pass
  BY NoRecords DEF Refused, Pass, AnyState
<1>2. Types' /\ Calls'
  BY ZenonT(90), <1>1 DEF StoreInv, Types, Calls, Close, Forgets, AnyState, files, caller
<1>3. ~exposed' => Sound'
  BY SoundKept DEF StoreInv, Sound, Close, caller
<1> QED
  BY <1>2, <1>3 DEF StoreInv, Close, Forgets

-----------------------------------------------------------------------------
(* The steps that write to the files. *)

\* Truncating a torn tail loses nothing.
LEMMA TruncateKeeps == ASSUME StoreInv, TruncateTail PROVE StoreInv'
<1> USE DEF Opening, Replacing, Writing, Opened, Step
<1>1. journal \in Journal /\ pass.records \in Seq(Record)
  BY DEF StoreInv, Types, Pass
<1>2. /\ journal' \in Journal /\ (journal'.header => journal'.exists)
      /\ ~journal'.header => journal'.records = <<>>
      /\ journal.header => journal'.records = pass.records /\ journal'.base = journal.base
      /\ ~journal.header => journal'.records = <<>> /\ journal'.base = 0
  <2>1. CASE journal.header
    <3>1. journal' = [journal EXCEPT !.records = pass.records] /\ journal.exists
      BY <2>1 DEF TruncateTail, StoreInv, Calls
    <3>2. /\ journal' \in Journal /\ journal'.exists = journal.exists
          /\ journal'.header = journal.header
          /\ journal'.base = journal.base /\ journal'.records = pass.records
      BY ZenonT(90), <1>1, <3>1, WithRecords
    <3> QED
      BY <2>1, <3>1, <3>2
  <2>2. CASE ~journal.header
    <3>1. journal' = EmptyJournal
      BY <2>2 DEF TruncateTail
    <3> QED
      BY <2>2, <3>1, EmptyFields
  <2> QED
    BY <2>1, <2>2
<1>3. Types'
  BY <1>2 DEF StoreInv, Types, TruncateTail, memory, caller
<1>4. Calls'
  BY <1>2 DEF StoreInv, Calls, TruncateTail, memory, caller
<1>5. ASSUME ~exposed' PROVE Sound' /\ OpeningAgrees'
  <2>1. Sound /\ OpeningAgrees /\ snapshot' = snapshot
    BY <1>5 DEF StoreInv, TruncateTail
  <2>2. journal.records \in Seq(Record) /\ Ordered(journal.records)
    BY <1>1, <2>1 DEF Journal, Sound
  <2>3. journal'.records = Intact(journal.records)
    <3>1. journal.records = <<>> => Intact(journal.records) = <<>>
      BY DEF Intact
    <3> QED
      BY <1>2, <2>1, <3>1 DEF OpeningAgrees, TruncateTail, StoreInv, Calls
  <2>4. /\ Len(journal'.records) <= Len(journal.records) /\ Ordered(journal'.records)
        /\ Survivor(journal'.records) = Survivor(journal.records)
        /\ journal'.records \in Seq(Record)
    BY <2>2, <2>3, Truncated
  <2>5. Survivor(journal.records)' = Survivor(journal'.records)
    BY <2>1 DEF Survivor
  <2>6. Sound'
    <3>1. Len(journal'.records) <= MaxJournal
      BY <2>1, <2>2, <2>4, StoreAssumption DEF Sound
    <3>2. journal'.base <= snapshot'.sequence
      BY <1>1, <1>2, <2>1 DEF Sound, StoreInv, Types, Snapshot
    <3>3. Survivor(journal.records)'.state \in {acked'} \cup attempts'
      BY <2>1, <2>4, <2>5 DEF Sound, TruncateTail, caller
    <3> QED
      BY <2>4, <3>1, <3>2, <3>3 DEF Sound
  <2>7. OpeningAgrees'
    BY <2>1, <2>4, <2>5 DEF OpeningAgrees, TruncateTail
  <2> QED
    BY <2>6, <2>7
<1> QED
  BY <1>3, <1>4, <1>5 DEF StoreInv, TruncateTail

\* Erasing the journal loses nothing when no record of it was replayed; otherwise
\* the state is exposed from here on.
LEMMA OpenErasesKeeps == ASSUME StoreInv, OpenErases PROVE StoreInv'
<1> USE DEF Opening, Replacing, Writing, Opened, Step
<1>1. pass.replayed \in Nat /\ exposed \in BOOLEAN
  BY DEF StoreInv, Types, Pass
<1>2. Types'
  BY ZenonT(90), <1>1, EmptyFields DEF StoreInv, Types, OpenErases, memory, caller
<1>3. Calls'
  BY EmptyFields DEF StoreInv, Calls, OpenErases, memory, caller
<1>4. ASSUME ~exposed' PROVE Sound' /\ OpeningAgrees'
  <2>1. ~exposed /\ pass.replayed = 0
    <3>1. ~exposed /\ ~(pass.replayed > 0)
      BY <1>4, ZenonT(90) DEF OpenErases
    <3> QED
      BY <1>1, <3>1
  <2>2. Sound /\ OpeningAgrees /\ snapshot' = snapshot /\ journal'.records = <<>>
    BY <2>1, EmptyFields DEF StoreInv, OpenErases
  <2>3. Survivor(journal.records) = snapshot
    BY ZenonT(90), <2>1, <2>2 DEF OpeningAgrees
  <2>4. Survivor(journal.records)' = snapshot
    BY ZenonT(90), <2>2, NoRecords DEF Survivor, Kept
  <2>5. Sound'
    <3>1. Len(journal'.records) <= MaxJournal
      BY <2>2, NoRecords, StoreAssumption
    <3>2. journal'.base <= snapshot'.sequence
      <4>1. journal'.base = 0
        BY EmptyFields DEF OpenErases
      <4>2. snapshot'.sequence \in Nat
        BY <2>2 DEF StoreInv, Types, Snapshot
      <4> QED
        BY <4>1, <4>2
    <3>3. snapshot.state \in {acked'} \cup attempts'
      BY ZenonT(90), <2>2, <2>3 DEF Sound, OpenErases, caller
    <3> QED
      BY ZenonT(90), <2>2, <2>4, <3>1, <3>2, <3>3, NoRecords DEF Sound
  <2>6. OpeningAgrees'
    BY <2>2, <2>3, <2>4 DEF OpeningAgrees, OpenErases
  <2> QED
    BY <2>5, <2>6
<1> QED
  BY <1>2, <1>3, <1>4 DEF StoreInv, OpenErases

\* The new journal starts from what the snapshot holds.
LEMMA OpenWritesHeaderKeeps == ASSUME StoreInv, OpenWritesHeader PROVE StoreInv'
<1> USE DEF Opening, Replacing, Writing, Opened, Step
<1> DEFINE base == IF snapshot # NoSnapshot THEN pass.sequence ELSE 0
<1>1. base \in Nat /\ journal \in Journal /\ journal = EmptyJournal
  BY DEF StoreInv, Types, Calls, Pass, OpenWritesHeader
<1>2. journal' = [journal EXCEPT !.header = TRUE, !.base = base]
  BY DEF OpenWritesHeader
<1>3. /\ journal' \in Journal /\ journal'.exists /\ journal'.header
      /\ journal'.base = base /\ journal'.records = journal.records
      /\ journal.records = <<>>
  <2> HIDE DEF base
  <2>1. /\ journal' \in Journal /\ journal'.exists = journal.exists /\ journal'.header
        /\ journal'.base = base /\ journal'.records = journal.records
    BY <1>1, <1>2, WithHeader, ZenonT(90)
  <2> QED
    BY <1>1, <2>1, EmptyFields
<1>4. Types'
  BY <1>3 DEF StoreInv, Types, OpenWritesHeader, memory, caller
<1>5. Calls'
  BY <1>3 DEF StoreInv, Calls, OpenWritesHeader, memory, caller
<1>6. ASSUME ~exposed' PROVE Sound' /\ OpeningAgrees'
  <2>1. Sound /\ OpeningAgrees /\ snapshot' = snapshot
    BY <1>6 DEF StoreInv, OpenWritesHeader
  <2>2. Survivor(journal.records)' = snapshot /\ Survivor(journal.records) = snapshot
    BY <1>3, <2>1, NoRecords DEF Survivor, Kept
  <2>3. base <= snapshot.sequence
    BY <2>1, <2>2 DEF OpeningAgrees, StoreInv, Types, Snapshot
  <2>4. Sound'
    BY <1>3, <2>1, <2>2, <2>3 DEF Sound, OpenWritesHeader, caller
  <2>5. OpeningAgrees'
    BY <2>1, <2>2 DEF OpeningAgrees, OpenWritesHeader
  <2> QED
    BY <2>4, <2>5
<1> QED
  BY <1>4, <1>5, <1>6 DEF StoreInv, OpenWritesHeader

\* What appending to the journal of an open store does.
LEMMA AppendedFields ==
  ASSUME StoreInv, pc = "Append"
  PROVE  /\ in_flight \in attempts /\ in_flight \in State
         /\ journal \in Journal /\ journal.records \in Seq(Record)
         /\ journal.header /\ journal.exists /\ commit_sequence_ \in Nat
         /\ Whole(RecordSequence, in_flight) \in Record
         /\ Appended \in Journal /\ Appended.header /\ Appended.exists
         /\ Appended.base = journal.base
         /\ Appended.records = Append(journal.records, Whole(RecordSequence, in_flight))
         /\ ~exposed =>
              /\ Ordered(Appended.records) /\ Kept(Appended.records) = Len(Appended.records)
              /\ Len(Appended.records) = Len(journal.records) + 1
              /\ Survivor(Appended.records) =
                   [sequence |-> RecordSequence, state |-> in_flight]
<1>1. /\ in_flight \in attempts /\ attempts \subseteq State /\ handle
      /\ journal \in Journal /\ commit_sequence_ \in Nat
  BY DEF StoreInv, Types, Calls, Writing
<1>2. journal.header /\ journal.exists /\ journal.records \in Seq(Record)
  BY <1>1 DEF StoreInv, Calls, Journal
<1>3. in_flight \in State /\ RecordSequence \in Nat \ {0}
  BY <1>1 DEF RecordSequence
<1>4. Whole(RecordSequence, in_flight) \in Record
  BY <1>3, RecordsMade
<1>5. Append(journal.records, Whole(RecordSequence, in_flight)) \in Seq(Record)
  BY <1>2, <1>4
<1>6. /\ Appended \in Journal /\ Appended.header = journal.header
      /\ Appended.exists = journal.exists /\ Appended.base = journal.base
      /\ Appended.records = Append(journal.records, Whole(RecordSequence, in_flight))
  <2> DEFINE after == Append(journal.records, Whole(RecordSequence, in_flight))
  <2>1. Appended = [journal EXCEPT !.records = after]
    BY DEF Appended
  <2>2. after \in Seq(Record)
    BY <1>5
  <2> HIDE DEF after
  <2>3. /\ Appended \in Journal /\ Appended.header = journal.header
        /\ Appended.exists = journal.exists /\ Appended.base = journal.base
        /\ Appended.records = after
    BY ZenonT(90), <1>1, <2>1, <2>2, WithRecords
  <2> QED
    BY <2>3 DEF after
<1>7. ASSUME ~exposed
      PROVE  /\ Ordered(Appended.records) /\ Kept(Appended.records) = Len(Appended.records)
             /\ Len(Appended.records) = Len(journal.records) + 1
             /\ Survivor(Appended.records) =
                   [sequence |-> RecordSequence, state |-> in_flight]
  <2>1. Sound /\ OpenAgrees /\ snapshot \in Snapshot
    BY <1>7 DEF StoreInv, Types, Opened, Writing
  <2>2. /\ Ordered(journal.records) /\ Kept(journal.records) = Len(journal.records)
        /\ RecordSequence > Survivor(journal.records).sequence
    BY <1>1, <2>1 DEF Sound, OpenAgrees, RecordSequence
  <2> QED
    BY <1>2, <1>3, <1>6, <2>1, <2>2, AppendWhole
<1> QED
  BY <1>1, <1>2, <1>3, <1>4, <1>6, <1>7

\* One more record, and one more unit in the count of bytes.
LEMMA OneMoreFits ==
  ASSUME NEW n \in Nat, NEW bytes \in Nat, NEW max \in Nat, n <= bytes, bytes + 1 <= max
  PROVE  n + 1 <= max /\ n + 1 <= bytes + 1
OBVIOUS

\* A record that reached the journal is what survives.
LEMMA AppendRecordKeeps == ASSUME StoreInv, AppendRecord PROVE StoreInv'
<1> USE DEF Opening, Replacing, Writing, Opened, Step
<1>1. pc = "Append" /\ journal' = Appended /\ snapshot' = snapshot
        /\ pc' \in {"Compact", "Acknowledge"}
  BY ZenonT(90) DEF AppendRecord
<1>2. Types'
  BY <1>1, AppendedFields
     DEF StoreInv, Types, AppendRecord, RecordSequence, caller
<1>3. Calls'
  BY <1>1, AppendedFields DEF StoreInv, Calls, AppendRecord, caller
<1>4. ASSUME ~exposed' PROVE Sound' /\ OpenAgrees'
  <2>1. Sound /\ OpenAgrees /\ ~exposed
    BY <1>1, <1>4 DEF StoreInv, AppendRecord
  <2>2. /\ Ordered(journal'.records) /\ Kept(journal'.records) = Len(journal'.records)
        /\ Len(journal'.records) = Len(journal.records) + 1
        /\ Survivor(journal'.records) =
             [sequence |-> RecordSequence, state |-> in_flight]
        /\ journal'.base = journal.base /\ in_flight \in attempts
        /\ Len(journal.records) \in Nat
    BY <1>1, <2>1, AppendedFields
  <2>3. Survivor(journal.records)' = Survivor(journal'.records)
    BY ZenonT(90), <1>1 DEF Survivor
  <2>4. Len(journal'.records) <= MaxJournal /\ Len(journal'.records) <= journal_bytes_'
    <3>1. /\ Len(journal.records) <= journal_bytes_ /\ journal_bytes_ + 1 <= MaxJournal
          /\ journal_bytes_' = journal_bytes_ + 1
      BY ZenonT(90), <1>1, <2>1 DEF OpenAgrees, AppendRecord
    <3>2. journal_bytes_ \in Nat /\ MaxJournal \in Nat
      BY ZenonT(90), StoreAssumption DEF StoreInv, Types
    <3> QED
      BY ZenonT(90), <2>2, <3>1, <3>2, OneMoreFits
  <2>5. Sound'
    <3>1. acked' = acked /\ attempts' = attempts
      BY ZenonT(90) DEF AppendRecord, caller
    <3>2. (Survivor(journal.records)').state = in_flight
      <4> DEFINE kept == [sequence |-> RecordSequence, state |-> in_flight]
      <4>1. Survivor(journal.records)' = kept
        BY ZenonT(90), <2>2, <2>3
      <4>2. kept.state = in_flight
        BY ZenonT(90)
      <4> HIDE DEF kept
      <4> QED
        BY ZenonT(90), <4>1, <4>2
    <3>3. (Survivor(journal.records)').state \in {acked'} \cup attempts'
      BY ZenonT(90), <2>2, <3>1, <3>2
    <3>4. journal'.base <= snapshot'.sequence
      BY ZenonT(90), <1>1, <2>1, <2>2 DEF Sound
    <3> QED
      BY ZenonT(90), <2>2, <2>4, <3>3, <3>4 DEF Sound
  <2>6. OpenAgrees'
    BY <1>1, <2>2, <2>3, <2>4 DEF OpenAgrees, AppendRecord
  <2> QED
    BY <2>5, <2>6
<1> QED
  BY <1>1, <1>2, <1>3, <1>4 DEF StoreInv

\* What a write that was cut short leaves is still a journal, and as long as the
\* files were trusted, recovery finds the last state or the one being written.
LEMMA CutShortFields ==
  ASSUME StoreInv, pc = "Append", NEW j \in CutShort
  PROVE  /\ j \in Journal /\ j.header /\ j.exists /\ j.base = journal.base
         /\ ~exposed =>
              /\ Ordered(j.records) /\ Len(j.records) <= MaxJournal
              /\ Survivor(j.records).state \in {Survivor(journal.records).state, in_flight}
<1> DEFINE torn == [journal EXCEPT !.records = Append(@, Torn)]
           after == Append(journal.records, Torn)
<1>1. journal \in Journal /\ journal.records \in Seq(Record) /\ Len(journal.records) \in Nat
        /\ journal.header /\ journal.exists
  BY AppendedFields
<1>2. ASSUME ~exposed
      PROVE  /\ Sound /\ Ordered(journal.records)
             /\ Kept(journal.records) = Len(journal.records)
             /\ Len(journal.records) + 1 <= MaxJournal
  <2>1. Sound /\ OpenAgrees /\ journal_bytes_ \in Nat
    BY <1>2 DEF StoreInv, Types, Opened, Writing
  <2> QED
    BY <1>1, <2>1, StoreAssumption DEF Sound, OpenAgrees
<1>3. CASE j = journal
  BY <1>1, <1>2, <1>3 DEF Sound
<1>4. CASE j = torn
  <2>1. after \in Seq(Record)
    BY <1>1, RecordsMade
  <2>2. /\ torn \in Journal /\ torn.header = journal.header
        /\ torn.exists = journal.exists /\ torn.base = journal.base
        /\ torn.records = after
    <3> HIDE DEF after
    <3>1. torn = [journal EXCEPT !.records = after]
      BY DEF after
    <3> HIDE DEF torn
    <3> QED
      BY ZenonT(90), <1>1, <2>1, <3>1, WithRecords
  <2>3. ~exposed => /\ Ordered(after) /\ Len(after) = Len(journal.records) + 1
                    /\ Survivor(after) = Survivor(journal.records)
    BY <1>1, <1>2, AppendTorn
  <2> HIDE DEF torn, after
  <2> QED
    BY <1>1, <1>2, <1>4, <2>2, <2>3
<1>5. CASE j = Appended
  <2>1. ~exposed => Survivor(Appended.records).state = in_flight
    BY AppendedFields
  <2> QED
    BY <1>1, <1>2, <1>5, <2>1, AppendedFields
<1> QED
  BY <1>3, <1>4, <1>5 DEF CutShort

\* A failed append either left nothing behind, or exposes the journal.
LEMMA AppendFailsKeeps == ASSUME StoreInv, AppendFails PROVE StoreInv'
<1> USE DEF Opening, Replacing, Writing, Opened, Step
<1>1. pc = "Append" /\ journal' \in CutShort /\ snapshot' = snapshot /\ pc' = "Idle"
  BY DEF AppendFails
<1>2. journal' \in Journal /\ journal'.header /\ journal'.exists
  BY <1>1, CutShortFields
<1>3. exposed' \in BOOLEAN
  BY DEF AppendFails
<1>4. Types'
  BY ZenonT(90), <1>1, <1>2, <1>3 DEF StoreInv, Types, AppendFails, AnyState, memory, caller
<1>5. Calls'
  BY <1>1, <1>2 DEF StoreInv, Calls, AppendFails, memory, caller
<1>6. ASSUME ~exposed' PROVE Sound' /\ OpenAgrees'
  <2>1. ~exposed /\ journal' = journal
    BY <1>6, ZenonT(90) DEF AppendFails
  <2>2. Sound /\ OpenAgrees /\ UNCHANGED files
    BY ZenonT(90), <1>1, <2>1 DEF StoreInv, files
  <2>3. Sound'
    BY <2>2, SoundKept DEF Sound, AppendFails, caller
  <2>4. OpenAgrees'
    BY <1>1, <2>2, SameFiles DEF OpenAgrees, AppendFails, memory
  <2> QED
    BY <2>3, <2>4
<1> QED
  BY <1>1, <1>4, <1>5, <1>6 DEF StoreInv

\* Renaming the new snapshot into place makes it what survives: it is newer than
\* every record.
LEMMA RenameKeeps == ASSUME StoreInv, RenameSnapshot PROVE StoreInv'
<1> USE DEF Opening, Replacing, Writing, Opened, Step
<1>1. /\ pc \in {"Compact", "ShutdownCompact"} /\ pc' = "CompactErase"
      /\ snapshot' = [sequence |-> SnapshotSequence, state |-> in_flight]
      /\ journal' = journal /\ in_flight' = in_flight /\ exposed' = exposed
      /\ commit_sequence_' = SnapshotSequence
  BY ZenonT(90) DEF RenameSnapshot, Compacting
<1>2. /\ in_flight \in attempts /\ attempts \subseteq State
      /\ commit_sequence_ \in Nat /\ SnapshotSequence = commit_sequence_ + 1
  BY <1>1 DEF StoreInv, Types, Calls, SnapshotSequence
<1>3. snapshot' \in Snapshot /\ snapshot'.sequence = SnapshotSequence
        /\ snapshot'.state = in_flight
  BY <1>1, <1>2 DEF Snapshot, AnyState
<1>4. Types'
  BY <1>1, <1>2, <1>3 DEF StoreInv, Types, RenameSnapshot, caller
<1>5. Calls'
  BY <1>1, <1>2, <1>3 DEF StoreInv, Calls, RenameSnapshot, caller
<1>6. ASSUME ~exposed' PROVE Sound' /\ OpenAgrees'
  <2> DEFINE records == journal.records
  <2>1. Sound /\ OpenAgrees /\ snapshot \in Snapshot /\ records \in Seq(Record)
    BY <1>1, <1>6 DEF StoreInv, Types, Journal
  <2>2. Kept(records) = Len(records) /\ Survivor(records).sequence = commit_sequence_
    BY <2>1 DEF OpenAgrees
  <2>3. snapshot.sequence <= commit_sequence_ /\ snapshot.sequence \in Nat
    BY <2>1, <2>2, SurvivorTyped DEF Snapshot
  <2>4. Len(records) > 0 => ~(records[Len(records)].sequence > SnapshotSequence)
    <3> SUFFICES ASSUME Len(records) > 0
                 PROVE  ~(records[Len(records)].sequence > SnapshotSequence)
      OBVIOUS
    <3>1. records[Len(records)].sequence \in Nat
      BY <2>1, RecordFields
    <3>2. CASE records[Len(records)].sequence > snapshot.sequence
      <4>1. Survivor(records).sequence = records[Len(records)].sequence
        BY <2>2, <3>2 DEF Survivor
      <4> HIDE DEF records
      <4> QED
        BY <1>2, <2>2, <3>1, <4>1
    <3>3. CASE ~(records[Len(records)].sequence > snapshot.sequence)
      <4> HIDE DEF records
      <4> QED
        BY <1>2, <2>3, <3>1, <3>3
    <3> QED
      BY <3>2, <3>3
  <2>5. Survivor(journal.records)' = snapshot'
    BY <1>1, <1>3, <2>2, <2>4 DEF Survivor
  <2>6. journal'.base <= snapshot'.sequence
    <3>1. journal.base \in Nat /\ journal.base <= snapshot.sequence
      BY ZenonT(90), <2>1 DEF Sound, StoreInv, Types, Journal
    <3> QED
      BY <1>1, <1>2, <1>3, <2>3, <3>1
  <2>7. Sound'
    BY ZenonT(90), <1>1, <1>2, <1>3, <2>1, <2>5, <2>6 DEF Sound, RenameSnapshot, caller
  <2>8. OpenAgrees'
    BY ZenonT(90), <1>1, <1>3, <2>1, <2>5 DEF OpenAgrees, RenameSnapshot
  <2> QED
    BY <2>7, <2>8
<1> QED
  BY <1>1, <1>4, <1>5, <1>6 DEF StoreInv

\* Once the snapshot holds the state, erasing the journal ends every exposure.
LEMMA CompactErasesKeeps == ASSUME StoreInv, CompactErases PROVE StoreInv'
<1> USE DEF Opening, Replacing, Writing, Opened, Step
<1>1. /\ pc = "CompactErase" /\ pc' = "CompactHeader" /\ snapshot' = snapshot
      /\ journal' = EmptyJournal /\ journal'.records = <<>> /\ journal'.base = 0
      /\ UNCHANGED <<in_flight, commit_sequence_, journal_bytes_, acked, attempts>>
  BY EmptyFields DEF CompactErases, caller
<1>2. Types'
  BY ZenonT(90), EmptyFields DEF StoreInv, Types, CompactErases, caller
<1>3. Calls'
  BY ZenonT(90), EmptyFields DEF StoreInv, Calls, CompactErases, caller
<1>4. Survivor(journal.records)' = snapshot /\ Kept(journal.records)' = 0
  BY ZenonT(90), <1>1, NoRecords DEF Survivor, Kept
<1>5. /\ snapshot.sequence = commit_sequence_ /\ snapshot.state = in_flight
      /\ in_flight \in attempts /\ snapshot.sequence \in Nat
      /\ journal_bytes_ \in Nat
  BY ZenonT(90), <1>1 DEF StoreInv, Types, Calls, Snapshot
<1>6. Sound'
  BY <1>1, <1>4, <1>5, NoRecords, StoreAssumption DEF Sound
<1>7. OpenAgrees'
  BY <1>1, <1>4, <1>5, NoRecords DEF OpenAgrees
<1> QED
  BY ZenonT(90), <1>1, <1>2, <1>3, <1>6, <1>7 DEF StoreInv

\* The header of the new journal names the snapshot.
LEMMA CompactWritesHeaderKeeps ==
  ASSUME StoreInv, CompactWritesHeader PROVE StoreInv'
<1> USE DEF Opening, Replacing, Writing, Opened, Step
<1>1. /\ pc = "CompactHeader" /\ pc' = "CompactOpen" /\ snapshot' = snapshot
      /\ journal' = [journal EXCEPT !.header = TRUE, !.base = commit_sequence_]
      /\ UNCHANGED <<in_flight, commit_sequence_, acked, attempts, exposed, handle>>
      /\ journal_bytes_' = 0
  BY DEF CompactWritesHeader, caller
<1>2. journal \in Journal /\ commit_sequence_ \in Nat /\ journal.records = <<>>
        /\ ~exposed /\ ~handle
  BY <1>1 DEF StoreInv, Types, Calls
<1>3. /\ journal' \in Journal /\ journal'.header /\ journal'.exists = journal.exists
      /\ journal'.base = commit_sequence_ /\ journal'.records = <<>>
  BY <1>1, <1>2, WithHeader, ZenonT(90)
<1>4. journal.exists
  BY <1>1 DEF StoreInv, Calls
<1>5. Types'
  BY <1>3 DEF StoreInv, Types, CompactWritesHeader, caller
<1>6. Calls'
  BY ZenonT(90), <1>1, <1>2, <1>3, <1>4 DEF StoreInv, Calls
<1>7. Survivor(journal.records)' = snapshot /\ Kept(journal.records)' = 0
  BY <1>1, <1>3, NoRecords DEF Survivor, Kept
<1>8. /\ snapshot.sequence = commit_sequence_ /\ snapshot.state = in_flight
      /\ in_flight \in attempts
  BY <1>1 DEF StoreInv, Calls
<1>9. Sound' /\ OpenAgrees'
  BY <1>1, <1>2, <1>3, <1>7, <1>8, NoRecords, StoreAssumption DEF Sound, OpenAgrees
<1> QED
  BY <1>1, <1>5, <1>6, <1>9 DEF StoreInv

\* A kill leaves the files as they are, or a record cut short.
LEMMA CrashKeeps == ASSUME StoreInv, Crash PROVE StoreInv'
<1> USE DEF Opening, Replacing, Writing, Opened, Step
<1>1. Refused \in Pass
  BY NoRecords DEF Refused, Pass, AnyState
<1>2. /\ journal' \in Journal /\ snapshot' = snapshot
      /\ journal'.header => journal'.exists
      /\ ~journal'.header => journal'.records = <<>>
  <2>1. CASE pc = "Append"
    BY ZenonT(90), <2>1, CutShortFields DEF Crash
  <2>2. CASE pc # "Append"
    BY <2>2 DEF Crash, StoreInv, Types, Calls
  <2> QED
    BY <2>1, <2>2
<1>3. Types' /\ Calls'
  BY ZenonT(90), <1>1, <1>2 DEF StoreInv, Types, Calls, Crash, Forgets, AnyState, caller
<1>4. ASSUME ~exposed' PROVE Sound'
  <2>1. Sound /\ ~exposed
    BY ZenonT(90), <1>4 DEF StoreInv, Crash
  <2>2. CASE pc = "Append"
    <3>1. /\ Ordered(journal'.records) /\ Len(journal'.records) <= MaxJournal
          /\ journal'.base = journal.base
          /\ Survivor(journal'.records).state \in
               {Survivor(journal.records).state, in_flight}
      BY ZenonT(90), <2>1, <2>2, CutShortFields DEF Crash
    <3>2. Survivor(journal.records)' = Survivor(journal'.records)
      BY ZenonT(90), <1>2 DEF Survivor
    <3>3. in_flight \in attempts /\ UNCHANGED <<acked, attempts>>
      BY ZenonT(90), <2>2 DEF StoreInv, Calls, Crash, caller
    <3> QED
      BY <1>2, <2>1, <3>1, <3>2, <3>3 DEF Sound
  <2>3. CASE pc # "Append"
    BY <1>2, <2>1, <2>3, SoundKept DEF Sound, Crash, caller, files
  <2> QED
    BY <2>2, <2>3
<1> QED
  BY <1>3, <1>4 DEF StoreInv, Crash, Forgets

-----------------------------------------------------------------------------
(* The theorems. *)

\* A new directory satisfies the invariant.
LEMMA StoreInitially == Init => StoreInv
<1> SUFFICES ASSUME Init PROVE StoreInv
  BY ZenonT(90)
<1> USE DEF Opening, Replacing, Writing, Opened, Step
<1>1. Refused \in Pass
  BY NoRecords DEF Refused, Pass, AnyState
<1>2. snapshot \in Snapshot /\ snapshot.sequence = 0 /\ snapshot.state = NoState
  BY DEF Init, NoSnapshot, Snapshot, AnyState
<1>3. Types
  <2>1. snapshot \in Snapshot /\ journal \in Journal /\ pass \in Pass
    BY <1>1, <1>2, EmptyFields DEF Init
  <2>2. /\ pc \in Step /\ in_flight \in AnyState /\ state_ \in AnyState
        /\ acked \in AnyState /\ attempts \subseteq State
    BY DEF Init, AnyState
  <2>3. handle \in BOOLEAN /\ exposed \in BOOLEAN
    BY ZenonT(90) DEF Init
  <2>4. /\ commit_sequence_ \in Nat /\ records_since_snapshot_ \in Nat
        /\ journal_bytes_ \in Nat /\ commits \in 0..MaxCommits
    BY StoreAssumption DEF Init
  <2> QED
    BY ZenonT(90), <2>1, <2>2, <2>3, <2>4 DEF Types
<1>4. Calls
  BY EmptyFields DEF Init, Calls
<1>5. Sound
  <2>1. journal.records = <<>> /\ journal.base = 0 /\ acked = NoState
    BY EmptyFields DEF Init
  <2> QED
    BY <1>2, <2>1, NoRecords, StoreAssumption DEF Sound
<1> QED
  BY <1>3, <1>4, <1>5 DEF Init, StoreInv

\* Every step keeps the invariant.
LEMMA StoreStep == StoreInv /\ [Next]_vars => StoreInv'
<1> SUFFICES ASSUME StoreInv, [Next]_vars PROVE StoreInv'
  OBVIOUS
<1>1. CASE UNCHANGED vars
  <2>1. UNCHANGED files
    BY ZenonT(90), <1>1 DEF vars
  <2>2. Types' /\ Calls'
    BY <1>1 DEF StoreInv, Types, Calls, vars, files, memory, caller
  <2>3. ~exposed' => Sound'
    BY ZenonT(90), <1>1, <2>1, SoundKept DEF StoreInv, Sound, vars, caller
  <2>4. OpeningAgrees => OpeningAgrees'
    BY ZenonT(90), <1>1, <2>1, SameFiles DEF OpeningAgrees, vars
  <2>5. OpenAgrees => OpenAgrees'
    BY <1>1, <2>1, SameFiles DEF OpenAgrees, vars, memory
  <2> QED
    BY <1>1, <2>2, <2>3, <2>4, <2>5 DEF StoreInv, vars
<1>2. CASE \E v \in State : v \in attempts \cup {acked} /\ Compact(v)
  BY <1>2, BeginsKeeps
<1> QED
  BY ZenonT(90), <1>1, <1>2, OpenKeeps, TruncateKeeps, OpenErasesKeeps, OpenWritesHeaderKeeps,
     FinishOpenKeeps, OpenFailsKeeps, BeginsKeeps, AppendRecordKeeps, AppendFailsKeeps,
     AcknowledgeKeeps, RenameKeeps, CompactionFailsKeeps, CompactErasesKeeps,
     CompactWritesHeaderKeeps, CloseKeeps, CrashKeeps
     DEF Next

\* The invariant that ties the files, the memory of the store and what its caller
\* was told holds always, for any thresholds and any number of commits, kills and
\* I/O errors (open, commit, compact, recover).
THEOREM StoreCorrect == Spec => []StoreInv
  BY StoreInitially, StoreStep, PTL DEF Spec

\* Files, call state and history stay well formed, and no record is ever appended
\* to a journal that has no header (append_record, rewrite_journal).
THEOREM FilesWellFormed == Spec => []TypeOK
<1>1. StoreInv => TypeOK
  <2> SUFFICES ASSUME StoreInv PROVE TypeOK
    OBVIOUS
  <2>1. journal.records \in Seq(Record) /\ snapshot.state \in AnyState
          /\ snapshot.sequence \in Nat
          /\ journal.exists \in BOOLEAN /\ journal.header \in BOOLEAN /\ journal.base \in Nat
    BY DEF StoreInv, Types, Journal, Snapshot
  <2>2. ASSUME NEW r \in Range(journal.records)
        PROVE  r \in {Torn} \cup {Whole(n, v) : n \in {r.sequence} \ {0}, v \in State}
    <3>1. r \in Record
      BY <2>1, <2>2 DEF Range
    <3>2. CASE ~r.whole
      BY <3>1, <3>2, RecordFields
    <3>3. CASE r.whole
      <4>1. r = Whole(r.sequence, r.state) /\ r.sequence \in {r.sequence} \ {0}
              /\ r.state \in State
        BY <3>1, <3>3, RecordFields
      <4> QED
        BY <4>1
    <3> QED
      BY <3>2, <3>3
  <2>3. /\ in_flight \in AnyState /\ state_ \in AnyState /\ acked \in AnyState
        /\ attempts \subseteq State /\ commits \in 0..MaxCommits
        /\ handle \in BOOLEAN /\ exposed \in BOOLEAN
        /\ ~journal.header => journal.records = <<>>
    BY ZenonT(90) DEF StoreInv, Types, Calls
  <2>4. AnyState = State \cup {NoState}
    BY ZenonT(90) DEF AnyState
  <2> QED
    BY <2>1, <2>2, <2>3, <2>4 DEF TypeOK
<1> QED
  BY <1>1, StoreCorrect, PTL

\* Whatever step a kill interrupts, opening the store returns the state last
\* acknowledged or one whose commit was begun after it, until a failed write or a
\* repair that discards replayed records (recover, append_record, compact,
\* rewrite_journal).
THEOREM AcknowledgedIsRecovered == Spec => []RecoversAcknowledged
<1>1. StoreInv => RecoversAcknowledged
  BY ZenonT(90), InvTrusts, Recovered DEF RecoversAcknowledged, StoreInv, Sound
<1> QED
  BY <1>1, StoreCorrect, PTL

\* While the store is open the files and commit_sequence_ agree, so the next record
\* is newer than all that recovery finds and is never skipped (commit, recover).
THEOREM SequencesAgree == Spec => []SequenceIsDurable
<1>1. StoreInv => SequenceIsDurable
  BY ZenonT(90), InvTrusts, Recovered DEF SequenceIsDurable, StoreInv, OpenAgrees, Opened
<1> QED
  BY <1>1, StoreCorrect, PTL

-----------------------------------------------------------------------------
(* The store implements the durable cell. *)

\* What the cell holds: what survives, or nothing known once exposed.
CellHolds ==
  /\ exposed => Durable = Unknown
  /\ ~exposed => /\ Durable = Survivor(journal.records).state
                 /\ Durable \in {acked} \cup attempts /\ Durable # Unknown

\* The cell holds what a kill now would leave on the device (recover).
LEMMA InvHolds == StoreInv => CellHolds
<1> SUFFICES ASSUME StoreInv PROVE CellHolds
  OBVIOUS
<1>1. ASSUME ~exposed
      PROVE  /\ Durable = Survivor(journal.records).state
             /\ Durable \in {acked} \cup attempts /\ Durable # Unknown
  <2>1. Trusted /\ Sound
    BY <1>1, InvTrusts DEF StoreInv
  <2>2. (CHOOSE p \in Recoveries : TRUE) \in Recoveries
    BY ZenonT(90), RecoveriesTyped DEF StoreInv, Types
  <2>3. Durable = Survivor(journal.records).state
    BY <1>1, <2>1, <2>2, Recovered DEF Durable
  <2>4. Durable \in {acked} \cup attempts
    BY <2>1, <2>3 DEF Sound
  <2>5. {acked} \cup attempts \subseteq 0..MaxCommits
    BY StoreAssumption DEF StoreInv, Types, AnyState, State, NoState
  <2> QED
    BY <2>3, <2>4, <2>5, StoreAssumption DEF Unknown
<1> QED
  BY <1>1 DEF CellHolds, Durable

\* It holds so after a step as well.
LEMMA InvHoldsNext == StoreInv' => CellHolds'
  BY InvHolds, PTL

\* A step that leaves the files and the exposure alone leaves the cell alone.
LEMMA CellSame ==
  ASSUME StoreInv, UNCHANGED files, exposed' = exposed
  PROVE  Durable' = Durable
  BY SameFiles DEF Durable, Unknown

\* open() up to its end settles nothing; a repair that would lose replayed records
\* is a fault (recover, truncate, rewrite_journal).
LEMMA OpeningIsCell ==
  ASSUME StoreInv, StoreInv',
         Open \/ TruncateTail \/ OpenErases \/ OpenWritesHeader \/ OpenFails
  PROVE  Cell!Fault \/ UNCHANGED Cell!cellVars
<1>1. UNCHANGED <<acked, attempts>> /\ (exposed => exposed')
  <2>1. UNCHANGED <<acked, attempts>>
    BY DEF Open, TruncateTail, OpenErases, OpenWritesHeader, OpenFails, caller
  <2>2. CASE OpenErases
    BY <2>1, <2>2, ZenonT(90) DEF OpenErases
  <2>3. CASE Open \/ TruncateTail \/ OpenWritesHeader \/ OpenFails
    BY <2>1, <2>3 DEF Open, TruncateTail, OpenWritesHeader, OpenFails
  <2> QED
    BY <2>2, <2>3
<1>2. CASE exposed'
  BY <1>1, <1>2, InvHoldsNext DEF Cell!Fault, CellHolds, Unknown
<1>3. CASE ~exposed' /\ (Open \/ OpenFails)
  BY <1>1, <1>3, CellSame DEF Open, OpenFails, Cell!cellVars
<1>4. CASE ~exposed' /\ (TruncateTail \/ OpenErases \/ OpenWritesHeader)
  <2>1. pc \in Opening /\ pc' \in Opening /\ pass' = pass
    BY <1>4 DEF TruncateTail, OpenErases, OpenWritesHeader, Opening
  <2>2. OpeningAgrees /\ OpeningAgrees'
    BY ZenonT(90), <1>1, <1>4, <2>1 DEF StoreInv
  <2>3. Durable = pass.state /\ Durable' = pass'.state
    BY <1>1, <1>4, <2>2, InvHolds, InvHoldsNext DEF OpeningAgrees, CellHolds
  <2> QED
    BY <1>1, <2>1, <2>3 DEF Cell!cellVars
<1> QED
  BY <1>2, <1>3, <1>4

\* A successful open() returns what the cell holds, or finds a torn first record
\* that it keeps.
LEMMA FinishIsCell ==
  ASSUME StoreInv, StoreInv', FinishOpen
  PROVE  \E v \in State \cup {NoState} : Cell!Opened(v)
<1>1. pass.state \in State \cup {NoState}
  BY DEF StoreInv, Types, Pass, AnyState
<1>2. UNCHANGED files /\ acked' = pass.state /\ attempts' = {} /\ pc \in Opening
      /\ (exposed => exposed')
  BY ZenonT(90) DEF FinishOpen, Opening
<1>3. Durable \in {pass.state, Unknown}
  BY <1>2, InvHolds DEF CellHolds, StoreInv, OpeningAgrees
<1>4. Durable' \in {Durable, Unknown}
  <2>1. CASE exposed'
    BY ZenonT(90), <2>1, InvHoldsNext DEF CellHolds, Unknown
  <2>2. CASE ~exposed'
    BY <1>2, <2>2, CellSame DEF StoreInv, Types
  <2> QED
    BY <2>1, <2>2
<1>5. Cell!Opened(pass.state)
  BY <1>2, <1>3, <1>4 DEF Cell!Opened
<1> QED
  BY ZenonT(90), <1>1, <1>5

\* commit() and compact() begin a state.
LEMMA BeginIsCell ==
  ASSUME StoreInv, NEW v \in State, (Commit /\ v = commits + 1) \/ Compact(v)
  PROVE  Cell!Begin(v)
  BY CellSame DEF Commit, Compact, Begins, Cell!Begin

\* A whole record, or the snapshot renamed into place, writes the cell in one step
\* (append_record, write_atomic).
LEMMA WriteIsCell ==
  ASSUME StoreInv, StoreInv', AppendRecord \/ RenameSnapshot
  PROVE  (\E v \in State : Cell!Write(v)) \/ UNCHANGED Cell!cellVars
<1>1. UNCHANGED <<acked, attempts, exposed, in_flight>>
  BY ZenonT(90) DEF AppendRecord, RenameSnapshot, caller
<1>2. in_flight \in attempts /\ in_flight \in State
  BY ZenonT(90) DEF StoreInv, Calls, Types, Writing, AppendRecord, RenameSnapshot, Compacting
<1>3. CASE exposed
  BY <1>1, <1>3, InvHolds, InvHoldsNext DEF CellHolds, Unknown, Cell!cellVars
<1>4. CASE ~exposed
  <2>1. pc' \in Opened /\ pc' \in Replacing \cup {"Compact", "Acknowledge"}
    BY ZenonT(90) DEF AppendRecord, RenameSnapshot, Opened, Writing, Replacing
  <2>2. Durable' = in_flight
    BY <1>1, <1>4, <2>1, InvHoldsNext DEF CellHolds, StoreInv, OpenAgrees
  <2>3. Durable # Unknown
    BY <1>4, InvHolds DEF CellHolds
  <2> QED
    BY ZenonT(90), <1>1, <1>2, <2>2, <2>3 DEF Cell!Write
<1> QED
  BY ZenonT(90), <1>3, <1>4

\* A failed append may have left part of the record, and then nothing is known.
LEMMA AppendFailsIsCell ==
  ASSUME StoreInv, StoreInv', AppendFails
  PROVE  Cell!Fault \/ UNCHANGED Cell!cellVars
<1>1. UNCHANGED <<acked, attempts, snapshot>>
  BY DEF AppendFails, caller
<1>2. exposed' = (exposed \/ journal' # journal)
  BY DEF AppendFails
<1>3. CASE exposed'
  BY <1>1, <1>3, InvHoldsNext DEF Cell!Fault, CellHolds, Unknown
<1>4. CASE ~exposed'
  <2>1. journal' = journal /\ ~exposed
    BY <1>2, <1>4, ZenonT(90)
  <2>2. UNCHANGED files
    BY <1>1, <2>1 DEF files
  <2>3. Durable' = Durable
    BY <1>4, <2>1, <2>2, SameFiles DEF Durable
  <2> QED
    BY <1>1, <2>3 DEF Cell!cellVars
<1> QED
  BY <1>3, <1>4

\* What is acknowledged is in the cell (commit, compact).
LEMMA AcknowledgeIsCell ==
  ASSUME StoreInv, AcknowledgeCommit
  PROVE  \E v \in State : Cell!Acknowledge(v)
<1>1. in_flight \in attempts /\ in_flight \in State /\ pc \in Opened
  BY ZenonT(90) DEF StoreInv, Calls, Types, Writing, Opened, AcknowledgeCommit
<1>2. Durable \in {in_flight, Unknown}
  BY <1>1, InvHolds DEF CellHolds, StoreInv, OpenAgrees, AcknowledgeCommit
<1>3. Durable' = Durable
  BY CellSame DEF AcknowledgeCommit
<1>4. Cell!Acknowledge(in_flight)
  BY <1>1, <1>2, <1>3 DEF Cell!Acknowledge, AcknowledgeCommit
<1> QED
  BY ZenonT(90), <1>1, <1>4

\* Replacing the journal changes nothing: the snapshot already holds the state.
\* After a fault it is what makes the cell known again (rewrite_journal).
LEMMA ReplaceIsCell ==
  ASSUME StoreInv, StoreInv', CompactErases \/ CompactWritesHeader
  PROVE  (\E v \in State : Cell!Renew(v)) \/ UNCHANGED Cell!cellVars
<1>1. UNCHANGED <<acked, attempts, in_flight>> /\ ~exposed'
  BY DEF CompactErases, CompactWritesHeader, caller, StoreInv, Calls
<1>2. /\ pc \in Replacing /\ pc' \in Replacing
      /\ Replacing \subseteq Opened /\ Replacing \subseteq Writing
  BY ZenonT(90) DEF CompactErases, CompactWritesHeader, Replacing, Opened, Writing
<1>3. in_flight \in attempts /\ in_flight \in State
  BY ZenonT(90), <1>2 DEF StoreInv, Calls, Types
<1>4. Durable' = in_flight
  BY ZenonT(90), <1>1, <1>2, InvHoldsNext DEF CellHolds, StoreInv, OpenAgrees
<1>5. CASE exposed
  <2>1. Durable = Unknown
    BY <1>5, InvHolds DEF CellHolds
  <2>2. Cell!Renew(in_flight)
    BY <1>1, <1>3, <1>4, <2>1 DEF Cell!Renew
  <2> QED
    BY <1>3, <2>2
<1>6. CASE ~exposed
  <2>1. OpenAgrees
    BY <1>2, <1>6 DEF StoreInv
  <2>2. Durable = in_flight
    BY <1>2, <1>6, <2>1, InvHolds DEF CellHolds, OpenAgrees
  <2> QED
    BY <1>1, <1>4, <2>2 DEF Cell!cellVars
<1> QED
  BY <1>5, <1>6

\* Steps of compact() and close() that touch no file.
LEMMA OtherIsCell ==
  ASSUME StoreInv, SnapshotFails \/ CompactOpens \/ JournalFails \/ Close
  PROVE  UNCHANGED Cell!cellVars
<1>1. UNCHANGED files /\ exposed' = exposed /\ UNCHANGED <<acked, attempts>>
  BY DEF SnapshotFails, CompactOpens, JournalFails, Close, caller
<1> QED
  BY ZenonT(90), <1>1, CellSame DEF Cell!cellVars

\* A kill while a record is appended writes the cell or does not.
LEMMA CrashIsCell ==
  ASSUME StoreInv, StoreInv', Crash
  PROVE  (\E v \in State : Cell!Write(v)) \/ UNCHANGED Cell!cellVars
<1>1. UNCHANGED <<acked, attempts, snapshot>> /\ exposed' = exposed
  BY DEF Crash, caller
<1>2. CASE exposed
  BY <1>1, <1>2, InvHolds, InvHoldsNext DEF CellHolds, Unknown, Cell!cellVars
<1>3. CASE pc # "Append"
  BY <1>1, <1>3, CellSame DEF Crash, files, Cell!cellVars
<1>4. CASE ~exposed /\ pc = "Append"
  <2>1. in_flight \in attempts /\ in_flight \in State
    BY <1>4 DEF StoreInv, Calls, Types, Writing
  <2>2. Survivor(journal'.records).state \in {Survivor(journal.records).state, in_flight}
    BY ZenonT(90), <1>4, CutShortFields DEF Crash
  <2>3. Survivor(journal.records)' = Survivor(journal'.records)
    BY ZenonT(90), <1>1 DEF Survivor
  <2>4. Durable # Unknown /\ Durable' \in {Durable, in_flight}
    BY <1>1, <1>4, <2>2, <2>3, InvHolds, InvHoldsNext DEF CellHolds
  <2>5. CASE Durable' = Durable
    BY <1>1, <2>5 DEF Cell!cellVars
  <2>6. CASE Durable' = in_flight
    BY <1>1, <2>1, <2>4, <2>6 DEF Cell!Write
  <2> QED
    BY ZenonT(90), <2>4, <2>5, <2>6
<1> QED
  BY <1>2, <1>3, <1>4

\* Every step of the store is a step of the cell, or none.
LEMMA CellStep ==
  StoreInv /\ StoreInv' /\ [Next]_vars => [Cell!CellNext]_(Cell!cellVars)
<1> SUFFICES ASSUME StoreInv, StoreInv', [Next]_vars
             PROVE  Cell!CellNext \/ UNCHANGED Cell!cellVars
  OBVIOUS
<1>1. CASE UNCHANGED vars
  BY <1>1, CellSame DEF vars, caller, Cell!cellVars
<1>2. CASE Open \/ TruncateTail \/ OpenErases \/ OpenWritesHeader \/ OpenFails
  BY <1>2, OpeningIsCell DEF Cell!CellNext
<1>3. CASE FinishOpen
  BY <1>3, FinishIsCell DEF Cell!CellNext
<1>4. CASE Commit
  <2>1. commits + 1 \in State
    BY <1>4, StoreAssumption DEF StoreInv, Types, Commit, State
  <2> QED
    BY ZenonT(90), <1>4, <2>1, BeginIsCell DEF Cell!CellNext
<1>5. CASE \E v \in State : v \in attempts \cup {acked} /\ Compact(v)
  BY <1>5, BeginIsCell DEF Cell!CellNext
<1>6. CASE AppendRecord \/ RenameSnapshot
  BY <1>6, WriteIsCell DEF Cell!CellNext
<1>7. CASE AppendFails
  BY <1>7, AppendFailsIsCell DEF Cell!CellNext
<1>8. CASE AcknowledgeCommit
  BY <1>8, AcknowledgeIsCell DEF Cell!CellNext
<1>9. CASE CompactErases \/ CompactWritesHeader
  BY <1>9, ReplaceIsCell DEF Cell!CellNext
<1>10. CASE SnapshotFails \/ CompactOpens \/ JournalFails \/ Close
  BY <1>10, OtherIsCell
<1>11. CASE Crash
  BY <1>11, CrashIsCell DEF Cell!CellNext
<1> QED
  BY <1>1, <1>2, <1>3, <1>4, <1>5, <1>6, <1>7, <1>8, <1>9, <1>10, <1>11 DEF Next

\* The store implements the durable cell: open(), commit() and compact(), with
\* kills and I/O errors between their steps, look like single writes to one cell.
THEOREM StoreImplementsCell == Spec => ImplementsCell
<1>1. Init => Cell!CellInit
  <2> SUFFICES ASSUME Init PROVE Cell!CellInit
    OBVIOUS
  <2>1. Durable = NoState
    <3>1. Durable = Survivor(journal.records).state /\ snapshot.state = NoState
      BY StoreInitially, InvHolds DEF CellHolds, Init, NoSnapshot
    <3> QED
      BY ZenonT(90), <3>1, NoRecords, EmptyFields DEF Init
  <2> QED
    BY ZenonT(90), <2>1 DEF Cell!CellInit, Init
<1> QED
  BY <1>1, CellStep, StoreCorrect, PTL DEF Spec, ImplementsCell, Cell!CellSpec

\* What the cell promises: it holds the last acknowledged state or one whose
\* commit was begun after it, until a fault.
LEMMA CellKeeps == Cell!CellSpec => []Cell!NothingAcknowledgedIsLost
<1> DEFINE Lossless == Cell!NothingAcknowledgedIsLost
<1>1. Cell!CellInit => Lossless
  BY DEF Cell!CellInit, Cell!NothingAcknowledgedIsLost
<1>2. Lossless /\ [Cell!CellNext]_(Cell!cellVars) => Lossless'
  <2> SUFFICES ASSUME Lossless, [Cell!CellNext]_(Cell!cellVars) PROVE Lossless'
    OBVIOUS
  <2> USE DEF Cell!NothingAcknowledgedIsLost, Unknown
  <2>1. ASSUME NEW v \in State,
               Cell!Begin(v) \/ Cell!Write(v) \/ Cell!Acknowledge(v) \/ Cell!Renew(v)
        PROVE  Lossless'
    BY <2>1 DEF Cell!Begin, Cell!Write, Cell!Acknowledge, Cell!Renew
  <2>2. ASSUME NEW v \in State \cup {NoState}, Cell!Opened(v)
        PROVE  Lossless'
    BY <2>2 DEF Cell!Opened
  <2>3. CASE Cell!Fault
    BY <2>3 DEF Cell!Fault
  <2>4. CASE UNCHANGED Cell!cellVars
    BY <2>4 DEF Cell!cellVars
  <2> QED
    BY <2>1, <2>2, <2>3, <2>4 DEF Cell!CellNext
<1> QED
  BY <1>1, <1>2, PTL DEF Cell!CellSpec

\* A kill of the store loses at most commits that were not acknowledged, until a
\* failed write or a repair that discards replayed records: the cell promises it
\* and the store implements the cell.
THEOREM AcknowledgedIsKept == Spec => []Cell!NothingAcknowledgedIsLost
  BY StoreImplementsCell, CellKeeps, PTL DEF ImplementsCell

=============================================================================
