------------------------------- MODULE Store -------------------------------
(***************************************************************************)
(* The durable store (src/src/store.cpp): a snapshot file and a journal of *)
(* full-state records, commits that append to the journal, compaction that *)
(* moves the state into a new snapshot, and the recovery and repair that   *)
(* open() performs.  The caller holds the engine's lock, so calls do not   *)
(* overlap; the steps of a call are separate actions because the process   *)
(* may be killed between any two of them.                                  *)
(*                                                                         *)
(* Files survive the death of the process; memory does not.  The snapshot  *)
(* is replaced by a rename and is whole or absent.  A record whose write   *)
(* is cut short by a kill or an I/O error may be missing, torn or whole.   *)
(* A torn record hides where the next one starts: recovery takes what      *)
(* follows for its missing bytes and stops there, or finds an intact       *)
(* record behind it and refuses the store.  Files damaged or replaced from *)
(* outside, and files of other versions, are left out.                     *)
(***************************************************************************)
EXTENDS Naturals, Sequences, Functions

CONSTANTS
  Threshold,     \* compaction_record_threshold
  MaxJournal     \* max_journal_bytes, in records

\* Bounds of the exploration: states committed, sequence numbers used before the
\* engine stops compacting by itself, kills, I/O errors.
CONSTANTS MaxCommits, MaxSequence, MaxCrashes, MaxFailures

ASSUME StoreAssumption ==
  /\ Threshold \in Nat \ {0} /\ MaxJournal \in Nat \ {0}
  /\ MaxCommits \in Nat /\ MaxSequence \in Nat
  /\ MaxCrashes \in Nat /\ MaxFailures \in Nat

VARIABLES
  \* the files
  snapshot,      \* NoSnapshot, or the state and its sequence number
  journal,
  \* the Store object
  pc,            \* what the call in progress does next
  pass,          \* what recover() found, while open() runs
  in_flight,     \* the state being committed or compacted
  handle,        \* file_handle_ is not null
  state_, commit_sequence_, records_since_snapshot_, journal_bytes_,
  \* history
  commits,       \* how many states have been committed or compacted
  acked,         \* the state last acknowledged, or returned by open()
  attempts,      \* states whose commit was begun since
  exposed,       \* the journal has been damaged or cut back since it was erased
  crashes, failures

files == <<snapshot, journal>>
memory == <<handle, state_, commit_sequence_, records_since_snapshot_, journal_bytes_>>
caller == <<commits, acked, attempts>>
vars == <<files, pc, pass, in_flight, memory, caller, exposed, crashes, failures>>

\* The n-th state to be committed is n: each differs from all before it.
NoState == 0
State == 1..MaxCommits
NoSnapshot == [sequence |-> 0, state |-> NoState]
NoJournal == [exists |-> FALSE, header |-> FALSE, base |-> 0, records |-> <<>>]
EmptyJournal == [NoJournal EXCEPT !.exists = TRUE]
Whole(n, v) == [whole |-> TRUE, sequence |-> n, state |-> v]
Torn == [whole |-> FALSE, sequence |-> 0, state |-> NoState]

-----------------------------------------------------------------------------
(* Recovery. *)

\* The records before the first torn one.
Intact(records) ==
  LET torn == {i \in DOMAIN records : ~records[i].whole} IN
  IF torn = {} THEN records
  ELSE SubSeq(records, 1, (CHOOSE i \in torn : \A j \in torn : i <= j) - 1)

\* Definitions named Faulty... are the definition that follows with one mistake;
\* each breaks a property.
FaultyReplay(found, record) ==
  [found EXCEPT !.sequence = record.sequence, !.state = record.state,
                !.replayed = @ + 1]
\* A record the snapshot already represents is skipped.
Replay(found, record) ==
  IF record.sequence <= found.sequence THEN found
  ELSE [found EXCEPT !.sequence = record.sequence, !.state = record.state,
                     !.replayed = @ + 1]

\* The pass after it has read the snapshot.
FromSnapshot == [usable |-> TRUE, sequence |-> snapshot.sequence,
                 state |-> snapshot.state, replayed |-> 0,
                 torn |-> FALSE, records |-> <<>>]

\* The pass after each record, in the order of the journal.
After(records) ==
  LET after[n \in 0..Len(records)] ==
        IF n = 0 THEN FromSnapshot ELSE Replay(after[n - 1], records[n])
  IN  after

\* The pass over the given records.  When there is no state at all, recover()
\* returns before it notes that the tail was torn.
Found(records, torn) ==
  LET found == After(records)[Len(records)]
  IN  [found EXCEPT !.records = records, !.torn = torn /\ found.state # NoState]

Refused == [usable |-> FALSE, sequence |-> 0, state |-> NoState, replayed |-> 0,
            torn |-> FALSE, records |-> <<>>]

\* Every result recover() may have on the files as they are.
Recoveries ==
  LET records == journal.records
      intact == Intact(records)
  IN
  CASE ~journal.exists -> {Found(<<>>, FALSE)}
    [] journal.exists /\ ~journal.header -> {Found(<<>>, TRUE)}
    [] OTHER ->
       IF \/ Len(records) > MaxJournal
          \/ snapshot # NoSnapshot /\ journal.base > snapshot.sequence
       THEN {Refused}
       ELSE {Found(intact, intact # records)}
            \cup IF Len(records) > Len(intact) + 1 THEN {Refused} ELSE {}

-----------------------------------------------------------------------------
\* A new directory.
Init ==
  /\ snapshot = NoSnapshot /\ journal = NoJournal
  /\ pc = "Closed" /\ pass = Refused /\ in_flight = NoState
  /\ handle = FALSE /\ state_ = NoState /\ commit_sequence_ = 0
  /\ records_since_snapshot_ = 0 /\ journal_bytes_ = 0
  /\ commits = 0 /\ acked = NoState /\ attempts = {}
  /\ exposed = FALSE /\ crashes = 0 /\ failures = 0

\* The step fails with an I/O error.
Fails == failures < MaxFailures /\ failures' = failures + 1

-----------------------------------------------------------------------------
(* open().  The journal is truncated to its intact records when its tail is *)
(* torn, and then written anew unless its header is there and its tail was  *)
(* not torn.                                                                *)

FaultyHeaderUsable(p) == journal.exists /\ ~p.torn
HeaderUsable(p) == journal.exists /\ journal.header /\ ~p.torn

Open ==
  /\ pc \in {"Closed", "Unusable"}
  /\ \E p \in Recoveries :
       /\ pass' = p
       /\ pc' = CASE ~p.usable -> "Unusable"
                  [] p.usable /\ p.torn -> "Truncate"
                  [] p.usable /\ ~p.torn ->
                       IF HeaderUsable(p) THEN "OpenForAppend" ELSE "Erase"
  /\ UNCHANGED <<files, in_flight, memory, caller, exposed, crashes, failures>>

TruncateTail ==
  /\ pc = "Truncate"
  /\ journal' = IF journal.header THEN [journal EXCEPT !.records = pass.records]
                                  ELSE EmptyJournal
  /\ pc' = "Erase"
  /\ UNCHANGED <<snapshot, pass, in_flight, memory, caller, exposed, crashes, failures>>

\* rewrite_journal opens the file for writing, which empties it.
OpenErases ==
  /\ pc = "Erase"
  /\ journal' = EmptyJournal
  /\ pc' = "Header"
  /\ exposed' = (exposed \/ pass.replayed > 0)
  /\ UNCHANGED <<snapshot, pass, in_flight, memory, caller, crashes, failures>>

OpenWritesHeader ==
  /\ pc = "Header"
  /\ journal' = [journal EXCEPT
       !.header = TRUE,
       !.base = IF snapshot # NoSnapshot THEN pass.sequence ELSE 0]
  /\ pc' = "OpenForAppend"
  /\ UNCHANGED <<snapshot, pass, in_flight, memory, caller, exposed, crashes, failures>>

\* open() succeeds.  A torn first record is still there: the first commit will
\* be appended to it.
FinishOpen ==
  /\ pc = "OpenForAppend"
  /\ handle' = TRUE
  /\ state_' = pass.state
  /\ commit_sequence_' = pass.sequence
  /\ records_since_snapshot_' = pass.replayed
  /\ journal_bytes_' = Len(journal.records)
  /\ acked' = pass.state /\ attempts' = {}
  /\ exposed' = (exposed \/ Torn \in Range(journal.records))
  /\ pc' = "Idle" /\ pass' = Refused
  /\ UNCHANGED <<files, in_flight, commits, crashes, failures>>

\* A header that was written but not flushed is the failure of the next step, here
\* and in JournalFails.
OpenFails ==
  /\ pc \in {"Truncate", "Erase", "Header", "OpenForAppend"}
  /\ Fails
  /\ pc' = "Unusable" /\ pass' = Refused
  /\ UNCHANGED <<files, in_flight, memory, caller, exposed, crashes>>

-----------------------------------------------------------------------------
(* commit() *)

\* The caller hands over state v.
Begins(v) == /\ in_flight' = v
             /\ attempts' = attempts \cup {v}
             /\ commits' = IF v > commits THEN v ELSE commits
             /\ UNCHANGED acked

Commit ==
  /\ pc = "Idle" /\ handle
  /\ journal_bytes_ + 1 <= MaxJournal
  /\ commits < MaxCommits
  /\ Begins(commits + 1)
  /\ pc' = "Append"
  /\ UNCHANGED <<files, pass, memory, exposed, crashes, failures>>

FaultyRecordSequence == commit_sequence_
RecordSequence == commit_sequence_ + 1
Appended == [journal EXCEPT !.records = Append(@, Whole(RecordSequence, in_flight))]
\* What a write that was cut short may leave behind.
CutShort == {journal, [journal EXCEPT !.records = Append(@, Torn)], Appended}

AppendRecord ==
  /\ pc = "Append"
  /\ journal' = Appended
  /\ commit_sequence_' = RecordSequence
  /\ records_since_snapshot_' = records_since_snapshot_ + 1
  /\ journal_bytes_' = journal_bytes_ + 1
  /\ state_' = in_flight
  /\ pc' = IF \/ records_since_snapshot_' >= Threshold
              \/ journal_bytes_' >= MaxJournal \div 2
           THEN "Compact" ELSE "Acknowledge"
  /\ UNCHANGED <<snapshot, pass, in_flight, handle, caller, exposed, crashes, failures>>

\* The commit is refused.  Neither the sequence number nor the byte count
\* accounts for what was written.
AppendFails ==
  /\ pc = "Append"
  /\ Fails
  /\ journal' \in CutShort
  /\ exposed' = (exposed \/ journal' # journal)
  /\ pc' = "Idle" /\ in_flight' = NoState
  /\ UNCHANGED <<snapshot, pass, memory, caller, crashes>>

\* commit() or compact() is accepted.
AcknowledgeCommit ==
  /\ pc = "Acknowledge"
  /\ acked' = in_flight /\ attempts' = {}
  /\ in_flight' = NoState
  /\ pc' = "Idle"
  /\ UNCHANGED <<files, pass, memory, commits, exposed, crashes, failures>>

-----------------------------------------------------------------------------
(* compact(), called by commit() and by the engine when it shuts down. *)

Compact(v) ==
  /\ pc = "Idle"
  /\ commit_sequence_ < MaxSequence
  /\ Begins(v)
  /\ pc' = "ShutdownCompact"
  /\ UNCHANGED <<files, pass, memory, exposed, crashes, failures>>

Compacting == pc \in {"Compact", "ShutdownCompact"}

\* The numbering starts afresh with every snapshot.
FaultySnapshotSequence == 1
SnapshotSequence == commit_sequence_ + 1

\* write_atomic: the snapshot is replaced by the rename.
RenameSnapshot ==
  /\ Compacting
  /\ snapshot' = [sequence |-> SnapshotSequence, state |-> in_flight]
  /\ commit_sequence_' = SnapshotSequence
  /\ pc' = "CompactErase"
  /\ UNCHANGED <<journal, pass, in_flight, handle, state_, records_since_snapshot_,
                 journal_bytes_, caller, exposed, crashes, failures>>

\* A commit is acknowledged whether or not it could be compacted.
SnapshotFails ==
  /\ Compacting
  /\ Fails
  /\ pc' = IF pc = "Compact" THEN "Acknowledge" ELSE "Idle"
  /\ in_flight' = IF pc = "Compact" THEN in_flight ELSE NoState
  /\ UNCHANGED <<files, pass, memory, caller, exposed, crashes>>

CompactErases ==
  /\ pc = "CompactErase"
  /\ journal' = EmptyJournal
  /\ handle' = FALSE
  /\ exposed' = FALSE
  /\ pc' = "CompactHeader"
  /\ UNCHANGED <<snapshot, pass, in_flight, state_, commit_sequence_,
                 records_since_snapshot_, journal_bytes_, caller, crashes, failures>>

CompactWritesHeader ==
  /\ pc = "CompactHeader"
  /\ journal' = [journal EXCEPT !.header = TRUE, !.base = commit_sequence_]
  /\ records_since_snapshot_' = 0 /\ journal_bytes_' = 0
  /\ pc' = "CompactOpen"
  /\ UNCHANGED <<snapshot, pass, in_flight, handle, state_, commit_sequence_,
                 caller, exposed, crashes, failures>>

CompactOpens ==
  /\ pc = "CompactOpen"
  /\ handle' = TRUE
  /\ pc' = "Acknowledge"
  /\ UNCHANGED <<files, pass, in_flight, state_, commit_sequence_,
                 records_since_snapshot_, journal_bytes_, caller, exposed, crashes,
                 failures>>

\* The new snapshot is in place but the journal is not: it has no handle, and
\* every commit is refused until the store is opened again.  commit() reports
\* success all the same; the engine ignores the status of its own compact().
JournalFails ==
  /\ pc \in {"CompactErase", "CompactHeader", "CompactOpen"}
  /\ Fails
  /\ handle' = FALSE
  /\ pc' = "Acknowledge"
  /\ UNCHANGED <<files, pass, in_flight, state_, commit_sequence_,
                 records_since_snapshot_, journal_bytes_, caller, exposed, crashes>>

-----------------------------------------------------------------------------
\* close() leaves the fields of a closed store as they are, but nothing reads them
\* until open() has set them again.
Forgets ==
  /\ pc' = "Closed" /\ pass' = Refused /\ in_flight' = NoState
  /\ handle' = FALSE /\ state_' = NoState /\ commit_sequence_' = 0
  /\ records_since_snapshot_' = 0 /\ journal_bytes_' = 0

Close ==
  /\ pc = "Idle"
  /\ Forgets
  /\ UNCHANGED <<files, caller, exposed, crashes, failures>>

\* The process is killed between two steps, or while it appends a record.
Crash ==
  /\ pc # "Closed"
  /\ crashes < MaxCrashes
  /\ crashes' = crashes + 1
  /\ IF pc = "Append" THEN journal' \in CutShort ELSE UNCHANGED journal
  /\ Forgets
  /\ UNCHANGED <<snapshot, caller, exposed, failures>>

Next ==
  \/ Open \/ TruncateTail \/ OpenErases \/ OpenWritesHeader \/ FinishOpen
  \/ OpenFails
  \/ Commit \/ AppendRecord \/ AppendFails \/ AcknowledgeCommit
  \/ \E v \in State : v \in attempts \cup {acked} /\ Compact(v)
  \/ RenameSnapshot \/ SnapshotFails
  \/ CompactErases \/ CompactWritesHeader \/ CompactOpens \/ JournalFails
  \/ Close \/ Crash

Spec == Init /\ [][Next]_vars

-----------------------------------------------------------------------------
(* Properties. *)

\* Files, call state and history are well formed; a journal without a header
\* holds no records.
TypeOK ==
  /\ snapshot.state \in State \cup {NoState} /\ snapshot.sequence \in Nat
  /\ journal.exists \in BOOLEAN /\ journal.header \in BOOLEAN /\ journal.base \in Nat
  /\ ~journal.header => journal.records = <<>>
  /\ \A r \in Range(journal.records) :
       r \in {Torn} \cup {Whole(n, v) : n \in {r.sequence} \ {0}, v \in State}
  /\ in_flight \in State \cup {NoState}
  /\ state_ \in State \cup {NoState} /\ acked \in State \cup {NoState}
  /\ attempts \subseteq State /\ commits \in 0..MaxCommits
  /\ handle \in BOOLEAN /\ exposed \in BOOLEAN

\* Whatever step a kill interrupts, opening the store returns the state last
\* acknowledged or one whose commit was begun after it: append_record, compact
\* and rewrite_journal keep one whole copy on the device at every step.  The
\* promise is suspended from a failed write or a repair that discards replayed
\* records (see CrashLosesOnlyInFlight) to the next compaction.
RecoversAcknowledged ==
  ~exposed => \A p \in Recoveries : p.usable /\ p.state \in {acked} \cup attempts

\* While the store is open the files and commit_sequence_ agree, so that the next
\* record is newer than all that recovery would find and is never skipped as
\* already represented.
SequenceIsDurable ==
  pc = "Idle" /\ ~exposed => \A p \in Recoveries : p.sequence = commit_sequence_

\* What a kill now would leave, as DurableCell's cell.
Unknown == MaxCommits + 1
Durable == IF exposed THEN Unknown ELSE (CHOOSE p \in Recoveries : TRUE).state
Cell == INSTANCE DurableCell WITH cell <- Durable

\* The store implements the durable cell: commit(), compact() and open() with
\* kills between their steps look like single writes to one cell.  A state that
\* reached the device is never taken back, and one acknowledged is there.
ImplementsCell == Cell!CellSpec

\* store.hpp: "a crash can lose at most the in-flight commit".  open() replaces
\* the journal after it has replayed a torn one, and keeps a torn first record,
\* so a second crash loses records that were acknowledged or makes the store
\* unusable.
CrashLosesOnlyInFlight ==
  acked # NoState =>
    \A p \in Recoveries : p.usable /\ p.state \in {acked} \cup attempts

=============================================================================
