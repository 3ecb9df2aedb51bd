--------------------------- MODULE PersistentStore ---------------------------
(***************************************************************************)
(* The append log of src/src/persistence.cpp: two alternating header slots *)
(* and a sequence of checksummed records.                                  *)
(*                                                                         *)
(* Each write that reaches the file is a step, and the process may crash   *)
(* before, during or after it: a write that is cut short leaves a slot, or *)
(* the record at the end of the log, that fails its checksum.  What was    *)
(* handed to the operating system survives the crash of the process.       *)
(***************************************************************************)
EXTENDS Naturals, Sequences, FiniteSets, FiniteSetsExt

CONSTANTS Records,        \* payloads, each appended at most once
          MaxRecords,     \* limits.max_store_records
          MaxGeneration,  \* bound: header generations explored
          Torn            \* bytes that fail the checksum: a record or a slot

ASSUME StoreAssumption ==
    /\ MaxRecords \in Nat
    /\ MaxGeneration \in Nat
    /\ Torn \notin Records
    /\ Torn \notin [gen : Nat, clean : BOOLEAN]

VARIABLES header,  \* "short" until the file holds two header slots
          slots,   \* the two header slots on disk
          log,     \* the records on disk
          temp,    \* the log of the file that compaction prepares
          pc,      \* what the process is doing with the store
          gen,     \* recovery_.header_generation
          slot,    \* active_slot_
          count,   \* record_count_
          fresh,   \* records that were never appended
          acked,   \* history: records append() reported as written
          marked,  \* history: mark_clean() succeeded in the last session
          after,   \* history: something was appended after that
          used     \* history: the highest generation a session has run with

disk == <<header, slots, log, temp>>
memory == <<pc, gen, slot, count>>
history == <<acked, marked, after, used>>
vars == <<disk, memory, fresh, history>>

Slots == {0, 1}
Valid == {s \in Slots : slots[s] # Torn}
Header(g, clean) == [gen |-> g, clean |-> clean]

\* read_all() and scan(): the records before the first invalid one.
TornAt == {i \in DOMAIN log : log[i] = Torn}
Readable == IF TornAt = {} THEN log ELSE SubSeq(log, 1, Min(TornAt) - 1)
InLog(seq) == {seq[i] : i \in DOMAIN seq}

\* open(): of two valid slots the newer, the second in a tie.
Chosen == IF /\ 1 \in Valid
             /\ 0 \in Valid => slots[1].gen >= slots[0].gen
          THEN 1 ELSE 0

Init ==
    /\ header = "short"
    /\ slots = [s \in Slots |-> Torn]
    /\ log = <<>>
    /\ temp = <<>>
    /\ pc = "closed"
    /\ gen = 0
    /\ slot = 0
    /\ count = 0
    /\ fresh = Records
    /\ acked = {}
    /\ marked = FALSE
    /\ after = FALSE
    /\ used = 0

-----------------------------------------------------------------------------
\* open().

\* A file too short for a header: zeros are written, and the seek to slot 0
\* that follows sends them to the file.
OpenCreate ==
    /\ pc = "closed" /\ header = "short"
    /\ header' = "full"
    /\ slot' = 0
    /\ gen' = 0
    /\ pc' = "opening"
    /\ UNCHANGED <<slots, log, temp, count, fresh, history>>

\* Mutant: the slot that holds the chosen header is the one overwritten.
OpenInPlace ==
    /\ pc = "closed" /\ header = "full" /\ Valid # {}
    /\ slots[Chosen].gen < MaxGeneration
    /\ slot' = Chosen
    /\ gen' = slots[Chosen].gen
    /\ pc' = "opening"
    /\ UNCHANGED <<disk, count, fresh, history>>

\* The newer valid slot is read and the other one becomes active; with no
\* valid slot the store is refused.
OpenExisting ==
    /\ pc = "closed" /\ header = "full" /\ Valid # {}
    /\ slots[Chosen].gen < MaxGeneration
    /\ slot' = 1 - Chosen
    /\ gen' = slots[Chosen].gen
    /\ pc' = "opening"
    /\ UNCHANGED <<disk, count, fresh, history>>

\* Mutant: the clean flag of the previous session is carried over.
OpenHeaderKeepsClean ==
    /\ pc = "opening"
    /\ slots' = [slots EXCEPT ![slot] =
                   Header(gen + 1, Valid # {} /\ slots[Chosen].clean)]
    /\ gen' = gen + 1
    /\ pc' = "scanning"
    /\ marked' = FALSE /\ after' = FALSE
    /\ UNCHANGED <<header, log, temp, slot, count, fresh, acked, used>>

OpenHeader ==
    /\ pc = "opening"
    /\ slots' = [slots EXCEPT ![slot] = Header(gen + 1, FALSE)]
    /\ gen' = gen + 1
    /\ pc' = "scanning"
    /\ marked' = FALSE /\ after' = FALSE
    /\ UNCHANGED <<header, log, temp, slot, count, fresh, acked, used>>

\* Mutant: the log is cut one record too early.
OpenScanShort ==
    /\ pc = "scanning"
    /\ log' = IF TornAt = {} THEN log ELSE SubSeq(log, 1, Len(Readable) - 1)
    /\ count' = Len(log')
    /\ pc' = "open"
    /\ used' = gen
    /\ UNCHANGED <<header, slots, temp, gen, slot, fresh, acked, marked, after>>

\* scan(): the log is cut at the first invalid record; with more records than
\* the bound open() fails.
OpenScan ==
    /\ pc = "scanning"
    /\ IF Len(Readable) > MaxRecords
       THEN pc' = "closed" /\ UNCHANGED <<log, count, used>>
       ELSE /\ log' = Readable
            /\ count' = Len(Readable)
            /\ pc' = "open"
            /\ used' = gen
    /\ UNCHANGED <<header, slots, temp, gen, slot, fresh, acked, marked, after>>

-----------------------------------------------------------------------------
\* append().

\* Mutant: the bound is checked before the record is counted.
AppendOneMore(r) ==
    /\ pc = "open" /\ r \in fresh
    /\ count <= MaxRecords
    /\ log' = Append(log, r)
    /\ count' = count + 1
    /\ fresh' = fresh \ {r}
    /\ acked' = IF TornAt = {} THEN acked \cup {r} ELSE acked
    /\ after' = marked
    /\ UNCHANGED <<header, slots, temp, pc, gen, slot, marked, used>>

AppendRecord(r) ==
    /\ pc = "open" /\ r \in fresh
    /\ count < MaxRecords
    /\ log' = Append(log, r)
    /\ count' = count + 1
    /\ fresh' = fresh \ {r}
    /\ acked' = IF TornAt = {} THEN acked \cup {r} ELSE acked
    /\ after' = marked
    /\ UNCHANGED <<header, slots, temp, pc, gen, slot, marked, used>>

\* A write fails, for want of space say, and leaves part of the record.
AppendFails(r) ==
    /\ pc = "open" /\ r \in fresh
    /\ count < MaxRecords
    /\ log' = Append(log, Torn)
    /\ fresh' = fresh \ {r}
    /\ after' = marked
    /\ UNCHANGED <<header, slots, temp, memory, acked, marked, used>>

\* The process dies inside append(): part of the record is written, or all of
\* it and nobody was told.
CrashInAppend(r) ==
    /\ pc = "open" /\ r \in fresh
    /\ count < MaxRecords
    /\ log' \in {Append(log, Torn), Append(log, r)}
    /\ fresh' = fresh \ {r}
    /\ after' = marked
    /\ pc' = "closed"
    /\ UNCHANGED <<header, slots, temp, gen, slot, count, acked, marked, used>>

-----------------------------------------------------------------------------
\* mark_clean().

MarkClean ==
    /\ pc = "open" /\ gen < MaxGeneration
    /\ slot' = 1 - slot
    /\ pc' = "marking"
    /\ UNCHANGED <<disk, gen, count, fresh, history>>

MarkCleanHeader ==
    /\ pc = "marking"
    /\ slots' = [slots EXCEPT ![slot] = Header(gen + 1, TRUE)]
    /\ gen' = gen + 1
    /\ used' = gen + 1
    /\ pc' = "open"
    /\ marked' = TRUE /\ after' = FALSE
    /\ UNCHANGED <<header, log, temp, slot, count, fresh, acked>>

\* The write fails part way; the previous slot is active again.
MarkCleanFails ==
    /\ pc = "marking"
    /\ slots' = [slots EXCEPT ![slot] = Torn]
    /\ slot' = 1 - slot
    /\ pc' = "open"
    /\ UNCHANGED <<header, log, temp, gen, count, fresh, history>>

-----------------------------------------------------------------------------
\* compact(k).

\* Mutant: the oldest records are the ones kept.
CompactWriteOldest(k) ==
    /\ pc = "open" /\ TornAt = {} /\ gen < MaxGeneration
    /\ k <= Len(log)
    /\ temp' = SubSeq(log, 1, k)
    /\ pc' = "renaming"
    /\ UNCHANGED <<header, slots, log, gen, slot, count, fresh, history>>

\* read_all() succeeds, the temporary file is complete and the store closed.
CompactWrite(k) ==
    /\ pc = "open" /\ TornAt = {} /\ gen < MaxGeneration
    /\ k <= Len(log)
    /\ temp' = SubSeq(log, Len(log) - k + 1, Len(log))
    /\ pc' = "renaming"
    /\ UNCHANGED <<header, slots, log, gen, slot, count, fresh, history>>

\* The rename replaces the file at once, header included; compact() then
\* reopens the store like any other.
CompactRename ==
    /\ pc = "renaming"
    /\ log' = temp
    /\ slots' = [s \in Slots |-> IF s = 0 THEN Header(gen + 1, FALSE) ELSE Torn]
    /\ acked' = acked \cap InLog(temp)
    /\ marked' = FALSE /\ after' = FALSE
    /\ pc' = "closed"
    /\ UNCHANGED <<header, temp, gen, slot, count, fresh, used>>

\* The rename fails: the file is as it was and the store stays closed.
CompactFails ==
    /\ pc = "renaming"
    /\ pc' = "closed"
    /\ UNCHANGED <<disk, gen, slot, count, fresh, history>>

-----------------------------------------------------------------------------
\* The store is closed, or the process dies between two writes.
Close ==
    /\ pc # "closed"
    /\ pc' = "closed"
    /\ UNCHANGED <<disk, gen, slot, count, fresh, history>>

\* The process dies while it writes a header slot.
CrashInHeader ==
    /\ pc \in {"opening", "marking"}
    /\ slots' = [slots EXCEPT ![slot] = Torn]
    /\ pc' = "closed"
    /\ UNCHANGED <<header, log, temp, gen, slot, count, fresh, history>>

Next ==
    \/ OpenCreate \/ OpenExisting \/ OpenHeader \/ OpenScan
    \/ \E r \in Records : AppendRecord(r) \/ AppendFails(r) \/ CrashInAppend(r)
    \/ MarkClean \/ MarkCleanHeader \/ MarkCleanFails
    \/ \E k \in 0..MaxRecords : CompactWrite(k)
    \/ CompactRename \/ CompactFails
    \/ Close \/ CrashInHeader

Spec == Init /\ [][Next]_vars

-----------------------------------------------------------------------------
TypeOK ==
    /\ header \in {"short", "full"}
    /\ slots \in [Slots -> [gen : Nat, clean : BOOLEAN] \cup {Torn}]
    /\ log \in Seq(Records \cup {Torn})
    /\ temp \in Seq(Records)
    /\ pc \in {"closed", "opening", "scanning", "open", "marking", "renaming"}
    /\ gen \in Nat
    /\ slot \in Slots
    /\ count \in 0..MaxRecords
    /\ fresh \subseteq Records
    /\ acked \subseteq Records
    /\ marked \in BOOLEAN /\ after \in BOOLEAN
    /\ used \in Nat

\* A record whose append() was reported as written stays readable through any
\* crash, torn write and recovery until a compaction leaves it out, provided no
\* failed write lies before it in the file.
AckedSurvive == acked \subseteq InLog(Readable)

\* "A torn header write leaves the previous slot intact and the store still
\* opens" (persistence.hpp:13): once a session has run, at every moment one of
\* the slots is valid, whatever sequence of opens, clean marks and compactions
\* was cut short.
HeaderSurvives == used > 0 => Valid # {}

\* The bound on records never locks the store: append() counts so that the
\* next open() will accept what it finds.
ReopensWithinBound == TypeOK /\ Len(Readable) <= MaxRecords

\* A session never runs with a generation, and hence a store incarnation, that
\* an earlier session has had.
GenerationIsFresh == pc = "scanning" => gen > used

\* The header says that the shutdown was clean only if mark_clean() succeeded
\* in the last session that got as far as writing its header.
CleanMeansMarked == Valid # {} /\ slots[Chosen].clean => marked

\* What an open() makes of the header holds true of the sessions before it.
HeaderTellsSessions == GenerationIsFresh /\ CleanMeansMarked

\* The readable records behave as a DurableLog.
Durable == INSTANCE DurableLog WITH contents <- Readable
IsDurableLog == Durable!Spec

\* "A torn header write still leaves a store that opens" (README.md:214): a
\* file that has header slots has a valid one, from its creation on.
AlwaysOpens == header = "full" /\ pc = "closed" => Valid # {}

\* "Record a clean shutdown in the header so the next open can tell a crash
\* from a shutdown" (persistence.hpp:118): a store whose header says clean has
\* not been written to since.
CleanMeansUntouched == Valid # {} /\ slots[Chosen].clean => ~after

=============================================================================
