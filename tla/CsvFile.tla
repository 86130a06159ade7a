------------------------------- MODULE CsvFile -------------------------------
(***************************************************************************)
(* csv/deliver (internal/adapters/csvdeliver): the sessions of one or more *)
(* processes write rows to one file. The first of them creates it and puts *)
(* its header in; every row is one write under fileMu, which the sessions  *)
(* of a process share, and under a lock on the file; its size before and   *)
(* after tells whether the row has landed at the end.                      *)
(*                                                                         *)
(* On a local file system an append is atomic and the lock is kept between *)
(* processes. On a network file system the lock may be emulated within a   *)
(* process only, and an append may go where the file ended a moment ago.   *)
(* The file is a sequence of lines: a line written where another is, is    *)
(* taken to destroy it.                                                    *)
(***************************************************************************)
EXTENDS Integers, Sequences, FiniteSets

CONSTANTS
  Sessions,    \* sessions of a csv/deliver step on the same path
  ProcessOf,   \* ProcessOf[s]: the process the session runs in
  FileSystems, \* of "local", "network"
  RowsEach,    \* records a session is sent
  MaxFaults    \* bound: processes killed, calls on the file that fail

VARIABLES
  fs,          \* where the file is
  exists,      \* the file is there
  lines,       \* what is in it: Header, rows <<session, n>>, Part of one
  mutex,       \* fileMu of a process: the session that holds it, or None
  flocks,      \* the sessions that hold the file's lock
  at,          \* what a session does next
  size,        \* the size it read before its write
  sent,        \* the row a session is at
  acked,       \* rows whose record was acknowledged
  denied,      \* rows whose session failed on them
  faults,      \* counted
  creator,     \* history: the process that created the file, or None
  lost,        \* history: <<row, by>>: rows a later line was written over
  headless,    \* history: the write of the header failed
  blind        \* history: rows written whose size could not be read again

csvVars == <<fs, exists, lines, mutex, flocks, at, size, sent, acked, denied, faults, creator,
             lost, headless, blind>>

None == "none"
Header == <<"header", 0>>
Part == <<"part", 0>>
Processes == {ProcessOf[s] : s \in Sessions}
Rows == Sessions \X (1..RowsEach)

CsvFileAssumption ==
  /\ FileSystems \subseteq {"local", "network"} /\ DOMAIN ProcessOf = Sessions
  /\ None \notin Sessions \cup Processes /\ {RowsEach, MaxFaults} \subseteq Nat

Init ==
  /\ fs \in FileSystems
  /\ exists = FALSE /\ lines = <<>> /\ creator = None
  /\ mutex = [p \in Processes |-> None] /\ flocks = {}
  /\ at = [s \in Sessions |-> "open"] /\ size = [s \in Sessions |-> 0]
  /\ sent = [s \in Sessions |-> 1]
  /\ acked = {} /\ denied = {} /\ faults = 0 /\ lost = {}
  /\ headless = FALSE /\ blind = {}

-----------------------------------------------------------------------------
Goes(s, where) == at' = [at EXCEPT ![s] = where]
Holds(s)       == mutex' = [mutex EXCEPT ![ProcessOf[s]] = s]
Frees(s)       == mutex' = [mutex EXCEPT ![ProcessOf[s]] = None]
Free(s)        == mutex[ProcessOf[s]] = None

\* A line is written at an offset, at the end or over the line that is there.
Put(line, offset, by) ==
  IF offset < Len(lines)
    THEN /\ lines' = [lines EXCEPT ![offset + 1] = line]
         /\ lost' = lost \cup {<<lines[offset + 1], by>>}
    ELSE lines' = Append(lines, line) /\ UNCHANGED lost

\* Mutant of Creates: fileMu is let go of with the file just created.
CreatesAndFrees(s) == UNCHANGED mutex

\* ensureHeader holds fileMu from the create to the header's write.
Creates(s) == Holds(s)

\* ensureHeader: O_CREATE and O_EXCL; a file that exists has its header.
EnsureHeader(s) ==
  /\ at[s] = "open" /\ Free(s)
  /\ IF exists
     THEN Goes(s, "ready") /\ UNCHANGED <<exists, mutex, creator>>
     ELSE /\ exists' = TRUE /\ creator' = ProcessOf[s]
          /\ Creates(s) /\ Goes(s, "header")
  /\ UNCHANGED <<fs, lines, flocks, size, sent, acked, denied, faults, lost,
                 headless, blind>>

\* The header goes to offset 0, under no lock on the file.
WriteHeader(s) ==
  /\ at[s] = "header" /\ Put(Header, 0, s)
  /\ Frees(s) /\ Goes(s, "ready")
  /\ UNCHANGED <<fs, exists, flocks, size, sent, acked, denied, faults, creator,
                 headless, blind>>

\* The header's write fails, before any of it is in or in the middle of it:
\* the session fails, the file stays, and no later session looks into it.
HeaderCut(s) ==
  /\ at[s] = "header" /\ faults < MaxFaults /\ faults' = faults + 1 /\ headless' = TRUE
  /\ Put(Part, 0, s) \/ UNCHANGED <<lines, lost>>
  /\ Frees(s) /\ Goes(s, "failed")
  /\ UNCHANGED <<fs, exists, flocks, size, sent, acked, denied, creator, blind>>

\* appendRow: fileMu, then the lock on the file, then its size.
Begin(s) ==
  /\ at[s] = "ready" /\ sent[s] <= RowsEach /\ Free(s)
  /\ Holds(s) /\ Goes(s, "lock")
  /\ UNCHANGED <<fs, exists, lines, flocks, size, sent, acked, denied, faults, creator, lost,
                 headless, blind>>

Flock(s) ==
  /\ at[s] = "lock"
  /\ \A t \in flocks : fs = "network" /\ ProcessOf[t] # ProcessOf[s]
  /\ flocks' = flocks \cup {s} /\ Goes(s, "stat")
  /\ UNCHANGED <<fs, exists, lines, mutex, size, sent, acked, denied, faults, creator, lost,
                 headless, blind>>

Stat(s) ==
  /\ at[s] = "stat" /\ size' = [size EXCEPT ![s] = Len(lines)] /\ Goes(s, "write")
  /\ UNCHANGED <<fs, exists, lines, mutex, flocks, sent, acked, denied, faults, creator, lost,
                 headless, blind>>

WriteRow(s) ==
  /\ at[s] = "write"
  /\ \/ Put(<<s, sent[s]>>, Len(lines), s)
     \/ fs = "network" /\ Put(<<s, sent[s]>>, size[s], s)
  /\ Goes(s, "check")
  /\ UNCHANGED <<fs, exists, mutex, flocks, size, sent, acked, denied, faults, creator,
                 headless, blind>>

Unlock(s) == Frees(s) /\ flocks' = flocks \ {s}

\* The record fails, and its session with it.
Fails(s) == /\ denied' = denied \cup {<<s, sent[s]>>} /\ Goes(s, "failed")
            /\ UNCHANGED <<sent, acked>>

\* The size after the write is the size before it and one row: acknowledged.
Check(s) ==
  /\ at[s] = "check" /\ Unlock(s)
  /\ IF Len(lines) = size[s] + 1
     THEN /\ acked' = acked \cup {<<s, sent[s]>>} /\ sent' = [sent EXCEPT ![s] = @ + 1]
          /\ Goes(s, "ready") /\ UNCHANGED denied
     ELSE Fails(s)
  /\ UNCHANGED <<fs, exists, lines, size, faults, creator, lost, headless, blind>>

\* The disk is full in the middle of a row: what is written of it stays.
WriteCut(s) ==
  /\ at[s] = "write" /\ faults < MaxFaults /\ faults' = faults + 1
  /\ lines' = Append(lines, Part) /\ Unlock(s) /\ Fails(s)
  /\ UNCHANGED <<fs, exists, size, creator, lost, headless, blind>>

\* Opening or locking the file, reading its size or writing to it fails with
\* nothing written; or reading the size again does, and the row is in.
CallFails(s) ==
  /\ at[s] \in {"lock", "stat", "write", "check"}
  /\ faults < MaxFaults /\ faults' = faults + 1 /\ Unlock(s) /\ Fails(s)
  /\ blind' = blind \cup (IF at[s] = "check" THEN {<<s, sent[s]>>} ELSE {})
  /\ UNCHANGED <<fs, exists, lines, size, creator, lost, headless>>

\* A process dies; its locks are gone with it.
Kill(p) ==
  LET dying == {s \in Sessions : ProcessOf[s] = p} IN
  /\ faults < MaxFaults /\ faults' = faults + 1
  /\ at' = [s \in Sessions |-> IF s \in dying THEN "dead" ELSE at[s]]
  /\ mutex' = [mutex EXCEPT ![p] = None] /\ flocks' = flocks \ dying
  /\ UNCHANGED <<fs, exists, lines, size, sent, acked, denied, creator, lost,
                 headless, blind>>

Next ==
  \/ \E s \in Sessions :
       \/ EnsureHeader(s) \/ WriteHeader(s) \/ HeaderCut(s) \/ Begin(s) \/ Flock(s)
       \/ Stat(s) \/ WriteRow(s) \/ WriteCut(s) \/ Check(s) \/ CallFails(s)
  \/ \E p \in Processes : Kill(p)

Spec == Init /\ [][Next]_csvVars

-----------------------------------------------------------------------------
(* Properties.                                                             *)

TypeOK ==
  /\ fs \in FileSystems /\ exists \in BOOLEAN /\ lines \in Seq({Header, Part} \cup Rows)
  /\ mutex \in [Processes -> Sessions \cup {None}] /\ flocks \subseteq Sessions
  /\ at \in [Sessions -> {"open", "header", "ready", "lock", "stat", "write", "check",
                          "failed", "dead"}]
  /\ acked \subseteq Rows /\ denied \subseteq Rows /\ faults \in 0..MaxFaults
  /\ creator \in Processes \cup {None} /\ headless \in BOOLEAN /\ blind \subseteq Rows

InFile(row) == \E i \in DOMAIN lines : lines[i] = row

\* Behind part of a row, without a line's end, another row is glued to it.
Glued(row) == \E i \in DOMAIN lines : lines[i] = row /\ i > 1 /\ lines[i - 1] = Part

\* A row of another process: of one that found the file created, and wrote
\* before its header; or of one the emulated lock let in.
Outsider(row, by) ==
  /\ ProcessOf[row[1]] # ProcessOf[by]
  /\ fs = "network" \/ ProcessOf[by] = creator

\* csvdeliver.go:176: a delivery that is reported is in the file, as one row
\* and once. Off by name: what another process wrote over it (Outsider), and
\* the row behind a write the disk cut short (Glued).
AckedIsInFile ==
  /\ \A row \in acked : \/ InFile(row) /\ (Glued(row) => faults > 0)
                        \/ \E by \in Sessions : <<row, by>> \in lost
  /\ \A i, j \in DOMAIN lines : lines[i] = lines[j] /\ i # j => lines[i] = Part
  /\ \A loss \in lost : loss[1] \in Rows => Outsider(loss[1], loss[2])

\* A record fails only if its row is not in the file, or if a process beside
\* its own has changed the file's size in between: the header's, or any on a
\* network file system. Off by name where the size could not be read after
\* the write (blind). The next run sends such a one again.
DeniedIsAbsent ==
  \A row \in denied : InFile(row) =>
    fs = "network" \/ ProcessOf[row[1]] # creator \/ row \in blind

\* csvdeliver.go:147: the header is the first line of whatever its creator's
\* process adds to the file, and there is one. Off by name where its write
\* failed (headless): the file exists, so that every session after takes the
\* header for written, adds its rows under none, and none is ever put in.
HeaderFirst ==
  /\ \A i \in DOMAIN lines : lines[i] = Header => i = 1 /\ ~headless
  /\ \A i \in DOMAIN lines : lines[i] \in Rows /\ ProcessOf[lines[i][1]] = creator =>
       lines[1] = Header \/ headless \/ \E loss \in lost : loss[1] = Header

FileHolds == AckedIsInFile /\ DeniedIsAbsent /\ HeaderFirst
=============================================================================
