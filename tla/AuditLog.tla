------------------------------ MODULE AuditLog ------------------------------
(***************************************************************************)
(* The audit log (src/audit.rs): a ring buffer of the newest entries, and  *)
(* an append-only file that is renamed when it is full and whose oldest    *)
(* renamed copies are deleted.  AuditLog::record keeps the write lock from *)
(* its first line to its last, so callers take turns; what interferes with *)
(* it is the disk: tokio's File hands a write to a blocking thread and     *)
(* returns, renames, removals, opens, writes and listings fail, and the    *)
(* process is killed and started again.                                    *)
(*                                                                         *)
(* A file is known by the order in which it was created: its number stands *)
(* for the inode, which a rename does not change, and, among the rotated   *)
(* ones, for the time stamp in its name.  Entry n is the n-th recorded.    *)
(***************************************************************************)
EXTENDS Integers, Sequences, FiniteSets

CONSTANTS MaxBuffer,     \* MAX_BUFFER_SIZE
          MaxLines,      \* MAX_LOG_LINES
          MaxRotated,    \* MAX_ROTATED_LOGS
          CleanupSees,   \* do the rotated names contain "mcp_audit."?
          Faults,        \* calls to the disk that may fail; "stamp": two
                         \* rotations may fall into one second
          MaxEntries,    \* bound of the model: entries recorded
          MaxSetbacks    \* bound of the model: crashes, failed removals, and
                         \* listings of the directory that were cut off

ASSUME SizeAssumption ==
  MaxBuffer \in Nat \ {0} /\ MaxLines \in Nat \ {0} /\ MaxRotated \in Nat
ASSUME FaultAssumption ==
  CleanupSees \in BOOLEAN /\ Faults \subseteq {"rename", "open", "write", "stamp", "list"}
ASSUME BoundAssumption == MaxEntries \in Nat /\ MaxSetbacks \in Nat

VARIABLES
  step,       \* what record does next; "free" when nobody has the lock
  count,      \* entries recorded so far, by this process and those before it
  bootCount,  \* count when this process started
  buffer,     \* the ring buffer
  lineCount,  \* line_count
  files,      \* the lines of every file ever created, in the order they landed
  live,       \* the file at log_path, 0 if there is none
  rotated,    \* the renamed files that still exist
  doomed,     \* rotated files the running cleanup has yet to remove
  pending,    \* writes that write_all has accepted and the disk has not seen
  lost,       \* history: entries that a fault or a crash kept from the disk
  allowance,  \* history: lines the live file may have: MaxLines, and MaxLines
              \* again for each time they were forgotten
  setbacks    \* history: crashes, failed removals, and listings cut off

disk == <<files, live, rotated>>
vars == <<step, count, bootCount, buffer, lineCount, disk, doomed, pending,
          lost, allowance, setbacks>>

Init ==
  /\ step = "free"
  /\ count = 0
  /\ bootCount = 0
  /\ buffer = << >>
  /\ lineCount = 0
  /\ files = << >>
  /\ live = 0
  /\ rotated = {}
  /\ doomed = {}
  /\ pending = {}
  /\ lost = {}
  /\ allowance = MaxLines
  /\ setbacks = 0

Newer(f, names) == {g \in names : g > f}

(* The sorted list of the names that were seen, but for its last           *)
(* MaxRotated.                                                             *)
MutantExcess(names) ==
  IF CleanupSees THEN {f \in names : Cardinality({g \in names : g < f}) >= MaxRotated} ELSE {}
MutantExcessByOne(names) ==
  IF CleanupSees THEN {f \in names : Cardinality(Newer(f, names)) > MaxRotated} ELSE {}
Excess(names) ==
  IF CleanupSees THEN {f \in names : Cardinality(Newer(f, names)) >= MaxRotated} ELSE {}

-----------------------------------------------------------------------------
(* record takes the lock and pushes the entry into the ring. *)
MutantRecord ==
  /\ step = "free"
  /\ count < MaxEntries
  /\ count' = count + 1
  /\ buffer' = Append(IF Len(buffer) > MaxBuffer THEN Tail(buffer) ELSE buffer, count + 1)
  /\ step' = IF lineCount >= MaxLines THEN "rotating" ELSE "appending"
  /\ UNCHANGED <<bootCount, lineCount, disk, doomed, pending, lost, allowance, setbacks>>
Record ==
  /\ step = "free"
  /\ count < MaxEntries
  /\ count' = count + 1
  /\ buffer' = Append(IF Len(buffer) >= MaxBuffer THEN Tail(buffer) ELSE buffer, count + 1)
  /\ step' = IF lineCount >= MaxLines THEN "rotating" ELSE "appending"
  /\ UNCHANGED <<bootCount, lineCount, disk, doomed, pending, lost, allowance, setbacks>>

OnDisk(e, f) == \E i \in 1 .. Len(files[f]) : files[f][i] = e
Placed(e, f) == OnDisk(e, f) \/ [entry |-> e, file |-> f] \in pending

(* The rename may meet the newest rotated file under its new name, if that *)
(* was given in the same second, and then it replaces that file.           *)
Replaced == {{}} \cup {{f} : f \in {g \in rotated : "stamp" \in Faults /\ Newer(g, rotated) = {}}}

(* Cleanup lists the directory to find what it is to remove.  When         *)
(* read_dir fails it has seen nothing, and when next_entry does it has     *)
(* seen some of the files only: it takes either for the whole.             *)
List(names) ==
  \/ /\ doomed' = Excess(names)
     /\ UNCHANGED setbacks
  \/ /\ "list" \in Faults
     /\ setbacks < MaxSetbacks
     /\ setbacks' = setbacks + 1
     /\ \E seen \in SUBSET names : doomed' = Excess(seen)

(* _rotate renames the file, forgets the count whether or not that worked, *)
(* and calls cleanup.                                                      *)
Rotate ==
  /\ step = "rotating"
  /\ step' = "cleaning"
  /\ lineCount' = 0
  /\ \/ /\ live # 0
        /\ live' = 0
        /\ \E replaced \in Replaced :
             /\ rotated' = (rotated \ replaced) \cup {live}
             /\ lost' = lost \cup {e \in 1 .. count : \E f \in replaced : Placed(e, f)}
        /\ allowance' = MaxLines
     \/ /\ live = 0 \/ "rename" \in Faults
        /\ allowance' = allowance + MaxLines
        /\ UNCHANGED <<live, rotated, lost>>
  /\ List(rotated')
  /\ UNCHANGED <<count, bootCount, buffer, files, pending>>

(* Cleanup removes the oldest of its list and goes on if that fails. *)
RemoveOld ==
  /\ step = "cleaning"
  /\ \E f \in doomed :
       /\ \A g \in doomed : f =< g
       /\ doomed' = doomed \ {f}
       /\ \/ /\ rotated' = rotated \ {f}
             /\ UNCHANGED setbacks
          \/ /\ setbacks < MaxSetbacks
             /\ setbacks' = setbacks + 1
             /\ UNCHANGED rotated
  /\ UNCHANGED <<step, count, bootCount, buffer, lineCount, files, live, pending, lost, allowance>>

(* The file is opened, created if need be; write_all returns when the line *)
(* is on its way, and is counted.  If it cannot be opened the entry is     *)
(* only logged as an error.  Either way record returns.                    *)
AppendLine ==
  /\ step \in {"appending", "cleaning"}
  /\ doomed = {}
  /\ step' = "free"
  /\ \/ /\ live' = IF live = 0 THEN Len(files) + 1 ELSE live
        /\ files' = IF live = 0 THEN Append(files, << >>) ELSE files
        /\ pending' = pending \cup {[entry |-> count, file |-> live']}
        /\ lineCount' = lineCount + 1
        /\ UNCHANGED lost
     \/ /\ "open" \in Faults
        /\ lost' = lost \cup {count}
        /\ UNCHANGED <<live, files, pending, lineCount>>
  /\ UNCHANGED <<count, bootCount, buffer, rotated, doomed, allowance, setbacks>>

(* A write reaches the file it was opened for, whatever that is called by  *)
(* now; the writes of different records may overtake each other.           *)
MutantBackgroundWrite ==
  /\ \E w \in pending :
       /\ live # 0
       /\ pending' = pending \ {w}
       /\ files' = [files EXCEPT ![live] = Append(@, w.entry)]
  /\ UNCHANGED <<step, count, bootCount, buffer, lineCount, live, rotated, doomed, lost,
                 allowance, setbacks>>
BackgroundWrite ==
  /\ \E w \in pending :
       /\ pending' = pending \ {w}
       /\ \/ /\ files' = [files EXCEPT ![w.file] = Append(@, w.entry)]
             /\ UNCHANGED lost
          \/ /\ "write" \in Faults
             /\ lost' = lost \cup {w.entry}
             /\ UNCHANGED files
  /\ UNCHANGED <<step, count, bootCount, buffer, lineCount, live, rotated, doomed,
                 allowance, setbacks>>

(* The process is killed, and the next one counts the lines it finds: none *)
(* if the file is not there, nor if it is but cannot be opened.            *)
MutantCrash ==
  /\ setbacks < MaxSetbacks
  /\ setbacks' = setbacks + 1
  /\ step' = "free"
  /\ bootCount' = count
  /\ buffer' = << >>
  /\ doomed' = {}
  /\ pending' = {}
  /\ lost' = lost \cup {w.entry : w \in pending} \cup (IF step = "free" THEN {} ELSE {count})
  /\ lineCount' = 0
  /\ UNCHANGED <<count, disk, allowance>>
Crash ==
  /\ setbacks < MaxSetbacks
  /\ setbacks' = setbacks + 1
  /\ step' = "free"
  /\ bootCount' = count
  /\ buffer' = << >>
  /\ doomed' = {}
  /\ pending' = {}
  /\ lost' = lost \cup {w.entry : w \in pending} \cup (IF step = "free" THEN {} ELSE {count})
  /\ \/ /\ lineCount' = IF live = 0 THEN 0 ELSE Len(files[live])
        /\ UNCHANGED allowance
     \/ /\ live # 0 /\ "open" \in Faults
        /\ lineCount' = 0
        /\ allowance' = allowance + MaxLines
  /\ UNCHANGED <<count, disk>>

Next == Record \/ Rotate \/ RemoveOld \/ AppendLine \/ BackgroundWrite \/ Crash

Spec == Init /\ [][Next]_vars

(* get_recent: the newest entries, newest first. *)
MutantGetRecent(n) == SubSeq(buffer, 1, IF n < Len(buffer) THEN n ELSE Len(buffer))
GetRecent(n) ==
  [i \in 1 .. (IF n < Len(buffer) THEN n ELSE Len(buffer)) |-> buffer[Len(buffer) + 1 - i]]

(* export: the text of the file at log_path, nothing if there is none. *)
Export == IF live = 0 THEN << >> ELSE files[live]

-----------------------------------------------------------------------------
(* Every variable stays in its range, the ring in its capacity. *)
TypeOK ==
  /\ step \in {"free", "rotating", "cleaning", "appending"}
  /\ count \in Nat
  /\ bootCount \in Nat
  /\ buffer \in Seq(Nat) /\ Len(buffer) =< MaxBuffer
  /\ lineCount \in Nat
  /\ files \in Seq(Seq(Nat))
  /\ live \in 0 .. Len(files)
  /\ rotated \subseteq 1 .. Len(files)
  /\ doomed \subseteq rotated
  /\ pending \subseteq [entry : 1 .. count, file : 1 .. Len(files)]
  /\ lost \subseteq 1 .. count
  /\ allowance \in Nat
  /\ setbacks \in Nat

(* get_recent answers with the newest entries of this process, newest      *)
(* first and without a gap: as many as asked for, as recorded, or as the   *)
(* ring holds, whichever is least.                                         *)
RecentIsNewest ==
  \A n \in 0 .. MaxBuffer + 1 :
    /\ \A i \in 1 .. Len(GetRecent(n)) : GetRecent(n)[i] = count + 1 - i
    /\ \/ Len(GetRecent(n)) = n
       \/ (Len(GetRecent(n)) = count - bootCount /\ count - bootCount < n)
       \/ (Len(GetRecent(n)) = MaxBuffer /\ MaxBuffer < n)

(* An entry whose record has returned is on its way to a file or in one,   *)
(* unless a fault, a crash or a rotation within a second lost it; and that *)
(* file is there, live or rotated, until MaxRotated newer rotated ones     *)
(* are.                                                                    *)
EntriesAreKept ==
  \A e \in 1 .. count :
    \/ e \in lost
    \/ (e = count /\ step # "free")
    \/ \E f \in 1 .. Len(files) :
         /\ Placed(e, f)
         /\ f = live \/ f \in rotated \/ Cardinality(Newer(f, rotated)) >= MaxRotated

(* Rotation never mixes two files: all that is in an older file, or on its *)
(* way there, was recorded before all that is in a newer one, however late *)
(* the background writes land.                                             *)
FilesAreInOrder ==
  \A f, g \in 1 .. Len(files) : f < g =>
    \A d, e \in 1 .. count : Placed(d, f) /\ Placed(e, g) => d < e

(* What export returns never has more lines than MaxLines, with those that *)
(* are on their way, over any number of restarts; but each rename that     *)
(* failed, and each restart that could not open the file to count its      *)
(* lines, lets it grow by MaxLines once more.                              *)
LiveFileIsBounded ==
  Len(Export) + Cardinality({w \in pending : w.file = live}) =< allowance

(* Rotated files are bounded in number: one more than MaxRotated while     *)
(* cleanup runs, and one more for each crash, failed removal or listing    *)
(* that was cut off, which the next cleanup makes up for.                  *)
RotatedFilesAreBounded == Cardinality(rotated) =< MaxRotated + 1 + setbacks

=============================================================================
