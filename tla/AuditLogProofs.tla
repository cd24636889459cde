--------------------------- MODULE AuditLogProofs ---------------------------
(***************************************************************************)
(* Proofs about AuditLog, for any size of ring and file, any number of     *)
(* entries, crashes and failures of the disk.                              *)
(***************************************************************************)
EXTENDS AuditLog, FiniteSetTheorems, SequenceTheorems, TLAPS

(* Types, and what depends on nothing else: an entry is recorded before it *)
(* is written, the live file is the one created last.                      *)
LogTypeInv ==
  /\ TypeOK
  /\ IsFiniteSet(pending)
  /\ bootCount =< count
  /\ step # "free" => count > 0
  /\ live # 0 => live = Len(files) /\ live \notin rotated

(* The ring has the newest entries in order: all that this process has     *)
(* recorded, or as many as there is room for.                              *)
RingInv ==
  /\ \A i \in 1 .. Len(buffer) : buffer[i] = count - Len(buffer) + i
  /\ \/ Len(buffer) = count - bootCount
     \/ Len(buffer) = MaxBuffer /\ MaxBuffer < count - bootCount

(* Nothing is written before it is recorded, and the entry being recorded  *)
(* is not yet on its way.                                                  *)
EntriesAreOld ==
  \A f \in 1 .. Len(files) : \A e \in Nat :
    Placed(e, f) => e \in 1 .. count /\ (step # "free" => e # count)

OrderInv == EntriesAreOld /\ FilesAreInOrder

(* Cleanup removes no file but those with MaxRotated newer ones. *)
DoomedAreOld == \A f \in doomed : Cardinality(Newer(f, rotated)) >= MaxRotated

KeptInv == DoomedAreOld /\ EntriesAreKept

(* The live file with the lines on their way to it: no longer than was     *)
(* counted, but for the lines that were forgotten.                         *)
OnTheirWay == {w \in pending : w.file = live}
LinesInv ==
  /\ LiveFileIsBounded
  /\ Len(Export) + Cardinality(OnTheirWay) =< lineCount + allowance - MaxLines
  /\ allowance >= MaxLines
  /\ step \in {"appending", "cleaning"} => lineCount < MaxLines

(* What is left over MaxRotated is on the list of the running cleanup, but *)
(* for one file for each crash, failed removal or listing cut off.         *)
RotatedInv ==
  /\ Cardinality(rotated) =< MaxRotated + setbacks + Cardinality(doomed)
  /\ Cardinality(rotated) =< MaxRotated + setbacks + 1
  /\ step # "cleaning" => doomed = {}

-----------------------------------------------------------------------------
(* One lemma for each action. *)
LEMMA LogTypeInit == Init => LogTypeInv
<1> SUFFICES ASSUME Init PROVE LogTypeInv
  OBVIOUS
<1>1. IsFiniteSet(pending)
  BY FS_EmptySet DEF Init
<1>2. TypeOK
  BY SizeAssumption DEF Init, TypeOK
<1> QED BY <1>1, <1>2 DEF Init, LogTypeInv

(* An entry goes into the ring at the end, the oldest makes room for it. *)
LEMMA RecordTypes == ASSUME LogTypeInv, Record PROVE LogTypeInv'
<1> DEFINE kept == IF Len(buffer) >= MaxBuffer THEN Tail(buffer) ELSE buffer
<1>1. /\ buffer \in Seq(Nat) /\ Len(buffer) =< MaxBuffer /\ count \in Nat
      /\ pending \subseteq [entry : 1 .. count, file : 1 .. Len(files)] /\ lost \subseteq 1 .. count
  BY DEF LogTypeInv, TypeOK
<1>2. kept \in Seq(Nat) /\ Len(kept) < MaxBuffer
  <2>1. CASE Len(buffer) >= MaxBuffer
    <3>1. buffer # << >>
      BY <1>1, <2>1, SizeAssumption
    <3>2. Tail(buffer) \in Seq(Nat) /\ Len(Tail(buffer)) = Len(buffer) - 1
      BY <1>1, <3>1, HeadTailProperties
    <3> QED BY <1>1, <2>1, <3>2, SizeAssumption
  <2>2. CASE ~ (Len(buffer) >= MaxBuffer)
    BY <1>1, <2>2, SizeAssumption
  <2> QED BY <2>1, <2>2
<1>3. buffer' = Append(kept, count + 1)
  BY DEF Record
<1> HIDE DEF kept
<1>4. buffer' \in Seq(Nat) /\ Len(buffer') =< MaxBuffer
  BY <1>1, <1>2, <1>3, AppendProperties, SizeAssumption
<1>5. UNCHANGED <<bootCount, lineCount, files, live, rotated, doomed, pending, lost, allowance, setbacks>>
  BY DEF Record, disk
<1>6. count' = count + 1 /\ step' \in {"rotating", "appending"}
  BY DEF Record
<1>7. 1 .. count \subseteq 1 .. count'
  BY <1>1, <1>6
<1>8. pending' \subseteq [entry : 1 .. count', file : 1 .. Len(files')] /\ lost' \subseteq 1 .. count'
  BY <1>1, <1>5, <1>7
<1>9. TypeOK'
  BY <1>4, <1>5, <1>6, <1>8 DEF LogTypeInv, TypeOK
<1> QED BY <1>1, <1>5, <1>6, <1>9 DEF LogTypeInv, TypeOK

LEMMA RotateTypes == ASSUME LogTypeInv, Rotate PROVE LogTypeInv'
<1>1. UNCHANGED <<count, bootCount, buffer, files, pending>>
  BY DEF Rotate
<1>2. /\ live' \in 0 .. Len(files) /\ rotated' \subseteq 1 .. Len(files) /\ lost' \subseteq 1 .. count
      /\ allowance' \in Nat
  <2>1. live \in 0 .. Len(files) /\ rotated \subseteq 1 .. Len(files) /\ lost \subseteq 1 .. count
        /\ allowance \in Nat /\ Len(files) \in Nat /\ MaxLines \in Nat
    BY SizeAssumption DEF LogTypeInv, TypeOK
  <2>2. CASE live # 0 /\ live' = 0 /\ allowance' = MaxLines
    <3>1. PICK replaced \in Replaced :
            /\ rotated' = (rotated \ replaced) \cup {live}
            /\ lost' = lost \cup {e \in 1 .. count : \E f \in replaced : Placed(e, f)}
      BY <2>1, <2>2 DEF Rotate
    <3>2. lost' \subseteq 1 .. count
      BY <2>1, <3>1
    <3>3. rotated' \subseteq 1 .. Len(files)
      <4>1. live \in 1 .. Len(files)
        BY <2>1, <2>2
      <4> QED BY <2>1, <3>1, <4>1
    <3> QED BY <2>1, <2>2, <3>2, <3>3
  <2>3. CASE allowance' = allowance + MaxLines /\ UNCHANGED <<live, rotated, lost>>
    BY <2>1, <2>3
  <2> QED BY <2>2, <2>3 DEF Rotate
<1>3. doomed' \subseteq rotated' /\ setbacks' \in Nat
  <2>1. List(rotated') /\ setbacks \in Nat
    BY DEF Rotate, LogTypeInv, TypeOK
  <2> QED BY <2>1 DEF List, Excess
<1>4. step' = "cleaning" /\ lineCount' = 0
  BY DEF Rotate
<1>5. count > 0
  BY DEF Rotate, LogTypeInv
<1>6. TypeOK'
  BY <1>1, <1>2, <1>3, <1>4 DEF LogTypeInv, TypeOK
<1>7. live' # 0 => live' = Len(files') /\ live' \notin rotated'
  BY <1>1 DEF Rotate, LogTypeInv
<1> QED BY <1>1, <1>5, <1>6, <1>7 DEF LogTypeInv

LEMMA RemoveOldTypes == ASSUME LogTypeInv, RemoveOld PROVE LogTypeInv'
<1>1. UNCHANGED <<step, count, bootCount, buffer, lineCount, files, live, pending, lost, allowance>>
  BY DEF RemoveOld
<1>2. /\ doomed' \subseteq rotated' /\ rotated' \subseteq rotated /\ setbacks' \in Nat
  BY DEF RemoveOld, LogTypeInv, TypeOK
<1>3. TypeOK'
  BY <1>1, <1>2 DEF LogTypeInv, TypeOK
<1> QED BY <1>1, <1>2, <1>3 DEF LogTypeInv

LEMMA AppendLineTypes == ASSUME LogTypeInv, AppendLine PROVE LogTypeInv'
<1>1. UNCHANGED <<count, bootCount, buffer, rotated, doomed, allowance, setbacks>> /\ step' = "free"
  BY DEF AppendLine
<1>2. count \in 1 .. count
  BY DEF AppendLine, LogTypeInv, TypeOK
<1>3. CASE UNCHANGED <<live, files, pending, lineCount>> /\ lost' = lost \cup {count}
  <2>1. TypeOK'
    BY <1>1, <1>2, <1>3 DEF LogTypeInv, TypeOK
  <2> QED BY <1>1, <1>3, <2>1 DEF LogTypeInv
<1>4. CASE /\ live' = IF live = 0 THEN Len(files) + 1 ELSE live
           /\ files' = IF live = 0 THEN Append(files, << >>) ELSE files
           /\ pending' = pending \cup {[entry |-> count, file |-> live']}
           /\ lineCount' = lineCount + 1
           /\ UNCHANGED lost
  <2>1. files \in Seq(Seq(Nat)) /\ live \in 0 .. Len(files) /\ << >> \in Seq(Nat)
    BY DEF LogTypeInv, TypeOK
  <2>2. /\ files' \in Seq(Seq(Nat)) /\ live' \in 1 .. Len(files') /\ live' = Len(files')
        /\ Len(files') >= Len(files) /\ (live = 0 => live' = Len(files) + 1)
    <3>1. CASE live = 0
      BY <1>4, <2>1, <3>1, AppendProperties
    <3>2. CASE live # 0
      BY <1>4, <2>1, <3>2 DEF LogTypeInv
    <3> QED BY <3>1, <3>2
  <2>3. 1 .. Len(files) \subseteq 1 .. Len(files')
    BY <2>1, <2>2
  <2>4. [entry |-> count, file |-> live'] \in [entry : 1 .. count, file : 1 .. Len(files')]
    BY <1>2, <2>2
  <2>5. pending' \subseteq [entry : 1 .. count, file : 1 .. Len(files')]
    BY <1>4, <2>3, <2>4 DEF LogTypeInv, TypeOK
  <2>6. rotated' \subseteq 1 .. Len(files') /\ live' \notin rotated
    BY <1>1, <1>4, <2>1, <2>2, <2>3 DEF LogTypeInv, TypeOK
  <2>7. IsFiniteSet(pending')
    BY <1>4, FS_AddElement DEF LogTypeInv
  <2>8. TypeOK'
    BY <1>1, <1>4, <2>2, <2>5, <2>6 DEF LogTypeInv, TypeOK
  <2> QED BY <1>1, <2>2, <2>6, <2>7, <2>8 DEF LogTypeInv
<1> QED BY <1>3, <1>4 DEF AppendLine

LEMMA BackgroundWriteTypes == ASSUME LogTypeInv, BackgroundWrite PROVE LogTypeInv'
<1>1. UNCHANGED <<step, count, bootCount, buffer, lineCount, live, rotated, doomed, allowance, setbacks>>
  BY DEF BackgroundWrite
<1>2. PICK w \in pending :
        /\ pending' = pending \ {w}
        /\ \/ files' = [files EXCEPT ![w.file] = Append(@, w.entry)] /\ lost' = lost
           \/ lost' = lost \cup {w.entry} /\ files' = files
  BY DEF BackgroundWrite
<1>3. w.entry \in 1 .. count /\ w.file \in 1 .. Len(files) /\ files \in Seq(Seq(Nat)) /\ count \in Nat
  BY <1>2 DEF LogTypeInv, TypeOK
<1>4. files[w.file] \in Seq(Nat) /\ w.entry \in Nat
  BY <1>3
<1>5. Append(files[w.file], w.entry) \in Seq(Nat)
  BY <1>4, AppendProperties
<1>6. files' \in Seq(Seq(Nat)) /\ Len(files') = Len(files)
  <2>1. CASE files' = [files EXCEPT ![w.file] = Append(@, w.entry)]
    <3>1. files' = [files EXCEPT ![w.file] = Append(files[w.file], w.entry)]
      BY <2>1
    <3> QED BY <1>3, <1>5, <3>1, ExceptSeq
  <2> QED BY <1>2, <1>3, <2>1
<1>7. IsFiniteSet(pending')
  BY <1>2, FS_RemoveElement DEF LogTypeInv
<1>8. TypeOK'
  BY <1>1, <1>2, <1>3, <1>6 DEF LogTypeInv, TypeOK
<1> QED BY <1>1, <1>6, <1>7, <1>8 DEF LogTypeInv

LEMMA CrashTypes == ASSUME LogTypeInv, Crash PROVE LogTypeInv'
<1>1. UNCHANGED <<count, files, live, rotated>>
  BY DEF Crash, disk
<1>2. /\ step' = "free" /\ bootCount' = count /\ buffer' = << >> /\ doomed' = {} /\ pending' = {}
      /\ setbacks' \in Nat
  BY DEF Crash, LogTypeInv, TypeOK
<1>3. lost' \subseteq 1 .. count
  <2>1. {w.entry : w \in pending} \subseteq 1 .. count /\ lost \subseteq 1 .. count
    BY DEF LogTypeInv, TypeOK
  <2>2. step # "free" => count \in 1 .. count
    BY DEF LogTypeInv, TypeOK
  <2> QED BY <2>1, <2>2 DEF Crash
<1>4. lineCount' \in Nat /\ allowance' \in Nat
  <2>1. (live # 0 => files[live] \in Seq(Nat)) /\ allowance \in Nat /\ MaxLines \in Nat
    BY SizeAssumption DEF LogTypeInv, TypeOK
  <2> QED BY <2>1 DEF Crash
<1>5. TypeOK'
  BY <1>1, <1>2, <1>3, <1>4, SizeAssumption DEF LogTypeInv, TypeOK
<1> QED BY <1>1, <1>2, <1>5, FS_EmptySet DEF LogTypeInv, TypeOK

LEMMA LogTypeStep == ASSUME LogTypeInv, [Next]_vars PROVE LogTypeInv'
<1>1. CASE UNCHANGED vars
  BY <1>1 DEF vars, disk, LogTypeInv, TypeOK
<1> QED
  BY <1>1, RecordTypes, RotateTypes, RemoveOldTypes, AppendLineTypes, BackgroundWriteTypes, CrashTypes
     DEF Next

(* LogTypeInv holds throughout: every proof below starts from it. *)
LEMMA LogTypes == Spec => []LogTypeInv
<1>1. LogTypeInv /\ [Next]_vars => LogTypeInv'
  BY LogTypeStep
<1> QED BY <1>1, LogTypeInit, PTL DEF Spec

(* Every variable stays in its range and the ring in its capacity. *)
THEOREM LogTypeOK == Spec => []TypeOK
<1>1. LogTypeInv => TypeOK
  BY DEF LogTypeInv
<1> QED BY <1>1, LogTypes, PTL

-----------------------------------------------------------------------------
(* The ring is only written by record and emptied by a restart. *)
LEMMA RingInit == Init => RingInv
BY SizeAssumption DEF Init, RingInv

LEMMA RingRecord == ASSUME LogTypeInv, RingInv, Record PROVE RingInv'
<1> DEFINE kept == IF Len(buffer) >= MaxBuffer THEN Tail(buffer) ELSE buffer
<1>1. /\ buffer \in Seq(Nat) /\ Len(buffer) =< MaxBuffer /\ count \in Nat /\ bootCount \in Nat
      /\ MaxBuffer \in Nat \ {0} /\ bootCount =< count
  BY SizeAssumption DEF LogTypeInv, TypeOK
<1>2. /\ kept \in Seq(Nat)
      /\ Len(kept) = IF Len(buffer) >= MaxBuffer THEN Len(buffer) - 1 ELSE Len(buffer)
      /\ \A i \in 1 .. Len(kept) : kept[i] = count - Len(kept) + i
  <2>1. CASE Len(buffer) >= MaxBuffer
    <3>1. buffer # << >>
      BY <1>1, <2>1
    <3>2. /\ Tail(buffer) \in Seq(Nat) /\ Len(Tail(buffer)) = Len(buffer) - 1
          /\ \A i \in 1 .. Len(Tail(buffer)) : Tail(buffer)[i] = buffer[i + 1]
      BY <1>1, <3>1, HeadTailProperties
    <3>3. ASSUME NEW i \in 1 .. Len(Tail(buffer))
          PROVE  Tail(buffer)[i] = count - Len(Tail(buffer)) + i
      <4>1. i \in Nat /\ i + 1 \in 1 .. Len(buffer)
        BY <1>1, <3>2
      <4>2. buffer[i + 1] = count - Len(buffer) + (i + 1)
        BY <4>1 DEF RingInv
      <4> QED BY <1>1, <3>2, <4>1, <4>2
    <3> QED BY <2>1, <3>2, <3>3
  <2>2. CASE ~ (Len(buffer) >= MaxBuffer)
    BY <1>1, <2>2 DEF RingInv
  <2> QED BY <2>1, <2>2
<1>3. buffer' = Append(kept, count + 1) /\ count' = count + 1 /\ bootCount' = bootCount
  BY DEF Record
<1> HIDE DEF kept
<1>4. /\ Len(buffer') = Len(kept) + 1 /\ Len(kept) \in Nat
      /\ \A i \in 1 .. Len(kept) : buffer'[i] = kept[i]
      /\ buffer'[Len(kept) + 1] = count + 1
  BY <1>1, <1>2, <1>3, AppendProperties
<1>5. ASSUME NEW i \in 1 .. Len(buffer') PROVE buffer'[i] = count' - Len(buffer') + i
  <2>1. CASE i = Len(kept) + 1
    BY <1>1, <1>3, <1>4, <2>1
  <2>2. CASE i \in 1 .. Len(kept)
    <3>1. buffer'[i] = count - Len(kept) + i
      BY <1>2, <1>4, <2>2
    <3> QED BY <1>1, <1>3, <1>4, <2>2, <3>1
  <2> QED BY <1>4, <2>1, <2>2
<1>6. \/ Len(buffer') = count' - bootCount'
      \/ Len(buffer') = MaxBuffer /\ MaxBuffer < count' - bootCount'
  <2>1. Len(buffer) \in Nat
    BY <1>1
  <2>2. \/ Len(buffer) = count - bootCount
        \/ Len(buffer) = MaxBuffer /\ MaxBuffer < count - bootCount
    BY DEF RingInv
  <2>3. Len(buffer') = IF Len(buffer) >= MaxBuffer THEN Len(buffer) ELSE Len(buffer) + 1
    BY <1>2, <1>4, <2>1
  <2> QED BY <1>1, <1>3, <2>1, <2>2, <2>3
<1> QED BY <1>5, <1>6 DEF RingInv

LEMMA RingStep == ASSUME LogTypeInv, RingInv, [Next]_vars PROVE RingInv'
<1>1. CASE UNCHANGED <<buffer, count, bootCount>>
  BY <1>1 DEF RingInv
<1>2. CASE Crash
  <2>1. buffer' = << >> /\ count' = count /\ bootCount' = count /\ count \in Nat
    BY <1>2 DEF Crash, LogTypeInv, TypeOK
  <2> QED BY <2>1 DEF RingInv
<1>3. Rotate \/ RemoveOld \/ AppendLine \/ BackgroundWrite \/ UNCHANGED vars
        => UNCHANGED <<buffer, count, bootCount>>
  BY DEF Rotate, RemoveOld, AppendLine, BackgroundWrite, vars
<1> QED BY <1>1, <1>2, <1>3, RingRecord DEF Next

(* get_recent answers with the newest entries of this process, newest      *)
(* first and without a gap, however often the ring has wrapped and the     *)
(* process been restarted.                                                 *)
THEOREM LogRecentIsNewest == Spec => []RecentIsNewest
<1>1. RingInv /\ LogTypeInv /\ [Next]_vars => RingInv'
  BY RingStep
<1>2. RingInv /\ LogTypeInv => RecentIsNewest
  <2> SUFFICES ASSUME RingInv, LogTypeInv, NEW n \in 0 .. MaxBuffer + 1
               PROVE  /\ \A i \in 1 .. Len(GetRecent(n)) : GetRecent(n)[i] = count + 1 - i
                      /\ \/ Len(GetRecent(n)) = n
                         \/ (Len(GetRecent(n)) = count - bootCount /\ count - bootCount < n)
                         \/ (Len(GetRecent(n)) = MaxBuffer /\ MaxBuffer < n)
    BY DEF RecentIsNewest
  <2> DEFINE k == IF n < Len(buffer) THEN n ELSE Len(buffer)
  <2>1. /\ Len(buffer) \in Nat /\ count \in Nat /\ bootCount \in Nat /\ n \in Nat
        /\ MaxBuffer \in Nat \ {0}
    BY SizeAssumption DEF LogTypeInv, TypeOK
  <2>2. k \in Nat /\ k =< n /\ k =< Len(buffer) /\ (k = n \/ (k = Len(buffer) /\ Len(buffer) < n))
    BY <2>1
  <2>3. GetRecent(n) = [i \in 1 .. k |-> buffer[Len(buffer) + 1 - i]]
    BY DEF GetRecent
  <2> HIDE DEF k
  <2>4. Len(GetRecent(n)) = k
    BY <2>2, <2>3
  <2>5. ASSUME NEW i \in 1 .. k PROVE GetRecent(n)[i] = count + 1 - i
    <3>1. Len(buffer) + 1 - i \in 1 .. Len(buffer)
      BY <2>1, <2>2
    <3>2. buffer[Len(buffer) + 1 - i] = count - Len(buffer) + (Len(buffer) + 1 - i)
      BY <3>1 DEF RingInv
    <3>3. GetRecent(n)[i] = buffer[Len(buffer) + 1 - i]
      BY <2>3
    <3> QED BY <2>1, <2>2, <3>2, <3>3
  <2>6. \/ k = n
        \/ k = count - bootCount /\ count - bootCount < n
        \/ k = MaxBuffer /\ MaxBuffer < n
    BY <2>1, <2>2 DEF RingInv
  <2> QED BY <2>4, <2>5, <2>6
<1> QED BY <1>1, <1>2, RingInit, LogTypes, PTL DEF Spec

-----------------------------------------------------------------------------
(* What one background write does to the file it goes to. *)
LEMMA WriteLands ==
  ASSUME LogTypeInv, NEW w \in pending,
         files' = [files EXCEPT ![w.file] = Append(@, w.entry)]
  PROVE  /\ \A f \in 1 .. Len(files) : f # w.file => files'[f] = files[f]
         /\ Len(files'[w.file]) = Len(files[w.file]) + 1
         /\ \A i \in 1 .. Len(files[w.file]) : files'[w.file][i] = files[w.file][i]
         /\ files'[w.file][Len(files[w.file]) + 1] = w.entry
         /\ Len(files[w.file]) \in Nat
         /\ Len(files') = Len(files)
<1>1. w.entry \in Nat /\ w.file \in 1 .. Len(files) /\ files \in Seq(Seq(Nat))
  BY DEF LogTypeInv, TypeOK
<1>2. files[w.file] \in Seq(Nat) /\ files \in [1 .. Len(files) -> Seq(Nat)]
  BY <1>1, LenProperties
<1>3. files'[w.file] = Append(files[w.file], w.entry)
  BY <1>1, <1>2
<1>4. \A f \in 1 .. Len(files) : f # w.file => files'[f] = files[f]
  BY <1>2
<1>5. Len(files') = Len(files)
  BY <1>1
<1> QED BY <1>1, <1>2, <1>3, <1>4, <1>5, AppendProperties

(* An entry is in a file or on its way there only if it was before, or if  *)
(* AppendLine has just sent it to the live file.                           *)
LEMMA PlacedBack ==
  ASSUME LogTypeInv, [Next]_vars, NEW e, NEW f \in 1 .. Len(files'), Placed(e, f)'
  PROVE  \/ f \in 1 .. Len(files) /\ Placed(e, f)
         \/ AppendLine /\ e = count /\ f = live'
<1>1. CASE files' = files /\ pending' \subseteq pending
  BY <1>1 DEF Placed, OnDisk
<1>2. Record \/ Rotate \/ RemoveOld \/ Crash \/ UNCHANGED vars => files' = files /\ pending' \subseteq pending
  BY DEF Record, Rotate, RemoveOld, Crash, vars, disk
<1>3. CASE AppendLine
  <2>1. CASE UNCHANGED <<files, pending>>
    BY <2>1 DEF Placed, OnDisk
  <2>2. CASE /\ files' = IF live = 0 THEN Append(files, << >>) ELSE files
             /\ pending' = pending \cup {[entry |-> count, file |-> live']}
    <3>1. files \in Seq(Seq(Nat)) /\ << >> \in Seq(Nat)
      BY DEF LogTypeInv, TypeOK
    <3>2. CASE [entry |-> e, file |-> f] \in pending
      BY <3>2 DEF LogTypeInv, TypeOK, Placed
    <3>3. CASE [entry |-> e, file |-> f] = [entry |-> count, file |-> live']
      BY <1>3, <3>3
    <3>4. CASE OnDisk(e, f)'
      <4>1. CASE live # 0
        BY <2>2, <3>4, <4>1 DEF OnDisk, Placed
      <4>2. CASE live = 0
        <5>1. /\ Len(files') = Len(files) + 1 /\ files'[Len(files) + 1] = << >> /\ Len(files) \in Nat
              /\ \A i \in 1 .. Len(files) : files'[i] = files[i]
          BY <2>2, <3>1, <4>2, AppendProperties
        <5>2. CASE f = Len(files) + 1
          BY <3>4, <5>1, <5>2 DEF OnDisk
        <5>3. CASE f \in 1 .. Len(files)
          BY <3>4, <5>1, <5>3 DEF OnDisk, Placed
        <5> QED BY <5>1, <5>2, <5>3
      <4> QED BY <4>1, <4>2
    <3> QED BY <2>2, <3>2, <3>3, <3>4 DEF Placed
  <2> QED BY <1>3, <2>1, <2>2 DEF AppendLine
<1>4. CASE BackgroundWrite
  <2>1. PICK w \in pending :
          /\ pending' = pending \ {w}
          /\ \/ files' = [files EXCEPT ![w.file] = Append(@, w.entry)]
             \/ files' = files
    BY <1>4 DEF BackgroundWrite
  <2>2. CASE files' = [files EXCEPT ![w.file] = Append(@, w.entry)]
    <3>1. Len(files') = Len(files)
      BY <2>2, WriteLands
    <3>2. CASE [entry |-> e, file |-> f] \in pending'
      BY <2>1, <3>1, <3>2 DEF Placed
    <3>3. CASE OnDisk(e, f)'
      <4>1. CASE f # w.file
        BY <2>2, <3>1, <3>3, <4>1, WriteLands DEF OnDisk, Placed
      <4>2. CASE f = w.file
        <5>1. PICK i \in 1 .. Len(files'[f]) : files'[f][i] = e
          BY <3>3 DEF OnDisk
        <5>2. CASE i = Len(files[f]) + 1
          <6>1. e = w.entry
            BY <2>2, <4>2, <5>1, <5>2, WriteLands
          <6>2. w = [entry |-> e, file |-> f]
            BY <4>2, <6>1 DEF LogTypeInv, TypeOK
          <6> QED BY <3>1, <6>2 DEF Placed
        <5>3. CASE i # Len(files[f]) + 1
          <6>1. Len(files'[f]) = Len(files[f]) + 1 /\ Len(files[f]) \in Nat
            BY <2>2, <4>2, WriteLands
          <6>2. i \in 1 .. Len(files[f])
            BY <5>1, <5>3, <6>1
          <6>3. files[f][i] = e
            BY <2>2, <4>2, <5>1, <6>2, WriteLands
          <6> QED BY <3>1, <6>2, <6>3 DEF Placed, OnDisk
        <5> QED BY <5>2, <5>3
      <4> QED BY <4>1, <4>2
    <3> QED BY <3>2, <3>3 DEF Placed
  <2>3. CASE files' = files
    BY <1>1, <2>1, <2>3
  <2> QED BY <2>1, <2>2, <2>3
<1> QED BY <1>1, <1>2, <1>3, <1>4 DEF Next

(* It stays there, unless a fault or a crash loses it. *)
LEMMA PlacedStays ==
  ASSUME LogTypeInv, [Next]_vars, NEW e, NEW f \in 1 .. Len(files), Placed(e, f)
  PROVE  f \in 1 .. Len(files') /\ (Placed(e, f)' \/ e \in lost')
<1>1. CASE files' = files /\ pending \subseteq pending'
  BY <1>1 DEF Placed, OnDisk
<1>2. Record \/ Rotate \/ RemoveOld \/ UNCHANGED vars => files' = files /\ pending \subseteq pending'
  BY DEF Record, Rotate, RemoveOld, vars, disk
<1>3. CASE AppendLine
  <2>1. CASE UNCHANGED <<files, pending>>
    BY <1>1, <2>1
  <2>2. CASE /\ files' = IF live = 0 THEN Append(files, << >>) ELSE files
             /\ pending' = pending \cup {[entry |-> count, file |-> live']}
    <3>1. files \in Seq(Seq(Nat)) /\ << >> \in Seq(Nat)
      BY DEF LogTypeInv, TypeOK
    <3>2. f \in 1 .. Len(files') /\ files'[f] = files[f]
      BY <2>2, <3>1, AppendProperties
    <3> QED BY <2>2, <3>2 DEF Placed, OnDisk
  <2> QED BY <1>3, <2>1, <2>2 DEF AppendLine
<1>4. CASE BackgroundWrite
  <2>1. PICK w \in pending :
          /\ pending' = pending \ {w}
          /\ \/ files' = [files EXCEPT ![w.file] = Append(@, w.entry)]
             \/ files' = files /\ lost' = lost \cup {w.entry}
    BY <1>4 DEF BackgroundWrite
  <2>2. CASE files' = [files EXCEPT ![w.file] = Append(@, w.entry)]
    <3>1. Len(files') = Len(files)
      BY <2>2, WriteLands
    <3>2. CASE [entry |-> e, file |-> f] \in pending
      <4>1. CASE w = [entry |-> e, file |-> f]
        <5>1. e = w.entry /\ f = w.file
          BY <4>1
        <5>2. Len(files'[f]) = Len(files[f]) + 1 /\ Len(files[f]) \in Nat
              /\ files'[f][Len(files[f]) + 1] = e
          BY <2>2, <5>1, WriteLands
        <5>3. OnDisk(e, f)'
          BY <5>2 DEF OnDisk
        <5> QED BY <3>1, <5>3 DEF Placed
      <4>2. CASE w # [entry |-> e, file |-> f]
        BY <2>1, <3>1, <3>2, <4>2 DEF Placed
      <4> QED BY <4>1, <4>2
    <3>3. CASE OnDisk(e, f)
      <4>1. CASE f # w.file
        BY <2>2, <3>1, <3>3, <4>1, WriteLands DEF OnDisk, Placed
      <4>2. CASE f = w.file
        <5>1. PICK i \in 1 .. Len(files[f]) : files[f][i] = e
          BY <3>3 DEF OnDisk
        <5>2. Len(files'[f]) = Len(files[f]) + 1 /\ Len(files[f]) \in Nat
          BY <2>2, <4>2, WriteLands
        <5>3. files'[f][i] = e
          BY <2>2, <4>2, <5>1, WriteLands
        <5>4. i \in 1 .. Len(files'[f])
          BY <5>1, <5>2
        <5> QED BY <3>1, <5>3, <5>4 DEF Placed, OnDisk
      <4> QED BY <4>1, <4>2
    <3> QED BY <3>2, <3>3 DEF Placed
  <2>3. CASE files' = files /\ lost' = lost \cup {w.entry}
    <3>1. CASE w = [entry |-> e, file |-> f]
      BY <2>3, <3>1
    <3>2. CASE w # [entry |-> e, file |-> f]
      BY <2>1, <2>3, <3>2 DEF Placed, OnDisk
    <3> QED BY <2>3, <3>1, <3>2
  <2> QED BY <2>1, <2>2, <2>3
<1>5. CASE Crash
  <2>1. files' = files /\ {w.entry : w \in pending} \subseteq lost'
    BY <1>5 DEF Crash, disk
  <2>2. CASE [entry |-> e, file |-> f] \in pending
    <3>1. e \in {w.entry : w \in pending}
      BY <2>2
    <3> QED BY <2>1, <3>1
  <2>3. CASE OnDisk(e, f)
    BY <2>1, <2>3 DEF OnDisk, Placed
  <2> QED BY <2>1, <2>2, <2>3 DEF Placed
<1> QED BY <1>1, <1>2, <1>3, <1>4, <1>5 DEF Next

(* What is in a file or on its way there was recorded before. *)
LEMMA EntriesAreOldStep == ASSUME LogTypeInv, EntriesAreOld, [Next]_vars PROVE EntriesAreOld'
<1> SUFFICES ASSUME NEW f \in 1 .. Len(files'), NEW e \in Nat, Placed(e, f)'
             PROVE  e \in 1 .. count' /\ (step' # "free" => e # count')
  BY DEF EntriesAreOld
<1>1. \/ f \in 1 .. Len(files) /\ Placed(e, f)
      \/ AppendLine /\ e = count /\ f = live'
  BY PlacedBack
<1>2. CASE AppendLine /\ e = count
  BY <1>2 DEF AppendLine, LogTypeInv, TypeOK
<1>3. CASE f \in 1 .. Len(files) /\ Placed(e, f)
  <2>1. e \in 1 .. count /\ (step # "free" => e # count) /\ count \in Nat
    BY <1>3 DEF EntriesAreOld, LogTypeInv, TypeOK
  <2>2. Record => step = "free" /\ count' = count + 1
    BY DEF Record
  <2>3. AppendLine \/ Crash => count' = count /\ step' = "free"
    BY DEF AppendLine, Crash
  <2>4. Rotate \/ RemoveOld \/ BackgroundWrite \/ UNCHANGED vars
          => count' = count /\ (step' # "free" => step # "free")
    BY DEF Rotate, RemoveOld, BackgroundWrite, vars
  <2> QED BY <2>1, <2>2, <2>3, <2>4 DEF Next
<1> QED BY <1>1, <1>2, <1>3

(* A line goes to the newest file and is newer than all others. *)
LEMMA FilesAreInOrderStep == ASSUME LogTypeInv, OrderInv, [Next]_vars PROVE FilesAreInOrder'
<1> SUFFICES ASSUME NEW f \in 1 .. Len(files'), NEW g \in 1 .. Len(files'), f < g,
                    NEW d \in 1 .. count', NEW e \in 1 .. count', Placed(d, f)', Placed(e, g)'
             PROVE  d < e
  BY DEF FilesAreInOrder
<1>0. files \in Seq(Seq(Nat)) /\ count \in Nat /\ d \in Nat /\ e \in Nat
  BY DEF LogTypeInv, TypeOK
<1>1. \/ f \in 1 .. Len(files) /\ Placed(d, f)
      \/ AppendLine /\ d = count /\ f = live'
  BY PlacedBack
<1>2. \/ g \in 1 .. Len(files) /\ Placed(e, g)
      \/ AppendLine /\ e = count /\ g = live'
  BY PlacedBack
<1>3. LogTypeInv'
  BY LogTypeStep
<1>4. CASE AppendLine /\ f = live'
  <2>1. live' # 0 => live' = Len(files') /\ Len(files') \in Nat
    BY <1>3 DEF LogTypeInv, TypeOK
  <2> QED BY <1>4, <2>1
<1>5. CASE AppendLine /\ e = count /\ f \in 1 .. Len(files) /\ Placed(d, f)
  <2>1. step # "free"
    BY <1>5 DEF AppendLine
  <2>2. d \in 1 .. count /\ d # count
    BY <1>0, <1>5, <2>1 DEF OrderInv, EntriesAreOld
  <2> QED BY <1>0, <1>5, <2>2
<1>6. CASE f \in 1 .. Len(files) /\ Placed(d, f) /\ g \in 1 .. Len(files) /\ Placed(e, g)
  <2>1. d \in 1 .. count /\ e \in 1 .. count
    BY <1>0, <1>6 DEF OrderInv, EntriesAreOld
  <2> QED BY <1>6, <2>1 DEF OrderInv, FilesAreInOrder
<1> QED BY <1>1, <1>2, <1>4, <1>5, <1>6

(* However late the background writes land, all that is in an older file   *)
(* was recorded before all that is in a newer one.                         *)
THEOREM LogFilesAreInOrder == Spec => []FilesAreInOrder
<1>1. Init => OrderInv
  BY DEF Init, OrderInv, EntriesAreOld, FilesAreInOrder
<1>2. OrderInv /\ LogTypeInv /\ [Next]_vars => OrderInv'
  BY EntriesAreOldStep, FilesAreInOrderStep DEF OrderInv
<1>3. OrderInv => FilesAreInOrder
  BY DEF OrderInv
<1> QED BY <1>1, <1>2, <1>3, LogTypes, PTL DEF Spec

-----------------------------------------------------------------------------
(* The number of newer files only counts down when a newer one goes: that  *)
(* the oldest but MaxRotated are removed does not lower it below that, nor *)
(* does a rotation that replaces the newest.                               *)
LEMMA NewerRemoved ==
  ASSUME NEW S, IsFiniteSet(S), S \subseteq Nat, NEW f \in S, NEW g \in Nat,
         Cardinality(Newer(f, S)) >= MaxRotated, Cardinality(Newer(g, S)) >= MaxRotated
  PROVE  Cardinality(Newer(g, S \ {f})) >= MaxRotated
<1>1. CASE f > g
  <2>1. Newer(f, S) \subseteq Newer(g, S \ {f})
    <3> SUFFICES ASSUME NEW h \in S, h > f PROVE h > g /\ h # f
      BY DEF Newer
    <3>1. h \in Nat /\ f \in Nat
      OBVIOUS
    <3> QED BY <1>1, <3>1
  <2>2. Newer(g, S \ {f}) \subseteq S /\ Newer(f, S) \subseteq S
    BY DEF Newer
  <2>3. IsFiniteSet(Newer(g, S \ {f}))
    BY <2>2, FS_Subset
  <2>4. Cardinality(Newer(f, S)) =< Cardinality(Newer(g, S \ {f}))
    BY <2>1, <2>3, FS_Subset
  <2>5. Cardinality(Newer(f, S)) \in Nat /\ Cardinality(Newer(g, S \ {f})) \in Nat
    BY <2>2, FS_Subset, FS_CardinalityType
  <2> QED BY <2>4, <2>5, SizeAssumption
<1>2. CASE ~ (f > g)
  <2>1. Newer(g, S \ {f}) = Newer(g, S)
    BY <1>2 DEF Newer
  <2> QED BY <2>1
<1> QED BY <1>1, <1>2

LEMMA NewerReplaced ==
  ASSUME NEW S, IsFiniteSet(S), S \subseteq Nat, NEW l \in Nat, \A f \in S : f < l,
         NEW R, R = {} \/ (\E f \in S : R = {f} /\ Newer(f, S) = {}),
         NEW g \in Nat, g < l, Cardinality(Newer(g, S)) >= MaxRotated
  PROVE  Cardinality(Newer(g, (S \ R) \cup {l})) >= MaxRotated
<1> DEFINE N == Newer(g, (S \ R) \cup {l})
<1>1. Newer(g, S) \subseteq S /\ IsFiniteSet(Newer(g, S))
  BY FS_Subset DEF Newer
<1>2. N = (Newer(g, S) \ R) \cup {l} /\ l \notin Newer(g, S)
  BY DEF Newer
<1>3. Cardinality(Newer(g, S)) \in Nat
  BY <1>1, FS_CardinalityType
<1> HIDE DEF N
<1>4. CASE R \cap Newer(g, S) = {}
  <2>1. N = Newer(g, S) \cup {l}
    BY <1>2, <1>4
  <2>2. Cardinality(Newer(g, S) \cup {l}) = Cardinality(Newer(g, S)) + 1
    BY <1>1, <1>2, FS_AddElement
  <2>3. Cardinality(Newer(g, S)) + 1 >= MaxRotated
    BY <1>3, SizeAssumption
  <2> QED BY <2>1, <2>2, <2>3 DEF N
<1>5. CASE R \cap Newer(g, S) # {}
  <2>1. PICK f \in S : R = {f} /\ Newer(f, S) = {}
    BY <1>5
  <2>2. f \in Newer(g, S)
    BY <1>5, <2>1
  <2>3. IsFiniteSet(Newer(g, S) \ {f}) /\ Cardinality(Newer(g, S) \ {f}) = Cardinality(Newer(g, S)) - 1
    BY <1>1, <2>2, FS_RemoveElement
  <2>4. l \notin Newer(g, S) \ {f}
    BY <1>2
  <2>5. Cardinality((Newer(g, S) \ {f}) \cup {l}) = Cardinality(Newer(g, S))
    <3>1. Cardinality((Newer(g, S) \ {f}) \cup {l}) = Cardinality(Newer(g, S) \ {f}) + 1
      BY <2>3, <2>4, FS_AddElement
    <3> QED BY <1>3, <2>3, <3>1
  <2> QED BY <1>2, <2>1, <2>5 DEF N
<1> QED BY <1>4, <1>5

(* The rotated files are finitely many, and older than the live one. *)
LEMMA RotatedAreFinite ==
  ASSUME LogTypeInv
  PROVE  /\ IsFiniteSet(rotated) /\ rotated \subseteq Nat
         /\ live # 0 => live \in Nat /\ \A f \in rotated : f < live
<1>1. rotated \subseteq 1 .. Len(files) /\ Len(files) \in Nat
  BY DEF LogTypeInv, TypeOK
<1>2. IsFiniteSet(1 .. Len(files))
  BY <1>1, FS_Interval
<1>3. IsFiniteSet(rotated)
  BY <1>1, <1>2, FS_Subset
<1>4. ASSUME live # 0 PROVE live \in Nat /\ \A f \in rotated : f < live
  <2>1. live = Len(files) /\ live \notin rotated
    BY <1>4 DEF LogTypeInv
  <2> QED BY <1>1, <2>1
<1> QED BY <1>1, <1>3, <1>4

LEMMA DoomedAreOldStep == ASSUME LogTypeInv, DoomedAreOld, [Next]_vars PROVE DoomedAreOld'
<1>1. CASE Rotate
  <2>1. PICK seen \in SUBSET rotated' : doomed' = Excess(seen)
    BY <1>1 DEF Rotate, List
  <2>2. ASSUME NEW f \in doomed' PROVE Cardinality(Newer(f, rotated')) >= MaxRotated
    <3>1. Cardinality(Newer(f, seen)) >= MaxRotated
      BY <2>1, <2>2 DEF Excess
    <3>2. Newer(f, seen) \subseteq Newer(f, rotated') /\ Newer(f, rotated') \subseteq rotated'
      BY <2>1 DEF Newer
    <3>3. IsFiniteSet(rotated')
      <4>1. rotated' \subseteq 1 .. Len(files') /\ Len(files') \in Nat
        BY LogTypeStep DEF LogTypeInv, TypeOK
      <4>2. IsFiniteSet(1 .. Len(files'))
        BY <4>1, FS_Interval
      <4> QED BY <4>1, <4>2, FS_Subset
    <3>4. IsFiniteSet(Newer(f, rotated'))
      BY <3>2, <3>3, FS_Subset
    <3>5. /\ Cardinality(Newer(f, seen)) =< Cardinality(Newer(f, rotated'))
          /\ Cardinality(Newer(f, seen)) \in Nat /\ Cardinality(Newer(f, rotated')) \in Nat
      BY <3>2, <3>4, FS_Subset, FS_CardinalityType
    <3> QED BY <3>1, <3>5, SizeAssumption
  <2> QED BY <2>2 DEF DoomedAreOld, Newer
<1>2. CASE RemoveOld
  <2>1. PICK f \in doomed : doomed' = doomed \ {f} /\ (rotated' = rotated \ {f} \/ rotated' = rotated)
    BY <1>2 DEF RemoveOld
  <2>2. f \in rotated /\ doomed \subseteq rotated
    BY <2>1 DEF LogTypeInv, TypeOK
  <2>3. ASSUME NEW g \in doomed' PROVE Cardinality(Newer(g, rotated'))  >= MaxRotated
    <3>1. Cardinality(Newer(f, rotated)) >= MaxRotated /\ Cardinality(Newer(g, rotated)) >= MaxRotated
      BY <2>1 DEF DoomedAreOld
    <3>2. g \in Nat
      BY <2>1, <2>2, RotatedAreFinite
    <3>3. Cardinality(Newer(g, rotated \ {f})) >= MaxRotated
      BY <2>2, <3>1, <3>2, RotatedAreFinite, NewerRemoved
    <3> QED BY <2>1, <3>1, <3>3
  <2> QED BY <2>3 DEF DoomedAreOld, Newer
<1>3. Record \/ AppendLine \/ BackgroundWrite \/ Crash \/ UNCHANGED vars
        => rotated' = rotated /\ doomed' \subseteq doomed
  BY DEF Record, AppendLine, BackgroundWrite, Crash, vars, disk
<1>4. CASE rotated' = rotated /\ doomed' \subseteq doomed
  BY <1>4 DEF DoomedAreOld, Newer
<1> QED BY <1>1, <1>2, <1>3, <1>4 DEF Next

(* Where a file's entries are not missed: it is there, or there are enough *)
(* newer ones.                                                             *)
IsKept(f) == f = live \/ f \in rotated \/ Cardinality(Newer(f, rotated)) >= MaxRotated

LEMMA KeptStays ==
  ASSUME LogTypeInv, DoomedAreOld, [Next]_vars, NEW f \in 1 .. Len(files), IsKept(f)
  PROVE  \/ IsKept(f)'
         \/ \A e \in 1 .. count : Placed(e, f) => e \in lost'
<1>1. Len(files) \in Nat /\ f \in Nat
  BY DEF LogTypeInv, TypeOK
<1>2. CASE Rotate
  <2>1. CASE live # 0 /\ live' = 0
    <3>1. PICK R \in Replaced :
            /\ rotated' = (rotated \ R) \cup {live}
            /\ lost' = lost \cup {e \in 1 .. count : \E g \in R : Placed(e, g)}
      BY <1>2, <2>1 DEF Rotate
    <3>2. CASE f = live
      BY <3>1, <3>2 DEF IsKept
    <3>3. CASE f \in rotated
      BY <3>1, <3>3 DEF IsKept
    <3>4. CASE f # live /\ Cardinality(Newer(f, rotated)) >= MaxRotated
      <4>1. R = {} \/ (\E g \in rotated : R = {g} /\ Newer(g, rotated) = {})
        BY <3>1 DEF Replaced
      <4>2. f < live
        BY <1>1, <2>1, <3>4 DEF LogTypeInv
      <4>3. Cardinality(Newer(f, (rotated \ R) \cup {live})) >= MaxRotated
        BY <1>1, <2>1, <3>4, <4>1, <4>2, RotatedAreFinite, NewerReplaced
      <4> QED BY <3>1, <4>3 DEF IsKept, Newer
    <3> QED BY <3>2, <3>3, <3>4 DEF IsKept
  <2>2. CASE UNCHANGED <<live, rotated>>
    BY <2>2 DEF IsKept, Newer
  <2> QED BY <1>2, <2>1, <2>2 DEF Rotate
<1>3. CASE RemoveOld
  <2>1. PICK g \in doomed : live' = live /\ (rotated' = rotated \ {g} \/ rotated' = rotated)
    BY <1>3 DEF RemoveOld
  <2>2. g \in rotated /\ Cardinality(Newer(g, rotated)) >= MaxRotated
    BY <2>1 DEF LogTypeInv, TypeOK, DoomedAreOld
  <2>3. CASE rotated' = rotated
    BY <2>1, <2>3 DEF IsKept, Newer
  <2>4. CASE rotated' = rotated \ {g} /\ f # g /\ (f = live \/ f \in rotated)
    BY <2>1, <2>4 DEF IsKept
  <2>5. CASE rotated' = rotated \ {g} /\ Cardinality(Newer(f, rotated)) >= MaxRotated
    <3>1. Cardinality(Newer(f, rotated \ {g})) >= MaxRotated
      BY <1>1, <2>2, <2>5, RotatedAreFinite, NewerRemoved
    <3> QED BY <2>5, <3>1 DEF IsKept, Newer
  <2> QED BY <2>1, <2>2, <2>3, <2>4, <2>5 DEF IsKept
<1>4. CASE AppendLine
  <2>1. live' = live \/ live = 0
    BY <1>4 DEF AppendLine
  <2>2. rotated' = rotated
    BY <1>4 DEF AppendLine
  <2> QED BY <1>1, <2>1, <2>2 DEF IsKept, Newer
<1>5. Record \/ BackgroundWrite \/ Crash \/ UNCHANGED vars => UNCHANGED <<live, rotated>>
  BY DEF Record, BackgroundWrite, Crash, vars, disk
<1>6. CASE UNCHANGED <<live, rotated>>
  BY <1>6 DEF IsKept, Newer
<1> QED BY <1>2, <1>3, <1>4, <1>5, <1>6 DEF Next

(* An entry is where it was, or just sent to the live file, or lost. *)
LEMMA EntriesAreKeptStep ==
  ASSUME LogTypeInv, KeptInv, [Next]_vars PROVE EntriesAreKept'
<1> SUFFICES ASSUME NEW e \in 1 .. count', e \notin lost', ~ (e = count' /\ step' # "free")
             PROVE  \E f \in 1 .. Len(files') : Placed(e, f)' /\ IsKept(f)'
  BY DEF EntriesAreKept, IsKept
<1>1. count \in Nat /\ lost \subseteq lost' /\ 1 .. count \subseteq 1 .. count'
  BY DEF LogTypeInv, TypeOK, Next, vars, Record, Rotate, RemoveOld, AppendLine, BackgroundWrite, Crash
<1>2. e \in 1 .. count
  BY <1>1 DEF Next, vars, Record, Rotate, RemoveOld, AppendLine, BackgroundWrite, Crash
<1>3. CASE e = count /\ step # "free"
  <2>1. ~ Crash /\ ~ Record
    BY <1>3 DEF Crash, Record
  <2>2. AppendLine
    BY <1>3, <2>1 DEF Next, vars, Rotate, RemoveOld, BackgroundWrite
  <2>3. /\ live' # 0
        /\ [entry |-> count, file |-> live'] \in pending'
    BY <1>3, <2>2 DEF AppendLine, LogTypeInv, TypeOK
  <2>4. live' \in 1 .. Len(files')
    BY <2>3, LogTypeStep DEF LogTypeInv, TypeOK
  <2>5. ASSUME NEW f \in 1 .. Len(files'), f = live' PROVE Placed(e, f)' /\ IsKept(f)'
    BY <1>3, <2>3, <2>5 DEF Placed, IsKept
  <2> QED BY <2>4, <2>5
<1>4. CASE ~ (e = count /\ step # "free")
  <2>1. e \notin lost
    BY <1>1
  <2>2. PICK f \in 1 .. Len(files) : Placed(e, f) /\ IsKept(f)
    BY <1>2, <1>4, <2>1 DEF KeptInv, EntriesAreKept, IsKept
  <2>3. f \in 1 .. Len(files') /\ Placed(e, f)'
    BY <2>2, PlacedStays
  <2>4. IsKept(f)'
    BY <1>2, <2>2, KeptStays DEF KeptInv
  <2> QED BY <2>3, <2>4
<1> QED BY <1>3, <1>4

(* An entry whose record has returned is on its way to a file or in one,   *)
(* unless a fault, a crash or a rotation within a second lost it, and that *)
(* file is there until MaxRotated newer ones are.                          *)
THEOREM LogEntriesAreKept == Spec => []EntriesAreKept
<1>1. Init => KeptInv
  BY DEF Init, KeptInv, DoomedAreOld, EntriesAreKept
<1>2. KeptInv /\ LogTypeInv /\ [Next]_vars => KeptInv'
  BY DoomedAreOldStep, EntriesAreKeptStep DEF KeptInv
<1>3. KeptInv => EntriesAreKept
  BY DEF KeptInv
<1> QED BY <1>1, <1>2, <1>3, LogTypes, PTL DEF Spec

-----------------------------------------------------------------------------
(* The lines on their way are finitely many, and none if there is no file. *)
LinesTyped ==
  /\ Len(Export) \in Nat /\ IsFiniteSet(OnTheirWay) /\ Cardinality(OnTheirWay) \in Nat
  /\ live = 0 => Len(Export) = 0 /\ Cardinality(OnTheirWay) = 0
  /\ allowance \in Nat /\ lineCount \in Nat /\ MaxLines \in Nat \ {0}

LEMMA LinesTypes == LogTypeInv => LinesTyped
<1> SUFFICES ASSUME LogTypeInv PROVE LinesTyped
  OBVIOUS
<1>1. files \in Seq(Seq(Nat)) /\ live \in 0 .. Len(files) /\ allowance \in Nat /\ lineCount \in Nat
  BY DEF LogTypeInv, TypeOK
<1>2. Len(Export) \in Nat /\ (live = 0 => Len(Export) = 0)
  BY <1>1 DEF Export
<1>3. IsFiniteSet(OnTheirWay)
  <2>1. OnTheirWay \subseteq pending /\ IsFiniteSet(pending)
    BY DEF OnTheirWay, LogTypeInv
  <2> QED BY <2>1, FS_Subset
<1>4. live = 0 => OnTheirWay = {}
  BY DEF OnTheirWay, LogTypeInv, TypeOK
<1> QED BY <1>1, <1>2, <1>3, <1>4, FS_EmptySet, FS_CardinalityType, SizeAssumption DEF LinesTyped

LEMMA LinesTypesNext == LogTypeInv' => LinesTyped'
BY LinesTypes, PTL

(* Sending a line adds one, its landing none. *)
LEMMA AppendLineAdds ==
  ASSUME LogTypeInv, AppendLine
  PROVE  \/ lineCount' = lineCount /\ Export' = Export /\ OnTheirWay' = OnTheirWay
         \/ /\ lineCount' = lineCount + 1
            /\ Len(Export') + Cardinality(OnTheirWay') =< Len(Export) + Cardinality(OnTheirWay) + 1
<1> DEFINE w == [entry |-> count, file |-> live']
<1>1. CASE UNCHANGED <<live, files, pending, lineCount>>
  BY <1>1 DEF Export, OnTheirWay
<1>2. CASE /\ live' = IF live = 0 THEN Len(files) + 1 ELSE live
           /\ files' = IF live = 0 THEN Append(files, << >>) ELSE files
           /\ pending' = pending \cup {w}
           /\ lineCount' = lineCount + 1
  <2>0. files \in Seq(Seq(Nat)) /\ << >> \in Seq(Nat) /\ Len(files) \in Nat
    BY DEF LogTypeInv, TypeOK
  <2>1. CASE live = 0
    <3>1. live' = Len(files) + 1 /\ files'[Len(files) + 1] = << >> /\ live' # 0
      BY <1>2, <2>0, <2>1, AppendProperties
    <3>2. Export' = << >>
      BY <3>1 DEF Export
    <3>3. w.file = live'
      OBVIOUS
    <3> HIDE DEF w
    <3>4. \A v \in pending : v.file \in 1 .. Len(files)
      BY DEF LogTypeInv, TypeOK
    <3>5. OnTheirWay' = {w}
      BY <1>2, <2>0, <3>1, <3>3, <3>4 DEF OnTheirWay
    <3>6. Cardinality(OnTheirWay') = 1
      BY <3>5, FS_Singleton
    <3>7. Len(Export') = 0
      BY <3>2
    <3> QED BY <1>2, <3>6, <3>7, LinesTypes DEF LinesTyped
  <2>2. CASE live # 0
    <3>1. live' = live /\ Export' = Export
      BY <1>2, <2>2 DEF Export
    <3>2. w.file = live
      BY <3>1
    <3> HIDE DEF w
    <3>3. OnTheirWay' = OnTheirWay \cup {w}
      BY <1>2, <3>1, <3>2 DEF OnTheirWay
    <3>4. Cardinality(OnTheirWay') =< Cardinality(OnTheirWay) + 1
      BY <3>3, LinesTypes, FS_AddElement DEF LinesTyped
    <3>5. Cardinality(OnTheirWay') \in Nat
      BY <3>3, LinesTypes, FS_AddElement, FS_CardinalityType DEF LinesTyped
    <3> QED BY <1>2, <3>1, <3>4, <3>5, LinesTypes DEF LinesTyped
  <2> QED BY <2>1, <2>2
<1> QED BY <1>1, <1>2 DEF AppendLine

LEMMA WriteAddsNone ==
  ASSUME LogTypeInv, BackgroundWrite
  PROVE  Len(Export') + Cardinality(OnTheirWay') =< Len(Export) + Cardinality(OnTheirWay)
<1>1. PICK w \in pending :
        /\ pending' = pending \ {w}
        /\ \/ files' = [files EXCEPT ![w.file] = Append(@, w.entry)]
           \/ files' = files
  BY DEF BackgroundWrite
<1>2. live' = live
  BY DEF BackgroundWrite
<1>3. OnTheirWay' = OnTheirWay \ {w} /\ (w \in OnTheirWay <=> w.file = live)
  BY <1>1, <1>2 DEF OnTheirWay
<1>4. w.file \in 1 .. Len(files) /\ live \in 0 .. Len(files)
  BY DEF LogTypeInv, TypeOK
<1>5. CASE w.file = live
  <2>1. Cardinality(OnTheirWay') = Cardinality(OnTheirWay) - 1
    BY <1>3, <1>5, LinesTypes, FS_RemoveElement DEF LinesTyped
  <2>2. Len(Export') = Len(Export) + 1 \/ Len(Export') = Len(Export)
    <3>1. live # 0
      BY <1>4, <1>5
    <3>2. CASE files' = [files EXCEPT ![w.file] = Append(@, w.entry)]
      BY <1>2, <1>5, <3>1, <3>2, WriteLands DEF Export
    <3>3. CASE files' = files
      BY <1>2, <3>3 DEF Export
    <3> QED BY <1>1, <3>2, <3>3
  <2> QED BY <2>1, <2>2, LinesTypes DEF LinesTyped
<1>6. CASE w.file # live
  <2>1. OnTheirWay' = OnTheirWay
    BY <1>3, <1>6
  <2>2. Export' = Export
    <3>1. CASE files' = [files EXCEPT ![w.file] = Append(@, w.entry)]
      <4>1. \A f \in 1 .. Len(files) : f # w.file => files'[f] = files[f]
        BY <3>1, WriteLands
      <4> QED BY <1>2, <1>4, <1>6, <4>1 DEF Export
    <3>2. CASE files' = files
      BY <1>2, <3>2 DEF Export
    <3> QED BY <1>1, <3>1, <3>2
  <2> QED BY <2>1, <2>2, LinesTypes DEF LinesTyped
<1> QED BY <1>5, <1>6

LEMMA LinesStep == ASSUME LogTypeInv, LinesInv, [Next]_vars PROVE LinesInv'
<1> DEFINE lines == Len(Export) + Cardinality(OnTheirWay)
<1>1. /\ lines \in Nat /\ lines =< allowance /\ lines =< lineCount + allowance - MaxLines
      /\ allowance >= MaxLines /\ (step \in {"appending", "cleaning"} => lineCount < MaxLines)
  BY LinesTypes DEF LinesInv, LiveFileIsBounded, OnTheirWay, LinesTyped
<1>2. /\ allowance \in Nat /\ lineCount \in Nat /\ MaxLines \in Nat \ {0}
      /\ allowance' \in Nat /\ lineCount' \in Nat /\ lines' \in Nat
      /\ live' = 0 => lines' = 0
  BY LinesTypes, LogTypeStep, LinesTypesNext DEF LinesTyped
<1> DEFINE good == /\ lines =< allowance /\ lines =< lineCount + allowance - MaxLines
                   /\ allowance >= MaxLines
                   /\ step \in {"appending", "cleaning"} => lineCount < MaxLines
<1> SUFFICES good'
  BY DEF LinesInv, LiveFileIsBounded, OnTheirWay
<1>3. UNCHANGED <<files, live, pending>> => lines' = lines
  BY DEF Export, OnTheirWay
<1>4. CASE Record
  <2>1. lines' = lines
    BY <1>3, <1>4 DEF Record, disk
  <2>3. lineCount' = lineCount /\ allowance' = allowance
    BY <1>4 DEF Record
  <2>2. step' \in {"appending", "cleaning"} => lineCount < MaxLines
    BY <1>2, <1>4 DEF Record
  <2> HIDE DEF lines
  <2> QED BY <1>1, <1>2, <2>1, <2>2, <2>3
<1>5. CASE Rotate
  <2>1. CASE live' = 0 /\ allowance' = MaxLines
    <3>1. lines' = 0 /\ lineCount' = 0
      BY <1>2, <1>5, <2>1 DEF Rotate
    <3> HIDE DEF lines
    <3> QED BY <1>2, <2>1, <3>1
  <2>2. CASE allowance' = allowance + MaxLines /\ UNCHANGED <<live, rotated, lost>>
    <3>1. lines' = lines /\ lineCount' = 0
      BY <1>3, <1>5, <2>2 DEF Rotate
    <3> HIDE DEF lines
    <3> QED BY <1>1, <1>2, <2>2, <3>1
  <2> QED BY <1>5, <2>1, <2>2 DEF Rotate
<1>6. CASE AppendLine
  <2>1. allowance' = allowance /\ step' = "free" /\ lineCount < MaxLines
    BY <1>1, <1>6 DEF AppendLine
  <2>2. \/ lineCount' = lineCount /\ lines' = lines
        \/ lineCount' = lineCount + 1 /\ lines' =< lines + 1
    BY <1>6, AppendLineAdds
  <2>3. lines' =< allowance' /\ lines' =< lineCount' + allowance' - MaxLines
    <3>1. CASE lineCount' = lineCount /\ lines' = lines
      BY <1>1, <2>1, <3>1
    <3>2. CASE lineCount' = lineCount + 1 /\ lines' =< lines + 1
      <4>1. lines \in Nat /\ lines =< lineCount + allowance - MaxLines /\ lineCount < MaxLines
        BY <1>1, <2>1
      <4>2. lines + 1 =< allowance
        BY <1>2, <4>1
      <4> QED BY <1>2, <2>1, <3>2, <4>1, <4>2
    <3> QED BY <2>2, <3>1, <3>2
  <2>4. allowance' >= MaxLines /\ (step' \in {"appending", "cleaning"} => lineCount' < MaxLines)
    BY <1>1, <2>1
  <2> QED BY <2>3, <2>4
<1>7. CASE BackgroundWrite
  <2>1. allowance' = allowance /\ lineCount' = lineCount /\ step' = step
    BY <1>7 DEF BackgroundWrite
  <2>2. lines' =< lines
    BY <1>7, WriteAddsNone
  <2>3. lines' =< allowance' /\ lines' =< lineCount' + allowance' - MaxLines
    BY <1>1, <1>2, <2>1, <2>2
  <2>4. allowance' >= MaxLines /\ (step' \in {"appending", "cleaning"} => lineCount' < MaxLines)
    BY <1>1, <2>1
  <2> QED BY <2>3, <2>4
<1>8. CASE Crash
  <2>1. pending' = {} /\ step' = "free" /\ Export' = Export
    BY <1>8 DEF Crash, disk, Export
  <2>2. \/ lineCount' = Len(Export) /\ allowance' = allowance
        \/ lineCount' = 0 /\ allowance' = allowance + MaxLines
    BY <1>8 DEF Crash, Export
  <2>3. OnTheirWay' = {}
    BY <2>1 DEF OnTheirWay
  <2>4. lines' = Len(Export) /\ Len(Export) =< lines
    BY <2>1, <2>3, FS_EmptySet, LinesTypes DEF LinesTyped
  <2> HIDE DEF lines
  <2> QED BY <1>1, <1>2, <2>1, <2>2, <2>4
<1>9. CASE UNCHANGED <<files, live, pending, allowance, lineCount, step>>
  <2>1. lines' = lines
    BY <1>3, <1>9
  <2> HIDE DEF lines
  <2> QED BY <1>1, <1>2, <1>9, <2>1
<1>10. RemoveOld \/ UNCHANGED vars => UNCHANGED <<files, live, pending, allowance, lineCount, step>>
  BY DEF RemoveOld, vars, disk
<1> QED BY <1>4, <1>5, <1>6, <1>7, <1>8, <1>9, <1>10 DEF Next

(* What export returns has no more than MaxLines lines, with those on      *)
(* their way, over any number of restarts, but for another MaxLines for    *)
(* each rename that failed and each restart that could not open the file.  *)
THEOREM LogLiveFileIsBounded == Spec => []LiveFileIsBounded
<1>1. Init => LinesInv
  <2> SUFFICES ASSUME Init PROVE LinesInv
    OBVIOUS
  <2>1. OnTheirWay = {} /\ Export = << >>
    BY DEF Init, OnTheirWay, Export
  <2>2. Cardinality(OnTheirWay) = 0 /\ Len(Export) = 0
    BY <2>1, FS_EmptySet
  <2> QED BY <2>2, SizeAssumption DEF Init, LinesInv, LiveFileIsBounded, OnTheirWay
<1>2. LinesInv /\ LogTypeInv /\ [Next]_vars => LinesInv'
  BY LinesStep
<1>3. LinesInv => LiveFileIsBounded
  BY DEF LinesInv
<1> QED BY <1>1, <1>2, <1>3, LogTypes, PTL DEF Spec

-----------------------------------------------------------------------------
(* No more than MaxRotated files are spared by cleanup: their numbers of   *)
(* newer files differ.                                                     *)
LEMMA SparedAreFew ==
  ASSUME CleanupSees, NEW S, IsFiniteSet(S), S \subseteq Nat
  PROVE  /\ IsFiniteSet(Excess(S)) /\ Excess(S) \subseteq S
         /\ Cardinality(S) =< MaxRotated + Cardinality(Excess(S))
<1> DEFINE T == S \ Excess(S)
           rank == [f \in T |-> Cardinality(Newer(f, S))]
<1>1. Excess(S) = {f \in S : Cardinality(Newer(f, S)) >= MaxRotated}
  BY DEF Excess
<1>2. /\ Excess(S) \subseteq S /\ IsFiniteSet(Excess(S)) /\ Cardinality(Excess(S)) \in Nat
      /\ IsFiniteSet(T)
  <2>1. Excess(S) \subseteq S /\ T \subseteq S
    BY <1>1
  <2> QED BY <2>1, FS_Subset, FS_CardinalityType
<1>3. ASSUME NEW f \in S PROVE IsFiniteSet(Newer(f, S)) /\ Cardinality(Newer(f, S)) \in Nat
  <2>1. Newer(f, S) \subseteq S
    BY DEF Newer
  <2> QED BY <2>1, FS_Subset, FS_CardinalityType
<1>4. ASSUME NEW f \in T, NEW g \in T, f < g PROVE rank[f] # rank[g]
  <2>1. g \in Newer(f, S) /\ g \notin Newer(g, S)
    BY <1>4 DEF Newer
  <2>2. Newer(g, S) \subseteq Newer(f, S)
    <3> SUFFICES ASSUME NEW h \in S, h > g PROVE h > f
      BY DEF Newer
    <3>1. f \in Nat /\ g \in Nat /\ h \in Nat
      OBVIOUS
    <3> QED BY <1>4, <3>1
  <2>3. Newer(g, S) # Newer(f, S)
    BY <2>1
  <2>4. Cardinality(Newer(f, S)) # Cardinality(Newer(g, S))
    BY <1>3, <2>2, <2>3, FS_Subset
  <2> QED BY <2>4
<1>5. \A f \in T : rank[f] \in 0 .. MaxRotated - 1
  <2> SUFFICES ASSUME NEW f \in T PROVE rank[f] \in 0 .. MaxRotated - 1
    OBVIOUS
  <2>1. Cardinality(Newer(f, S)) \in Nat /\ ~ (Cardinality(Newer(f, S)) >= MaxRotated)
    BY <1>1, <1>3
  <2> QED BY <2>1, SizeAssumption
<1>6. rank \in [T -> 0 .. MaxRotated - 1]
  BY <1>5
<1>7. IsFiniteSet(0 .. MaxRotated - 1) /\ Cardinality(0 .. MaxRotated - 1) = MaxRotated
  BY FS_Interval, SizeAssumption
<1>8. \A f, g \in T : f # g => rank[f] # rank[g]
  <2> SUFFICES ASSUME NEW f \in T, NEW g \in T, f # g PROVE rank[f] # rank[g]
    OBVIOUS
  <2>1. f \in Nat /\ g \in Nat
    OBVIOUS
  <2> HIDE DEF rank, T
  <2> QED BY <1>4, <2>1
<1> HIDE DEF rank
<1>9. ~ (Cardinality(0 .. MaxRotated - 1) < Cardinality(T))
  <2> SUFFICES ASSUME Cardinality(0 .. MaxRotated - 1) < Cardinality(T) PROVE FALSE
    OBVIOUS
  <2> HIDE DEF T
  <2>1. \E f, g \in T : f # g /\ rank[f] = rank[g]
    BY <1>2, <1>6, <1>7, FS_PigeonHole
  <2> QED BY <1>8, <2>1
<1>10. Cardinality(T) = Cardinality(S) - Cardinality(Excess(S))
  <2>1. S \cap Excess(S) = Excess(S)
    BY <1>2
  <2> QED BY <2>1, FS_Difference
<1>11. Cardinality(S) \in Nat /\ Cardinality(T) \in Nat
  BY <1>2, FS_CardinalityType
<1> HIDE DEF T
<1> QED BY <1>2, <1>7, <1>9, <1>10, <1>11, SizeAssumption

LEMMA RotatedStep ==
  ASSUME CleanupSees, LogTypeInv, RotatedInv, [Next]_vars PROVE RotatedInv'
<1> DEFINE many == Cardinality(rotated)
           left == Cardinality(doomed)
<1>1. /\ many \in Nat /\ left \in Nat /\ setbacks \in Nat /\ MaxRotated \in Nat
      /\ IsFiniteSet(rotated) /\ IsFiniteSet(doomed) /\ doomed \subseteq rotated
  <2>1. doomed \subseteq rotated /\ setbacks \in Nat
    BY DEF LogTypeInv, TypeOK
  <2> QED BY <2>1, RotatedAreFinite, FS_Subset, FS_CardinalityType, SizeAssumption
<1>2. doomed = {} <=> left = 0
  BY <1>1, FS_EmptySet
<1>3. /\ many =< MaxRotated + setbacks + left
      /\ many =< MaxRotated + setbacks + 1
      /\ step # "cleaning" => left = 0
  BY <1>2 DEF RotatedInv
<1>4. CASE UNCHANGED <<rotated, doomed, setbacks>> /\ (doomed = {} \/ step' = step)
  BY <1>4 DEF RotatedInv
<1>5. CASE Rotate
  <2>1. rotated' = rotated \/ \E R \in Replaced : rotated' = (rotated \ R) \cup {live}
    BY <1>5 DEF Rotate
  <2>2. IsFiniteSet(rotated') /\ many' =< many + 1 /\ many' \in Nat
    <3>1. CASE rotated' = rotated
      BY <1>1, <3>1
    <3>2. ASSUME NEW R, rotated' = (rotated \ R) \cup {live}
          PROVE  IsFiniteSet(rotated') /\ many' =< many + 1 /\ many' \in Nat
      <4>1. /\ IsFiniteSet(rotated \ R) /\ Cardinality(rotated \ R) =< many
            /\ Cardinality(rotated \ R) \in Nat
        <5>1. rotated \ R \subseteq rotated
          OBVIOUS
        <5> QED BY <1>1, <5>1, FS_Subset, FS_CardinalityType
      <4>2. /\ IsFiniteSet(rotated')
            /\ many' = Cardinality(rotated \ R) \/ many' = Cardinality(rotated \ R) + 1
        BY <3>2, <4>1, FS_AddElement
      <4> QED BY <1>1, <4>1, <4>2
    <3> QED BY <2>1, <3>1, <3>2
  <2>3. List(rotated') /\ step' = "cleaning" /\ step = "rotating"
    BY <1>5 DEF Rotate
  <2>4. rotated' \subseteq Nat
    BY LogTypeStep DEF LogTypeInv, TypeOK
  <2>5. left' \in Nat
    <3>1. doomed' \subseteq rotated'
      BY LogTypeStep DEF LogTypeInv, TypeOK
    <3> QED BY <2>2, <3>1, FS_Subset, FS_CardinalityType
  <2>6. many =< MaxRotated + setbacks
    BY <1>1, <1>3, <2>3
  <2>7. /\ many' =< MaxRotated + setbacks' + left'
        /\ many' =< MaxRotated + setbacks' + 1
    <3>1. /\ many' \in Nat /\ many' =< many + 1 /\ left' \in Nat
          /\ many \in Nat /\ many =< MaxRotated + setbacks /\ setbacks \in Nat /\ MaxRotated \in Nat
      BY <1>1, <2>2, <2>5, <2>6
    <3>2. CASE doomed' = Excess(rotated') /\ setbacks' = setbacks
      <4>1. many' =< MaxRotated + left'
        BY <2>2, <2>4, <3>2, SparedAreFew
      <4>2. setbacks' = setbacks
        BY <3>2
      <4>3. many' =< MaxRotated + setbacks' + left'
        BY <3>1, <4>1, <4>2
      <4>4. many' =< MaxRotated + setbacks' + 1
        BY <3>1, <4>2
      <4> QED BY <4>3, <4>4
    <3>3. CASE setbacks' = setbacks + 1
      <4>1. many' =< MaxRotated + setbacks' + left'
        BY <3>1, <3>3
      <4>2. many' =< MaxRotated + setbacks' + 1
        BY <3>1, <3>3
      <4> QED BY <4>1, <4>2
    <3> QED BY <2>3, <3>2, <3>3 DEF List
  <2> QED BY <2>3, <2>7 DEF RotatedInv
<1>6. CASE RemoveOld
  <2>1. PICK f \in doomed :
          /\ doomed' = doomed \ {f}
          /\ \/ rotated' = rotated \ {f} /\ setbacks' = setbacks
             \/ rotated' = rotated /\ setbacks' = setbacks + 1
    BY <1>6 DEF RemoveOld
  <2>2. left' = left - 1 /\ step' = step /\ step = "cleaning"
    BY <1>1, <1>6, <2>1, FS_RemoveElement DEF RemoveOld
  <2>3. \/ many' = many - 1 /\ setbacks' = setbacks
        \/ many' = many /\ setbacks' = setbacks + 1
    BY <1>1, <2>1, FS_RemoveElement
  <2>4. /\ many' =< MaxRotated + setbacks' + left'
        /\ many' =< MaxRotated + setbacks' + 1
    <3> HIDE DEF many, left
    <3> QED BY <1>1, <1>3, <2>2, <2>3
  <2> QED BY <2>2, <2>4 DEF RotatedInv
<1>7. CASE Crash
  <2>1. doomed' = {} /\ rotated' = rotated /\ setbacks' = setbacks + 1
    BY <1>7 DEF Crash, disk
  <2>2. left' = 0 /\ many' = many
    BY <2>1, FS_EmptySet
  <2>3. /\ many' =< MaxRotated + setbacks' + left'
        /\ many' =< MaxRotated + setbacks' + 1
    <3> HIDE DEF many, left
    <3> QED BY <1>1, <1>3, <2>1, <2>2
  <2> QED BY <2>1, <2>3 DEF RotatedInv
<1>8. Record \/ AppendLine \/ BackgroundWrite \/ UNCHANGED vars
        => UNCHANGED <<rotated, doomed, setbacks>> /\ (doomed = {} \/ step' = step)
  BY DEF Record, AppendLine, BackgroundWrite, vars, disk, RotatedInv
<1> QED BY <1>4, <1>5, <1>6, <1>7, <1>8 DEF Next

(* If cleanup sees the rotated files, there are never more than MaxRotated *)
(* and one, but for one more for each crash, failed removal or listing     *)
(* that was cut off.                                                       *)
THEOREM LogRotatedFilesAreBounded ==
  ASSUME CleanupSees PROVE Spec => []RotatedFilesAreBounded
<1>1. Init => RotatedInv
  BY FS_EmptySet, SizeAssumption DEF Init, RotatedInv
<1>2. RotatedInv /\ LogTypeInv /\ [Next]_vars => RotatedInv'
  BY RotatedStep
<1>3. RotatedInv /\ LogTypeInv => RotatedFilesAreBounded
  <2> SUFFICES ASSUME RotatedInv, LogTypeInv PROVE RotatedFilesAreBounded
    OBVIOUS
  <2>1. Cardinality(rotated) \in Nat /\ setbacks \in Nat /\ MaxRotated \in Nat
    BY RotatedAreFinite, FS_CardinalityType, SizeAssumption DEF LogTypeInv, TypeOK
  <2> QED BY <2>1 DEF RotatedInv, RotatedFilesAreBounded
<1> QED BY <1>1, <1>2, <1>3, LogTypes, PTL DEF Spec

=============================================================================
