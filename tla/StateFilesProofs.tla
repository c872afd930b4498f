-------------------------- MODULE StateFilesProofs --------------------------
(***************************************************************************)
(* Proofs about the files updaterd keeps its state in: pending.json        *)
(* (BootCounter), whose calls are shown to be the steps of TrialRecord,    *)
(* and the update log (UpdateLog).                                         *)
(***************************************************************************)
EXTENDS BootCounter, UpdateLog, FiniteSetTheorems, TLAPS

-----------------------------------------------------------------------------
(* The changes of a record.                                                *)

LEMMA BlankTyped == Blank \in Records
BY DEF Blank, Records, Trials

LEMMA ArmedTyped ==
    ASSUME NEW r \in Records, NEW c \in Components, NEW v \in Versions
    PROVE  Armed(r, c, v) \in Records
BY DEF Armed, Records, Trials

LEMMA ClearedTyped ==
    ASSUME NEW r \in Records, NEW c \in Components
    PROVE  Cleared(r, c) \in Records
BY DEF Cleared, Records, Trials

LEMMA CountedTyped == ASSUME NEW r \in Records PROVE Counted(r) \in Records
<1>1. ASSUME NEW d \in Components
      PROVE  (IF r[d] = NoTrial THEN NoTrial ELSE [r[d] EXCEPT !.boots = @ + 1]) \in Trials
  <2>1. r[d] \in Trials
    BY DEF Records
  <2>2. CASE r[d] = NoTrial
    BY <2>2 DEF Trials
  <2>3. CASE r[d] # NoTrial
    BY <2>1, <2>3 DEF Trials
  <2> QED BY <2>2, <2>3
<1> QED BY <1>1 DEF Counted, Records

LEMMA ChangedVersions ==
    ASSUME NEW r \in Records, NEW c \in Components, NEW v \in Versions
    PROVE  /\ Armed(r, c, v)[c].version = v /\ Armed(r, c, v) # Blank
           /\ \A d \in Components \ {c} : Armed(r, c, v)[d] = r[d]
<1>1. Armed(r, c, v)[c].version = v
  BY DEF Armed, Records
<1>2. Armed(r, c, v) # Blank
  BY <1>1, CounterAssumption DEF Blank, NoTrial
<1>3. \A d \in Components \ {c} : Armed(r, c, v)[d] = r[d]
  BY DEF Armed, Records
<1> QED BY <1>1, <1>2, <1>3

LEMMA CountedVersions ==
    ASSUME NEW r \in Records, NEW d \in Components
    PROVE  Counted(r)[d].version = r[d].version
<1>1. r[d] \in Trials
  BY DEF Records
<1>2. CASE r[d] = NoTrial
  BY <1>2 DEF Counted
<1>3. CASE r[d] # NoTrial
  BY <1>1, <1>3 DEF Counted, Trials
<1> QED BY <1>2, <1>3

LEMMA FoundTyped ==
    ASSUME CounterTypeOK
    PROVE  /\ \A i \in Inodes \cup {0} : Found(i) \in Records
           /\ Read \in Records
<1>1. ASSUME NEW i \in Inodes \cup {0} PROVE Found(i) \in Records
  <2>1. CASE i # 0 /\ files[i].text = "json"
    BY <2>1 DEF Found, CounterTypeOK, File
  <2>2. CASE ~(i # 0 /\ files[i].text = "json")
    BY <2>2, BlankTyped DEF Found
  <2> QED BY <2>1, <2>2
<1>2. names.pending \in Inodes \cup {0}
  BY DEF CounterTypeOK
<1> QED BY <1>1, <1>2 DEF Read

-----------------------------------------------------------------------------
(* The types, also where a start falls into the calls of the lock's holder. *)

\* What a call is about, by what it does.
ArgsOK == \A p \in Callers :
    /\ call[p].kind = "arm" => call[p].comp \in Components /\ call[p].version \in Versions
    /\ call[p].kind = "confirm" => call[p].comp \in Components

LEMMA BeginsTyped ==
    ASSUME CounterTypeOK, ArgsOK, NEW p \in Callers, NEW kind \in Kinds,
           NEW c \in Components \cup {0}, NEW v \in Versions \cup {0}, NEW r \in Records,
           kind = "arm" => c \in Components /\ v \in Versions,
           kind = "confirm" => c \in Components,
           Begins(p, kind, c, v, r)
    PROVE  call' \in [Callers -> CallSet] /\ ArgsOK'
<1> DEFINE new == [step |-> IF r = Blank THEN "remove" ELSE "create",
                   kind |-> kind, comp |-> c, version |-> v, record |-> r, at |-> 0]
<1>1. new \in CallSet
  BY DEF CallSet
<1>2. call' = [call EXCEPT ![p] = new]
  BY DEF Begins
<1> HIDE DEF new
<1>3. call' \in [Callers -> CallSet]
  BY <1>1, <1>2 DEF CounterTypeOK
<1>4. \A q \in Callers : call'[q] = IF q = p THEN new ELSE call[q]
  BY <1>2 DEF CounterTypeOK
<1>5. new.kind = kind /\ new.comp = c /\ new.version = v
  BY DEF new
<1>6. ArgsOK'
  BY <1>4, <1>5 DEF ArgsOK
<1> QED BY <1>3, <1>6

LEMMA AnswersTyped ==
    ASSUME CounterTypeOK, ArgsOK, NEW p \in Callers, Answers(p)
    PROVE  /\ call' \in [Callers -> CallSet] /\ ArgsOK'
           /\ owed' \in [Components -> SUBSET Versions] /\ cleared' \subseteq Components
<1>1. Idle \in CallSet /\ Idle.kind = "boot"
  BY BlankTyped DEF Idle, CallSet, Kinds
<1>2. call' \in [Callers -> CallSet]
  BY <1>1 DEF Answers, CounterTypeOK
<1>3. \A q \in Callers : call'[q] = IF q = p THEN Idle ELSE call[q]
  BY DEF Answers, CounterTypeOK
<1>4. ArgsOK'
  BY <1>1, <1>3 DEF ArgsOK
<1>5. owed' \in [Components -> SUBSET Versions]
  BY DEF Answers, CounterTypeOK, ArgsOK
<1>6. cleared' \subseteq Components
  BY DEF Answers, CounterTypeOK, ArgsOK
<1> QED BY <1>2, <1>4, <1>5, <1>6

LEMMA GoesToTyped ==
    ASSUME CounterTypeOK, ArgsOK, NEW p \in Callers,
           NEW s \in {"rest", "remove", "create", "write", "sync", "rename", "settle"},
           GoesTo(p, s)
    PROVE  call' \in [Callers -> CallSet] /\ ArgsOK'
<1>1. \A q \in Callers : call'[q] = IF q = p THEN [call[q] EXCEPT !.step = s] ELSE call[q]
  BY DEF GoesTo, CounterTypeOK
<1>2. \A q \in Callers : call[q] \in CallSet
  BY DEF CounterTypeOK
<1>3. \A q \in Callers : [call[q] EXCEPT !.step = s] \in CallSet
  BY <1>2 DEF CallSet
<1>4. call' \in [Callers -> CallSet]
  BY <1>3 DEF GoesTo, CounterTypeOK
<1>5. \A q \in Callers : /\ call'[q].kind = call[q].kind /\ call'[q].comp = call[q].comp
                         /\ call'[q].version = call[q].version
  BY <1>1, <1>2 DEF CallSet
<1> QED BY <1>4, <1>5 DEF ArgsOK

LEMMA WrittenIs ==
    ASSUME NEW p \in Callers, NEW f \in Written(p)
    PROVE  /\ f.record = call[p].record /\ f.text \in {"json", "garbled"} /\ f.synced = FALSE
           /\ f = [text |-> f.text, record |-> f.record, synced |-> f.synced]
           /\ files[call[p].at].text = "truncated" => f.text = "json"
<1>1. CASE files[call[p].at].text = "truncated"
  BY <1>1 DEF Written
<1>2. CASE files[call[p].at].text # "truncated"
  BY <1>2 DEF Written
<1> QED BY <1>1, <1>2

LEMMA CounterInitTyped == CounterInit => CounterTypeOK /\ ArgsOK
<1> SUFFICES ASSUME CounterInit PROVE CounterTypeOK /\ ArgsOK
  OBVIOUS
<1>1. Idle \in CallSet /\ Idle.kind = "boot"
  BY BlankTyped DEF Idle, CallSet, Kinds
<1>2. NoText \in File
  BY BlankTyped DEF NoText, File, Texts
<1>3. CounterTypeOK
  BY <1>1, <1>2, BlankTyped, CounterAssumption DEF CounterInit, CounterTypeOK
<1>4. ArgsOK
  BY <1>1 DEF CounterInit, ArgsOK
<1> QED BY <1>3, <1>4

LEMMA CounterStepTyped ==
    CounterTypeOK /\ ArgsOK /\ [CounterNext]_counterVars => CounterTypeOK' /\ ArgsOK'
<1> SUFFICES ASSUME CounterTypeOK, ArgsOK, [CounterNext]_counterVars
             PROVE  CounterTypeOK' /\ ArgsOK'
  OBVIOUS
<1> USE CounterAssumption
<1>a. Read \in Records
  BY FoundTyped
<1>b. \A p \in Callers : call[p] \in CallSet /\ call[p].record \in Records
                         /\ call[p].at \in Inodes \cup {0}
  BY DEF CounterTypeOK, CallSet
<1>1. ASSUME NEW c \in Components, NEW v \in Versions, Arms(c, v)
      PROVE  CounterTypeOK' /\ ArgsOK'
  <2>1. Armed(Read, c, v) \in Records
    BY <1>a, ArmedTyped
  <2>2. call' \in [Callers -> CallSet] /\ ArgsOK'
    BY <1>1, <2>1, BeginsTyped DEF Arms, Callers, Kinds
  <2>3. UNCHANGED <<files, names, disk>>
    BY <1>1 DEF Arms, Begins
  <2>4. spent' \in [arms : 0..MaxArms, starts : 0..MaxStarts, faults : 0..MaxFaults,
                    cuts : 0..MaxPowerCuts]
    BY <1>1 DEF Arms, CounterTypeOK
  <2>5. owed' \in [Components -> SUBSET Versions] /\ cleared' \subseteq Components
    BY <1>1 DEF Arms, CounterTypeOK
  <2> QED BY <2>2, <2>3, <2>4, <2>5 DEF CounterTypeOK
<1>2. ASSUME NEW p \in Callers, NEW c \in Components, Confirms(p, c)
      PROVE  CounterTypeOK' /\ ArgsOK'
  <2>1. Cleared(Read, c) \in Records
    BY <1>a, ClearedTyped
  <2>2. call' \in [Callers -> CallSet] /\ ArgsOK'
    BY <1>2, <2>1, BeginsTyped DEF Confirms, Kinds
  <2>3. UNCHANGED <<files, names, disk, cleared, spent>>
    BY <1>2 DEF Confirms, Begins
  <2>4. owed' \in [Components -> SUBSET Versions]
    BY <1>2 DEF Confirms, CounterTypeOK
  <2> QED BY <2>2, <2>3, <2>4 DEF CounterTypeOK
<1>3. ASSUME Boots PROVE CounterTypeOK' /\ ArgsOK'
  <2>1. Counted(Read) \in Records
    BY <1>a, CountedTyped
  <2>2. call' \in [Callers -> CallSet] /\ ArgsOK'
    BY <1>3, <2>1, BeginsTyped DEF Boots, Callers, Kinds
  <2>3. UNCHANGED <<files, names, disk, owed, cleared>>
    BY <1>3 DEF Boots, Begins
  <2>4. spent' \in [arms : 0..MaxArms, starts : 0..MaxStarts, faults : 0..MaxFaults,
                    cuts : 0..MaxPowerCuts]
    BY <1>3 DEF Boots, CounterTypeOK
  <2> QED BY <2>2, <2>3, <2>4 DEF CounterTypeOK
<1>4. ASSUME NEW p \in Callers, Removes(p) PROVE CounterTypeOK' /\ ArgsOK'
  <2>1. Answers(p) /\ UNCHANGED <<files, spent>> /\ disk' \subseteq Records
    BY <1>4, BlankTyped DEF Removes, CounterTypeOK
  <2>2. names' \in [pending : Inodes \cup {0}, temp : Inodes \cup {0}]
    BY <1>4 DEF Removes, CounterTypeOK
  <2> QED BY <2>1, <2>2, AnswersTyped DEF CounterTypeOK
<1>5. ASSUME NEW p \in Callers, Creates(p) PROVE CounterTypeOK' /\ ArgsOK'
  <2>1. PICK i \in Inodes : /\ files' = [files EXCEPT ![i] = NoText]
                            /\ names' = [names EXCEPT !.temp = i]
                            /\ call' = [call EXCEPT ![p].step = "write", ![p].at = i]
    BY <1>5 DEF Creates
  <2>2. NoText \in File
    BY BlankTyped DEF NoText, File, Texts
  <2>3. files' \in [Inodes -> File]
    BY <2>1, <2>2 DEF CounterTypeOK
  <2>4. names' \in [pending : Inodes \cup {0}, temp : Inodes \cup {0}]
    BY <2>1 DEF CounterTypeOK
  <2> DEFINE new == [call[p] EXCEPT !.step = "write", !.at = i]
  <2>5. call' = [call EXCEPT ![p] = new]
    BY <2>1 DEF CounterTypeOK
  <2>6. new \in CallSet /\ new.kind = call[p].kind /\ new.comp = call[p].comp
        /\ new.version = call[p].version
    BY <1>b DEF CallSet
  <2> HIDE DEF new
  <2>7. call' \in [Callers -> CallSet]
    BY <2>5, <2>6 DEF CounterTypeOK
  <2>8. \A q \in Callers : call'[q] = IF q = p THEN new ELSE call[q]
    BY <2>5 DEF CounterTypeOK
  <2>9. ArgsOK'
    BY <2>6, <2>8 DEF ArgsOK
  <2>10. UNCHANGED <<disk, owed, cleared, spent>>
    BY <1>5 DEF Creates
  <2> QED BY <2>3, <2>4, <2>7, <2>9, <2>10 DEF CounterTypeOK
<1>6. ASSUME NEW p \in Callers, Writes(p) PROVE CounterTypeOK' /\ ArgsOK'
  <2>1. PICK f \in Written(p) :
            /\ files' = [files EXCEPT ![call[p].at] = f]
            /\ disk' = IF call[p].at = names.pending THEN disk \cup {Blank, f.record} ELSE disk
    BY <1>6 DEF Writes
  <2>2. f \in File
    <3>1. /\ f.record = call[p].record /\ f.text \in {"json", "garbled"} /\ f.synced = FALSE
          /\ f = [text |-> f.text, record |-> f.record, synced |-> f.synced]
      BY WrittenIs
    <3>2. f.record \in Records /\ f.text \in Texts /\ f.synced \in BOOLEAN
      BY <1>b, <3>1 DEF Texts
    <3> QED BY <3>1, <3>2 DEF File
  <2>3. files' \in [Inodes -> File] /\ disk' \subseteq Records
    BY <2>1, <2>2, BlankTyped DEF CounterTypeOK, File
  <2>4. call' \in [Callers -> CallSet] /\ ArgsOK' /\ UNCHANGED <<names, owed, cleared, spent>>
    BY <1>6, GoesToTyped DEF Writes
  <2> QED BY <2>3, <2>4 DEF CounterTypeOK
<1>7. ASSUME NEW p \in Callers, Syncs(p) PROVE CounterTypeOK' /\ ArgsOK'
  <2>1. files' \in [Inodes -> File]
    <3>1. \A f \in File : [f EXCEPT !.synced = TRUE] \in File
      BY DEF File
    <3>2. files' = [i \in Inodes |-> IF i = call[p].at THEN [files[i] EXCEPT !.synced = TRUE]
                                     ELSE files[i]]
      BY <1>7 DEF Syncs, CounterTypeOK
    <3>3. \A i \in Inodes : files[i] \in File
      BY DEF CounterTypeOK
    <3> QED BY <3>1, <3>2, <3>3
  <2>2. call' \in [Callers -> CallSet] /\ ArgsOK'
        /\ UNCHANGED <<names, disk, owed, cleared, spent>>
    BY <1>7, GoesToTyped DEF Syncs
  <2> QED BY <2>1, <2>2 DEF CounterTypeOK
<1>8. ASSUME NEW p \in Callers, Renames(p) PROVE CounterTypeOK' /\ ArgsOK'
  <2>1. names' \in [pending : Inodes \cup {0}, temp : Inodes \cup {0}]
    BY <1>8 DEF Renames, CounterTypeOK
  <2>2. disk' \subseteq Records
    BY <1>8, FoundTyped, BlankTyped DEF Renames, CounterTypeOK
  <2>3. call' \in [Callers -> CallSet] /\ ArgsOK' /\ UNCHANGED <<files, owed, cleared, spent>>
    BY <1>8, GoesToTyped DEF Renames
  <2> QED BY <2>1, <2>2, <2>3 DEF CounterTypeOK
<1>9. ASSUME NEW p \in Callers, Settles(p) PROVE CounterTypeOK' /\ ArgsOK'
  <2>1. Answers(p) /\ UNCHANGED <<files, names, spent>> /\ disk' \subseteq Records
    BY <1>9, <1>a, BlankTyped DEF Settles
  <2> QED BY <2>1, AnswersTyped DEF CounterTypeOK
<1>10. ASSUME NEW p \in Callers, Ends(p) PROVE CounterTypeOK' /\ ArgsOK'
  <2>1. Idle \in CallSet /\ Idle.kind = "boot"
    BY BlankTyped DEF Idle, CallSet, Kinds
  <2>2. call' = [call EXCEPT ![p] = Idle] /\ UNCHANGED <<names, owed, cleared>>
    BY <1>10 DEF Ends
  <2>3. call' \in [Callers -> CallSet] /\ ArgsOK'
    BY <2>1, <2>2 DEF CounterTypeOK, ArgsOK
  <2>4. spent' \in [arms : 0..MaxArms, starts : 0..MaxStarts, faults : 0..MaxFaults,
                    cuts : 0..MaxPowerCuts]
    BY <1>10 DEF Ends, CounterTypeOK
  <2>5. \A i \in Inodes : [files[i] EXCEPT !.text = "garbled"] \in File
    BY DEF CounterTypeOK, File, Texts
  <2>6. files' \in [Inodes -> File] /\ disk' \subseteq Records
    BY <1>10, <2>5, BlankTyped DEF Ends, CounterTypeOK
  <2> QED BY <2>2, <2>3, <2>4, <2>6 DEF CounterTypeOK
<1>11. ASSUME PowerGoes PROVE CounterTypeOK' /\ ArgsOK'
  <2>1. PICK r \in disk, i \in Inodes :
            /\ files' = [files EXCEPT ![i] = [text |-> "json", record |-> r, synced |-> TRUE]]
            /\ names' = [pending |-> IF r = Blank THEN 0 ELSE i, temp |-> 0]
            /\ disk' = {r}
    BY <1>11 DEF PowerGoes
  <2>2. r \in Records
    BY DEF CounterTypeOK
  <2>3. files' \in [Inodes -> File] /\ disk' \subseteq Records
    BY <2>1, <2>2 DEF CounterTypeOK, File, Texts
  <2>4. names' \in [pending : Inodes \cup {0}, temp : Inodes \cup {0}]
    BY <2>1
  <2>5. Idle \in CallSet /\ Idle.kind = "boot"
    BY BlankTyped DEF Idle, CallSet, Kinds
  <2>6. call' \in [Callers -> CallSet] /\ ArgsOK' /\ UNCHANGED <<owed, cleared>>
    BY <1>11, <2>5 DEF PowerGoes, ArgsOK
  <2>7. spent' \in [arms : 0..MaxArms, starts : 0..MaxStarts, faults : 0..MaxFaults,
                    cuts : 0..MaxPowerCuts]
    BY <1>11 DEF PowerGoes, CounterTypeOK
  <2> QED BY <2>3, <2>4, <2>6, <2>7 DEF CounterTypeOK
<1>12. ASSUME UNCHANGED counterVars PROVE CounterTypeOK' /\ ArgsOK'
  BY <1>12 DEF counterVars, CounterTypeOK, ArgsOK
<1> QED
  BY <1>1, <1>2, <1>3, <1>4, <1>5, <1>6, <1>7, <1>8, <1>9, <1>10, <1>11, <1>12
  DEF CounterNext, Does

\* The types of pending.json, its calls and what a power cut may leave, for every set of
\* components, versions and files, also where calls overlap (journal.rs, fsutil.rs).
THEOREM CounterType == CounterSpec => []CounterTypeOK
<1>1. CounterSpec => [](CounterTypeOK /\ ArgsOK)
  BY CounterInitTyped, CounterStepTyped, PTL DEF CounterSpec
<1> QED BY <1>1, PTL

-----------------------------------------------------------------------------
(* One process at a time.                                                  *)

\* The record that p's call leaves, made from what it read.
Wanted(p) ==
    CASE call[p].kind = "arm" -> Armed(Read, call[p].comp, call[p].version)
      [] call[p].kind = "confirm" -> Cleared(Read, call[p].comp)
      [] OTHER -> Counted(Read)

Alone == \A p, q \in Callers : call[p].step # "rest" /\ call[q].step # "rest" => p = q

\* The file that has the name is whole and lasts; the temporary one is another.
PendingWhole ==
    /\ names.pending # 0 => /\ files[names.pending].text = "json"
                            /\ files[names.pending].synced
                            /\ names.pending # names.temp
    /\ Read \in disk

\* p's file as its steps prepare it; the file that has the name is not touched before.
Prepared(p) ==
    /\ call[p].step \in {"remove", "create", "write", "sync", "rename"} =>
           call[p].record = Wanted(p)
    /\ call[p].step = "remove" => call[p].record = Blank
    /\ call[p].step \in {"write", "sync", "rename"} =>
           call[p].at = names.temp /\ call[p].at # 0 /\ call[p].at # names.pending
    /\ call[p].step = "write" => files[call[p].at].text = "truncated"
    /\ call[p].step \in {"sync", "rename"} =>
           files[call[p].at].text = "json" /\ files[call[p].at].record = call[p].record
    /\ call[p].step = "rename" => files[call[p].at].synced

\* What p's call owes once it answers.
Owes(p) ==
    /\ call[p].step # "rest" /\ call[p].kind = "arm" =>
           /\ owed[call[p].comp] # {} => call[p].version \in owed[call[p].comp]
           /\ call[p].step = "settle" => Read[call[p].comp].version = call[p].version
    /\ call[p].step # "rest" /\ call[p].kind = "confirm" => owed[call[p].comp] = {}

CounterInv ==
    /\ CounterTypeOK /\ ArgsOK /\ Alone /\ PendingWhole /\ ArmedIsDurable
    /\ \A p \in Callers : Prepared(p) /\ Owes(p)

\* The rest of the invariant, and what a step is to the record.
CallsOK == /\ Alone /\ PendingWhole /\ ArmedIsDurable
           /\ \A p \in Callers : Prepared(p) /\ Owes(p)

RecordStays == Read' = Read /\ disk' = disk

LEMMA OthersRest ==
    ASSUME Alone, NEW p \in Callers, call[p].step # "rest"
    PROVE  \A q \in Callers \ {p} : call[q].step = "rest"
BY DEF Alone

\* A call reads the file and leaves it alone.
LEMMA BeginsKeeps ==
    ASSUME CounterInv, ~Overlap, NEW p \in Callers, NEW kind \in Kinds,
           NEW c \in Components \cup {0}, NEW v \in Versions \cup {0}, NEW r \in Records,
           Begins(p, kind, c, v, r),
           kind = "arm" => r = Armed(Read, c, v) /\ (owed'[c] # {} => v \in owed'[c]),
           kind = "confirm" => r = Cleared(Read, c) /\ owed'[c] = {},
           kind = "boot" => r = Counted(Read),
           \A d \in Components : owed'[d] # {} => owed[d] # {} /\ owed[d] \subseteq owed'[d]
    PROVE  CallsOK' /\ RecordStays
<1> DEFINE new == [step |-> IF r = Blank THEN "remove" ELSE "create",
                   kind |-> kind, comp |-> c, version |-> v, record |-> r, at |-> 0]
<1>1. call' = [call EXCEPT ![p] = new] /\ UNCHANGED <<files, names, disk>>
  BY DEF Begins
<1>2. new.kind = kind /\ new.comp = c /\ new.version = v /\ new.record = r
      /\ new.step \in {"remove", "create"} /\ (new.step = "remove" => r = Blank)
  OBVIOUS
<1> HIDE DEF new
<1>3. call'[p] = new /\ \A q \in Callers \ {p} : call'[q] = call[q]
  BY <1>1 DEF CounterInv, CounterTypeOK
<1>4. \A q \in Callers \ {p} : call'[q].step = "rest"
  BY <1>3 DEF Begins
<1>5. Read' = Read
  BY <1>1 DEF Read, Found
<1>6. Alone'
  BY <1>4 DEF Alone
<1>7. PendingWhole'
  BY <1>1, <1>5 DEF PendingWhole, CounterInv
<1>8. ArmedIsDurable'
  BY <1>1 DEF ArmedIsDurable, CounterInv
<1>9. \A q \in Callers \ {p} : Prepared(q)' /\ Owes(q)'
  BY <1>4 DEF Prepared, Owes
<1>10. Wanted(p)' = r
  BY <1>2, <1>3, <1>5 DEF Wanted, Kinds
<1>11. Prepared(p)'
  BY <1>2, <1>3, <1>10 DEF Prepared
<1>12. Owes(p)'
  BY <1>2, <1>3 DEF Owes
<1> QED BY <1>1, <1>5, <1>6, <1>7, <1>8, <1>9, <1>11, <1>12 DEF CallsOK, RecordStays

LEMMA ArmsKeeps ==
    ASSUME CounterInv, ~Overlap, NEW c \in Components, NEW v \in Versions, Arms(c, v)
    PROVE  CallsOK' /\ RecordStays
<1>1. Armed(Read, c, v) \in Records
  BY FoundTyped, ArmedTyped DEF CounterInv
<1>2. owed'[c] # {} => v \in owed'[c]
  BY DEF Arms, CounterInv, CounterTypeOK
<1>3. \A d \in Components : owed'[d] # {} => owed[d] # {} /\ owed[d] \subseteq owed'[d]
  BY DEF Arms, CounterInv, CounterTypeOK
<1>4. Begins("locked", "arm", c, v, Armed(Read, c, v))
  BY DEF Arms
<1> QED BY <1>1, <1>2, <1>3, <1>4, BeginsKeeps DEF Callers, Kinds

LEMMA ConfirmsKeeps ==
    ASSUME CounterInv, ~Overlap, NEW p \in Callers, NEW c \in Components, Confirms(p, c)
    PROVE  CallsOK' /\ RecordStays
<1>1. Cleared(Read, c) \in Records
  BY FoundTyped, ClearedTyped DEF CounterInv
<1>2. owed'[c] = {}
  BY DEF Confirms, CounterInv, CounterTypeOK
<1>3. \A d \in Components : owed'[d] # {} => owed[d] # {} /\ owed[d] \subseteq owed'[d]
  BY DEF Confirms, CounterInv, CounterTypeOK
<1>4. Begins(p, "confirm", c, 0, Cleared(Read, c))
  BY DEF Confirms
<1> QED BY <1>1, <1>2, <1>3, <1>4, BeginsKeeps DEF Kinds

LEMMA BootsKeeps ==
    ASSUME CounterInv, ~Overlap, Boots
    PROVE  CallsOK' /\ RecordStays
<1>1. Counted(Read) \in Records
  BY FoundTyped, CountedTyped DEF CounterInv
<1>2. owed' = owed /\ Begins("starting", "boot", 0, 0, Counted(Read))
  BY DEF Boots
<1> QED BY <1>1, <1>2, BeginsKeeps DEF Callers, Kinds

\* What a prepared record owes: the arms answered, and the one it is of.
LEMMA WantedKeepsArmed ==
    ASSUME CounterInv, NEW p \in Callers,
           call[p].step \in {"remove", "rename"}
    PROVE  /\ \A c \in Components : owed[c] # {} => Wanted(p)[c].version \in owed[c]
           /\ call[p].kind = "arm" => /\ Wanted(p)[call[p].comp].version = call[p].version
                                      /\ Wanted(p) # Blank
<1>1. Read \in Records /\ Read \in disk
  BY FoundTyped DEF CounterInv, PendingWhole
<1>2. \A c \in Components : owed[c] # {} => Read[c].version \in owed[c]
  BY <1>1 DEF CounterInv, ArmedIsDurable
<1>3. call[p].kind \in Kinds
  BY DEF CounterInv, CounterTypeOK, CallSet
<1>4. CASE call[p].kind = "arm"
  <2>1. call[p].comp \in Components /\ call[p].version \in Versions
    BY <1>4 DEF CounterInv, ArgsOK
  <2>2. Wanted(p) = Armed(Read, call[p].comp, call[p].version)
    BY <1>4 DEF Wanted
  <2>3. owed[call[p].comp] # {} => call[p].version \in owed[call[p].comp]
    BY <1>4 DEF CounterInv, Owes
  <2> QED BY <1>1, <1>2, <2>1, <2>2, <2>3, ChangedVersions
<1>5. CASE call[p].kind = "confirm"
  <2>1. call[p].comp \in Components /\ owed[call[p].comp] = {}
    BY <1>5 DEF CounterInv, ArgsOK, Owes
  <2>2. Wanted(p) = Cleared(Read, call[p].comp)
    BY <1>5 DEF Wanted
  <2>3. \A d \in Components \ {call[p].comp} : Wanted(p)[d] = Read[d]
    BY <1>1, <2>1, <2>2 DEF Cleared, Records
  <2> QED BY <1>2, <1>5, <2>1, <2>3
<1>6. CASE call[p].kind = "boot"
  <2>1. Wanted(p) = Counted(Read)
    BY <1>6 DEF Wanted
  <2>2. \A d \in Components : Wanted(p)[d].version = Read[d].version
    BY <1>1, <2>1, CountedVersions
  <2> QED BY <1>2, <1>6, <2>2
<1> QED BY <1>3, <1>4, <1>5, <1>6 DEF Kinds

\* What answers owes: the record lasts, or only what an arm did not change was not on it.
LEMMA AnswersKeeps ==
    ASSUME CounterInv, NEW p \in Callers, call[p].step # "rest", Answers(p),
           \A c \in Components, r \in disk' : owed[c] # {} => r[c].version \in owed[c],
           call[p].kind = "arm" =>
               \A r \in disk' : r[call[p].comp].version = call[p].version
    PROVE  Alone' /\ ArmedIsDurable' /\ \A q \in Callers : Prepared(q)' /\ Owes(q)'
<1>1. \A q \in Callers : call'[q].step = "rest"
  BY OthersRest DEF Answers, Idle, CounterInv, CounterTypeOK
<1>2. Alone' /\ \A q \in Callers : Prepared(q)' /\ Owes(q)'
  BY <1>1 DEF Alone, Prepared, Owes
<1>3. ArmedIsDurable'
  BY DEF Answers, ArmedIsDurable, CounterInv, CounterTypeOK
<1> QED BY <1>2, <1>3

LEMMA RemovesKeeps ==
    ASSUME CounterInv, NEW p \in Callers, Removes(p)
    PROVE  CallsOK' /\ Read' = Wanted(p) /\ disk' = disk \cup {Wanted(p)}
<1>1. Wanted(p) = Blank
  BY DEF Removes, CounterInv, Prepared
<1>2. call[p].kind # "arm"
  BY <1>1, WantedKeepsArmed DEF Removes
<1>3. Read' = Blank /\ disk' = disk \cup {Blank}
  BY DEF Removes, Read, Found, CounterInv, CounterTypeOK
<1>4. \A c \in Components, r \in disk' : owed[c] # {} => r[c].version \in owed[c]
  BY <1>1, <1>3, WantedKeepsArmed DEF Removes, CounterInv, ArmedIsDurable
<1>5. Alone' /\ ArmedIsDurable' /\ \A q \in Callers : Prepared(q)' /\ Owes(q)'
  BY <1>2, <1>4, AnswersKeeps DEF Removes
<1>6. PendingWhole'
  BY <1>3 DEF Removes, PendingWhole, CounterInv, CounterTypeOK
<1> QED BY <1>1, <1>3, <1>5, <1>6 DEF CallsOK

\* The steps that prepare the file leave the record alone.
LEMMA PreparesKeeps ==
    ASSUME CounterInv, NEW p \in Callers, call[p].step # "rest",
           \A q \in Callers \ {p} : call'[q] = call[q],
           names'.pending = names.pending, names'.temp # names.pending \/ names.pending = 0,
           names.pending # 0 => files'[names.pending] = files[names.pending],
           disk' = disk, owed' = owed
    PROVE  /\ Alone' /\ PendingWhole' /\ ArmedIsDurable' /\ RecordStays
           /\ \A q \in Callers \ {p} : Prepared(q)' /\ Owes(q)'
<1>1. \A q \in Callers \ {p} : call'[q].step = "rest"
  BY OthersRest DEF CounterInv
<1>2. Alone' /\ \A q \in Callers \ {p} : Prepared(q)' /\ Owes(q)'
  BY <1>1 DEF Alone, Prepared, Owes
<1>3. Read' = Read
  BY DEF Read, Found
<1>4. PendingWhole'
  BY <1>3 DEF PendingWhole, CounterInv
<1>5. ArmedIsDurable'
  BY DEF ArmedIsDurable, CounterInv
<1> QED BY <1>2, <1>3, <1>4, <1>5 DEF RecordStays

LEMMA CreatesKeeps ==
    ASSUME CounterInv, NEW p \in Callers, Creates(p)
    PROVE  CallsOK' /\ RecordStays
<1>1. PICK i \in Inodes :
          /\ IF names.temp # 0 THEN i = names.temp
             ELSE i # names.pending /\ \A q \in Callers : call[q].at # i
          /\ files' = [files EXCEPT ![i] = NoText]
          /\ names' = [names EXCEPT !.temp = i]
          /\ call' = [call EXCEPT ![p].step = "write", ![p].at = i]
  BY DEF Creates
<1>2. i # names.pending /\ i # 0
  BY <1>1, CounterAssumption DEF CounterInv, PendingWhole
<1> DEFINE new == [call[p] EXCEPT !.step = "write", !.at = i]
<1>3. call[p] \in CallSet
  BY DEF CounterInv, CounterTypeOK
<1>4. /\ new.step = "write" /\ new.at = i /\ new.kind = call[p].kind
      /\ new.comp = call[p].comp /\ new.version = call[p].version
      /\ new.record = call[p].record
  BY <1>3 DEF CallSet
<1>5. call' = [call EXCEPT ![p] = new]
  BY <1>1 DEF CounterInv, CounterTypeOK
<1> HIDE DEF new
<1>6. call'[p] = new /\ \A q \in Callers \ {p} : call'[q] = call[q]
  BY <1>5 DEF CounterInv, CounterTypeOK
<1>7. /\ names'.pending = names.pending /\ names'.temp = i
      /\ files'[i] = NoText /\ \A j \in Inodes \ {i} : files'[j] = files[j]
  BY <1>1 DEF CounterInv, CounterTypeOK
<1>8. names.pending # 0 => files'[names.pending] = files[names.pending]
  BY <1>2, <1>7 DEF CounterInv, CounterTypeOK
<1>9. disk' = disk /\ owed' = owed /\ call[p].step = "create"
  BY DEF Creates
<1>10. /\ Alone' /\ PendingWhole' /\ ArmedIsDurable' /\ RecordStays
       /\ \A q \in Callers \ {p} : Prepared(q)' /\ Owes(q)'
  BY <1>2, <1>6, <1>7, <1>8, <1>9, PreparesKeeps
<1>11. Wanted(p)' = Wanted(p)
  BY <1>4, <1>6, <1>10 DEF Wanted, RecordStays
<1>12. Prepared(p)'
  BY <1>2, <1>4, <1>6, <1>7, <1>9, <1>11 DEF Prepared, NoText, CounterInv
<1>13. Owes(p)'
  BY <1>4, <1>6, <1>9 DEF Owes, CounterInv
<1> QED BY <1>10, <1>12, <1>13 DEF CallsOK

\* A step that takes the call on to the next.
LEMMA GoesOn ==
    ASSUME CounterInv, NEW p \in Callers, NEW s, GoesTo(p, s)
    PROVE  /\ \A q \in Callers \ {p} : call'[q] = call[q]
           /\ call'[p].step = s /\ call'[p].kind = call[p].kind
           /\ call'[p].comp = call[p].comp /\ call'[p].version = call[p].version
           /\ call'[p].record = call[p].record /\ call'[p].at = call[p].at
<1>1. call[p] \in CallSet /\ call' = [call EXCEPT ![p] = [call[p] EXCEPT !.step = s]]
  BY DEF GoesTo, CounterInv, CounterTypeOK
<1>2. call'[p] = [call[p] EXCEPT !.step = s] /\ \A q \in Callers \ {p} : call'[q] = call[q]
  BY <1>1 DEF CounterInv, CounterTypeOK
<1> QED BY <1>1, <1>2 DEF CallSet

LEMMA WritesKeeps ==
    ASSUME CounterInv, NEW p \in Callers, Writes(p)
    PROVE  CallsOK' /\ RecordStays
<1>1. /\ call[p].at = names.temp /\ call[p].at # 0 /\ call[p].at # names.pending
      /\ files[call[p].at].text = "truncated" /\ call[p].step = "write"
      /\ call[p].record = Wanted(p)
  BY DEF Writes, CounterInv, Prepared
<1>2. call[p].at \in Inodes
  BY <1>1 DEF CounterInv, CounterTypeOK, CallSet
<1>3. PICK f \in Written(p) :
          /\ files' = [files EXCEPT ![call[p].at] = f]
          /\ disk' = IF call[p].at = names.pending THEN disk \cup {Blank, f.record} ELSE disk
  BY DEF Writes
<1>4. f.text = "json" /\ f.record = call[p].record
  BY <1>1, WrittenIs
<1>5. /\ files'[call[p].at].text = "json" /\ files'[call[p].at].record = call[p].record
      /\ \A j \in Inodes \ {call[p].at} : files'[j] = files[j]
  BY <1>2, <1>3, <1>4 DEF CounterInv, CounterTypeOK
<1>6. disk' = disk /\ owed' = owed /\ names' = names /\ GoesTo(p, "sync")
  BY <1>1, <1>3 DEF Writes
<1>7. names.pending # 0 => files'[names.pending] = files[names.pending]
  BY <1>1, <1>5 DEF CounterInv, CounterTypeOK
<1>8. /\ \A q \in Callers \ {p} : call'[q] = call[q]
      /\ call'[p].step = "sync" /\ call'[p].kind = call[p].kind
      /\ call'[p].comp = call[p].comp /\ call'[p].version = call[p].version
      /\ call'[p].record = call[p].record /\ call'[p].at = call[p].at
  BY <1>6, GoesOn
<1>9. /\ Alone' /\ PendingWhole' /\ ArmedIsDurable' /\ RecordStays
      /\ \A q \in Callers \ {p} : Prepared(q)' /\ Owes(q)'
  BY <1>1, <1>6, <1>7, <1>8, PreparesKeeps
<1>10. Wanted(p)' = Wanted(p)
  BY <1>8, <1>9 DEF Wanted, RecordStays
<1>11. Prepared(p)'
  BY <1>1, <1>5, <1>6, <1>8, <1>10 DEF Prepared
<1>12. Owes(p)'
  BY <1>1, <1>6, <1>8 DEF Owes, CounterInv
<1> QED BY <1>9, <1>11, <1>12 DEF CallsOK

LEMMA SyncsKeeps ==
    ASSUME CounterInv, NEW p \in Callers, Syncs(p)
    PROVE  CallsOK' /\ RecordStays
<1>1. /\ call[p].at = names.temp /\ call[p].at # 0 /\ call[p].at # names.pending
      /\ files[call[p].at].text = "json" /\ files[call[p].at].record = call[p].record
      /\ call[p].step = "sync" /\ call[p].record = Wanted(p)
  BY DEF Syncs, CounterInv, Prepared
<1>2. call[p].at \in Inodes /\ files[call[p].at] \in File
  BY <1>1 DEF CounterInv, CounterTypeOK, CallSet
<1>3. files' = [files EXCEPT ![call[p].at] = [files[call[p].at] EXCEPT !.synced = TRUE]]
  BY <1>2 DEF Syncs, CounterInv, CounterTypeOK
<1>4. /\ files'[call[p].at] = [files[call[p].at] EXCEPT !.synced = TRUE]
      /\ \A j \in Inodes \ {call[p].at} : files'[j] = files[j]
  BY <1>2, <1>3 DEF CounterInv, CounterTypeOK
<1>5. /\ files'[call[p].at].text = "json" /\ files'[call[p].at].record = call[p].record
      /\ files'[call[p].at].synced
  BY <1>1, <1>2, <1>4 DEF File
<1>6. disk' = disk /\ owed' = owed /\ names' = names /\ GoesTo(p, "rename")
  BY DEF Syncs
<1>7. names.pending # 0 => files'[names.pending] = files[names.pending]
  BY <1>1, <1>4 DEF CounterInv, CounterTypeOK
<1>8. /\ \A q \in Callers \ {p} : call'[q] = call[q]
      /\ call'[p].step = "rename" /\ call'[p].kind = call[p].kind
      /\ call'[p].comp = call[p].comp /\ call'[p].version = call[p].version
      /\ call'[p].record = call[p].record /\ call'[p].at = call[p].at
  BY <1>6, GoesOn
<1>9. /\ Alone' /\ PendingWhole' /\ ArmedIsDurable' /\ RecordStays
      /\ \A q \in Callers \ {p} : Prepared(q)' /\ Owes(q)'
  BY <1>1, <1>6, <1>7, <1>8, PreparesKeeps
<1>10. Wanted(p)' = Wanted(p)
  BY <1>8, <1>9 DEF Wanted, RecordStays
<1>11. Prepared(p)'
  BY <1>1, <1>5, <1>6, <1>8, <1>10 DEF Prepared
<1>12. Owes(p)'
  BY <1>1, <1>6, <1>8 DEF Owes, CounterInv
<1> QED BY <1>9, <1>11, <1>12 DEF CallsOK

LEMMA RenamesKeeps ==
    ASSUME CounterInv, NEW p \in Callers, Renames(p)
    PROVE  CallsOK' /\ Read' = Wanted(p) /\ disk' = disk \cup {Wanted(p)}
<1>1. /\ call[p].at = names.temp /\ call[p].at # 0
      /\ files[call[p].at].text = "json" /\ files[call[p].at].record = Wanted(p)
      /\ files[call[p].at].synced /\ call[p].step = "rename"
  BY DEF Renames, CounterInv, Prepared
<1>2. Found(names.temp) = Wanted(p)
  BY <1>1 DEF Found
<1>3. /\ names'.pending = names.temp /\ names'.temp = 0 /\ files' = files /\ owed' = owed
      /\ GoesTo(p, "settle")
  BY DEF Renames
<1>4. disk' = disk \cup {Wanted(p)}
  BY <1>1, <1>2 DEF Renames
<1>5. Read' = Wanted(p)
  BY <1>1, <1>3 DEF Read, Found
<1>6. /\ \A q \in Callers \ {p} : call'[q] = call[q]
      /\ call'[p].step = "settle" /\ call'[p].kind = call[p].kind
      /\ call'[p].comp = call[p].comp /\ call'[p].version = call[p].version
      /\ call'[p].record = call[p].record /\ call'[p].at = call[p].at
  BY <1>3, GoesOn
<1>7. \A q \in Callers \ {p} : call'[q].step = "rest"
  BY <1>1, <1>6, OthersRest DEF CounterInv
<1>8. Alone' /\ \A q \in Callers \ {p} : Prepared(q)' /\ Owes(q)'
  BY <1>7 DEF Alone, Prepared, Owes
<1>9. PendingWhole'
  BY <1>1, <1>3, <1>4, <1>5 DEF PendingWhole
<1>10. ArmedIsDurable'
  BY <1>1, <1>3, <1>4, WantedKeepsArmed DEF ArmedIsDurable, CounterInv
<1>11. Prepared(p)'
  BY <1>6 DEF Prepared
<1>12. Owes(p)'
  BY <1>1, <1>3, <1>5, <1>6, WantedKeepsArmed DEF Owes, CounterInv
<1> QED BY <1>4, <1>5, <1>8, <1>9, <1>10, <1>11, <1>12 DEF CallsOK

LEMMA SettlesKeeps ==
    ASSUME CounterInv, NEW p \in Callers, Settles(p)
    PROVE  CallsOK' /\ Read' = Read /\ disk' = {Read}
<1>1. disk' = {Read}
  BY DEF Settles, CounterInv, PendingWhole
<1>2. Read' = Read
  BY DEF Settles, Read, Found
<1>3. \A c \in Components, r \in disk' : owed[c] # {} => r[c].version \in owed[c]
  BY <1>1 DEF CounterInv, PendingWhole, ArmedIsDurable
<1>4. call[p].kind = "arm" => \A r \in disk' : r[call[p].comp].version = call[p].version
  BY <1>1 DEF Settles, CounterInv, Owes
<1>5. Alone' /\ ArmedIsDurable' /\ \A q \in Callers : Prepared(q)' /\ Owes(q)'
  BY <1>3, <1>4, AnswersKeeps DEF Settles
<1>6. PendingWhole'
  BY <1>1, <1>2 DEF Settles, PendingWhole, CounterInv
<1> QED BY <1>1, <1>2, <1>5, <1>6 DEF CallsOK

\* A call cut short has touched at most a file that has no name, or the temporary one.
LEMMA EndsKeeps ==
    ASSUME CounterInv, NEW p \in Callers, Ends(p)
    PROVE  CallsOK' /\ RecordStays
<1>1. /\ call[p].step # "rest" /\ call' = [call EXCEPT ![p] = Idle]
      /\ names' = names /\ owed' = owed
  BY DEF Ends
<1>2. call'[p] = Idle /\ \A q \in Callers \ {p} : call'[q] = call[q]
  BY <1>1 DEF CounterInv, CounterTypeOK
<1>3. disk' = disk /\ (names.pending # 0 => files'[names.pending] = files[names.pending])
  <2>1. CASE UNCHANGED <<files, disk>>
    BY <2>1
  <2>2. CASE /\ call[p].step = "write"
             /\ files' = [files EXCEPT ![call[p].at].text = "garbled"]
             /\ disk' = IF call[p].at = names.pending THEN disk \cup {Blank} ELSE disk
    <3>1. call[p].at # names.pending
      BY <2>2 DEF CounterInv, Prepared
    <3> QED BY <2>2, <3>1 DEF CounterInv, CounterTypeOK
  <2> QED BY <2>1, <2>2 DEF Ends
<1>4. names'.temp # names.pending \/ names.pending = 0
  BY <1>1 DEF CounterInv, PendingWhole
<1>5. /\ Alone' /\ PendingWhole' /\ ArmedIsDurable' /\ RecordStays
      /\ \A q \in Callers \ {p} : Prepared(q)' /\ Owes(q)'
  BY <1>1, <1>2, <1>3, <1>4, PreparesKeeps
<1>6. Prepared(p)' /\ Owes(p)'
  BY <1>2 DEF Prepared, Owes, Idle
<1> QED BY <1>5, <1>6 DEF CallsOK

LEMMA PowerKeeps ==
    ASSUME CounterInv, PowerGoes
    PROVE  CallsOK' /\ Read' \in disk /\ disk' = {Read'}
<1>1. PICK r \in disk, i \in Inodes :
          /\ files' = [files EXCEPT ![i] = [text |-> "json", record |-> r, synced |-> TRUE]]
          /\ names' = [pending |-> IF r = Blank THEN 0 ELSE i, temp |-> 0]
          /\ disk' = {r}
  BY DEF PowerGoes
<1>2. i # 0 /\ files'[i] = [text |-> "json", record |-> r, synced |-> TRUE]
  BY <1>1, CounterAssumption DEF CounterInv, CounterTypeOK
<1>3. Read' = r
  BY <1>1, <1>2 DEF Read, Found
<1>4. \A q \in Callers : call'[q].step = "rest"
  BY DEF PowerGoes, Idle
<1>5. Alone' /\ \A q \in Callers : Prepared(q)' /\ Owes(q)'
  BY <1>4 DEF Alone, Prepared, Owes
<1>6. PendingWhole'
  BY <1>1, <1>2, <1>3 DEF PendingWhole
<1>7. ArmedIsDurable'
  BY <1>1 DEF PowerGoes, ArmedIsDurable, CounterInv
<1> QED BY <1>1, <1>3, <1>5, <1>6, <1>7 DEF CallsOK

LEMMA CounterInitInv == CounterInit => CounterInv
<1> SUFFICES ASSUME CounterInit PROVE CounterInv
  OBVIOUS
<1>1. \A q \in Callers : call[q].step = "rest"
  BY DEF CounterInit, Idle
<1>2. Read = Blank
  BY DEF CounterInit, Read, Found
<1>3. Alone /\ \A q \in Callers : Prepared(q) /\ Owes(q)
  BY <1>1 DEF Alone, Prepared, Owes
<1>4. PendingWhole /\ ArmedIsDurable
  BY <1>2 DEF CounterInit, PendingWhole, ArmedIsDurable
<1> QED BY <1>3, <1>4, CounterInitTyped DEF CounterInv

-----------------------------------------------------------------------------
(* Every step is one of the record, or none.                               *)

\* The changes are the record's own.
LEMMA SameChanges ==
    ASSUME NEW c \in Components, NEW v \in Versions
    PROVE  /\ Book!Armed(Read, c, v) = Armed(Read, c, v)
           /\ Book!Cleared(Read, c) = Cleared(Read, c)
           /\ Book!Counted(Read) = Counted(Read)
BY DEF Book!Armed, Armed, Book!Cleared, Cleared, Book!Counted, Counted, Book!NoTrial, NoTrial

\* A call that puts its record in place makes the change it is about.
LEMMA WantedIsStep ==
    ASSUME CounterInv, NEW p \in Callers, Read' = Wanted(p), disk' = disk \cup {Wanted(p)}
    PROVE  Book!Next
<1>1. call[p].kind \in Kinds
  BY DEF CounterInv, CounterTypeOK, CallSet
<1>2. CASE call[p].kind = "arm"
  <2>1. call[p].comp \in Components /\ call[p].version \in Versions
    BY <1>2 DEF CounterInv, ArgsOK
  <2>2. Wanted(p) = Book!Armed(Read, call[p].comp, call[p].version)
    BY <1>2, <2>1, SameChanges DEF Wanted
  <2>3. Book!Arm(call[p].comp, call[p].version)
    BY <2>2 DEF Book!Arm, Book!Becomes
  <2> QED BY <2>1, <2>3 DEF Book!Next
<1>3. CASE call[p].kind = "confirm"
  <2>1. call[p].comp \in Components
    BY <1>3 DEF CounterInv, ArgsOK
  <2>2. Wanted(p) = Book!Cleared(Read, call[p].comp)
    BY <1>3 DEF Wanted, Book!Cleared, Cleared, Book!NoTrial, NoTrial
  <2>3. Book!Confirm(call[p].comp)
    BY <2>2 DEF Book!Confirm, Book!Becomes
  <2> QED BY <2>1, <2>3 DEF Book!Next
<1>4. CASE call[p].kind = "boot"
  <2>1. Wanted(p) = Book!Counted(Read)
    BY <1>4 DEF Wanted, Book!Counted, Counted, Book!NoTrial, NoTrial
  <2> QED BY <2>1 DEF Book!Boot, Book!Becomes, Book!Next
<1> QED BY <1>1, <1>2, <1>3, <1>4 DEF Kinds

LEMMA CounterStep ==
    ASSUME CounterInv, ~Overlap, [CounterNext]_counterVars
    PROVE  CounterInv' /\ [Book!Next]_<<Read, disk>>
<1>1. CounterTypeOK' /\ ArgsOK'
  BY CounterStepTyped DEF CounterInv
<1> SUFFICES CallsOK' /\ [Book!Next]_<<Read, disk>>
  BY <1>1 DEF CounterInv, CallsOK
<1>2. CASE CallsOK' /\ RecordStays
  BY <1>2 DEF RecordStays
<1>3. ASSUME NEW c \in Components, NEW v \in Versions, Arms(c, v)
      PROVE  CallsOK' /\ RecordStays
  BY <1>3, ArmsKeeps
<1>4. ASSUME NEW p \in Callers, NEW c \in Components, Confirms(p, c)
      PROVE  CallsOK' /\ RecordStays
  BY <1>4, ConfirmsKeeps
<1>5. ASSUME Boots PROVE CallsOK' /\ RecordStays
  BY <1>5, BootsKeeps
<1>6. ASSUME NEW p \in Callers, Removes(p) \/ Renames(p)
      PROVE  CallsOK' /\ Book!Next
  BY <1>6, RemovesKeeps, RenamesKeeps, WantedIsStep
<1>7. ASSUME NEW p \in Callers, Creates(p) \/ Writes(p) \/ Syncs(p) \/ Ends(p)
      PROVE  CallsOK' /\ RecordStays
  BY <1>7, CreatesKeeps, WritesKeeps, SyncsKeeps, EndsKeeps
<1>8. ASSUME NEW p \in Callers, Settles(p) PROVE CallsOK' /\ Book!Next
  BY <1>8, SettlesKeeps DEF Book!Settle, Book!Next
<1>9. ASSUME PowerGoes PROVE CallsOK' /\ Book!Next
  BY <1>9, PowerKeeps DEF Book!Cut, Book!Next
<1>10. ASSUME UNCHANGED counterVars PROVE CallsOK' /\ RecordStays
  BY <1>10 DEF counterVars, CounterInv, CallsOK, RecordStays, Alone, PendingWhole,
     ArmedIsDurable, Prepared, Owes, Wanted, Read, Found
<1> QED
  BY <1>2, <1>3, <1>4, <1>5, <1>6, <1>7, <1>8, <1>9, <1>10 DEF CounterNext, Does

\* Where no start falls into the calls of the lock's holder, a trial that was armed outlives
\* every power cut until it is confirmed, whatever errors and kills the calls after it meet
\* (journal.rs, BootCounter; fsutil.rs, write_atomic).
THEOREM ArmedStaysArmed ==
    ASSUME ~Overlap PROVE CounterSpec => []ArmedIsDurable
<1>1. CounterInv /\ [CounterNext]_counterVars => CounterInv'
  BY CounterStep
<1>2. CounterInv => ArmedIsDurable
  BY DEF CounterInv
<1> QED BY <1>1, <1>2, CounterInitInv, PTL DEF CounterSpec

\* And the calls on the file are then the steps of a record that changes at once
\* or not at all, which is what the engine takes it for.
THEOREM CounterImplementsRecord ==
    ASSUME ~Overlap PROVE CounterSpec => ImplementsTrialRecord
<1>1. CounterInit => Book!Init
  <2> SUFFICES ASSUME CounterInit PROVE Book!Init
    OBVIOUS
  <2>1. Read = Blank /\ disk = {Blank} /\ Blank = Book!Blank
    BY DEF CounterInit, Read, Found, Blank, NoTrial, Book!Blank, Book!NoTrial
  <2> QED BY <2>1 DEF Book!Init
<1>2. CounterInv /\ [CounterNext]_counterVars
      => CounterInv' /\ [Book!Next]_<<Read, disk>>
  BY CounterStep
<1> QED BY <1>1, <1>2, CounterInitInv, PTL DEF CounterSpec, ImplementsTrialRecord, Book!Spec

-----------------------------------------------------------------------------
(* The update log.                                                         *)

\* What a file, the log or one a power cut may leave, has of the history.
FileInv(f) ==
    /\ f.bare \notin answered
    /\ ~f.broken =>
           /\ \A n \in answered \ glued : Recent(n) => n \in f.whole
           /\ Cardinality(f.whole) <= MaxEntries + mishaps + (IF phase = "rest" THEN 0 ELSE 1)

LogInv ==
    /\ LogTypeOK
    /\ \A f \in lasting \cup {lines} : FileInv(f)
    /\ phase # "rest" => Len(logged) \in lines.whole \cup glued /\ Len(logged) > 0
    /\ phase = "trim" => lasting = {lines}

LEMMA JoinedIs ==
    ASSUME NEW f \in Files
    PROVE  /\ Joined(f) \in Files /\ Joined(f).open /\ Joined(f).bare = 0
           /\ Joined(f).broken = f.broken
           /\ Joined(f).whole = IF f.open THEN f.whole \ {f.bare} ELSE f.whole
BY DEF Joined, Files

\* What is left of a file by an append: at most the entry is new, at most a bare one is lost.
LEMMA CompleteIs ==
    ASSUME NEW f \in Files, NEW n \in Nat \ {0}
    PROVE  LET g == Complete(f, n) IN
           /\ g \in Files /\ ~g.open /\ g.broken = f.broken
           /\ g.bare = IF f.open THEN 0 ELSE f.bare
           /\ g.whole = IF f.open THEN f.whole \ {f.bare} ELSE f.whole \cup {n}
<1>1. CASE f.open
  <2> DEFINE j == Joined(f)
  <2>1. /\ j \in Files /\ j.bare = 0 /\ j.broken = f.broken /\ j.whole = f.whole \ {f.bare}
    BY <1>1, JoinedIs
  <2>2. Complete(f, n) = [j EXCEPT !.open = FALSE]
    BY <1>1 DEF Complete
  <2> HIDE DEF j
  <2>3. LET g == Complete(f, n) IN
        /\ g \in Files /\ ~g.open /\ g.broken = j.broken /\ g.bare = j.bare /\ g.whole = j.whole
    BY <2>1, <2>2 DEF Files
  <2> QED BY <1>1, <2>1, <2>3
<1>2. CASE ~f.open
  BY <1>2 DEF Complete, Files
<1> QED BY <1>1, <1>2 DEF Files

IsPartOf(g, f, n) ==
    /\ g \in Files /\ g.open /\ (f.broken => g.broken)
    /\ \/ g.bare = 0 /\ g.whole = IF f.open THEN f.whole \ {f.bare} ELSE f.whole
       \/ ~f.open /\ g.bare = n /\ g.whole = f.whole \cup {n}

LEMMA PartialIs ==
    ASSUME NEW f \in Files, NEW n \in Nat \ {0}, NEW g \in Partial(f, n)
    PROVE  IsPartOf(g, f, n)
<1> USE DEF IsPartOf
<1> DEFINE j == Joined(f)
<1>j. /\ j \in Files /\ j.open /\ j.bare = 0 /\ j.broken = f.broken
      /\ j.whole = IF f.open THEN f.whole \ {f.bare} ELSE f.whole
  BY JoinedIs
<1>1. CASE g = j
  BY <1>1, <1>j
<1>2. CASE g = [j EXCEPT !.broken = TRUE]
  <2> HIDE DEF j
  <2>1. /\ g \in Files /\ g.open = j.open /\ g.bare = j.bare /\ g.whole = j.whole
        /\ g.broken = TRUE
    BY <1>2, <1>j DEF Files
  <2> QED BY <2>1, <1>j
<1>3. CASE ~f.open /\ g = [f EXCEPT !.whole = @ \cup {n}, !.open = TRUE, !.bare = n]
  BY <1>3 DEF Files
<1>4. \/ g = j \/ g = [j EXCEPT !.broken = TRUE]
      \/ ~f.open /\ g = [f EXCEPT !.whole = @ \cup {n}, !.open = TRUE, !.bare = n]
  BY DEF Partial
<1> QED BY <1>1, <1>2, <1>3, <1>4

\* At most one entry is gained, and at most a bare one lost.
LEMMA LostOrGained ==
    ASSUME NEW W, NEW b, NEW n, NEW V,
           V = W \ {b} \/ V = W \/ V = W \cup {n}
    PROVE  V \subseteq W \cup {n} /\ W \ {b} \subseteq V
OBVIOUS

\* Both at once, for the file there is.
LEMMA AppendedIs ==
    ASSUME LogInv, NEW n, n = Len(logged) + 1,
           NEW g \in Partial(lines, n) \cup {Complete(lines, n)}
    PROVE  /\ g \in Files /\ g.whole \subseteq 1..n /\ (g.bare # 0 => g.open)
           /\ g.bare \in {0, n} /\ (lines.broken => g.broken)
           /\ g.whole \subseteq lines.whole \cup {n}
           /\ lines.whole \ {lines.bare} \subseteq g.whole
<1>1. /\ lines \in Files /\ lines.whole \subseteq 1..Len(logged) /\ (lines.bare # 0 => lines.open)
      /\ Len(logged) \in Nat /\ n \in Nat \ {0}
  BY DEF LogInv, LogTypeOK
<1>2. lines.whole \subseteq 1..n /\ n \in 1..n
  BY <1>1
<1>3. CASE g = Complete(lines, n)
  <2>1. /\ g \in Files /\ ~g.open /\ g.broken = lines.broken
        /\ g.bare = IF lines.open THEN 0 ELSE lines.bare
        /\ g.whole = IF lines.open THEN lines.whole \ {lines.bare} ELSE lines.whole \cup {n}
    BY <1>1, <1>3, CompleteIs
  <2> QED BY <1>1, <1>2, <2>1
<1>4. CASE g \in Partial(lines, n)
  <2>0. IsPartOf(g, lines, n)
    BY <1>1, <1>4, PartialIs
  <2>1. /\ g \in Files /\ g.open /\ (lines.broken => g.broken)
        /\ \/ /\ g.bare = 0
              /\ g.whole = IF lines.open THEN lines.whole \ {lines.bare} ELSE lines.whole
           \/ ~lines.open /\ g.bare = n /\ g.whole = lines.whole \cup {n}
    BY <2>0 DEF IsPartOf
  <2>2. g.whole \subseteq lines.whole \cup {n} /\ lines.whole \ {lines.bare} \subseteq g.whole
    <3>1. \/ g.whole = lines.whole \ {lines.bare} \/ g.whole = lines.whole
          \/ g.whole = lines.whole \cup {n}
      BY <2>1
    <3> QED BY <3>1, LostOrGained
  <2>3. g.whole \subseteq 1..n
    BY <1>2, <2>2
  <2> QED BY <2>1, <2>2, <2>3
<1> QED BY <1>3, <1>4

LEMMA WholeFinite ==
    ASSUME LogInv, NEW f \in lasting \cup {lines}
    PROVE  /\ f \in Files /\ IsFiniteSet(f.whole) /\ Cardinality(f.whole) \in Nat
           /\ IsFiniteSet(1..Len(logged)) /\ f.whole \subseteq 1..Len(logged)
<1>1. f \in Files /\ f.whole \subseteq 1..Len(logged) /\ Len(logged) \in Nat
  BY DEF LogInv, LogTypeOK
<1>2. IsFiniteSet(1..Len(logged))
  BY <1>1, FS_Interval
<1>3. IsFiniteSet(f.whole)
  BY <1>1, <1>2, FS_Subset
<1> QED BY <1>1, <1>2, <1>3, FS_CardinalityType

\* Trimming leaves no more than MaxEntries: as many entries have as many different ranks.
LEMMA KeptIsFew ==
    ASSUME LogInv
    PROVE  IsFiniteSet(Kept) /\ Cardinality(Kept) <= MaxEntries
<1> DEFINE W == lines.whole
           newer(n) == {m \in W : m > n}
           rank == [n \in Kept |-> Cardinality(newer(n))]
<1>1. IsFiniteSet(W) /\ W \subseteq 1..Len(logged) /\ W \subseteq Nat
  BY WholeFinite DEF LogInv, LogTypeOK
<1>2. \A n \in W : IsFiniteSet(newer(n)) /\ Cardinality(newer(n)) \in Nat
  <2> TAKE n \in W
  <2>1. newer(n) \in SUBSET W
    OBVIOUS
  <2>2. IsFiniteSet(newer(n))
    BY <1>1, <2>1, FS_Subset
  <2> QED BY <2>2, FS_CardinalityType
<1>3. Kept \in SUBSET W /\ \A n \in Kept : Cardinality(newer(n)) < MaxEntries
  BY DEF Kept
<1>4. IsFiniteSet(Kept)
  BY <1>1, <1>3, FS_Subset
<1>5. ASSUME NEW x \in Kept, NEW y \in Kept, x < y PROVE rank[y] < rank[x]
  <2>1. newer(y) \in SUBSET newer(x) /\ y \in newer(x) /\ y \notin newer(y)
    BY <1>1, <1>3, <1>5
  <2>2. IsFiniteSet(newer(x)) /\ Cardinality(newer(x)) \in Nat /\ Cardinality(newer(y)) \in Nat
    BY <1>2, <1>3
  <2> HIDE DEF newer
  <2>3. /\ Cardinality(newer(y)) <= Cardinality(newer(x))
        /\ Cardinality(newer(x)) = Cardinality(newer(y)) => newer(x) = newer(y)
    BY <2>1, <2>2, FS_Subset
  <2>4. Cardinality(newer(y)) < Cardinality(newer(x))
    BY <2>1, <2>2, <2>3
  <2> QED BY <2>4
<1>6. rank \in [Kept -> 0..MaxEntries - 1]
  BY <1>2, <1>3, LogAssumption
<1>7. IsFiniteSet(0..MaxEntries - 1) /\ Cardinality(0..MaxEntries - 1) = MaxEntries
  BY FS_Interval, LogAssumption
<1>8. Cardinality(Kept) \in Nat
  BY <1>4, FS_CardinalityType
<1> HIDE DEF rank
<1>9. ASSUME Cardinality(Kept) > MaxEntries PROVE FALSE
  <2>1. Cardinality(0..MaxEntries - 1) < Cardinality(Kept)
    BY <1>7, <1>8, <1>9, LogAssumption
  <2>2. PICK x \in Kept, y \in Kept : x # y /\ rank[x] = rank[y]
    BY <1>4, <1>6, <1>7, <2>1, FS_PigeonHole
  <2>3. rank[x] \in Nat /\ rank[y] \in Nat /\ x \in Nat /\ y \in Nat
    BY <1>1, <1>3, <1>6
  <2>4. x < y \/ y < x
    BY <2>2, <2>3
  <2> QED BY <1>5, <2>2, <2>3, <2>4
<1> QED BY <1>4, <1>8, <1>9, LogAssumption

\* And it leaves what fewer than MaxEntries entries came after.
LEMMA KeptIsRecent ==
    ASSUME LogInv, NEW n \in lines.whole, Recent(n)
    PROVE  n \in Kept
<1> DEFINE newer == {m \in lines.whole : m > n}
<1>1. lines.whole \subseteq 1..Len(logged) /\ Len(logged) \in Nat /\ n \in Int
  BY DEF LogInv, LogTypeOK
<1>2. newer \in SUBSET ((n + 1)..Len(logged))
  BY <1>1
<1>3. /\ IsFiniteSet((n + 1)..Len(logged))
      /\ Cardinality((n + 1)..Len(logged)) < MaxEntries
  <2>1. /\ IsFiniteSet((n + 1)..Len(logged))
        /\ Cardinality((n + 1)..Len(logged)) =
               IF n + 1 > Len(logged) THEN 0 ELSE Len(logged) - (n + 1) + 1
    <3>1. n + 1 \in Int /\ Len(logged) \in Int
      BY <1>1
    <3> QED BY <3>1, FS_Interval
  <2> QED BY <1>1, <2>1, LogAssumption DEF Recent
<1> HIDE DEF newer
<1>4. IsFiniteSet(newer) /\ Cardinality(newer) <= Cardinality((n + 1)..Len(logged))
  BY <1>2, <1>3, FS_Subset
<1>5. Cardinality(newer) \in Nat /\ Cardinality((n + 1)..Len(logged)) \in Nat
  BY <1>3, <1>4, FS_CardinalityType
<1>6. Cardinality(newer) < MaxEntries
  BY <1>3, <1>4, <1>5, LogAssumption
<1> QED BY <1>6 DEF newer, Kept

LEMMA LogInitInv == LogInit => LogInv
<1> SUFFICES ASSUME LogInit PROVE LogInv
  OBVIOUS
<1>1. NoLines \in Files
  BY DEF NoLines, Files
<1>2. LogTypeOK
  BY <1>1, LogAssumption DEF LogInit, LogTypeOK, NoLines
<1>3. \A f \in lasting \cup {lines} : f = NoLines
  BY DEF LogInit
<1>4. FileInv(NoLines)
  BY FS_EmptySet, LogAssumption DEF LogInit, FileInv, NoLines
<1>5. \A f \in lasting \cup {lines} : FileInv(f)
  BY <1>3, <1>4
<1> QED BY <1>2, <1>5 DEF LogInit, LogInv

\* Which step is taken, and what it needs of the file it leaves and of those a cut may.
LEMMA AppendsInv ==
    ASSUME LogInv, NEW e \in Entries, NEW fs, NEW cuts, NEW next,
           Appends(e, fs, cuts, next),
           LET part == Partial(lines, Len(logged) + 1)
               all  == Complete(lines, Len(logged) + 1)
           IN  \/ fs = {all} /\ cuts = part \cup {all} /\ next = "sync" /\ NoMishap
               \/ fs = part \cup {lines} /\ cuts = part /\ next = "rest" /\ Mishap
    PROVE  LogInv'
<1> DEFINE n == Len(logged) + 1
<1>1. /\ Len(logged) \in Nat /\ logged' = Append(logged, e) /\ phase = "rest"
      /\ answered' = answered /\ logged \in Seq(Entries)
      /\ answered \subseteq 1..Len(logged) /\ glued \subseteq 1..Len(logged)
      /\ mishaps \in 0..MaxMishaps /\ lasting' = lasting \cup cuts /\ lines' \in fs
      /\ glued' = IF lines.open THEN glued \cup {n} ELSE glued
  BY DEF Appends, LogInv, LogTypeOK
<1>2. logged' \in Seq(Entries) /\ Len(logged') = n /\ n \in Nat \ {0}
  BY <1>1
<1>3. answered' \subseteq 1..n /\ glued' \subseteq 1..n /\ n \notin answered
      /\ \A m \in answered' \ glued' : m \in answered \ glued
  <2>1. 1..Len(logged) \subseteq 1..n /\ n \in 1..n /\ n \notin 1..Len(logged)
    BY <1>1
  <2>2. glued \subseteq glued' /\ glued' \subseteq glued \cup {n}
    BY <1>1
  <2> HIDE DEF n
  <2> QED BY <1>1, <2>1, <2>2
<1>4. \A m \in answered \ glued : Recent(m)' => Recent(m)
  BY <1>1, <1>2, LogAssumption DEF Recent
<1>5. /\ phase' \in {"rest", "sync"} /\ mishaps' \in 0..MaxMishaps /\ mishaps' >= mishaps
      /\ mishaps' + (IF phase' = "rest" THEN 0 ELSE 1) = mishaps + 1
  BY <1>1, LogAssumption DEF Appends, NoMishap, Mishap
<1>6. lines' \in Partial(lines, n) \cup {Complete(lines, n), lines}
      /\ cuts \subseteq Partial(lines, n) \cup {Complete(lines, n)}
  BY <1>1
<1> HIDE DEF n
<1>7. ASSUME NEW g \in lasting' \cup {lines'} PROVE
      /\ g \in lasting \cup {lines} \cup Partial(lines, n) \cup {Complete(lines, n)}
  BY <1>1, <1>6
<1>8. ASSUME NEW g \in lasting \cup {lines}
      PROVE  /\ g \in Files /\ g.whole \subseteq 1..n /\ (g.bare # 0 => g.open) /\ FileInv(g)'
  <2>1. g \in Files /\ g.whole \subseteq 1..Len(logged) /\ (g.bare # 0 => g.open) /\ FileInv(g)
    BY DEF LogInv, LogTypeOK
  <2>2. g.whole \subseteq 1..n
    BY <1>1, <2>1 DEF n
  <2>3. Cardinality(g.whole) \in Nat
    BY WholeFinite
  <2>4. g.bare \notin answered'
    BY <1>1, <2>1 DEF FileInv
  <2>5. ~g.broken => \A m \in answered' \ glued' : Recent(m)' => m \in g.whole
    BY <1>3, <1>4, <2>1 DEF FileInv
  <2>6. ~g.broken => Cardinality(g.whole) <= MaxEntries + mishaps' +
                        (IF phase' = "rest" THEN 0 ELSE 1)
    BY <1>1, <1>5, <2>1, <2>3, LogAssumption DEF FileInv
  <2> QED BY <2>1, <2>2, <2>4, <2>5, <2>6 DEF FileInv
<1>9. ASSUME NEW g \in Partial(lines, n) \cup {Complete(lines, n)}
      PROVE  /\ g \in Files /\ g.whole \subseteq 1..n /\ (g.bare # 0 => g.open) /\ FileInv(g)'
  <2>1. /\ g \in Files /\ g.whole \subseteq 1..n /\ (g.bare # 0 => g.open)
        /\ g.bare \in {0, n} /\ (lines.broken => g.broken)
        /\ g.whole \subseteq lines.whole \cup {n} /\ lines.whole \ {lines.bare} \subseteq g.whole
    BY AppendedIs DEF n
  <2>2. lines.bare \notin answered /\ FileInv(lines)
    BY DEF LogInv, FileInv
  <2>3. g.bare \notin answered'
    BY <1>1, <1>3, <2>1
  <2>4. ~g.broken => \A m \in answered' \ glued' : Recent(m)' => m \in g.whole
    BY <1>3, <1>4, <2>1, <2>2 DEF FileInv
  <2>5. Cardinality(g.whole) <= Cardinality(lines.whole) + 1 /\ Cardinality(g.whole) \in Nat
    <3>1. IsFiniteSet(lines.whole) /\ Cardinality(lines.whole) \in Nat
      BY WholeFinite
    <3>2. /\ IsFiniteSet(lines.whole \cup {n})
          /\ Cardinality(lines.whole \cup {n}) \in
                 {Cardinality(lines.whole), Cardinality(lines.whole) + 1}
      BY <3>1, FS_AddElement
    <3>3. IsFiniteSet(g.whole) /\ Cardinality(g.whole) <= Cardinality(lines.whole \cup {n})
      BY <2>1, <3>2, FS_Subset
    <3>4. Cardinality(g.whole) \in Nat
      BY <3>3, FS_CardinalityType
    <3> QED BY <3>1, <3>2, <3>3, <3>4
  <2>6. ~g.broken => Cardinality(g.whole) <= MaxEntries + mishaps' +
                        (IF phase' = "rest" THEN 0 ELSE 1)
    <3>1. Cardinality(lines.whole) \in Nat
      BY WholeFinite
    <3>2. ~lines.broken => Cardinality(lines.whole) <= MaxEntries + mishaps
      BY <1>1, <2>2, LogAssumption DEF FileInv
    <3> QED BY <1>1, <1>5, <2>1, <2>5, <3>1, <3>2, LogAssumption
  <2> QED BY <2>1, <2>3, <2>4, <2>6 DEF FileInv
<1>10. \A g \in lasting' \cup {lines'} :
          g \in Files /\ g.whole \subseteq 1..n /\ (g.bare # 0 => g.open) /\ FileInv(g)'
  BY <1>7, <1>8, <1>9
<1>11. phase' # "rest" => ~lines'.open /\ n \in lines'.whole \cup glued'
  <2> SUFFICES ASSUME phase' # "rest" PROVE ~lines'.open /\ n \in lines'.whole \cup glued'
    OBVIOUS
  <2>1. lines' = Complete(lines, n)
    BY <1>1 DEF n, Appends
  <2>2. lines \in Files
    BY DEF LogInv, LogTypeOK
  <2>3. /\ ~lines'.open
        /\ lines'.whole = IF lines.open THEN lines.whole \ {lines.bare} ELSE lines.whole \cup {n}
    BY <1>2, <2>1, <2>2, CompleteIs
  <2> QED BY <1>1, <2>3
<1>12. LogTypeOK'
  BY <1>2, <1>3, <1>5, <1>10, <1>11 DEF LogTypeOK
<1> QED BY <1>2, <1>5, <1>10, <1>11, <1>12 DEF LogInv

\* The log that a trim leaves.
LEMMA TrimmedFile ==
    ASSUME LogInv, TooMany, Trim
    PROVE  /\ lines' \in Files /\ lines'.whole = Kept /\ ~lines'.open /\ lines'.bare = 0
           /\ Kept \subseteq lines.whole /\ Kept \subseteq 1..Len(logged)
           /\ \A n \in answered \ glued : Recent(n) => n \in Kept
           /\ Cardinality(Kept) \in Nat /\ Cardinality(Kept) <= MaxEntries
<1>1. lines \in Files /\ lines.whole \subseteq 1..Len(logged) /\ FileInv(lines)
  BY DEF LogInv, LogTypeOK
<1>2. Kept \subseteq lines.whole
  BY DEF Kept
<1>3. Kept \in SUBSET (Nat \ {0}) /\ Kept \subseteq 1..Len(logged)
  BY <1>1, <1>2 DEF Files
<1>4. /\ lines' \in Files /\ lines'.whole = Kept /\ ~lines'.open /\ lines'.bare = 0
  BY <1>3 DEF Trim, NoLines, Files
<1>5. \A n \in answered \ glued : Recent(n) => n \in Kept
  BY <1>1, KeptIsRecent DEF FileInv, TooMany
<1>6. Cardinality(Kept) \in Nat /\ Cardinality(Kept) <= MaxEntries
  BY KeptIsFew, FS_CardinalityType
<1> QED BY <1>2, <1>3, <1>4, <1>5, <1>6

LEMMA SyncedInv == ASSUME LogInv, Synced PROVE LogInv'
<1>1. LogTypeOK'
  BY DEF Synced, LogInv, LogTypeOK
<1>2. FileInv(lines)'
  BY DEF Synced, LogInv, FileInv, Recent
<1> QED BY <1>1, <1>2 DEF Synced, LogInv

LEMMA TrimmedInv == ASSUME LogInv, Trimmed PROVE LogInv'
<1>1. /\ phase = "trim" /\ phase' = "rest" /\ UNCHANGED <<logged, glued, mishaps>>
      /\ lasting = {lines} /\ ~lines.open /\ lines.bare = 0
      /\ Len(logged) \in lines.whole \cup glued /\ Len(logged) \in 1..Len(logged)
      /\ mishaps \in Nat /\ answered \subseteq 1..Len(logged) /\ FileInv(lines)
      /\ lines.whole \subseteq 1..Len(logged) /\ lines \in Files
  BY DEF Trimmed, LogInv, LogTypeOK
<1>2. /\ answered' \subseteq 1..Len(logged)
      /\ ~lines.broken => answered' \subseteq answered \cup {Len(logged)}
      /\ lines.broken => answered' = answered
  BY <1>1 DEF Trimmed
<1>3. CASE TooMany
  <2>1. Trim /\ lasting' = {lines'}
    BY <1>3 DEF Trimmed
  <2>2. /\ lines' \in Files /\ lines'.whole = Kept /\ ~lines'.open /\ lines'.bare = 0
        /\ Kept \subseteq lines.whole /\ Kept \subseteq 1..Len(logged)
        /\ \A n \in answered \ glued : Recent(n) => n \in Kept
        /\ Cardinality(Kept) \in Nat /\ Cardinality(Kept) <= MaxEntries
    BY <1>3, <2>1, TrimmedFile
  <2>3. Len(logged) \in glued \/ Len(logged) \in Kept
    <3>1. Recent(Len(logged))
      BY <1>1, LogAssumption DEF Recent
    <3> QED BY <1>1, <3>1, KeptIsRecent
  <2>4. \A n \in answered' \ glued' : Recent(n)' => n \in lines'.whole
    BY <1>1, <1>2, <1>3, <2>2, <2>3 DEF Recent, TooMany
  <2>5. 0 \notin answered'
    BY <1>1, <1>2
  <2>6. Cardinality(lines'.whole) <= MaxEntries + mishaps'
    BY <1>1, <2>2, LogAssumption
  <2>7. FileInv(lines)'
    BY <1>1, <2>2, <2>4, <2>5, <2>6, LogAssumption DEF FileInv
  <2>8. LogTypeOK'
    BY <1>1, <1>2, <2>1, <2>2 DEF LogInv, LogTypeOK
  <2> QED BY <1>1, <2>1, <2>7, <2>8 DEF LogInv
<1>4. CASE ~TooMany
  <2>1. lines' = lines /\ lasting' = {lines}
    BY <1>1, <1>4 DEF Trimmed
  <2>2. 0 \notin answered'
    BY <1>1, <1>2
  <2>3. ~lines.broken =>
            /\ \A n \in answered' \ glued' : Recent(n)' => n \in lines.whole
            /\ Cardinality(lines.whole) <= MaxEntries + mishaps'
    <3> SUFFICES ASSUME ~lines.broken
                 PROVE  /\ \A n \in answered' \ glued' : Recent(n)' => n \in lines.whole
                        /\ Cardinality(lines.whole) <= MaxEntries + mishaps'
      OBVIOUS
    <3>1. Kept = lines.whole
      BY <1>4 DEF TooMany
    <3>2. Cardinality(lines.whole) \in Nat /\ Cardinality(lines.whole) <= MaxEntries
      BY <3>1, KeptIsFew, FS_CardinalityType
    <3>3. \A n \in answered' \ glued' : Recent(n)' => n \in lines.whole
      BY <1>1, <1>2 DEF Recent, FileInv
    <3> QED BY <1>1, <3>2, <3>3, LogAssumption
  <2>4. FileInv(lines)'
    BY <1>1, <2>1, <2>2, <2>3, LogAssumption DEF FileInv
  <2>5. LogTypeOK'
    BY <1>1, <1>2, <2>1 DEF LogInv, LogTypeOK
  <2> QED BY <1>1, <2>1, <2>4, <2>5 DEF LogInv
<1> QED BY <1>3, <1>4

\* A file keeps what it has when something goes wrong.
LEMMA MishapKeepsFiles ==
    ASSUME LogInv, Mishap, phase' = "rest", UNCHANGED <<logged, answered, glued>>,
           NEW f \in lasting \cup {lines}
    PROVE  FileInv(f)'
<1>1. FileInv(f) /\ mishaps \in Nat /\ mishaps' = mishaps + 1
  BY DEF LogInv, LogTypeOK, Mishap
<1>2. Cardinality(f.whole) \in Nat
  BY WholeFinite
<1>3. ~f.broken => Cardinality(f.whole) <= MaxEntries + mishaps'
  BY <1>1, <1>2, LogAssumption DEF FileInv
<1>4. Cardinality(f.whole) <= MaxEntries + mishaps'
      => Cardinality(f.whole) <= MaxEntries + mishaps' + (IF phase' = "rest" THEN 0 ELSE 1)
  BY <1>1, <1>2, LogAssumption
<1> QED BY <1>1, <1>3, <1>4 DEF FileInv, Recent

LEMMA StoppedInv == ASSUME LogInv, Stopped PROVE LogInv'
<1>1. /\ Mishap /\ phase' = "rest" /\ UNCHANGED <<logged, answered, glued>>
      /\ lasting' = lasting \cup {lines'}
  BY DEF Stopped
<1>2. mishaps' \in 0..MaxMishaps /\ mishaps' \in Nat
  BY LogAssumption DEF Stopped, Mishap, LogInv, LogTypeOK
<1>3. /\ lines' \in Files /\ lines'.whole \subseteq 1..Len(logged) /\ FileInv(lines)'
      /\ (lines'.bare # 0 => lines'.open)
  <2>1. CASE lines' = lines
    <3>1. FileInv(lines)'
      <4>1. Cardinality(lines.whole) \in Nat /\ FileInv(lines) /\ mishaps \in Nat
            /\ mishaps' = mishaps + 1
        BY WholeFinite DEF LogInv, LogTypeOK, Stopped, Mishap
      <4>2. ~lines.broken => Cardinality(lines.whole) <= MaxEntries + mishaps'
        BY <4>1, LogAssumption DEF FileInv
      <4> QED BY <1>1, <1>2, <2>1, <4>1, <4>2, LogAssumption DEF FileInv, Recent
    <3> QED BY <2>1, <3>1 DEF LogInv, LogTypeOK
  <2>2. CASE TooMany /\ Trim
    <3>1. /\ lines' \in Files /\ lines'.whole = Kept /\ ~lines'.open /\ lines'.bare = 0
          /\ Kept \subseteq lines.whole /\ Kept \subseteq 1..Len(logged)
          /\ \A n \in answered \ glued : Recent(n) => n \in Kept
          /\ Cardinality(Kept) \in Nat /\ Cardinality(Kept) <= MaxEntries
      BY <2>2, TrimmedFile
    <3>2. 0 \notin answered'
      BY <1>1 DEF LogInv, LogTypeOK
    <3>3. \A n \in answered' \ glued' : Recent(n)' => n \in lines'.whole
      BY <1>1, <3>1 DEF Recent
    <3>4. Cardinality(lines'.whole) <= MaxEntries + mishaps'
      BY <1>2, <3>1, LogAssumption
    <3>5. FileInv(lines)'
      BY <1>1, <1>2, <3>1, <3>2, <3>3, <3>4, LogAssumption DEF FileInv
    <3> QED BY <3>1, <3>5
  <2> QED BY <2>1, <2>2 DEF Stopped
<1>4. \A f \in lasting : FileInv(f)'
  BY <1>1, MishapKeepsFiles
<1>5. LogTypeOK'
  BY <1>1, <1>2, <1>3 DEF LogInv, LogTypeOK
<1>6. \A f \in lasting' \cup {lines'} : FileInv(f)'
  BY <1>1, <1>3, <1>4
<1> QED BY <1>1, <1>5, <1>6 DEF LogInv

LEMMA LogPowerInv == ASSUME LogInv, LogPowerGoes PROVE LogInv'
<1>1. /\ Mishap /\ phase' = "rest" /\ UNCHANGED <<logged, answered, glued>>
      /\ lines' \in lasting /\ lasting' = {lines'}
  BY DEF LogPowerGoes
<1>2. mishaps' \in 0..MaxMishaps
  BY LogAssumption DEF LogPowerGoes, Mishap, LogInv, LogTypeOK
<1>3. \A f \in lasting : FileInv(f)'
  BY <1>1, MishapKeepsFiles
<1>4. LogTypeOK'
  BY <1>1, <1>2 DEF LogInv, LogTypeOK
<1>5. \A f \in lasting' \cup {lines'} : FileInv(f)'
  BY <1>1, <1>3
<1> QED BY <1>1, <1>4, <1>5 DEF LogInv

LEMMA LogStepInv == LogInv /\ [LogNext]_logVars => LogInv'
<1> SUFFICES ASSUME LogInv, [LogNext]_logVars PROVE LogInv'
  OBVIOUS
<1>1. ASSUME NEW e \in Entries, LineWritten(e) PROVE LogInv'
  BY <1>1, AppendsInv DEF LineWritten
<1>2. ASSUME NEW e \in Entries, LineTorn(e) PROVE LogInv'
  BY <1>2, AppendsInv DEF LineTorn
<1>3. ASSUME UNCHANGED logVars PROVE LogInv'
  BY <1>3 DEF logVars, LogInv, LogTypeOK, FileInv, Recent
<1> QED
  BY <1>1, <1>2, <1>3, SyncedInv, TrimmedInv, StoppedInv, LogPowerInv DEF LogNext

LEMMA LogAlwaysInv == LogSpec => []LogInv
BY LogInitInv, LogStepInv, PTL DEF LogSpec

\* The types of the log, for every capacity and any errors, kills and power cuts: what is
\* being synced or trimmed has its line's end (journal.rs, Journal).
THEOREM LogType == LogSpec => []LogTypeOK
BY LogAlwaysInv, PTL DEF LogInv

\* What was logged is read, for every capacity and any errors, kills and power cuts, until
\* as many newer entries push it out (journal.rs, append and trim).
THEOREM LoggedIsRead == LogSpec => []AnsweredIsRead
<1>1. LogInv => AnsweredIsRead
  BY DEF LogInv, FileInv, AnsweredIsRead
<1> QED BY <1>1, LogAlwaysInv, PTL

\* And it decides what is known bad (journal.rs, known_bad).
THEOREM KnownBadIsLatest == LogSpec => []BlacklistIsTrue
<1>1. LogInv => BlacklistIsTrue
  <2> SUFFICES ASSUME LogInv, NEW n \in answered \ glued, Recent(n), ~lines.broken,
                      \A m \in 1..Len(logged) : logged[m].about = logged[n].about => m <= n
               PROVE  logged[n].about \in KnownBad <=> logged[n].bad
    BY DEF BlacklistIsTrue
  <2>1. /\ n \in lines.whole /\ lines.whole \subseteq 1..Len(logged) /\ n \in 1..Len(logged)
        /\ logged \in Seq(Entries) /\ Readable = lines.whole
    BY DEF LogInv, LogTypeOK, FileInv, Readable
  <2>2. logged[n] \in Entries /\ logged[n].about \in Releases
    <3>1. logged[n] \in Entries
      BY <2>1
    <3> QED BY <3>1 DEF Entries
  <2>3. ASSUME logged[n].bad PROVE logged[n].about \in KnownBad
    BY <2>1, <2>2, <2>3 DEF KnownBad
  <2>4. ASSUME logged[n].about \in KnownBad PROVE logged[n].bad
    <3>1. PICK k \in Readable : /\ logged[k].about = logged[n].about /\ logged[k].bad
                                /\ \A m \in Readable :
                                       logged[m].about = logged[n].about => m <= k
      BY <2>4 DEF KnownBad
    <3>2. n <= k /\ k <= n /\ k \in Nat /\ n \in Nat
      BY <2>1, <3>1
    <3> QED BY <3>1, <3>2
  <2> QED BY <2>3, <2>4
<1> QED BY <1>1, LogAlwaysInv, PTL

\* The log stays within its capacity and one entry for each error, kill and cut
\* (journal.rs, trim).
THEOREM LogStaysBounded == LogSpec => []LogIsBounded
<1>1. LogInv => LogIsBounded
  BY DEF LogInv, FileInv, LogIsBounded
<1> QED BY <1>1, LogAlwaysInv, PTL
=============================================================================
