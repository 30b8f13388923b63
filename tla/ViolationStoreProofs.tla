------------------------ MODULE ViolationStoreProofs ------------------------
(* What compactions keep, and what lessons are earned by, for any processes, *)
(* rules, rows and sizes.  Nothing is asked of the ids: a row is raced by    *)
(* its id, so a repeated id could only excuse more.                          *)
EXTENDS ViolationStore, TLAPS, FiniteSetTheorems

\* A row that a compaction has to keep.
Owed(r) ==
  r.id \notin old /\ r.id \notin raced /\ Carried(r)

\* s is r, or r in the current shape.
Keeps(s, r) ==
  /\ s.id = r.id /\ s.sid = r.sid /\ s.family = r.family
  /\ s.dated = r.dated /\ (s.legacy => r.legacy)

\* The rows of S stand for all that was written and is owed.
Covers(S) == \A r \in written : Owed(r) => \E s \in S : Keeps(s, r)

IsRow(r) == DOMAIN r = {"id", "family", "sid", "legacy", "dated"}

\* The fields of a row.
RowsOnly(S) == \A r \in S : IsRow(r)

\* What was read covers what is owed until it is written to the temporary file,
\* and the temporary file does until it is renamed.  Nobody may rename one that
\* a dead process left: whoever renames wrote it anew.
Inv ==
  /\ pc \in [Procs -> {"down", "snap", "write", "rename", "ready", "live"}]
  /\ DOMAIN parsed = Procs /\ parsed = [p \in Procs |-> parsed[p]]
  /\ RowsOnly(written) /\ RowsOnly(store)
  /\ \A p \in Procs : RowsOnly(parsed[p])
  /\ tmp = {None} \/ RowsOnly(tmp)
  /\ Covers(store)
  /\ \A p \in Procs : pc[p] = "write" => Covers(parsed[p])
  /\ (\E p \in Procs : pc[p] = "rename") /\ tmp # {None} => Covers(tmp)

\* migrateRows loses nothing that is owed.
LEMMA MigratedCovers ==
  ASSUME NEW S, RowsOnly(S), Covers(S)
  PROVE  RowsOnly(Migrated(S)) /\ Covers(Migrated(S))
<1>1. ASSUME NEW r \in S
      PROVE  /\ IsRow([r EXCEPT !.legacy = FALSE])
             /\ [r EXCEPT !.legacy = FALSE].id = r.id
             /\ [r EXCEPT !.legacy = FALSE].sid = r.sid
             /\ [r EXCEPT !.legacy = FALSE].family = r.family
             /\ [r EXCEPT !.legacy = FALSE].dated = r.dated
             /\ ~[r EXCEPT !.legacy = FALSE].legacy
  <2>1. DOMAIN r = {"id", "family", "sid", "legacy", "dated"}
    BY <1>1 DEF RowsOnly, IsRow
  <2> QED
    BY <2>1 DEF IsRow
<1>2. RowsOnly(Migrated(S))
  BY <1>1 DEF RowsOnly, Migrated, InWindow
<1>3. ASSUME NEW r \in written, Owed(r) PROVE \E t \in Migrated(S) : Keeps(t, r)
  <2>1. PICK s \in S : Keeps(s, r)
    BY <1>3 DEF Covers
  <2>2. s.id \notin old /\ Carried(s)
    BY <1>3, <2>1 DEF Owed, Keeps, Carried
  <2>3. [s EXCEPT !.legacy = FALSE] \in Migrated(S)
    BY <2>2 DEF Migrated, InWindow
  <2> QED
    BY <1>1, <2>1, <2>3 DEF Keeps
<1> QED
  BY <1>2, <1>3 DEF Covers

\* The outset is covered by itself.
LEMMA InitInv == Init => Inv
<1> SUFFICES ASSUME Init PROVE Inv
  OBVIOUS
<1>1. RowsOnly(InitStore)
  BY StoreAssumption DEF RowsOnly, IsRow, Rows
<1>2. Covers(store)
  BY DEF Init, Covers, Keeps
<1>3. \A p \in Procs : RowsOnly(parsed[p])
  BY DEF Init, RowsOnly
<1> QED
  BY <1>1, <1>2, <1>3 DEF Init, Inv

\* What was owed is covered as before where a step neither writes rows nor
\* takes any away.
LEMMA AsideCovers ==
  ASSUME Inv, written' = written, raced' = raced, old \subseteq old',
         NEW p \in Procs,
         \A q \in Procs \ {p} : pc'[q] = pc[q] /\ parsed'[q] = parsed[q],
         pc'[p] \notin {"write", "rename"}, UNCHANGED <<store, tmp>>
  PROVE  /\ Covers(store)'
         /\ \A q \in Procs : pc'[q] = "write" => Covers(parsed[q])'
         /\ (\E q \in Procs : pc'[q] = "rename") /\ tmp' # {None} => Covers(tmp)'
BY DEF Inv, Covers, Owed, Keeps

\* Every step keeps the invariant.
LEMMA StepInv == Inv /\ [Next]_vars => Inv'
<1> SUFFICES ASSUME Inv, [Next]_vars PROVE Inv'
  OBVIOUS
<1>1. ASSUME UNCHANGED <<store, tmp, pc, parsed, written, raced>>,
             old \subseteq old'
      PROVE  Inv'
  BY <1>1 DEF Inv, Covers, Owed, Keeps, RowsOnly, IsRow
<1>2. ASSUME NEW p \in Procs, LoadCounts(p) \/ Inject(p) \/ Exit(p) PROVE Inv'
  <2>1. /\ \E x \in {"down", "snap", "ready", "live"} : pc' = [pc EXCEPT ![p] = x]
        /\ parsed' = parsed \/ parsed' = [parsed EXCEPT ![p] = {}]
        /\ UNCHANGED <<store, tmp, written, old, raced>>
    BY <1>2 DEF LoadCounts, Inject, Exit
  <2>2. /\ pc'[p] \in {"down", "snap", "ready", "live"}
        /\ \A q \in Procs \ {p} : pc'[q] = pc[q] /\ parsed'[q] = parsed[q]
    BY <2>1 DEF Inv
  <2>3. /\ Covers(store)'
        /\ \A q \in Procs : pc'[q] = "write" => Covers(parsed[q])'
        /\ (\E q \in Procs : pc'[q] = "rename") /\ tmp' # {None} => Covers(tmp)'
    BY <2>1, <2>2, AsideCovers
  <2>4. /\ DOMAIN parsed' = Procs /\ parsed' = [q \in Procs |-> parsed'[q]]
        /\ \A q \in Procs : RowsOnly(parsed'[q])
    BY <2>1 DEF Inv, RowsOnly
  <2>5. pc' \in [Procs -> {"down", "snap", "write", "rename", "ready", "live"}]
    BY <2>1 DEF Inv
  <2>6. RowsOnly(written') /\ RowsOnly(store') /\ (tmp' = {None} \/ RowsOnly(tmp'))
    BY <2>1 DEF Inv
  <2> QED
    BY <2>3, <2>4, <2>5, <2>6 DEF Inv, RowsOnly, IsRow
<1>3. ASSUME NEW p \in Procs, Snapshot(p) PROVE Inv'
  <2>1. /\ parsed' = [parsed EXCEPT ![p] = Migrated(store)]
        /\ pc' = [pc EXCEPT ![p] = "write"]
        /\ UNCHANGED <<store, tmp, written, old, raced>>
    BY <1>3 DEF Snapshot
  <2>2. RowsOnly(Migrated(store)) /\ Covers(Migrated(store))
    BY MigratedCovers DEF Inv
  <2>3. \A q \in Procs : parsed'[q] = IF q = p THEN Migrated(store) ELSE parsed[q]
    BY <2>1 DEF Inv
  <2>4. \A q \in Procs : pc'[q] = IF q = p THEN "write" ELSE pc[q]
    BY <2>1 DEF Inv
  <2>5. \A S : Covers(S)' <=> Covers(S)
    BY <2>1 DEF Covers, Owed, Keeps
  <2>6. Covers(store)' /\ \A q \in Procs : pc'[q] = "write" => Covers(parsed[q])'
    <3>1. Covers(store)'
      BY <2>1 DEF Inv, Covers, Owed, Keeps
    <3>2. ASSUME NEW q \in Procs, pc'[q] = "write" PROVE Covers(parsed[q])'
      <4>1. CASE q = p
        BY <4>1, <2>1, <2>2, <2>3 DEF Covers, Owed, Keeps
      <4>2. CASE q # p
        <5>1. Covers(parsed[q]) /\ parsed'[q] = parsed[q]
          BY <4>2, <3>2, <2>3, <2>4 DEF Inv
        <5> QED
          BY <5>1, <2>1 DEF Covers, Owed, Keeps
      <4> QED
        BY <4>1, <4>2
    <3> QED
      BY <3>1, <3>2
  <2>7. (\E q \in Procs : pc'[q] = "rename") /\ tmp' # {None} => Covers(tmp)'
    BY <2>1, <2>4 DEF Inv, Covers, Owed, Keeps
  <2>8. /\ DOMAIN parsed' = Procs /\ parsed' = [q \in Procs |-> parsed'[q]]
        /\ \A q \in Procs : RowsOnly(parsed'[q])
    BY <2>1, <2>2, <2>3 DEF Inv
  <2>9. pc' \in [Procs -> {"down", "snap", "write", "rename", "ready", "live"}]
    BY <2>1 DEF Inv
  <2> QED
    BY <2>1, <2>6, <2>7, <2>8, <2>9 DEF Inv, RowsOnly, IsRow
<1>4. ASSUME NEW p \in Procs, WriteTmp(p) PROVE Inv'
  <2>1. /\ pc[p] = "write" /\ tmp' = parsed[p]
        /\ parsed' = [parsed EXCEPT ![p] = {}]
        /\ pc' = [pc EXCEPT ![p] = "rename"]
        /\ UNCHANGED <<store, written, old, raced>>
    BY <1>4 DEF WriteTmp
  <2>2. \A q \in Procs : /\ parsed'[q] = IF q = p THEN {} ELSE parsed[q]
                         /\ pc'[q] = IF q = p THEN "rename" ELSE pc[q]
    BY <2>1 DEF Inv
  <2>3. Covers(store)' /\ Covers(tmp)'
    BY <2>1 DEF Inv, Covers, Owed, Keeps
  <2>4. ASSUME NEW q \in Procs, pc'[q] = "write" PROVE Covers(parsed[q])'
    <3>1. Covers(parsed[q]) /\ parsed'[q] = parsed[q]
      BY <2>2, <2>4 DEF Inv
    <3> QED
      BY <3>1, <2>1 DEF Covers, Owed, Keeps
  <2>5. /\ DOMAIN parsed' = Procs /\ parsed' = [q \in Procs |-> parsed'[q]]
        /\ (\A q \in Procs : RowsOnly(parsed'[q])) /\ RowsOnly(tmp')
    BY <2>1, <2>2 DEF Inv, RowsOnly
  <2>6. pc' \in [Procs -> {"down", "snap", "write", "rename", "ready", "live"}]
    BY <2>1 DEF Inv
  <2> QED
    BY <2>1, <2>3, <2>4, <2>5, <2>6 DEF Inv, RowsOnly, IsRow
<1>5. ASSUME NEW p \in Procs, Rename(p) PROVE Inv'
  <2>1. /\ pc[p] = "rename" /\ pc' = [pc EXCEPT ![p] = "ready"]
        /\ \/ tmp # {None} /\ store' = tmp /\ tmp' = {None}
           \/ UNCHANGED <<store, tmp>>
        /\ UNCHANGED <<parsed, written, old, raced>>
    BY <1>5 DEF Rename
  <2>2. \A q \in Procs : pc'[q] = IF q = p THEN "ready" ELSE pc[q]
    BY <2>1 DEF Inv
  <2>3. Covers(store)'
    BY <2>1 DEF Inv, Covers, Owed, Keeps
  <2>4. ASSUME NEW q \in Procs, pc'[q] = "write" PROVE Covers(parsed[q])'
    BY <2>1, <2>2, <2>4 DEF Inv, Covers, Owed, Keeps
  <2>5. (\E q \in Procs : pc'[q] = "rename") /\ tmp' # {None} => Covers(tmp)'
    BY <2>1, <2>2 DEF Inv, Covers, Owed, Keeps
  <2>6. RowsOnly(store') /\ (tmp' = {None} \/ RowsOnly(tmp'))
    BY <2>1 DEF Inv
  <2>7. pc' \in [Procs -> {"down", "snap", "write", "rename", "ready", "live"}]
    BY <2>1 DEF Inv
  <2> QED
    BY <2>1, <2>3, <2>4, <2>5, <2>6, <2>7 DEF Inv, RowsOnly, IsRow
<1>6. ASSUME NEW p \in Procs, NEW f \in Families \cup {Fallback}, AppendRow(p, f)
      PROVE  Inv'
  <2> DEFINE r == [id |-> Cardinality(written) + 1, family |-> f,
                   sid |-> SidOf[p], legacy |-> FALSE, dated |-> TRUE]
  <2>1. /\ store' = store \cup {r} /\ written' = written \cup {r}
        /\ raced \subseteq raced'
        /\ (\E q \in Procs : Compacting(q)) => r.id \in raced'
        /\ UNCHANGED <<tmp, pc, parsed, old>>
    BY <1>6 DEF AppendRow
  <2>2. IsRow(r)
    BY DEF IsRow
  <2> HIDE DEF r
  <2>3. RowsOnly(store') /\ RowsOnly(written')
    BY <2>1, <2>2 DEF Inv, RowsOnly
  <2>4. Covers(store)'
    BY <2>1 DEF Inv, Covers, Owed, Keeps
  <2>5. ASSUME NEW S, Covers(S), \E q \in Procs : Compacting(q)
        PROVE  \A t \in written' : Owed(t)' => \E s \in S : Keeps(s, t)
    BY <2>1, <2>5 DEF Covers, Owed, Keeps
  <2>6. ASSUME NEW q \in Procs, pc'[q] = "write" PROVE Covers(parsed[q])'
    <3>1. Covers(parsed[q]) /\ Compacting(q) /\ parsed' = parsed
      BY <2>1, <2>6 DEF Inv, Compacting
    <3>2. \A t \in written' : Owed(t)' => \E s \in parsed[q] : Keeps(s, t)
      BY <3>1, <2>5
    <3> QED
      BY <3>1, <3>2 DEF Covers, Keeps
  <2>7. ASSUME \E q \in Procs : pc'[q] = "rename", tmp' # {None} PROVE Covers(tmp)'
    <3>1. Covers(tmp) /\ (\E q \in Procs : Compacting(q)) /\ tmp' = tmp
      BY <2>1, <2>7 DEF Inv, Compacting
    <3>2. \A t \in written' : Owed(t)' => \E s \in tmp : Keeps(s, t)
      BY <3>1, <2>5
    <3> QED
      BY <3>1, <3>2 DEF Covers, Keeps
  <2> QED
    BY <2>1, <2>3, <2>4, <2>6, <2>7 DEF Inv, RowsOnly, IsRow
<1>7. CASE Next
  <2>1. CASE \E r \in written : RowAges(r)
    BY <2>1, <1>1 DEF RowAges
  <2>2. CASE ~\E r \in written : RowAges(r)
    BY <2>2, <1>7, <1>2, <1>3, <1>4, <1>5, <1>6 DEF Next
  <2> QED
    BY <2>1, <2>2
<1>8. CASE UNCHANGED vars
  BY <1>8, <1>1 DEF vars
<1> QED
  BY <1>7, <1>8

\* In every behaviour, what is owed is covered by the file, by what a
\* compacting process read, and by a temporary file about to be renamed.
THEOREM Inductive == Spec => []Inv
<1> QED
  BY InitInv, StepInv, PTL DEF Spec

\* What was written is kept: a row in the window, that was not appended while
\* a process compacted, is in the file - for any number of processes that load,
\* compact through one temporary file and die anywhere (compact, appendRow).
THEOREM KeepsWhatItMay == Spec => []KeepsUnraced
<1>1. Inv => KeepsUnraced
  BY DEF Inv, Covers, Owed, Keeps, KeepsUnraced, InWindow
<1> QED
  BY <1>1, Inductive, PTL

-----------------------------------------------------------------------------
(* What a lesson is earned by.                                             *)

\* The sessions that tell of f in S, and the most a load can count of them.
Keys(S, f) == {Key(r) : r \in {s \in S : s.family = f}}
Most(f)    == Cardinality(Keys(written, f)) + (IF f \in Floor THEN 1 ELSE 0)

\* Every row of S is one that was written, as it was or in the current shape.
Stems(S) ==
  /\ S \subseteq Rows
  /\ \A s \in S : \E r \in written :
       s.id = r.id /\ s.sid = r.sid /\ s.family = r.family

\* The rows, wherever they are, and the marks put on them.
RowsInv ==
  /\ written \subseteq Rows /\ IsFiniteSet(written)
  /\ Stems(store) /\ (tmp = {None} \/ Stems(tmp))
  /\ parsed \in [Procs -> SUBSET Rows] /\ \A p \in Procs : Stems(parsed[p])
  /\ old \subseteq 1..MaxRows /\ raced \subseteq 1..MaxRows

\* A count that has not been added to yet, and a lesson, are covered by
\* sessions whose rows were written.
Earning ==
  /\ pc \in [Procs -> {"down", "snap", "write", "rename", "ready", "live"}]
  /\ counts \in [Procs -> [Families -> Nat]]
  /\ lessons \in [Procs -> SUBSET Families]
  /\ \A p \in Procs : \A f \in Families :
       pc[p] \notin {"down", "live"} => counts[p][f] <= Most(f)
  /\ \A p \in Procs : \A f \in lessons[p] : Most(f) >= Threshold

Earned == RowsInv /\ Earning

\* Finitely many rows tell of finitely many sessions.
LEMMA KeysFinite ==
  ASSUME NEW S, IsFiniteSet(S), NEW f
  PROVE  IsFiniteSet(Keys(S, f))
<1> DEFINE T == {s \in S : s.family = f}
           key == [r \in T |-> Key(r)]
<1>1. IsFiniteSet(T)
  BY FS_Subset
<1>2. key \in Surjection(T, Keys(S, f))
  BY DEF Surjection, Keys
<1> QED
  BY <1>1, <1>2, FS_Surjection

\* What is written only grows, and with it what stems from it.
LEMMA Growing ==
  ASSUME RowsInv, NEW r, written' = written \/ (r \in Rows /\ written' = written \cup {r})
  PROVE  /\ written' \subseteq Rows /\ IsFiniteSet(written')
         /\ \A S : Stems(S) => Stems(S)'
         /\ \A f : Most(f) \in Nat /\ Most(f)' \in Nat /\ Most(f) <= Most(f)'
<1>1. written' \subseteq Rows /\ IsFiniteSet(written') /\ written \subseteq written'
  BY FS_AddElement DEF RowsInv
<1>2. ASSUME NEW S, Stems(S) PROVE Stems(S)'
  BY <1>1, <1>2 DEF Stems
<1>3. ASSUME NEW f
      PROVE  Most(f) \in Nat /\ Most(f)' \in Nat /\ Most(f) <= Most(f)'
  <2>1. IsFiniteSet(Keys(written, f)) /\ IsFiniteSet(Keys(written', f))
    BY <1>1, KeysFinite DEF RowsInv
  <2>2. Keys(written, f) \subseteq Keys(written', f)
    BY <1>1 DEF Keys
  <2>3. /\ Cardinality(Keys(written, f)) \in Nat
        /\ Cardinality(Keys(written', f)) \in Nat
        /\ Cardinality(Keys(written, f)) <= Cardinality(Keys(written', f))
    BY <2>1, <2>2, FS_CardinalityType, FS_Subset
  <2> QED
    BY <2>3 DEF Most, Keys, Key
<1> QED
  BY <1>1, <1>2, <1>3

\* A load counts no session that wrote nothing.
LEMMA Loads ==
  ASSUME RowsInv, NEW f
  PROVE  Merged(store, f) \in Nat /\ Merged(store, f) <= Most(f)
<1>1. Distinct(store, f) \subseteq Keys(written, f)
  BY DEF Distinct, Keys, Key, InWindow, RowsInv, Stems
<1>2. IsFiniteSet(Keys(written, f))
  BY KeysFinite DEF RowsInv
<1>3. /\ Cardinality(Distinct(store, f)) \in Nat
      /\ Cardinality(Keys(written, f)) \in Nat
      /\ Cardinality(Distinct(store, f)) <= Cardinality(Keys(written, f))
  BY <1>1, <1>2, FS_CardinalityType, FS_Subset
<1> QED
  BY <1>3 DEF Merged, Most

\* migrateRows makes no rows up.
LEMMA MigratedStems ==
  ASSUME NEW S, Stems(S)
  PROVE  Stems(Migrated(S))
<1>1. ASSUME NEW r \in S
      PROVE  /\ [r EXCEPT !.legacy = FALSE] \in Rows
             /\ [r EXCEPT !.legacy = FALSE].id = r.id
             /\ [r EXCEPT !.legacy = FALSE].sid = r.sid
             /\ [r EXCEPT !.legacy = FALSE].family = r.family
             /\ [r EXCEPT !.legacy = FALSE].dated = r.dated
  BY <1>1 DEF Stems, Rows
<1>2. \A t \in Migrated(S) : \E r \in S : t = [r EXCEPT !.legacy = FALSE]
  BY DEF Migrated, InWindow
<1>3. Migrated(S) \subseteq Rows
  BY <1>1, <1>2
<1>4. ASSUME NEW t \in Migrated(S)
      PROVE  \E r \in written : t.id = r.id /\ t.sid = r.sid /\ t.family = r.family
  <2>1. PICK s \in S : t = [s EXCEPT !.legacy = FALSE]
    BY <1>2
  <2>2. t.id = s.id /\ t.sid = s.sid /\ t.family = s.family
    BY <1>1, <2>1
  <2> QED
    BY <2>2 DEF Stems
<1> QED
  BY <1>3, <1>4 DEF Stems

LEMMA InitEarned == Init => Earned
<1> SUFFICES ASSUME Init PROVE Earned
  OBVIOUS
<1>1. RowsInv
  BY StoreAssumption DEF Init, RowsInv, Stems
<1>2. Earning
  BY DEF Init, Earning
<1> QED
  BY <1>1, <1>2 DEF Earned

LEMMA StepRows == RowsInv /\ [Next]_vars => RowsInv'
<1> SUFFICES ASSUME RowsInv, [Next]_vars PROVE RowsInv'
  OBVIOUS
\* A step that writes no row new to the file.
<1>1. ASSUME written' = written, old' \subseteq 1..MaxRows, raced' = raced,
             store' = store \/ (tmp # {None} /\ store' = tmp),
             tmp' = tmp \/ tmp' = {None} \/ Stems(tmp'),
             parsed' \in [Procs -> SUBSET Rows],
             \A p \in Procs : Stems(parsed'[p])
      PROVE  RowsInv'
  <2>1. \A S : Stems(S)' <=> /\ S \subseteq Rows
                             /\ \A s \in S : \E r \in written :
                                  s.id = r.id /\ s.sid = r.sid /\ s.family = r.family
    BY <1>1 DEF Stems
  <2>2. Stems(store)' /\ (tmp' = {None} \/ Stems(tmp)')
    BY <1>1 DEF Stems, RowsInv
  <2>3. \A p \in Procs : Stems(parsed[p])'
    BY <1>1 DEF Stems
  <2> QED
    BY <1>1, <2>2, <2>3 DEF RowsInv
<1>2. Stems({}) /\ \A p \in Procs : Stems(parsed[p])
  BY DEF Stems, RowsInv
<1>3. ASSUME NEW p \in Procs, LoadCounts(p) \/ Rename(p) \/ Inject(p) \/ Exit(p)
      PROVE  RowsInv'
  <2>1. /\ written' = written /\ old' = old /\ raced' = raced
        /\ store' = store \/ (tmp # {None} /\ store' = tmp)
        /\ tmp' = tmp \/ tmp' = {None}
        /\ parsed' = parsed \/ parsed' = [parsed EXCEPT ![p] = {}]
    BY <1>3 DEF LoadCounts, Rename, Inject, Exit
  <2>2. /\ parsed' \in [Procs -> SUBSET Rows]
        /\ \A q \in Procs : parsed'[q] = parsed[q] \/ parsed'[q] = {}
    BY <2>1 DEF RowsInv
  <2>3. \A q \in Procs : Stems(parsed'[q])
    BY <1>2, <2>2
  <2> QED
    BY <1>1, <2>1, <2>2, <2>3 DEF RowsInv
<1>4. ASSUME NEW p \in Procs, Snapshot(p) \/ WriteTmp(p) PROVE RowsInv'
  <2>1. Stems(Migrated(store))
    BY MigratedStems DEF RowsInv
  <2>2. /\ UNCHANGED <<store, written, old, raced>>
        /\ tmp' = tmp \/ tmp' = parsed[p]
        /\ \/ parsed' = [parsed EXCEPT ![p] = Migrated(store)]
           \/ parsed' = [parsed EXCEPT ![p] = {}]
    BY <1>4 DEF Snapshot, WriteTmp
  <2>3. /\ parsed' \in [Procs -> SUBSET Rows]
        /\ \A q \in Procs : parsed'[q] \in {parsed[q], {}, Migrated(store)}
    BY <2>1, <2>2 DEF RowsInv, Stems
  <2>4. \A q \in Procs : Stems(parsed'[q])
    BY <1>2, <2>1, <2>3
  <2>5. tmp' = tmp \/ Stems(tmp')
    BY <1>2, <2>2
  <2> QED
    BY <1>1, <2>2, <2>3, <2>4, <2>5 DEF RowsInv
<1>5. ASSUME NEW p \in Procs, NEW f \in Families \cup {Fallback}, AppendRow(p, f)
      PROVE  RowsInv'
  <2> DEFINE r == [id |-> Cardinality(written) + 1, family |-> f,
                   sid |-> SidOf[p], legacy |-> FALSE, dated |-> TRUE]
  <2>1. /\ store' = store \cup {r} /\ written' = written \cup {r}
        /\ raced' = raced \/ raced' = raced \cup {r.id}
        /\ UNCHANGED <<tmp, parsed, old>>
        /\ Cardinality(written) < MaxRows
    BY <1>5 DEF AppendRow
  <2>2. r.id \in 1..MaxRows
    BY <2>1, FS_CardinalityType, StoreAssumption DEF RowsInv
  <2>3. r \in Rows
    BY <2>2 DEF Rows, Sids
  <2> HIDE DEF r
  <2>4. /\ written' \subseteq Rows /\ IsFiniteSet(written')
        /\ \A S : Stems(S) => Stems(S)'
    BY <2>1, <2>3, Growing
  <2>5. Stems(store)'
    <3>1. Stems(store)' <=> /\ store' \subseteq Rows
                            /\ \A s \in store' : \E t \in written' :
                                 s.id = t.id /\ s.sid = t.sid /\ s.family = t.family
      BY DEF Stems
    <3> QED
      BY <2>1, <2>3, <3>1 DEF RowsInv, Stems
  <2>6. tmp' = {None} \/ Stems(tmp)'
    BY <2>1, <2>4 DEF RowsInv, Stems
  <2>7. \A q \in Procs : Stems(parsed[q])'
    BY <2>1, <2>4 DEF RowsInv, Stems
  <2> QED
    BY <2>1, <2>2, <2>4, <2>5, <2>6, <2>7 DEF RowsInv
<1>6. ASSUME NEW r \in written, RowAges(r) PROVE RowsInv'
  <2>1. /\ UNCHANGED <<store, tmp, parsed, written, raced>>
        /\ old' = old \cup {r.id}
    BY <1>6 DEF RowAges
  <2>2. r.id \in 1..MaxRows
    BY DEF RowsInv, Rows
  <2> QED
    BY <1>1, <1>2, <2>1, <2>2 DEF RowsInv
<1>7. CASE UNCHANGED vars
  BY <1>1, <1>2, <1>7 DEF vars, RowsInv
<1> QED
  BY <1>3, <1>4, <1>5, <1>6, <1>7 DEF Next

LEMMA StepEarning == Earned /\ [Next]_vars => Earning'
<1> SUFFICES ASSUME Earned, [Next]_vars PROVE Earning'
  OBVIOUS
<1> DEFINE Stages == {"down", "snap", "write", "rename", "ready", "live"}
<1>0. /\ pc \in [Procs -> Stages] /\ counts \in [Procs -> [Families -> Nat]]
      /\ lessons \in [Procs -> SUBSET Families] /\ Threshold \in Nat
  BY StoreAssumption DEF Earned, Earning
\* No step lowers what there is to be counted.
<1>1. \A f : Most(f) \in Nat /\ Most(f)' \in Nat /\ Most(f) <= Most(f)'
  <2>1. \/ written' = written
        \/ \E r \in Rows : written' = written \cup {r}
    <3>1. ASSUME NEW p \in Procs, NEW f \in Families \cup {Fallback}, AppendRow(p, f)
          PROVE  \E r : written' = written \cup {r}
      BY <3>1 DEF AppendRow
    <3>2. \/ written' = written
          \/ \E r : written' = written \cup {r}
      BY <3>1 DEF Next, vars, LoadCounts, Snapshot, WriteTmp, Rename, Inject,
                  Exit, RowAges
    <3>3. written' \subseteq Rows
      BY StepRows DEF Earned, RowsInv
    <3> QED
      BY <3>2, <3>3
  <2> QED
    BY <2>1, Growing DEF Earned
\* A step of p that leaves counts and lessons of the others alone.
<1>2. ASSUME NEW p \in Procs, NEW x \in Stages, pc' = [pc EXCEPT ![p] = x],
             NEW c \in [Families -> Nat], counts' = [counts EXCEPT ![p] = c],
             NEW L \in SUBSET Families, lessons' = [lessons EXCEPT ![p] = L],
             x \notin {"down", "live"} => \A f \in Families : c[f] <= Most(f)',
             \A f \in L : Most(f)' >= Threshold
      PROVE  Earning'
  <2>1. /\ pc' \in [Procs -> Stages] /\ counts' \in [Procs -> [Families -> Nat]]
        /\ lessons' \in [Procs -> SUBSET Families]
    BY <1>0, <1>2
  <2>2. \A q \in Procs : /\ pc'[q] = IF q = p THEN x ELSE pc[q]
                         /\ counts'[q] = IF q = p THEN c ELSE counts[q]
                         /\ lessons'[q] = IF q = p THEN L ELSE lessons[q]
    BY <1>0, <1>2
  <2>3. ASSUME NEW q \in Procs, NEW f \in Families, pc'[q] \notin {"down", "live"}
        PROVE  counts'[q][f] <= Most(f)'
    <3>1. CASE q = p
      BY <1>2, <2>2, <2>3, <3>1
    <3>2. CASE q # p
      <4>1. counts'[q][f] = counts[q][f] /\ counts[q][f] \in Nat
        BY <1>0, <2>2, <3>2
      <4>2. counts[q][f] <= Most(f)
        BY <2>2, <2>3, <3>2 DEF Earned, Earning
      <4> QED
        BY <1>1, <4>1, <4>2
    <3> QED
      BY <3>1, <3>2
  <2>4. ASSUME NEW q \in Procs, NEW f \in lessons'[q] PROVE Most(f)' >= Threshold
    <3>1. CASE q = p
      BY <1>2, <2>2, <3>1
    <3>2. CASE q # p
      <4>1. Most(f) >= Threshold
        BY <2>2, <3>2 DEF Earned, Earning
      <4> QED
        BY <1>0, <1>1, <4>1
    <3> QED
      BY <3>1, <3>2
  <2> QED
    BY <2>1, <2>3, <2>4 DEF Earning
<1>3. ASSUME NEW p \in Procs
      PROVE  /\ counts[p] \in [Families -> Nat] /\ lessons[p] \in SUBSET Families
             /\ counts = [counts EXCEPT ![p] = counts[p]]
             /\ lessons = [lessons EXCEPT ![p] = lessons[p]]
             /\ pc = [pc EXCEPT ![p] = pc[p]] /\ pc[p] \in Stages
             /\ \A f \in lessons[p] : Most(f)' >= Threshold
             /\ pc[p] \notin {"down", "live"} =>
                  \A f \in Families : counts[p][f] <= Most(f)'
  <2>1. \A f \in lessons[p] : Most(f)' >= Threshold
    <3>1. \A f \in lessons[p] : Most(f) >= Threshold
      BY DEF Earned, Earning
    <3> QED
      BY <1>0, <1>1, <3>1
  <2>2. ASSUME NEW f \in Families, pc[p] \notin {"down", "live"}
        PROVE  counts[p][f] <= Most(f)'
    <3>1. counts[p][f] <= Most(f) /\ counts[p][f] \in Nat
      BY <1>0, <2>2 DEF Earned, Earning
    <3> QED
      BY <1>1, <3>1
  <2> QED
    BY <1>0, <2>1, <2>2
<1>4. ASSUME NEW p \in Procs, LoadCounts(p) PROVE Earning'
  <2>1. [f \in Families |-> Merged(store, f)] \in [Families -> Nat]
    BY Loads DEF Earned
  <2>2. \A f \in Families : Merged(store, f) <= Most(f)'
    <3>1. \A f \in Families : /\ Merged(store, f) \in Nat
                              /\ Merged(store, f) <= Most(f)
      BY Loads DEF Earned
    <3> QED
      BY <1>1, <3>1
  <2>3. /\ counts' = [counts EXCEPT ![p] = [f \in Families |-> Merged(store, f)]]
        /\ \E x \in {"snap", "ready"} : pc' = [pc EXCEPT ![p] = x]
        /\ lessons' = lessons
    BY <1>4 DEF LoadCounts
  <2> DEFINE c == [f \in Families |-> Merged(store, f)]
  <2>4. c \in [Families -> Nat] /\ \A f \in Families : c[f] <= Most(f)'
    BY <2>1, <2>2
  <2>5. counts' = [counts EXCEPT ![p] = c]
    BY <2>3
  <2> HIDE DEF c
  <2> QED
    BY <1>2, <1>3, <2>3, <2>4, <2>5
<1>5. ASSUME NEW p \in Procs, Snapshot(p) \/ WriteTmp(p) \/ Rename(p) PROVE Earning'
  <2>1. /\ \E x \in {"write", "rename", "ready"} : pc' = [pc EXCEPT ![p] = x]
        /\ pc[p] \notin {"down", "live"}
        /\ counts' = counts /\ lessons' = lessons
    BY <1>5 DEF Snapshot, WriteTmp, Rename
  <2> QED
    BY <1>2, <1>3, <2>1
<1>6. ASSUME NEW p \in Procs, Inject(p) PROVE Earning'
  <2>1. /\ pc' = [pc EXCEPT ![p] = "live"] /\ pc[p] = "ready" /\ counts' = counts
        /\ \E L \in SUBSET {f \in Families : counts[p][f] >= Threshold} :
             lessons' = [lessons EXCEPT ![p] = L]
    BY <1>6 DEF Inject
  <2>2. PICK L \in SUBSET {f \in Families : counts[p][f] >= Threshold} :
               lessons' = [lessons EXCEPT ![p] = L]
    BY <2>1
  <2>3. \A f \in L : Most(f)' >= Threshold
    <3>1. ASSUME NEW f \in L PROVE Most(f)' >= Threshold
      <4>1. counts[p][f] >= Threshold /\ f \in Families /\ counts[p][f] \in Nat
        BY <1>0, <2>2
      <4>2. counts[p][f] <= Most(f)'
        BY <1>3, <2>1, <4>1
      <4> QED
        BY <1>0, <1>1, <4>1, <4>2
    <3> QED
      BY <3>1
  <2> QED
    BY <1>2, <1>3, <2>1, <2>2, <2>3
<1>7. ASSUME NEW p \in Procs, NEW g \in Families \cup {Fallback}, AppendRow(p, g)
      PROVE  Earning'
  <2>1. /\ pc' = pc /\ lessons' = lessons /\ pc[p] = "live"
        /\ \/ counts' = counts
           \/ g \in Families /\ counts' = [counts EXCEPT ![p][g] = @ + 1]
    BY <1>7 DEF AppendRow
  <2>2. PICK c \in [Families -> Nat] : counts' = [counts EXCEPT ![p] = c]
    <3>1. CASE counts' = counts
      BY <1>3, <3>1
    <3>2. CASE g \in Families /\ counts' = [counts EXCEPT ![p][g] = @ + 1]
      <4>1. [counts[p] EXCEPT ![g] = @ + 1] \in [Families -> Nat]
        BY <1>0, <3>2
      <4> QED
        BY <3>2, <4>1
    <3> QED
      BY <2>1, <3>1, <3>2
  <2> QED
    BY <1>2, <1>3, <2>1, <2>2
<1>8. ASSUME NEW p \in Procs, Exit(p) PROVE Earning'
  <2> DEFINE c == [f \in Families |-> 0]
  <2>1. /\ pc' = [pc EXCEPT ![p] = "down"] /\ counts' = [counts EXCEPT ![p] = c]
        /\ lessons' = [lessons EXCEPT ![p] = {}]
    BY <1>8 DEF Exit
  <2>2. c \in [Families -> Nat]
    OBVIOUS
  <2> HIDE DEF c
  <2> QED
    BY <1>2, <2>1, <2>2
<1>9. ASSUME UNCHANGED <<pc, counts, lessons>> PROVE Earning'
  BY <1>0, <1>3, <1>9 DEF Earning
<1> QED
  BY <1>4, <1>5, <1>6, <1>7, <1>8, <1>9 DEF Next, vars, RowAges

\* Every row anywhere was written; every lesson is covered by sessions of
\* written rows.
THEOREM EarnedInductive == Spec => []Earned
<1>1. Earned /\ [Next]_vars => Earned'
  BY StepRows, StepEarning DEF Earned
<1> QED
  BY <1>1, InitEarned, PTL DEF Spec

\* TypeOK in every reachable state, for any processes, families and sizes.
THEOREM TypeCorrect == Spec => []TypeOK
<1>1. Earned => TypeOK
  BY DEF Earned, RowsInv, Earning, Stems, TypeOK
<1> QED
  BY <1>1, EarnedInductive, PTL

\* A lesson in the prompt is earned by rows of THRESHOLD distinct sessions that
\* blocks really wrote, whatever was compacted, repeated or lost in between
\* (mergeLessonCounts, migrateRows, compact).
THEOREM LessonsAreEarned == Spec => []LessonsEarned
<1>1. Earned => LessonsEarned
  BY DEF Earned, Earning, Most, Keys, LessonsEarned
<1> QED
  BY <1>1, EarnedInductive, PTL
=============================================================================
