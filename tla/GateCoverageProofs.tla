------------------------- MODULE GateCoverageProofs -------------------------
(* Proofs about GateCoverage, for every number of calls, file length, set    *)
(* of windows and set of edits.  The invariant ties three things together:   *)
(* the change counter, the stat of the file and the stat of the entry; an    *)
(* entry never carries a stat the file has not had yet, so a visible change  *)
(* always unbinds it.                                                        *)
EXTENDS GateCoverage, FiniteSetTheorems, SequenceTheorems,
        WellFoundedInduction, TLAPS

\* An entry whose stat is the file's describes the bytes on disk, unless it was
\* certified loosely.
StatBindsContent ==
    (cov # None /\ ~loose /\ cov.stat = stat) => file = basis

\* The inductive invariant: the order of the stats (in TypeOK) and what it
\* means that the entry's stat is the file's.
IInv == TypeOK /\ StatBindsContent

\* The stat of a certified entry is the one the caller brings, or was there
\* before when the caller has none.
LEMMA CertifyStat ==
    ASSUME NEW e, NEW lines, NEW st
    PROVE  LET new == Certify(e, lines, st)
           IN  /\ new = [lines |-> new.lines, stat |-> new.stat, hash |-> new.hash]
               /\ new.stat = IF st = None /\ e # None THEN e.stat ELSE st
BY DEF Certify

\* What the gate sees of the file's stat is its stat or nothing.
LEMMA SnapshotStat ==
    ASSUME TypeOK
    PROVE  /\ Snapshot \in (0..stat) \cup {None} /\ stat \in 0..stat /\ stat # None
           /\ ~gone => Snapshot = stat
BY ConstAssumption DEF TypeOK, ConstAssumption, Snapshot

\* Certifying a set of line numbers leaves a set of line numbers.
LEMMA CertifyLines ==
    ASSUME NEW e, NEW lines, NEW st, lines \subseteq Int,
           e # None => e.lines \subseteq Int
    PROVE  Certify(e, lines, st).lines \subseteq Int
BY DEF Certify

\* An interval of line numbers is a set of integers.
LEMMA SpanInt ==
    ASSUME NEW a, NEW b
    PROVE  a..b \subseteq Int
OBVIOUS

\* The gate starts without coverage and without calls.
LEMMA InitInv == Init => IInv
<1> SUFFICES ASSUME Init PROVE IInv
  OBVIOUS
<1>1. /\ ver = 0 /\ stat = 0 /\ cov = None /\ loose = FALSE
      /\ gone \in BOOLEAN /\ (gone => file = <<>>)
  BY DEF Init
<1>0. ver \in 0..MaxVer /\ stat \in 0..ver
  BY <1>1, ConstAssumption DEF ConstAssumption
<1>2. pendingReads \in [Calls -> Windows \cup {None}]
  BY DEF Init
<1>3. /\ DOMAIN pendingEdits = Calls /\ DOMAIN run = Calls
      /\ \A c \in Calls : pendingEdits[c] = None /\ run[c].at = "idle"
  BY DEF Init, Idle
<1> QED
  BY <1>0, <1>1, <1>2, <1>3 DEF IInv, TypeOK, StatBindsContent

\* A change that stat() sees keeps the invariant when it leaves the entry
\* alone: the entry's stat falls behind.
LEMMA ChangeKeeps ==
    ASSUME TypeOK, NEW f, Changes(f), UNCHANGED <<cov, loose>>
    PROVE  /\ ver' \in 0..MaxVer /\ stat' \in 0..ver'
           /\ cov' # None => /\ cov' = [lines |-> cov'.lines, stat |-> cov'.stat,
                                        hash |-> cov'.hash]
                             /\ cov'.lines \subseteq Int
                             /\ cov'.stat \in (0..stat') \cup {None}
           /\ gone' = FALSE
           /\ StatBindsContent'
<1>1. /\ ver' \in 0..MaxVer /\ stat' = ver + 1 /\ stat' \in 0..ver'
      /\ gone' = FALSE
  BY ConstAssumption DEF ConstAssumption, TypeOK, Changes
<1>2. ASSUME cov # None PROVE cov.stat \in (0..stat) \cup {None} /\ stat \in Int
  BY <1>2, ConstAssumption DEF ConstAssumption, TypeOK
<1>3. cov' # None => cov'.stat \in (0..stat') \cup {None} /\ cov'.stat # stat'
  BY <1>1, <1>2, ConstAssumption DEF ConstAssumption, TypeOK
<1> QED
  BY <1>1, <1>3 DEF TypeOK, StatBindsContent

\* The parts of the invariant a step that books nothing leaves alone.
EntryOK == /\ ver \in 0..MaxVer /\ stat \in 0..ver
           /\ cov # None => /\ cov = [lines |-> cov.lines, stat |-> cov.stat,
                                      hash |-> cov.hash]
                            /\ cov.lines \subseteq Int
                            /\ cov.stat \in (0..stat) \cup {None}
           /\ loose \in BOOLEAN /\ gone \in BOOLEAN /\ (gone => file = <<>>)
           /\ StatBindsContent

CallsOK == /\ pendingReads \in [Calls -> Windows \cup {None}]
           /\ DOMAIN pendingEdits = Calls
           /\ \A c \in Calls : pendingEdits[c] # None =>
                 /\ pendingEdits[c].kind \in {"edit", "write"}
                 /\ pendingEdits[c].lines \subseteq Int
           /\ DOMAIN run = Calls
           /\ \A c \in Calls : run[c].at \in
                 {"idle", "reading", "read", "editing", "edited", "writing"}

\* The invariant is the entry's part and the calls' part together.
LEMMA Split == IInv <=> EntryOK /\ CallsOK
BY DEF IInv, TypeOK, EntryOK, CallsOK

\* The calls' bookkeeping keeps its shape in every step.
LEMMA CallsStep == IInv /\ [Next]_vars => CallsOK'
<1> SUFFICES ASSUME CallsOK, [Next]_vars PROVE CallsOK'
  BY Split
<1>1. ASSUME NEW c \in Calls, NEW w \in Windows, ReadCall(c, w) PROVE CallsOK'
  BY <1>1 DEF CallsOK, ReadCall
<1>2. ASSUME NEW c \in Calls, ReadExec(c) PROVE CallsOK'
  <2>1. /\ run' = [run EXCEPT ![c] = run'[c]] /\ run'[c].at = "read"
        /\ UNCHANGED <<pendingReads, pendingEdits>>
    BY <1>2 DEF CallsOK, ReadExec, ReadFailed
  <2> QED
    BY <2>1 DEF CallsOK
<1>3. ASSUME NEW c \in Calls, ReadResult(c) PROVE CallsOK'
  BY <1>3 DEF CallsOK, ReadResult, Idle
<1>4. ASSUME NEW c \in Calls, NEW E \in EditShapes, EditCall(c, E)
      PROVE  CallsOK'
  <2>1. UNION {NewSpan(Exact(E), r) : r \in Exact(E)} \subseteq Int
    BY SpanInt DEF NewSpan
  <2>2. /\ pendingEdits'[c].kind = "edit" /\ pendingEdits'[c].lines \subseteq Int
        /\ \A d \in Calls \ {c} : pendingEdits'[d] = pendingEdits[d]
        /\ DOMAIN pendingEdits' = Calls
    BY <1>4, <2>1 DEF CallsOK, EditCall, Booking
  <2>3. /\ DOMAIN run' = Calls /\ run'[c].at = "editing"
        /\ \A d \in Calls \ {c} : run'[d] = run[d]
        /\ pendingReads' = pendingReads
    BY <1>4 DEF CallsOK, EditCall
  <2> QED
    BY <2>2, <2>3 DEF CallsOK
<1>13. ASSUME NEW c \in Calls, NEW E, EditUnchecked(c, E) PROVE CallsOK'
  <2>1. /\ pendingEdits' = [pendingEdits EXCEPT ![c] = Unchecked]
        /\ run' = [run EXCEPT ![c] = run'[c]] /\ run'[c].at = "editing"
        /\ pendingReads' = pendingReads
    BY <1>13 DEF CallsOK, EditUnchecked
  <2>2. Unchecked.kind = "edit" /\ Unchecked.lines = {}
    BY DEF Unchecked
  <2> QED
    BY <2>1, <2>2 DEF CallsOK
<1>5. ASSUME NEW c \in Calls, NEW error \in BOOLEAN, EditExec(c, error)
      PROVE  CallsOK'
  <2>1. /\ run' = [run EXCEPT ![c] = run'[c]] /\ run'[c].at = "edited"
        /\ UNCHANGED <<pendingReads, pendingEdits>>
    BY <1>5 DEF CallsOK, EditExec, Done, Failed
  <2> QED
    BY <2>1 DEF CallsOK
<1>6. ASSUME NEW c \in Calls, MutationFails(c) PROVE CallsOK'
  BY <1>6 DEF CallsOK, MutationFails, Failed
<1>7. ASSUME NEW c \in Calls, MutationResult(c) PROVE CallsOK'
  <2>1. /\ run' = [run EXCEPT ![c] = Idle]
        /\ pendingEdits' = [pendingEdits EXCEPT ![c] = None]
        /\ UNCHANGED pendingReads
    BY <1>7 DEF MutationResult
  <2> QED
    BY <2>1 DEF CallsOK, Idle
<1>8. ASSUME NEW c \in Calls, NEW n \in WriteSizes, WriteCall(c, n)
      PROVE  CallsOK'
  <2>1. Span(WholeFile) \subseteq Int
    BY SpanInt DEF Span
  <2> QED
    BY <1>8, <2>1 DEF CallsOK, WriteCall, WriteBooking
<1>9. ASSUME NEW c \in Calls, NEW error \in BOOLEAN, WriteExec(c, error)
      PROVE  CallsOK'
  <2>1. /\ run' = [run EXCEPT ![c] = run'[c]] /\ run'[c].at = "edited"
        /\ UNCHANGED <<pendingReads, pendingEdits>>
    BY <1>9 DEF CallsOK, WriteExec, Done, Failed
  <2> QED
    BY <2>1 DEF CallsOK
<1>10. ASSUME SessionCompact PROVE CallsOK'
  BY <1>10 DEF CallsOK, SessionCompact
<1>11. ASSUME HashBlock \/ ExternalWrite \/ ExternalDelete \/ HiddenWrite \/ InjectFile
       PROVE  CallsOK'
  <2>1. UNCHANGED <<pendingReads, pendingEdits, run>>
    BY <1>11 DEF HashBlock, ExternalWrite, ExternalDelete, HiddenWrite, InjectFile
  <2> QED
    BY <2>1 DEF CallsOK
<1>12. ASSUME UNCHANGED vars PROVE CallsOK'
  BY <1>12 DEF CallsOK, vars
<1> QED
  BY <1>1, <1>2, <1>3, <1>4, <1>5, <1>6, <1>7, <1>8, <1>9, <1>10, <1>11, <1>12,
     <1>13 DEF Next

\* The entry stays bound in every step: it is certified against the file as it
\* is, dropped, marked loose, or left behind by a visible change.
LEMMA EntryStep == IInv /\ [Next]_vars => EntryOK'
<1> SUFFICES ASSUME IInv, TypeOK, EntryOK, CallsOK, [Next]_vars PROVE EntryOK'
  BY Split DEF IInv
<1>1. ASSUME NEW c \in Calls, NEW w \in Windows, ReadCall(c, w) PROVE EntryOK'
  <2>1. UNCHANGED <<ver, stat, file, gone>>
    BY <1>1 DEF ReadCall
  <2>2. cov' = None \/ UNCHANGED <<cov, loose, basis>>
    BY <1>1 DEF ReadCall, EntryOK
  <2>3. loose' \in BOOLEAN
    BY <1>1 DEF ReadCall, EntryOK
  <2> QED
    BY <2>1, <2>2, <2>3 DEF EntryOK, StatBindsContent
<1>2. ASSUME NEW c \in Calls, ReadResult(c) PROVE EntryOK'
  <2>1. UNCHANGED <<ver, stat, file, gone>>
    BY <1>2 DEF ReadResult
  <2>2. PICK lines : /\ lines \subseteq Int
                     /\ \/ UNCHANGED <<cov, basis, loose>>
                        \/ /\ cov' = Certify(cov, lines, Snapshot)
                           /\ basis' = file /\ loose' \in BOOLEAN
    <3> DEFINE w == pendingReads[c]
               got == BookedLines(run[c], w)
    <3>1. got \subseteq Int
      BY SpanInt DEF Span, BookedLines
    <3>2. \/ UNCHANGED <<cov, basis, loose>>
          \/ /\ cov' = Certify(cov, got, Snapshot)
             /\ basis' = file /\ loose' \in BOOLEAN
      BY <1>2 DEF ReadResult
    <3> QED
      BY <3>1, <3>2
  <2>3. CASE UNCHANGED <<cov, basis, loose>>
    BY <2>1, <2>3 DEF EntryOK, StatBindsContent
  <2>4. CASE /\ cov' = Certify(cov, lines, Snapshot)
             /\ basis' = file /\ loose' \in BOOLEAN
    <3>1. cov'.lines \subseteq Int
      BY <2>2, <2>4, CertifyLines DEF EntryOK
    <3>2. /\ cov' = [lines |-> cov'.lines, stat |-> cov'.stat, hash |-> cov'.hash]
          /\ cov'.stat = IF Snapshot = None /\ cov # None THEN cov.stat ELSE Snapshot
      BY <2>4, CertifyStat
    <3>3. cov'.stat \in (0..stat) \cup {None}
      BY <3>2, SnapshotStat DEF EntryOK
    <3> QED
      BY <2>1, <2>4, <3>1, <3>2, <3>3 DEF EntryOK, StatBindsContent
  <2> QED
    BY <2>2, <2>3, <2>4
<1>3. ASSUME HashBlock PROVE EntryOK'
  <2>1. UNCHANGED <<ver, stat, file, gone>> /\ loose' \in BOOLEAN
    BY <1>3 DEF HashBlock, EntryOK
  <2>2. cov' = None
    BY <1>3 DEF HashBlock, AfterBlock
  <2> QED
    BY <2>1, <2>2 DEF EntryOK, StatBindsContent
<1>4. ASSUME NEW c \in Calls, MutationResult(c) PROVE EntryOK'
  <2> DEFINE p == pendingEdits[c]
  <2>1. UNCHANGED <<ver, stat, file, gone>>
    BY <1>4 DEF MutationResult
  <2>2. \/ UNCHANGED <<cov, basis, loose>>
        \/ cov' = None /\ loose' = FALSE
        \/ /\ p # None /\ cov' = AfterMutation(p) /\ loose' \in BOOLEAN
           /\ basis' = IF AfterMutation(p) = None THEN None ELSE file
    BY <1>4 DEF MutationResult
  <2>3. CASE UNCHANGED <<cov, basis, loose>>
    BY <2>1, <2>3 DEF EntryOK, StatBindsContent
  <2>4. CASE cov' = None /\ loose' = FALSE
    BY <2>1, <2>4 DEF EntryOK, StatBindsContent
  <2>5. CASE /\ p # None /\ cov' = AfterMutation(p) /\ loose' \in BOOLEAN
             /\ basis' = IF AfterMutation(p) = None THEN None ELSE file
    <3> SUFFICES ASSUME cov' # None PROVE EntryOK'
      BY <2>1, <2>5 DEF EntryOK, StatBindsContent
    <3> DEFINE kept == IF Drifted(p) THEN None ELSE cov
               cut  == IF kept = None \/ p.first = None THEN kept
                       ELSE [kept EXCEPT !.lines = SpansBefore(kept.lines, p.first)]
               done == IF p.lines = {} THEN kept ELSE Certify(cut, p.lines, Snapshot)
    <3>1. cov' = [done EXCEPT !.hash = IF gone THEN None ELSE file] /\ done # None
      BY <2>5 DEF AfterMutation
    <3>2. ASSUME kept # None
          PROVE  /\ kept = [lines |-> kept.lines, stat |-> kept.stat,
                            hash |-> kept.hash]
                 /\ kept.lines \subseteq Int /\ kept.stat \in (0..stat) \cup {None}
      BY <3>2 DEF EntryOK
    <3>3. ASSUME cut # None
          PROVE  cut.lines \subseteq Int /\ cut.stat \in (0..stat) \cup {None}
      BY <3>2, <3>3 DEF SpansBefore
    <3>4. p.lines \subseteq Int
      BY <2>5 DEF CallsOK
    <3>5. Snapshot \in (0..stat) \cup {None}
      BY SnapshotStat
    <3>6. /\ done = [lines |-> done.lines, stat |-> done.stat, hash |-> done.hash]
          /\ done.lines \subseteq Int /\ done.stat \in (0..stat) \cup {None}
      <4>1. CASE p.lines = {}
        BY <3>1, <3>2, <4>1
      <4>2. CASE p.lines # {}
        <5>1. done = Certify(cut, p.lines, Snapshot)
          BY <4>2
        <5>2. done.lines \subseteq Int
          BY <3>3, <3>4, <5>1, CertifyLines
        <5> HIDE DEF done, cut
        <5>3. /\ done = [lines |-> done.lines, stat |-> done.stat, hash |-> done.hash]
              /\ done.stat = IF Snapshot = None /\ cut # None THEN cut.stat ELSE Snapshot
          BY <5>1, CertifyStat
        <5> QED
          BY <3>3, <3>5, <5>2, <5>3
      <4> QED
        BY <4>1, <4>2
    <3>7. /\ cov' = [lines |-> cov'.lines, stat |-> cov'.stat, hash |-> cov'.hash]
          /\ cov'.lines \subseteq Int /\ cov'.stat \in (0..stat) \cup {None}
      BY <3>1, <3>6
    <3>8. basis' = file
      BY <2>5
    <3> QED
      BY <2>1, <2>5, <3>7, <3>8 DEF EntryOK, StatBindsContent
  <2> QED
    BY <2>2, <2>3, <2>4, <2>5
<1>5. ASSUME NEW f, Changes(f), UNCHANGED <<cov, loose>> PROVE EntryOK'
  BY <1>5, ChangeKeeps DEF EntryOK
<1>6. ASSUME NEW c \in Calls, NEW error \in BOOLEAN, EditExec(c, error)
      PROVE  EntryOK'
  BY <1>5, <1>6 DEF EditExec
<1>7. ASSUME NEW c \in Calls, NEW error \in BOOLEAN, WriteExec(c, error)
      PROVE  EntryOK'
  BY <1>5, <1>7 DEF WriteExec
<1>8. ASSUME ExternalWrite PROVE EntryOK'
  BY <1>5, <1>8 DEF ExternalWrite
<1>9. ASSUME HiddenWrite PROVE EntryOK'
  <2>1. /\ ver' = ver + 1 /\ ver < MaxVer /\ UNCHANGED <<gone, stat, cov>>
        /\ loose' = (cov # None) /\ ~gone
    BY <1>9 DEF HiddenWrite, EntryOK
  <2>2. ver' \in 0..MaxVer /\ stat' \in 0..ver'
    BY <2>1, ConstAssumption DEF EntryOK, ConstAssumption
  <2> QED
    BY <2>1, <2>2 DEF EntryOK, StatBindsContent
<1>10. ASSUME SessionCompact PROVE EntryOK'
  BY <1>10 DEF SessionCompact, EntryOK, StatBindsContent
<1>11. ASSUME InjectFile PROVE EntryOK'
  <2>1. Span(WholeFile) \subseteq Int /\ stat \in 0..stat
    BY SpanInt, SnapshotStat DEF Span
  <2>2. /\ cov' = [lines |-> Span(WholeFile), stat |-> stat, hash |-> file]
        /\ basis' = file /\ loose' = FALSE /\ UNCHANGED <<file, gone, stat, ver>>
    BY <1>11 DEF InjectFile
  <2> QED
    BY <2>1, <2>2 DEF EntryOK, StatBindsContent
<1>12. ASSUME UNCHANGED <<file, gone, stat, ver, cov, basis, loose>> PROVE EntryOK'
  BY <1>12 DEF EntryOK, StatBindsContent
<1>13. ASSUME NEW c \in Calls, ReadExec(c) \/ MutationFails(c) PROVE EntryOK'
  BY <1>12, <1>13 DEF ReadExec, MutationFails
<1>14. ASSUME NEW c \in Calls, NEW E \in EditShapes, EditCall(c, E)
       PROVE  EntryOK'
  BY <1>12, <1>14 DEF EditCall
<1>15. ASSUME NEW c \in Calls, NEW n \in WriteSizes, WriteCall(c, n)
       PROVE  EntryOK'
  BY <1>12, <1>15 DEF WriteCall
<1>17. ASSUME NEW c \in Calls, NEW E, EditUnchecked(c, E) PROVE EntryOK'
  BY <1>12, <1>17 DEF EditUnchecked
<1>18. ASSUME ExternalDelete PROVE EntryOK'
  <2>1. /\ ver' = ver + 1 /\ ver < MaxVer /\ stat' = ver + 1 /\ gone' = TRUE
        /\ file' = <<>> /\ UNCHANGED <<cov, loose>>
    BY <1>18 DEF ExternalDelete
  <2>2. ver' \in 0..MaxVer /\ stat' \in 0..ver' /\ 0..stat \subseteq 0..stat'
    BY <2>1, ConstAssumption DEF EntryOK, ConstAssumption
  <2>3. stat' \notin (0..stat) \cup {None}
    BY <2>1, ConstAssumption DEF EntryOK, ConstAssumption
  <2> QED
    BY <2>1, <2>2, <2>3 DEF EntryOK, StatBindsContent
<1>16. ASSUME UNCHANGED vars PROVE EntryOK'
  BY <1>12, <1>16 DEF vars
<1> QED
  BY <1>1, <1>2, <1>3, <1>4, <1>6, <1>7, <1>8, <1>9, <1>10, <1>11,
     <1>13, <1>14, <1>15, <1>16, <1>17, <1>18 DEF Next

\* No step of a call, of another program or of the session breaks the
\* invariant.
LEMMA Invariance == IInv /\ [Next]_vars => IInv'
<1>1. EntryOK' /\ CallsOK' => IInv'
  BY DEF IInv, TypeOK, EntryOK, CallsOK
<1> QED
  BY <1>1, CallsStep, EntryStep

\* The invariant holds in every reachable state.
THEOREM Inductive == Spec => []IInv
BY InitInv, Invariance, PTL DEF Spec

\* The gate's maps keep their shape, and no entry carries a stat from the
\* future, whatever the calls and the other programs do.
THEOREM TypeCorrect == Spec => []TypeOK
BY Inductive, PTL DEF IInv

-----------------------------------------------------------------------------
(* The geometry of an edit: where the lines of the file are found after it.  *)

\* A set of disjoint edits of a file of n lines.
Disjoint(E, n) ==
    /\ IsFiniteSet(E) /\ n \in Nat
    /\ \A r \in E : /\ r.from \in 1..n /\ r.to \in r.from..n
                    /\ r.new \in 0..MaxLines
    /\ \A r, q \in E : r # q => r.to < q.from \/ q.to < r.from

\* Any set of line numbers has a least one.
LEMMA LeastNat ==
    ASSUME NEW T, T \subseteq Nat, T # {}
    PROVE  \E n \in T : \A m \in T : n <= m
<1>1. IsWellFoundedOn({ss \in Nat \X Nat : ss[1] < ss[2]}, Nat)
  BY NatLessThanWellFounded DEF OpToRel
<1>2. PICK n \in T : \A y \in T : ~(<<y, n>> \in {ss \in Nat \X Nat : ss[1] < ss[2]})
  BY <1>1, WFMin
<1>3. \A m \in T : ~(m < n)
  BY <1>2
<1> QED
  BY <1>3

\* How many lines there are from a to b.
LEMMA IntervalCount ==
    ASSUME NEW a \in Int, NEW b \in Int, a <= b + 1
    PROVE  IsFiniteSet(a..b) /\ Cardinality(a..b) = b - a + 1
<1>1. IsFiniteSet(a..b) /\ Cardinality(a..b) = IF a > b THEN 0 ELSE b - a + 1
  BY FS_Interval
<1> QED
  BY <1>1

\* The lines that edits add and replace can be counted.
LEMMA GrownFinite ==
    ASSUME NEW E, NEW n, Disjoint(E, n), NEW S \in SUBSET E
    PROVE  /\ IsFiniteSet(Added(S)) /\ IsFiniteSet(Touched(S))
           /\ Grown(S) \in Int
<1>1. IsFiniteSet(1..n) /\ IsFiniteSet(1..MaxLines) /\ IsFiniteSet(S)
  <2>1. /\ 1 \in Int /\ n \in Int /\ MaxLines \in Int /\ 1 <= n + 1
        /\ 1 <= MaxLines + 1
    BY ConstAssumption DEF Disjoint, ConstAssumption
  <2>2. IsFiniteSet(1..n) /\ IsFiniteSet(1..MaxLines)
    BY <2>1, IntervalCount, Zenon
  <2> QED
    BY <2>2, FS_Subset DEF Disjoint
<1>2. Touched(S) \in SUBSET (1..n)
  BY DEF Disjoint, Touched
<1>3. IsFiniteSet(S \X (1..MaxLines))
  BY <1>1, FS_Product
<1>4. Added(S) \in SUBSET (S \X (1..MaxLines))
  <2> SUFFICES ASSUME NEW x \in Added(S) PROVE x \in S \X (1..MaxLines)
    OBVIOUS
  <2>1. PICK r \in S : x \in {r} \X (1..r.new)
    BY DEF Added
  <2>2. 1..r.new \subseteq 1..MaxLines
    BY ConstAssumption DEF Disjoint, ConstAssumption
  <2> QED
    BY <2>1, <2>2
<1>5. IsFiniteSet(Added(S)) /\ IsFiniteSet(Touched(S))
  BY <1>1, <1>2, <1>3, <1>4, FS_Subset
<1>6. Cardinality(Added(S)) \in Nat /\ Cardinality(Touched(S)) \in Nat
  BY <1>5, FS_CardinalityType
<1> QED
  BY <1>5, <1>6 DEF Grown

\* No edit, no growth.
LEMMA GrownEmpty == Grown({}) = 0
<1>1. Added({}) = {} /\ Touched({}) = {}
  BY DEF Added, Touched
<1> QED
  BY <1>1, FS_EmptySet DEF Grown

\* One more edit adds its lines and takes those it replaces.
LEMMA GrownAdd ==
    ASSUME NEW E, NEW n, Disjoint(E, n), NEW S \in SUBSET E, NEW r \in E \ S
    PROVE  Grown(S \cup {r}) = Grown(S) + r.new - (r.to - r.from + 1)
<1>0. /\ r.from \in Int /\ r.to \in Int /\ r.new \in Nat /\ r.from <= r.to
  BY ConstAssumption DEF Disjoint, ConstAssumption
<1> DEFINE A == {r} \X (1..r.new)
           B == r.from..r.to
<1>1. /\ Added(S \cup {r}) = Added(S) \cup A /\ Added(S) \cap A = {}
      /\ Touched(S \cup {r}) = Touched(S) \cup B
  BY DEF Added, Touched
<1>2. Touched(S) \cap B = {}
  <2> SUFFICES ASSUME NEW i \in Touched(S), i \in B PROVE FALSE
    OBVIOUS
  <2>1. PICK q \in S : i \in q.from..q.to
    BY DEF Touched
  <2>2. q.from \in Int /\ q.to \in Int /\ i \in Int /\ (q.to < r.from \/ r.to < q.from)
    BY <2>1 DEF Disjoint
  <2> QED
    BY <1>0, <2>1, <2>2
<1>3. /\ IsFiniteSet(A) /\ Cardinality(A) = r.new
      /\ IsFiniteSet(B) /\ Cardinality(B) = r.to - r.from + 1
  <2>1. IsFiniteSet(1..r.new) /\ Cardinality(1..r.new) = r.new
    <3>1. /\ IsFiniteSet(1..r.new) /\ Cardinality(1..r.new) = r.new - 1 + 1
      <4>1. 1 \in Int /\ r.new \in Int /\ 1 <= r.new + 1
        BY <1>0
      <4> QED
        BY <4>1, IntervalCount, Zenon
    <3> QED
      BY <1>0, <3>1
  <2>2. IsFiniteSet({r}) /\ Cardinality({r}) = 1
    BY FS_Singleton
  <2>3. IsFiniteSet(A) /\ Cardinality(A) = 1 * r.new
    BY <2>1, <2>2, FS_Product
  <2>4. IsFiniteSet(B) /\ Cardinality(B) = r.to - r.from + 1
    <3>1. r.from \in Int /\ r.to \in Int /\ r.from <= r.to + 1
      BY <1>0
    <3> QED
      BY <3>1, IntervalCount, Zenon
  <2> QED
    BY <1>0, <2>3, <2>4
<1>4. IsFiniteSet(Added(S)) /\ IsFiniteSet(Touched(S))
  BY GrownFinite
<1>5. /\ Cardinality(Added(S \cup {r})) = Cardinality(Added(S)) + r.new
      /\ Cardinality(Touched(S \cup {r}))
           = Cardinality(Touched(S)) + (r.to - r.from + 1)
  <2> HIDE DEF A, B
  <2>1. Cardinality({}) = 0
    BY FS_EmptySet
  <2>2. /\ Cardinality(Added(S)) \in Nat /\ Cardinality(Touched(S)) \in Nat
    BY <1>4, FS_CardinalityType
  <2>3. Cardinality(Added(S) \cup A)
           = Cardinality(Added(S)) + Cardinality(A) - Cardinality(Added(S) \cap A)
    BY <1>3, <1>4, FS_Union
  <2>4. Cardinality(Touched(S) \cup B)
           = Cardinality(Touched(S)) + Cardinality(B) - Cardinality(Touched(S) \cap B)
    BY <1>3, <1>4, FS_Union
  <2>5. /\ Cardinality(Added(S) \cap A) = 0
        /\ Cardinality(Touched(S) \cap B) = 0
    BY <1>1, <1>2, <2>1
  <2>6. /\ Added(S \cup {r}) = Added(S) \cup A
        /\ Touched(S \cup {r}) = Touched(S) \cup B
    BY <1>1
  <2>7. /\ Cardinality(Added(S \cup {r})) = Cardinality(Added(S)) + r.new - 0
        /\ Cardinality(Touched(S \cup {r}))
             = Cardinality(Touched(S)) + (r.to - r.from + 1) - 0
    BY <1>3, <2>3, <2>4, <2>5, <2>6
  <2> QED
    BY <1>0, <2>2, <2>7
<1>6. Cardinality(Added(S)) \in Nat /\ Cardinality(Touched(S)) \in Nat
  BY <1>4, FS_CardinalityType
<1> QED
  BY <1>0, <1>5, <1>6 DEF Grown

\* Where a line is found is a line number.
LEMMA MovedInt ==
    ASSUME NEW E, NEW n, Disjoint(E, n), NEW i \in Int
    PROVE  Moved(E, i) \in Int
<1>1. Grown({q \in E : q.from < i}) \in Int
  BY GrownFinite
<1> QED
  BY <1>1 DEF Moved

\* Nothing starts at line i: the next line is found right behind it.
LEMMA MovedNext ==
    ASSUME NEW E, NEW n, Disjoint(E, n), NEW i \in Int,
           \A q \in E : q.from # i
    PROVE  Moved(E, i + 1) = Moved(E, i) + 1
<1> DEFINE S == {q \in E : q.from < i}
<1>1. {q \in E : q.from < i + 1} = S
  BY DEF Disjoint
<1>2. Grown(S) \in Int
  BY GrownFinite
<1>3. Moved(E, i) = i + Grown(S)
  BY DEF Moved
<1>4. Moved(E, i + 1) = i + 1 + Grown(S)
  BY <1>1, Zenon DEF Moved
<1> HIDE DEF S
<1> QED
  BY <1>2, <1>3, <1>4

\* The line behind a region is found behind what replaces it.
LEMMA MovedPast ==
    ASSUME NEW E, NEW n, Disjoint(E, n), NEW r \in E
    PROVE  Moved(E, r.to + 1) = Moved(E, r.from) + r.new
<1> DEFINE S == {q \in E : q.from < r.from}
<1>0. r.from \in Int /\ r.to \in Int /\ r.new \in Int /\ r.from <= r.to
  BY ConstAssumption DEF Disjoint, ConstAssumption
<1>1. {q \in E : q.from < r.to + 1} = S \cup {r}
  <2>1. ASSUME NEW q \in E, q # r PROVE q.from < r.to + 1 <=> q.from < r.from
    <3>1. /\ q.from \in Int /\ q.to \in Int /\ q.from <= q.to
          /\ r.to < q.from \/ q.to < r.from
      BY <2>1 DEF Disjoint
    <3> QED
      BY <1>0, <3>1
  <2> QED
    BY <1>0, <2>1
<1>2. S \in SUBSET E /\ r \in E \ S
  BY <1>0
<1>3. Grown(S \cup {r}) = Grown(S) + r.new - (r.to - r.from + 1)
  BY <1>2, GrownAdd
<1>4. Grown(S) \in Int
  BY <1>2, GrownFinite
<1>5. /\ Moved(E, r.to + 1) = r.to + 1 + Grown(S \cup {r})
      /\ Moved(E, r.from) = r.from + Grown(S)
  BY <1>1 DEF Moved
<1> HIDE DEF S
<1> QED
  BY <1>0, <1>3, <1>4, <1>5

\* Line i is the first line of a region or none of its lines.
Boundary(E, i) == \A q \in E : ~(q.from < i /\ i <= q.to)

\* Lines at boundaries keep their order.
LEMMA MovedInOrder ==
    ASSUME NEW E, NEW n, Disjoint(E, n), NEW a \in Nat, NEW b \in Nat,
           Boundary(E, a), Boundary(E, b), a <= b
    PROVE  Moved(E, a) <= Moved(E, b)
<1> DEFINE T == {m \in Nat : /\ a <= m /\ Boundary(E, m)
                             /\ ~(Moved(E, a) <= Moved(E, m))}
<1>1. SUFFICES ASSUME T # {} PROVE FALSE
  BY <1>1
<1>2. PICK m \in T : \A k \in T : m <= k
  BY <1>1, LeastNat
<1>3. Moved(E, a) \in Int /\ Moved(E, m) \in Int
  BY MovedInt
<1>4. /\ m \in Nat /\ a < m /\ Boundary(E, m)
      /\ ~(Moved(E, a) <= Moved(E, m))
  <2>1. m # a
    BY <1>2, <1>3
  <2> QED
    BY <1>2, <2>1
<1>5. \A k \in Nat : a <= k /\ k < m /\ Boundary(E, k) => Moved(E, a) <= Moved(E, k)
  BY <1>2, <1>4
<1> HIDE DEF T
<1>6. m - 1 \in Nat /\ a <= m - 1 /\ m - 1 < m
  BY <1>4
<1>7. CASE \A q \in E : ~(q.from <= m - 1 /\ m - 1 <= q.to)
  <2>1. Boundary(E, m - 1)
    <3> SUFFICES ASSUME NEW q \in E, q.from < m - 1, m - 1 <= q.to PROVE FALSE
      BY DEF Boundary
    <3>1. q.from \in Int
      BY DEF Disjoint
    <3> QED
      BY <1>6, <1>7, <3>1
  <2>2. \A q \in E : q.from # m - 1
    <3> SUFFICES ASSUME NEW q \in E, q.from = m - 1 PROVE FALSE
      OBVIOUS
    <3>1. q.from \in Int /\ q.to \in Int /\ q.from <= q.to
      BY DEF Disjoint
    <3> QED
      BY <1>7, <3>1
  <2>3. Moved(E, (m - 1) + 1) = Moved(E, m - 1) + 1
    BY <1>6, <2>2, MovedNext
  <2>4. (m - 1) + 1 = m
    BY <1>4
  <2>5. Moved(E, m - 1) \in Int
    BY <1>6, MovedInt
  <2> QED
    BY <1>3, <1>4, <1>5, <1>6, <2>1, <2>3, <2>4, <2>5
<1>8. CASE \E q \in E : q.from <= m - 1 /\ m - 1 <= q.to
  <2>1. PICK q \in E : q.from <= m - 1 /\ m - 1 <= q.to
    BY <1>8
  <2>2. q.from \in Nat /\ q.to \in Nat /\ q.new \in Nat /\ q.from <= q.to
    BY ConstAssumption DEF Disjoint, ConstAssumption
  <2>3. q.to + 1 = m /\ q.from < m
    BY <1>4, <2>1, <2>2 DEF Boundary
  <2>4. a <= q.from
    BY <1>4, <2>2, <2>3 DEF Boundary
  <2>5. Boundary(E, q.from)
    <3> SUFFICES ASSUME NEW x \in E, x.from < q.from, q.from <= x.to PROVE FALSE
      BY DEF Boundary
    <3>1. x.from \in Int /\ x.to \in Int /\ (x = q \/ x.to < q.from \/ q.to < x.from)
      BY DEF Disjoint
    <3> QED
      BY <2>2, <3>1
  <2>6. Moved(E, q.to + 1) = Moved(E, q.from) + q.new
    BY MovedPast
  <2>7. Moved(E, q.from) \in Int
    BY <2>2, MovedInt
  <2>8. Moved(E, a) <= Moved(E, q.from)
    BY <1>5, <2>2, <2>3, <2>4, <2>5
  <2> QED
    BY <1>3, <1>4, <2>2, <2>3, <2>6, <2>7, <2>8
<1> QED
  BY <1>7, <1>8

\* A line that stays is found before what replaces a region behind it, and
\* behind what replaces a region before it.
LEMMA MovedApart ==
    ASSUME NEW E, NEW n, Disjoint(E, n), NEW i \in 1..n, i \notin Touched(E),
           NEW r \in E
    PROVE  IF i < r.from THEN Moved(E, i) < Moved(E, r.from)
           ELSE r.to < i /\ Moved(E, r.from) + r.new <= Moved(E, i)
<1>0. /\ i \in Nat /\ r.from \in Nat /\ r.to \in Nat /\ r.new \in Nat
      /\ r.from <= r.to
  BY ConstAssumption DEF Disjoint, ConstAssumption
<1>1. \A q \in E : /\ q.from \in Nat /\ q.to \in Nat /\ q.from <= q.to
                   /\ ~(q.from <= i /\ i <= q.to)
  BY DEF Disjoint, Touched
<1>2. Boundary(E, i) /\ Boundary(E, i + 1)
  BY <1>0, <1>1 DEF Boundary
<1>3. Boundary(E, r.from) /\ Boundary(E, r.to + 1)
  <2>1. ASSUME NEW q \in E PROVE q = r \/ r.to < q.from \/ q.to < r.from
    BY DEF Disjoint
  <2> QED
    BY <1>0, <1>1, <2>1 DEF Boundary
<1>4. Moved(E, i) \in Int /\ Moved(E, r.from) \in Int
  BY <1>0, MovedInt
<1>5. CASE i < r.from
  <2>1. \A q \in E : q.from # i
    BY <1>0, <1>1
  <2>2. Moved(E, i + 1) = Moved(E, i) + 1
    BY <1>0, <2>1, MovedNext
  <2>3. i + 1 \in Nat /\ i + 1 <= r.from
    BY <1>0, <1>5
  <2>4. Moved(E, i + 1) <= Moved(E, r.from)
    BY <1>0, <1>2, <1>3, <2>3, MovedInOrder
  <2> QED
    BY <1>4, <1>5, <2>2, <2>4
<1>6. CASE ~(i < r.from)
  <2>1. r.to < i
    BY <1>0, <1>1, <1>6
  <2>2. r.to + 1 \in Nat /\ r.to + 1 <= i
    BY <1>0, <2>1
  <2>3. Moved(E, r.to + 1) <= Moved(E, i)
    BY <1>0, <1>2, <1>3, <2>2, MovedInOrder
  <2>4. Moved(E, r.to + 1) = Moved(E, r.from) + r.new
    BY MovedPast
  <2> QED
    BY <1>6, <2>1, <2>3, <2>4
<1> QED
  BY <1>5, <1>6

\* The overlay is a file whose lines are those that stay, each once, and new
\* ones.
LEMMA OverlayLines ==
    ASSUME NEW E, NEW f, Disjoint(E, Len(f)), DOMAIN f = 1..Len(f), NEW v
    PROVE  LET g == Overlay(f, E, v)
           IN  /\ Len(f) + Grown(E) \in Int
               /\ DOMAIN g = 1..(Len(f) + Grown(E))
               /\ \A k \in DOMAIN g :
                     \/ \E i \in DOMAIN f : /\ g[k] = f[i] /\ i \notin Touched(E)
                                            /\ Moved(E, i) = k
                     \/ g[k] = Token(v, k)
<1> DEFINE g == Overlay(f, E, v)
           Before(k) == {i \in (DOMAIN f) \ Touched(E) : Moved(E, i) = k}
<1>1. Len(f) + Grown(E) \in Int
  <2>1. Len(f) \in Nat /\ Grown(E) \in Int
    BY GrownFinite DEF Disjoint
  <2> QED
    BY <2>1
<1>2. g = [k \in 1..(Len(f) + Grown(E)) |->
              IF Before(k) # {} THEN f[CHOOSE i \in Before(k) : TRUE]
              ELSE Token(v, k)]
  BY DEF Overlay
<1>3. ASSUME NEW k \in DOMAIN g
      PROVE  \/ \E i \in DOMAIN f : /\ g[k] = f[i] /\ i \notin Touched(E)
                                    /\ Moved(E, i) = k
             \/ g[k] = Token(v, k)
  <2>1. CASE Before(k) = {}
    BY <1>2, <1>3, <2>1
  <2>2. CASE Before(k) # {}
    <3>1. (CHOOSE i \in Before(k) : TRUE) \in Before(k)
      BY <2>2
    <3>2. g[k] = f[CHOOSE i \in Before(k) : TRUE]
      BY <1>2, <1>3, <2>2
    <3> QED
      BY <3>1, <3>2
  <2> QED
    BY <2>1, <2>2
<1> QED
  BY <1>1, <1>2, <1>3

\* The lines an edit is said to write are new.
LEMMA OverlayNew ==
    ASSUME NEW E, NEW f, Disjoint(E, Len(f)), DOMAIN f = 1..Len(f), NEW v,
           NEW r \in E, NEW k \in DOMAIN Overlay(f, E, v),
           k \in Moved(E, r.from)..(Moved(E, r.from) + r.new - 1)
    PROVE  Overlay(f, E, v)[k] = Token(v, k)
<1> SUFFICES ASSUME NEW i \in DOMAIN f, i \notin Touched(E), Moved(E, i) = k
             PROVE  FALSE
  BY OverlayLines
<1>1. IF i < r.from THEN Moved(E, i) < Moved(E, r.from)
      ELSE r.to < i /\ Moved(E, r.from) + r.new <= Moved(E, i)
  BY MovedApart
<1>2. r.from \in Int /\ r.new \in Int
  BY ConstAssumption DEF Disjoint, ConstAssumption
<1>3. Moved(E, r.from) \in Int
  BY <1>2, MovedInt
<1> QED
  BY <1>1, <1>2, <1>3

\* The lines before the first region stay where they are.
LEMMA OverlayKeeps ==
    ASSUME NEW E, NEW f, Disjoint(E, Len(f)), DOMAIN f = 1..Len(f), NEW v,
           NEW r \in E, \A q \in E : r.from <= q.from,
           NEW k \in DOMAIN Overlay(f, E, v), k < r.from
    PROVE  k \in DOMAIN f /\ Overlay(f, E, v)[k] = f[k]
<1> DEFINE Before == {i \in (DOMAIN f) \ Touched(E) : Moved(E, i) = k}
<1>1. /\ r.from \in 1..Len(f) /\ r.new \in Nat /\ Len(f) \in Nat
      /\ \A q \in E : q.from \in Int
  BY ConstAssumption DEF Disjoint, ConstAssumption
<1>2. k \in 1..Len(f)
  <2>1. k \in 1..(Len(f) + Grown(E)) /\ Len(f) + Grown(E) \in Int
    BY OverlayLines
  <2> QED
    BY <1>1, <2>1
<1>3. \A i \in Int : i <= r.from => Moved(E, i) = i
  <2> SUFFICES ASSUME NEW i \in Int, i <= r.from PROVE Moved(E, i) = i
    OBVIOUS
  <2>1. {q \in E : q.from < i} = {}
    BY <1>1
  <2>2. Moved(E, i) = i + Grown({})
    BY <2>1 DEF Moved
  <2> QED
    BY <2>2, GrownEmpty
<1>4. k \notin Touched(E)
  BY <1>1, <1>2 DEF Touched
<1>5. k \in Before
  BY <1>1, <1>2, <1>3, <1>4
<1>6. \A i \in Before : i = k
  <2> SUFFICES ASSUME NEW i \in 1..Len(f), i \notin Touched(E), Moved(E, i) = k
               PROVE  i = k
    OBVIOUS
  <2>1. CASE i < r.from
    BY <1>1, <1>3, <2>1
  <2>2. CASE ~(i < r.from)
    <3>1. Moved(E, r.from) + r.new <= Moved(E, i)
      BY <2>2, MovedApart
    <3>2. Moved(E, r.from) = r.from
      BY <1>1, <1>3
    <3> QED
      BY <1>1, <1>2, <3>1, <3>2
  <2> QED
    BY <2>1, <2>2
<1>7. (CHOOSE i \in Before : TRUE) = k
  BY <1>5, <1>6
<1>8. Overlay(f, E, v)[k] = f[CHOOSE i \in Before : TRUE]
  BY <1>5 DEF Overlay
<1> QED
  BY <1>2, <1>7, <1>8

-----------------------------------------------------------------------------
(* The coverage map's promise.  What an entry claims is a statement about     *)
(* the content it was certified against; a change of the file can only take   *)
(* lines away from that content, since every line it brings is new.  So the   *)
(* invariant follows each content that matters - the certified one, the one   *)
(* an edit was admitted on, the one a tool left behind - and says which of    *)
(* its lines that are still on disk were shown.                               *)

\* Lines that existed before the next change.
Old(f) == \A i \in DOMAIN f : f[i] \in (0..ver) \X Int

\* No line is found twice, and none is from the future.
FileOK == /\ file \in Seq((0..MaxVer) \X Int) /\ Len(file) <= MaxLines
          /\ Old(file)
          /\ \A i, j \in DOMAIN file : file[i] = file[j] => i = j

\* What the entry claims of the content it was certified against, and that it
\* has a stat to be compared.
BasisShown ==
    (cov # None /\ ~loose) =>
        /\ cov.stat # None /\ Old(basis)
        /\ \A i \in cov.lines \cap DOMAIN basis :
              basis[i] \in Lines(file) => basis[i] \in context \cup unseen

\* A read knows its window, and an uncompacted one showed what it will book.
ReadOK(c) ==
    /\ run[c].at = "reading" =>
          run[c].win \in Windows /\ pendingReads[c] \in {None, run[c].win}
    /\ (run[c].at = "read" /\ ~run[c].error /\ pendingReads[c] # None
            /\ ~run[c].hides) =>
          \A i \in BookedLines(run[c], pendingReads[c]) \cap DOMAIN run[c].content :
              run[c].content[i] \in run[c].shown

\* Region r of the edit that call c waits to make has a line that, if it is still
\* on disk, was shown.
RegionShown(c, r) ==
    \E i \in OrigSpan(r) :
        /\ i \in DOMAIN run[c].content
        /\ run[c].content[i] \in Lines(file) =>
              run[c].content[i] \in context \cup run[c].unseen

\* A call that waits to edit: the gate's booking is of its regions, and as long
\* as none of the lines it was admitted on is gone, the file under the stat of
\* its admission is the one it was admitted on; what is left on disk of a region
\* has a line that was shown, unless the admission was loose.
Editing(c) ==
    LET E == run[c].edits
        p == pendingEdits[c]
        old == run[c].content
    IN  /\ E \in EditShapes /\ Applies(E, old)
        /\ Old(old) /\ Len(old) \in Nat
        /\ p # None =>
             /\ p = Booking(E, p.preStat) /\ p.preStat \in 0..stat
             /\ Lines(old) \subseteq Lines(file) =>
                  /\ stat = p.preStat => file = old
                  /\ (cov # None /\ ~loose /\ cov.stat = p.preStat) => basis = old
             /\ ~run[c].loose => \A r \in Exact(E) : RegionShown(c, r)

\* A call that waits to edit and had nothing to be checked against.
EditingBlind(c) == /\ run[c].edits \in EditShapes \cup {{}}
                   /\ pendingEdits[c] \in {None, Unchecked}

EditOK(c) == run[c].at = "editing" =>
                IF run[c].checked THEN Editing(c) ELSE EditingBlind(c)

WriteOK(c) == run[c].at = "writing" =>
                 /\ run[c].size \in WriteSizes
                 /\ pendingEdits[c] \in {None, WriteBooking}

\* A call whose tool is done: the lines the gate will book were shown, and so
\* were the lines an edit leaves the entry, as long as the entry is the one the
\* edit was admitted on.
Edited(c) ==
    LET r == run[c]
        p == pendingEdits[c]
    IN  /\ Old(r.content)
        /\ p.kind = "write" => p = WriteBooking
        /\ p.kind = "edit" => /\ p.preStat \in 0..(stat - 1)
                              /\ p.fuzzy \/ (p.lines # {} /\ p.first \in Int)
        /\ (~r.raced /\ ~r.nl /\ ~p.fuzzy) =>
             /\ \A i \in p.lines \cap DOMAIN r.content :
                  r.content[i] \in Lines(file) => r.content[i] \in context
             /\ (p.kind = "edit" /\ cov # None /\ ~loose /\ cov.stat = p.preStat) =>
                  \A i \in cov.lines \cap DOMAIN r.content :
                     (i < p.first /\ r.content[i] \in Lines(file)) =>
                        r.content[i] \in context \cup unseen

DoneOK(c) == (run[c].at = "edited" /\ ~run[c].error
                /\ pendingEdits[c] \notin {None, Unchecked}) => Edited(c)

CallOK(c) == ReadOK(c) /\ EditOK(c) /\ WriteOK(c) /\ DoneOK(c)

\* With IInv, the inductive invariant of the promise.
Shown == FileOK /\ BasisShown /\ \A c \in Calls : CallOK(c)

\* A content the file may change to: every line of it is on disk already or new.
Fresh(f) ==
    /\ f \in Seq((0..MaxVer) \X Int) /\ Len(f) <= MaxLines
    /\ \A i, j \in DOMAIN f : f[i] = f[j] => i = j
    /\ \A i \in DOMAIN f : f[i] \in Lines(file) \/ f[i] \in {ver + 1} \X Int

\* Tokens of one change differ by their position.
LEMMA TokenPosition ==
    ASSUME NEW v, NEW i, NEW j, Token(v, i) = Token(v, j)
    PROVE  i = j
BY DEF Token

\* The domain of the file is its line numbers.
LEMMA FileLines == FileOK => /\ Len(file) \in Nat /\ DOMAIN file = 1..Len(file)
                             /\ \A i \in 1..Len(file) : file[i] \in (0..MaxVer) \X Int
<1> SUFFICES ASSUME FileOK
             PROVE  /\ Len(file) \in Nat /\ DOMAIN file = 1..Len(file)
                    /\ \A i \in 1..Len(file) : file[i] \in (0..MaxVer) \X Int
  OBVIOUS
<1>1. file \in Seq((0..MaxVer) \X Int)
  BY DEF FileOK
<1> QED
  BY <1>1, LenProperties, ElementOfSeq

\* A line of an old content that is in the next content is on disk already.
LEMMA FreshShrinks ==
    ASSUME TypeOK, NEW f, Fresh(f), NEW g, Old(g), NEW i \in DOMAIN g,
           g[i] \in Lines(f)
    PROVE  g[i] \in Lines(file)
<1>1. PICK j \in DOMAIN f : g[i] = f[j]
  BY DEF Lines
<1>2. g[i] \in (0..ver) \X Int /\ ver \in Int
  BY ConstAssumption DEF Old, TypeOK, ConstAssumption
<1>3. g[i] \notin {ver + 1} \X Int
  BY <1>2
<1> QED
  BY <1>1, <1>3 DEF Fresh

\* The file stays a file with unique lines.
LEMMA FreshFile ==
    ASSUME TypeOK, FileOK, NEW f, Fresh(f), file' = f, ver' = ver + 1
    PROVE  FileOK'
<1>0. ver \in Nat
  BY ConstAssumption DEF TypeOK, ConstAssumption
<1>1. ASSUME NEW i \in DOMAIN f PROVE f[i] \in (0..(ver + 1)) \X Int
  <2>1. ASSUME NEW j \in DOMAIN file PROVE file[j] \in (0..(ver + 1)) \X Int
    <3>1. file[j] \in (0..ver) \X Int
      BY <2>1 DEF FileOK, Old
    <3>2. 0..ver \subseteq 0..(ver + 1)
      BY <1>0
    <3> QED
      BY <3>1, <3>2
  <2>2. ver + 1 \in 0..(ver + 1)
    BY <1>0
  <2>3. f[i] \in Lines(file) \/ f[i] \in {ver + 1} \X Int
    BY <1>1 DEF Fresh
  <2>4. CASE f[i] \in Lines(file)
    BY <2>1, <2>4 DEF Lines
  <2>5. CASE f[i] \in {ver + 1} \X Int
    BY <2>2, <2>5
  <2> QED
    BY <2>3, <2>4, <2>5
<1>2. \A i \in DOMAIN file' : file'[i] \in (0..ver') \X Int
  BY <1>1
<1> QED
  BY <1>2 DEF Fresh, FileOK, Old

\* A sequence given by its lines.
LEMMA FileOf ==
    ASSUME NEW S, NEW f, NEW n \in Int, f = [k \in 1..n |-> f[k]],
           \A k \in 1..n : f[k] \in S
    PROVE  f \in Seq(S) /\ DOMAIN f = 1..n
<1>1. CASE n >= 0
  <2>1. f \in [1..n -> S] /\ n \in Nat
    BY <1>1
  <2> QED
    BY <2>1, SeqDef
<1>2. CASE n < 0
  <2>1. 1..n = 1..0 /\ 0 \in Nat
    BY <1>2
  <2>2. f \in [1..0 -> S]
    BY <2>1
  <2> QED
    BY <2>1, <2>2, SeqDef
<1> QED
  BY <1>1, <1>2

\* An edit's lines are on disk already or new.
LEMMA OverlayFresh ==
    ASSUME TypeOK, FileOK, ver < MaxVer, NEW E, Disjoint(E, Len(file)),
           Fits(Overlay(file, E, ver + 1))
    PROVE  Fresh(Overlay(file, E, ver + 1))
<1> DEFINE g == Overlay(file, E, ver + 1)
           n == Len(file) + Grown(E)
<1>0. /\ ver \in Nat /\ ver + 1 \in 0..MaxVer /\ DOMAIN file = 1..Len(file)
      /\ \A i \in DOMAIN file : file[i] \in (0..ver) \X Int
  BY FileLines, ConstAssumption DEF TypeOK, ConstAssumption, FileOK, Old
<1>1. /\ n \in Int /\ DOMAIN g = 1..n
      /\ \A k \in DOMAIN g :
            \/ \E i \in DOMAIN file : /\ g[k] = file[i] /\ i \notin Touched(E)
                                      /\ Moved(E, i) = k
            \/ g[k] = Token(ver + 1, k)
  BY <1>0, OverlayLines
<1>2. g = [k \in 1..n |-> g[k]]
  BY DEF Overlay
<1> HIDE DEF g, n
<1>3. ASSUME NEW k \in 1..n
      PROVE  /\ g[k] \in (0..MaxVer) \X Int
             /\ g[k] \in Lines(file) \/ g[k] \in {ver + 1} \X Int
  <2>1. CASE g[k] = Token(ver + 1, k)
    <3>1. k \in Int
      OBVIOUS
    <3> QED
      BY <1>0, <2>1, <3>1 DEF Token
  <2>2. CASE \E i \in DOMAIN file : g[k] = file[i]
    <3>1. PICK i \in DOMAIN file : g[k] = file[i]
      BY <2>2
    <3>2. file[i] \in (0..MaxVer) \X Int
      BY <1>0, FileLines
    <3> QED
      BY <3>1, <3>2 DEF Lines
  <2> QED
    BY <1>1, <1>3, <2>1, <2>2
<1>4. g \in Seq((0..MaxVer) \X Int) /\ DOMAIN g = 1..n
  BY <1>1, <1>2, <1>3, FileOf
<1>5. ASSUME NEW j \in DOMAIN g, NEW k \in DOMAIN g, g[j] = g[k] PROVE j = k
  <2>1. \A i \in DOMAIN file, x \in 1..n : file[i] # Token(ver + 1, x)
    BY <1>0 DEF Token
  <2>2. CASE g[j] = Token(ver + 1, j)
    <3>1. g[k] = Token(ver + 1, k)
      BY <1>1, <1>5, <2>1, <2>2
    <3> QED
      BY <1>5, <2>2, <3>1, TokenPosition
  <2>3. CASE \E i \in DOMAIN file : g[j] = file[i] /\ Moved(E, i) = j
    <3>1. PICK i \in DOMAIN file : g[j] = file[i] /\ Moved(E, i) = j
      BY <2>3
    <3>2. g[k] # Token(ver + 1, k)
      BY <1>1, <1>5, <2>1, <3>1
    <3>3. PICK x \in DOMAIN file : g[k] = file[x] /\ Moved(E, x) = k
      BY <1>1, <3>2
    <3>4. i = x
      BY <1>5, <3>1, <3>3 DEF FileOK
    <3> QED
      BY <3>1, <3>3, <3>4
  <2> QED
    BY <1>1, <2>2, <2>3
<1>6. Len(g) <= MaxLines
  <2>1. Len(g) \in 0..MaxLines
    BY DEF Fits, g
  <2> QED
    BY <2>1, ConstAssumption DEF ConstAssumption
<1>7. Fresh(g)
  BY <1>1, <1>3, <1>4, <1>5, <1>6 DEF Fresh
<1> QED
  BY <1>7 DEF g

\* So are a write's.
LEMMA WriteFresh ==
    ASSUME TypeOK, ver < MaxVer, NEW n \in WriteSizes
    PROVE  Fresh([i \in 1..n |-> Token(ver + 1, i)])
<1> DEFINE g == [i \in 1..n |-> Token(ver + 1, i)]
<1>0. /\ ver \in Nat /\ ver + 1 \in 0..MaxVer /\ n \in Nat /\ n <= MaxLines
  BY ConstAssumption DEF TypeOK, ConstAssumption
<1>1. \A k \in 1..n : g[k] \in (0..MaxVer) \X Int /\ g[k] \in {ver + 1} \X Int
  BY <1>0 DEF Token
<1>2. g \in [1..n -> (0..MaxVer) \X Int]
  BY <1>1
<1>3. g \in Seq((0..MaxVer) \X Int)
  BY <1>0, <1>2, SeqDef
<1>4. Len(g) = n /\ DOMAIN g = 1..n
  BY <1>0
<1>5. \A i, j \in 1..n : g[i] = g[j] => i = j
  BY TokenPosition
<1> HIDE DEF g
<1>6. Fresh(g)
  BY <1>0, <1>1, <1>3, <1>4, <1>5 DEF Fresh
<1> QED
  BY <1>6 DEF g

\* So is a line changed in place, and the line it replaces is gone.
LEMMA HiddenFresh ==
    ASSUME TypeOK, FileOK, ver < MaxVer, NEW i \in DOMAIN file
    PROVE  LET g == [file EXCEPT ![i] = Token(ver + 1, 1)]
           IN  Fresh(g) /\ file[i] \notin Lines(g)
<1> DEFINE g == [file EXCEPT ![i] = Token(ver + 1, 1)]
<1>0. /\ ver \in Nat /\ ver + 1 \in 0..MaxVer /\ DOMAIN file = 1..Len(file)
      /\ \A j \in DOMAIN file : file[j] \in (0..ver) \X Int
  <2>1. ver \in Nat /\ ver + 1 \in 0..MaxVer
    BY ConstAssumption DEF TypeOK, ConstAssumption
  <2> QED
    BY <2>1, FileLines DEF FileOK, Old
<1>8. /\ Token(ver + 1, 1) \in (0..MaxVer) \X Int
      /\ Token(ver + 1, 1) \in {ver + 1} \X Int
  BY <1>0 DEF Token
<1>1. \A j \in DOMAIN file : file[j] # Token(ver + 1, 1)
  BY <1>0 DEF Token
<1>2. /\ DOMAIN g = DOMAIN file
      /\ \A j \in DOMAIN file : g[j] = IF j = i THEN Token(ver + 1, 1) ELSE file[j]
  OBVIOUS
<1>3. g \in Seq((0..MaxVer) \X Int) /\ Len(g) = Len(file)
  <2>1. file \in Seq((0..MaxVer) \X Int) /\ i \in 1..Len(file)
    BY <1>0 DEF FileOK
  <2> QED
    BY <1>8, <2>1, ExceptSeq
<1> HIDE DEF g
<1>4. \A j, k \in DOMAIN g : g[j] = g[k] => j = k
  BY <1>1, <1>2 DEF FileOK
<1>5. \A j \in DOMAIN g : g[j] \in Lines(file) \/ g[j] \in {ver + 1} \X Int
  BY <1>2, <1>8 DEF Lines
<1>6. Fresh(g)
  BY <1>3, <1>4, <1>5 DEF Fresh, FileOK
<1>7. file[i] \notin Lines(g)
  <2> SUFFICES ASSUME NEW j \in DOMAIN g, g[j] = file[i] PROVE FALSE
    BY DEF Lines
  <2> QED
    BY <1>1, <1>2 DEF FileOK
<1> QED
  BY <1>6, <1>7 DEF g

\* The places of the lines that stay when lines are inserted or removed at i.
LEMMA SplicePlaces ==
    ASSUME NEW l \in Nat, NEW i \in 1..(l + 1), NEW drop \in {0, 1},
           NEW add \in {0, 1}, i + drop <= l + 1,
           NEW k \in 1..(i - 1 + add + (l - i - drop + 1))
    PROVE  /\ k < i => k \in 1..(i - 1) /\ k \in 1..l
           /\ k >= i + add => /\ k \in (i + add)..(i - 1 + add + (l - i - drop + 1))
                              /\ k - add + drop \in 1..l
                              /\ i + drop <= k - add + drop
OBVIOUS

\* So is a file with a line inserted, replaced or removed.
LEMMA SpliceFresh ==
    ASSUME TypeOK, FileOK, ver < MaxVer,
           NEW i \in 1..(Len(file) + 1), NEW drop \in {0, 1}, NEW add \in {0, 1},
           i + drop <= Len(file) + 1,
           Fits(SubSeq(file, 1, i - 1) \o [j \in 1..add |-> Token(ver + 1, j)]
                  \o SubSeq(file, i + drop, Len(file)))
    PROVE  Fresh(SubSeq(file, 1, i - 1) \o [j \in 1..add |-> Token(ver + 1, j)]
                   \o SubSeq(file, i + drop, Len(file)))
<1> DEFINE S == (0..MaxVer) \X Int
           a == SubSeq(file, 1, i - 1)
           b == [j \in 1..add |-> Token(ver + 1, j)]
           c == SubSeq(file, i + drop, Len(file))
           g == a \o b \o c
           rest == Len(file) - i - drop + 1
<1>0. /\ ver \in Nat /\ ver + 1 \in 0..MaxVer /\ DOMAIN file = 1..Len(file)
      /\ \A j \in DOMAIN file : file[j] \in (0..ver) \X Int
      /\ Len(file) \in Nat
  <2>1. ver \in Nat /\ ver + 1 \in 0..MaxVer
    BY ConstAssumption DEF TypeOK, ConstAssumption
  <2> QED
    BY <2>1, FileLines DEF FileOK, Old
<1>1. \A j \in 1..Len(file) : file[j] \in S
  BY FileLines
<1>2. /\ i \in Int /\ i - 1 \in Nat /\ i - 1 <= Len(file) /\ rest \in Nat
      /\ i + drop \in Int /\ add \in Nat /\ drop \in Nat
  BY <1>0
<1>3. /\ a \in Seq(S) /\ Len(a) = i - 1
      /\ \A k \in 1..(i - 1) : a[k] = file[k]
  <2>1. \A k \in 1..(i - 1) : file[k] \in S
    BY <1>0, <1>1
  <2>2. /\ a \in Seq(S) /\ Len(a) = IF 1 <= i - 1 THEN (i - 1) - 1 + 1 ELSE 0
        /\ \A k \in 1..((i - 1) - 1 + 1) : a[k] = file[1 + k - 1]
    <3>1. 1 \in Int /\ i - 1 \in Int
      BY <1>2
    <3> HIDE DEF S
    <3> QED
      BY <2>1, <3>1, SubSeqProperties
  <2> HIDE DEF a, S
  <2>3. Len(a) = i - 1
    BY <1>2, <2>2
  <2>4. ASSUME NEW k \in 1..(i - 1) PROVE a[k] = file[k]
    <3>1. k \in 1..((i - 1) - 1 + 1) /\ 1 + k - 1 = k
      BY <1>2
    <3> QED
      BY <2>2, <3>1
  <2> QED
    BY <2>2, <2>3, <2>4
<1>4. /\ b \in Seq(S) /\ Len(b) = add
      /\ \A k \in 1..add : b[k] = Token(ver + 1, k)
  <2>1. \A k \in 1..add : Token(ver + 1, k) \in S
    BY <1>0 DEF Token
  <2>2. b \in [1..add -> S]
    BY <2>1
  <2>3. b \in Seq(S)
    BY <1>2, <2>2, SeqDef
  <2> QED
    BY <1>2, <2>3
<1>5. /\ c \in Seq(S) /\ Len(c) = rest
      /\ \A k \in 1..rest : c[k] = file[i + drop + k - 1]
  <2>1. \A k \in (i + drop)..Len(file) : file[k] \in S
    BY <1>0, <1>1, <1>2
  <2>2. /\ c \in Seq(S)
        /\ Len(c) = IF i + drop <= Len(file) THEN Len(file) - (i + drop) + 1 ELSE 0
        /\ \A k \in 1..(Len(file) - (i + drop) + 1) : c[k] = file[(i + drop) + k - 1]
    <3>1. i + drop \in Int /\ Len(file) \in Int
      BY <1>0, <1>2
    <3> HIDE DEF S
    <3> QED
      BY <2>1, <3>1, SubSeqProperties
  <2>3. rest = Len(file) - (i + drop) + 1
    BY <1>0, <1>2
  <2>4. rest >= 0
    BY <1>0, <1>2
  <2>5. i + drop \in Int /\ Len(file) \in Int /\ rest \in Int
    BY <1>0, <1>2
  <2> HIDE DEF c, S, rest
  <2>6. Len(c) = rest
    BY <2>2, <2>3, <2>4, <2>5
  <2>7. ASSUME NEW k \in 1..rest PROVE c[k] = file[i + drop + k - 1]
    <3>1. k \in 1..(Len(file) - (i + drop) + 1) /\ (i + drop) + k - 1 = i + drop + k - 1
      BY <2>3
    <3> QED
      BY <2>2, <3>1
  <2> QED
    BY <2>2, <2>6, <2>7
<1> HIDE DEF a, b, c, S
<1> DEFINE n == i - 1 + add + rest
<1>6. /\ g \in Seq(S) /\ Len(g) = n
      /\ \A k \in 1..(i - 1) : g[k] = file[k]
      /\ \A k \in i..(i - 1 + add) : g[k] = Token(ver + 1, k - (i - 1))
      /\ \A k \in (i + add)..n : g[k] = file[k - add + drop]
  <2>1. /\ a \o b \in Seq(S) /\ Len(a \o b) = i - 1 + add
        /\ \A k \in 1..(i - 1 + add) :
              (a \o b)[k] = IF k <= i - 1 THEN a[k] ELSE b[k - (i - 1)]
    <3>1. /\ a \o b \in Seq(S) /\ Len(a \o b) = Len(a) + Len(b)
          /\ \A k \in 1..(Len(a) + Len(b)) :
                (a \o b)[k] = IF k <= Len(a) THEN a[k] ELSE b[k - Len(a)]
      BY <1>3, <1>4, ConcatProperties
    <3> QED
      BY <1>3, <1>4, <3>1
  <2>2. /\ g \in Seq(S) /\ Len(g) = i - 1 + add + rest
        /\ \A k \in 1..(i - 1 + add + rest) :
              g[k] = IF k <= i - 1 + add THEN (a \o b)[k] ELSE c[k - (i - 1 + add)]
    <3> HIDE DEF g
    <3>1. /\ g \in Seq(S) /\ Len(g) = Len(a \o b) + Len(c)
          /\ \A k \in 1..(Len(a \o b) + Len(c)) :
                g[k] = IF k <= Len(a \o b) THEN (a \o b)[k] ELSE c[k - Len(a \o b)]
      <4>1. a \o b \in Seq(S) /\ c \in Seq(S)
        BY <1>5, <2>1
      <4> QED
        BY <4>1, ConcatProperties, Zenon DEF g
    <3> QED
      BY <1>5, <2>1, <3>1
  <2> HIDE DEF g
  <2>3. ASSUME NEW k \in 1..(i - 1) PROVE g[k] = file[k]
    <3>1. k \in 1..(i - 1 + add) /\ k \in 1..(i - 1 + add + rest)
      BY <1>2
    <3> QED
      BY <1>2, <1>3, <2>1, <2>2, <3>1
  <2>4. ASSUME NEW k \in i..(i - 1 + add) PROVE g[k] = Token(ver + 1, k - (i - 1))
    <3>1. /\ k \in 1..(i - 1 + add) /\ k \in 1..(i - 1 + add + rest)
          /\ ~(k <= i - 1) /\ k <= i - 1 + add /\ k - (i - 1) \in 1..add
      BY <1>2
    <3> QED
      BY <1>4, <2>1, <2>2, <3>1
  <2>5. ASSUME NEW k \in (i + add)..n PROVE g[k] = file[k - add + drop]
    <3>1. /\ k \in 1..(i - 1 + add + rest)
          /\ ~(k <= i - 1 + add) /\ k - (i - 1 + add) \in 1..rest
          /\ i + drop + (k - (i - 1 + add)) - 1 = k - add + drop
      BY <1>2
    <3>2. g[k] = c[k - (i - 1 + add)]
      BY <2>2, <3>1
    <3> QED
      BY <1>5, <3>1, <3>2
  <2> QED
    BY <2>2, <2>3, <2>4, <2>5
<1> HIDE DEF g
<1>7. DOMAIN g = 1..n /\ n \in Nat
  BY <1>2, <1>6, LenProperties
<1>8. ASSUME NEW k \in 1..n
      PROVE  \/ k < i /\ k \in DOMAIN file /\ g[k] = file[k]
             \/ k \in i..(i - 1 + add) /\ g[k] = Token(ver + 1, k - (i - 1))
             \/ /\ i + add <= k /\ k - add + drop \in DOMAIN file
                /\ i + drop <= k - add + drop /\ g[k] = file[k - add + drop]
  <2>0. /\ k < i => k \in 1..(i - 1) /\ k \in 1..Len(file)
        /\ k >= i + add => /\ k \in (i + add)..n
                           /\ k - add + drop \in 1..Len(file)
                           /\ i + drop <= k - add + drop
    BY <1>0, SplicePlaces, Zenon
  <2>1. CASE k < i
    BY <1>0, <1>6, <2>0, <2>1
  <2>2. CASE k \in i..(i - 1 + add)
    BY <1>6, <2>2
  <2>3. CASE k >= i + add
    BY <1>0, <1>6, <2>0, <2>3
  <2> QED
    BY <1>2, <2>1, <2>2, <2>3
<1>9. \A j \in DOMAIN g : g[j] \in Lines(file) \/ g[j] \in {ver + 1} \X Int
  <2> SUFFICES ASSUME NEW k \in 1..n
               PROVE  g[k] \in Lines(file) \/ g[k] \in {ver + 1} \X Int
    BY <1>7
  <2>1. k - (i - 1) \in Int
    BY <1>2, <1>7
  <2> QED
    <3>1. CASE \E x \in DOMAIN file : g[k] = file[x]
      BY <3>1 DEF Lines
    <3>2. CASE g[k] = Token(ver + 1, k - (i - 1))
      BY <2>1, <3>2 DEF Token
    <3> QED
      BY <1>8, <3>1, <3>2
<1>10. ASSUME NEW j \in 1..n, NEW k \in 1..n, g[j] = g[k] PROVE j = k
  <2>1. \A y : \A x \in DOMAIN file : file[x] # Token(ver + 1, y)
    BY <1>0 DEF Token
  <2>2. \A x, y \in DOMAIN file : file[x] = file[y] => x = y
    BY DEF FileOK
  <2>3. j \in Int /\ k \in Int
    BY <1>7
  <2>4. CASE \E y : g[j] = Token(ver + 1, y)
    <3>1. /\ j \in i..(i - 1 + add) /\ g[j] = Token(ver + 1, j - (i - 1))
          /\ k \in i..(i - 1 + add) /\ g[k] = Token(ver + 1, k - (i - 1))
      BY <1>8, <1>10, <2>1, <2>4
    <3>2. j - (i - 1) = k - (i - 1)
      BY <1>10, <3>1 DEF Token
    <3> QED
      BY <1>2, <2>3, <3>2
  <2>5. CASE ~\E y : g[j] = Token(ver + 1, y)
    <3>1. /\ \/ j < i /\ j \in DOMAIN file /\ g[j] = file[j]
             \/ /\ j - add + drop \in DOMAIN file
                /\ i + drop <= j - add + drop /\ g[j] = file[j - add + drop]
          /\ \/ k < i /\ k \in DOMAIN file /\ g[k] = file[k]
             \/ /\ k - add + drop \in DOMAIN file
                /\ i + drop <= k - add + drop /\ g[k] = file[k - add + drop]
      BY <1>8, <1>10, <2>5
    <3>2. CASE j < i /\ j \in DOMAIN file /\ g[j] = file[j]
      <4>1. CASE k < i /\ k \in DOMAIN file /\ g[k] = file[k]
        BY <1>10, <2>2, <3>2, <4>1
      <4>2. CASE /\ k - add + drop \in DOMAIN file
                 /\ i + drop <= k - add + drop /\ g[k] = file[k - add + drop]
        <5>1. j = k - add + drop
          BY <1>10, <2>2, <3>2, <4>2
        <5> QED
          BY <1>2, <2>3, <3>2, <4>2, <5>1
      <4> QED
        BY <3>1, <4>1, <4>2
    <3>3. CASE /\ j - add + drop \in DOMAIN file
               /\ i + drop <= j - add + drop /\ g[j] = file[j - add + drop]
      <4>1. CASE k < i /\ k \in DOMAIN file /\ g[k] = file[k]
        <5>1. k = j - add + drop
          BY <1>10, <2>2, <3>3, <4>1
        <5> QED
          BY <1>2, <2>3, <3>3, <4>1, <5>1
      <4>2. CASE /\ k - add + drop \in DOMAIN file
                 /\ i + drop <= k - add + drop /\ g[k] = file[k - add + drop]
        <5>1. j - add + drop = k - add + drop
          BY <1>10, <2>2, <3>3, <4>2
        <5> QED
          BY <1>2, <2>3, <5>1
      <4> QED
        BY <3>1, <4>1, <4>2
    <3> QED
      BY <3>1, <3>2, <3>3
  <2> QED
    BY <2>4, <2>5
<1>11. Len(g) <= MaxLines
  <2>1. Len(g) \in 0..MaxLines
    BY DEF Fits, g, a, b, c
  <2> QED
    BY <2>1, ConstAssumption DEF ConstAssumption
<1>12. Fresh(g)
  BY <1>6, <1>7, <1>9, <1>10, <1>11 DEF Fresh, S
<1> QED
  BY <1>12 DEF g, a, b, c

\* What a content has left on disk stays shown when the file changes and the
\* gate's entry does not.
LEMMA ChangeBasis ==
    ASSUME TypeOK, FileOK, BasisShown, Fresh(file'), ver' = ver + 1,
           UNCHANGED <<cov, basis>>, cov # None => (loose' = loose \/ loose' = TRUE),
           (context \cup unseen) \cap Lines(file') \subseteq context' \cup unseen'
    PROVE  BasisShown'
<1> SUFFICES ASSUME cov # None, ~loose,
                    ~loose'
             PROVE  /\ cov.stat # None /\ Old(basis)'
                    /\ \A i \in cov.lines \cap DOMAIN basis :
                          basis[i] \in Lines(file') => basis[i] \in context' \cup unseen'
  BY DEF BasisShown
<1>1. cov.stat # None /\ Old(basis)
  BY DEF BasisShown
<1>2. ver \in Nat
  BY ConstAssumption DEF TypeOK, ConstAssumption
<1>3. Old(basis)'
  BY <1>1, <1>2 DEF Old
<1>4. ASSUME NEW i \in cov.lines \cap DOMAIN basis, basis[i] \in Lines(file')
      PROVE  basis[i] \in context' \cup unseen'
  <2>1. basis[i] \in Lines(file)
    BY <1>1, <1>4, FreshShrinks
  <2>2. basis[i] \in context \cup unseen
    BY <1>4, <2>1 DEF BasisShown
  <2> QED
    BY <1>4, <2>2
<1> QED
  BY <1>1, <1>3, <1>4

\* A call that the change is not a step of keeps its part of the invariant.
LEMMA ChangeCall ==
    ASSUME TypeOK, FileOK, Fresh(file'), ver' = ver + 1,
           UNCHANGED <<cov, basis>>, cov # None => (loose' = loose \/ loose' = TRUE),
           \/ stat' = ver + 1
           \/ stat' = stat /\ \E t \in Lines(file) : t \notin Lines(file'),
           (context \cup unseen) \cap Lines(file') \subseteq context' \cup unseen',
           context \cap Lines(file') \subseteq context',
           NEW c \in Calls, CallOK(c), run'[c] = run[c],
           pendingReads'[c] = pendingReads[c], pendingEdits'[c] = pendingEdits[c]
    PROVE  CallOK(c)'
<1>0. ver \in Nat /\ stat \in 0..ver /\ stat' \in Int /\ stat <= stat'
  BY ConstAssumption DEF TypeOK, ConstAssumption
<1>1. ReadOK(c)' /\ WriteOK(c)'
  BY DEF CallOK, ReadOK, WriteOK, BookedLines, Whole
<1>2. EditOK(c)'
  <2> DEFINE old == run[c].content
             p == pendingEdits[c]
  <2>0. SUFFICES ASSUME run[c].at = "editing", run[c].checked PROVE Editing(c)'
    BY DEF EditOK, CallOK, EditingBlind
  <2>1. Editing(c)
    BY <2>0 DEF CallOK, EditOK
  <2>2. Old(old)'
    BY <1>0, <2>1 DEF Editing, Old
  <2>3. ASSUME Lines(old) \subseteq Lines(file') PROVE Lines(old) \subseteq Lines(file)
    <3> SUFFICES ASSUME NEW i \in DOMAIN old PROVE old[i] \in Lines(file)
      BY DEF Lines
    <3>1. Old(old) /\ old[i] \in Lines(file')
      BY <2>1, <2>3 DEF Editing, Lines
    <3> QED
      BY <3>1, FreshShrinks
  <2>4. ASSUME p # None
        PROVE  /\ p = Booking(run[c].edits, p.preStat) /\ p.preStat \in 0..stat'
               /\ Lines(old) \subseteq Lines(file') =>
                    /\ stat' = p.preStat => file' = old
                    /\ (cov' # None /\ ~loose' /\ cov'.stat = p.preStat) =>
                         basis' = old
               /\ ~run[c].loose =>
                    \A r \in Exact(run[c].edits) : RegionShown(c, r)'
    <3>1. p = Booking(run[c].edits, p.preStat) /\ p.preStat \in 0..stat
      BY <2>1, <2>4 DEF Editing
    <3>2. p.preStat \in 0..stat'
      BY <1>0, <3>1
    <3>3. ASSUME Lines(old) \subseteq Lines(file'), stat' = p.preStat
          PROVE  file' = old
      <4>1. stat' # ver + 1
        BY <1>0, <3>1, <3>3
      <4>2. PICK t \in Lines(file) : t \notin Lines(file')
        BY <4>1
      <4>3. stat = p.preStat /\ Lines(old) \subseteq Lines(file)
        BY <2>3, <3>3, <4>1
      <4>4. file = old
        BY <2>1, <2>4, <4>3 DEF Editing
      <4> QED
        BY <3>3, <4>2, <4>4
    <3>4. ASSUME Lines(old) \subseteq Lines(file'),
                 cov' # None /\ ~loose' /\ cov'.stat = p.preStat
          PROVE  basis' = old
      <4>1. cov # None /\ ~loose /\ cov.stat = p.preStat
        BY <3>4
      <4>2. Lines(old) \subseteq Lines(file)
        BY <2>3, <3>4
      <4> QED
        BY <2>1, <2>4, <4>1, <4>2 DEF Editing
    <3>5. ASSUME ~run[c].loose, NEW r \in Exact(run[c].edits)
          PROVE  RegionShown(c, r)'
      <4>1. RegionShown(c, r)
        BY <2>1, <2>4, <3>5 DEF Editing
      <4>2. PICK i \in OrigSpan(r) :
               /\ i \in DOMAIN old
               /\ old[i] \in Lines(file) => old[i] \in context \cup run[c].unseen
        BY <4>1 DEF RegionShown
      <4>3. ASSUME old[i] \in Lines(file') PROVE old[i] \in context' \cup run[c].unseen
        <5>1. old[i] \in Lines(file)
          BY <2>1, <4>2, <4>3, FreshShrinks DEF Editing
        <5> QED
          BY <4>2, <4>3, <5>1
      <4> QED
        BY <4>2, <4>3 DEF RegionShown
    <3> QED
      BY <3>1, <3>2, <3>3, <3>4, <3>5
  <2>5. /\ run[c].edits \in EditShapes /\ Applies(run[c].edits, old)
        /\ Len(old) \in Nat
    BY <2>1 DEF Editing
  <2> QED
    BY <2>2, <2>4, <2>5 DEF Editing
<1>3. DoneOK(c)'
  <2> DEFINE r == run[c]
             p == pendingEdits[c]
  <2>0. SUFFICES ASSUME r.at = "edited", ~r.error, p \notin {None, Unchecked}
                 PROVE  Edited(c)'
    BY DEF DoneOK
  <2>1. Edited(c)
    BY <2>0 DEF CallOK, DoneOK
  <2>2. Old(r.content) /\ Old(r.content)'
    BY <1>0, <2>1 DEF Edited, Old
  <2>3. /\ p.kind = "write" => p = WriteBooking
        /\ p.kind = "edit" => /\ p.preStat \in 0..(stat' - 1)
                              /\ p.fuzzy \/ (p.lines # {} /\ p.first \in Int)
    <3>1. p.kind = "edit" => p.preStat \in 0..(stat - 1)
      BY <2>1 DEF Edited
    <3>2. p.kind = "edit" => p.preStat \in 0..(stat' - 1)
      BY <1>0, <3>1
    <3> QED
      BY <2>1, <3>2 DEF Edited
  <2>4. ASSUME NEW i \in DOMAIN r.content, r.content[i] \in Lines(file')
        PROVE  r.content[i] \in Lines(file)
    BY <2>2, <2>4, FreshShrinks
  <2>5. ASSUME ~r.raced, ~r.nl, ~p.fuzzy,
               NEW i \in p.lines \cap DOMAIN r.content, r.content[i] \in Lines(file')
        PROVE  r.content[i] \in context'
    <3>1. r.content[i] \in context
      BY <2>1, <2>4, <2>5 DEF Edited
    <3> QED
      BY <2>5, <3>1
  <2>6. ASSUME ~r.raced, ~r.nl, ~p.fuzzy, p.kind = "edit",
               cov' # None /\ ~loose' /\ cov'.stat = p.preStat,
               NEW i \in cov.lines \cap DOMAIN r.content, i < p.first,
               r.content[i] \in Lines(file')
        PROVE  r.content[i] \in context' \cup unseen'
    <3>1. cov # None /\ ~loose /\ cov.stat = p.preStat
      BY <2>6
    <3>2. r.content[i] \in context \cup unseen
      BY <2>1, <2>4, <2>6, <3>1 DEF Edited
    <3> QED
      BY <2>6, <3>2
  <2> QED
    BY <2>2, <2>3, <2>5, <2>6 DEF Edited
<1> QED
  BY <1>1, <1>2, <1>3 DEF CallOK

\* So does one when the entry is dropped, or kept and no less is shown.
LEMMA KeptCall ==
    ASSUME UNCHANGED <<file, stat, ver>>, context \subseteq context',
           \/ cov' = None
           \/ /\ UNCHANGED <<cov, loose, basis>>
              /\ context \cup unseen \subseteq context' \cup unseen',
           NEW c \in Calls, CallOK(c), run'[c] = run[c],
           pendingReads'[c] = pendingReads[c], pendingEdits'[c] = pendingEdits[c]
    PROVE  CallOK(c)'
<1>1. ReadOK(c)' /\ WriteOK(c)'
  BY DEF CallOK, ReadOK, WriteOK, BookedLines, Whole
<1>2. EditOK(c)'
  <2>0. SUFFICES ASSUME run[c].at = "editing", run[c].checked PROVE Editing(c)'
    BY DEF EditOK, CallOK, EditingBlind
  <2>1. Editing(c)
    BY <2>0 DEF CallOK, EditOK
  <2>2. CASE cov' = None
    BY <2>1, <2>2 DEF Editing, RegionShown, Old
  <2>3. CASE UNCHANGED <<cov, loose, basis>>
    BY <2>1, <2>3 DEF Editing, RegionShown, Old
  <2> QED
    BY <2>2, <2>3
<1>3. DoneOK(c)'
  <2>0. SUFFICES ASSUME run[c].at = "edited", ~run[c].error,
                        pendingEdits[c] \notin {None, Unchecked}
                 PROVE  Edited(c)'
    BY DEF DoneOK
  <2>1. Edited(c)
    BY <2>0 DEF CallOK, DoneOK
  <2>2. CASE cov' = None
    BY <2>1, <2>2 DEF Edited, Old
  <2>3. CASE /\ UNCHANGED <<cov, loose, basis>>
             /\ context \cup unseen \subseteq context' \cup unseen'
    BY <2>1, <2>3 DEF Edited, Old
  <2> QED
    BY <2>2, <2>3
<1> QED
  BY <1>1, <1>2, <1>3 DEF CallOK

\* And when the entry is certified against the file as it is.
LEMMA CertifiedCall ==
    ASSUME TypeOK, UNCHANGED <<file, stat, ver>>, context \subseteq context',
           cov' # None => basis' = file /\ (loose' \/ cov'.stat = stat),
           NEW c \in Calls, CallOK(c), run'[c] = run[c],
           pendingReads'[c] = pendingReads[c], pendingEdits'[c] = pendingEdits[c]
    PROVE  CallOK(c)'
<1>0. stat \in Nat
  BY ConstAssumption DEF TypeOK, ConstAssumption
<1>1. ReadOK(c)' /\ WriteOK(c)'
  BY DEF CallOK, ReadOK, WriteOK, BookedLines, Whole
<1>2. EditOK(c)'
  <2>0. SUFFICES ASSUME run[c].at = "editing", run[c].checked PROVE Editing(c)'
    BY DEF EditOK, CallOK, EditingBlind
  <2>1. Editing(c)
    BY <2>0 DEF CallOK, EditOK
  <2> QED
    BY <2>1 DEF Editing, RegionShown, Old
<1>3. DoneOK(c)'
  <2>0. SUFFICES ASSUME run[c].at = "edited", ~run[c].error,
                        pendingEdits[c] \notin {None, Unchecked}
                 PROVE  Edited(c)'
    BY DEF DoneOK
  <2>1. Edited(c)
    BY <2>0 DEF CallOK, DoneOK
  <2>2. ASSUME pendingEdits[c].kind = "edit", cov' # None, ~loose'
        PROVE  cov'.stat # pendingEdits[c].preStat
    BY <1>0, <2>1, <2>2 DEF Edited
  <2> QED
    BY <2>1, <2>2 DEF Edited, Old
<1> QED
  BY <1>1, <1>2, <1>3 DEF CallOK

\* An edit of the file names disjoint regions inside it.
LEMMA ShapeDisjoint ==
    ASSUME NEW E \in EditShapes, NEW f, Len(f) \in Nat, Applies(E, f)
    PROVE  Disjoint(E, Len(f))
<1>1. /\ E \in SUBSET Region /\ IsFiniteSet(E) /\ MaxLines \in Nat
  BY ConstAssumption DEF ConstAssumption
<1>2. ASSUME NEW r \in E
      PROVE  /\ r.from \in 1..Len(f) /\ r.to \in r.from..Len(f)
             /\ r.new \in 0..MaxLines
  <2>1. /\ r.from \in 1..MaxLines /\ r.to \in 1..MaxLines /\ r.new \in 0..MaxLines
    BY <1>1 DEF Region
  <2>2. r.from <= r.to /\ r.to <= Len(f)
    BY DEF Applies
  <2> QED
    BY <1>1, <2>1, <2>2
<1> QED
  BY <1>1, <1>2 DEF Applies, Disjoint

\* So does what the tool finds of it in the file as it is.
LEMMA LocatedDisjoint ==
    ASSUME FileOK, NEW E \in EditShapes, NEW old, Matches(E, old),
           Applies(Located(E, old), file)
    PROVE  Disjoint(Located(E, old), Len(file))
<1> DEFINE Place(r) == CHOOSE d \in (1 - r.from)..(Len(file) - r.to) :
                          \A i \in r.from..r.to : file[i + d] = old[i]
           Put(r) == [r EXCEPT !.from = @ + Place(r), !.to = @ + Place(r)]
           L == Located(E, old)
<1>0. /\ E \in SUBSET Region /\ IsFiniteSet(E) /\ MaxLines \in Nat
      /\ Len(file) \in Nat
  BY FileLines, ConstAssumption DEF ConstAssumption
<1>1. L = {Put(r) : r \in E}
  BY DEF Located
<1>2. IsFiniteSet(L)
  <2> DEFINE h == [r \in E |-> Put(r)]
  <2>1. h \in Surjection(E, L)
    BY <1>1 DEF Surjection
  <2> QED
    BY <1>0, <2>1, FS_Surjection
<1>3. ASSUME NEW r \in E
      PROVE  /\ Put(r).from \in 1..Len(file) /\ Put(r).to \in Int
             /\ Put(r).new \in 0..MaxLines
  <2>1. /\ r \in Region /\ r.from \in 1..MaxLines /\ r.to \in 1..MaxLines
        /\ r.new \in 0..MaxLines
    BY <1>0 DEF Region
  <2>2. Place(r) \in (1 - r.from)..(Len(file) - r.to)
    BY DEF Matches
  <2> HIDE DEF Place
  <2>3. /\ Put(r).from = r.from + Place(r) /\ Put(r).to = r.to + Place(r)
        /\ Put(r).new = r.new
    BY <2>1 DEF Region
  <2>4. Put(r).from <= Put(r).to /\ Put(r).to <= Len(file)
    BY <1>1 DEF Applies
  <2> QED
    BY <1>0, <2>1, <2>2, <2>3, <2>4
<1>4. ASSUME NEW q \in L
      PROVE  /\ q.from \in 1..Len(file) /\ q.to \in q.from..Len(file)
             /\ q.new \in 0..MaxLines
  <2>1. PICK r \in E : q = Put(r)
    BY <1>1
  <2>2. q.from \in 1..Len(file) /\ q.to \in Int /\ q.new \in 0..MaxLines
    BY <1>3, <2>1
  <2>3. q.from <= q.to /\ q.to <= Len(file)
    BY DEF Applies
  <2> QED
    BY <1>0, <2>2, <2>3
<1> QED
  BY <1>0, <1>2, <1>4 DEF Applies, Disjoint

\* In the file it was admitted on, an edit is found where it was admitted.
LEMMA LocatedSame ==
    ASSUME FileOK, NEW E \in EditShapes, Applies(E, file)
    PROVE  Located(E, file) = E
<1> DEFINE Place(r) == CHOOSE d \in (1 - r.from)..(Len(file) - r.to) :
                          \A i \in r.from..r.to : file[i + d] = file[i]
           Put(r) == [r EXCEPT !.from = @ + Place(r), !.to = @ + Place(r)]
<1>0. E \in SUBSET Region /\ Len(file) \in Nat /\ DOMAIN file = 1..Len(file)
  BY FileLines, ConstAssumption DEF ConstAssumption
<1>1. ASSUME NEW r \in E PROVE Place(r) = 0
  <2>1. /\ r.from \in Nat /\ r.to \in Nat /\ r.from >= 1
    BY <1>0 DEF Region
  <2>2. r.from <= r.to /\ r.to <= Len(file)
    BY DEF Applies
  <2>3. 0 \in (1 - r.from)..(Len(file) - r.to)
    BY <1>0, <2>1, <2>2
  <2>4. \A i \in r.from..r.to : file[i + 0] = file[i]
    BY <2>1
  <2>5. ASSUME NEW d \in (1 - r.from)..(Len(file) - r.to),
               \A i \in r.from..r.to : file[i + d] = file[i]
        PROVE  d = 0
    <3>1. file[r.from + d] = file[r.from]
      BY <2>1, <2>2, <2>5
    <3>2. r.from + d \in 1..Len(file) /\ r.from \in 1..Len(file)
      BY <1>0, <2>1, <2>2
    <3>3. r.from + d = r.from
      BY <1>0, <3>1, <3>2 DEF FileOK
    <3> QED
      BY <2>1, <3>3
  <2> QED
    BY <2>3, <2>4, <2>5
<1> HIDE DEF Place
<1>2. ASSUME NEW r \in E PROVE Put(r) = r
  <2>1. r \in Region /\ r.from \in Int /\ r.to \in Int
    BY <1>0 DEF Region
  <2>2. r.from + Place(r) = r.from /\ r.to + Place(r) = r.to
    BY <1>1, <2>1
  <2> QED
    BY <2>1, <2>2 DEF Region
<1>3. Located(E, file) = {Put(r) : r \in E}
  BY DEF Located, Place
<1> QED
  BY <1>2, <1>3

\* What the gate books of an edit that it matched exactly: its new lines, from
\* the first region on.
LEMMA BookingShape ==
    ASSUME NEW E \in EditShapes, NEW f, Len(f) \in Nat, Applies(E, f), NEW st,
           ~Booking(E, st).fuzzy
    PROVE  LET p == Booking(E, st)
           IN  /\ p.lines = UNION {NewSpan(E, r) : r \in E} /\ p.lines # {}
               /\ p.first \in Int
               /\ \E r \in E : r.from = p.first /\ \A q \in E : r.from <= q.from
<1> DEFINE F == {r.from : r \in E}
<1>0. Disjoint(E, Len(f)) /\ E # {} /\ MaxLines \in Nat
  BY ShapeDisjoint, ConstAssumption DEF Applies, ConstAssumption
<1>1. Exact(E) = E
  BY DEF Booking
<1>2. F \subseteq Nat /\ F # {}
  BY <1>0 DEF Disjoint
<1>3. PICK m \in F : \A k \in F : m <= k
  BY <1>2, LeastNat
<1>4. Min(F) \in F /\ \A k \in F : Min(F) <= k
  BY <1>3 DEF Min
<1> HIDE DEF F
<1>5. Booking(E, st).first = Min(F)
  BY <1>0, <1>1 DEF Booking, F
<1>6. Booking(E, st).lines = UNION {NewSpan(E, r) : r \in E}
  BY <1>1 DEF Booking
<1>7. PICK r \in E : r.from = Min(F)
  BY <1>4 DEF F
<1>8. \A q \in E : r.from <= q.from
  BY <1>4, <1>7 DEF F
<1>9. Moved(E, r.from) \in NewSpan(E, r)
  <2>1. r.from \in Int /\ r.new \in Nat
    BY <1>0 DEF Disjoint
  <2>2. Moved(E, r.from) \in Int
    BY <1>0, <2>1, MovedInt
  <2>3. r.new + Extra(r) >= 1 /\ r.new + Extra(r) \in Int
    BY <2>1 DEF Applies, Extra
  <2>4. NewSpan(E, r) = Moved(E, r.from)..(Moved(E, r.from) + r.new + Extra(r) - 1)
    BY DEF NewSpan
  <2>5. Extra(r) \in Int
    BY DEF Extra
  <2> QED
    BY <2>1, <2>2, <2>3, <2>4, <2>5
<1>10. Booking(E, st).lines # {}
  BY <1>6, <1>9
<1>11. Booking(E, st).first \in Int
  <2>1. Min(F) \in Nat
    BY <1>2, <1>4
  <2> QED
    BY <1>5, <2>1
<1> QED
  BY <1>5, <1>6, <1>7, <1>8, <1>10, <1>11

\* An edit that the tool applied to the content it was admitted on leaves the
\* lines it was said to write, and in front of them those that were there.
LEMMA EditDone ==
    ASSUME TypeOK, FileOK, BasisShown, FileOK', NEW c \in Calls, Editing(c),
           pendingEdits[c] # None, run[c].checked, EditExec(c, FALSE)
    PROVE  Edited(c)'
<1> DEFINE E == run[c].edits
           old == run[c].content
           L == Located(E, old)
           p == pendingEdits[c]
<1>0. /\ Len(file) \in Nat /\ DOMAIN file = 1..Len(file)
      /\ ver \in Nat /\ stat \in 0..ver /\ c \in DOMAIN run
  BY FileLines, ConstAssumption DEF TypeOK, ConstAssumption
<1>1. /\ E \in EditShapes /\ Applies(E, old) /\ p = Booking(E, p.preStat)
      /\ p.preStat \in 0..stat /\ Len(old) \in Nat
  BY DEF Editing
<1>2. /\ file' = Overlay(file, L, ver + 1) /\ stat' = ver + 1
      /\ context' = (context \cup (Lines(file') \ Lines(file))) \cap Lines(file')
      /\ unseen' = unseen \cap Lines(file')
      /\ run' = [run EXCEPT ![c] = Done(old # file, \E x \in Exact(E) : x.nl, file')]
      /\ UNCHANGED <<cov, pendingReads, pendingEdits, basis, loose>>
  BY DEF EditExec, Changes
<1>3. /\ run'[c].content = file' /\ run'[c].raced = (old # file)
      /\ run'[c].nl = \E x \in Exact(E) : x.nl
  BY <1>0, <1>2 DEF Done
<1>4. Old(run[c].content)'
  BY <1>3 DEF FileOK, Old
<1>5. /\ p.kind = "edit"
      /\ p.preStat \in 0..(stat' - 1)
  BY <1>0, <1>1, <1>2 DEF Booking
<1>6. p.fuzzy \/ (p.lines # {} /\ p.first \in Int)
  <2>1. SUFFICES ASSUME ~p.fuzzy PROVE p.lines # {} /\ p.first \in Int
    OBVIOUS
  <2> QED
    BY <1>1, <2>1, BookingShape
<1>7. ASSUME ~run'[c].raced, ~run'[c].nl, ~p.fuzzy
      PROVE  /\ \A i \in p.lines \cap DOMAIN run'[c].content :
                    run'[c].content[i] \in Lines(file') => run'[c].content[i] \in context'
             /\ (cov' # None /\ ~loose' /\ cov'.stat = p.preStat) =>
                    \A i \in cov'.lines \cap DOMAIN run'[c].content :
                       (i < p.first /\ run'[c].content[i] \in Lines(file')) =>
                          run'[c].content[i] \in context' \cup unseen'
  <2>1. old = file /\ L = E
    BY <1>1, <1>3, <1>7, LocatedSame
  <2>2. Disjoint(E, Len(file))
    BY <1>0, <1>1, <2>1, ShapeDisjoint
  <2>3. /\ p.lines = UNION {NewSpan(E, x) : x \in E} /\ p.first \in Int
        /\ \E x \in E : x.from = p.first /\ \A q \in E : x.from <= q.from
    BY <1>0, <1>1, <1>7, <2>1, BookingShape
  <2>4. ASSUME NEW i \in p.lines \cap DOMAIN file' PROVE file'[i] \in context'
    <3>1. PICK x \in E : i \in NewSpan(E, x)
      BY <2>3, <2>4
    <3>2. Extra(x) = 0
      <4>1. Exact(E) = E
        <5>1. ~Booking(E, p.preStat).fuzzy
          BY <1>1, <1>7
        <5> QED
          BY <5>1 DEF Booking
      <4> QED
        BY <1>3, <1>7, <4>1 DEF Extra
    <3>3. x.from \in Int /\ x.new \in Int /\ Moved(E, x.from) \in Int
      <4>1. x.from \in Int /\ x.new \in Int
        BY <2>2, ConstAssumption DEF Disjoint, ConstAssumption
      <4> QED
        BY <2>2, <4>1, MovedInt
    <3>4. i \in Moved(E, x.from)..(Moved(E, x.from) + x.new - 1)
      BY <3>1, <3>2, <3>3 DEF NewSpan
    <3>5. i \in DOMAIN Overlay(file, E, ver + 1)
      BY <1>2, <2>1, <2>4
    <3>6. file'[i] = Token(ver + 1, i)
      BY <1>0, <1>2, <2>1, <2>2, <3>4, <3>5, OverlayNew
    <3>7. file'[i] \notin Lines(file)
      BY <1>0, <3>6 DEF FileOK, Old, Lines, Token
    <3>8. file'[i] \in Lines(file')
      BY <2>4 DEF Lines
    <3> QED
      BY <1>2, <3>7, <3>8
  <2>5. ASSUME cov # None, ~loose, cov.stat = p.preStat,
               NEW i \in cov.lines \cap DOMAIN file', i < p.first
        PROVE  file'[i] \in context' \cup unseen'
    <3>1. PICK x \in E : x.from = p.first /\ \A q \in E : x.from <= q.from
      BY <2>3
    <3>2. i \in DOMAIN Overlay(file, E, ver + 1) /\ i < x.from
      BY <1>2, <2>1, <2>5, <3>1
    <3>3. i \in DOMAIN file /\ file'[i] = file[i]
      <4>1. i \in DOMAIN file /\ Overlay(file, E, ver + 1)[i] = file[i]
        BY <1>0, <2>2, <3>1, <3>2, OverlayKeeps
      <4> QED
        BY <1>2, <2>1, <4>1
    <3>4. basis = file
      BY <1>1, <2>1, <2>5 DEF Editing
    <3>5. file[i] \in context \cup unseen
      BY <2>5, <3>3, <3>4 DEF BasisShown, Lines
    <3>6. file'[i] \in Lines(file')
      BY <2>5 DEF Lines
    <3> QED
      BY <1>2, <3>3, <3>5, <3>6
  <2> QED
    BY <1>2, <1>3, <2>4, <2>5
<1> QED
  BY <1>2, <1>3, <1>4, <1>5, <1>6, <1>7 DEF Edited

\* A call that is idle, or whose tool failed, owes the invariant nothing.
LEMMA QuietCall ==
    ASSUME NEW c, run'[c] = Idle \/ run'[c] = Failed
    PROVE  CallOK(c)'
BY DEF Idle, Failed, CallOK, ReadOK, EditOK, WriteOK, DoneOK

\* The gate starts with a fresh file and nothing to promise.
LEMMA ShownInit == Init => Shown
<1> SUFFICES ASSUME Init PROVE Shown
  OBVIOUS
<1>0. /\ InitLines \in Nat /\ InitLines <= MaxLines /\ 0 \in 0..MaxVer /\ 0 \in 0..0
  BY ConstAssumption DEF ConstAssumption
<1> DEFINE n == IF gone THEN 0 ELSE InitLines
<1>1. file = [i \in 1..n |-> Token(0, i)] /\ ver = 0 /\ n \in Nat /\ n <= MaxLines
  BY <1>0, ConstAssumption DEF Init, ConstAssumption
<1> HIDE DEF n
<1>2. \A i \in 1..n : file[i] \in (0..MaxVer) \X Int /\ file[i] \in (0..0) \X Int
  BY <1>0, <1>1 DEF Token
<1>3. file \in [1..n -> (0..MaxVer) \X Int]
  BY <1>1, <1>2
<1>4. file \in Seq((0..MaxVer) \X Int)
  BY <1>1, <1>3, SeqDef
<1>5. Len(file) = n /\ DOMAIN file = 1..n
  BY <1>1
<1>6. \A i, j \in DOMAIN file : file[i] = file[j] => i = j
  BY <1>1, <1>5, TokenPosition
<1>7. FileOK
  BY <1>1, <1>2, <1>4, <1>5, <1>6 DEF FileOK, Old
<1>8. BasisShown
  BY DEF Init, BasisShown
<1>9. \A c \in Calls : CallOK(c)
  BY DEF Init, Idle, CallOK, ReadOK, EditOK, WriteOK, DoneOK
<1> QED
  BY <1>7, <1>8, <1>9 DEF Shown

\* A read that is admitted keeps the entry or drops it.
LEMMA ReadCallShown ==
    ASSUME IInv, Shown, NEW c \in Calls, NEW w \in Windows, ReadCall(c, w)
    PROVE  Shown'
<1>0. /\ UNCHANGED <<file, stat, ver, pendingEdits, context>>
      /\ cov' = None \/ UNCHANGED <<cov, loose, basis, unseen>>
      /\ pendingReads' = [pendingReads EXCEPT ![c] = w]
      /\ run' = [run EXCEPT ![c] = [at |-> "reading", win |-> w]]
  BY DEF ReadCall, IInv, TypeOK
<1>1. FileOK'
  BY <1>0 DEF Shown, FileOK, Old
<1>2. BasisShown'
  BY <1>0 DEF Shown, BasisShown, Old
<1>3. ASSUME NEW d \in Calls, d # c PROVE CallOK(d)'
  BY <1>0, <1>3, KeptCall DEF Shown
<1>4. CallOK(c)'
  <2>1. run'[c] = [at |-> "reading", win |-> w] /\ pendingReads'[c] = w
    BY <1>0 DEF IInv, TypeOK
  <2> QED
    BY <2>1 DEF CallOK, ReadOK, EditOK, WriteOK, DoneOK
<1> QED
  BY <1>1, <1>2, <1>3, <1>4 DEF Shown

\* The text of an uncompacted read shows every line that is counted for it.
LEMMA ReadExecShown ==
    ASSUME IInv, Shown, NEW c \in Calls, ReadExec(c)
    PROVE  Shown'
<1>0. /\ UNCHANGED <<file, stat, ver, cov, pendingReads, pendingEdits, context,
                     unseen, basis, loose>>
      /\ run' = [run EXCEPT ![c] = run'[c]]
  BY DEF ReadExec
<1>1. FileOK'
  BY <1>0 DEF Shown, FileOK, Old
<1>2. BasisShown'
  BY <1>0 DEF Shown, BasisShown, Old
<1>3. ASSUME NEW d \in Calls, d # c PROVE CallOK(d)'
  BY <1>0, <1>3, KeptCall DEF Shown, IInv, TypeOK
<1>4. CallOK(c)'
  <2> DEFINE w == run[c].win
  <2>1. run[c].at = "reading" /\ w \in Windows /\ pendingReads[c] \in {None, w}
    BY DEF ReadExec, Shown, CallOK, ReadOK
  <2>2. CASE run'[c] = ReadFailed
    BY <2>2 DEF ReadFailed, CallOK, ReadOK, EditOK, WriteOK, DoneOK
  <2>3. CASE \E text \in Texts(w, file) :
               run'[c] = [at |-> "read", error |-> FALSE,
                          shown |-> {file[i] : i \in text.shown},
                          lines |-> text.lines, hides |-> text.hides,
                          cut |-> Truncated(w, file), content |-> file]
    <3>1. PICK text \in Texts(w, file) :
               run'[c] = [at |-> "read", error |-> FALSE,
                          shown |-> {file[i] : i \in text.shown},
                          lines |-> text.lines, hides |-> text.hides,
                          cut |-> Truncated(w, file), content |-> file]
      BY <2>3
    <3>2. ASSUME pendingReads[c] # None, ~text.hides,
                 NEW i \in BookedLines(run'[c], pendingReads[c]) \cap DOMAIN file
          PROVE  i \in text.shown
      <4>1. text = Verbatim(w, file) /\ pendingReads[c] = w
        BY <2>1, <3>2 DEF Texts, Compacted
      <4>2. /\ text.shown = w.start..(w.start + Returned(w, file) - 1)
            /\ text.lines = Returned(w, file)
        BY <4>1 DEF Verbatim
      <4>3. CASE Whole(run'[c], w)
        <5>1. w = WholeFile /\ ~Truncated(w, file)
          BY <3>1, <4>3 DEF Whole
        <5>2. /\ Len(file) \in Nat /\ DOMAIN file = 1..Len(file)
              /\ Len(file) <= MaxLines /\ MaxLines \in Nat /\ ReadMax \in Nat
          BY FileLines, ConstAssumption DEF Shown, FileOK, ConstAssumption
        <5>3. w.start = 1 /\ w.end = MaxLines + 1
          BY <5>1 DEF WholeFile, Top
        <5>4. Selected(w, file) = Len(file)
          <6>1. ~(w.end < Len(file))
            BY <5>2, <5>3
          <6>2. Selected(w, file) = Len(file) - 1 + 1
            BY <5>3, <6>1, Zenon DEF Selected
          <6> QED
            BY <5>2, <6>2
        <5>5. Returned(w, file) = Len(file)
          BY <5>1, <5>2, <5>4 DEF Truncated, Returned
        <5> QED
          BY <3>2, <4>2, <5>2, <5>3, <5>5
      <4>4. CASE ~Whole(run'[c], w)
        BY <3>1, <3>2, <4>1, <4>2, <4>4 DEF BookedLines
      <4> QED
        BY <4>3, <4>4
    <3>3. ReadOK(c)'
      BY <1>0, <3>1, <3>2 DEF ReadOK
    <3>4. run'[c].at = "read"
      BY <3>1
    <3> QED
      BY <3>3, <3>4 DEF CallOK, EditOK, WriteOK, DoneOK
  <2> QED
    BY <2>2, <2>3 DEF ReadExec, IInv, TypeOK
<1> QED
  BY <1>1, <1>2, <1>3, <1>4 DEF Shown

\* What tool_result books of a read was shown, or is named as not shown.
LEMMA ReadResultShown ==
    ASSUME IInv, Shown, NEW c \in Calls, ReadResult(c)
    PROVE  Shown'
<1> DEFINE r == run[c]
           w == pendingReads[c]
           lines == BookedLines(r, w)
           booked == w # None /\ ~r.error /\ r.lines > 0
           claimed == {file[i] : i \in lines \cap DOMAIN file}
           merged == ~Whole(r, w) /\ cov # None /\ (loose \/ cov.stat # stat)
<1>0. /\ UNCHANGED <<file, stat, ver, pendingEdits>>
      /\ r.at = "read"
      /\ context' = IF r.error THEN context ELSE context \cup (r.shown \cap Lines(file))
      /\ unseen' = (IF booked /\ r.hides THEN unseen \cup claimed ELSE unseen) \ context'
      /\ cov' = IF booked THEN Certify(cov, lines, Snapshot) ELSE cov
      /\ basis' = IF booked THEN file ELSE basis
      /\ loose' = IF booked THEN gone \/ r.content # file \/ merged ELSE loose
      /\ pendingReads' = [pendingReads EXCEPT ![c] = None]
      /\ run' = [run EXCEPT ![c] = Idle]
  BY DEF ReadResult
<1>1. FileOK'
  BY <1>0 DEF Shown, FileOK, Old
<1>2. context \subseteq context' /\ context \cup unseen \subseteq context' \cup unseen'
  BY <1>0
<1>3. CASE ~booked
  <2>1. UNCHANGED <<cov, basis, loose>>
    BY <1>0, <1>3
  <2>2. BasisShown'
    BY <1>0, <1>2, <2>1 DEF Shown, BasisShown, Old
  <2>3. ASSUME NEW d \in Calls, d # c PROVE CallOK(d)'
    BY <1>0, <1>2, <2>1, <2>3, KeptCall DEF Shown
  <2>4. CallOK(c)'
    BY <1>0, QuietCall DEF IInv, TypeOK
  <2> QED
    BY <1>1, <2>2, <2>3, <2>4 DEF Shown
<1>4. CASE booked
  <2>1. /\ basis' = file /\ (loose' \/ cov'.stat = stat)
        /\ cov'.lines = lines \cup (IF cov = None THEN {} ELSE cov.lines)
    <3>1. /\ basis' = file
          /\ cov'.lines = lines \cup (IF cov = None THEN {} ELSE cov.lines)
      BY <1>0, <1>4 DEF Certify
    <3>2. CASE gone
      BY <1>0, <1>4, <3>1, <3>2
    <3>3. CASE ~gone
      <4>1. Snapshot = stat /\ stat # None
        BY <3>3, SnapshotStat DEF IInv
      <4>2. cov'.stat = stat
        BY <1>0, <1>4, <4>1 DEF Certify
      <4> QED
        BY <3>1, <4>2
    <3> QED
      BY <3>2, <3>3
  <2>2. ASSUME ~loose', NEW i \in cov'.lines \cap DOMAIN file
        PROVE  file[i] \in context' \cup unseen'
    <3>1. r.content = file /\ ~merged
      BY <1>0, <1>4, <2>2
    <3>2. CASE i \in lines
      <4>1. CASE r.hides
        BY <1>0, <1>4, <2>2, <3>2, <4>1
      <4>2. CASE ~r.hides
        <5>1. file[i] \in r.shown
          BY <1>0, <1>4, <2>2, <3>1, <3>2, <4>2 DEF Shown, CallOK, ReadOK
        <5>2. file[i] \in Lines(file)
          BY <2>2 DEF Lines
        <5> QED
          BY <1>0, <1>4, <5>1, <5>2
      <4> QED
        BY <4>1, <4>2
    <3>3. CASE i \notin lines
      <4>1. cov # None /\ i \in cov.lines
        BY <2>1, <2>2, <3>3
      <4>2. ~Whole(r, w)
        <5>1. SUFFICES ASSUME Whole(r, w) PROVE FALSE
          OBVIOUS
        <5>2. lines = 1..(MaxLines + 1)
          BY <5>1 DEF Whole, BookedLines, WholeFile, Span, Top
        <5>3. /\ Len(file) \in Nat /\ DOMAIN file = 1..Len(file)
              /\ Len(file) <= MaxLines /\ MaxLines \in Nat
          BY FileLines, ConstAssumption DEF Shown, FileOK, ConstAssumption
        <5> QED
          BY <2>2, <3>3, <5>2, <5>3
      <4>3. ~loose /\ cov.stat = stat
        BY <3>1, <4>1, <4>2
      <4>4. file = basis
        BY <4>1, <4>3 DEF IInv, StatBindsContent
      <4>5. file[i] \in context \cup unseen
        BY <2>2, <4>1, <4>3, <4>4 DEF Shown, BasisShown, Lines
      <4> QED
        BY <1>2, <4>5
    <3> QED
      BY <3>2, <3>3
  <2>3. BasisShown'
    <3>1. Old(file)' /\ stat # None
      BY <1>1, SnapshotStat DEF FileOK, IInv
    <3> QED
      BY <1>0, <2>1, <2>2, <3>1 DEF BasisShown, Old
  <2>4. ASSUME NEW d \in Calls, d # c PROVE CallOK(d)'
    BY <1>0, <1>2, <2>1, <2>4, CertifiedCall DEF Shown, IInv
  <2>5. CallOK(c)'
    BY <1>0, QuietCall DEF IInv, TypeOK
  <2> QED
    BY <1>1, <2>3, <2>4, <2>5 DEF Shown
<1> QED
  BY <1>3, <1>4

\* An admitted edit is admitted on the file as it is.
LEMMA EditCallShown ==
    ASSUME IInv, Shown, NEW c \in Calls, NEW E \in EditShapes, EditCall(c, E)
    PROVE  Shown'
<1>0. /\ UNCHANGED <<file, stat, ver, cov, pendingReads, context, unseen, basis,
                     loose>>
      /\ Applies(E, file) /\ EditAdmitted(E)
      /\ pendingEdits' = [pendingEdits EXCEPT ![c] = Booking(E, stat)]
      /\ run' = [run EXCEPT ![c] =
                    [at |-> "editing", edits |-> E, content |-> file, checked |-> TRUE,
                     loose |-> loose, unseen |-> unseen]]
  BY DEF EditCall
<1>1. FileOK'
  BY <1>0 DEF Shown, FileOK, Old
<1>2. BasisShown'
  BY <1>0 DEF Shown, BasisShown, Old
<1>3. ASSUME NEW d \in Calls, d # c PROVE CallOK(d)'
  BY <1>0, <1>3, KeptCall DEF Shown
<1>4. CallOK(c)'
  <2>1. /\ run'[c] = [at |-> "editing", edits |-> E, content |-> file, checked |-> TRUE,
                      loose |-> loose, unseen |-> unseen]
        /\ pendingEdits'[c] = Booking(E, stat)
    BY <1>0 DEF IInv, TypeOK
  <2>2. Booking(E, stat).preStat = stat /\ stat \in 0..stat
    BY ConstAssumption DEF Booking, IInv, TypeOK, ConstAssumption
  <2>3. Old(file)' /\ Len(file) \in Nat
    BY <1>1, FileLines DEF FileOK, Shown
  <2>4. (cov # None /\ ~loose /\ cov.stat = stat) => basis = file
    BY DEF IInv, StatBindsContent
  <2>6. ASSUME ~loose, NEW r \in Exact(E) PROVE RegionShown(c, r)'
    <3>1. r \in Region /\ r \in E /\ Len(file) \in Nat /\ DOMAIN file = 1..Len(file)
      BY <2>6, FileLines, ConstAssumption DEF Exact, Shown, ConstAssumption
    <3>2. OrigSpan(r) \subseteq DOMAIN file
      <4>1. /\ r.from \in 1..MaxLines /\ r.to \in 1..MaxLines /\ MaxLines \in Nat
            /\ r.to <= Len(file) /\ (r.nl => r.to < Len(file))
        BY <1>0, <3>1, ConstAssumption DEF Applies, Region, ConstAssumption
      <4>2. r.to + Extra(r) <= Len(file) /\ r.to + Extra(r) \in Int
        BY <3>1, <4>1 DEF Extra
      <4> QED
        BY <3>1, <4>1, <4>2 DEF OrigSpan
    <3>3. cov # None /\ (gone \/ cov.stat = None \/ cov.stat = stat)
      BY <1>0 DEF EditAdmitted, StaleStat, Unread
    <3>4. PICK i \in OrigSpan(r) : i \in cov.lines
      BY <1>0, <2>6 DEF EditAdmitted, Unread
    <3>5. i \in DOMAIN file
      BY <3>2, <3>4
    <3>7. cov.stat = stat
      <4>1. ~gone
        BY <3>1, <3>5 DEF IInv, TypeOK
      <4> QED
        BY <2>6, <3>3, <4>1 DEF Shown, BasisShown
    <3>6. file[i] \in context \cup unseen
      BY <2>6, <3>3, <3>4, <3>5, <3>7 DEF IInv, StatBindsContent, Shown, BasisShown, Lines
    <3> QED
      BY <1>0, <2>1, <3>4, <3>5, <3>6 DEF RegionShown
  <2>5. Editing(c)'
    BY <1>0, <2>1, <2>2, <2>3, <2>4, <2>6 DEF Editing, Old
  <2> QED
    BY <2>1, <2>5 DEF CallOK, ReadOK, EditOK, WriteOK, DoneOK
<1> QED
  BY <1>1, <1>2, <1>3, <1>4 DEF Shown

\* An edit brings new lines and takes old ones; the caller's own are shown.
LEMMA EditExecShown ==
    ASSUME IInv, Shown, NEW c \in Calls, NEW error \in BOOLEAN, EditExec(c, error)
    PROVE  Shown'
<1> DEFINE E == run[c].edits
           L == IF run[c].checked THEN Located(E, run[c].content) ELSE E
           f == Overlay(file, L, ver + 1)
<1>0. /\ run[c].at = "editing" /\ Applies(L, file)
      /\ run[c].checked => Matches(E, run[c].content)
      /\ ver < MaxVer /\ Fits(f) /\ file' = f /\ ver' = ver + 1 /\ stat' = ver + 1
      /\ context' = (context \cup (Lines(f) \ Lines(file))) \cap Lines(f)
      /\ unseen' = unseen \cap Lines(f)
      /\ run' = [run EXCEPT ![c] =
                    IF error THEN Failed
                    ELSE Done(run[c].content # file, \E x \in Exact(E) : x.nl, f)]
      /\ UNCHANGED <<cov, pendingReads, pendingEdits, basis, loose>>
  BY DEF EditExec, Changes
<1>1. IF run[c].checked THEN Editing(c) ELSE EditingBlind(c)
  BY <1>0 DEF Shown, CallOK, EditOK
<1>2. Disjoint(L, Len(file))
  <2>1. CASE run[c].checked
    BY <1>0, <1>1, <2>1, LocatedDisjoint DEF Shown, Editing
  <2>2. CASE ~run[c].checked
    <3>1. L = E /\ E \in EditShapes
      BY <1>0, <1>1, <2>2 DEF EditingBlind, Applies
    <3> QED
      BY <1>0, <3>1, FileLines, ShapeDisjoint DEF Shown
  <2> QED
    BY <2>1, <2>2
<1>3. Fresh(file')
  BY <1>0, <1>2, OverlayFresh DEF IInv, Shown
<1>4. FileOK'
  BY <1>0, <1>3, FreshFile DEF IInv, Shown
<1> HIDE DEF f
<1>5. /\ context \cap Lines(file') \subseteq context'
      /\ (context \cup unseen) \cap Lines(file') \subseteq context' \cup unseen'
  BY <1>0
<1>6. BasisShown'
  BY <1>0, <1>3, <1>5, ChangeBasis DEF IInv, Shown
<1>7. ASSUME NEW d \in Calls, d # c PROVE CallOK(d)'
  <2>1. /\ run'[d] = run[d] /\ pendingReads'[d] = pendingReads[d]
        /\ pendingEdits'[d] = pendingEdits[d] /\ CallOK(d)
        /\ UNCHANGED <<cov, basis, loose>>
    BY <1>0, <1>7 DEF Shown
  <2> QED
    BY <1>0, <1>3, <1>5, <2>1, ChangeCall DEF IInv, Shown
<1>8. CallOK(c)'
  <2>1. CASE error
    BY <1>0, <2>1, QuietCall DEF IInv, TypeOK
  <2>2. CASE ~error
    <3>1. run'[c].at = "edited"
      BY <1>0, <2>2 DEF IInv, TypeOK, Done
    <3>2. CASE pendingEdits[c] \in {None, Unchecked}
      BY <1>0, <3>1, <3>2 DEF CallOK, ReadOK, EditOK, WriteOK, DoneOK
    <3>3. CASE pendingEdits[c] \notin {None, Unchecked}
      <4>1. EditExec(c, FALSE) /\ run[c].checked /\ Editing(c)
        BY <1>1, <2>2, <3>3 DEF EditingBlind
      <4>2. Edited(c)'
        BY <1>4, <3>3, <4>1, EditDone DEF IInv, Shown
      <4> QED
        BY <3>1, <4>2 DEF CallOK, ReadOK, EditOK, WriteOK, DoneOK
    <3> QED
      BY <3>2, <3>3
  <2> QED
    BY <2>1, <2>2
<1> QED
  BY <1>4, <1>6, <1>7, <1>8 DEF Shown

\* An edit that nothing was checked for is booked as one that covers nothing.
LEMMA EditUncheckedShown ==
    ASSUME IInv, Shown, NEW c \in Calls, NEW E \in EditShapes \cup {{}},
           EditUnchecked(c, E)
    PROVE  Shown'
<1>0. /\ UNCHANGED <<file, stat, ver, cov, pendingReads, context, unseen, basis,
                     loose>>
      /\ pendingEdits' = [pendingEdits EXCEPT ![c] = Unchecked]
      /\ run' = [run EXCEPT ![c] =
                    [at |-> "editing", edits |-> E, content |-> <<>>, checked |-> FALSE,
                     loose |-> TRUE, unseen |-> {}]]
  BY DEF EditUnchecked
<1>1. FileOK' /\ BasisShown'
  BY <1>0 DEF Shown, FileOK, BasisShown, Old
<1>2. ASSUME NEW d \in Calls, d # c PROVE CallOK(d)'
  BY <1>0, <1>2, KeptCall DEF Shown
<1>3. CallOK(c)'
  <2>1. /\ run'[c] = [at |-> "editing", edits |-> E, content |-> <<>>, checked |-> FALSE,
                      loose |-> TRUE, unseen |-> {}]
        /\ pendingEdits'[c] = Unchecked
    BY <1>0 DEF IInv, TypeOK
  <2> QED
    BY <2>1 DEF CallOK, ReadOK, EditOK, EditingBlind, WriteOK, DoneOK
<1> QED
  BY <1>1, <1>2, <1>3 DEF Shown

\* A tool that fails leaves everything as it is.
LEMMA MutationFailsShown ==
    ASSUME IInv, Shown, NEW c \in Calls, MutationFails(c)
    PROVE  Shown'
<1>0. /\ UNCHANGED <<file, stat, ver, cov, pendingReads, pendingEdits, context,
                     unseen, basis, loose>>
      /\ run' = [run EXCEPT ![c] = Failed]
  BY DEF MutationFails
<1>1. FileOK' /\ BasisShown'
  BY <1>0 DEF Shown, FileOK, BasisShown, Old
<1>2. ASSUME NEW d \in Calls, d # c PROVE CallOK(d)'
  BY <1>0, <1>2, KeptCall DEF Shown
<1>3. CallOK(c)'
  BY <1>0, QuietCall DEF IInv, TypeOK
<1> QED
  BY <1>1, <1>2, <1>3 DEF Shown

\* What a result that is not loose leaves of the entry is what the edit was said
\* to write and, when the entry is still the one the edit was admitted on, the
\* lines before the first region.
LEMMA AfterMutationLines ==
    ASSUME IInv, NEW p, p.kind = "write" => p = WriteBooking,
           p.kind = "edit" => p.preStat \in 0..(stat - 1)
                              /\ (p.fuzzy \/ (p.lines # {} /\ p.first \in Int)),
           p.kind \in {"edit", "write"}, ~(p.fuzzy /\ p.lines # {}),
           AfterMutation(p) # None
    PROVE  LET new == AfterMutation(p)
           IN  /\ ~p.fuzzy /\ (gone \/ new.stat = stat)
               /\ \A i \in new.lines : i \notin p.lines =>
                     /\ cov # None /\ i \in cov.lines
                     /\ p.kind = "edit" => cov.stat = p.preStat /\ i < p.first
<1> DEFINE kept == IF Drifted(p) THEN None ELSE cov
           cut  == IF kept = None \/ p.first = None THEN kept
                   ELSE [kept EXCEPT !.lines = SpansBefore(kept.lines, p.first)]
           done == IF p.lines = {} THEN kept ELSE Certify(cut, p.lines, Snapshot)
           new  == AfterMutation(p)
<1>1. new = [done EXCEPT !.hash = IF gone THEN None ELSE file] /\ done # None
  BY DEF AfterMutation
<1>2. cov # None => /\ cov = [lines |-> cov.lines, stat |-> cov.stat, hash |-> cov.hash]
                    /\ cov.lines \subseteq Int
  BY DEF IInv, TypeOK
<1>3. p.kind = "write" => ~p.fuzzy /\ p.lines # {} /\ p.first = None
  <2>1. 1 \in 1..(MaxLines + 1)
    BY ConstAssumption DEF ConstAssumption
  <2>2. /\ WriteBooking.fuzzy = FALSE /\ WriteBooking.lines = 1..(MaxLines + 1)
        /\ WriteBooking.first = None
    BY DEF WriteBooking, WholeFile, Span, Top
  <2> QED
    BY <2>1, <2>2
<1>4. p.fuzzy => p.kind = "edit" /\ p.lines = {}
  BY <1>3
<1>5. ~p.fuzzy
  <2> SUFFICES ASSUME p.fuzzy PROVE FALSE
    OBVIOUS
  <2>1. kept = None
    BY <1>4 DEF Drifted
  <2> QED
    BY <1>1, <1>4, <2>1
<1>6. p.lines # {} /\ done = Certify(cut, p.lines, Snapshot)
  BY <1>3, <1>5
<1>7. /\ gone \/ new.stat = stat
      /\ new.lines = p.lines \cup (IF cut = None THEN {} ELSE cut.lines)
  <2>1. ~gone => Snapshot = stat /\ stat # None
    BY SnapshotStat DEF IInv
  <2> HIDE DEF cut
  <2> QED
    BY <1>1, <1>6, <2>1 DEF Certify
<1>8. ASSUME NEW i \in new.lines, i \notin p.lines
      PROVE  /\ cov # None /\ i \in cov.lines
             /\ p.kind = "edit" => cov.stat = p.preStat /\ i < p.first
  <2>1. cut # None /\ i \in cut.lines
    BY <1>7, <1>8
  <2>2. kept # None /\ kept = cov /\ cov # None /\ ~Drifted(p)
    BY <2>1
  <2>3. CASE p.kind = "write"
    BY <1>3, <2>1, <2>2, <2>3
  <2>4. CASE p.kind = "edit"
    <3>1. cov.stat = p.preStat
      BY <2>2, <2>4 DEF Drifted
    <3>2. p.first \in Int
      BY <1>5, <2>4
    <3>3. CASE p.first = None
      <4> QED
        BY <3>2, <3>3, ConstAssumption DEF ConstAssumption
    <3>4. CASE p.first # None
      <4>1. cut = [cov EXCEPT !.lines = SpansBefore(cov.lines, p.first)]
        BY <2>2, <3>4
      <4>2. i \in SpansBefore(cov.lines, p.first)
        BY <1>2, <2>1, <2>2, <4>1
      <4>3. /\ i \in cov.lines
            /\ \E gap \in (i + 1)..p.first : gap \notin cov.lines
        BY <4>2 DEF SpansBefore
      <4>4. i \in Int /\ i < p.first
        BY <1>2, <2>2, <3>2, <4>3
      <4> QED
        BY <2>2, <3>1, <4>3, <4>4
    <3> QED
      BY <3>3, <3>4
  <2> QED
    BY <2>3, <2>4
<1> QED
  BY <1>5, <1>7, <1>8

\* tool_result of an edit or a write books what was shown.
LEMMA MutationResultShown ==
    ASSUME IInv, Shown, NEW c \in Calls, MutationResult(c)
    PROVE  Shown'
<1> DEFINE r == run[c]
           p == pendingEdits[c]
           new == AfterMutation(p)
           carried == p.kind = "edit" /\ ~Drifted(p) /\ cov # None /\ loose
           overcounted == r.nl \/ (p.fuzzy /\ p.lines # {})
<1>0. /\ UNCHANGED <<file, stat, ver, pendingReads, context>>
      /\ r.at = "edited"
      /\ pendingEdits' = [pendingEdits EXCEPT ![c] = None]
      /\ run' = [run EXCEPT ![c] = Idle]
      /\ IF p = None THEN UNCHANGED <<cov, unseen, basis, loose>>
         ELSE IF r.error
           THEN cov' = None /\ unseen' = {} /\ basis' = None /\ loose' = FALSE
           ELSE /\ cov' = new
                /\ unseen' = IF new = None THEN {} ELSE unseen
                /\ basis' = IF new = None THEN None ELSE file
                /\ loose' = (new # None /\ (\/ gone \/ r.raced \/ r.content # file
                                            \/ carried \/ overcounted))
  BY DEF MutationResult
<1>1. FileOK'
  BY <1>0 DEF Shown, FileOK, Old
<1>2. CallOK(c)'
  BY <1>0, QuietCall DEF IInv, TypeOK
<1>3. ASSUME NEW d \in Calls, d # c
      PROVE  /\ CallOK(d) /\ run'[d] = run[d] /\ pendingReads'[d] = pendingReads[d]
             /\ pendingEdits'[d] = pendingEdits[d]
  BY <1>0, <1>3 DEF Shown
<1>4. CASE p = None
  <2>1. UNCHANGED <<cov, unseen, basis, loose>>
    BY <1>0, <1>4
  <2>2. BasisShown'
    BY <1>0, <2>1 DEF Shown, BasisShown, Old
  <2>3. ASSUME NEW d \in Calls, d # c PROVE CallOK(d)'
    BY <1>0, <1>3, <2>1, <2>3, KeptCall
  <2> QED
    BY <1>1, <1>2, <2>2, <2>3 DEF Shown
<1>5. CASE p # None /\ cov' = None
  <2>1. BasisShown'
    BY <1>5 DEF BasisShown
  <2>2. ASSUME NEW d \in Calls, d # c PROVE CallOK(d)'
    BY <1>0, <1>3, <1>5, <2>2, KeptCall
  <2> QED
    BY <1>1, <1>2, <2>1, <2>2 DEF Shown
<1>6. CASE p # None /\ cov' # None
  <2>0. /\ ~r.error /\ new # None /\ cov' = new /\ unseen' = unseen /\ basis' = file
        /\ loose' = (\/ gone \/ r.raced \/ r.content # file \/ carried \/ overcounted)
    BY <1>0, <1>6
  <2>7. p # Unchecked
    <3> SUFFICES ASSUME p = Unchecked PROVE FALSE
      OBVIOUS
    <3>1. /\ p.kind = "edit" /\ p.lines = {} /\ p.first = None /\ p.preStat = None
      BY DEF Unchecked
    <3>2. Drifted(p) \/ cov = None
      BY <3>1 DEF Drifted
    <3>3. AfterMutation(p) = None
      BY <3>1, <3>2 DEF AfterMutation
    <3> QED
      BY <2>0, <3>3
  <2>1. Edited(c)
    BY <1>0, <1>6, <2>0, <2>7 DEF Shown, CallOK, DoneOK
  <2>2. /\ p.kind \in {"edit", "write"}
        /\ p.kind = "write" => p = WriteBooking
        /\ p.kind = "edit" => p.preStat \in 0..(stat - 1)
                              /\ (p.fuzzy \/ (p.lines # {} /\ p.first \in Int))
    BY <1>6, <2>1 DEF Edited, IInv, TypeOK
  <2>3. loose' \/ cov'.stat = stat
    <3>1. CASE ~(p.fuzzy /\ p.lines # {})
      BY <2>0, <2>2, <3>1, AfterMutationLines
    <3>2. CASE p.fuzzy /\ p.lines # {}
      BY <2>0, <3>2
    <3> QED
      BY <3>1, <3>2
  <2>4. ASSUME ~loose', NEW i \in cov'.lines \cap DOMAIN file
        PROVE  file[i] \in context' \cup unseen'
    <3>1. /\ ~r.raced /\ r.content = file /\ ~carried /\ ~r.nl
          /\ ~(p.fuzzy /\ p.lines # {})
      BY <2>0, <2>4
    <3>2. /\ ~p.fuzzy
          /\ i \notin p.lines =>
               /\ cov # None /\ i \in cov.lines
               /\ p.kind = "edit" => cov.stat = p.preStat /\ i < p.first
      BY <2>0, <2>2, <2>4, <3>1, AfterMutationLines
    <3>3. file[i] \in Lines(file)
      BY <2>4 DEF Lines
    <3>4. CASE i \in p.lines
      <4>1. file[i] \in context
        BY <2>1, <2>4, <3>1, <3>2, <3>3, <3>4 DEF Edited
      <4> QED
        BY <1>0, <4>1
    <3>5. CASE i \notin p.lines
      <4>1. p.kind = "edit"
        <5>1. SUFFICES ASSUME p.kind = "write" PROVE FALSE
          BY <2>2
        <5>2. p.lines = 1..(MaxLines + 1)
          BY <2>2, <5>1 DEF WriteBooking, Span, WholeFile, Top
        <5>3. /\ Len(file) \in Nat /\ DOMAIN file = 1..Len(file)
              /\ Len(file) <= MaxLines /\ MaxLines \in Nat
          BY FileLines, ConstAssumption DEF Shown, FileOK, ConstAssumption
        <5> QED
          BY <2>4, <3>5, <5>2, <5>3
      <4>2. /\ cov # None /\ i \in cov.lines /\ cov.stat = p.preStat /\ i < p.first
        BY <3>2, <3>5, <4>1
      <4>3. ~loose
        <5>1. p.preStat # None
          BY <2>2, <4>1, ConstAssumption DEF ConstAssumption
        <5> QED
          BY <3>1, <3>2, <4>1, <4>2, <5>1 DEF Drifted
      <4>4. file[i] \in context \cup unseen
        BY <2>1, <2>4, <3>1, <3>2, <3>3, <4>1, <4>2, <4>3 DEF Edited
      <4> QED
        BY <1>0, <2>0, <4>4
    <3> QED
      BY <3>4, <3>5
  <2>5. BasisShown'
    <3>1. Old(file)' /\ stat # None
      BY <1>1, SnapshotStat DEF FileOK, IInv
    <3> QED
      BY <1>0, <2>0, <2>3, <2>4, <3>1 DEF BasisShown, Old
  <2>6. ASSUME NEW d \in Calls, d # c PROVE CallOK(d)'
    BY <1>0, <1>3, <2>0, <2>3, <2>6, CertifiedCall DEF IInv
  <2> QED
    BY <1>1, <1>2, <2>5, <2>6 DEF Shown
<1> QED
  BY <1>4, <1>5, <1>6

\* A block of the hash chain drops the entry and nothing else.
LEMMA HashBlockShown == ASSUME IInv, Shown, HashBlock PROVE Shown'
<1>0. /\ cov' = None
      /\ UNCHANGED <<file, stat, ver, pendingReads, pendingEdits, run, context>>
  BY DEF HashBlock, AfterBlock
<1>1. FileOK' /\ BasisShown'
  BY <1>0 DEF Shown, FileOK, BasisShown, Old
<1>2. \A d \in Calls : CallOK(d)'
  BY <1>0, KeptCall DEF Shown
<1> QED
  BY <1>1, <1>2 DEF Shown

\* An admitted write changes nothing yet.
LEMMA WriteCallShown ==
    ASSUME IInv, Shown, NEW c \in Calls, NEW n \in WriteSizes, WriteCall(c, n)
    PROVE  Shown'
<1>0. /\ UNCHANGED <<file, stat, ver, cov, pendingReads, context, unseen, basis,
                     loose>>
      /\ pendingEdits' = [pendingEdits EXCEPT ![c] = WriteBooking]
      /\ run' = [run EXCEPT ![c] = [at |-> "writing", size |-> n]]
  BY DEF WriteCall
<1>1. FileOK' /\ BasisShown'
  BY <1>0 DEF Shown, FileOK, BasisShown, Old
<1>2. ASSUME NEW d \in Calls, d # c PROVE CallOK(d)'
  BY <1>0, <1>2, KeptCall DEF Shown
<1>3. run'[c] = [at |-> "writing", size |-> n] /\ pendingEdits'[c] = WriteBooking
  BY <1>0 DEF IInv, TypeOK
<1>4. CallOK(c)'
  BY <1>3 DEF CallOK, ReadOK, EditOK, WriteOK, DoneOK
<1> QED
  BY <1>1, <1>2, <1>4 DEF Shown

\* The whole of a write is in the transcript.
LEMMA WriteExecShown ==
    ASSUME IInv, Shown, NEW c \in Calls, NEW error \in BOOLEAN, WriteExec(c, error)
    PROVE  Shown'
<1> DEFINE f == [i \in 1..run[c].size |-> Token(ver + 1, i)]
<1>0. /\ run[c].at = "writing"
      /\ ver < MaxVer /\ file' = f /\ ver' = ver + 1 /\ stat' = ver + 1
      /\ context' = Lines(f) /\ unseen' = {}
      /\ run' = [run EXCEPT ![c] =
                    IF error THEN Failed ELSE Done(FALSE, FALSE, f)]
      /\ UNCHANGED <<cov, pendingReads, pendingEdits, basis, loose>>
  BY DEF WriteExec, Changes
<1>1. run[c].size \in WriteSizes /\ pendingEdits[c] \in {None, WriteBooking}
  BY <1>0 DEF Shown, CallOK, WriteOK
<1>2. Fresh(file')
  BY <1>0, <1>1, WriteFresh DEF IInv
<1>3. FileOK'
  BY <1>0, <1>2, FreshFile DEF IInv, Shown
<1> HIDE DEF f
<1>4. /\ context \cap Lines(file') \subseteq context'
      /\ (context \cup unseen) \cap Lines(file') \subseteq context' \cup unseen'
  BY <1>0
<1>5. BasisShown'
  BY <1>0, <1>2, <1>4, ChangeBasis DEF IInv, Shown
<1>6. ASSUME NEW d \in Calls, d # c PROVE CallOK(d)'
  <2>1. /\ run'[d] = run[d] /\ pendingReads'[d] = pendingReads[d]
        /\ pendingEdits'[d] = pendingEdits[d] /\ CallOK(d)
        /\ UNCHANGED <<cov, basis, loose>>
    BY <1>0, <1>6 DEF Shown
  <2> QED
    BY <1>0, <1>2, <1>4, <2>1, ChangeCall DEF IInv, Shown
<1>7. CallOK(c)'
  <2>1. CASE error
    BY <1>0, <2>1, QuietCall DEF IInv, TypeOK
  <2>2. CASE ~error
    <3>1. run'[c] = Done(FALSE, FALSE, f)
      BY <1>0, <2>2 DEF IInv, TypeOK
    <3>2. /\ run'[c].at = "edited" /\ run'[c].content = file'
          /\ pendingEdits'[c] = pendingEdits[c]
      BY <1>0, <3>1 DEF Done
    <3>3. ASSUME pendingEdits'[c] # None PROVE Edited(c)'
      <4>1. pendingEdits'[c] = WriteBooking /\ WriteBooking.kind = "write"
        BY <1>1, <3>2, <3>3 DEF WriteBooking
      <4>2. Old(file)'
        BY <1>3 DEF FileOK
      <4>3. context' = Lines(file')
        BY <1>0
      <4> QED
        BY <3>2, <4>1, <4>2, <4>3 DEF Edited, Old
    <3> QED
      BY <3>2, <3>3 DEF CallOK, ReadOK, EditOK, WriteOK, DoneOK
  <2> QED
    BY <2>1, <2>2
<1> QED
  BY <1>3, <1>5, <1>6, <1>7 DEF Shown

\* Another program's lines are new, and the lines it removes are gone.
LEMMA OtherShown ==
    ASSUME IInv, Shown, ver < MaxVer, Fresh(file'), ver' = ver + 1,
           \/ stat' = ver + 1
           \/ stat' = stat /\ \E t \in Lines(file) : t \notin Lines(file'),
           context' = context \cap Lines(file'), unseen' = unseen \cap Lines(file'),
           UNCHANGED <<cov, basis, pendingReads, pendingEdits, run>>,
           cov # None => (loose' = loose \/ loose' = TRUE)
    PROVE  Shown'
<1>1. FileOK'
  BY FreshFile DEF IInv, Shown
<1>2. /\ context \cap Lines(file') \subseteq context'
      /\ (context \cup unseen) \cap Lines(file') \subseteq context' \cup unseen'
  OBVIOUS
<1>3. BasisShown'
  BY <1>2, ChangeBasis DEF IInv, Shown
<1>4. ASSUME NEW d \in Calls PROVE CallOK(d)'
  BY <1>2, <1>4, ChangeCall DEF IInv, Shown
<1> QED
  BY <1>1, <1>3, <1>4 DEF Shown

\* Another program's visible write keeps the promise: it only takes shown lines
\* away.
LEMMA ExternalWriteShown == ASSUME IInv, Shown, ExternalWrite PROVE Shown'
<1>1. PICK i \in 1..(Len(file) + 1), drop \in {0, 1}, add \in {0, 1} :
         /\ drop + add > 0 /\ i + drop <= Len(file) + 1
         /\ Changes(SubSeq(file, 1, i - 1)
                    \o [j \in 1..add |-> Token(ver + 1, j)]
                    \o SubSeq(file, i + drop, Len(file)))
  BY DEF ExternalWrite
<1>2. /\ ver < MaxVer /\ ver' = ver + 1 /\ stat' = ver + 1
      /\ file' = SubSeq(file, 1, i - 1) \o [j \in 1..add |-> Token(ver + 1, j)]
                   \o SubSeq(file, i + drop, Len(file))
      /\ Fits(SubSeq(file, 1, i - 1) \o [j \in 1..add |-> Token(ver + 1, j)]
                \o SubSeq(file, i + drop, Len(file)))
  BY <1>1 DEF Changes
<1>3. Fresh(file')
  BY <1>1, <1>2, SpliceFresh DEF IInv, Shown
<1> QED
  BY <1>2, <1>3, OtherShown DEF ExternalWrite

\* A file that is deleted takes all its lines away.
LEMMA ExternalDeleteShown == ASSUME IInv, Shown, ExternalDelete PROVE Shown'
<1>1. /\ ver < MaxVer /\ file' = <<>> /\ ver' = ver + 1 /\ stat' = ver + 1
      /\ context' = {} /\ unseen' = {}
      /\ UNCHANGED <<cov, pendingReads, pendingEdits, run, basis, loose>>
  BY DEF ExternalDelete
<1>2. file' \in Seq((0..MaxVer) \X Int) /\ Len(file') = 0 /\ DOMAIN file' = {}
  BY <1>1
<1>3. Fresh(file') /\ Lines(file') = {}
  BY <1>2, ConstAssumption DEF Fresh, Lines, ConstAssumption
<1> QED
  BY <1>1, <1>3, OtherShown

\* A write that stat() does not see makes the entry loose.
LEMMA HiddenWriteShown == ASSUME IInv, Shown, HiddenWrite PROVE Shown'
<1>1. PICK i \in DOMAIN file : file' = [file EXCEPT ![i] = Token(ver + 1, 1)]
  BY DEF HiddenWrite
<1>2. ver < MaxVer /\ ver' = ver + 1 /\ stat' = stat
  BY DEF HiddenWrite
<1>3. Fresh(file') /\ file[i] \notin Lines(file')
  BY <1>1, <1>2, HiddenFresh DEF IInv, Shown
<1>4. file[i] \in Lines(file)
  BY DEF Lines
<1> QED
  BY <1>2, <1>3, <1>4, OtherShown DEF HiddenWrite

\* A compaction forgets every promise and every call's booking.
LEMMA SessionCompactShown == ASSUME IInv, Shown, SessionCompact PROVE Shown'
<1>0. /\ cov' = None /\ UNCHANGED <<file, stat, ver, run>>
      /\ \A c \in Calls : pendingReads'[c] = None /\ pendingEdits'[c] = None
  BY DEF SessionCompact
<1>1. FileOK' /\ BasisShown'
  BY <1>0 DEF Shown, FileOK, BasisShown, Old
<1>2. ASSUME NEW d \in Calls PROVE CallOK(d)'
  <2>1. CallOK(d)
    BY DEF Shown
  <2>2. ReadOK(d)' /\ WriteOK(d)' /\ DoneOK(d)'
    BY <1>0, <2>1 DEF CallOK, ReadOK, WriteOK, DoneOK
  <2>3. EditOK(d)'
    BY <1>0, <2>1 DEF CallOK, EditOK, EditingBlind, Editing, Old
  <2> QED
    BY <2>2, <2>3 DEF CallOK
<1> QED
  BY <1>1, <1>2 DEF Shown

\* An injected file is shown whole.
LEMMA InjectFileShown == ASSUME IInv, Shown, InjectFile PROVE Shown'
<1>0. /\ UNCHANGED <<file, stat, ver, pendingReads, pendingEdits, run>>
      /\ context' = Lines(file) /\ basis' = file /\ \A c \in Calls : run[c] = Idle
  BY DEF InjectFile, AllIdle
<1>1. FileOK'
  BY <1>0 DEF Shown, FileOK, Old
<1>2. BasisShown'
  <2>1. Old(file)' /\ stat # None /\ cov'.stat = stat
    BY <1>1, SnapshotStat DEF FileOK, IInv, InjectFile
  <2> QED
    BY <1>0, <2>1 DEF BasisShown, Old, Lines
<1>3. ASSUME NEW d \in Calls PROVE CallOK(d)'
  BY <1>0, <1>3, QuietCall
<1> QED
  BY <1>1, <1>2, <1>3 DEF Shown

\* The promise's invariant is kept by every step.
LEMMA ShownStep == ASSUME IInv, Shown, [Next]_vars PROVE Shown'
<1>1. ASSUME UNCHANGED vars PROVE Shown'
  <2>1. FileOK' /\ BasisShown'
    BY <1>1 DEF vars, Shown, FileOK, BasisShown, Old
  <2>2. \A d \in Calls : CallOK(d)'
    BY <1>1, KeptCall DEF vars, Shown
  <2> QED
    BY <2>1, <2>2 DEF Shown
<1> QED
  BY <1>1, ReadCallShown, ReadExecShown, ReadResultShown, EditCallShown,
     EditExecShown, MutationFailsShown, MutationResultShown, HashBlockShown,
     WriteCallShown, WriteExecShown, ExternalWriteShown, HiddenWriteShown,
     SessionCompactShown, InjectFileShown, EditUncheckedShown, ExternalDeleteShown
     DEF Next

\* The invariant of the promise holds in every reachable state.
THEOREM ShownInductive == Spec => [](IInv /\ Shown)
<1>1. IInv /\ Shown /\ [Next]_vars => (IInv /\ Shown)'
  BY Invariance, ShownStep
<1> QED
  BY <1>1, InitInv, ShownInit, PTL DEF Spec

\* The coverage map's promise: as long as the file has the certified stat, every
\* line that a tightly certified entry covers was shown to the model in its
\* present form since the last compaction, or is one that a compacted read
\* counted and did not show.
THEOREM CoverageIsInContext == Spec => []TightCoverageInContext
<1>1. IInv /\ Shown => TightCoverageInContext
  <2> SUFFICES ASSUME IInv, Shown, cov # None /\ ~loose /\ cov.stat = stat,
                      NEW i \in cov.lines \cap DOMAIN file
               PROVE  file[i] \in context \cup unseen
    BY DEF TightCoverageInContext
  <2>1. file = basis
    BY DEF IInv, StatBindsContent
  <2> QED
    BY <2>1 DEF Shown, BasisShown, Lines
<1> QED
  BY <1>1, ShownInductive, PTL

\* What an edit replaces was shown: whenever the tool applies an edit that the gate
\* let through on a tightly certified entry, each region matched exactly has a line
\* in context, or one a compacted read counted - or that line is gone already.
THEOREM EditsReplaceShown == Spec => EditReplacesShown
<1> DEFINE Replaces == \A c \in Calls :
             (/\ run[c].at = "editing" /\ run'[c].at = "edited" /\ file' # file
              /\ run[c].checked /\ ~run[c].loose /\ pendingEdits[c] # None)
                => \A r \in Exact(run[c].edits) : \E i \in OrigSpan(r) :
                      run[c].content[i] \in Lines(file) =>
                        run[c].content[i] \in context \cup run[c].unseen
<1>1. IInv /\ Shown => Replaces
  BY DEF Shown, CallOK, EditOK, Editing, RegionShown
<1> QED
  BY <1>1, ShownInductive, PTL DEF EditReplacesShown

\* A read of one line is never a big read, and it is a re-read only when the
\* entry that is left covers the line under the file's stat.
LEMMA OneLineRead ==
    ASSUME NEW e, NEW i \in 1..MaxLines, i <= Len(file),
           e = None \/ i \notin e.lines \/ e.stat # stat
    PROVE  LetThrough(e, [start |-> i, end |-> i])
<1> DEFINE w == [start |-> i, end |-> i]
<1>1. MaxLines \in Nat /\ BigWindow \in Nat /\ BigWindow >= 1 /\ i \in Int
  BY ConstAssumption DEF ConstAssumption
<1>2. ~BigRead(w)
  BY <1>1 DEF BigRead, Top
<1>3. ~ReRead(e, w)
  <2>1. i \in Span(w)
    BY <1>1 DEF Span
  <2> QED
    BY <2>1 DEF ReRead, CoversAll, Snapshot
<1>4. ~ReadFails(w, file)
  <2>1. ~(w.start > Len(file)) \/ Len(file) \notin Int
    BY <1>1
  <2> QED
    BY <2>1 DEF ReadFails
<1> QED
  BY <1>2, <1>3, <1>4 DEF LetThrough

\* The guards never deadlock: after a blocked edit or write some read of one of
\* the lines to be replaced is let through.
THEOREM GuardsNeverDeadlock == Spec => []NoGuardDeadlock
<1>0. FileOK => Len(file) \in Nat /\ Len(file) <= MaxLines /\ (Len(file) = 0 => file = <<>>)
  BY FileLines, EmptySeq DEF FileOK
<1>1. ASSUME TypeOK, FileOK PROVE NoGuardDeadlock
  <2>0. Len(file) \in Nat /\ Len(file) <= MaxLines /\ (Len(file) = 0 => file = <<>>)
    BY <1>0, <1>1
  <2>1. ASSUME NEW i \in 1..Len(file), StaleStat \/ cov = None \/ StaleHash
        PROVE  /\ LetThrough(AfterBlock, [start |-> i, end |-> i])
               /\ i \in 1..MaxLines
    <3>1. i \in 1..MaxLines /\ i <= Len(file)
      BY <2>0, <2>1, ConstAssumption DEF ConstAssumption
    <3>2. AfterBlock = None \/ AfterBlock.stat # stat
      BY <2>1 DEF AfterBlock, StaleStat, StaleHash
    <3> QED
      BY <3>1, <3>2, OneLineRead
  <2>2. ASSUME NEW E \in EditShapes, Applies(E, file), ~EditAdmitted(E)
        PROVE  \E r \in E : \E w \in Inside(r.from, r.to) : LetThrough(AfterBlock, w)
    <3>1. ASSUME NEW r \in E
          PROVE  /\ r.from \in 1..Len(file) /\ r.from \in 1..MaxLines
                 /\ [start |-> r.from, end |-> r.from] \in Inside(r.from, r.to)
      <4>1. /\ r.from \in 1..MaxLines /\ r.to \in 1..MaxLines /\ MaxLines \in Nat
            /\ r.from <= r.to /\ r.to <= Len(file)
        BY <2>2, ConstAssumption DEF Applies, Region, ConstAssumption
      <4> QED
        BY <2>0, <4>1 DEF Inside, Window, Top
    <3>2. CASE StaleStat \/ cov = None \/ StaleHash
      <4>1. PICK r \in E : TRUE
        BY <2>2 DEF Applies
      <4> QED
        BY <2>1, <3>1, <3>2, <4>1
    <3>3. CASE ~StaleStat /\ cov # None /\ ~StaleHash
      <4>1. PICK r \in Exact(E) : OrigSpan(r) \cap cov.lines = {}
        BY <2>2, <3>3 DEF EditAdmitted, Unread
      <4>2. r \in E
        BY <4>1 DEF Exact
      <4>3. r.from \in OrigSpan(r)
        BY <2>2, <3>1, <4>2, ConstAssumption
           DEF OrigSpan, Extra, Applies, Region, ConstAssumption
      <4>4. AfterBlock = cov /\ r.from \notin cov.lines
        BY <3>3, <4>1, <4>3 DEF AfterBlock
      <4>7. r.from \in 1..Len(file) /\ r.from \in 1..MaxLines
        BY <3>1, <4>2
      <4>5. r.from \in 1..MaxLines /\ r.from <= Len(file)
        BY <2>0, <4>7
      <4>6. LetThrough(AfterBlock, [start |-> r.from, end |-> r.from])
        BY <4>4, <4>5, OneLineRead
      <4> QED
        BY <3>1, <4>2, <4>6
    <3> QED
      BY <3>2, <3>3
  <2>3. ASSUME file # <<>>, ~WriteAdmitted
        PROVE  \E w \in Inside(1, Len(file)) : LetThrough(AfterBlock, w)
    <3>1. StaleStat \/ cov = None \/ StaleHash
      BY <2>3 DEF WriteAdmitted
    <3>2. 1 \in 1..Len(file)
      BY <2>0, <2>3
    <3>3. [start |-> 1, end |-> 1] \in Inside(1, Len(file))
      BY <2>0, <2>1, <3>1, <3>2, ConstAssumption
         DEF Inside, Window, Top, ConstAssumption
    <3> QED
      BY <2>1, <3>1, <3>2, <3>3
  <2> QED
    BY <2>2, <2>3 DEF NoGuardDeadlock
<1> QED
  BY <1>1, ShownInductive, PTL DEF IInv, Shown
=============================================================================
