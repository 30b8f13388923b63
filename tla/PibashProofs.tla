---------------------------- MODULE PibashProofs ----------------------------
(***************************************************************************)
(* Proofs about pibash: PibashDispatch, for any commands, number of        *)
(* daemons and number of losses, and PibashOutput, for any words, number   *)
(* of writes and limits.                                                   *)
(***************************************************************************)
EXTENDS PibashDispatch, PibashOutput, FiniteSetTheorems, SequenceTheorems,
        WellFoundedInduction, TLAPS

Stages  == {"idle", "done"} \cup Rungs
Answers == [call : Calls,
            kind : {"started", "ok", "parity", "odd", "garbage"}]

\* The types, without the relations of TypeOK.
Types ==
  /\ pc \in [Calls -> Stages]
  /\ result \in [Calls -> {"value", "error", None}]
  /\ aborted \in [Calls -> BOOLEAN]
  /\ slot \in Gens \cup {None} /\ born \in 0..MaxGens
  /\ pending \in [Gens -> SUBSET Calls] /\ pid \subseteq Calls
  /\ ref \in [Gens -> BOOLEAN]
  /\ proc \in [Gens -> {"none", "up", "killed", "gone"}]
  /\ notice \in [Gens -> BOOLEAN]
  /\ inq \in [Gens -> Seq(Calls)]
  /\ work \in [Gens -> Calls \cup {None}]
  /\ out \in [Gens -> Seq(Answers)]
  /\ lost \in 0..MaxLost
  /\ shells \subseteq Calls \X Rungs
  /\ ran \in [Calls -> SUBSET Rungs]

\* Lines of g that the host cannot use.
Unusable(g) ==
  {i \in DOMAIN out[g] : out[g][i].kind \in {"odd", "garbage"}}

\* Until something is lost, every call stays on the daemon rung.
Lossless ==
  lost = 0 =>
    /\ \A g \in Gens : /\ proc[g] \in {"none", "up"} /\ ~notice[g]
                       /\ Unusable(g) = {}
    /\ \A c \in Calls : /\ pc[c] \in {"idle", "daemon", "done"}
                        /\ ran[c] \subseteq {"daemon"}

\* The rungs of a command follow one another, and each costs a loss.
Climbs ==
  \A c \in Calls :
    /\ "oneshot" \in ran[c] => pc[c] \in {"oneshot", "builtin", "done"}
    /\ "builtin" \in ran[c] => pc[c] \in {"builtin", "done"}
    /\ pc[c] = "builtin" /\ "oneshot" \in ran[c] => lost >= 2
    /\ {"oneshot", "builtin"} \subseteq ran[c] => lost >= 2

Inv == Types /\ AwaitedInSlot /\ Lossless /\ Climbs

-----------------------------------------------------------------------------
(* The parts of the handlers.                                              *)

LEMMA HeadAndTail ==
  ASSUME NEW S, NEW s \in Seq(S), s # <<>>
  PROVE  /\ Head(s) \in S /\ Tail(s) \in Seq(S)
         /\ 1 \in DOMAIN s /\ Head(s) = s[1]
         /\ \A i \in DOMAIN Tail(s) : i + 1 \in DOMAIN s /\ Tail(s)[i] = s[i + 1]
OBVIOUS

\* A daemon's next line is appended.
LEMMA Appends ==
  ASSUME Types, NEW g \in Gens, NEW a \in Answers,
         out' = [out EXCEPT ![g] = Append(@, a)]
  PROVE  /\ out' \in [Gens -> Seq(Answers)]
         /\ \A h \in Gens : h # g => Unusable(h)' = Unusable(h)
         /\ Unusable(g) = {} /\ a.kind \notin {"odd", "garbage"}
              => Unusable(g)' = {}
<1>1. out[g] \in Seq(Answers) /\ \A h \in Gens : h # g => out'[h] = out[h]
  BY DEF Types
<1>2. out'[g] = Append(out[g], a)
  BY DEF Types
<1>3. out' \in [Gens -> Seq(Answers)]
  BY <1>1 DEF Types
<1>4. Unusable(g) = {} /\ a.kind \notin {"odd", "garbage"} => Unusable(g)' = {}
  BY <1>1, <1>2 DEF Unusable
<1> QED
  BY <1>1, <1>3, <1>4 DEF Unusable

\* The host takes the first line.
LEMMA Takes ==
  ASSUME Types, NEW g \in Gens, out[g] # <<>>, out' = [out EXCEPT ![g] = Tail(@)]
  PROVE  /\ out' \in [Gens -> Seq(Answers)]
         /\ Head(out[g]) \in Answers
         /\ \A h \in Gens : Unusable(h) = {} => Unusable(h)' = {}
         /\ Unusable(g) = {} => Head(out[g]).kind \notin {"odd", "garbage"}
<1>1. out[g] \in Seq(Answers)
  BY DEF Types
<1>2. \A h \in Gens : out'[h] = IF h = g THEN Tail(out[g]) ELSE out[h]
  BY DEF Types
<1> QED
  BY <1>1, <1>2, HeadAndTail DEF Types, Unusable

\* A call leaves the daemon rung, or moves among the others.
LEMMA StaySlots ==
  ASSUME AwaitedInSlot, UNCHANGED <<slot, pending, ref>>,
         \A c \in Calls : pc'[c] = "daemon" <=> pc[c] = "daemon"
  PROVE  AwaitedInSlot'
BY DEF AwaitedInSlot

\* killDaemon empties the map and sends whoever waited on.
LEMMA KillSlots ==
  ASSUME Types, AwaitedInSlot, NEW g \in Gens, KillDaemon(g)
  PROVE  /\ AwaitedInSlot'
         /\ slot' \in Gens \cup {None} /\ pending' \in [Gens -> SUBSET Calls]
         /\ ref' \in [Gens -> BOOLEAN] /\ pc' \in [Calls -> Stages]
         /\ proc' \in [Gens -> {"none", "up", "killed", "gone"}]
         /\ \A c \in Calls : \/ pc'[c] = pc[c]
                             \/ pc[c] = "daemon" /\ pc'[c] = "oneshot"
<1>1. \A h \in Gens : pending'[h] = IF h = g THEN {} ELSE pending[h]
  BY DEF KillDaemon, Types
<1>2. \A h \in Gens : ref'[h] <=> h # g /\ ref[h]
  BY DEF KillDaemon, RefAfter, Types
<1>3. \A c \in Calls : pc'[c] = IF c \in pending[g] THEN "oneshot" ELSE pc[c]
  BY DEF KillDaemon
<1>4. AwaitedInSlot'
  <2>1. \A c \in Calls : pc'[c] = "daemon" <=> \E h \in Gens : c \in pending'[h]
    <3>1. \A h \in Gens : pending[g] # {} => h = g \/ pending[h] = {}
      BY DEF AwaitedInSlot
    <3> QED
      BY <1>1, <1>3, <3>1 DEF AwaitedInSlot
  <2>2. \A h \in Gens : pending'[h] # {} => h = slot'
    BY <1>1 DEF KillDaemon, AwaitedInSlot
  <2>3. \A h \in Gens : ref'[h] <=> pending'[h] # {}
    BY <1>1, <1>2 DEF AwaitedInSlot
  <2> QED
    BY <2>1, <2>2, <2>3 DEF AwaitedInSlot
<1>5. ref' \in [Gens -> BOOLEAN]
  BY DEF KillDaemon, RefAfter, Types
<1> QED
  BY <1>3, <1>4, <1>5 DEF KillDaemon, Types, Stages, Rungs, AwaitedInSlot

\* A request enters the map of the slot's daemon.
LEMMA SendSlots ==
  ASSUME Types, AwaitedInSlot, NEW c \in Calls, NEW g \in Gens, slot' = g,
         slot \in {None, g}, Send(c, g),
         proc' \in [Gens -> {"none", "up", "killed", "gone"}]
  PROVE  /\ AwaitedInSlot' /\ pending' \in [Gens -> SUBSET Calls]
         /\ ref' \in [Gens -> BOOLEAN] /\ pc' \in [Calls -> Stages]
         /\ inq' \in [Gens -> Seq(Calls)]
<1>1. \A h \in Gens : pending'[h] = IF h = g THEN pending[g] \cup {c} ELSE pending[h]
  BY DEF Send, Types
<1>2. \A h \in Gens : ref'[h] <=> h = g \/ ref[h]
  BY DEF Send, Types
<1>3. \A d \in Calls : pc'[d] = IF d = c THEN "daemon" ELSE pc[d]
  BY DEF Send, Types
<1>4. \A h \in Gens : pending[h] # {} => h = g
  BY PibashAssumption DEF AwaitedInSlot
<1>5. AwaitedInSlot'
  <2>1. \A d \in Calls : pc'[d] = "daemon" <=> \E h \in Gens : d \in pending'[h]
    BY <1>1, <1>3 DEF AwaitedInSlot
  <2>2. \A h \in Gens : pending'[h] # {} => h = slot'
    BY <1>1, <1>4
  <2>3. \A h \in Gens : ref'[h] <=> pending'[h] # {}
    BY <1>1, <1>2 DEF AwaitedInSlot
  <2> QED
    BY <2>1, <2>2, <2>3 DEF AwaitedInSlot
<1>6. inq' \in [Gens -> Seq(Calls)]
  BY DEF Send, Types
<1> QED
  BY <1>5, <1>6 DEF Send, Types, Stages, Rungs

\* A request leaves the map together with its wait.
LEMMA SettleSlots ==
  ASSUME Types, AwaitedInSlot, NEW g \in Gens, NEW c \in pending[g],
         UNCHANGED slot, pending' = [pending EXCEPT ![g] = @ \ {c}],
         ref' = RefAfter(g, pending[g] \ {c}),
         NEW x, x # "daemon", pc' = [pc EXCEPT ![c] = x]
  PROVE  AwaitedInSlot' /\ ref' \in [Gens -> BOOLEAN]
<1>1. \A h \in Gens : pending'[h] = IF h = g THEN pending[g] \ {c} ELSE pending[h]
  BY DEF Types
<1>2. \A h \in Gens : ref'[h] <=> ref[h] /\ (h = g => pending[g] \ {c} # {})
  BY DEF RefAfter, Types
<1>3. c \in Calls /\ \A d \in Calls : pc'[d] = IF d = c THEN x ELSE pc[d]
  BY DEF Types
<1>4. \A h \in Gens : h # g => pending[h] = {}
  BY DEF AwaitedInSlot
<1>5. AwaitedInSlot'
  <2>1. \A d \in Calls : pc'[d] = "daemon" <=> \E h \in Gens : d \in pending'[h]
    BY <1>1, <1>3, <1>4 DEF AwaitedInSlot
  <2>2. \A h \in Gens : pending'[h] # {} => h = slot'
    BY <1>1 DEF AwaitedInSlot
  <2>3. \A h \in Gens : ref'[h] <=> pending'[h] # {}
    BY <1>1, <1>2 DEF AwaitedInSlot
  <2> QED
    BY <2>1, <2>2, <2>3 DEF AwaitedInSlot
<1>6. ref' \in [Gens -> BOOLEAN]
  BY DEF RefAfter, Types
<1> QED
  BY <1>5, <1>6

\* What one envelope does to its call.
LEMMA Resolves ==
  ASSUME Types, NEW c \in Calls, NEW kind, Resolve(c, kind)
  PROVE  /\ \/ pc' = [pc EXCEPT ![c] = "done"]
            \/ kind = "odd" /\ pc' = [pc EXCEPT ![c] = "builtin"]
         /\ pc' \in [Calls -> Stages]
         /\ result' \in [Calls -> {"value", "error", None}]
BY DEF Resolve, Settle, Types, Stages, Rungs

LEMMA SettlesTypes ==
  ASSUME Types, NEW c \in Calls, NEW how \in {"value", "error"}, Settle(c, how)
  PROVE  /\ pc' = [pc EXCEPT ![c] = "done"] /\ pc' \in [Calls -> Stages]
         /\ result' \in [Calls -> {"value", "error", None}]
BY DEF Settle, Types, Stages

\* A rung starts the command of c.
LEMMA Starts ==
  ASSUME Types, NEW c \in Calls, NEW rung \in Rungs, Runs(c, rung)
  PROVE  /\ shells' \subseteq Calls \X Rungs /\ ran' \in [Calls -> SUBSET Rungs]
         /\ \A d \in Calls : ran'[d] = IF d = c THEN ran[c] \cup {rung} ELSE ran[d]
<1>1. <<c, rung>> \in Calls \X Rungs
  OBVIOUS
<1>2. ran[c] \cup {rung} \in SUBSET Rungs
  BY DEF Types
<1> QED
  BY <1>1, <1>2 DEF Runs, Types

\* The next line of g, in the terms of the invariant.
LEMMA LineStep ==
  ASSUME Types, AwaitedInSlot, NEW g \in Gens, Line(g)
  PROVE  /\ Types' /\ AwaitedInSlot'
         /\ \/ UNCHANGED <<pc, proc>>
            \/ Head(out[g]).kind = "garbage" /\ KillDaemon(g)
            \/ /\ UNCHANGED proc
               /\ \E c \in Calls :
                    /\ pc[c] = "daemon"
                    /\ \/ pc' = [pc EXCEPT ![c] = "done"]
                       \/ /\ Head(out[g]).kind = "odd"
                          /\ pc' = [pc EXCEPT ![c] = "builtin"]
<1> DEFINE line == Head(out[g])
           c    == line.call
<1>1. out[g] # <<>> /\ out' = [out EXCEPT ![g] = Tail(@)]
  BY DEF Line
<1>2. line \in Answers /\ out' \in [Gens -> Seq(Answers)]
  BY <1>1, Takes
<1>3. c \in Calls
  BY <1>2 DEF Answers
<1>4. UNCHANGED <<aborted, notice, inq, work, ran, lost, endless>>
  BY DEF Line
<1>5. CASE /\ line.kind = "garbage" /\ KillDaemon(g)
           /\ UNCHANGED <<result, shells>>
  BY <1>2, <1>4, <1>5, KillSlots DEF Types, KillDaemon
<1>6. CASE /\ pid' = pid \cup {c}
           /\ shells' = IF aborted[c] THEN shells \ {<<c, "daemon">>} ELSE shells
           /\ UNCHANGED <<slot, born, pending, ref, proc, pc, result>>
  BY <1>2, <1>3, <1>4, <1>6, StaySlots DEF Types
<1>7. CASE /\ c \in pending[g]
           /\ pending' = [pending EXCEPT ![g] = @ \ {c}]
           /\ ref' = RefAfter(g, pending[g] \ {c})
           /\ IF aborted[c] THEN Settle(c, "error") ELSE Resolve(c, line.kind)
           /\ UNCHANGED <<slot, born, pid, proc, shells>>
  <2>1. /\ \/ pc' = [pc EXCEPT ![c] = "done"]
           \/ line.kind = "odd" /\ pc' = [pc EXCEPT ![c] = "builtin"]
        /\ pc' \in [Calls -> Stages]
        /\ result' \in [Calls -> {"value", "error", None}]
    BY <1>3, <1>7, Resolves, SettlesTypes
  <2>2. AwaitedInSlot' /\ ref' \in [Gens -> BOOLEAN]
    BY <1>7, <2>1, SettleSlots
  <2>3. pc[c] = "daemon"
    BY <1>3, <1>7 DEF AwaitedInSlot
  <2>4. pending' \in [Gens -> SUBSET Calls]
    BY <1>7 DEF Types
  <2>5. Types'
    BY <1>2, <1>4, <1>7, <2>1, <2>2, <2>4 DEF Types
  <2> QED
    BY <1>3, <1>7, <2>1, <2>2, <2>3, <2>5
<1>8. CASE UNCHANGED <<slots, proc, pc, result, shells>>
  BY <1>2, <1>4, <1>8, StaySlots DEF Types, slots
<1> QED
  BY <1>5, <1>6, <1>7, <1>8 DEF Line

-----------------------------------------------------------------------------
(* Types and slots.                                                        *)

LEMMA SlotsStep ==
  Types /\ AwaitedInSlot /\ [Next]_vars => Types' /\ AwaitedInSlot'
<1> DEFINE Goal == Types' /\ AwaitedInSlot'
<1> SUFFICES ASSUME Types, AwaitedInSlot, [Next]_vars PROVE Goal
  OBVIOUS
<1> HIDE DEF Goal
<1>1. ASSUME NEW c \in Calls, ExecuteAborted(c) PROVE Goal
  <2>1. /\ pc' = [pc EXCEPT ![c] = "done"] /\ pc' \in [Calls -> Stages]
        /\ result' \in [Calls -> {"value", "error", None}]
    BY <1>1, SettlesTypes DEF ExecuteAborted
  <2>2. AwaitedInSlot'
    BY <1>1, <2>1, StaySlots DEF ExecuteAborted, Types, slots
  <2> QED
    BY <1>1, <2>1, <2>2 DEF ExecuteAborted, Types, slots, daemons, Goal
<1>2. ASSUME NEW c \in Calls, ExecuteStart(c) \/ ExecuteSend(c) PROVE Goal
  <2>1. PICK g \in Gens : /\ Send(c, g) /\ slot' = g /\ slot \in {None, g}
                          /\ proc' \in [Gens -> {"none", "up", "killed", "gone"}]
                          /\ born' \in 0..MaxGens
    <3>1. CASE ExecuteStart(c)
      <4>1. born + 1 \in Gens
        BY <3>1, PibashAssumption DEF ExecuteStart, Types, Gens
      <4> QED
        BY <3>1, <4>1, PibashAssumption DEF ExecuteStart, Types, Gens
    <3>2. CASE ExecuteSend(c)
      BY <3>2 DEF ExecuteSend, Types
    <3> QED
      BY <1>2, <3>1, <3>2
  <2>2. /\ AwaitedInSlot' /\ pending' \in [Gens -> SUBSET Calls]
        /\ ref' \in [Gens -> BOOLEAN] /\ pc' \in [Calls -> Stages]
        /\ inq' \in [Gens -> Seq(Calls)]
    BY <2>1, SendSlots
  <2> QED
    BY <2>1, <2>2 DEF Send, Types, Goal
<1>3. ASSUME NEW g \in Gens, Line(g) PROVE Goal
  BY <1>3, LineStep DEF Goal
<1>4. ASSUME NEW g \in Gens, Notice(g) PROVE Goal
  <2>1. KillDaemon(g)
    BY <1>4 DEF Notice
  <2> QED
    BY <1>4, <2>1, KillSlots DEF Notice, KillDaemon, Types, Goal
<1>5. CASE Abort
  <2>1. AwaitedInSlot'
    BY <1>5, StaySlots DEF Abort, slots
  <2> QED
    BY <1>5, <2>1 DEF Abort, slots, daemons, Types, Goal
<1>6. ASSUME NEW g \in Gens, DaemonTake(g) PROVE Goal
  <2>1. inq[g] \in Seq(Calls) /\ inq[g] # <<>>
    BY <1>6 DEF DaemonTake, Types
  <2>2. Head(inq[g]) \in Calls /\ inq' \in [Gens -> Seq(Calls)]
    BY <1>6, <2>1, HeadAndTail DEF DaemonTake, Types
  <2>3. \A k \in {"started", "parity"} :
          [call |-> Head(inq[g]), kind |-> k] \in Answers
    BY <2>2 DEF Answers
  <2>4. out' \in [Gens -> Seq(Answers)]
    BY <1>6, <2>3, Appends DEF DaemonTake
  <2>5. /\ work' \in [Gens -> Calls \cup {None}]
        /\ shells' \subseteq Calls \X Rungs /\ ran' \in [Calls -> SUBSET Rungs]
    <3>1. CASE Runs(Head(inq[g]), "daemon") /\ work' = [work EXCEPT ![g] = Head(inq[g])]
      BY <2>2, <3>1, Starts DEF Types, Rungs
    <3>2. CASE UNCHANGED <<work, shells, ran>>
      BY <3>2 DEF Types
    <3> QED
      BY <1>6, <3>1, <3>2 DEF DaemonTake
  <2>6. AwaitedInSlot'
    BY <1>6, StaySlots DEF DaemonTake, slots
  <2> QED
    BY <1>6, <2>2, <2>4, <2>5, <2>6 DEF DaemonTake, slots, Types, Goal
<1>7. ASSUME NEW g \in Gens, DaemonAnswer(g) \/ DaemonTimeout(g) PROVE Goal
  <2>1. work[g] \in Calls
    BY <1>7 DEF DaemonAnswer, DaemonTimeout, Types
  <2>2. \A k \in {"ok", "odd", "garbage", "parity"} :
          [call |-> work[g], kind |-> k] \in Answers
    BY <2>1 DEF Answers
  <2>3. out' \in [Gens -> Seq(Answers)]
    BY <1>7, <2>2, Appends DEF DaemonAnswer, DaemonTimeout, Answer
  <2>4. /\ work' \in [Gens -> Calls \cup {None}]
        /\ shells' \subseteq Calls \X Rungs
    BY <1>7 DEF DaemonAnswer, DaemonTimeout, Types
  <2>6. lost' \in 0..MaxLost
    BY <1>7, PibashAssumption DEF DaemonAnswer, DaemonTimeout, Loses, Types
  <2>5. AwaitedInSlot'
    BY <1>7, StaySlots DEF DaemonAnswer, DaemonTimeout, slots
  <2> QED
    BY <1>7, <2>3, <2>4, <2>5, <2>6
       DEF DaemonAnswer, DaemonTimeout, slots, Types, Goal
<1>8. ASSUME NEW g \in Gens, DaemonDies(g) PROVE Goal
  <2>1. /\ lost' \in 0..MaxLost
        /\ proc' \in [Gens -> {"none", "up", "killed", "gone"}]
        /\ notice' \in [Gens -> BOOLEAN] /\ inq' \in [Gens -> Seq(Calls)]
        /\ work' \in [Gens -> Calls \cup {None}]
    BY <1>8, PibashAssumption DEF DaemonDies, Loses, Types
  <2>2. AwaitedInSlot'
    BY <1>8, StaySlots DEF DaemonDies, slots
  <2> QED
    BY <1>8, <2>1, <2>2 DEF DaemonDies, slots, Types, Goal
<1>9. ASSUME NEW c \in Calls, OneshotRuns(c) \/ BuiltinRuns(c) PROVE Goal
  <2>1. shells' \subseteq Calls \X Rungs /\ ran' \in [Calls -> SUBSET Rungs]
    BY <1>9, Starts DEF OneshotRuns, BuiltinRuns, Rungs
  <2>2. AwaitedInSlot'
    BY <1>9, StaySlots DEF OneshotRuns, BuiltinRuns, slots
  <2> QED
    BY <1>9, <2>1, <2>2 DEF OneshotRuns, BuiltinRuns, slots, daemons, Types, Goal
<1>10. ASSUME NEW c \in Calls, NEW k, OneshotExits(c, k) PROVE Goal
  <2>1. /\ \/ pc' = [pc EXCEPT ![c] = "done"]
           \/ pc' = [pc EXCEPT ![c] = "builtin"]
        /\ pc' \in [Calls -> Stages]
        /\ result' \in [Calls -> {"value", "error", None}]
    BY <1>10, Resolves DEF OneshotExits
  <2>2. AwaitedInSlot'
    BY <1>10, <2>1, StaySlots DEF OneshotExits, Types, slots
  <2>3. lost' \in 0..MaxLost /\ shells' \subseteq Calls \X Rungs
    BY <1>10, PibashAssumption DEF OneshotExits, Loses, Types
  <2> QED
    BY <1>10, <2>1, <2>2, <2>3 DEF OneshotExits, slots, daemons, Types, Goal
<1>11. ASSUME NEW c \in Calls, OneshotFails(c) PROVE Goal
  <2>1. AwaitedInSlot'
    BY <1>11, StaySlots DEF OneshotFails, Types, slots
  <2>2. lost' \in 0..MaxLost /\ pc' \in [Calls -> Stages]
    BY <1>11, PibashAssumption DEF OneshotFails, Loses, Types, Stages, Rungs
  <2> QED
    BY <1>11, <2>1, <2>2 DEF OneshotFails, slots, daemons, Types, Goal
<1>12. ASSUME NEW c \in Calls, BuiltinSettles(c) PROVE Goal
  <2>1. /\ pc' = [pc EXCEPT ![c] = "done"] /\ pc' \in [Calls -> Stages]
        /\ result' \in [Calls -> {"value", "error", None}]
    BY <1>12, SettlesTypes DEF BuiltinSettles
  <2>2. AwaitedInSlot'
    BY <1>12, <2>1, StaySlots DEF BuiltinSettles, Types, slots
  <2> QED
    BY <1>12, <2>1, <2>2 DEF BuiltinSettles, slots, daemons, Types, Goal
<1>13. ASSUME NEW c \in Calls, NEW rung \in Rungs, ShellEnds(c, rung) PROVE Goal
  <2>1. AwaitedInSlot'
    BY <1>13, StaySlots DEF ShellEnds, slots
  <2> QED
    BY <1>13, <2>1 DEF ShellEnds, slots, daemons, Types, Goal
<1>14. CASE UNCHANGED vars
  BY <1>14, StaySlots DEF vars, slots, daemons, Types, Goal
<1> QED
  BY <1>1, <1>2, <1>3, <1>4, <1>5, <1>6, <1>7, <1>8, <1>9, <1>10, <1>11, <1>12,
     <1>13, <1>14 DEF Next

-----------------------------------------------------------------------------
(* What a loss is needed for.                                              *)

\* A loss makes the rest of Lossless void.
LEMMA Loss == ASSUME Types, Loses PROVE Lossless' /\ lost' = lost + 1
BY DEF Types, Loses, Lossless

LEMMA LosslessStep ==
  Types /\ AwaitedInSlot /\ Lossless /\ [Next]_vars => Lossless'
<1> SUFFICES ASSUME Types, AwaitedInSlot, Lossless, [Next]_vars PROVE Lossless'
  OBVIOUS
<1>0. CASE Loses
  BY <1>0, Loss
<1>1. CASE UNCHANGED lost /\ lost # 0
  BY <1>1 DEF Lossless
<1>2. CASE UNCHANGED lost /\ lost = 0
  <2>0. /\ \A g \in Gens : /\ proc[g] \in {"none", "up"} /\ ~notice[g]
                           /\ Unusable(g) = {}
        /\ \A c \in Calls : /\ pc[c] \in {"idle", "daemon", "done"}
                            /\ ran[c] \subseteq {"daemon"}
    BY <1>2 DEF Lossless
  <2>1. ASSUME NEW c \in Calls, ExecuteAborted(c) \/ BuiltinSettles(c)
        PROVE  Lossless'
    <3>1. /\ pc' = [pc EXCEPT ![c] = "done"]
          /\ UNCHANGED <<proc, notice, out, ran>>
      BY <2>1, SettlesTypes DEF ExecuteAborted, BuiltinSettles, daemons
    <3> QED
      BY <2>0, <3>1 DEF Lossless, Unusable, Types
  <2>2. ASSUME NEW c \in Calls, ExecuteStart(c) \/ ExecuteSend(c)
        PROVE  Lossless'
    <3>1. pc' = [pc EXCEPT ![c] = "daemon"] /\ UNCHANGED <<notice, out, ran>>
      BY <2>2 DEF ExecuteStart, ExecuteSend, Send
    <3>2. \A g \in Gens : proc'[g] \in {"none", "up"}
      BY <2>0, <2>2 DEF ExecuteStart, ExecuteSend, Types
    <3> QED
      BY <2>0, <3>1, <3>2 DEF Lossless, Unusable, Types
  <2>3. ASSUME NEW g \in Gens, Line(g) PROVE Lossless'
    <3>1. out[g] # <<>> /\ out' = [out EXCEPT ![g] = Tail(@)]
      BY <2>3 DEF Line
    <3>2. /\ \A h \in Gens : Unusable(h)' = {}
          /\ Head(out[g]).kind \notin {"odd", "garbage"}
      BY <2>0, <3>1, Takes
    <3>3. UNCHANGED <<notice, ran>>
      BY <2>3 DEF Line
    <3>4. /\ UNCHANGED proc
          /\ \/ UNCHANGED pc
             \/ \E c \in Calls : pc' = [pc EXCEPT ![c] = "done"]
      BY <2>3, <3>2, LineStep
    <3> QED
      BY <2>0, <3>2, <3>3, <3>4 DEF Lossless, Types
  <2>4. ASSUME NEW g \in Gens, Notice(g) \/ DaemonDies(g) PROVE Lossless'
    BY <1>0, <1>2, <2>0, <2>4 DEF Notice, DaemonDies, Alive
  <2>5. ASSUME NEW g \in Gens, DaemonTake(g) PROVE Lossless'
    <3>1. inq[g] \in Seq(Calls) /\ inq[g] # <<>>
      BY <2>5 DEF DaemonTake, Types
    <3>2. Head(inq[g]) \in Calls
      BY <3>1, HeadAndTail
    <3>3. PICK k \in {"started", "parity"} :
            out' = [out EXCEPT ![g] =
                      Append(@, [call |-> Head(inq[g]), kind |-> k])]
      BY <2>5 DEF DaemonTake
    <3>4. [call |-> Head(inq[g]), kind |-> k] \in Answers
      BY <3>2 DEF Answers
    <3>5. \A h \in Gens : Unusable(h)' = {}
      BY <2>0, <3>3, <3>4, Appends
    <3>6. \A c \in Calls : ran'[c] \subseteq {"daemon"}
      BY <2>0, <2>5, <3>2, Starts DEF DaemonTake, Rungs
    <3>7. UNCHANGED <<proc, notice, pc>>
      BY <2>5 DEF DaemonTake
    <3> QED
      BY <2>0, <3>5, <3>6, <3>7 DEF Lossless
  <2>6. ASSUME NEW g \in Gens, DaemonAnswer(g) \/ DaemonTimeout(g) PROVE Lossless'
    <3>1. ~Loses
      BY <1>2 DEF Loses, Types
    <3>2. PICK k \in {"ok", "parity"} : Answer(g, k)
      BY <2>6, <3>1 DEF DaemonAnswer, DaemonTimeout
    <3>3. [call |-> work[g], kind |-> k] \in Answers
      BY <2>6 DEF DaemonAnswer, DaemonTimeout, Types, Answers
    <3>4. \A h \in Gens : Unusable(h)' = {}
      BY <2>0, <3>2, <3>3, Appends DEF Answer
    <3>5. UNCHANGED <<proc, notice, pc, ran>>
      BY <2>6 DEF DaemonAnswer, DaemonTimeout
    <3> QED
      BY <2>0, <3>4, <3>5 DEF Lossless
  <2>7. ASSUME NEW c \in Calls,
               \/ OneshotRuns(c) \/ BuiltinRuns(c) \/ OneshotFails(c)
               \/ \E k \in {"ok", "parity", "odd"} : OneshotExits(c, k)
        PROVE  Lossless'
    BY <2>0, <2>7 DEF OneshotRuns, BuiltinRuns, OneshotFails, OneshotExits
  <2>8. ASSUME \/ Abort \/ UNCHANGED vars
               \/ \E c \in Calls, rung \in Rungs : ShellEnds(c, rung)
        PROVE  Lossless'
    <3>1. UNCHANGED <<proc, notice, out, pc, ran>>
      BY <2>8 DEF Abort, ShellEnds, vars, daemons
    <3> QED
      BY <2>0, <3>1 DEF Lossless, Unusable
  <2> QED
    BY <2>1, <2>2, <2>3, <2>4, <2>5, <2>6, <2>7, <2>8 DEF Next
<1>3. Loses \/ UNCHANGED lost
  BY DEF Next, ExecuteAborted, ExecuteStart, ExecuteSend, Send, Line, Notice,
         Abort, DaemonTake, DaemonAnswer, DaemonTimeout, DaemonDies, OneshotRuns,
         OneshotExits, OneshotFails, BuiltinRuns, BuiltinSettles, ShellEnds, vars
<1> QED
  BY <1>0, <1>1, <1>2, <1>3

LEMMA ClimbsStep ==
  Types /\ AwaitedInSlot /\ Lossless /\ Climbs /\ [Next]_vars => Climbs'
<1> SUFFICES ASSUME Types, AwaitedInSlot, Lossless, Climbs, [Next]_vars
             PROVE  Climbs'
  OBVIOUS
<1>0. lost \in Nat
  BY PibashAssumption DEF Types
\* A call that started neither rung may go anywhere.
<1>1. ASSUME UNCHANGED ran, lost' \in {lost, lost + 1},
             \A c \in Calls : \/ pc'[c] = pc[c]
                              \/ pc[c] \in {"idle", "daemon"}
                              \/ pc'[c] = "done"
      PROVE  Climbs'
  BY <1>0, <1>1 DEF Climbs
<1>2. ASSUME NEW c \in Calls, ExecuteAborted(c) \/ BuiltinSettles(c)
      PROVE  Climbs'
  <2>1. pc' = [pc EXCEPT ![c] = "done"] /\ UNCHANGED <<ran, lost>>
    BY <1>2, SettlesTypes DEF ExecuteAborted, BuiltinSettles
  <2> QED
    BY <1>0, <1>1, <2>1 DEF Types
<1>3. ASSUME NEW c \in Calls, ExecuteStart(c) \/ ExecuteSend(c) PROVE Climbs'
  <2>1. /\ pc' = [pc EXCEPT ![c] = "daemon"] /\ pc[c] = "idle"
        /\ UNCHANGED <<ran, lost>>
    BY <1>3 DEF ExecuteStart, ExecuteSend, Send
  <2> QED
    BY <1>0, <1>1, <2>1 DEF Types
<1>4. ASSUME NEW g \in Gens, KillDaemon(g), UNCHANGED <<ran, lost>> PROVE Climbs'
  BY <1>0, <1>1, <1>4, KillSlots
<1>5. ASSUME NEW g \in Gens, Line(g) PROVE Climbs'
  <2>1. UNCHANGED <<ran, lost>>
    BY <1>5 DEF Line
  <2>2. CASE UNCHANGED <<pc, proc>>
    BY <1>0, <1>1, <2>1, <2>2
  <2>3. ASSUME NEW c \in Calls, pc[c] = "daemon",
               \/ pc' = [pc EXCEPT ![c] = "done"]
               \/ pc' = [pc EXCEPT ![c] = "builtin"]
        PROVE  Climbs'
    BY <1>0, <1>1, <2>1, <2>3 DEF Types
  <2> QED
    BY <1>4, <1>5, <2>1, <2>2, <2>3, LineStep
<1>6. ASSUME NEW g \in Gens, Notice(g) PROVE Climbs'
  BY <1>4, <1>6 DEF Notice
<1>7. ASSUME NEW g \in Gens, DaemonTake(g) PROVE Climbs'
  <2>1. inq[g] \in Seq(Calls) /\ inq[g] # <<>>
    BY <1>7 DEF DaemonTake, Types
  <2>2. Head(inq[g]) \in Calls
    BY <2>1, HeadAndTail
  <2>3. \A c \in Calls : ran'[c] \subseteq ran[c] \cup {"daemon"}
    BY <1>7, <2>2, Starts DEF DaemonTake, Rungs
  <2>4. UNCHANGED <<pc, lost>>
    BY <1>7 DEF DaemonTake
  <2>5. \A c \in Calls : /\ "oneshot" \in ran'[c] => "oneshot" \in ran[c]
                         /\ "builtin" \in ran'[c] => "builtin" \in ran[c]
    BY <2>3
  <2> QED
    BY <2>4, <2>5 DEF Climbs
<1>8. ASSUME NEW g \in Gens,
             DaemonAnswer(g) \/ DaemonTimeout(g) \/ DaemonDies(g)
      PROVE  Climbs'
  <2>1. UNCHANGED <<pc, ran>> /\ lost' \in {lost, lost + 1}
    BY <1>0, <1>8 DEF DaemonAnswer, DaemonTimeout, DaemonDies, Loses
  <2> QED
    BY <1>1, <2>1
<1>9. ASSUME NEW c \in Calls, OneshotRuns(c) PROVE Climbs'
  <2>1. \A d \in Calls : ran'[d] = IF d = c THEN ran[c] \cup {"oneshot"} ELSE ran[d]
    BY <1>9, Starts DEF OneshotRuns, Rungs
  <2>2. pc[c] = "oneshot" /\ UNCHANGED <<pc, lost>>
    BY <1>9 DEF OneshotRuns
  <2> QED
    BY <2>1, <2>2 DEF Climbs
<1>10. ASSUME NEW c \in Calls, BuiltinRuns(c) PROVE Climbs'
  <2>1. \A d \in Calls : ran'[d] = IF d = c THEN ran[c] \cup {"builtin"} ELSE ran[d]
    BY <1>10, Starts DEF BuiltinRuns, Rungs
  <2>2. pc[c] = "builtin" /\ UNCHANGED <<pc, lost>>
    BY <1>10 DEF BuiltinRuns
  <2> QED
    BY <2>1, <2>2 DEF Climbs
\* The second loss: what leads to the one-shot rung was the first.
<1>11. ASSUME NEW c \in Calls, pc[c] = "oneshot", Loses, UNCHANGED ran,
              pc' = [pc EXCEPT ![c] = "builtin"]
       PROVE  Climbs'
  <2>1. lost >= 1 /\ lost' = lost + 1
    BY <1>0, <1>11, Loss DEF Lossless
  <2>2. \A d \in Calls : pc'[d] = IF d = c THEN "builtin" ELSE pc[d]
    BY <1>11 DEF Types
  <2> QED
    BY <1>0, <1>11, <2>1, <2>2 DEF Climbs
<1>12. ASSUME NEW c \in Calls, NEW k, OneshotExits(c, k) PROVE Climbs'
  <2>1. pc[c] = "oneshot" /\ UNCHANGED ran /\ lost' \in {lost, lost + 1}
    BY <1>0, <1>12 DEF OneshotExits, Loses
  <2>2. CASE pc' = [pc EXCEPT ![c] = "done"]
    BY <1>0, <1>1, <2>1, <2>2 DEF Types
  <2>3. CASE k = "odd" /\ pc' = [pc EXCEPT ![c] = "builtin"]
    BY <1>11, <1>12, <2>1, <2>3 DEF OneshotExits
  <2> QED
    BY <1>12, <2>2, <2>3, Resolves DEF OneshotExits
<1>13. ASSUME NEW c \in Calls, OneshotFails(c) PROVE Climbs'
  BY <1>11, <1>13 DEF OneshotFails
<1>14. ASSUME \/ Abort \/ UNCHANGED vars
              \/ \E c \in Calls, rung \in Rungs : ShellEnds(c, rung)
       PROVE  Climbs'
  <2>1. UNCHANGED <<pc, ran, lost>>
    BY <1>14 DEF Abort, ShellEnds, vars
  <2> QED
    BY <2>1 DEF Climbs
<1> QED
  BY <1>2, <1>3, <1>5, <1>6, <1>7, <1>8, <1>9, <1>10, <1>12, <1>13, <1>14 DEF Next

-----------------------------------------------------------------------------
(* The properties.                                                         *)

\* Nothing was called or started.
LEMMA InitInv == Init => Inv
<1> SUFFICES ASSUME Init PROVE Inv
  OBVIOUS
<1>1. Types
  <2>1. <<>> \in Seq(Calls) /\ <<>> \in Seq(Answers)
    OBVIOUS
  <2> QED
    BY <2>1, PibashAssumption DEF Init, Types, Stages
<1>2. AwaitedInSlot
  BY DEF Init, AwaitedInSlot
<1>3. Lossless
  <2>1. \A g \in Gens : Unusable(g) = {}
    BY DEF Init, Unusable
  <2> QED
    BY <2>1 DEF Init, Lossless
<1>4. Climbs
  BY DEF Init, Climbs
<1> QED
  BY <1>1, <1>2, <1>3, <1>4 DEF Inv

\* The parts together are inductive.
THEOREM Inductive == Spec => []Inv
<1>1. Inv /\ [Next]_vars => Inv'
  BY SlotsStep, LosslessStep, ClimbsStep DEF Inv
<1> QED
  BY <1>1, InitInv, PTL DEF Spec

\* The pending map, the slot and the handles agree (settle, killDaemon).
THEOREM TypeCorrect == Spec => []TypeOK
<1>1. Inv => TypeOK
  BY DEF Inv, Types, Stages, TypeOK
<1> QED
  BY <1>1, Inductive, PTL

\* Every further rung that starts a command costs a process or an answer.
THEOREM RunsCostLosses == Spec => []RunsOnceUnlessLost
<1>1. ASSUME Inv, NEW c \in Calls PROVE Cardinality(ran[c]) <= lost + 1
  <2>1. ran[c] \in SUBSET {"daemon", "oneshot", "builtin"} /\ lost \in Nat
    BY <1>1, PibashAssumption DEF Inv, Types, Rungs
  <2>2. IsFiniteSet({"daemon"}) /\ Cardinality({"daemon"}) = 1
    BY FS_Singleton
  <2>3. ASSUME NEW r, r # "daemon"
        PROVE  IsFiniteSet({"daemon", r}) /\ Cardinality({"daemon", r}) = 2
    <3>1. {"daemon", r} = {"daemon"} \cup {r} /\ r \notin {"daemon"}
      BY <2>3
    <3>2. /\ IsFiniteSet({"daemon"} \cup {r})
          /\ Cardinality({"daemon"} \cup {r}) = Cardinality({"daemon"}) + 1
      BY <2>2, <3>1, FS_AddElement, Zenon
    <3> QED
      BY <2>2, <3>1, <3>2
  <2>4. IsFiniteSet(Rungs) /\ Cardinality(Rungs) = 3
    <3>1. Rungs = {"daemon", "oneshot"} \cup {"builtin"}
      BY DEF Rungs
    <3>2. "builtin" \notin {"daemon", "oneshot"}
      OBVIOUS
    <3>3. IsFiniteSet({"daemon", "oneshot"}) /\ Cardinality({"daemon", "oneshot"}) = 2
      BY <2>3
    <3>4. /\ IsFiniteSet({"daemon", "oneshot"} \cup {"builtin"})
          /\ Cardinality({"daemon", "oneshot"} \cup {"builtin"})
               = Cardinality({"daemon", "oneshot"}) + 1
      BY <3>2, <3>3, FS_AddElement, Zenon
    <3> QED
      BY <3>1, <3>3, <3>4
  <2>5. ASSUME NEW S, IsFiniteSet(S), ran[c] \subseteq S
        PROVE  Cardinality(ran[c]) \in Nat /\ Cardinality(ran[c]) <= Cardinality(S)
    BY <2>5, FS_Subset, FS_CardinalityType
  <2>6. CASE lost = 0
    <3>1. ran[c] \subseteq {"daemon"}
      BY <1>1, <2>6 DEF Inv, Lossless
    <3> QED
      BY <2>2, <2>5, <2>6, <3>1
  <2>7. CASE lost = 1
    <3>1. \/ ran[c] \subseteq {"daemon", "oneshot"}
          \/ ran[c] \subseteq {"daemon", "builtin"}
      BY <1>1, <2>1, <2>7 DEF Inv, Climbs
    <3>2. \A r \in {"oneshot", "builtin"} :
            IsFiniteSet({"daemon", r}) /\ Cardinality({"daemon", r}) = 2
      BY <2>3
    <3> QED
      BY <2>5, <2>7, <3>1, <3>2
  <2>8. CASE lost >= 2
    <3>1. Cardinality(ran[c]) \in Nat /\ Cardinality(ran[c]) <= 3
      BY <2>1, <2>4, <2>5 DEF Rungs
    <3> QED
      BY <2>1, <2>8, <3>1
  <2> QED
    BY <2>1, <2>6, <2>7, <2>8
<1>2. Inv => RunsOnceUnlessLost
  BY <1>1 DEF RunsOnceUnlessLost
<1> QED
  BY <1>2, Inductive, PTL

-----------------------------------------------------------------------------
(* Induction over numbers and over sequences, for a set of them. *)

\* A set of naturals that holds 0 and every successor holds them all.
LEMMA NatInduct ==
    ASSUME NEW T, 0 \in T, \A n \in Nat : n \in T => n + 1 \in T
    PROVE  \A n \in Nat : n \in T
<1>1. IsWellFoundedOn({ss \in Nat \X Nat : ss[1] < ss[2]}, Nat)
  BY NatLessThanWellFounded DEF OpToRel
<1>2. SUFFICES ASSUME NEW U, U = {n \in Nat : n \notin T}, U # {}
               PROVE  FALSE
  OBVIOUS
<1>3. PICK n \in U : \A y \in U : ~(<<y, n>> \in {ss \in Nat \X Nat : ss[1] < ss[2]})
  BY <1>1, <1>2, WFMin
<1>4. n \in Nat /\ n # 0 /\ n - 1 \in Nat /\ n - 1 + 1 = n
  BY <1>2
<1>5. \A y \in U : ~(y < n)
  BY <1>2, <1>3
<1>6. n - 1 \notin U
  BY <1>4, <1>5
<1> QED
  BY <1>2, <1>4, <1>6

\* A set that holds the empty sequence, and with a sequence each of its
\* extensions by one element, holds every sequence.
LEMMA SeqInduct ==
    ASSUME NEW S, NEW T, <<>> \in T,
           \A q \in Seq(S), e \in S : q \in T => Append(q, e) \in T
    PROVE  \A q \in Seq(S) : q \in T
<1> DEFINE L == {n \in Nat : \A q \in Seq(S) : Len(q) = n => q \in T}
<1>1. 0 \in L
  BY EmptySeq
<1>2. ASSUME NEW n \in Nat, n \in L
      PROVE  n + 1 \in L
  <2>1. SUFFICES ASSUME NEW q \in Seq(S), Len(q) = n + 1 PROVE q \in T
    OBVIOUS
  <2>2. q # <<>>
    BY <2>1
  <2>3. PICK p \in Seq(S), e \in S : q = Append(p, e)
    BY <2>2, SequenceEmptyOrAppend
  <2>4. Len(p) = n
    BY <2>1, <2>3, AppendProperties, LenProperties
  <2> QED
    BY <2>3, <2>4, <1>2
<1>3. \A n \in Nat : n \in L
  <2> HIDE DEF L
  <2> QED BY <1>1, <1>2, NatInduct
<1> QED
  BY <1>3, LenProperties

\* Concatenation under a name, for the steps that need its laws and not its
\* elements.
Cat(u, v) == u \o v

\* Concatenation, under a name of its own: its type.
LEMMA CatType ==
    ASSUME NEW S, NEW u \in Seq(S), NEW v \in Seq(S)
    PROVE  Cat(u, v) \in Seq(S)
BY ConcatProperties DEF Cat

\* The empty sequence is neutral.
LEMMA CatEmpty ==
    ASSUME NEW S, NEW u \in Seq(S)
    PROVE  Cat(u, <<>>) = u /\ Cat(<<>>, u) = u
BY ConcatEmptySeq DEF Cat

\* Concatenation associates.
LEMMA CatAssociative ==
    ASSUME NEW S, NEW u \in Seq(S), NEW v \in Seq(S), NEW w \in Seq(S)
    PROVE  Cat(Cat(u, v), w) = Cat(u, Cat(v, w))
BY ConcatAssociative DEF Cat

\* Appending is concatenating one element.
LEMMA CatOne ==
    ASSUME NEW S, NEW u \in Seq(S), NEW e \in S
    PROVE  /\ Append(u, e) = Cat(u, <<e>>) /\ Append(u, e) \in Seq(S)
           /\ <<e>> = Append(<<>>, e) /\ <<e>> \in Seq(S)
BY AppendIsConcat, AppendProperties, EmptySeq DEF Cat

-----------------------------------------------------------------------------
(* FlattenSeq *)

\* Nothing flattened.
LEMMA FlattenEmpty == FlattenSeq(<<>>) = <<>>
BY DEF FlattenSeq

\* The recursion has a solution.
LEMMA FlattenFix ==
    ASSUME NEW S, NEW ss \in Seq(Seq(S)), Len(ss) # 0
    PROVE  \E f : /\ f = [i \in 1..Len(ss) |-> IF i = 1 THEN ss[i] ELSE f[i-1] \o ss[i]]
                  /\ FlattenSeq(ss) = f[Len(ss)]
<1> DEFINE T == {n \in Nat : \E f : f = [i \in 1..n |-> IF i = 1 THEN ss[i] ELSE f[i-1] \o ss[i]]}
<1>1. 0 \in T
  <2> [i \in 1..0 |-> 0] = [i \in 1..0 |-> IF i = 1 THEN ss[i] ELSE [k \in 1..0 |-> 0][i-1] \o ss[i]]
    OBVIOUS
  <2> QED OBVIOUS
<1>2. ASSUME NEW n \in Nat, n \in T PROVE n + 1 \in T
  <2>1. PICK p : p = [i \in 1..n |-> IF i = 1 THEN ss[i] ELSE p[i-1] \o ss[i]]
    BY <1>2
  <2> DEFINE g == [i \in 1..n+1 |-> IF i <= n THEN p[i] ELSE IF i = 1 THEN ss[i] ELSE p[i-1] \o ss[i]]
             h == [i \in 1..n+1 |-> IF i = 1 THEN ss[i] ELSE g[i-1] \o ss[i]]
  <2>2. ASSUME NEW i \in 1..n+1 PROVE g[i] = h[i]
    <3>1. CASE i <= n
      <4>1. i \in 1..n /\ (i # 1 => i - 1 \in 1..n+1 /\ i - 1 <= n)
        BY <3>1
      <4>2. i # 1 => g[i-1] = p[i-1]
        BY <4>1
      <4>3. p[i] = IF i = 1 THEN ss[i] ELSE p[i-1] \o ss[i]
        BY <2>1, <4>1
      <4> QED BY <3>1, <4>2, <4>3
    <3>2. CASE i = n + 1
      BY <3>2
    <3> QED BY <3>1, <3>2
  <2>3. g = h
    BY <2>2
  <2>4. \E f : f = [i \in 1..n+1 |-> IF i = 1 THEN ss[i] ELSE f[i-1] \o ss[i]]
    <3> HIDE DEF g
    <3> QED BY <2>3
  <2>5. n + 1 \in Nat
    OBVIOUS
  <2> QED BY <2>4, <2>5
<1>3. \A n \in Nat : n \in T
  <2> HIDE DEF T
  <2> QED BY <1>1, <1>2, NatInduct
<1>4. Len(ss) \in Nat
  BY LenProperties
<1>5. Len(ss) \in T
  BY <1>3, <1>4
<1> DEFINE F == CHOOSE f : f = [i \in 1..Len(ss) |-> IF i = 1 THEN ss[i] ELSE f[i-1] \o ss[i]]
<1>6. F = [i \in 1..Len(ss) |-> IF i = 1 THEN ss[i] ELSE F[i-1] \o ss[i]]
  BY <1>5
<1>7. FlattenSeq(ss) = F[Len(ss)]
  BY DEF FlattenSeq
<1> QED BY <1>6, <1>7

\* A sequence of sequences flattened is a sequence; one more sequence at the
\* end comes at the end.
LEMMA FlattenAppend ==
    ASSUME NEW S, NEW ss \in Seq(Seq(S)), NEW e \in Seq(S)
    PROVE  /\ FlattenSeq(ss) \in Seq(S)
           /\ FlattenSeq(Append(ss, e)) = Cat(FlattenSeq(ss), e)
<1> DEFINE tt == Append(ss, e)
<1>1. /\ tt \in Seq(Seq(S)) /\ Len(tt) = Len(ss) + 1 /\ Len(ss) \in Nat
      /\ \A i \in 1..Len(ss) : tt[i] = ss[i]
      /\ tt[Len(ss) + 1] = e
  BY AppendProperties, LenProperties
<1> HIDE DEF tt
<1>2. PICK g : /\ g = [i \in 1..Len(tt) |-> IF i = 1 THEN tt[i] ELSE g[i-1] \o tt[i]]
               /\ FlattenSeq(tt) = g[Len(tt)]
  <2>1. Len(tt) # 0
    BY <1>1
  <2> QED BY <1>1, <2>1, FlattenFix
<1>3. CASE Len(ss) = 0
  <2>1. ss = <<>> /\ FlattenSeq(ss) = <<>>
    BY <1>3, FlattenEmpty, EmptySeq
  <2>2. g[1] = tt[1]
    BY <1>1, <1>2, <1>3
  <2>3. FlattenSeq(tt) = e
    BY <2>2, <1>1, <1>2, <1>3
  <2>4. <<>> \o e = e /\ <<>> \in Seq(S)
    BY ConcatEmptySeq, EmptySeq
  <2> QED BY <2>1, <2>3, <2>4 DEF tt, Cat
<1>4. CASE Len(ss) # 0
  <2>1. PICK f : /\ f = [i \in 1..Len(ss) |-> IF i = 1 THEN ss[i] ELSE f[i-1] \o ss[i]]
                 /\ FlattenSeq(ss) = f[Len(ss)]
    BY <1>4, FlattenFix
  <2> DEFINE T == {n \in Nat : n + 1 \in 1..Len(ss) => f[n+1] = g[n+1] /\ f[n+1] \in Seq(S)}
  <2>2. 0 \in T
    <3>1. 1 \in 1..Len(ss) /\ 1 \in 1..Len(tt)
      BY <1>4, <1>1
    <3>2. f[1] = ss[1] /\ g[1] = tt[1] /\ ss[1] \in Seq(S)
      BY <2>1, <1>2, <3>1, ElementOfSeq
    <3> QED BY <3>1, <3>2, <1>1
  <2>3. ASSUME NEW n \in Nat, n \in T PROVE n + 1 \in T
    <3>1. SUFFICES ASSUME n + 2 \in 1..Len(ss)
                   PROVE  f[n+2] = g[n+2] /\ f[n+2] \in Seq(S)
      BY n + 1 + 1 = n + 2
    <3>6. /\ n + 1 \in 1..Len(ss) /\ n + 2 \in 1..Len(tt) /\ n + 2 # 1 /\ n + 2 - 1 = n + 1
      BY <3>1, <1>1
    <3>2. /\ f[n+1] = g[n+1] /\ f[n+1] \in Seq(S) /\ ss[n+2] \in Seq(S) /\ tt[n+2] = ss[n+2]
      BY <3>1, <3>6, <2>3, <1>1, ElementOfSeq
    <3>3. f[n+2] = f[n+1] \o ss[n+2]
      <4> DEFINE j == n + 2
      <4>1. j \in 1..Len(ss) /\ j # 1 /\ j - 1 = n + 1
        BY <3>1, <3>6
      <4> HIDE DEF j
      <4>2. f[j] = f[j-1] \o ss[j]
        BY <2>1, <4>1
      <4> QED BY <4>1, <4>2 DEF j
    <3>4. g[n+2] = g[n+1] \o tt[n+2]
      <4> DEFINE j == n + 2
      <4>1. j \in 1..Len(tt) /\ j # 1 /\ j - 1 = n + 1
        BY <3>6
      <4> HIDE DEF j
      <4>2. g[j] = g[j-1] \o tt[j]
        BY <1>2, <4>1
      <4> QED BY <4>1, <4>2 DEF j
    <3>5. f[n+1] \o ss[n+2] \in Seq(S)
      BY <3>2, ConcatProperties
    <3> QED BY <3>2, <3>3, <3>4, <3>5
  <2>4. \A n \in Nat : n \in T
    <3> HIDE DEF T
    <3> QED BY <2>2, <2>3, NatInduct
  <2>5. Len(ss) - 1 \in Nat /\ Len(ss) - 1 + 1 = Len(ss) /\ Len(ss) \in 1..Len(ss)
    BY <1>4, <1>1
  <2>6. f[Len(ss)] = g[Len(ss)] /\ f[Len(ss)] \in Seq(S)
    BY <2>4, <2>5
  <2>7. g[Len(tt)] = g[Len(ss)] \o tt[Len(tt)]
    <3>1. Len(tt) \in 1..Len(tt) /\ Len(tt) # 1 /\ Len(tt) - 1 = Len(ss)
      BY <1>1, <1>4
    <3> QED BY <1>2, <3>1
  <2> QED BY <2>1, <2>6, <2>7, <1>1, <1>2 DEF tt, Cat
<1> QED BY <1>3, <1>4

\* m gives a sequence over S for every element of A.
Gives(m, A, S) == m \in [A -> Seq(S)]

\* The values a function has at the elements of q, flattened.
Flat(m, q) == FlattenSeq([i \in 1..Len(q) |-> m[q[i]]])

\* The pieces of no element.
LEMMA FlatEmpty == ASSUME NEW m PROVE Flat(m, <<>>) = <<>>
<1>1. [i \in 1..Len(<<>>) |-> m[(<<>>)[i]]] = <<>>
  OBVIOUS
<1> QED BY <1>1, FlattenEmpty DEF Flat

\* One element more: its piece comes at the end.
LEMMA FlatAppend ==
    ASSUME NEW A, NEW S, NEW m, Gives(m, A, S), NEW q \in Seq(A), NEW e \in A
    PROVE  /\ Flat(m, q) \in Seq(S)
           /\ Flat(m, Append(q, e)) = Cat(Flat(m, q), m[e])
<1> USE DEF Gives
<1> DEFINE B(p) == [i \in 1..Len(p) |-> m[p[i]]]
<1>1. ASSUME NEW p \in Seq(A)
      PROVE  B(p) \in Seq(Seq(S)) /\ Len(B(p)) = Len(p)
  <2>1. Len(p) \in Nat /\ \A i \in 1..Len(p) : p[i] \in A
    BY LenProperties, ElementOfSeq
  <2>2. \A i \in 1..Len(p) : m[p[i]] \in Seq(S)
    BY <2>1
  <2> QED BY <2>1, <2>2, IsASeq
<1>2. m[e] \in Seq(S)
  OBVIOUS
<1>3. /\ Append(q, e) \in Seq(A) /\ Len(Append(q, e)) = Len(q) + 1 /\ Len(q) \in Nat
      /\ \A i \in 1..Len(q) : Append(q, e)[i] = q[i]
      /\ Append(q, e)[Len(q) + 1] = e
  BY AppendProperties, LenProperties
<1>4. B(q) \in Seq(Seq(S)) /\ Len(B(q)) = Len(q)
  BY <1>1
<1>5. B(Append(q, e)) \in Seq(Seq(S)) /\ Len(B(Append(q, e))) = Len(q) + 1
  BY <1>1, <1>3
<1>6. /\ Append(B(q), m[e]) \in Seq(Seq(S))
      /\ Len(Append(B(q), m[e])) = Len(q) + 1
      /\ \A i \in 1..Len(q) : Append(B(q), m[e])[i] = B(q)[i]
      /\ Append(B(q), m[e])[Len(q) + 1] = m[e]
  <2> HIDE DEF B
  <2> QED BY <1>2, <1>4, AppendProperties
<1>7. \A i \in 1..Len(q) + 1 : B(Append(q, e))[i] = Append(B(q), m[e])[i]
  <2>1. ASSUME NEW i \in 1..Len(q) PROVE B(Append(q, e))[i] = Append(B(q), m[e])[i]
    <3>1. i \in 1..Len(Append(q, e))
      BY <1>3
    <3>2. B(Append(q, e))[i] = m[q[i]]
      BY <3>1, <1>3
    <3>3. Append(B(q), m[e])[i] = B(q)[i]
      <4> HIDE DEF B
      <4> QED BY <1>6
    <3> QED BY <3>2, <3>3
  <2>2. B(Append(q, e))[Len(q) + 1] = m[e]
    BY <1>3
  <2>3. ASSUME NEW i \in 1..Len(q) + 1 PROVE i \in 1..Len(q) \/ i = Len(q) + 1
    BY <1>3
  <2> HIDE DEF B
  <2> QED BY <2>1, <2>2, <2>3, <1>6
<1>8. B(Append(q, e)) = Append(B(q), m[e])
  <2> HIDE DEF B
  <2> QED BY <1>5, <1>6, <1>7, SeqEqual
<1>9. /\ FlattenSeq(B(q)) \in Seq(S)
      /\ FlattenSeq(Append(B(q), m[e])) = Cat(FlattenSeq(B(q)), m[e])
  <2> HIDE DEF B
  <2> QED BY <1>2, <1>4, FlattenAppend
<1> QED BY <1>8, <1>9 DEF Flat

\* The type of what is flattened.
LEMMA FlatType ==
    ASSUME NEW A, NEW S, NEW m, Gives(m, A, S), NEW q \in Seq(A)
    PROVE  Flat(m, q) \in Seq(S)
<1>1. CASE A = {}
  <2>1. q = <<>>
    BY <1>1, SequenceEmptyOrAppend
  <2> QED BY <2>1, FlatEmpty, EmptySeq
<1>2. CASE A # {}
  BY <1>2, FlatAppend
<1> QED BY <1>1, <1>2

\* What is flattened piece by piece is flattened at once.
LEMMA FlatCat ==
    ASSUME NEW A, NEW S, NEW m, Gives(m, A, S), NEW q \in Seq(A), NEW r \in Seq(A)
    PROVE  Flat(m, Cat(q, r)) = Cat(Flat(m, q), Flat(m, r))
<1> DEFINE T == {p \in Seq(A) : Flat(m, Cat(q, p)) = Cat(Flat(m, q), Flat(m, p))}
<1>1. <<>> \in T
  BY FlatEmpty, FlatType, CatEmpty, EmptySeq
<1>2. ASSUME NEW p \in Seq(A), NEW e \in A, p \in T PROVE Append(p, e) \in T
  <2> DEFINE o == <<e>>
  <2>1. /\ Append(p, e) \in Seq(A) /\ Append(p, e) = Cat(p, o) /\ o \in Seq(A)
        /\ Cat(q, p) \in Seq(A)
    BY CatOne, CatType
  <2>2. Append(Cat(q, p), e) = Cat(Cat(q, p), o)
    BY <2>1, CatOne
  <2> HIDE DEF o
  <2>3. Cat(Cat(q, p), o) = Cat(q, Cat(p, o))
    BY <2>1, CatAssociative
  <2>4. Flat(m, Append(Cat(q, p), e)) = Cat(Flat(m, Cat(q, p)), m[e])
    BY <2>1, FlatAppend
  <2>5. Flat(m, Append(p, e)) = Cat(Flat(m, p), m[e])
    BY FlatAppend
  <2>6. Flat(m, q) \in Seq(S) /\ Flat(m, p) \in Seq(S) /\ m[e] \in Seq(S)
    BY FlatType DEF Gives
  <2>7. Cat(Cat(Flat(m, q), Flat(m, p)), m[e]) = Cat(Flat(m, q), Cat(Flat(m, p), m[e]))
    BY <2>6, CatAssociative
  <2> QED BY <2>1, <2>2, <2>3, <2>4, <2>5, <2>7, <1>2
<1>3. \A p \in Seq(A) : p \in T
  <2> HIDE DEF T
  <2> QED BY <1>1, <1>2, SeqInduct
<1> QED BY <1>3

\* Flattening distributes over concatenation.
LEMMA FlattenCat ==
    ASSUME NEW S, NEW ss \in Seq(Seq(S)), NEW tt \in Seq(Seq(S))
    PROVE  FlattenSeq(Cat(ss, tt)) = Cat(FlattenSeq(ss), FlattenSeq(tt))
<1> DEFINE id == [x \in Seq(S) |-> x]
<1>1. Gives(id, Seq(S), S)
  BY DEF Gives
<1>2. ASSUME NEW q \in Seq(Seq(S)) PROVE Flat(id, q) = FlattenSeq(q)
  <2>1. \A i \in 1..Len(q) : q[i] \in Seq(S)
    BY ElementOfSeq
  <2>2. [i \in 1..Len(q) |-> id[q[i]]] = q
    BY <2>1, LenProperties
  <2> QED BY <2>2 DEF Flat
<1> HIDE DEF id
<1>3. Cat(ss, tt) \in Seq(Seq(S))
  BY CatType
<1> QED BY <1>1, <1>2, <1>3, FlatCat

-----------------------------------------------------------------------------
(* The chunks of a stream, and their bytes. *)

Chunks == [stream : Streams, bytes : Seq(Bytes)]

\* The bytes of chunks: none of none, those of a chunk after those before it.
LEMMA BytesOfLaws ==
    /\ BytesOf(<<>>) = <<>>
    /\ \A q \in Seq(Chunks) : BytesOf(q) \in Seq(Bytes)
    /\ \A q \in Seq(Chunks), c \in Chunks :
          BytesOf(Append(q, c)) = Cat(BytesOf(q), c.bytes)
    /\ \A q, r \in Seq(Chunks) :
          BytesOf(Cat(q, r)) = Cat(BytesOf(q), BytesOf(r))
<1> DEFINE m == [c \in Chunks |-> c.bytes]
<1>1. Gives(m, Chunks, Bytes)
  BY DEF Chunks, Gives
<1>2. ASSUME NEW q \in Seq(Chunks) PROVE BytesOf(q) = Flat(m, q)
  <2>1. \A i \in 1..Len(q) : q[i] \in Chunks
    BY ElementOfSeq
  <2>2. [i \in 1..Len(q) |-> q[i].bytes] = [i \in 1..Len(q) |-> m[q[i]]]
    BY <2>1
  <2> QED BY <2>2 DEF Flat, BytesOf
<1>3. \A c \in Chunks : m[c] = c.bytes
  OBVIOUS
<1> HIDE DEF m
<1>4. BytesOf(<<>>) = <<>>
  BY <1>2, FlatEmpty, EmptySeq
<1>5. ASSUME NEW q \in Seq(Chunks) PROVE BytesOf(q) \in Seq(Bytes)
  BY <1>1, <1>2, FlatType
<1>6. ASSUME NEW q \in Seq(Chunks), NEW c \in Chunks
      PROVE  BytesOf(Append(q, c)) = Cat(BytesOf(q), c.bytes)
  <2>1. Append(q, c) \in Seq(Chunks)
    BY CatOne
  <2>2. Flat(m, Append(q, c)) = Cat(Flat(m, q), m[c])
    BY <1>1, FlatAppend
  <2> QED BY <2>1, <2>2, <1>2, <1>3
<1>7. ASSUME NEW q \in Seq(Chunks), NEW r \in Seq(Chunks)
      PROVE  BytesOf(Cat(q, r)) = Cat(BytesOf(q), BytesOf(r))
  BY <1>1, <1>2, FlatCat, CatType
<1> QED BY <1>4, <1>5, <1>6, <1>7

\* The chunks of one stream: a chunk is appended to its own stream only.
LEMMA OfStreamLaws ==
    /\ \A s : OfStream(<<>>, s) = <<>>
    /\ \A s : \A q \in Seq(Chunks) : OfStream(q, s) \in Seq(Chunks)
    /\ \A s : \A q \in Seq(Chunks), c \in Chunks :
          OfStream(Append(q, c), s) =
              IF c.stream = s THEN Append(OfStream(q, s), c) ELSE OfStream(q, s)
    /\ \A s : \A q, r \in Seq(Chunks) :
          OfStream(Cat(q, r), s) = Cat(OfStream(q, s), OfStream(r, s))
<1> SUFFICES ASSUME NEW s
             PROVE  /\ OfStream(<<>>, s) = <<>>
                    /\ \A q \in Seq(Chunks) : OfStream(q, s) \in Seq(Chunks)
                    /\ \A q \in Seq(Chunks), c \in Chunks :
                          OfStream(Append(q, c), s) =
                              IF c.stream = s THEN Append(OfStream(q, s), c) ELSE OfStream(q, s)
                    /\ \A q, r \in Seq(Chunks) :
                          OfStream(Cat(q, r), s) = Cat(OfStream(q, s), OfStream(r, s))
  OBVIOUS
<1> DEFINE m == [c \in Chunks |-> IF c.stream = s THEN <<c>> ELSE <<>>]
<1>1. Gives(m, Chunks, Chunks)
  BY EmptySeq DEF Gives
<1>2. ASSUME NEW q \in Seq(Chunks) PROVE OfStream(q, s) = Flat(m, q)
  <2>1. \A i \in 1..Len(q) : q[i] \in Chunks
    BY ElementOfSeq
  <2>2. [i \in 1..Len(q) |-> IF q[i].stream = s THEN <<q[i]>> ELSE <<>>] = [i \in 1..Len(q) |-> m[q[i]]]
    BY <2>1
  <2> QED BY <2>2 DEF Flat, OfStream
<1>3. \A c \in Chunks : m[c] = IF c.stream = s THEN <<c>> ELSE <<>>
  OBVIOUS
<1> HIDE DEF m
<1>4. OfStream(<<>>, s) = <<>>
  BY <1>2, FlatEmpty, EmptySeq
<1>5. ASSUME NEW q \in Seq(Chunks) PROVE OfStream(q, s) \in Seq(Chunks)
  BY <1>1, <1>2, FlatType
<1>6. ASSUME NEW q \in Seq(Chunks), NEW c \in Chunks
      PROVE  OfStream(Append(q, c), s) =
                 IF c.stream = s THEN Append(OfStream(q, s), c) ELSE OfStream(q, s)
  <2>1. Append(q, c) \in Seq(Chunks)
    BY CatOne
  <2>2. Flat(m, Append(q, c)) = Cat(Flat(m, q), m[c])
    BY <1>1, FlatAppend
  <2>3. Flat(m, q) \in Seq(Chunks)
    BY <1>1, FlatType
  <2>4. Cat(Flat(m, q), <<c>>) = Append(Flat(m, q), c) /\ Cat(Flat(m, q), <<>>) = Flat(m, q)
    BY <2>3, CatOne, CatEmpty
  <2>5. CASE c.stream = s
    <3>1. m[c] = <<c>>
      BY <1>3, <2>5
    <3> QED BY <3>1, <2>1, <2>2, <2>4, <2>5, <1>2
  <2>6. CASE c.stream # s
    <3>1. m[c] = <<>>
      BY <1>3, <2>6
    <3> QED BY <3>1, <2>1, <2>2, <2>4, <2>6, <1>2
  <2> QED BY <2>5, <2>6
<1>7. ASSUME NEW q \in Seq(Chunks), NEW r \in Seq(Chunks)
      PROVE  OfStream(Cat(q, r), s) = Cat(OfStream(q, s), OfStream(r, s))
  BY <1>1, <1>2, FlatCat, CatType
<1> QED BY <1>4, <1>5, <1>6, <1>7

\* The chunks of s among those of t.
LEMMA OfOtherStream ==
    ASSUME NEW q \in Seq(Chunks), NEW s, NEW t
    PROVE  OfStream(OfStream(q, t), s) =
               IF s = t THEN OfStream(q, t) ELSE <<>>
<1> DEFINE Of(p, u) == OfStream(p, u)
           T == {p \in Seq(Chunks) : Of(Of(p, t), s) = IF s = t THEN Of(p, t) ELSE <<>>}
<1>1. /\ \A u : Of(<<>>, u) = <<>>
      /\ \A u : \A p \in Seq(Chunks) : Of(p, u) \in Seq(Chunks)
      /\ \A u : \A p \in Seq(Chunks), c \in Chunks :
            Of(Append(p, c), u) = IF c.stream = u THEN Append(Of(p, u), c) ELSE Of(p, u)
  BY OfStreamLaws
<1> HIDE DEF Of
<1>2. <<>> \in T
  BY <1>1, EmptySeq
<1>3. ASSUME NEW p \in Seq(Chunks), NEW c \in Chunks, p \in T PROVE Append(p, c) \in T
  <2>1. Append(p, c) \in Seq(Chunks)
    BY CatOne
  <2>2. Of(p, t) \in Seq(Chunks)
    BY <1>1
  <2>3. Of(Append(p, c), t) = IF c.stream = t THEN Append(Of(p, t), c) ELSE Of(p, t)
    BY <1>1
  <2>4. Of(Append(Of(p, t), c), s) = IF c.stream = s THEN Append(Of(Of(p, t), s), c) ELSE Of(Of(p, t), s)
    BY <2>2, <1>1
  <2>5. Of(Of(p, t), s) = IF s = t THEN Of(p, t) ELSE <<>>
    BY <1>3
  <2>6. Of(Of(Append(p, c), t), s) = IF s = t THEN Of(Append(p, c), t) ELSE <<>>
    BY <2>3, <2>4, <2>5
  <2> QED BY <2>1, <2>6
<1>4. \A p \in Seq(Chunks) : p \in T
  <2> HIDE DEF T
  <2> QED BY <1>2, <1>3, SeqInduct
<1> QED BY <1>4 DEF Of

\* A batch keeps the order of either stream.
LEMMA BatchKeepsStreams ==
    ASSUME NEW q \in Seq(Chunks)
    PROVE  /\ Batch(q) \in Seq(Chunks)
           /\ \A s \in Streams :
                 OfStream(Batch(q), s) = OfStream(q, s)
<1>1. \A u : OfStream(q, u) \in Seq(Chunks)
  BY OfStreamLaws
<1>2. Batch(q) = Cat(OfStream(q, "out"), OfStream(q, "err"))
  BY DEF Batch, Cat
<1>3. Batch(q) \in Seq(Chunks)
  BY <1>1, <1>2, CatType
<1>4. ASSUME NEW s \in Streams
      PROVE  OfStream(Batch(q), s) = OfStream(q, s)
  <2>1. OfStream(Batch(q), s) =
            Cat(OfStream(OfStream(q, "out"), s), OfStream(OfStream(q, "err"), s))
    BY <1>1, <1>2, OfStreamLaws
  <2>2. s = "out" \/ s = "err"
    BY DEF Streams
  <2>3. /\ OfStream(OfStream(q, "out"), s) = IF s = "out" THEN OfStream(q, "out") ELSE <<>>
        /\ OfStream(OfStream(q, "err"), s) = IF s = "err" THEN OfStream(q, "err") ELSE <<>>
    BY OfOtherStream
  <2>4. /\ Cat(OfStream(q, s), <<>>) = OfStream(q, s)
        /\ Cat(<<>>, OfStream(q, s)) = OfStream(q, s)
    BY <1>1, CatEmpty
  <2> QED BY <2>1, <2>2, <2>3, <2>4
<1> QED BY <1>3, <1>4

-----------------------------------------------------------------------------
(* The accumulator. *)

AccFields == {"decoded", "tail", "atBoundary", "pending", "rawBytes", "decodedBytes",
              "completed", "currentBytes", "openLine", "raw", "spill"}

\* The part of an accumulator that holds the raw stream.
RawOK(a) ==
    /\ DOMAIN a = AccFields
    /\ a.raw \in Seq(Bytes)
    /\ a.spill = Unset \/ (a.spill \in Seq(Bytes) /\ a.raw = <<>>)

\* Decoding leaves it alone.
LEMMA AppendDecodedKeeps ==
    ASSUME NEW a, NEW text, DOMAIN a = AccFields
    PROVE  /\ DOMAIN AppendDecoded(a, text) = AccFields
           /\ AppendDecoded(a, text).raw = a.raw
           /\ AppendDecoded(a, text).spill = a.spill
           /\ AppendDecoded(a, text).rawBytes = a.rawBytes
BY DEF AppendDecoded, TrimTail, AccFields

\* append's first half counts the chunk and leaves the raw stream alone.
LEMMA CountKeeps ==
    ASSUME NEW a, NEW chunk, DOMAIN a = AccFields
    PROVE  /\ DOMAIN Count(a, chunk) = AccFields
           /\ Count(a, chunk).raw = a.raw
           /\ Count(a, chunk).spill = a.spill
           /\ Count(a, chunk).rawBytes = a.rawBytes + Len(chunk)
<1> DEFINE d == DecodeInto(a.pending, chunk)
           b == [a EXCEPT !.rawBytes = @ + Len(chunk), !.pending = d.left]
<1> HIDE DEF d
<1>1. /\ DOMAIN b = AccFields /\ b.raw = a.raw /\ b.spill = a.spill
      /\ b.rawBytes = a.rawBytes + Len(chunk)
  BY DEF AccFields
<1>2. Count(a, chunk) = AppendDecoded(b, d.text)
  BY DEF Count, d
<1> HIDE DEF b
<1> QED BY <1>1, <1>2, AppendDecodedKeeps

\* A chunk is kept, in memory or in the file, unless no file can be made or
\* the write to it fails.
LEMMA KeepLaws ==
    ASSUME NEW a, NEW chunk \in Seq(Bytes), NEW how, RawOK(a),
           Unset \notin Seq(Bytes)
    PROVE  LET b == Keep(a, chunk, how)
           IN  /\ RawOK(b)
               /\ b.rawBytes = a.rawBytes
               /\ \/ b.spill = Unset /\ Outgrown(b)
                  \/ b.spill # Unset /\ how = "lost"
                  \/ FullBytes(b) = Cat(FullBytes(a), chunk)
<1> DEFINE b == Keep(a, chunk, how)
           y == IF how = "lost" THEN <<>> ELSE a.raw
           e == [a EXCEPT !.spill = y, !.raw = <<>>]
<1>1. CASE a.spill = Unset /\ ~Outgrown(a)
  <2>1. b = [a EXCEPT !.raw = @ \o chunk]
    BY <1>1 DEF Keep
  <2>2. /\ DOMAIN b = AccFields /\ b.raw = a.raw \o chunk /\ b.spill = Unset
        /\ b.rawBytes = a.rawBytes
    BY <2>1, <1>1 DEF RawOK, AccFields
  <2>3. a.raw \o chunk \in Seq(Bytes)
    BY ConcatProperties DEF RawOK
  <2> QED BY <2>2, <2>3, <1>1 DEF RawOK, FullBytes, Cat
<1>2. CASE a.spill # Unset
  <2>1. b = [a EXCEPT !.spill = IF how = "lost" THEN @ ELSE @ \o chunk]
    BY <1>2 DEF Keep, EnsureTemp, RawOK
  <2>2. /\ DOMAIN b = AccFields /\ b.raw = a.raw /\ b.rawBytes = a.rawBytes
        /\ b.spill = IF how = "lost" THEN a.spill ELSE a.spill \o chunk
    BY <2>1 DEF RawOK, AccFields
  <2>3. a.spill \o chunk \in Seq(Bytes)
    BY <1>2, ConcatProperties DEF RawOK
  <2> QED BY <2>2, <2>3, <1>2 DEF RawOK, FullBytes, Cat
<1>3. CASE a.spill = Unset /\ Outgrown(a) /\ how # "none"
  <2>1. /\ DOMAIN e = AccFields /\ e.raw = <<>> /\ e.spill = y /\ e.rawBytes = a.rawBytes
    BY DEF RawOK, AccFields
  <2>2. EnsureTemp(a, how) = e
    BY <1>3 DEF EnsureTemp
  <2> HIDE DEF e
  <2>3. b = [e EXCEPT !.spill = IF @ = Unset \/ how = "lost" THEN @ ELSE @ \o chunk]
    BY <1>3, <2>2 DEF Keep
  <2>4. y # Unset /\ y \in Seq(Bytes) /\ a.raw \o chunk \in Seq(Bytes) /\ <<>> \in Seq(Bytes)
    BY ConcatProperties, EmptySeq DEF RawOK
  <2>5. /\ DOMAIN b = AccFields /\ b.raw = <<>> /\ b.rawBytes = a.rawBytes
        /\ b.spill = IF how = "lost" THEN <<>> ELSE a.raw \o chunk
    <3>1. CASE how = "lost"
      BY <2>1, <2>3, <2>4, <3>1 DEF AccFields
    <3>2. CASE how # "lost"
      BY <2>1, <2>3, <2>4, <3>2 DEF AccFields
    <3> QED BY <3>1, <3>2
  <2> HIDE DEF b
  <2> QED BY <2>4, <2>5, <1>3 DEF RawOK, FullBytes, Cat, b
<1>4. CASE a.spill = Unset /\ Outgrown(a) /\ how = "none"
  <2>1. b = [a EXCEPT !.spill = IF @ = Unset THEN @ ELSE @ \o chunk]
    BY <1>4 DEF Keep, EnsureTemp
  <2>2. /\ DOMAIN b = AccFields /\ b.raw = a.raw /\ b.spill = Unset
        /\ b.rawBytes = a.rawBytes /\ b.decodedBytes = a.decodedBytes
        /\ b.completed = a.completed /\ b.openLine = a.openLine
    BY <2>1, <1>4 DEF RawOK, AccFields
  <2>3. Outgrown(b)
    BY <2>2, <1>4 DEF Outgrown, TotalLines
  <2> QED BY <2>2, <2>3 DEF RawOK
<1> QED BY <1>1, <1>2, <1>3, <1>4

\* finish may move the raw stream to the file, and changes none of it unless
\* the write to the new file fails.
LEMMA FinishKeeps ==
    ASSUME NEW a, NEW how, RawOK(a), Unset \notin Seq(Bytes)
    PROVE  LET b == FinishAcc(a, how)
           IN  /\ RawOK(b)
               /\ b.rawBytes = a.rawBytes
               /\ FullBytes(b) = FullBytes(a) \/ (how = "lost" /\ b.spill # a.spill)
<1> DEFINE f == AppendDecoded([a EXCEPT !.pending = <<>>], Flushed(a.pending))
           b == FinishAcc(a, how)
           y == IF how = "lost" THEN <<>> ELSE f.raw
<1>1. DOMAIN f = AccFields /\ f.raw = a.raw /\ f.spill = a.spill /\ f.rawBytes = a.rawBytes
  <2> DEFINE e == [a EXCEPT !.pending = <<>>]
  <2>1. DOMAIN e = AccFields /\ e.raw = a.raw /\ e.spill = a.spill /\ e.rawBytes = a.rawBytes
    BY DEF RawOK, AccFields
  <2> HIDE DEF e
  <2>2. f = AppendDecoded(e, Flushed(a.pending))
    BY DEF e
  <2> HIDE DEF f
  <2> QED BY <2>1, <2>2, AppendDecodedKeeps
<1>2. b = IF Outgrown(f) THEN EnsureTemp(f, how) ELSE f
  BY DEF FinishAcc
<1> HIDE DEF f, b
<1>3. b = f \/ (f.spill = Unset /\ b = [f EXCEPT !.spill = y, !.raw = <<>>])
  BY <1>2 DEF EnsureTemp
<1>4. CASE b = f
  BY <1>1, <1>4 DEF RawOK, FullBytes, b
<1>5. CASE f.spill = Unset /\ b = [f EXCEPT !.spill = y, !.raw = <<>>]
  <2>1. DOMAIN b = AccFields /\ b.raw = <<>> /\ b.spill = y /\ b.rawBytes = a.rawBytes
    BY <1>1, <1>5 DEF AccFields
  <2>2. a.raw # Unset /\ a.raw \in Seq(Bytes) /\ <<>> \in Seq(Bytes) /\ y \in {<<>>, a.raw}
        /\ (how # "lost" => y = a.raw)
    BY <1>1, EmptySeq DEF RawOK
  <2> HIDE DEF y
  <2> QED BY <1>1, <1>5, <2>1, <2>2 DEF RawOK, FullBytes, b
<1> QED BY <1>3, <1>4, <1>5

\* One chunk: it is in the full text afterwards, or there is a hole.
LEMMA AfterChunkLaws ==
    ASSUME NEW st, NEW c \in Chunks, NEW t \in AfterChunk(st, c), RawOK(st.acc),
           Unset \notin Seq(Bytes), st.hole \in BOOLEAN
    PROVE  /\ RawOK(t.acc) /\ t.hole \in BOOLEAN
           /\ t.acc.rawBytes = st.acc.rawBytes + Len(c.bytes)
           /\ ~t.hole => ~st.hole /\ FullBytes(t.acc) = Cat(FullBytes(st.acc), c.bytes)
<1> DEFINE counted == Count(st.acc, c.bytes)
<1>1. PICK how \in Writes :
         t = [acc  |-> Keep(counted, c.bytes, how),
              hole |-> st.hole \/ (IF Keep(counted, c.bytes, how).spill = Unset
                                   THEN Outgrown(Keep(counted, c.bytes, how)) ELSE how = "lost")]
  BY DEF AfterChunk
<1>2. /\ DOMAIN counted = AccFields /\ counted.raw = st.acc.raw /\ counted.spill = st.acc.spill
      /\ counted.rawBytes = st.acc.rawBytes + Len(c.bytes)
  BY CountKeeps DEF RawOK
<1> DEFINE a == Keep(counted, c.bytes, how)
<1> HIDE DEF counted
<1>4. RawOK(counted) /\ FullBytes(counted) = FullBytes(st.acc)
  BY <1>2 DEF RawOK, FullBytes
<1>5. c.bytes \in Seq(Bytes)
  BY DEF Chunks
<1>6. /\ RawOK(a) /\ a.rawBytes = counted.rawBytes
      /\ \/ a.spill = Unset /\ Outgrown(a)
         \/ a.spill # Unset /\ how = "lost"
         \/ FullBytes(a) = Cat(FullBytes(counted), c.bytes)
  BY <1>4, <1>5, KeepLaws
<1>7. t.acc = a /\ t.hole = (st.hole \/ (IF a.spill = Unset THEN Outgrown(a) ELSE how = "lost"))
  BY <1>1
<1> HIDE DEF a
<1>8. t.hole \in BOOLEAN
  BY <1>7 DEF Outgrown
<1>9. ~t.hole => ~st.hole /\ ~(a.spill = Unset /\ Outgrown(a)) /\ ~(a.spill # Unset /\ how = "lost")
  BY <1>7
<1> QED BY <1>2, <1>4, <1>6, <1>7, <1>8, <1>9

\* The recursion of Fed has a solution.
LEMMA FedFix ==
    ASSUME NEW q, Len(q) \in Nat
    PROVE  \E f : /\ f = [n \in 0..Len(q) |->
                            IF n = 0 THEN {[acc |-> acc, hole |-> hole]}
                            ELSE UNION {AfterChunk(st, q[n]) : st \in f[n - 1]}]
                  /\ Fed(q) = f[Len(q)]
<1> DEFINE one == {[acc |-> acc, hole |-> hole]}
           step(S, c) == UNION {AfterChunk(st, c) : st \in S}
           T == {m \in Nat : \E f : f = [n \in 0..m |-> IF n = 0 THEN one ELSE step(f[n - 1], q[n])]}
           F == CHOOSE f : f = [n \in 0..Len(q) |-> IF n = 0 THEN one ELSE step(f[n - 1], q[n])]
<1>0. Fed(q) = F[Len(q)]
  BY DEF Fed
<1> HIDE DEF one, step
<1>1. 0 \in T
  <2> DEFINE g == [n \in 0..0 |-> one]
  <2>1. g = [n \in 0..0 |-> IF n = 0 THEN one ELSE step(g[n - 1], q[n])]
    OBVIOUS
  <2>2. \E f : f = [n \in 0..0 |-> IF n = 0 THEN one ELSE step(f[n - 1], q[n])]
    <3> HIDE DEF g
    <3> QED BY <2>1
  <2> QED BY <2>2
<1>2. ASSUME NEW m \in Nat, m \in T PROVE m + 1 \in T
  <2>1. PICK p : p = [n \in 0..m |-> IF n = 0 THEN one ELSE step(p[n - 1], q[n])]
    BY <1>2
  <2> DEFINE g == [n \in 0..m+1 |-> IF n <= m THEN p[n] ELSE step(p[n - 1], q[n])]
             h == [n \in 0..m+1 |-> IF n = 0 THEN one ELSE step(g[n - 1], q[n])]
  <2>2. ASSUME NEW n \in 0..m+1 PROVE g[n] = h[n]
    <3>1. CASE n <= m
      <4>1. n \in 0..m /\ (n # 0 => n - 1 \in 0..m+1 /\ n - 1 <= m)
        BY <3>1
      <4>2. n # 0 => g[n - 1] = p[n - 1]
        BY <4>1
      <4>3. p[n] = IF n = 0 THEN one ELSE step(p[n - 1], q[n])
        BY <2>1, <4>1
      <4> QED BY <3>1, <4>2, <4>3
    <3>2. CASE n = m + 1
      <4>1. n # 0 /\ n - 1 \in 0..m+1 /\ n - 1 <= m /\ ~(n <= m)
        BY <3>2
      <4>2. g[n - 1] = p[n - 1]
        BY <4>1
      <4> QED BY <4>1, <4>2
    <3> QED BY <3>1, <3>2
  <2>3. g = h
    BY <2>2
  <2>4. \E f : f = [n \in 0..m+1 |-> IF n = 0 THEN one ELSE step(f[n - 1], q[n])]
    <3> HIDE DEF g
    <3> QED BY <2>3
  <2>5. m + 1 \in Nat
    OBVIOUS
  <2> QED BY <2>4, <2>5
<1>3. \A m \in Nat : m \in T
  <2> HIDE DEF T
  <2> QED BY <1>1, <1>2, NatInduct
<1>4. F = [n \in 0..Len(q) |-> IF n = 0 THEN one ELSE step(F[n - 1], q[n])]
  BY <1>3
<1> QED BY <1>0, <1>4 DEF one, step

\* A batch: all of it is in the full text afterwards, or there is a hole.
LEMMA FedLaws ==
    ASSUME NEW q \in Seq(Chunks), RawOK(acc), hole \in BOOLEAN, acc.rawBytes \in Nat,
           Unset \notin Seq(Bytes), NEW st \in Fed(q)
    PROVE  /\ RawOK(st.acc) /\ st.hole \in BOOLEAN
           /\ st.acc.rawBytes = acc.rawBytes + Len(BytesOf(q))
           /\ ~st.hole => ~hole /\ FullBytes(st.acc) = Cat(FullBytes(acc), BytesOf(q))
<1> DEFINE Bs(n) == BytesOf(SubSeq(q, 1, n))
           Good(t, n) == /\ RawOK(t.acc) /\ t.hole \in BOOLEAN
                         /\ t.acc.rawBytes = acc.rawBytes + Len(Bs(n))
                         /\ ~t.hole => ~hole /\ FullBytes(t.acc) = Cat(FullBytes(acc), Bs(n))
<1>1. Len(q) \in Nat
  BY LenProperties
<1>2. PICK f : /\ f = [n \in 0..Len(q) |->
                         IF n = 0 THEN {[acc |-> acc, hole |-> hole]}
                         ELSE UNION {AfterChunk(t, q[n]) : t \in f[n - 1]}]
               /\ Fed(q) = f[Len(q)]
  BY <1>1, FedFix
<1> DEFINE T == {n \in Nat : n <= Len(q) => \A t \in f[n] : Good(t, n)}
<1>3. FullBytes(acc) \in Seq(Bytes)
  BY DEF RawOK, FullBytes
<1>4. 0 \in T
  <2>1. f[0] = {[acc |-> acc, hole |-> hole]}
    BY <1>1, <1>2
  <2>2. SubSeq(q, 1, 0) = <<>> /\ Bs(0) = <<>> /\ Len(Bs(0)) = 0
    <3>1. SubSeq(q, 1, 0) = <<>>
      BY SubSeqEmpty
    <3>2. Bs(0) = <<>>
      BY <3>1, BytesOfLaws
    <3> QED BY <3>1, <3>2
  <2>3. Cat(FullBytes(acc), Bs(0)) = FullBytes(acc)
    BY <1>3, <2>2, CatEmpty
  <2> HIDE DEF Bs
  <2> QED BY <2>1, <2>2, <2>3
<1>5. ASSUME NEW n \in Nat, n \in T PROVE n + 1 \in T
  <2>1. SUFFICES ASSUME n + 1 <= Len(q), NEW t \in f[n + 1] PROVE Good(t, n + 1)
    OBVIOUS
  <2>2. n + 1 \in 1..Len(q) /\ n \in 0..Len(q) /\ n + 1 - 1 = n
    BY <2>1, <1>1
  <2>3. f[n + 1] = UNION {AfterChunk(u, q[n + 1]) : u \in f[n]}
    <3> DEFINE j == n + 1
    <3>1. j \in 0..Len(q) /\ j # 0 /\ j - 1 = n
      BY <2>2
    <3> HIDE DEF j
    <3>2. f[j] = UNION {AfterChunk(u, q[j]) : u \in f[j - 1]}
      BY <1>2, <3>1
    <3> QED BY <3>1, <3>2 DEF j
  <2>4. PICK u \in f[n] : t \in AfterChunk(u, q[n + 1])
    BY <2>1, <2>3
  <2>5. Good(u, n)
    BY <1>5, <2>2
  <2> DEFINE c == q[n + 1]
             p == SubSeq(q, 1, n)
  <2>6. c \in Chunks
    BY <2>2, ElementOfSeq
  <2>7. p \in Seq(Chunks) /\ SubSeq(q, 1, n + 1) = Append(p, c)
    <3>1. SubSeq(q, 1, n + 1) = SubSeq(q, 1, n + 1 - 1) \o <<q[n + 1]>>
      BY <2>2, SubSeqRecursiveSecond
    <3>2. \A i \in 1..n : q[i] \in Chunks
      BY <2>2, ElementOfSeq
    <3>3. p \in Seq(Chunks)
      BY <3>2, SubSeqProperties
    <3> QED BY <3>1, <3>3, <2>2, <2>6, AppendIsConcat
  <2> HIDE DEF c, p
  <2>8. BytesOf(Append(p, c)) = Cat(BytesOf(p), c.bytes)
    BY <2>6, <2>7, BytesOfLaws
  <2>9. Bs(n + 1) = Cat(Bs(n), c.bytes) /\ Bs(n) \in Seq(Bytes)
    BY <2>7, <2>8, BytesOfLaws DEF p
  <2>10. c.bytes \in Seq(Bytes)
    BY <2>6 DEF Chunks
  <2> HIDE DEF Bs
  <2>11. Cat(Cat(FullBytes(acc), Bs(n)), c.bytes) = Cat(FullBytes(acc), Cat(Bs(n), c.bytes))
    BY <1>3, <2>9, <2>10, CatAssociative
  <2>12. Len(Bs(n + 1)) = Len(Bs(n)) + Len(c.bytes) /\ Len(Bs(n)) \in Nat /\ Len(c.bytes) \in Nat
    BY <2>9, <2>10, ConcatProperties, LenProperties DEF Cat
  <2>13. /\ RawOK(t.acc) /\ t.hole \in BOOLEAN
         /\ t.acc.rawBytes = u.acc.rawBytes + Len(c.bytes)
         /\ ~t.hole => ~u.hole /\ FullBytes(t.acc) = Cat(FullBytes(u.acc), c.bytes)
    <3>1. t \in AfterChunk(u, c)
      BY <2>4 DEF c
    <3> QED BY <3>1, <2>5, <2>6, AfterChunkLaws
  <2>14. t.acc.rawBytes = acc.rawBytes + Len(Bs(n + 1))
    <3>1. u.acc.rawBytes = acc.rawBytes + Len(Bs(n))
      BY <2>5
    <3>2. t.acc.rawBytes = u.acc.rawBytes + Len(c.bytes)
      BY <2>13
    <3>3. t.acc.rawBytes = (acc.rawBytes + Len(Bs(n))) + Len(c.bytes)
      BY <3>1, <3>2
    <3>4. \A x, y, z \in Nat : (x + y) + z = x + (y + z)
      OBVIOUS
    <3>5. (acc.rawBytes + Len(Bs(n))) + Len(c.bytes) = acc.rawBytes + (Len(Bs(n)) + Len(c.bytes))
      BY <3>4, <2>12
    <3> QED BY <3>3, <3>5, <2>12
  <2>15. ~t.hole => ~hole /\ FullBytes(t.acc) = Cat(FullBytes(acc), Bs(n + 1))
    BY <2>5, <2>9, <2>11, <2>13
  <2> QED BY <2>13, <2>14, <2>15
<1>6. \A n \in Nat : n \in T
  <2> HIDE DEF T
  <2> QED BY <1>4, <1>5, NatInduct
<1>7. SubSeq(q, 1, Len(q)) = q
  BY SubSeqFull
<1>8. \A t \in f[Len(q)] : Good(t, Len(q))
  <2> HIDE DEF Good
  <2> QED BY <1>1, <1>6
<1>9. Good(st, Len(q))
  <2> HIDE DEF Good
  <2> QED BY <1>2, <1>8
<1> QED BY <1>7, <1>9

-----------------------------------------------------------------------------
(* The streams. *)

\* The types the argument needs.
FlowTypes ==
    /\ phase \in {"start", "loop", "drain", "last", "done"}
    /\ shell \in {"none", "running", "exited"} /\ held \in BOOLEAN
    /\ outcome \in {"ok", "spawn", "timeout", "io", Unset}
    /\ pipe \in [Streams -> Seq(Bytes)]
    /\ wrote \in [Streams -> Seq(Words)]
    /\ chan \in Seq(Chunks) /\ fed \in Seq(Chunks)
    /\ lapsed \in BOOLEAN /\ hole \in BOOLEAN

\* Every byte written to s is in the full text, in the channel or in the pipe.
Ordered(s) ==
    Cat(Cat(FedOf(s), BytesOf(OfStream(chan, s))), pipe[s]) =
        FlattenSeq(wrote[s])

\* The raw stream of the accumulator.
RawKept ==
    /\ RawOK(acc)
    /\ acc.rawBytes = Len(FedBytes)
    /\ ~hole => FullBytes(acc) = FedBytes

\* What has been emptied by when.
Emptied ==
    /\ phase = "start" => chan = <<>> /\ \A s \in Streams : pipe[s] = <<>>
    /\ phase \in {"last", "done"} /\ ~lapsed => \A s \in Streams : pipe[s] = <<>>
    /\ phase = "done" => chan = <<>>

\* The inductive invariant.
FlowInv ==
    /\ FlowTypes
    /\ \A s \in Streams : Ordered(s)
    /\ RawKept
    /\ Emptied

\* Nothing was written or read.
LEMMA FlowInit ==
    ASSUME OutputInit
    PROVE  FlowInv
<1> USE DEF OutputInit
<1>1. <<>> \in Seq(Bytes) /\ <<>> \in Seq(Words) /\ <<>> \in Seq(Chunks)
  BY EmptySeq
<1>2. FlowTypes
  BY <1>1 DEF FlowTypes
<1>3. BytesOf(<<>>) = <<>> /\ \A s : OfStream(<<>>, s) = <<>>
  BY BytesOfLaws, OfStreamLaws
<1>4. ASSUME NEW s \in Streams PROVE Ordered(s)
  <2>1. Cat(Cat(<<>>, <<>>), <<>>) = <<>>
    BY <1>1, CatEmpty
  <2> QED BY <1>3, <2>1, FlattenEmpty DEF Ordered, FedOf
<1>5. RawKept
  <2>1. /\ DOMAIN Empty = AccFields /\ Empty.raw = <<>>
        /\ Empty.spill = Unset /\ Empty.rawBytes = 0
    BY DEF Empty, AccFields
  <2>2. Len(<<>>) = 0
    BY EmptySeq
  <2> QED BY <1>1, <1>3, <2>1, <2>2 DEF RawKept, RawOK, FullBytes, FedBytes
<1>6. Emptied
  BY DEF Emptied
<1> QED BY <1>2, <1>4, <1>5, <1>6 DEF FlowInv

\* A write goes to the end of its pipe.
LEMMA FlowWrite ==
    ASSUME FlowInv, NEW s \in Streams, NEW w \in Words,
           Write(s, w)
    PROVE  FlowInv'
<1> USE DEF Write
<1>1. w \in Seq(Bytes) /\ Words \subseteq Seq(Bytes)
  BY OutputAssumption
<1>2. FlowTypes'
  <2>1. pipe[s] \o w \in Seq(Bytes)
    BY <1>1, ConcatProperties DEF FlowInv, FlowTypes
  <2>2. Append(wrote[s], w) \in Seq(Words)
    BY AppendProperties DEF FlowInv, FlowTypes
  <2> QED BY <2>1, <2>2 DEF FlowInv, FlowTypes
<1>3. ASSUME NEW t \in Streams PROVE Ordered(t)'
  <2> DEFINE u == Cat(FedOf(t), BytesOf(OfStream(chan, t)))
  <2>1. Cat(u, pipe[t]) = FlattenSeq(wrote[t])
    BY DEF FlowInv, Ordered
  <2>2. u \in Seq(Bytes)
    BY BytesOfLaws, OfStreamLaws, CatType DEF FlowInv, FlowTypes, FedOf
  <2>3. pipe[t] \in Seq(Bytes)
    BY DEF FlowInv, FlowTypes
  <2> HIDE DEF u
  <2>4. Cat(u, pipe'[t]) = FlattenSeq(wrote'[t])
    <3>1. CASE t = s
      <4>1. pipe'[t] = Cat(pipe[t], w) /\ wrote'[t] = Append(wrote[t], w)
        BY <3>1 DEF FlowInv, FlowTypes, Cat
      <4>2. wrote[t] \in Seq(Seq(Bytes))
        BY <1>1, SeqMonotonic DEF FlowInv, FlowTypes
      <4>3. FlattenSeq(Append(wrote[t], w)) = Cat(FlattenSeq(wrote[t]), w)
        BY <4>2, <1>1, FlattenAppend
      <4>4. Cat(Cat(u, pipe[t]), w) = Cat(u, Cat(pipe[t], w))
        BY <2>2, <2>3, <1>1, CatAssociative
      <4> QED BY <2>1, <4>1, <4>3, <4>4
    <3>2. CASE t # s
      <4>1. pipe'[t] = pipe[t] /\ wrote'[t] = wrote[t]
        BY <3>2 DEF FlowInv, FlowTypes
      <4> QED BY <2>1, <4>1
    <3> QED BY <3>1, <3>2
  <2> QED BY <2>4 DEF Ordered, u, FedOf
<1>4. RawKept'
  BY DEF FlowInv, RawKept, FedBytes
<1>5. Emptied'
  BY DEF FlowInv, Emptied
<1> QED BY <1>2, <1>3, <1>4, <1>5 DEF FlowInv

\* A reader moves its pipe to the end of the channel.
LEMMA FlowReadPipe ==
    ASSUME FlowInv, NEW s \in Streams, ReadPipe(s)
    PROVE  FlowInv'
<1> USE DEF ReadPipe
<1> DEFINE c == [stream |-> s, bytes |-> pipe[s]]
<1>1. pipe[s] \in Seq(Bytes) /\ c \in Chunks /\ c.stream = s /\ c.bytes = pipe[s]
  BY DEF FlowInv, FlowTypes, Chunks
<1>2. chan' = Append(chan, c)
  OBVIOUS
<1> HIDE DEF c
<1>3. FlowTypes'
  <2>1. Append(chan, c) \in Seq(Chunks)
    BY <1>1, CatOne DEF FlowInv, FlowTypes
  <2>2. pipe' \in [Streams -> Seq(Bytes)]
    BY EmptySeq DEF FlowInv, FlowTypes
  <2> QED BY <1>2, <2>1, <2>2 DEF FlowInv, FlowTypes
<1>4. ASSUME NEW t \in Streams PROVE Ordered(t)'
  <2> DEFINE f == FedOf(t)
             o == OfStream(chan, t)
             b == BytesOf(o)
  <2>1. Cat(Cat(f, b), pipe[t]) = FlattenSeq(wrote[t])
    BY DEF FlowInv, Ordered
  <2>2. o \in Seq(Chunks) /\ f \in Seq(Bytes) /\ pipe[t] \in Seq(Bytes)
    BY BytesOfLaws, OfStreamLaws DEF FlowInv, FlowTypes, FedOf
  <2>3. OfStream(chan', t) = IF s = t THEN Append(o, c) ELSE o
    <3>1. chan \in Seq(Chunks)
      BY DEF FlowInv, FlowTypes
    <3>2. OfStream(Append(chan, c), t) =
              IF c.stream = t THEN Append(o, c) ELSE o
      BY <1>1, <3>1, OfStreamLaws
    <3> QED BY <1>1, <1>2, <3>2
  <2> HIDE DEF f, o
  <2>4. b \in Seq(Bytes) /\ BytesOf(Append(o, c)) = Cat(b, pipe[s])
    BY <1>1, <2>2, BytesOfLaws
  <2> HIDE DEF b
  <2>5. Cat(Cat(f, BytesOf(OfStream(chan', t))), pipe'[t]) = FlattenSeq(wrote'[t])
    <3>1. CASE t = s
      <4>1. pipe'[t] = <<>>
        BY <3>1 DEF FlowInv, FlowTypes
      <4>2. BytesOf(OfStream(chan', t)) = Cat(b, pipe[t])
        BY <2>3, <2>4, <3>1
      <4>3. Cat(Cat(f, b), pipe[t]) = Cat(f, Cat(b, pipe[t]))
        BY <2>2, <2>4, CatAssociative
      <4>4. Cat(b, pipe[t]) \in Seq(Bytes)
        BY <2>2, <2>4, CatType
      <4>5. Cat(f, Cat(b, pipe[t])) \in Seq(Bytes)
        BY <2>2, <4>4, CatType
      <4>6. Cat(Cat(f, Cat(b, pipe[t])), <<>>) = Cat(f, Cat(b, pipe[t]))
        BY <4>5, CatEmpty
      <4> QED BY <2>1, <4>1, <4>2, <4>3, <4>6
    <3>2. CASE t # s
      <4>1. pipe'[t] = pipe[t] /\ BytesOf(OfStream(chan', t)) = b
        BY <2>3, <3>2 DEF FlowInv, FlowTypes, b
      <4> QED BY <2>1, <4>1
    <3> QED BY <3>1, <3>2
  <2> QED BY <2>5 DEF Ordered, f, FedOf
<1>5. RawKept'
  BY DEF FlowInv, RawKept, FedBytes
<1>6. Emptied'
  BY DEF FlowInv, Emptied
<1> QED BY <1>3, <1>4, <1>5, <1>6 DEF FlowInv

\* A flush feeds what the channel holds, in the order of either stream.
LEMMA FlushFeeds ==
    ASSUME FlowInv, Unset \notin Seq(Bytes),
           fed' = fed \o Batch(chan), chan' = <<>>, UNCHANGED <<pipe, wrote>>
    PROVE  /\ fed' \in Seq(Chunks)
           /\ \A s \in Streams : Ordered(s)'
           /\ \A st \in Fed(Batch(chan)) :
                 /\ RawOK(st.acc) /\ st.hole \in BOOLEAN
                 /\ st.acc.rawBytes = Len(BytesOf(fed'))
                 /\ ~st.hole => FullBytes(st.acc) = BytesOf(fed')
<1> DEFINE q == Batch(chan)
<1>1. q \in Seq(Chunks) /\ \A s \in Streams : OfStream(q, s) = OfStream(chan, s)
  BY BatchKeepsStreams DEF FlowInv, FlowTypes
<1> HIDE DEF q
<1>2. fed' = Cat(fed, q) /\ fed \in Seq(Chunks) /\ chan \in Seq(Chunks)
  BY DEF q, Cat, FlowInv, FlowTypes
<1>3. fed' \in Seq(Chunks)
  BY <1>1, <1>2, CatType
<1>4. ASSUME NEW s \in Streams PROVE Ordered(s)'
  <2> DEFINE f == OfStream(fed, s)
             o == OfStream(chan, s)
  <2>1. Cat(Cat(BytesOf(f), BytesOf(o)), pipe[s]) = FlattenSeq(wrote[s])
    BY DEF FlowInv, Ordered, FedOf
  <2>2. f \in Seq(Chunks) /\ o \in Seq(Chunks)
    BY <1>2, OfStreamLaws
  <2>3. OfStream(fed', s) = Cat(f, o)
    BY <1>1, <1>2, OfStreamLaws
  <2> HIDE DEF f, o
  <2>4. BytesOf(OfStream(fed', s)) = Cat(BytesOf(f), BytesOf(o))
    BY <2>2, <2>3, BytesOfLaws
  <2>5. BytesOf(OfStream(chan', s)) = <<>>
    BY OfStreamLaws, BytesOfLaws
  <2>6. BytesOf(f) \in Seq(Bytes) /\ BytesOf(o) \in Seq(Bytes)
    BY <2>2, BytesOfLaws
  <2>7. Cat(BytesOf(f), BytesOf(o)) \in Seq(Bytes)
    BY <2>6, CatType
  <2>8. Cat(Cat(BytesOf(f), BytesOf(o)), <<>>) = Cat(BytesOf(f), BytesOf(o))
    BY <2>7, CatEmpty
  <2> QED BY <2>1, <2>4, <2>5, <2>8 DEF Ordered, FedOf
<1>5. BytesOf(fed') = Cat(FedBytes, BytesOf(q))
  BY <1>1, <1>2, BytesOfLaws DEF FedBytes
<1>6. FedBytes \in Seq(Bytes) /\ BytesOf(q) \in Seq(Bytes)
  BY <1>1, <1>2, BytesOfLaws DEF FedBytes
<1>7. /\ Len(BytesOf(fed')) = Len(FedBytes) + Len(BytesOf(q))
      /\ Len(FedBytes) \in Nat
  BY <1>5, <1>6, ConcatProperties, LenProperties DEF Cat
<1>8. ASSUME NEW st \in Fed(q)
      PROVE  /\ RawOK(st.acc) /\ st.hole \in BOOLEAN
             /\ st.acc.rawBytes = Len(BytesOf(fed'))
             /\ ~st.hole => FullBytes(st.acc) = BytesOf(fed')
  <2>1. /\ RawOK(acc) /\ hole \in BOOLEAN /\ acc.rawBytes = Len(FedBytes)
        /\ ~hole => FullBytes(acc) = FedBytes
    BY DEF FlowInv, RawKept, FlowTypes
  <2>2. acc.rawBytes \in Nat
    BY <2>1, <1>7
  <2>3. /\ RawOK(st.acc) /\ st.hole \in BOOLEAN
        /\ st.acc.rawBytes = acc.rawBytes + Len(BytesOf(q))
        /\ ~st.hole => ~hole /\ FullBytes(st.acc) = Cat(FullBytes(acc), BytesOf(q))
    BY <2>1, <2>2, <1>1, FedLaws
  <2>4. st.acc.rawBytes = Len(BytesOf(fed'))
    BY <2>1, <2>3, <1>7
  <2>5. ~st.hole => FullBytes(st.acc) = BytesOf(fed')
    BY <2>1, <2>3, <1>5
  <2> QED BY <2>3, <2>4, <2>5
<1> QED BY <1>3, <1>4, <1>8 DEF q

\* A turn of the loop.
LEMMA FlowFlush ==
    ASSUME FlowInv, Flush
    PROVE  FlowInv'
<1> USE DEF Flush
<1>1. Unset \notin Seq(Bytes)
  BY OutputAssumption
<1>2. fed' = fed \o Batch(chan) /\ chan' = <<>> /\ UNCHANGED <<pipe, wrote>>
  OBVIOUS
<1>3. PICK st \in Fed(Batch(chan)) : acc' = st.acc /\ hole' = st.hole
  OBVIOUS
<1>4. /\ fed' \in Seq(Chunks)
      /\ \A s \in Streams : Ordered(s)'
      /\ RawOK(st.acc) /\ st.hole \in BOOLEAN
      /\ st.acc.rawBytes = Len(BytesOf(fed'))
      /\ ~st.hole => FullBytes(st.acc) = BytesOf(fed')
  BY <1>1, <1>2, <1>3, FlushFeeds
<1>5. FlowTypes'
  BY <1>3, <1>4, EmptySeq DEF FlowInv, FlowTypes
<1>6. RawKept'
  BY <1>3, <1>4 DEF RawKept, FedBytes
<1>7. Emptied'
  BY DEF FlowInv, Emptied
<1> QED BY <1>4, <1>5, <1>6, <1>7 DEF FlowInv

\* The last flush, and finish.
LEMMA FlowFinish ==
    ASSUME FlowInv, Finish
    PROVE  FlowInv'
<1> USE DEF Finish
<1>1. Unset \notin Seq(Bytes)
  BY OutputAssumption
<1>2. fed' = fed \o Batch(chan) /\ chan' = <<>> /\ UNCHANGED <<pipe, wrote>>
  OBVIOUS
<1>3. PICK st \in Fed(Batch(chan)), how \in Writes :
         acc' = FinishAcc(st.acc, how)
           /\ hole' = (st.hole \/ (how = "lost" /\ acc'.spill # st.acc.spill))
  OBVIOUS
<1>4. /\ fed' \in Seq(Chunks)
      /\ \A s \in Streams : Ordered(s)'
      /\ RawOK(st.acc) /\ st.hole \in BOOLEAN
      /\ st.acc.rawBytes = Len(BytesOf(fed'))
      /\ ~st.hole => FullBytes(st.acc) = BytesOf(fed')
  BY <1>1, <1>2, <1>3, FlushFeeds
<1>5. /\ RawOK(acc') /\ acc'.rawBytes = st.acc.rawBytes
      /\ ~hole' => (FullBytes(acc') = FullBytes(st.acc) /\ ~st.hole)
  <2>1. /\ RawOK(acc') /\ acc'.rawBytes = st.acc.rawBytes
        /\ FullBytes(acc') = FullBytes(st.acc) \/ (how = "lost" /\ acc'.spill # st.acc.spill)
    BY <1>1, <1>3, <1>4, FinishKeeps
  <2>2. ~hole' => (~st.hole /\ ~(how = "lost" /\ acc'.spill # st.acc.spill))
    BY <1>3, <1>4
  <2> QED BY <2>1, <2>2
<1>6. FlowTypes'
  BY <1>3, <1>4, EmptySeq DEF FlowInv, FlowTypes
<1>7. RawKept'
  BY <1>3, <1>4, <1>5 DEF RawKept, FedBytes
<1>8. Emptied'
  BY DEF FlowInv, Emptied
<1> QED BY <1>4, <1>6, <1>7, <1>8 DEF FlowInv

\* The steps that leave channel, accumulator and what was written alone.
LEMMA FlowRest ==
    ASSUME FlowInv,
           \/ SpawnFails \/ Spawn \/ ShellExits \/ Release
           \/ Reaped \/ WaitFails \/ Deadline \/ DrainReturns
           \/ UNCHANGED outputVars
    PROVE  FlowInv'
<1>1. UNCHANGED <<pipe, chan, acc, wrote, fed, hole>>
  BY DEF SpawnFails, Spawn, ShellExits, Release, Reaped,
         WaitFails, Deadline, DrainReturns, outputVars
<1>2. FlowTypes'
  <2>1. PipesEnded \in BOOLEAN
    BY DEF PipesEnded
  <2> QED BY <1>1, <2>1 DEF FlowInv, FlowTypes, SpawnFails, Spawn, ShellExits,
         Release, Reaped, WaitFails, Deadline, DrainReturns, outputVars
<1>3. \A s \in Streams : Ordered(s)'
  BY <1>1 DEF FlowInv, Ordered, FedOf
<1>4. RawKept'
  BY <1>1 DEF FlowInv, RawKept, FedBytes
<1>5. Emptied'
  BY <1>1 DEF FlowInv, Emptied, PipesEnded, SpawnFails, Spawn, ShellExits,
         Release, Reaped, WaitFails, Deadline, DrainReturns, outputVars
<1> QED BY <1>2, <1>3, <1>4, <1>5 DEF FlowInv

\* No step of the run loses, doubles or reorders a byte.
LEMMA FlowNext ==
    ASSUME FlowInv, [OutputNext]_outputVars
    PROVE  FlowInv'
<1>1. CASE \/ SpawnFails \/ Spawn \/ ShellExits \/ Release
           \/ Reaped \/ WaitFails \/ Deadline \/ DrainReturns
           \/ Done \/ UNCHANGED outputVars
  BY <1>1, FlowRest DEF Done
<1>2. CASE Flush
  BY <1>2, FlowFlush
<1>3. CASE Finish
  BY <1>3, FlowFinish
<1>4. CASE \E s \in Streams : ReadPipe(s) \/ \E w \in Words : Write(s, w)
  BY <1>4, FlowReadPipe, FlowWrite
<1> QED BY <1>1, <1>2, <1>3, <1>4 DEF OutputNext

-----------------------------------------------------------------------------
(* Prefixes, suffixes and the two ends of the structured output. *)

\* A sequence is a prefix of whatever it is continued to.
LEMMA PrefixOfCat ==
    ASSUME NEW S, NEW u \in Seq(S), NEW v \in Seq(S)
    PROVE  IsPrefix(u, Cat(u, v))
<1>1. /\ Cat(u, v) \in Seq(S) /\ Len(Cat(u, v)) = Len(u) + Len(v)
      /\ \A i \in 1..Len(u) : Cat(u, v)[i] = u[i]
      /\ Len(u) \in Nat /\ Len(v) \in Nat
  BY ConcatProperties, LenProperties DEF Cat
<1>2. \A i \in 1..Len(u) : u[i] \in S /\ Cat(u, v)[i] \in S
  BY <1>1, ElementOfSeq
<1>3. /\ SubSeq(u, 1, Len(u)) \in Seq(S) /\ Len(SubSeq(u, 1, Len(u))) = Len(u)
      /\ \A i \in 1..Len(u) : SubSeq(u, 1, Len(u))[i] = u[i]
  BY SubSeqFull
<1> DEFINE c == Cat(u, v)
<1> HIDE DEF c
<1>4. /\ SubSeq(c, 1, Len(u)) \in Seq(S)
      /\ Len(SubSeq(c, 1, Len(u))) = IF 1 <= Len(u) THEN Len(u) - 1 + 1 ELSE 0
      /\ \A i \in 1..Len(u) - 1 + 1 : SubSeq(c, 1, Len(u))[i] = c[1 + i - 1]
  BY <1>1, <1>2, SubSeqProperties DEF c
<1>5. Len(SubSeq(c, 1, Len(u))) = Len(u)
  BY <1>1, <1>4
<1>6. \A i \in 1..Len(u) : SubSeq(c, 1, Len(u))[i] = u[i]
  BY <1>1, <1>4 DEF c
<1>7. SubSeq(c, 1, Len(u)) = SubSeq(u, 1, Len(u))
  BY <1>3, <1>4, <1>5, <1>6, SeqEqual
<1> QED BY <1>1, <1>7 DEF c, IsPrefix

\* A reversed sequence.
LEMMA ReverseLaws ==
    ASSUME NEW S, NEW u \in Seq(S)
    PROVE  /\ Reverse(u) \in Seq(S) /\ Len(Reverse(u)) = Len(u)
           /\ \A i \in 1..Len(u) : Reverse(u)[i] = u[Len(u) - i + 1]
<1>1. Len(u) \in Nat /\ \A i \in 1..Len(u) : u[i] \in S /\ Len(u) - i + 1 \in 1..Len(u)
  BY LenProperties, ElementOfSeq
<1>2. \A i \in 1..Len(u) : u[(Len(u) - i) + 1] \in S
  BY <1>1, ElementOfSeq
<1>3. [i \in 1..Len(u) |-> u[(Len(u) - i) + 1]] \in Seq(S)
  BY <1>1, <1>2, IsASeq
<1> QED BY <1>1, <1>3 DEF Reverse

\* A sequence is a suffix of whatever it continues.
LEMMA SuffixOfCat ==
    ASSUME NEW S, NEW u \in Seq(S), NEW v \in Seq(S)
    PROVE  IsSuffix(v, Cat(u, v))
<1> DEFINE c == Cat(u, v)
           x == Reverse(v)
           y == Reverse(u)
<1>1. /\ c \in Seq(S) /\ Len(c) = Len(u) + Len(v) /\ Len(u) \in Nat /\ Len(v) \in Nat
      /\ \A i \in 1..Len(u) + Len(v) : c[i] = IF i <= Len(u) THEN u[i] ELSE v[i - Len(u)]
  BY ConcatProperties, LenProperties DEF Cat
<1> HIDE DEF c
<1>2. /\ x \in Seq(S) /\ Len(x) = Len(v) /\ \A i \in 1..Len(v) : x[i] = v[Len(v) - i + 1]
      /\ y \in Seq(S) /\ Len(y) = Len(u) /\ \A i \in 1..Len(u) : y[i] = u[Len(u) - i + 1]
      /\ Reverse(c) \in Seq(S) /\ Len(Reverse(c)) = Len(c)
      /\ \A i \in 1..Len(c) : Reverse(c)[i] = c[Len(c) - i + 1]
  BY <1>1, ReverseLaws
<1> HIDE DEF x, y
<1> DEFINE z == x \o y
<1>3. /\ z \in Seq(S) /\ Len(z) = Len(v) + Len(u)
      /\ \A i \in 1..Len(v) + Len(u) : z[i] = IF i <= Len(v) THEN x[i] ELSE y[i - Len(v)]
  <2>1. x \in Seq(S) /\ y \in Seq(S) /\ Len(x) = Len(v) /\ Len(y) = Len(u)
    BY <1>2
  <2>2. /\ z \in Seq(S) /\ Len(z) = Len(x) + Len(y)
        /\ \A i \in 1..Len(x) + Len(y) : z[i] = IF i <= Len(x) THEN x[i] ELSE y[i - Len(x)]
    BY <2>1, ConcatProperties
  <2> HIDE DEF z
  <2> QED BY <2>1, <2>2
<1> HIDE DEF z
<1>4. ASSUME NEW i \in 1..Len(c) PROVE Reverse(c)[i] = z[i]
  <2>1. Reverse(c)[i] = c[Len(c) - i + 1] /\ Len(c) - i + 1 \in 1..Len(u) + Len(v)
    BY <1>1, <1>2
  <2>2. CASE i <= Len(v)
    <3>1. ~(Len(c) - i + 1 <= Len(u)) /\ Len(c) - i + 1 - Len(u) = Len(v) - i + 1 /\ i \in 1..Len(v)
      BY <1>1, <2>2
    <3>2. c[Len(c) - i + 1] = v[Len(v) - i + 1]
      BY <1>1, <2>1, <3>1
    <3>3. i \in 1..Len(v) + Len(u)
      BY <1>1
    <3>4. z[i] = x[i]
      BY <1>3, <2>2, <3>3
    <3>5. x[i] = v[Len(v) - i + 1]
      BY <1>2, <3>1
    <3> QED BY <2>1, <3>2, <3>4, <3>5
  <2>3. CASE ~(i <= Len(v))
    <3>1. /\ Len(c) - i + 1 <= Len(u) /\ Len(c) - i + 1 = Len(u) - (i - Len(v)) + 1
          /\ i - Len(v) \in 1..Len(u)
      BY <1>1, <2>3
    <3>2. c[Len(c) - i + 1] = u[Len(u) - (i - Len(v)) + 1]
      BY <1>1, <2>1, <3>1
    <3>3. i \in 1..Len(v) + Len(u)
      BY <1>1
    <3>4. z[i] = y[i - Len(v)]
      BY <1>3, <2>3, <3>3
    <3>5. y[i - Len(v)] = u[Len(u) - (i - Len(v)) + 1]
      BY <1>2, <3>1
    <3> QED BY <2>1, <3>2, <3>4, <3>5
  <2> QED BY <2>2, <2>3
<1>5. Reverse(c) = Cat(x, y)
  <2>1. Reverse(c) = z
    BY <1>1, <1>2, <1>3, <1>4, SeqEqual
  <2> QED BY <2>1 DEF z, Cat
<1>6. IsPrefix(x, Cat(x, y))
  BY <1>2, PrefixOfCat
<1> QED BY <1>5, <1>6 DEF IsSuffix, c, x

\* What each byte of b adds to the text.
Pieces(b) == [i \in 1..Len(b) |-> Decoded(b, i)]

\* What each byte adds to the text is text.
LEMMA PiecesType ==
    ASSUME NEW b \in Seq(Bytes)
    PROVE  /\ Pieces(b) \in Seq(Seq(Chars)) /\ Len(Pieces(b)) = Len(b)
           /\ FlattenSeq(Pieces(b)) \in Seq(Chars)
<1>1. Len(b) \in Nat /\ \A i \in 1..Len(b) : b[i] \in Bytes
  BY LenProperties, ElementOfSeq
<1>2. ASSUME NEW c \in Chars PROVE <<c>> \in Seq(Chars)
  BY CatOne, EmptySeq
<1>3. ASSUME NEW i \in 1..Len(b) PROVE Decoded(b, i) \in Seq(Chars)
  <2>1. "m" \in Chars /\ "r" \in Chars /\ <<>> \in Seq(Chars)
    BY EmptySeq DEF Chars
  <2>2. b[i] \in {"L", "C"} \/ b[i] \in Chars
    BY <1>1 DEF Chars, Bytes
  <2>3. Decoded(b, i) \in {<<>>, <<"m">>, <<"r">>} \/ (b[i] \in Chars /\ Decoded(b, i) = <<b[i]>>)
    BY <1>1, <2>2 DEF Decoded, Bytes, Chars
  <2> QED BY <2>1, <2>3, <1>2
<1>4. Pieces(b) \in Seq(Seq(Chars)) /\ Len(Pieces(b)) = Len(b)
  BY <1>1, <1>3, IsASeq DEF Pieces
<1>5. FlattenSeq(Pieces(b)) \in Seq(Chars)
  BY <1>4, FlattenAppend, EmptySeq
<1> QED BY <1>4, <1>5

\* The text of the first bytes is the start of the text.
LEMMA HeadIsPrefix ==
    ASSUME NEW b \in Seq(Bytes), NEW h \in 1..Len(b)
    PROVE  /\ SubSeq(b, 1, h) \in Seq(Bytes)
           /\ \E r \in Seq(Chars) :
                 FlattenSeq(Pieces(b)) = Cat(FlattenSeq(Pieces(SubSeq(b, 1, h))), r)
<1> DEFINE a == SubSeq(b, 1, h)
           p == Pieces(b)
<1>1. Len(b) \in Nat /\ \A i \in 1..Len(b) : b[i] \in Bytes
  BY LenProperties, ElementOfSeq
<1>2. \A i \in 1..h : b[i] \in Bytes
  BY <1>1
<1>3. a \in Seq(Bytes) /\ Len(a) = h /\ \A i \in 1..h : a[i] = b[i]
  <2>1. /\ a \in Seq(Bytes) /\ Len(a) = IF 1 <= h THEN h - 1 + 1 ELSE 0
        /\ \A i \in 1..h - 1 + 1 : a[i] = b[1 + i - 1]
    BY <1>1, <1>2, SubSeqProperties
  <2> HIDE DEF a
  <2>2. h - 1 + 1 = h /\ 1 <= h /\ \A i \in 1..h : 1 + i - 1 = i
    BY <1>1
  <2> QED BY <2>1, <2>2
<1> HIDE DEF a
<1>4. p \in Seq(Seq(Chars)) /\ Len(p) = Len(b)
  BY PiecesType
<1>5. Pieces(a) \in Seq(Seq(Chars)) /\ Len(Pieces(a)) = h
  BY <1>3, PiecesType
<1>6. ASSUME NEW i \in 1..h, i # h \/ b[i] # "L" PROVE Pieces(a)[i] = p[i]
  <2>1. i \in 1..Len(b) /\ a[i] = b[i] /\ (i > 1 => a[i - 1] = b[i - 1]) /\ (i < h => a[i + 1] = b[i + 1])
    BY <1>1, <1>3
  <2>2. Decoded(a, i) = Decoded(b, i)
    BY <1>1, <1>3, <1>6, <2>1 DEF Decoded
  <2> QED BY <1>3, <2>1, <2>2 DEF Pieces
<1>7. ASSUME b[h] = "L" PROVE Pieces(a)[h] = <<>>
  <2>1. h \in 1..Len(a) /\ a[h] = "L"
    BY <1>3, <1>7
  <2>2. Decoded(a, h) = <<>>
    BY <1>3, <2>1 DEF Decoded
  <2> QED BY <2>1, <2>2 DEF Pieces
<1> HIDE DEF p
\* Cut the pieces of b at k: those before k are pieces of a, too.
<1> DEFINE k == IF b[h] = "L" THEN h - 1 ELSE h
           x == SubSeq(p, 1, k)
           y == SubSeq(p, k + 1, Len(b))
<1>8. k \in 0..Len(b) /\ k <= h
  BY <1>1
<1>9. x \in Seq(Seq(Chars)) /\ y \in Seq(Seq(Chars)) /\ p = Cat(x, y)
  <2>1. \A i \in 1..Len(b) : p[i] \in Seq(Chars)
    BY <1>4, ElementOfSeq
  <2> HIDE DEF k
  <2>2. x \in Seq(Seq(Chars))
    <3>1. \A i \in 1..k : p[i] \in Seq(Chars)
      BY <1>8, <2>1
    <3> QED BY <3>1, <1>8, SubSeqProperties
  <2>3. y \in Seq(Seq(Chars))
    <3>1. \A i \in k + 1..Len(b) : p[i] \in Seq(Chars)
      BY <1>8, <2>1
    <3> QED BY <3>1, <1>1, <1>8, SubSeqProperties
  <2>4. SubSeq(p, 1, k) \o SubSeq(p, k + 1, Len(b)) = SubSeq(p, 1, Len(b))
    <3>1. p \in Seq(Seq(Chars)) /\ 1 \in 1..Len(p) + 1 /\ k \in 1 - 1..Len(p) /\ Len(b) \in k..Len(p)
      BY <1>1, <1>4, <1>8
    <3> HIDE DEF x, y
    <3> QED BY <3>1, ConcatAdjacentSubSeq
  <2>5. SubSeq(p, 1, Len(p)) = p
    BY <1>4, SubSeqFull
  <2> QED BY <2>2, <2>3, <2>4, <2>5, <1>4 DEF Cat
<1>10. Len(x) = k /\ \A i \in 1..k : x[i] = p[i]
  <2>1. \A i \in 1..k : p[i] \in Seq(Chars)
    BY <1>4, <1>8, ElementOfSeq
  <2> HIDE DEF k
  <2>2. /\ Len(x) = IF 1 <= k THEN k - 1 + 1 ELSE 0
        /\ \A i \in 1..k - 1 + 1 : x[i] = p[1 + i - 1]
    BY <1>8, <2>1, SubSeqProperties
  <2> HIDE DEF x
  <2>3. k - 1 + 1 = k /\ k >= 0 /\ (~(1 <= k) => k = 0)
    BY <1>8
  <2>4. Len(x) = k
    BY <2>2, <2>3
  <2>5. ASSUME NEW i \in 1..k PROVE x[i] = p[i]
    <3>1. i \in 1..k - 1 + 1 /\ 1 + i - 1 = i
      BY <1>8
    <3> QED BY <2>2, <3>1
  <2> QED BY <2>4, <2>5
<1> HIDE DEF x, y
<1>11. FlattenSeq(x) \in Seq(Chars) /\ FlattenSeq(y) \in Seq(Chars)
  BY <1>9, FlattenAppend, EmptySeq
<1>12. FlattenSeq(Pieces(a)) = FlattenSeq(x)
  <2>1. CASE b[h] = "L"
    <3>1. k = h - 1
      BY <2>1
    <3> HIDE DEF k
    <3>2. /\ Append(x, <<>>) \in Seq(Seq(Chars)) /\ Len(Append(x, <<>>)) = k + 1
          /\ \A i \in 1..k : Append(x, <<>>)[i] = x[i]
          /\ Append(x, <<>>)[k + 1] = <<>>
      BY <1>9, <1>10, EmptySeq, AppendProperties
    <3>3. ASSUME NEW i \in 1..h PROVE Pieces(a)[i] = Append(x, <<>>)[i]
      <4>1. CASE i = h
        BY <4>1, <1>7, <2>1, <3>1, <3>2
      <4>2. CASE i # h
        <5>1. i \in 1..k
          BY <4>2, <3>1
        <5>2. Pieces(a)[i] = p[i]
          BY <4>2, <1>6
        <5> QED BY <5>1, <5>2, <3>2, <1>10
      <4> QED BY <4>1, <4>2
    <3>4. Pieces(a) = Append(x, <<>>)
      <4>1. Len(Append(x, <<>>)) = h
        BY <3>1, <3>2
      <4> QED BY <1>5, <3>2, <3>3, <4>1, SeqEqual
    <3>5. FlattenSeq(Append(x, <<>>)) = Cat(FlattenSeq(x), <<>>)
      BY <1>9, EmptySeq, FlattenAppend
    <3> QED BY <3>4, <3>5, <1>11, CatEmpty
  <2>2. CASE b[h] # "L"
    <3>1. k = h
      BY <2>2
    <3> HIDE DEF k
    <3>2. \A i \in 1..h : Pieces(a)[i] = x[i]
      BY <1>6, <1>10, <2>2, <3>1
    <3>3. Pieces(a) = x
      BY <1>5, <1>9, <1>10, <3>1, <3>2, SeqEqual
    <3> QED BY <3>3
  <2> QED BY <2>1, <2>2
<1>13. FlattenSeq(p) = Cat(FlattenSeq(x), FlattenSeq(y))
  BY <1>9, FlattenCat
<1> QED BY <1>3, <1>11, <1>12, <1>13 DEF p, a

\* What is left over once the whole of b is decoded.
Rest(b) == Flushed(DecodeSlice(b).left)

\* The text of a stream: its pieces, and a U+FFFD for an incomplete end.
LEMMA LossyIs ==
    ASSUME NEW b \in Seq(Bytes)
    PROVE  /\ Lossy(b) = Cat(FlattenSeq(Pieces(b)), Rest(b))
           /\ DecodeSlice(b).text = FlattenSeq(Pieces(b))
           /\ Rest(b) = IF b # <<>> /\ b[Len(b)] = "L" THEN <<"r">> ELSE <<>>
           /\ Rest(b) \in Seq(Chars)
           /\ Lossy(b) \in Seq(Chars)
<1>1. DecodeSlice(b).text = FlattenSeq(Pieces(b))
  BY DEF DecodeSlice, Pieces
<1>2. Lossy(b) = Cat(FlattenSeq(Pieces(b)), Rest(b))
  BY <1>1 DEF Lossy, Cat, Rest
<1>3. Rest(b) = IF b # <<>> /\ b[Len(b)] = "L" THEN <<"r">> ELSE <<>>
  <2>1. DecodeSlice(b).left = IF b # <<>> /\ b[Len(b)] = "L" THEN <<"L">> ELSE <<>>
    BY DEF DecodeSlice, Last
  <2>2. <<"L">> # <<>>
    OBVIOUS
  <2> QED BY <2>1, <2>2 DEF Rest, Flushed
<1>4. Rest(b) \in Seq(Chars)
  <2>1. "r" \in Chars /\ <<>> \in Seq(Chars)
    BY EmptySeq DEF Chars
  <2>2. <<"r">> \in Seq(Chars)
    BY <2>1, CatOne
  <2> QED BY <1>3, <2>1, <2>2
<1>5. Lossy(b) \in Seq(Chars)
  BY <1>2, <1>4, PiecesType, CatType
<1> QED BY <1>1, <1>2, <1>3, <1>4, <1>5

\* The text of the bytes from a character on is the end of the text.
LEMMA TailIsSuffix ==
    ASSUME NEW b \in Seq(Bytes), NEW j \in 1..Len(b), b[j] # "C"
    PROVE  /\ SubSeq(b, j, Len(b)) \in Seq(Bytes)
           /\ \E r \in Seq(Chars) :
                 Lossy(b) = Cat(r, Lossy(SubSeq(b, j, Len(b))))
<1> DEFINE n == Len(b)
           a == SubSeq(b, j, n)
           p == Pieces(b)
<1>1. n \in Nat /\ \A i \in 1..n : b[i] \in Bytes
  BY LenProperties, ElementOfSeq
<1>2. j \in 1..n /\ j \in Nat /\ j >= 1 /\ j <= n
  BY <1>1
<1> HIDE DEF n
<1>3. /\ a \in Seq(Bytes) /\ Len(a) = n - j + 1
      /\ \A i \in 1..n - j + 1 : a[i] = b[j + i - 1]
  <2>1. \A i \in j..n : b[i] \in Bytes
    BY <1>1, <1>2
  <2> QED BY <1>1, <1>2, <2>1, SubSeqProperties
<1> HIDE DEF a
<1>4. p \in Seq(Seq(Chars)) /\ Len(p) = n
  BY PiecesType DEF n
<1>5. Pieces(a) \in Seq(Seq(Chars)) /\ Len(Pieces(a)) = n - j + 1
  BY <1>3, PiecesType
<1>6. ASSUME NEW i \in 1..n - j + 1 PROVE Pieces(a)[i] = p[j + i - 1]
  <2> DEFINE h == j + i - 1
  <2>1. /\ h \in 1..n /\ i \in 1..Len(a) /\ a[i] = b[h] /\ (i = Len(a) <=> h = n)
        /\ (i < Len(a) <=> h < n) /\ (i > 1 => h > 1)
    BY <1>1, <1>2, <1>3
  <2>2. i > 1 => a[i - 1] = b[h - 1]
    <3>1. i > 1 => i - 1 \in 1..n - j + 1 /\ j + (i - 1) - 1 = h - 1
      BY <1>1, <1>2
    <3> QED BY <3>1, <1>3
  <2>3. i < Len(a) => a[i + 1] = b[h + 1]
    <3>1. i < Len(a) => i + 1 \in 1..n - j + 1 /\ j + (i + 1) - 1 = h + 1
      BY <1>1, <1>2, <1>3
    <3> QED BY <3>1, <1>3
  <2>4. ~(i > 1) => h = j
    BY <1>2
  <2>5. ~(i > 1) => a[i] # "C"
    BY <2>1, <2>4
  <2> HIDE DEF h
  <2>6. Decoded(a, i) = Decoded(b, h)
    BY <2>1, <2>2, <2>3, <2>5 DEF Decoded, n
  <2> QED BY <2>1, <2>6 DEF Pieces, n, h
<1> HIDE DEF p
<1> DEFINE x == SubSeq(p, 1, j - 1)
           y == SubSeq(p, j, n)
<1>7. \A i \in 1..n : p[i] \in Seq(Chars)
  BY <1>4, ElementOfSeq
<1>8. x \in Seq(Seq(Chars))
  <2>1. \A i \in 1..j - 1 : p[i] \in Seq(Chars)
    BY <1>1, <1>2, <1>7
  <2> QED BY <2>1, <1>2, SubSeqProperties
<1>9. /\ y \in Seq(Seq(Chars)) /\ Len(y) = n - j + 1
      /\ \A i \in 1..n - j + 1 : y[i] = p[j + i - 1]
  <2>1. \A i \in j..n : p[i] \in Seq(Chars)
    BY <1>1, <1>2, <1>7
  <2> QED BY <2>1, <1>1, <1>2, SubSeqProperties
<1>10. p = Cat(x, y)
  <2>1. 1 \in 1..Len(p) + 1 /\ j - 1 \in 1 - 1..Len(p) /\ n \in j - 1..Len(p) /\ j - 1 + 1 = j
    BY <1>1, <1>2, <1>4
  <2>2. SubSeq(p, 1, j - 1) \o SubSeq(p, j - 1 + 1, n) = SubSeq(p, 1, n)
    BY <1>4, <2>1, ConcatAdjacentSubSeq
  <2>3. SubSeq(p, 1, n) = p
    BY <1>4, SubSeqFull
  <2> QED BY <2>1, <2>2, <2>3 DEF Cat
<1>11. Pieces(a) = y
  <2> HIDE DEF y
  <2>1. ASSUME NEW i \in 1..n - j + 1 PROVE Pieces(a)[i] = y[i]
    BY <1>6, <1>9
  <2> QED BY <1>5, <1>9, <2>1, SeqEqual
<1> HIDE DEF x, y
<1>12. Rest(a) = Rest(b)
  <2>1. n - j + 1 \in 1..n - j + 1 /\ j + (n - j + 1) - 1 = n
    BY <1>1, <1>2
  <2>2. a[Len(a)] = b[n]
    BY <1>3, <2>1
  <2>3. a # <<>> /\ b # <<>>
    BY <1>1, <1>2, <1>3, EmptySeq DEF n
  <2> QED BY <1>3, <2>2, <2>3, LossyIs DEF n
<1> DEFINE fx == FlattenSeq(x)
           fy == FlattenSeq(y)
<1>13. fx \in Seq(Chars) /\ fy \in Seq(Chars)
  BY <1>8, <1>9, FlattenAppend, EmptySeq
<1>14. FlattenSeq(p) = Cat(fx, fy)
  BY <1>8, <1>9, <1>10, FlattenCat
<1> HIDE DEF fx, fy
<1>15. Lossy(b) = Cat(Cat(fx, fy), Rest(b)) /\ Rest(b) \in Seq(Chars)
  BY <1>14, LossyIs DEF p
<1>16. Lossy(a) = Cat(fy, Rest(b))
  BY <1>3, <1>11, <1>12, LossyIs DEF fy
<1>17. Lossy(b) = Cat(fx, Lossy(a))
  BY <1>13, <1>15, <1>16, CatAssociative
<1> QED BY <1>3, <1>13, <1>17 DEF a, n

\* A set of natural numbers that is not empty has a least element.
LEMMA LeastExists ==
    ASSUME NEW m \in Nat, NEW n \in Nat, NEW S \in SUBSET (m..n), S # {}
    PROVE  \E k \in S : \A i \in S : k <= i
<1> DEFINE T == {d \in Nat : (\E i \in S : i <= d) => \E k \in S : \A i \in S : k <= i}
<1>1. 0 \in T
  <2>1. \A i \in S : i \in Nat
    OBVIOUS
  <2> QED BY <2>1
<1>2. ASSUME NEW d \in Nat, d \in T PROVE d + 1 \in T
  <2>1. \A i \in S : i \in Nat
    OBVIOUS
  <2>2. CASE \E i \in S : i <= d
    BY <1>2, <2>2
  <2>3. CASE ~\E i \in S : i <= d
    <3>1. \A i \in S : d + 1 <= i
      BY <2>1, <2>3
    <3>2. ASSUME NEW k \in S, k <= d + 1 PROVE \A i \in S : k <= i
      BY <2>1, <3>1, <3>2
    <3> QED BY <3>2
  <2> QED BY <2>2, <2>3
<1>3. \A d \in Nat : d \in T
  <2> HIDE DEF T
  <2> QED BY <1>1, <1>2, NatInduct
<1>4. PICK i \in S : TRUE
  OBVIOUS
<1>5. i \in Nat /\ i <= i
  OBVIOUS
<1>6. i \in T
  <2> HIDE DEF T
  <2> QED BY <1>3, <1>5
<1> QED BY <1>5, <1>6

\* The two ends of a capped output are a prefix and a suffix of its text.
LEMMA StructuredEnds ==
    ASSUME NEW a, FullBytes(a) \in Seq(Bytes)
    PROVE  LET full == FullBytes(a)
               st   == Structured(a)
           IN  /\ IsPrefix(st.head, Lossy(full))
               /\ IF st.capped THEN IsSuffix(st.tail, Lossy(full))
                  ELSE st.head = Lossy(full)
<1> DEFINE b    == FullBytes(a)
           half == StructLimit \div 2
           from == Len(b) - (StructLimit - half) + 1
           text == Lossy(b)
           capped == ~(a.spill = Unset \/ Len(b) <= StructLimit)
<1>1. b \in Seq(Bytes) /\ Len(b) \in Nat
  BY LenProperties
<1>2. text \in Seq(Chars)
  BY <1>1, LossyIs
<1>3. StructLimit \in Nat /\ half \in Nat /\ 1 <= half /\ half <= StructLimit
  BY OutputAssumption, TextAssumption
<1>4. Structured(a) =
        IF ~capped THEN [head |-> text, tail |-> <<>>, capped |-> FALSE]
        ELSE [head |-> DecodeSlice(SubSeq(b, 1, half)).text,
              tail |-> Lossy(FromCharacter(b, from)), capped |-> TRUE]
  BY DEF Structured
<1>5. CASE ~capped
  <2>1. IsPrefix(text, Cat(text, <<>>))
    BY <1>2, EmptySeq, PrefixOfCat
  <2>2. Cat(text, <<>>) = text
    BY <1>2, CatEmpty
  <2> HIDE DEF text, b, capped
  <2>3. /\ Structured(a).head = text /\ Structured(a).capped = FALSE
    BY <1>4, <1>5
  <2> QED BY <2>1, <2>2, <2>3 DEF text, b
<1>6. CASE capped
  <2>1. half \in 1..Len(b) /\ from \in Nat
    BY <1>1, <1>3, <1>6
  <2> DEFINE hd == DecodeSlice(SubSeq(b, 1, half)).text
             tl == Lossy(FromCharacter(b, from))
  <2> HIDE DEF b, half, from
  <2>2. IsPrefix(hd, text)
    <3>1. SubSeq(b, 1, half) \in Seq(Bytes)
      BY <1>1, <2>1, HeadIsPrefix
    <3>2. hd = FlattenSeq(Pieces(SubSeq(b, 1, half)))
      BY <3>1, LossyIs
    <3>3. PICK r \in Seq(Chars) :
             FlattenSeq(Pieces(b)) = Cat(FlattenSeq(Pieces(SubSeq(b, 1, half))), r)
      BY <1>1, <2>1, HeadIsPrefix
    <3>4. hd \in Seq(Chars)
      BY <3>1, <3>2, PiecesType
    <3>5. text = Cat(FlattenSeq(Pieces(b)), Rest(b)) /\ Rest(b) \in Seq(Chars)
      BY <1>1, LossyIs
    <3>6. text = Cat(hd, Cat(r, Rest(b)))
      <4> HIDE DEF hd, text
      <4>1. text = Cat(Cat(hd, r), Rest(b))
        BY <3>2, <3>3, <3>5
      <4> QED BY <3>4, <3>5, <4>1, CatAssociative
    <3>7. Cat(r, Rest(b)) \in Seq(Chars)
      BY <3>5, CatType
    <3> HIDE DEF hd, text
    <3>8. IsPrefix(hd, Cat(hd, Cat(r, Rest(b))))
      BY <3>4, <3>7, PrefixOfCat
    <3> QED BY <3>6, <3>8
  <2>3. IsSuffix(tl, text)
    <3> DEFINE starts == {j \in from..Len(b) : b[j] # "C"}
    <3>1. CASE starts = {}
      <4>1. FromCharacter(b, from) = <<>>
        BY <3>1 DEF FromCharacter
      <4>2. tl = <<>>
        <5>1. <<>> \in Seq(Bytes) /\ Len(<<>>) = 0
          BY EmptySeq
        <5>2. Pieces(<<>>) = <<>>
          <6>1. Pieces(<<>>) \in Seq(Seq(Chars)) /\ Len(Pieces(<<>>)) = 0
            BY <5>1, PiecesType
          <6> QED BY <6>1, EmptySeq
        <5>3. Lossy(<<>>) = Cat(<<>>, <<>>)
          BY <5>1, <5>2, FlattenEmpty, LossyIs
        <5>4. Cat(<<>>, <<>>) = <<>>
          BY EmptySeq, CatEmpty
        <5> QED BY <4>1, <5>3, <5>4
      <4>3. <<>> \in Seq(Chars)
        BY EmptySeq
      <4> HIDE DEF text, tl
      <4>4. IsSuffix(<<>>, Cat(text, <<>>))
        BY <1>2, <4>3, SuffixOfCat
      <4> QED BY <1>2, <4>2, <4>4, CatEmpty
    <3>2. CASE starts # {}
      <4> DEFINE j == Min(starts)
      <4>1. FromCharacter(b, from) = SubSeq(b, j, Len(b))
        BY <3>2 DEF FromCharacter
      <4>2. j \in starts
        <5>1. \E k \in starts : \A i \in starts : k <= i
          BY <3>2, <2>1, <1>1, LeastExists
        <5> QED BY <5>1 DEF Min
      <4>3. j \in 1..Len(b) /\ b[j] # "C"
        <5>1. from >= 1
          BY <1>1, <1>3, <1>6 DEF b, from
        <5> HIDE DEF j
        <5> QED BY <1>1, <2>1, <4>2, <5>1
      <4> HIDE DEF j
      <4>4. PICK r \in Seq(Chars) : text = Cat(r, Lossy(SubSeq(b, j, Len(b))))
        BY <1>1, <4>3, TailIsSuffix
      <4>5. SubSeq(b, j, Len(b)) \in Seq(Bytes)
        BY <1>1, <4>3, TailIsSuffix
      <4>6. tl \in Seq(Chars) /\ text = Cat(r, tl)
        BY <4>1, <4>4, <4>5, LossyIs
      <4> HIDE DEF text, tl
      <4> QED BY <4>6, SuffixOfCat
    <3> QED BY <3>1, <3>2
  <2> HIDE DEF text, capped
  <2>4. /\ Structured(a).head = hd /\ Structured(a).tail = tl
        /\ Structured(a).capped = TRUE
    BY <1>4, <1>6
  <2> HIDE DEF hd, tl
  <2> QED BY <2>2, <2>3, <2>4 DEF text, b
<1> QED BY <1>5, <1>6

\* The flow and its answer: what StreamKept says follows from FlowInv.
LEMMA FlowGivesStreamKept ==
    ASSUME FlowInv
    PROVE  StreamKept
<1> DEFINE F(s) == FedOf(s)
           C(s) == BytesOf(OfStream(chan, s))
           W(s) == FlattenSeq(wrote[s])
<1>1. ASSUME NEW s \in Streams
      PROVE  /\ F(s) \in Seq(Bytes) /\ C(s) \in Seq(Bytes) /\ pipe[s] \in Seq(Bytes)
             /\ Cat(Cat(F(s), C(s)), pipe[s]) = W(s)
  <2>1. fed \in Seq(Chunks) /\ chan \in Seq(Chunks) /\ pipe[s] \in Seq(Bytes)
    BY DEF FlowInv, FlowTypes
  <2>2. OfStream(fed, s) \in Seq(Chunks) /\ OfStream(chan, s) \in Seq(Chunks)
    BY <2>1, OfStreamLaws
  <2>3. F(s) \in Seq(Bytes) /\ C(s) \in Seq(Bytes)
    BY <2>2, BytesOfLaws DEF FedOf
  <2>4. Cat(Cat(F(s), C(s)), pipe[s]) = W(s)
    BY DEF FlowInv, Ordered
  <2> QED BY <2>1, <2>3, <2>4
<1>2. ASSUME NEW s \in Streams PROVE IsPrefix(FedOf(s), FlattenSeq(wrote[s]))
  <2>1. /\ F(s) \in Seq(Bytes) /\ C(s) \in Seq(Bytes) /\ pipe[s] \in Seq(Bytes)
        /\ Cat(Cat(F(s), C(s)), pipe[s]) = W(s)
    BY <1>1
  <2> HIDE DEF F, C, W
  <2>2. Cat(F(s), Cat(C(s), pipe[s])) = W(s) /\ Cat(C(s), pipe[s]) \in Seq(Bytes)
    <3>1. Cat(C(s), pipe[s]) \in Seq(Bytes)
      BY <2>1, CatType
    <3>2. Cat(Cat(F(s), C(s)), pipe[s]) = Cat(F(s), Cat(C(s), pipe[s]))
      BY <2>1, CatAssociative
    <3> QED BY <2>1, <3>1, <3>2
  <2>3. IsPrefix(F(s), W(s))
    BY <2>1, <2>2, PrefixOfCat
  <2> QED BY <2>3 DEF F, W
<1>3. ASSUME phase = "done", ~lapsed, NEW s \in Streams
      PROVE  FedOf(s) = FlattenSeq(wrote[s])
  <2>1. chan = <<>> /\ pipe[s] = <<>>
    BY <1>3 DEF FlowInv, Emptied
  <2>2. C(s) = <<>>
    BY <2>1, OfStreamLaws, BytesOfLaws
  <2>3. F(s) \in Seq(Bytes) /\ Cat(Cat(F(s), <<>>), <<>>) = W(s)
    BY <1>1, <2>1, <2>2
  <2> HIDE DEF F, W
  <2>4. F(s) = W(s)
    BY <2>3, CatEmpty
  <2> QED BY <2>4 DEF F, W
<1>4. ~hole => FullBytes(acc) = FedBytes
  BY DEF FlowInv, RawKept
<1>5. FullBytes(acc) \in Seq(Bytes)
  BY DEF FlowInv, RawKept, RawOK, FullBytes
<1>6. LET full == FullBytes(acc)
          st   == Structured(acc)
      IN  /\ IsPrefix(st.head, Lossy(full))
          /\ IF st.capped THEN IsSuffix(st.tail, Lossy(full))
             ELSE st.head = Lossy(full)
  BY <1>5, StructuredEnds
<1> QED BY <1>2, <1>3, <1>4, <1>6 DEF StreamKept

\* The flow from the pipes to the accumulator (read_pipe, flush_pending, append)
\* keeps every byte of a stream in one place, and in order.
THEOREM OutputInductive == OutputSpec => []FlowInv
<1>1. OutputInit => FlowInv
  BY FlowInit
<1>2. FlowInv /\ [OutputNext]_outputVars => FlowInv'
  BY FlowNext
<1> QED BY <1>1, <1>2, PTL DEF OutputSpec

\* Nothing of either pipe is reordered, doubled or lost before the answer, unless
\* the grace period of drain_readers ended first, and the structured output is
\* that stream or its two ends.
THEOREM StreamIsKept == OutputSpec => []StreamKept
<1>1. FlowInv => StreamKept
  BY FlowGivesStreamKept
<1>2. OutputSpec => []FlowInv
  BY OutputInductive
<1> QED BY <1>1, <1>2, PTL
-----------------------------------------------------------------------------
(* The lines of a text. *)

\* The members of S up to n, in ascending order.
Ascending(n, S) == FlattenSeq([i \in 1..n |-> IF i \in S THEN <<i>> ELSE <<>>])

\* One number more.
LEMMA AscendingStep ==
    ASSUME NEW n \in Nat, NEW S
    PROVE  /\ Ascending(0, S) = <<>>
           /\ Ascending(n, S) \in Seq(Nat)
           /\ Ascending(n + 1, S) = IF n + 1 \in S THEN Append(Ascending(n, S), n + 1)
                                    ELSE Ascending(n, S)
<1> DEFINE P(k) == [i \in 1..k |-> IF i \in S THEN <<i>> ELSE <<>>]
           e == IF n + 1 \in S THEN <<n + 1>> ELSE <<>>
<1>1. ASSUME NEW k \in Nat PROVE P(k) \in Seq(Seq(Nat)) /\ Len(P(k)) = k
  <2>1. \A i \in 1..k : (IF i \in S THEN <<i>> ELSE <<>>) \in Seq(Nat)
    OBVIOUS
  <2> QED BY <2>1, IsASeq
<1>2. e \in Seq(Nat)
  OBVIOUS
<1>3. P(n + 1) = Append(P(n), e)
  <2> DEFINE q == P(n)
             r == P(n + 1)
  <2>1. /\ q \in Seq(Seq(Nat)) /\ Len(q) = n /\ r \in Seq(Seq(Nat)) /\ Len(r) = n + 1
    BY <1>1
  <2>2. \A i \in 1..n : r[i] = q[i]
    OBVIOUS
  <2>3. r[n + 1] = e
    OBVIOUS
  <2> HIDE DEF q, r, e
  <2>4. /\ Append(q, e) \in Seq(Seq(Nat)) /\ Len(Append(q, e)) = n + 1
        /\ \A i \in 1..n : Append(q, e)[i] = q[i]
        /\ Append(q, e)[n + 1] = e
    BY <2>1, <1>2, AppendProperties
  <2>5. ASSUME NEW i \in 1..n + 1 PROVE r[i] = Append(q, e)[i]
    <3>1. i \in 1..n \/ i = n + 1
      OBVIOUS
    <3> QED BY <3>1, <2>2, <2>3, <2>4
  <2>6. r = Append(q, e)
    BY <2>1, <2>4, <2>5, SeqEqual
  <2> QED BY <2>6 DEF q, r
<1>4. Ascending(n, S) = FlattenSeq(P(n)) /\ Ascending(n + 1, S) = FlattenSeq(P(n + 1))
  BY DEF Ascending
<1>5. Ascending(0, S) = <<>>
  <2>1. [i \in 1..0 |-> IF i \in S THEN <<i>> ELSE <<>>] = <<>>
    OBVIOUS
  <2> QED BY <2>1, FlattenEmpty DEF Ascending
<1>6. P(n) \in Seq(Seq(Nat))
  BY <1>1
<1> HIDE DEF P
<1>7. /\ Ascending(n, S) \in Seq(Nat)
      /\ Ascending(n + 1, S) = Cat(Ascending(n, S), e)
  <2> HIDE DEF e
  <2>1. /\ FlattenSeq(P(n)) \in Seq(Nat)
        /\ FlattenSeq(Append(P(n), e)) = Cat(FlattenSeq(P(n)), e)
    BY <1>2, <1>6, FlattenAppend
  <2> QED BY <1>3, <1>4, <2>1
<1>8. CASE n + 1 \in S
  <2>1. Append(Ascending(n, S), n + 1) = Cat(Ascending(n, S), <<n + 1>>)
    BY <1>7, CatOne
  <2> QED BY <1>5, <1>7, <1>8, <2>1
<1>9. CASE n + 1 \notin S
  BY <1>5, <1>7, <1>9, CatEmpty
<1> QED BY <1>8, <1>9

\* It holds the members of S, in order, each once.
LEMMA AscendingLaws ==
    ASSUME NEW n \in Nat, NEW S
    PROVE  /\ Ascending(n, S) \in Seq(Nat)
           /\ \A k \in 1..Len(Ascending(n, S)) : Ascending(n, S)[k] \in S /\ Ascending(n, S)[k] \in 1..n
           /\ \A k, l \in 1..Len(Ascending(n, S)) : k < l => Ascending(n, S)[k] < Ascending(n, S)[l]
           /\ \A j \in 1..n : j \in S => \E k \in 1..Len(Ascending(n, S)) : Ascending(n, S)[k] = j
<1> DEFINE Good(m) == LET a == Ascending(m, S) IN
             /\ a \in Seq(Nat)
             /\ \A k \in 1..Len(a) : a[k] \in S /\ a[k] \in 1..m
             /\ \A k, l \in 1..Len(a) : k < l => a[k] < a[l]
             /\ \A j \in 1..m : j \in S => \E k \in 1..Len(a) : a[k] = j
           T == {m \in Nat : Good(m)}
<1>1. 0 \in T
  <2>1. Ascending(0, S) = <<>>
    BY AscendingStep
  <2>2. Ascending(0, S) \in Seq(Nat) /\ Len(Ascending(0, S)) = 0
    BY <2>1, EmptySeq
  <2>3. 1..0 = {}
    OBVIOUS
  <2> QED BY <2>2, <2>3
<1>2. ASSUME NEW m \in Nat, m \in T PROVE m + 1 \in T
  <2> DEFINE a == Ascending(m, S)
             b == Ascending(m + 1, S)
  <2>1. /\ a \in Seq(Nat) /\ \A k \in 1..Len(a) : a[k] \in S /\ a[k] \in 1..m
        /\ \A k, l \in 1..Len(a) : k < l => a[k] < a[l]
        /\ \A j \in 1..m : j \in S => \E k \in 1..Len(a) : a[k] = j
        /\ Len(a) \in Nat
    BY <1>2, LenProperties
  <2>2. b = IF m + 1 \in S THEN Append(a, m + 1) ELSE a
    BY AscendingStep
  <2> HIDE DEF a, b
  <2>3. CASE m + 1 \in S
    <3>1. /\ b \in Seq(Nat) /\ Len(b) = Len(a) + 1
          /\ \A k \in 1..Len(a) : b[k] = a[k]
          /\ b[Len(a) + 1] = m + 1
      BY <2>1, <2>2, <2>3, AppendProperties
    <3>2. ASSUME NEW k \in 1..Len(b) PROVE b[k] \in S /\ b[k] \in 1..m + 1
      <4>1. k \in 1..Len(a) \/ k = Len(a) + 1
        BY <2>1, <3>1
      <4>2. CASE k \in 1..Len(a)
        <5>1. b[k] = a[k] /\ a[k] \in S /\ a[k] \in 1..m
          BY <4>2, <2>1, <3>1
        <5> QED BY <5>1
      <4>3. CASE k = Len(a) + 1
        <5>1. b[k] = m + 1 /\ m + 1 \in 1..m + 1
          BY <4>3, <3>1
        <5> QED BY <5>1, <2>3
      <4> QED BY <4>1, <4>2, <4>3
    <3>3. ASSUME NEW k \in 1..Len(b), NEW l \in 1..Len(b), k < l PROVE b[k] < b[l]
      <4>1. k \in 1..Len(a) /\ (l \in 1..Len(a) \/ l = Len(a) + 1)
        <5>1. Len(b) = Len(a) + 1 /\ Len(a) \in Nat
          BY <2>1, <3>1
        <5> HIDE DEF Good
        <5>2. k \in 1..Len(a) + 1 /\ l \in 1..Len(a) + 1
          BY <5>1
        <5> QED BY <5>1, <5>2, <3>3
      <4>2. CASE l \in 1..Len(a)
        <5>1. b[k] = a[k] /\ b[l] = a[l]
          BY <4>1, <4>2, <3>1
        <5> QED BY <5>1, <4>1, <4>2, <3>3, <2>1
      <4>3. CASE l = Len(a) + 1
        <5>1. b[k] = a[k] /\ b[l] = m + 1 /\ a[k] \in 1..m
          BY <4>1, <4>3, <3>1, <2>1
        <5> QED BY <5>1
      <4> QED BY <4>1, <4>2, <4>3
    <3>4. ASSUME NEW j \in 1..m + 1, j \in S PROVE \E k \in 1..Len(b) : b[k] = j
      <4>1. CASE j = m + 1
        <5>1. Len(a) + 1 \in 1..Len(b)
          BY <2>1, <3>1
        <5> QED BY <4>1, <5>1, <3>1
      <4>2. CASE j # m + 1
        <5>1. j \in 1..m
          BY <4>2
        <5>2. PICK k \in 1..Len(a) : a[k] = j
          BY <5>1, <3>4, <2>1
        <5>3. k \in 1..Len(b) /\ b[k] = j
          BY <5>2, <2>1, <3>1
        <5> QED BY <5>3
      <4> QED BY <4>1, <4>2
    <3> QED BY <3>1, <3>2, <3>3, <3>4 DEF b
  <2>4. CASE m + 1 \notin S
    <3>1. b = a
      BY <2>2, <2>4
    <3>2. \A j \in 1..m + 1 : j \in S => j \in 1..m
      BY <2>4
    <3>3. \A k \in 1..Len(b) : b[k] \in S /\ b[k] \in 1..m + 1
      BY <3>1, <2>1
    <3> QED BY <2>1, <3>1, <3>2, <3>3 DEF b
  <2> QED BY <2>3, <2>4
<1>3. \A m \in Nat : m \in T
  <2> HIDE DEF T
  <2> QED BY <1>1, <1>2, NatInduct
<1>4. Good(n)
  <2> HIDE DEF Good
  <2> QED BY <1>3
<1> QED BY <1>4

\* Where the lines of t start, in order, and where the k-th ends.
LineStarts(t)     == {i \in 1..Len(t) : i = 1 \/ t[i - 1] = "nl"}
StartSeq(t)   == Ascending(Len(t), LineStarts(t))
LineEnd(t, k) == IF k < Len(StartSeq(t)) THEN StartSeq(t)[k + 1] - 2
                 ELSE IF t[Len(t)] = "nl" THEN Len(t) - 1 ELSE Len(t)

\* LinesOf in these terms.
LEMMA LinesAre ==
    ASSUME NEW t, t # <<>>
    PROVE  LinesOf(t) = [k \in 1..Len(StartSeq(t)) |-> SubSeq(t, StartSeq(t)[k], LineEnd(t, k))]
<1>1. [i \in 1..Len(t) |-> IF i = 1 \/ t[i - 1] = "nl" THEN <<i>> ELSE <<>>]
        = [i \in 1..Len(t) |-> IF i \in LineStarts(t) THEN <<i>> ELSE <<>>]
  BY DEF LineStarts
<1>2. StartSeq(t) = FlattenSeq([i \in 1..Len(t) |-> IF i = 1 \/ t[i - 1] = "nl" THEN <<i>> ELSE <<>>])
  BY <1>1 DEF StartSeq, Ascending
<1> QED BY <1>2 DEF LinesOf, Numbers, LineEnd, Last

\* A start after the k-th is the next one or comes after it.
LEMMA NextStart ==
    ASSUME NEW t \in Seq(Chars), NEW k \in 1..Len(StartSeq(t)), NEW j \in LineStarts(t), StartSeq(t)[k] < j
    PROVE  k < Len(StartSeq(t)) /\ StartSeq(t)[k + 1] <= j
<1> DEFINE a == StartSeq(t)
<1>1. Len(t) \in Nat /\ j \in 1..Len(t)
  BY LenProperties DEF LineStarts
<1>2. /\ a \in Seq(Nat)
      /\ \A i \in 1..Len(a) : a[i] \in 1..Len(t)
      /\ \A i, l \in 1..Len(a) : i < l => a[i] < a[l]
      /\ \E i \in 1..Len(a) : a[i] = j
  BY <1>1, AscendingLaws DEF StartSeq
<1>3. Len(a) \in Nat /\ k \in 1..Len(a) /\ a[k] < j /\ a[k] \in Nat
  BY <1>2, LenProperties, ElementOfSeq
<1> HIDE DEF a
<1>4. PICK m \in 1..Len(a) : a[m] = j
  BY <1>2
<1>5. k < m
  <2>1. ~(m < k)
    <3>1. SUFFICES ASSUME m < k PROVE FALSE
      OBVIOUS
    <3>2. a[m] < a[k]
      BY <1>2, <1>3, <3>1
    <3> QED BY <3>2, <1>1, <1>3, <1>4
  <2>2. m # k
    BY <1>1, <1>3, <1>4
  <2> QED BY <2>1, <2>2, <1>3
<1>6. k + 1 \in 1..Len(a) /\ (k + 1 < m \/ k + 1 = m)
  BY <1>3, <1>5
<1>7. a[k + 1] <= j
  <2>1. CASE k + 1 < m
    <3>1. a[k + 1] < a[m] /\ a[k + 1] \in 1..Len(t)
      BY <2>1, <1>2, <1>6
    <3> QED BY <3>1, <1>1, <1>4
  <2>2. CASE k + 1 = m
    BY <2>2, <1>1, <1>4
  <2> QED BY <2>1, <2>2, <1>6
<1> QED BY <1>3, <1>6, <1>7 DEF a

\* The characters of a line.
Plain == Chars \ {"nl"}

\* The k-th line lies in the text, between newlines, and holds none.
LEMMA LineRange ==
    ASSUME NEW t \in Seq(Chars), t # <<>>, NEW k \in 1..Len(StartSeq(t))
    PROVE  /\ StartSeq(t)[k] \in 1..Len(t) /\ LineEnd(t, k) \in 0..Len(t)
           /\ \A i \in StartSeq(t)[k]..LineEnd(t, k) : t[i] \in Plain
           /\ LinesOf(t)[k] = SubSeq(t, StartSeq(t)[k], LineEnd(t, k))
           /\ LinesOf(t)[k] \in Seq(Plain)
<1> DEFINE a == StartSeq(t)
           n == Len(t)
           p == a[k]
           e == LineEnd(t, k)
<1>1. n \in Nat /\ n # 0 /\ \A i \in 1..n : t[i] \in Chars
  BY LenProperties, ElementOfSeq, EmptySeq
<1>2. /\ a \in Seq(Nat) /\ \A i \in 1..Len(a) : a[i] \in LineStarts(t) /\ a[i] \in 1..n
      /\ \A i, l \in 1..Len(a) : i < l => a[i] < a[l]
  BY <1>1, AscendingLaws DEF StartSeq
<1>3. Len(a) \in Nat /\ k \in 1..Len(a) /\ p \in 1..n
  BY <1>2, LenProperties
<1>4. k < Len(a) => a[k + 1] \in 1..n /\ p < a[k + 1] /\ e = a[k + 1] - 2
  <2>1. SUFFICES ASSUME k < Len(a) PROVE a[k + 1] \in 1..n /\ p < a[k + 1] /\ e = a[k + 1] - 2
    OBVIOUS
  <2>2. k + 1 \in 1..Len(a) /\ k < k + 1
    BY <1>3, <2>1
  <2>3. e = a[k + 1] - 2
    BY <2>1 DEF LineEnd
  <2> HIDE DEF a
  <2> QED BY <1>2, <1>3, <2>2, <2>3
<1>5. ~(k < Len(a)) => e = IF t[n] = "nl" THEN n - 1 ELSE n
  BY DEF LineEnd
<1>6. e \in 0..n
  <2> HIDE DEF a, e, p
  <2> QED BY <1>1, <1>3, <1>4, <1>5
<1>7. ASSUME NEW i \in p..e PROVE t[i] \in Plain
  <2>1. i \in 1..n /\ p <= i /\ i <= e
    BY <1>3, <1>6
  <2>2. SUFFICES ASSUME t[i] = "nl" PROVE FALSE
    BY <2>1, <1>1 DEF Plain
  <2>3. CASE i = n
    <3>1. ~(k < Len(a))
      <4> HIDE DEF a, e, p
      <4> QED BY <1>1, <1>4, <2>1, <2>3
    <3>2. e = n - 1
      BY <3>1, <1>5, <2>2, <2>3
    <3> HIDE DEF e, n
    <3> QED BY <3>2, <1>1, <2>1, <2>3
  <2>4. CASE i # n
    <3>1. i + 1 \in 1..n /\ (i + 1) - 1 = i /\ p < i + 1
      BY <1>1, <1>3, <2>1, <2>4
    <3>2. i + 1 \in LineStarts(t)
      BY <3>1, <2>2 DEF LineStarts
    <3>3. k < Len(a) /\ a[k + 1] <= i + 1
      BY <3>1, <3>2, NextStart
    <3> HIDE DEF a, e, p
    <3> QED BY <3>3, <1>4, <1>1, <2>1
  <2> QED BY <2>3, <2>4
<1>8. LinesOf(t)[k] = SubSeq(t, p, e)
  BY LinesAre
<1>9. SubSeq(t, p, e) \in Seq(Plain)
  <2> HIDE DEF p, e
  <2> QED BY <1>3, <1>6, <1>7, SubSeqProperties
<1> QED BY <1>3, <1>6, <1>7, <1>8, <1>9

\* The lines hold no newline.
LEMMA LinesType ==
    ASSUME NEW t \in Seq(Chars)
    PROVE  LinesOf(t) \in Seq(Seq(Plain))
<1>1. CASE t = <<>>
  BY <1>1, EmptySeq DEF LinesOf
<1>2. CASE t # <<>>
  <2> DEFINE a == StartSeq(t)
  <2>1. Len(a) \in Nat
    BY LenProperties, AscendingLaws DEF StartSeq
  <2>2. ASSUME NEW k \in 1..Len(a) PROVE SubSeq(t, a[k], LineEnd(t, k)) \in Seq(Plain)
    BY <1>2, LineRange
  <2>3. LinesOf(t) = [k \in 1..Len(a) |-> SubSeq(t, a[k], LineEnd(t, k))]
    BY <1>2, LinesAre
  <2> HIDE DEF a
  <2> QED BY <2>1, <2>2, <2>3, IsASeq
<1> QED BY <1>1, <1>2

\* A piece between newlines that holds none is a line.
LEMMA PieceIsLine ==
    ASSUME NEW t \in Seq(Chars), NEW p \in 1..Len(t), NEW q \in p..Len(t),
           p = 1 \/ t[p - 1] = "nl", q = Len(t) \/ t[q + 1] = "nl",
           \A i \in p..q : t[i] # "nl"
    PROVE  Contains(LinesOf(t), SubSeq(t, p, q))
<1> DEFINE a == StartSeq(t)
           n == Len(t)
<1>1. n \in Nat /\ n # 0 /\ t # <<>> /\ p \in 1..n /\ q \in p..n /\ t[q] # "nl"
  BY LenProperties, EmptySeq
<1>2. p \in LineStarts(t)
  BY DEF LineStarts
<1>3. /\ a \in Seq(Nat) /\ \A i \in 1..Len(a) : a[i] \in LineStarts(t) /\ a[i] \in 1..n
      /\ \A i, l \in 1..Len(a) : i < l => a[i] < a[l]
      /\ \E k \in 1..Len(a) : a[k] = p
  BY <1>1, <1>2, AscendingLaws DEF StartSeq
<1>4. PICK k \in 1..Len(a) : a[k] = p
  BY <1>3
<1>5. Len(a) \in Nat
  BY <1>3, LenProperties
<1>6. LineEnd(t, k) = q
  <2>1. CASE k < Len(a)
    <3> DEFINE s == a[k + 1]
    <3>1. k + 1 \in 1..Len(a) /\ k < k + 1
      BY <1>5, <2>1
    <3>2. s \in 1..n /\ p < s /\ (s = 1 \/ t[s - 1] = "nl")
      <4>1. s \in LineStarts(t) /\ s \in 1..n /\ a[k] < s
        <5> HIDE DEF a
        <5> QED BY <1>3, <3>1
      <4> QED BY <4>1, <1>4 DEF LineStarts
    <3>3. LineEnd(t, k) = s - 2
      BY <2>1 DEF LineEnd
    <3> HIDE DEF s
    <3>4. s - 1 >= p /\ t[s - 1] = "nl"
      BY <1>1, <3>2
    <3>5. ~(s - 1 \in p..q)
      BY <3>4
    <3>6. s >= q + 2
      BY <1>1, <3>2, <3>4, <3>5
    <3>7. q + 2 \in 1..n /\ (q + 2) - 1 = q + 1 /\ q # n
      BY <1>1, <3>2, <3>6
    <3>8. q + 2 \in LineStarts(t)
      BY <3>7 DEF LineStarts
    <3>9. a[k + 1] <= q + 2
      <4>1. a[k] < q + 2
        BY <1>1, <1>4
      <4> QED BY <4>1, <3>8, NextStart
    <3>10. s <= q + 2
      BY <3>9 DEF s
    <3>11. s = q + 2 /\ s - 2 = q
      <4> HIDE DEF n
      <4>1. s \in Nat /\ q \in Nat
        BY <1>1, <3>2
      <4> QED BY <4>1, <3>6, <3>10
    <3> QED BY <3>3, <3>11
  <2>2. CASE ~(k < Len(a))
    <3>1. LineEnd(t, k) = IF t[n] = "nl" THEN n - 1 ELSE n
      BY <2>2 DEF LineEnd
    <3>2. CASE q = n
      BY <3>1, <3>2, <1>1
    <3>3. CASE q # n
      <4>1. t[q + 1] = "nl" /\ q + 1 \in 1..n
        BY <3>3, <1>1
      <4>2. q + 1 = n
        <5>1. SUFFICES ASSUME q + 1 # n PROVE FALSE
          OBVIOUS
        <5>2. q + 2 \in 1..n /\ (q + 2) - 1 = q + 1 /\ p < q + 2
          BY <5>1, <4>1, <1>1
        <5>3. q + 2 \in LineStarts(t) /\ a[k] < q + 2
          BY <5>2, <4>1, <1>4 DEF LineStarts
        <5> QED BY <5>3, <2>2, NextStart
      <4> QED BY <3>1, <4>1, <4>2, <1>1
    <3> QED BY <3>2, <3>3
  <2> QED BY <2>1, <2>2
<1>7. LinesOf(t) = [i \in 1..Len(a) |-> SubSeq(t, a[i], LineEnd(t, i))]
  BY <1>1, LinesAre
<1> HIDE DEF a
<1>8. LinesOf(t)[k] = SubSeq(t, p, q)
  BY <1>4, <1>6, <1>7
<1>9. Len(LinesOf(t)) = Len(a)
  BY <1>5, <1>7
<1> QED BY <1>8, <1>9 DEF Contains

-----------------------------------------------------------------------------
(* The text of lines. *)

\* The lines, each with a newline in front.
Led(ls) == [k \in 1..Len(ls) |-> <<"nl">> \o ls[k]]

\* A line with its newline.
LEMMA LedLine ==
    ASSUME NEW x \in Seq(Plain)
    PROVE  LET y == <<"nl">> \o x
           IN  /\ y \in Seq(Chars) /\ Len(y) = Len(x) + 1 /\ y # <<>> /\ y[1] = "nl"
               /\ \A i \in 1..Len(x) : y[i + 1] = x[i]
<1> DEFINE h == <<"nl">>
           y == h \o x
<1>1. /\ h \in Seq(Chars) /\ Len(h) = 1 /\ h[1] = "nl"
  BY DEF Chars
<1>2. x \in Seq(Chars) /\ Len(x) \in Nat
  BY LenProperties, IsASeq, ElementOfSeq DEF Plain
<1> HIDE DEF h
<1>3. /\ y \in Seq(Chars) /\ Len(y) = Len(h) + Len(x)
      /\ \A i \in 1..Len(h) + Len(x) : y[i] = IF i <= Len(h) THEN h[i] ELSE x[i - Len(h)]
  BY <1>1, <1>2, ConcatProperties
<1> HIDE DEF y
<1>4. Len(y) = Len(x) + 1 /\ y # <<>>
  BY <1>1, <1>2, <1>3, EmptySeq
<1>5. y[1] = "nl"
  BY <1>1, <1>2, <1>3
<1>6. ASSUME NEW i \in 1..Len(x) PROVE y[i + 1] = x[i]
  <2>1. i + 1 \in 1..1 + Len(x) /\ ~(i + 1 <= 1) /\ (i + 1) - 1 = i
    BY <1>2
  <2> QED BY <2>1, <1>1, <1>3
<1> QED BY <1>3, <1>4, <1>5, <1>6 DEF y, h

\* Lines that are led by newlines, flattened, start with one.
LEMMA LedStarts ==
    ASSUME NEW ss \in Seq(Seq(Chars)), \A k \in 1..Len(ss) : ss[k] # <<>> /\ ss[k][1] = "nl"
    PROVE  FlattenSeq(ss) \in Seq(Chars) /\ (FlattenSeq(ss) = <<>> \/ FlattenSeq(ss)[1] = "nl")
<1> DEFINE L == {x \in Seq(Chars) : x # <<>> /\ x[1] = "nl"}
           T == {q \in Seq(L) : q \in Seq(Seq(Chars)) /\ FlattenSeq(q) \in Seq(Chars)
                                  /\ (FlattenSeq(q) = <<>> \/ FlattenSeq(q)[1] = "nl")}
<1>1. <<>> \in T
  BY FlattenEmpty, EmptySeq
<1>2. ASSUME NEW q \in Seq(L), NEW e \in L, q \in T PROVE Append(q, e) \in T
  <2> DEFINE f == FlattenSeq(q)
             g == FlattenSeq(Append(q, e))
  <2>1. /\ q \in Seq(Seq(Chars)) /\ f \in Seq(Chars) /\ (f = <<>> \/ f[1] = "nl")
        /\ e \in Seq(Chars) /\ e # <<>> /\ e[1] = "nl"
    BY <1>2
  <2>2. g = Cat(f, e) /\ Append(q, e) \in Seq(Seq(Chars)) /\ Append(q, e) \in Seq(L)
    BY <2>1, FlattenAppend, AppendProperties
  <2> HIDE DEF f, g
  <2>3. /\ g \in Seq(Chars) /\ Len(f) \in Nat /\ Len(e) \in Nat
        /\ \A i \in 1..Len(f) + Len(e) : g[i] = IF i <= Len(f) THEN f[i] ELSE e[i - Len(f)]
    BY <2>1, <2>2, ConcatProperties, LenProperties DEF Cat
  <2>4. g[1] = "nl"
    <3>1. CASE f = <<>>
      BY <3>1, <2>1, <2>2, CatEmpty
    <3>2. CASE f # <<>>
      <4>1. Len(f) # 0
        BY <3>2, <2>1, EmptySeq
      <4>2. 1 \in 1..Len(f) + Len(e) /\ 1 <= Len(f)
        BY <4>1, <2>3
      <4> QED BY <4>2, <3>2, <2>1, <2>3
    <3> QED BY <3>1, <3>2
  <2> QED BY <2>2, <2>3, <2>4 DEF g
<1>3. \A q \in Seq(L) : q \in T
  <2> HIDE DEF T, L
  <2> QED BY <1>1, <1>2, SeqInduct
<1>4. ss \in Seq(L)
  <2>1. Len(ss) \in Nat /\ \A k \in 1..Len(ss) : ss[k] \in L
    BY LenProperties, ElementOfSeq
  <2>2. [k \in 1..Len(ss) |-> ss[k]] \in Seq(L)
    <3> HIDE DEF L
    <3> QED BY <2>1, IsASeq
  <2>3. ss = [k \in 1..Len(ss) |-> ss[k]]
    BY LenProperties
  <2> HIDE DEF L
  <2> QED BY <2>2, <2>3
<1> QED BY <1>3, <1>4

\* A sequence around its k-th element.
LEMMA SplitAt ==
    ASSUME NEW S, NEW s \in Seq(S), NEW k \in 1..Len(s)
    PROVE  /\ SubSeq(s, 1, k - 1) \in Seq(S) /\ SubSeq(s, k + 1, Len(s)) \in Seq(S)
           /\ s[k] \in S
           /\ s = Cat(Append(SubSeq(s, 1, k - 1), s[k]), SubSeq(s, k + 1, Len(s)))
           /\ \A i \in 1..Len(SubSeq(s, k + 1, Len(s))) :
                 k + i \in 1..Len(s) /\ SubSeq(s, k + 1, Len(s))[i] = s[k + i]
<1> DEFINE n == Len(s)
           u == SubSeq(s, 1, k - 1)
           v == SubSeq(s, k + 1, n)
<1>1. n \in Nat /\ k \in 1..n /\ \A i \in 1..n : s[i] \in S
  BY LenProperties, ElementOfSeq
<1>2. u \in Seq(S)
  <2>1. \A i \in 1..k - 1 : s[i] \in S
    BY <1>1
  <2> QED BY <1>1, <2>1, SubSeqProperties
<1>3. /\ v \in Seq(S) /\ Len(v) = IF k + 1 <= n THEN n - (k + 1) + 1 ELSE 0
      /\ \A i \in 1..n - (k + 1) + 1 : v[i] = s[(k + 1) + i - 1]
  <2>1. \A i \in k + 1..n : s[i] \in S
    BY <1>1
  <2> QED BY <1>1, <2>1, SubSeqProperties
<1>4. SubSeq(s, 1, k) = Append(u, s[k])
  <2>1. 1 \in 1..Len(s) /\ k \in 1..Len(s)
    BY <1>1
  <2>2. SubSeq(s, 1, k) = SubSeq(s, 1, k - 1) \o <<s[k]>>
    BY <2>1, SubSeqRecursiveSecond
  <2> QED BY <1>1, <1>2, <2>2, AppendIsConcat
<1>5. s = Cat(SubSeq(s, 1, k), v)
  <2>1. 1 \in 1..Len(s) + 1 /\ k \in 1 - 1..Len(s) /\ n \in k..Len(s)
    BY <1>1
  <2>2. SubSeq(s, 1, k) \o SubSeq(s, k + 1, n) = SubSeq(s, 1, n)
    BY <2>1, ConcatAdjacentSubSeq
  <2>3. SubSeq(s, 1, n) = s
    BY SubSeqFull
  <2> QED BY <2>2, <2>3 DEF Cat
<1>6. ASSUME NEW i \in 1..Len(v) PROVE k + i \in 1..n /\ v[i] = s[k + i]
  <2> HIDE DEF v, n
  <2>1. i \in 1..n - (k + 1) + 1 /\ (k + 1) + i - 1 = k + i /\ k + i \in 1..n
    BY <1>1, <1>3
  <2> QED BY <2>1, <1>3
<1> QED BY <1>1, <1>2, <1>3, <1>4, <1>5, <1>6

\* An element of a piece is an element of what is flattened.
LEMMA FlattenHolds ==
    ASSUME NEW S, NEW ss \in Seq(Seq(S)), NEW k \in 1..Len(ss)
    PROVE  \E u \in Seq(S), v \in Seq(S) : FlattenSeq(ss) = Cat(Cat(u, ss[k]), v)
<1> DEFINE b == SubSeq(ss, 1, k - 1)
           a == SubSeq(ss, k + 1, Len(ss))
           x == ss[k]
<1>1. b \in Seq(Seq(S)) /\ a \in Seq(Seq(S)) /\ x \in Seq(S) /\ ss = Cat(Append(b, x), a)
  BY SplitAt
<1> HIDE DEF a, b, x
<1>2. Append(b, x) \in Seq(Seq(S))
  BY <1>1, AppendProperties
<1>3. FlattenSeq(ss) = Cat(FlattenSeq(Append(b, x)), FlattenSeq(a))
  BY <1>1, <1>2, FlattenCat
<1>4. FlattenSeq(Append(b, x)) = Cat(FlattenSeq(b), x) /\ FlattenSeq(b) \in Seq(S)
  BY <1>1, FlattenAppend
<1>5. FlattenSeq(a) \in Seq(S)
  BY <1>1, FlattenAppend, EmptySeq
<1> QED BY <1>3, <1>4, <1>5 DEF x

\* A line that is not empty is a line of the joined text.
LEMMA JoinKeeps ==
    ASSUME NEW ls \in Seq(Seq(Plain)), NEW k \in 1..Len(ls), ls[k] # <<>>
    PROVE  Contains(LinesOf(JoinLines(ls)), ls[k])
<1> DEFINE ss == Led(ls)
           x  == ls[k]
           y  == <<"nl">> \o x
           u  == FlattenSeq(SubSeq(ss, 1, k - 1))
           v  == FlattenSeq(SubSeq(ss, k + 1, Len(ss)))
           F  == FlattenSeq(ss)
           t  == Tail(F)
<1>1. Len(ls) \in Nat /\ \A i \in 1..Len(ls) : ls[i] \in Seq(Plain)
  BY LenProperties, ElementOfSeq
<1>2. /\ ss \in Seq(Seq(Chars)) /\ Len(ss) = Len(ls)
      /\ \A i \in 1..Len(ss) : ss[i] # <<>> /\ ss[i][1] = "nl"
      /\ ss[k] = y
  <2>1. ASSUME NEW i \in 1..Len(ls)
        PROVE  <<"nl">> \o ls[i] \in Seq(Chars) /\ <<"nl">> \o ls[i] # <<>> /\ (<<"nl">> \o ls[i])[1] = "nl"
    BY <1>1, LedLine
  <2>2. ss = [i \in 1..Len(ls) |-> <<"nl">> \o ls[i]]
    BY DEF Led
  <2>3. ss \in Seq(Seq(Chars)) /\ Len(ss) = Len(ls)
    BY <2>1, <2>2, <1>1, IsASeq
  <2>4. ASSUME NEW i \in 1..Len(ls) PROVE ss[i] = <<"nl">> \o ls[i]
    BY <2>2
  <2> HIDE DEF ss
  <2> QED BY <2>1, <2>3, <2>4
<1>3. /\ x \in Seq(Plain) /\ x # <<>> /\ y \in Seq(Chars) /\ Len(y) = Len(x) + 1
      /\ y[1] = "nl" /\ \A i \in 1..Len(x) : y[i + 1] = x[i]
  BY <1>1, LedLine
<1>4. Len(x) \in Nat \ {0} /\ \A i \in 1..Len(x) : x[i] \in Plain
  BY <1>3, EmptySeq, ElementOfSeq
<1> HIDE DEF ss, x, y
<1>5. /\ k \in 1..Len(ss)
      /\ SubSeq(ss, 1, k - 1) \in Seq(Seq(Chars)) /\ SubSeq(ss, k + 1, Len(ss)) \in Seq(Seq(Chars))
      /\ ss = Cat(Append(SubSeq(ss, 1, k - 1), ss[k]), SubSeq(ss, k + 1, Len(ss)))
      /\ \A i \in 1..Len(SubSeq(ss, k + 1, Len(ss))) :
            k + i \in 1..Len(ss) /\ SubSeq(ss, k + 1, Len(ss))[i] = ss[k + i]
  <2>1. k \in 1..Len(ss)
    BY <1>2
  <2> QED BY <2>1, <1>2, SplitAt
<1>6. v \in Seq(Chars) /\ (v = <<>> \/ v[1] = "nl")
  <2> DEFINE w == SubSeq(ss, k + 1, Len(ss))
  <2>1. \A i \in 1..Len(w) : w[i] # <<>> /\ w[i][1] = "nl"
    BY <1>2, <1>5
  <2>2. w \in Seq(Seq(Chars))
    BY <1>5
  <2> HIDE DEF w
  <2>3. FlattenSeq(w) \in Seq(Chars) /\ (FlattenSeq(w) = <<>> \/ FlattenSeq(w)[1] = "nl")
    BY <2>1, <2>2, LedStarts
  <2> QED BY <2>3 DEF w
<1>7. u \in Seq(Chars) /\ F = Cat(Cat(u, y), v)
  <2> DEFINE b == SubSeq(ss, 1, k - 1)
             w == SubSeq(ss, k + 1, Len(ss))
  <2>1. b \in Seq(Seq(Chars)) /\ w \in Seq(Seq(Chars)) /\ ss = Cat(Append(b, y), w)
    BY <1>2, <1>5
  <2> HIDE DEF b, w
  <2>2. Append(b, y) \in Seq(Seq(Chars))
    BY <2>1, <1>3, AppendProperties
  <2>3. F = Cat(FlattenSeq(Append(b, y)), FlattenSeq(w))
    BY <2>1, <2>2, FlattenCat
  <2>4. FlattenSeq(b) \in Seq(Chars) /\ FlattenSeq(Append(b, y)) = Cat(FlattenSeq(b), y)
    BY <2>1, <1>3, FlattenAppend
  <2> QED BY <2>3, <2>4 DEF b, w
<1> HIDE DEF u, v, F
<1> DEFINE c == Cat(u, y)
           lu == Len(u)
           lx == Len(x)
<1>8. /\ c \in Seq(Chars) /\ Len(c) = lu + (lx + 1) /\ lu \in Nat /\ Len(v) \in Nat
      /\ \A i \in 1..lu + (lx + 1) : c[i] = IF i <= lu THEN u[i] ELSE y[i - lu]
  <2>1. /\ u \o y \in Seq(Chars) /\ Len(u \o y) = Len(u) + Len(y)
        /\ \A i \in 1..Len(u) + Len(y) : (u \o y)[i] = IF i <= Len(u) THEN u[i] ELSE y[i - Len(u)]
    BY <1>3, <1>7, ConcatProperties
  <2>2. Len(u) \in Nat /\ Len(v) \in Nat
    BY <1>6, <1>7, LenProperties
  <2>3. c = u \o y
    BY DEF Cat
  <2> HIDE DEF c
  <2> QED BY <2>1, <2>2, <2>3, <1>3
<1> HIDE DEF c
<1>9. /\ F \in Seq(Chars) /\ Len(F) = Len(c) + Len(v)
      /\ \A i \in 1..Len(c) + Len(v) : F[i] = IF i <= Len(c) THEN c[i] ELSE v[i - Len(c)]
  BY <1>6, <1>7, <1>8, ConcatProperties DEF Cat, c
<1> HIDE DEF lu, lx
<1>10. /\ t \in Seq(Chars) /\ Len(t) = lu + lx + Len(v) /\ \A i \in 1..Len(t) : t[i] = F[i + 1]
  <2>1. F # <<>>
    BY <1>4, <1>8, <1>9, EmptySeq DEF lx
  <2>2. t \in Seq(Chars) /\ Len(t) = Len(F) - 1 /\ \A i \in 1..Len(t) : t[i] = F[i + 1]
    BY <2>1, <1>9, HeadTailProperties
  <2> QED BY <2>2, <1>4, <1>8, <1>9 DEF lx
<1>11. ASSUME NEW i \in 1..lx
       PROVE  lu + i \in 1..Len(t) /\ t[lu + i] = x[i]
  <2>1. /\ lx \in Nat /\ lu + i \in 1..Len(t) /\ (lu + i) + 1 \in 1..Len(c) + Len(v)
        /\ (lu + i) + 1 <= Len(c) /\ (lu + i) + 1 \in 1..lu + (lx + 1)
        /\ ~((lu + i) + 1 <= lu) /\ ((lu + i) + 1) - lu = i + 1 /\ i \in 1..Len(x)
    BY <1>4, <1>8, <1>10 DEF lx
  <2>2. t[lu + i] = F[(lu + i) + 1]
    BY <2>1, <1>10
  <2>3. F[(lu + i) + 1] = c[(lu + i) + 1]
    BY <2>1, <1>9
  <2>4. c[(lu + i) + 1] = y[i + 1]
    BY <2>1, <1>8
  <2>5. y[i + 1] = x[i]
    BY <2>1, <1>3
  <2> QED BY <2>1, <2>2, <2>3, <2>4, <2>5
<1> DEFINE p == lu + 1
           q == lu + lx
<1>12. p \in 1..Len(t) /\ q \in p..Len(t)
  BY <1>4, <1>8, <1>10 DEF lx
<1> HIDE DEF t
<1>13. p = 1 \/ t[p - 1] = "nl"
  <2>1. CASE lu = 0
    BY <2>1
  <2>2. CASE lu # 0
    <3>1. /\ lu \in 1..Len(t) /\ p - 1 = lu /\ p \in 1..Len(c) + Len(v) /\ p <= Len(c)
          /\ p \in 1..lu + (lx + 1) /\ ~(p <= lu) /\ p - lu = 1
      BY <2>2, <1>4, <1>8, <1>10 DEF lx
    <3> HIDE DEF p
    <3>2. t[lu] = F[lu + 1] /\ F[p] = c[p] /\ c[p] = y[1]
      BY <3>1, <1>8, <1>9, <1>10 DEF t
    <3> QED BY <3>1, <3>2, <1>3 DEF p
  <2> QED BY <2>1, <2>2
<1>14. q = Len(t) \/ t[q + 1] = "nl"
  <2>1. CASE v = <<>>
    BY <2>1, <1>4, <1>8, <1>10, EmptySeq DEF lx, t
  <2>2. CASE v # <<>>
    <3>1. Len(v) # 0 /\ v[1] = "nl"
      BY <2>2, <1>6, EmptySeq
    <3>2. /\ q + 1 \in 1..Len(t) /\ (q + 1) + 1 \in 1..Len(c) + Len(v) /\ ~((q + 1) + 1 <= Len(c))
          /\ ((q + 1) + 1) - Len(c) = 1
      BY <3>1, <1>4, <1>8, <1>10 DEF lx, t
    <3> HIDE DEF q
    <3>3. t[q + 1] = F[(q + 1) + 1]
      BY <3>2, <1>10 DEF t
    <3>4. F[(q + 1) + 1] = v[1]
      BY <3>2, <1>9
    <3> QED BY <3>1, <3>3, <3>4
  <2> QED BY <2>1, <2>2
<1>15. ASSUME NEW i \in p..q PROVE t[i] \in Plain
  <2>1. i - lu \in 1..lx /\ lu + (i - lu) = i
    BY <1>4, <1>8 DEF lx
  <2>2. t[i] = x[i - lu]
    BY <2>1, <1>11 DEF t
  <2> QED BY <2>1, <2>2, <1>4 DEF lx
<1>16. SubSeq(t, p, q) = x
  <2>1. p \in Int /\ q \in Int /\ p <= q /\ (q - p) + 1 = lx
    BY <1>4, <1>8 DEF lx
  <2>2. /\ SubSeq(t, p, q) \in Seq(Plain) /\ Len(SubSeq(t, p, q)) = IF p <= q THEN (q - p) + 1 ELSE 0
        /\ \A i \in 1..(q - p) + 1 : SubSeq(t, p, q)[i] = t[p + i - 1]
    <3> HIDE DEF p, q
    <3> QED BY <2>1, <1>15, SubSeqProperties
  <2> DEFINE z == SubSeq(t, p, q)
  <2>3. z \in Seq(Plain) /\ Len(z) = lx
    BY <2>1, <2>2
  <2>4. ASSUME NEW i \in 1..lx PROVE z[i] = x[i]
    <3>1. i \in 1..(q - p) + 1 /\ p + i - 1 = lu + i
      BY <2>1, <1>8
    <3>2. z[i] = t[p + i - 1]
      BY <2>2, <3>1
    <3> HIDE DEF z, p, q
    <3> QED BY <3>1, <3>2, <1>11 DEF t
  <2> HIDE DEF z
  <2>5. z = x
    BY <2>3, <2>4, <1>3, SeqEqual DEF lx
  <2> QED BY <2>5 DEF z
<1>17. t \in Seq(Chars)
  BY <1>10 DEF t
<1>18. Contains(LinesOf(t), SubSeq(t, p, q))
  <2> HIDE DEF p, q
  <2>1. \A i \in p..q : t[i] # "nl"
    BY <1>15 DEF Plain
  <2> QED BY <2>1, <1>12, <1>13, <1>14, <1>17, PieceIsLine DEF t
<1>19. JoinLines(ls) = t
  <2>1. ls # <<>>
    BY <1>1, EmptySeq
  <2> QED BY <2>1 DEF JoinLines, t, F, ss, Led
<1> QED BY <1>16, <1>18, <1>19 DEF x

\* So is one of its pieces, if it is joined from pieces.
LEMMA JoinKeepsPiece ==
    ASSUME NEW ps \in Seq(Seq(Seq(Plain))), NEW k \in 1..Len(ps), NEW x \in Seq(Plain),
           x # <<>>, ps[k] = <<x>>
    PROVE  Contains(LinesOf(JoinLines(FlattenSeq(ps))), x)
<1> DEFINE D == FlattenSeq(ps)
           o == <<x>>
<1>1. o \in Seq(Seq(Plain)) /\ Len(o) = 1 /\ o[1] = x
  OBVIOUS
<1>2. D \in Seq(Seq(Plain))
  BY FlattenAppend, EmptySeq
<1>3. PICK u \in Seq(Seq(Plain)), v \in Seq(Seq(Plain)) : D = Cat(Cat(u, o), v)
  <2>1. \E u, v \in Seq(Seq(Plain)) : FlattenSeq(ps) = Cat(Cat(u, ps[k]), v)
    <3> DEFINE S == Seq(Plain)
    <3>1. ps \in Seq(Seq(S))
      OBVIOUS
    <3> HIDE DEF S
    <3>2. \E u \in Seq(S), v \in Seq(S) : FlattenSeq(ps) = Cat(Cat(u, ps[k]), v)
      BY <3>1, FlattenHolds
    <3> QED BY <3>2 DEF S
  <2> QED BY <2>1
<1> HIDE DEF D, o
<1> DEFINE c == Cat(u, o)
<1>4. /\ c \in Seq(Seq(Plain)) /\ Len(c) = Len(u) + 1 /\ Len(u) \in Nat /\ Len(v) \in Nat
      /\ \A i \in 1..Len(u) + 1 : c[i] = IF i <= Len(u) THEN u[i] ELSE o[i - Len(u)]
  <2>1. /\ u \o o \in Seq(Seq(Plain)) /\ Len(u \o o) = Len(u) + Len(o)
        /\ \A i \in 1..Len(u) + Len(o) : (u \o o)[i] = IF i <= Len(u) THEN u[i] ELSE o[i - Len(u)]
    BY <1>1, ConcatProperties
  <2>2. Len(u) \in Nat /\ Len(v) \in Nat
    BY LenProperties
  <2>3. c = u \o o
    BY DEF Cat
  <2> HIDE DEF c
  <2> QED BY <2>1, <2>2, <2>3, <1>1
<1> HIDE DEF c
<1>5. /\ Len(D) = Len(c) + Len(v)
      /\ \A i \in 1..Len(c) + Len(v) : D[i] = IF i <= Len(c) THEN c[i] ELSE v[i - Len(c)]
  BY <1>3, <1>4, ConcatProperties DEF Cat, c
<1> DEFINE j == Len(u) + 1
<1>6. /\ j \in 1..Len(D) /\ j \in 1..Len(c) + Len(v) /\ j <= Len(c) /\ j \in 1..Len(u) + 1
      /\ ~(j <= Len(u)) /\ j - Len(u) = 1
  BY <1>4, <1>5
<1> HIDE DEF j
<1>7. D[j] = x
  BY <1>1, <1>4, <1>5, <1>6
<1> QED BY <1>2, <1>6, <1>7, JoinKeeps DEF D

\* The joined text.
LEMMA JoinType ==
    ASSUME NEW ls \in Seq(Seq(Plain))
    PROVE  JoinLines(ls) \in Seq(Chars)
<1>1. CASE ls = <<>>
  BY <1>1, EmptySeq DEF JoinLines
<1>2. CASE ls # <<>>
  <2> DEFINE ss == Led(ls)
             F  == FlattenSeq(ss)
             y  == ss[1]
  <2>1. Len(ls) \in Nat /\ 1 \in 1..Len(ls) /\ \A i \in 1..Len(ls) : ls[i] \in Seq(Plain)
    BY <1>2, LenProperties, ElementOfSeq, EmptySeq
  <2>2. ss \in Seq(Seq(Chars)) /\ 1 \in 1..Len(ss) /\ y \in Seq(Chars) /\ y # <<>>
    <3>1. ASSUME NEW i \in 1..Len(ls) PROVE <<"nl">> \o ls[i] \in Seq(Chars) /\ <<"nl">> \o ls[i] # <<>>
      BY <2>1, LedLine
    <3>2. ss = [i \in 1..Len(ls) |-> <<"nl">> \o ls[i]]
      BY DEF Led
    <3>3. ss \in Seq(Seq(Chars)) /\ Len(ss) = Len(ls)
      BY <3>1, <3>2, <2>1, IsASeq
    <3>4. ss[1] = <<"nl">> \o ls[1]
      BY <3>2, <2>1
    <3> HIDE DEF ss
    <3> QED BY <3>1, <3>3, <3>4, <2>1
  <2> HIDE DEF ss
  <2>3. PICK u \in Seq(Chars), v \in Seq(Chars) : F = Cat(Cat(u, y), v)
    BY <2>2, FlattenHolds
  <2> HIDE DEF F, y
  <2>4. Cat(u, y) \in Seq(Chars) /\ Cat(u, y) # <<>>
    BY <2>2, ConcatProperties, LenProperties, EmptySeq DEF Cat
  <2> DEFINE c == Cat(u, y)
  <2> HIDE DEF c
  <2>5. F \in Seq(Chars) /\ F # <<>>
    BY <2>3, <2>4, ConcatProperties, LenProperties, EmptySeq DEF Cat, c
  <2>6. Tail(F) \in Seq(Chars)
    BY <2>5, HeadTailProperties
  <2> QED BY <1>2, <2>6 DEF JoinLines, F, ss, Led
<1> QED BY <1>1, <1>2

\* Folding repeats leaves text, and every actionable line of it.
LEMMA DedupKeeps ==
    ASSUME NEW t \in Seq(Chars)
    PROVE  /\ Dedup(t) \in Seq(Chars)
           /\ \A k \in 1..Len(LinesOf(t)) :
                 Actionable(LinesOf(t)[k]) => Contains(LinesOf(Dedup(t)), LinesOf(t)[k])
<1> DEFINE ls == LinesOf(t)
           Repeats(i) == i > 1 /\ ls[i] = ls[i - 1]
           Foldable(i) == /\ ~Actionable(ls[i]) /\ ls[i] # <<>>
                          /\ Repeats(i) \/ (i < Len(ls) /\ Repeats(i + 1))
           Out(i) == CASE ~Foldable(i)              -> <<ls[i]>>
                       [] Foldable(i) /\ Repeats(i) -> <<>>
                       [] OTHER                     -> <<Append(ls[i], "d")>>
           ps == [i \in 1..Len(ls) |-> Out(i)]
<1>1. Dedup(t) = IF \A i \in 1..Len(ls) : ~Foldable(i) THEN t ELSE JoinLines(FlattenSeq(ps))
  BY DEF Dedup
<1>2. ls \in Seq(Seq(Plain)) /\ Len(ls) \in Nat /\ \A i \in 1..Len(ls) : ls[i] \in Seq(Plain)
  BY LinesType, LenProperties, ElementOfSeq
<1>3. ASSUME NEW k \in 1..Len(ls), Actionable(ls[k]) PROVE ~Foldable(k) /\ ls[k] # <<>>
  BY <1>2, <1>3, EmptySeq DEF Actionable, Contains
<1> HIDE DEF ls, Repeats, Foldable
<1>4. ASSUME NEW i \in 1..Len(ls) PROVE Out(i) \in Seq(Seq(Plain))
  <2>1. ls[i] \in Seq(Plain) /\ "d" \in Plain
    BY <1>2 DEF Plain, Chars
  <2>2. Append(ls[i], "d") \in Seq(Plain)
    BY <2>1, AppendProperties
  <2> DEFINE S == Seq(Plain)
             x == Append(ls[i], "d")
  <2> HIDE DEF S, x
  <2>3. ls[i] \in S /\ x \in S
    BY <2>1, <2>2 DEF S, x
  <2>4. <<ls[i]>> \in Seq(S) /\ <<x>> \in Seq(S) /\ <<>> \in Seq(S)
    BY <2>3
  <2>5. Out(i) \in {<<ls[i]>>, <<x>>, <<>>}
    BY DEF x
  <2> HIDE DEF Out
  <2> QED BY <2>4, <2>5 DEF S
<1>5. ps \in Seq(Seq(Seq(Plain))) /\ Len(ps) = Len(ls)
  <2> HIDE DEF Out
  <2> QED BY <1>2, <1>4, IsASeq
<1>6. Dedup(t) \in Seq(Chars)
  <2> DEFINE D == FlattenSeq(ps)
  <2>1. D \in Seq(Seq(Plain))
    <3> HIDE DEF ps
    <3> QED BY <1>5, FlattenAppend, EmptySeq
  <2> HIDE DEF ps
  <2>2. JoinLines(D) \in Seq(Chars)
    <3> HIDE DEF D
    <3> QED BY <2>1, JoinType
  <2> QED BY <1>1, <2>2
<1>7. ASSUME NEW k \in 1..Len(ls), Actionable(ls[k]) PROVE Contains(LinesOf(Dedup(t)), ls[k])
  <2>1. CASE \A i \in 1..Len(ls) : ~Foldable(i)
    BY <1>1, <2>1 DEF Contains, ls
  <2>2. CASE ~\A i \in 1..Len(ls) : ~Foldable(i)
    <3>1. ~Foldable(k) /\ ls[k] # <<>> /\ ls[k] \in Seq(Plain)
      BY <1>2, <1>3, <1>7
    <3>2. ps[k] = <<ls[k]>>
      BY <3>1
    <3>3. k \in 1..Len(ps)
      BY <1>5
    <3>4. Dedup(t) = JoinLines(FlattenSeq(ps))
      <4> HIDE DEF ps
      <4> QED BY <1>1, <2>2
    <3> HIDE DEF ps
    <3>5. Contains(LinesOf(JoinLines(FlattenSeq(ps))), ls[k])
      BY <1>5, <3>1, <3>2, <3>3, JoinKeepsPiece
    <3> QED BY <3>4, <3>5
  <2> QED BY <2>1, <2>2
<1> QED BY <1>6, <1>7 DEF ls

\* error_priority keeps every actionable line.
LEMMA ErrorPriorityKeeps ==
    ASSUME NEW t \in Seq(Chars), NEW k \in 1..Len(LinesOf(t)), Actionable(LinesOf(t)[k])
    PROVE  /\ Contains(LinesOf(ErrorPriority(t).content), LinesOf(t)[k])
           /\ ErrorPriority(t).content \in Seq(Chars)
<1> DEFINE ls == LinesOf(t)
           keep == KeptLines(ls)
           Out(i) == CASE i \in keep                                 -> <<ls[i]>>
                       [] i \notin keep /\ i > 1 /\ (i-1) \notin keep -> <<>>
                       [] OTHER                                      -> <<Marker>>
           ps == [i \in 1..Len(ls) |-> Out(i)]
<1>1. ErrorPriority(t).content = t \/ ErrorPriority(t).content = JoinLines(FlattenSeq(ps))
  BY DEF ErrorPriority, Verbatim
<1>2. k \in keep
  <2>1. k \in {i \in 1..Len(ls) : Actionable(ls[i])}
    OBVIOUS
  <2> QED BY <2>1 DEF KeptLines
<1>3. ls \in Seq(Seq(Plain)) /\ Len(ls) \in Nat /\ \A i \in 1..Len(ls) : ls[i] \in Seq(Plain)
  BY LinesType, LenProperties, ElementOfSeq
<1>4. ls[k] # <<>> /\ k \in 1..Len(ls) /\ ls[k] \in Seq(Plain)
  BY <1>3, EmptySeq DEF Actionable, Contains
<1> HIDE DEF keep, ls
<1>5. ASSUME NEW i \in 1..Len(ls) PROVE Out(i) \in Seq(Seq(Plain))
  <2>1. ls[i] \in Seq(Plain) /\ "k" \in Plain
    BY <1>3 DEF Plain, Chars
  <2>2. Marker \in Seq(Plain)
    BY <2>1, CatOne, EmptySeq DEF Marker
  <2> DEFINE S == Seq(Plain)
  <2> HIDE DEF S
  <2>3. ls[i] \in S /\ Marker \in S
    BY <2>1, <2>2 DEF S
  <2>4. <<ls[i]>> \in Seq(S) /\ <<Marker>> \in Seq(S) /\ <<>> \in Seq(S)
    BY <2>3
  <2>5. Out(i) \in {<<ls[i]>>, <<Marker>>, <<>>}
    OBVIOUS
  <2> HIDE DEF Out
  <2> QED BY <2>4, <2>5 DEF S
<1>6. ps \in Seq(Seq(Seq(Plain))) /\ Len(ps) = Len(ls)
  <2> HIDE DEF Out
  <2> QED BY <1>3, <1>5, IsASeq
<1>7. CASE ErrorPriority(t).content = t
  BY <1>4, <1>7 DEF Contains, ls
<1>8. CASE ErrorPriority(t).content = JoinLines(FlattenSeq(ps))
  <2>1. ps[k] = <<ls[k]>> /\ k \in 1..Len(ps)
    BY <1>2, <1>4, <1>6
  <2> HIDE DEF ps
  <2>2. Contains(LinesOf(JoinLines(FlattenSeq(ps))), ls[k])
    BY <1>4, <1>6, <2>1, JoinKeepsPiece
  <2>3. FlattenSeq(ps) \in Seq(Seq(Plain))
    BY <1>6, FlattenAppend, EmptySeq
  <2>4. JoinLines(FlattenSeq(ps)) \in Seq(Chars)
    BY <2>3, JoinType
  <2> QED BY <1>8, <2>2, <2>4 DEF ls
<1> QED BY <1>1, <1>7, <1>8

-----------------------------------------------------------------------------
(* Counting characters. *)

\* How many characters of t are in M.
Tally(t, M) == Cardinality({i \in 1..Len(t) : t[i] \in M})

\* One character more.
LEMMA TallyStep ==
    ASSUME NEW t \in Seq(Chars), NEW c \in Chars, NEW M
    PROVE  /\ Tally(<<>>, M) = 0
           /\ Tally(t, M) \in Nat
           /\ Tally(Append(t, c), M) = Tally(t, M) + IF c \in M THEN 1 ELSE 0
<1> DEFINE n == Len(t)
           u == Append(t, c)
           A == {i \in 1..n : t[i] \in M}
           B == {i \in 1..Len(u) : u[i] \in M}
<1>1. n \in Nat /\ Len(u) = n + 1 /\ (\A i \in 1..n : u[i] = t[i]) /\ u[n + 1] = c
  BY LenProperties, AppendProperties
<1> HIDE DEF u
<1>2. IsFiniteSet(A) /\ Cardinality(A) \in Nat
  <2>1. IsFiniteSet(1..n) /\ A \subseteq 1..n
    BY <1>1, FS_Interval
  <2> HIDE DEF A
  <2> QED BY <2>1, FS_Subset, FS_CardinalityType
<1>3. Tally(<<>>, M) = 0
  <2>1. {i \in 1..Len(<<>>) : (<<>>)[i] \in M} = {}
    OBVIOUS
  <2> QED BY <2>1, FS_EmptySet DEF Tally
<1>4. CASE c \in M
  <2>1. B = A \cup {n + 1} /\ n + 1 \notin A
    BY <1>1, <1>4
  <2> HIDE DEF A, B
  <2>2. Cardinality(B) = Cardinality(A) + 1
    BY <1>2, <2>1, FS_AddElement
  <2> QED BY <1>2, <1>3, <1>4, <2>2 DEF Tally, A, B, u
<1>5. CASE c \notin M
  <2>1. B = A
    BY <1>1, <1>5
  <2>2. Cardinality(B) = Cardinality(A) + 0
    <3> HIDE DEF A, B
    <3> QED BY <2>1, <1>2
  <2> QED BY <1>2, <1>3, <1>5, <2>2 DEF Tally, A, B, u
<1> QED BY <1>4, <1>5

\* Two texts.
LEMMA TallyCat ==
    ASSUME NEW u \in Seq(Chars), NEW v \in Seq(Chars), NEW M
    PROVE  Tally(Cat(u, v), M) = Tally(u, M) + Tally(v, M) /\ Tally(u, M) \in Nat /\ Tally(v, M) \in Nat
<1> DEFINE T == {p \in Seq(Chars) : /\ Tally(Cat(u, p), M) = Tally(u, M) + Tally(p, M)
                                    /\ Tally(p, M) \in Nat}
<1>0. "x" \in Chars
  BY DEF Chars
<1>1. <<>> \in T
  <2>1. Cat(u, <<>>) = u /\ <<>> \in Seq(Chars)
    BY CatEmpty, EmptySeq
  <2>2. Tally(<<>>, M) = 0 /\ Tally(u, M) \in Nat
    BY <1>0, TallyStep
  <2> QED BY <2>1, <2>2
<1>2. ASSUME NEW p \in Seq(Chars), NEW e \in Chars, p \in T PROVE Append(p, e) \in T
  <2> DEFINE o == <<e>>
  <2>1. /\ Append(p, e) \in Seq(Chars) /\ Append(p, e) = Cat(p, o) /\ o \in Seq(Chars)
        /\ Cat(u, p) \in Seq(Chars)
    BY CatOne, CatType
  <2>9. Append(Cat(u, p), e) = Cat(Cat(u, p), o)
    BY <2>1, CatOne
  <2> HIDE DEF o
  <2>2. Cat(u, Append(p, e)) = Append(Cat(u, p), e)
    BY <2>1, <2>9, CatAssociative
  <2>3. Tally(Append(p, e), M) = Tally(p, M) + (IF e \in M THEN 1 ELSE 0) /\ Tally(p, M) \in Nat
    BY TallyStep
  <2>4. Tally(Append(Cat(u, p), e), M) = Tally(Cat(u, p), M) + IF e \in M THEN 1 ELSE 0
    BY <2>1, TallyStep
  <2>5. Tally(u, M) \in Nat
    BY TallyStep
  <2>6. Tally(Cat(u, p), M) = Tally(u, M) + Tally(p, M)
    BY <1>2
  <2> DEFINE d == IF e \in M THEN 1 ELSE 0
  <2>7. d \in Nat
    OBVIOUS
  <2>8. Tally(Append(p, e), M) = Tally(p, M) + d /\ Tally(Append(Cat(u, p), e), M) = Tally(Cat(u, p), M) + d
    BY <2>3, <2>4
  <2> HIDE DEF d
  <2>10. \A x, y \in Nat : (x + y) + d = x + (y + d) /\ y + d \in Nat
    BY <2>7
  <2>11. Tally(Cat(u, Append(p, e)), M) = (Tally(u, M) + Tally(p, M)) + d
    BY <2>2, <2>6, <2>8
  <2>12. (Tally(u, M) + Tally(p, M)) + d = Tally(u, M) + Tally(Append(p, e), M)
    BY <2>3, <2>5, <2>8, <2>10
  <2>13. Tally(Append(p, e), M) \in Nat
    BY <2>3, <2>8, <2>10
  <2> QED BY <2>1, <2>11, <2>12, <2>13
<1>3. \A p \in Seq(Chars) : p \in T
  <2> HIDE DEF T
  <2> QED BY <1>1, <1>2, SeqInduct
<1>4. Tally(u, M) \in Nat
  BY <1>0, TallyStep
<1> QED BY <1>3, <1>4

\* The size in bytes, as a sum of tallies.
LEMMA SizeIs ==
    ASSUME NEW t \in Seq(Chars)
    PROVE  Size(t) = Len(t) + Tally(t, {"m", "k", "d"}) + 2 * Tally(t, {"r"})
<1>1. DOMAIN t = 1..Len(t)
  BY LenProperties
<1>2. {i \in DOMAIN t : t[i] = "r"} = {i \in 1..Len(t) : t[i] \in {"r"}}
  BY <1>1
<1> QED BY <1>1, <1>2 DEF Size, Tally

\* The size of two texts, and of a character.
LEMMA SizeLaws ==
    ASSUME NEW u \in Seq(Chars), NEW v \in Seq(Chars), NEW c \in Chars
    PROVE  /\ Size(u) \in Nat /\ Size(<<>>) = 0
           /\ Size(Cat(u, v)) = Size(u) + Size(v)
           /\ Size(Append(u, c)) > Size(u) /\ Size(Append(u, c)) <= Size(u) + 3
           /\ Size(u) >= Len(u)
           /\ c \in {"x", "nl", "e"} => Size(Append(u, c)) = Size(u) + 1
<1> DEFINE W == {"m", "k", "d"}
           R == {"r"}
<1> HIDE DEF W, R
<1>1. /\ Len(u) \in Nat /\ Len(v) \in Nat /\ Cat(u, v) \in Seq(Chars) /\ Len(Cat(u, v)) = Len(u) + Len(v)
      /\ Append(u, c) \in Seq(Chars) /\ Len(Append(u, c)) = Len(u) + 1
      /\ <<>> \in Seq(Chars) /\ Len(<<>>) = 0
  BY LenProperties, ConcatProperties, AppendProperties, EmptySeq DEF Cat
<1>2. ASSUME NEW t \in Seq(Chars) PROVE Size(t) = Len(t) + Tally(t, W) + 2 * Tally(t, R)
  BY SizeIs DEF W, R
<1>3. /\ Tally(u, W) \in Nat /\ Tally(v, W) \in Nat /\ Tally(u, R) \in Nat /\ Tally(v, R) \in Nat
      /\ Tally(Cat(u, v), W) = Tally(u, W) + Tally(v, W)
      /\ Tally(Cat(u, v), R) = Tally(u, R) + Tally(v, R)
  BY TallyCat
<1>4. /\ Tally(<<>>, W) = 0 /\ Tally(<<>>, R) = 0
      /\ Tally(Append(u, c), W) = Tally(u, W) + IF c \in W THEN 1 ELSE 0
      /\ Tally(Append(u, c), R) = Tally(u, R) + IF c \in R THEN 1 ELSE 0
  BY TallyStep
<1>5. Size(u) \in Nat /\ Size(<<>>) = 0 /\ Size(u) >= Len(u)
  <2>1. Size(u) = Len(u) + Tally(u, W) + 2 * Tally(u, R)
    BY <1>2
  <2>2. Size(<<>>) = 0 + 0 + 2 * 0
    BY <1>1, <1>2, <1>4
  <2> QED BY <1>1, <1>3, <2>1, <2>2
<1>6. Size(Cat(u, v)) = Size(u) + Size(v)
  <2>1. Size(u) = Len(u) + Tally(u, W) + 2 * Tally(u, R)
    BY <1>2
  <2>2. Size(v) = Len(v) + Tally(v, W) + 2 * Tally(v, R)
    BY <1>2
  <2>3. Size(Cat(u, v)) = Len(Cat(u, v)) + Tally(Cat(u, v), W) + 2 * Tally(Cat(u, v), R)
    BY <1>1, <1>2
  <2>4. Size(Cat(u, v)) = (Len(u) + Len(v)) + (Tally(u, W) + Tally(v, W)) + 2 * (Tally(u, R) + Tally(v, R))
    BY <1>1, <1>3, <2>3
  <2> QED BY <1>1, <1>3, <2>1, <2>2, <2>4
<1>7. ~(c \in W /\ c \in R) /\ (c \in {"x", "nl", "e"} => c \notin W /\ c \notin R)
  BY DEF W, R
<1>8. /\ Size(Append(u, c)) > Size(u) /\ Size(Append(u, c)) <= Size(u) + 3
      /\ c \in {"x", "nl", "e"} => Size(Append(u, c)) = Size(u) + 1
  <2>1. Size(Append(u, c)) = Len(u) + 1 + Tally(Append(u, c), W) + 2 * Tally(Append(u, c), R)
    BY <1>1, <1>2
  <2>2. Size(u) = Len(u) + Tally(u, W) + 2 * Tally(u, R)
    BY <1>2
  <2> DEFINE d == IF c \in W THEN 1 ELSE 0
             e == IF c \in R THEN 1 ELSE 0
  <2>3. d \in {0, 1} /\ e \in {0, 1} /\ d + e <= 1 /\ (c \in {"x", "nl", "e"} => d = 0 /\ e = 0)
    BY <1>7
  <2>4. Tally(Append(u, c), W) = Tally(u, W) + d /\ Tally(Append(u, c), R) = Tally(u, R) + e
    BY <1>4
  <2> HIDE DEF d, e
  <2>5. Size(Append(u, c)) = Size(u) + 1 + d + 2 * e
    <3> DEFINE n == Len(u)
               t == Tally(u, W)
               r == Tally(u, R)
    <3>1. n \in Nat /\ t \in Nat /\ r \in Nat /\ d \in Nat /\ e \in Nat
      BY <1>1, <1>3, <2>3
    <3> HIDE DEF n, t, r
    <3>2. Size(Append(u, c)) = n + 1 + (t + d) + 2 * (r + e)
      BY <2>1, <2>4 DEF n, t, r
    <3>3. Size(u) = n + t + 2 * r
      BY <2>2 DEF n, t, r
    <3>4. n + 1 + (t + d) + 2 * (r + e) = (n + t + 2 * r) + 1 + d + 2 * e
      BY <3>1
    <3> QED BY <3>2, <3>3, <3>4
  <2> QED BY <1>5, <2>3, <2>5
<1> QED BY <1>5, <1>6, <1>8

-----------------------------------------------------------------------------
(* Counting lines. *)

\* What lies beyond n does not matter.
LEMMA AscendingSame ==
    ASSUME NEW n \in Nat, NEW S, NEW R, \A i \in 1..n : i \in S <=> i \in R
    PROVE  Ascending(n, S) = Ascending(n, R)
BY DEF Ascending

\* The text ends in a line that has no newline yet.
Open(t) == t # <<>> /\ t[Len(t)] # "nl"

\* One character more starts a line unless a line is open.
LEMMA StartsStep ==
    ASSUME NEW p \in Seq(Chars), NEW e \in Chars
    PROVE  /\ StartSeq(Append(p, e)) = IF Open(p) THEN StartSeq(p) ELSE Append(StartSeq(p), Len(p) + 1)
           /\ StartSeq(p) \in Seq(Nat) /\ Len(StartSeq(p)) \in Nat
<1> DEFINE q == Append(p, e)
           n == Len(p)
<1>1. /\ q \in Seq(Chars) /\ Len(q) = n + 1 /\ (\A i \in 1..n : q[i] = p[i]) /\ q[n + 1] = e
      /\ n \in Nat
  BY AppendProperties, LenProperties
<1> HIDE DEF q
<1>2. \A i \in 1..n : i \in LineStarts(q) <=> i \in LineStarts(p)
  BY <1>1 DEF LineStarts
<1>3. n + 1 \in LineStarts(q) <=> ~Open(p)
  <2>1. n = 0 <=> p = <<>>
    BY <1>1, EmptySeq
  <2>2. n + 1 \in LineStarts(q) <=> n = 0 \/ q[n] = "nl"
    BY <1>1 DEF LineStarts
  <2> QED BY <2>1, <2>2, <1>1 DEF Open
<1>4. Ascending(n, LineStarts(q)) = StartSeq(p)
  BY <1>1, <1>2, AscendingSame DEF StartSeq
<1>5. StartSeq(q) = IF Open(p) THEN StartSeq(p) ELSE Append(StartSeq(p), n + 1)
  <2>1. Ascending(n + 1, LineStarts(q)) =
            IF n + 1 \in LineStarts(q) THEN Append(Ascending(n, LineStarts(q)), n + 1)
            ELSE Ascending(n, LineStarts(q))
    BY <1>1, AscendingStep
  <2> QED BY <2>1, <1>1, <1>3, <1>4 DEF StartSeq
<1>6. StartSeq(p) \in Seq(Nat) /\ Len(StartSeq(p)) \in Nat
  BY <1>1, AscendingLaws, LenProperties DEF StartSeq
<1> QED BY <1>5, <1>6 DEF q

\* A line for each start.
LEMMA LinesLen ==
    ASSUME NEW t \in Seq(Chars)
    PROVE  Len(LinesOf(t)) = Len(StartSeq(t)) /\ Len(StartSeq(t)) \in Nat
<1>1. Len(StartSeq(t)) \in Nat
  BY LenProperties, AscendingLaws DEF StartSeq
<1>2. CASE t = <<>>
  <2>1. Len(<<>>) = 0
    BY EmptySeq
  <2> QED BY <1>2, <2>1, AscendingStep DEF LinesOf, StartSeq
<1>3. CASE t # <<>>
  <2> DEFINE a == StartSeq(t)
  <2>2. LinesOf(t) = [k \in 1..Len(a) |-> SubSeq(t, a[k], LineEnd(t, k))]
    BY <1>3, LinesAre
  <2> HIDE DEF a
  <2> QED BY <1>1, <2>2 DEF a
<1> QED BY <1>1, <1>2, <1>3

\* The lines are the newlines, and a last line without one.
LEMMA LinesCount ==
    ASSUME NEW t \in Seq(Chars)
    PROVE  Len(LinesOf(t)) = Tally(t, {"nl"}) + IF Open(t) THEN 1 ELSE 0
<1> DEFINE N == {"nl"}
           O(q) == IF Open(q) THEN 1 ELSE 0
           T == {q \in Seq(Chars) : Len(StartSeq(q)) = Tally(q, N) + O(q)}
<1>1. <<>> \in T
  <2>1. Len(<<>>) = 0 /\ <<>> \in Seq(Chars) /\ "x" \in Chars
    BY EmptySeq DEF Chars
  <2>2. StartSeq(<<>>) = <<>>
    BY <2>1, AscendingStep DEF StartSeq
  <2>3. Tally(<<>>, N) = 0
    BY <2>1, TallyStep
  <2> QED BY <2>1, <2>2, <2>3 DEF Open
<1>2. ASSUME NEW p \in Seq(Chars), NEW e \in Chars, p \in T PROVE Append(p, e) \in T
  <2> DEFINE q == Append(p, e)
             n == Len(p)
  <2>1. /\ q \in Seq(Chars) /\ Len(q) = n + 1 /\ (\A i \in 1..n : q[i] = p[i]) /\ q[n + 1] = e
        /\ n \in Nat /\ q # <<>>
    BY AppendProperties, LenProperties
  <2>2. Tally(q, N) = Tally(p, N) + (IF e \in N THEN 1 ELSE 0) /\ Tally(p, N) \in Nat
    BY TallyStep
  <2> HIDE DEF q
  <2>6. StartSeq(q) = IF Open(p) THEN StartSeq(p) ELSE Append(StartSeq(p), n + 1)
    BY StartsStep DEF q
  <2>7. Len(StartSeq(q)) = Len(StartSeq(p)) + (1 - O(p)) /\ Len(StartSeq(p)) \in Nat
    <3>1. StartSeq(p) \in Seq(Nat) /\ n + 1 \in Nat
      BY <2>1, AscendingLaws DEF StartSeq
    <3>2. Len(Append(StartSeq(p), n + 1)) = Len(StartSeq(p)) + 1 /\ Len(StartSeq(p)) \in Nat
      BY <3>1, AppendProperties, LenProperties
    <3> QED BY <3>2, <2>6
  <2>8. Open(q) <=> e \notin N
    BY <2>1 DEF Open
  <2>9. Len(StartSeq(p)) = Tally(p, N) + O(p)
    BY <1>2
  <2> QED BY <2>1, <2>2, <2>7, <2>8, <2>9 DEF q
<1>3. \A q \in Seq(Chars) : q \in T
  <2> HIDE DEF T
  <2> QED BY <1>1, <1>2, SeqInduct
<1>4. Len(StartSeq(t)) = Tally(t, N) + O(t)
  BY <1>3
<1>5. Len(LinesOf(t)) = Len(StartSeq(t))
  BY LinesLen
<1> QED BY <1>4, <1>5
-----------------------------------------------------------------------------
(* The counters of the accumulator. *)

\* A set of numbers up to n that is not empty has a greatest element.
LEMMA GreatestExists ==
    ASSUME NEW n \in Nat, NEW S \in SUBSET (0..n), S # {}
    PROVE  Max(S) \in S /\ \A i \in S : i <= Max(S)
<1> DEFINE R == {n - i : i \in S}
<1>1. R \in SUBSET (0..n) /\ R # {}
  <2>1. ASSUME NEW i \in S PROVE n - i \in 0..n
    <3>1. i \in 0..n
      OBVIOUS
    <3> QED BY <3>1
  <2> QED BY <2>1
<1>2. PICK k \in R : \A i \in R : k <= i
  <2> HIDE DEF R
  <2> QED BY <1>1, LeastExists
<1>3. PICK m \in S : k = n - m
  OBVIOUS
<1>4. \A i \in S : n - i \in R /\ i \in 0..n
  OBVIOUS
<1>5. \A i \in S : m >= i
  <2> HIDE DEF R
  <2>1. ASSUME NEW i \in S PROVE m >= i
    <3>1. k <= n - i /\ i \in 0..n /\ m \in 0..n
      BY <1>2, <1>4
    <3> QED BY <3>1, <1>3
  <2> QED BY <2>1
<1>6. Max(S) \in S /\ \A i \in S : Max(S) >= i
  BY <1>3, <1>5 DEF Max
<1>7. \A i \in S : i \in 0..n
  OBVIOUS
<1> QED BY <1>6, <1>7

-----------------------------------------------------------------------------
(* The end of a sequence. *)

\* The first n elements, and the others.
LEMMA Halves ==
    ASSUME NEW S, NEW s \in Seq(S), NEW n \in 0..Len(s)
    PROVE  /\ SubSeq(s, 1, n) \in Seq(S) /\ SubSeq(s, n + 1, Len(s)) \in Seq(S)
           /\ s = Cat(SubSeq(s, 1, n), SubSeq(s, n + 1, Len(s)))
<1> DEFINE l == Len(s)
<1>1. l \in Nat /\ \A i \in 1..l : s[i] \in S
  BY LenProperties, ElementOfSeq
<1>2. SubSeq(s, 1, n) \in Seq(S)
  <2>1. \A i \in 1..n : s[i] \in S
    BY <1>1
  <2> QED BY <2>1, SubSeqProperties
<1>3. SubSeq(s, n + 1, l) \in Seq(S)
  <2>1. \A i \in n + 1..l : s[i] \in S
    BY <1>1
  <2> QED BY <1>1, <2>1, SubSeqProperties
<1>4. SubSeq(s, 1, n) \o SubSeq(s, n + 1, l) = SubSeq(s, 1, l)
  <2>1. 1 \in 1..Len(s) + 1 /\ n \in 1 - 1..Len(s) /\ l \in n..Len(s)
    BY <1>1
  <2> HIDE DEF l
  <2> QED BY <2>1, ConcatAdjacentSubSeq
<1>5. SubSeq(s, 1, l) = s
  BY SubSeqFull
<1> QED BY <1>2, <1>3, <1>4, <1>5 DEF Cat

\* The last elements of two sequences, as many as the second has.
LEMMA LastIs ==
    ASSUME NEW S, NEW u \in Seq(S), NEW v \in Seq(S)
    PROVE  LastLines(Cat(u, v), Len(v)) = v
<1> DEFINE c == Cat(u, v)
           l == Len(u)
           n == Len(c)
           f == n - Len(v) + 1
           r == SubSeq(c, f, n)
<1>1. /\ l \in Nat /\ Len(v) \in Nat /\ n = l + Len(v)
      /\ \A i \in 1..l + Len(v) : c[i] = IF i <= l THEN u[i] ELSE v[i - l]
  BY LenProperties, ConcatProperties DEF Cat
<1> HIDE DEF c, l
<1>2. f = l + 1 /\ n \in Nat
  BY <1>1
<1>3. ASSUME NEW i \in 1..Len(v) PROVE c[l + i] = v[i]
  <2> DEFINE k == l + i
  <2>1. k \in 1..l + Len(v) /\ ~(k <= l) /\ k - l = i
    BY <1>1
  <2> HIDE DEF k
  <2>2. c[k] = v[k - l]
    BY <1>1, <2>1
  <2> QED BY <2>1, <2>2 DEF k
<1>4. \A i \in f..n : c[i] \in S
  <2>1. ASSUME NEW i \in f..n PROVE c[i] \in S
    <3>1. i - l \in 1..Len(v) /\ l + (i - l) = i
      BY <1>1, <1>2
    <3>2. v[i - l] \in S
      BY <3>1, ElementOfSeq
    <3> DEFINE j == i - l
    <3> HIDE DEF j
    <3>3. j \in 1..Len(v) /\ l + j = i /\ v[j] \in S
      BY <3>1, <3>2 DEF j
    <3>4. c[l + j] = v[j]
      BY <1>3, <3>3
    <3> QED BY <3>3, <3>4
  <2> QED BY <2>1
<1>5. f \in Int /\ n \in Int
  BY <1>1, <1>2
<1> HIDE DEF f, n
<1>6. /\ r \in Seq(S) /\ Len(r) = IF f <= n THEN n - f + 1 ELSE 0
      /\ \A i \in 1..n - f + 1 : r[i] = c[f + i - 1]
  BY <1>4, <1>5, SubSeqProperties
<1> HIDE DEF r
<1>7. Len(r) = Len(v) /\ n - f + 1 = Len(v)
  BY <1>1, <1>2, <1>6
<1>8. ASSUME NEW i \in 1..Len(r) PROVE r[i] = v[i]
  <2>1. i \in 1..n - f + 1 /\ i \in 1..Len(v) /\ f + i - 1 = l + i
    BY <1>1, <1>2, <1>7
  <2>2. r[i] = c[f + i - 1] /\ c[l + i] = v[i]
    BY <1>3, <1>6, <2>1
  <2> QED BY <2>1, <2>2
<1>9. r = v
  BY <1>6, <1>7, <1>8, SeqEqual
<1> QED BY <1>9 DEF LastLines, r, f, n, c

\* The last j elements, and what is before them.
LEMMA LastSplit ==
    ASSUME NEW S, NEW s \in Seq(S), NEW j \in 0..Len(s)
    PROVE  /\ LastLines(s, j) \in Seq(S) /\ Len(LastLines(s, j)) = j
           /\ \E r \in Seq(S) : s = Cat(r, LastLines(s, j))
<1> DEFINE n == Len(s) - j
<1>1. n \in 0..Len(s) /\ Len(s) \in Nat /\ Len(s) - n = j
  BY LenProperties
<1>2. LastLines(s, j) = SubSeq(s, n + 1, Len(s))
  BY DEF LastLines
<1> HIDE DEF n
<1>3. /\ SubSeq(s, 1, n) \in Seq(S) /\ SubSeq(s, n + 1, Len(s)) \in Seq(S)
      /\ s = Cat(SubSeq(s, 1, n), SubSeq(s, n + 1, Len(s)))
  BY <1>1, Halves
<1> DEFINE a == SubSeq(s, 1, n)
           b == SubSeq(s, n + 1, Len(s))
<1>4. Len(a) = n
  <2>1. \A i \in 1..n : s[i] \in S
    BY <1>1, ElementOfSeq
  <2>2. Len(a) = IF 1 <= n THEN n - 1 + 1 ELSE 0
    BY <1>1, <2>1, SubSeqProperties
  <2> QED BY <1>1, <2>2
<1>5. Len(s) = Len(a) + Len(b) /\ Len(b) \in Nat
  BY <1>3, ConcatProperties, LenProperties DEF Cat
<1>6. Len(b) = j
  <2> HIDE DEF a, b
  <2> QED BY <1>1, <1>4, <1>5
<1> QED BY <1>2, <1>3, <1>6

\* The last elements of two sequences.
LEMMA LastOfCat ==
    ASSUME NEW S, NEW u \in Seq(S), NEW v \in Seq(S)
    PROVE  /\ \A j \in 0..Len(v) : LastLines(Cat(u, v), j) = LastLines(v, j)
           /\ \A j \in 1..Len(u) : LastLines(Cat(u, v), Len(v) + j) = Cat(LastLines(u, j), v)
           /\ LastLines(v, Len(v)) = v
<1>0. Len(u) \in Nat /\ Len(v) \in Nat
  BY LenProperties
<1>1. ASSUME NEW j \in 0..Len(v) PROVE LastLines(Cat(u, v), j) = LastLines(v, j)
  <2> DEFINE b == LastLines(v, j)
  <2>1. b \in Seq(S) /\ Len(b) = j /\ \E r \in Seq(S) : v = Cat(r, b)
    BY LastSplit
  <2> HIDE DEF b
  <2>2. PICK r \in Seq(S) : v = Cat(r, b)
    BY <2>1
  <2>3. Cat(u, v) = Cat(Cat(u, r), b) /\ Cat(u, r) \in Seq(S)
    BY <2>1, <2>2, CatAssociative, CatType
  <2>4. LastLines(Cat(Cat(u, r), b), Len(b)) = b
    BY <2>1, <2>3, LastIs
  <2> QED BY <2>1, <2>3, <2>4 DEF b
<1>2. ASSUME NEW j \in 1..Len(u) PROVE LastLines(Cat(u, v), Len(v) + j) = Cat(LastLines(u, j), v)
  <2> DEFINE b == LastLines(u, j)
             c == Cat(b, v)
  <2>0. j \in 0..Len(u)
    BY <1>0
  <2>1. b \in Seq(S) /\ Len(b) = j /\ \E r \in Seq(S) : u = Cat(r, b)
    BY <2>0, LastSplit
  <2> HIDE DEF b
  <2>2. PICK r \in Seq(S) : u = Cat(r, b)
    BY <2>1
  <2>3. Cat(u, v) = Cat(r, c) /\ c \in Seq(S) /\ Len(c) = Len(v) + j
    <3>1. Len(c) = Len(b) + Len(v)
      BY <2>1, ConcatProperties DEF Cat
    <3>2. Len(c) = Len(v) + j
      <4> HIDE DEF c
      <4> QED BY <1>0, <2>1, <3>1
    <3> QED BY <2>1, <2>2, <3>2, CatAssociative, CatType
  <2> HIDE DEF c
  <2>4. LastLines(Cat(r, c), Len(c)) = c
    BY <2>3, LastIs
  <2> QED BY <2>3, <2>4 DEF b, c
<1>3. LastLines(v, Len(v)) = v
  <2> DEFINE o == <<>>
  <2>1. o \in Seq(S) /\ Cat(o, v) = v
    BY CatEmpty, EmptySeq
  <2> HIDE DEF o
  <2>2. LastLines(Cat(o, v), Len(v)) = v
    BY <2>1, LastIs
  <2> QED BY <2>1, <2>2
<1> QED BY <1>1, <1>2, <1>3

-----------------------------------------------------------------------------
(* The rolling tail. *)

\* The end that is cut off is what the text ends in; it fits, and one
\* character more - of three bytes at most - would not.
LEMMA CutIsEnd ==
    ASSUME NEW t \in Seq(Chars), NEW n \in Nat
    PROVE  /\ CutFromEnd(t, n) \in Seq(Chars) /\ Size(CutFromEnd(t, n)) <= n
           /\ \E p \in Seq(Chars) : /\ t = Cat(p, CutFromEnd(t, n))
                                    /\ p # <<>> => Size(CutFromEnd(t, n)) + 3 > n
<1> DEFINE l == Len(t)
           S == {j \in 0..l : Size(LastLines(t, j)) <= n}
           k == Max(S)
           r == LastLines(t, k)
<1>0. "x" \in Chars /\ <<>> \in Seq(Chars) /\ l \in Nat
  BY EmptySeq, LenProperties DEF Chars
<1>1. 0 \in S
  <2>1. LastLines(t, 0) = <<>>
    <3>1. 0 \in 0..Len(t)
      BY <1>0
    <3>2. LastLines(t, 0) \in Seq(Chars) /\ Len(LastLines(t, 0)) = 0
      BY <3>1, LastSplit
    <3> QED BY <3>2, EmptySeq
  <2>2. Size(<<>>) = 0
    BY <1>0, SizeLaws
  <2> QED BY <1>0, <2>1, <2>2
<1>2. k \in S /\ \A i \in S : i <= k
  <2>1. S \in SUBSET (0..l) /\ S # {}
    BY <1>1
  <2> HIDE DEF S
  <2> QED BY <1>0, <2>1, GreatestExists
<1>3. k \in 0..l /\ Size(r) <= n
  <2> HIDE DEF k
  <2> QED BY <1>2
<1>4. CutFromEnd(t, n) = r
  BY DEF CutFromEnd
<1>5. ASSUME k + 1 \in 0..l PROVE ~(Size(LastLines(t, k + 1)) <= n)
  <2>1. SUFFICES ASSUME Size(LastLines(t, k + 1)) <= n PROVE FALSE
    OBVIOUS
  <2> DEFINE m == k + 1
  <2> HIDE DEF k
  <2>2. m \in S
    BY <1>5, <2>1
  <2>3. ~(m <= k)
    BY <1>3
  <2> HIDE DEF m, S
  <2> QED BY <1>2, <2>2, <2>3
<1> HIDE DEF k, S, r
<1>6. r \in Seq(Chars) /\ Len(r) = k /\ \E p \in Seq(Chars) : t = Cat(p, r)
  BY <1>3, LastSplit DEF r
<1>7. PICK p \in Seq(Chars) : t = Cat(p, r)
  BY <1>6
<1>8. ASSUME p # <<>> PROVE Size(r) + 3 > n
  <2>1. Len(p) \in Nat /\ Len(p) # 0 /\ l = Len(p) + k
    BY <1>6, <1>7, <1>8, LenProperties, EmptySeq, ConcatProperties DEF Cat
  <2>2. 1 \in 1..Len(p) /\ 1 \in 0..Len(p) /\ k + 1 \in 0..l
    BY <1>3, <2>1
  <2> DEFINE o == LastLines(p, 1)
  <2>3. LastLines(t, k + 1) = Cat(o, r)
    BY <1>6, <1>7, <2>2, LastOfCat
  <2>4. o \in Seq(Chars) /\ Len(o) = 1
    BY <2>2, LastSplit
  <2> HIDE DEF o
  <2>5. Size(o) <= 3 /\ Size(o) \in Nat
    <3>1. o # <<>>
      <4>1. Len(o) # 0
        BY <2>4
      <4> QED BY <4>1, EmptySeq
    <3>2. PICK q \in Seq(Chars), c \in Chars : o = Append(q, c)
      BY <2>4, <3>1, SequenceEmptyOrAppend
    <3>3. Len(q) = 0
      <4>1. Len(Append(q, c)) = Len(q) + 1 /\ Len(q) \in Nat
        BY AppendProperties, LenProperties
      <4> QED BY <2>4, <3>2, <4>1
    <3>4. q = <<>>
      BY <3>3, EmptySeq
    <3>5. Size(Append(q, c)) <= Size(q) + 3 /\ Size(<<>>) = 0
      BY SizeLaws
    <3>6. Size(o) \in Nat
      BY <1>0, <2>4, SizeLaws
    <3> QED BY <3>2, <3>4, <3>5, <3>6
  <2>6. Size(Cat(o, r)) = Size(o) + Size(r) /\ Size(r) \in Nat
    BY <1>0, <1>6, <2>4, SizeLaws
  <2>7. ~(Size(Cat(o, r)) <= n)
    BY <1>5, <2>2, <2>3
  <2> QED BY <2>5, <2>6, <2>7
<1> QED BY <1>3, <1>4, <1>6, <1>7, <1>8

\* Whether the text so far ends inside a line is up to what came last.
LEMMA OpenCat ==
    ASSUME NEW u \in Seq(Chars), NEW v \in Seq(Chars), v # <<>>
    PROVE  Open(Cat(u, v)) <=> v[Len(v)] # "nl"
<1> DEFINE c == Cat(u, v)
<1>1. /\ c \in Seq(Chars) /\ Len(c) = Len(u) + Len(v) /\ Len(u) \in Nat /\ Len(v) \in Nat
      /\ \A i \in 1..Len(u) + Len(v) : c[i] = IF i <= Len(u) THEN u[i] ELSE v[i - Len(u)]
  BY ConcatProperties, LenProperties DEF Cat
<1>2. Len(v) # 0
  BY EmptySeq
<1> HIDE DEF c
<1>3. /\ Len(c) \in 1..Len(u) + Len(v) /\ ~(Len(c) <= Len(u)) /\ Len(c) - Len(u) = Len(v)
      /\ Len(c) # 0
  BY <1>1, <1>2
<1>4. c[Len(c)] = v[Len(v)]
  BY <1>1, <1>3
<1>5. c # <<>>
  BY <1>3, EmptySeq
<1> QED BY <1>4, <1>5 DEF Open, c

\* append_decoded_text looks for the last newline: the text ends in an open
\* line if there is none or if something follows it.
LEMMA OpenEnd ==
    ASSUME NEW t \in Seq(Chars), t # <<>>
    PROVE  LET newlines == Cardinality({i \in DOMAIN t : t[i] = "nl"})
               last == SelectLastInSeq(t, LAMBDA c : c = "nl")
               open == IF newlines = 0 THEN t ELSE SubSeq(t, last + 1, Len(t))
           IN  /\ newlines = Tally(t, {"nl"})
               /\ (newlines = 0 \/ open # <<>>) <=> t[Len(t)] # "nl"
<1> DEFINE n == Len(t)
           S == {i \in 1..n : t[i] = "nl"}
           k == Max(S)
           last == SelectLastInSeq(t, LAMBDA c : c = "nl")
           rest == SubSeq(t, last + 1, n)
<1>1. n \in Nat /\ n # 0 /\ DOMAIN t = 1..n /\ \A i \in 1..n : t[i] \in Chars
  BY LenProperties, ElementOfSeq, EmptySeq
<1>2. {i \in DOMAIN t : t[i] = "nl"} = S
  BY <1>1
<1>3. Tally(t, {"nl"}) = Cardinality(S)
  <2>1. {i \in 1..n : t[i] \in {"nl"}} = S
    OBVIOUS
  <2> QED BY <2>1 DEF Tally
<1>4. IsFiniteSet(S)
  <2>1. IsFiniteSet(1..n) /\ S \subseteq 1..n
    BY <1>1, FS_Interval
  <2> HIDE DEF S
  <2> QED BY <2>1, FS_Subset
<1>5. Cardinality(S) = 0 <=> S = {}
  <2> HIDE DEF S
  <2> QED BY <1>4, FS_EmptySet
<1>6. S # {} => last = k
  BY DEF SelectLastInSeq
<1>9. last = SelectLastInSeq(t, LAMBDA c : c = "nl") /\ rest = SubSeq(t, last + 1, n)
  OBVIOUS
<1> HIDE DEF last
<1>7. CASE S = {}
  <2>1. n \in 1..n /\ t[n] # "nl"
    BY <1>1, <1>7
  <2> HIDE DEF S
  <2> QED BY <1>2, <1>3, <1>5, <1>7, <2>1
<1>8. CASE S # {}
  <2>1. S \in SUBSET (0..n)
    BY <1>1
  <2>2. k \in S /\ \A i \in S : i <= k
    <3> HIDE DEF S
    <3> QED BY <1>1, <1>8, <2>1, GreatestExists
  <2>3. k \in 1..n /\ t[k] = "nl"
    <3> HIDE DEF k
    <3> QED BY <2>2
  <2>4. n \in S <=> t[n] = "nl"
    BY <1>1
  <2>5. k = n <=> t[n] = "nl"
    <3> HIDE DEF S, k, n
    <3>1. n \in S => n <= k
      BY <2>2
    <3>2. CASE k = n
      BY <2>3, <3>2
    <3>3. CASE t[n] = "nl"
      BY <1>1, <2>3, <2>4, <3>1, <3>3
    <3> QED BY <3>2, <3>3
  <2> HIDE DEF k
  <2>6. rest # <<>> <=> k # n
    <3>1. rest = SubSeq(t, k + 1, n)
      BY <1>6, <1>8
    <3>2. \A i \in k + 1..n : t[i] \in Chars
      BY <1>1, <2>3
    <3> DEFINE f == k + 1
    <3>8. /\ f \in Nat /\ f = k + 1 /\ n \in Nat /\ k \in Nat /\ k <= n
          /\ rest = SubSeq(t, f, n) /\ \A i \in f..n : t[i] \in Chars
      <4>1. n \in Nat /\ k \in Nat /\ k <= n
        <5> HIDE DEF n
        <5> QED BY <1>1, <2>3
      <4>2. f \in Nat
        BY <4>1
      <4> HIDE DEF n, rest
      <4> QED BY <4>1, <4>2, <3>1, <3>2
    <3> HIDE DEF f, rest, n
    <3>9. SubSeq(t, f, n) \in Seq(Chars) /\ Len(SubSeq(t, f, n)) = IF f <= n THEN n - f + 1 ELSE 0
      BY <3>8, SubSeqProperties
    <3>3. rest \in Seq(Chars) /\ Len(rest) = IF k + 1 <= n THEN n - (k + 1) + 1 ELSE 0
      BY <3>8, <3>9
    <3>4. rest # <<>> <=> Len(rest) # 0
      BY <3>3, EmptySeq
    <3>5. (k + 1 <= n => Len(rest) = n - (k + 1) + 1) /\ (~(k + 1 <= n) => Len(rest) = 0)
      BY <3>3
    <3>6. k + 1 <= n <=> k # n
      BY <3>8
    <3>7. k + 1 <= n => n - (k + 1) + 1 # 0
      BY <3>8
    <3> QED BY <3>4, <3>5, <3>6, <3>7
  <2> HIDE DEF S, n, rest
  <2> QED BY <1>2, <1>3, <1>5, <1>8, <1>9, <2>5, <2>6 DEF n
<1> QED BY <1>7, <1>8
-----------------------------------------------------------------------------
(* What append decodes is text. *)

\* A slice decodes to text, and leaves bytes over.
LEMMA SliceType ==
    ASSUME NEW b \in Seq(Bytes)
    PROVE  DecodeSlice(b).text \in Seq(Chars) /\ DecodeSlice(b).left \in Seq(Bytes)
<1>1. DecodeSlice(b).text \in Seq(Chars)
  BY LossyIs, PiecesType
<1>2. <<>> \in Seq(Bytes) /\ <<"L">> \in Seq(Bytes)
  <2>1. "L" \in Bytes /\ <<>> \in Seq(Bytes)
    BY EmptySeq DEF Bytes
  <2> QED BY <2>1, CatOne
<1>3. DecodeSlice(b).left = IF b # <<>> /\ Last(b) = "L" THEN <<"L">> ELSE <<>>
  BY DEF DecodeSlice
<1> QED BY <1>1, <1>2, <1>3

\* So does a chunk after a pending byte.
LEMMA DecodeType ==
    ASSUME NEW left \in Seq(Bytes), NEW b \in Seq(Bytes)
    PROVE  DecodeInto(left, b).text \in Seq(Chars) /\ DecodeInto(left, b).left \in Seq(Bytes)
<1> DEFINE n == Least(3, Len(b))
           x == SubSeq(b, 1, n)
           y == SubSeq(b, n + 1, Len(b))
           z == Cat(left, x)
           d == DecodeInto(left, b)
<1>1. x \in Seq(Bytes) /\ y \in Seq(Bytes)
  <2>1. Len(b) \in Nat
    BY LenProperties
  <2>2. n \in 0..Len(b)
    BY <2>1 DEF Least
  <2> HIDE DEF n
  <2> QED BY <2>2, Halves
<1>2. CASE left = <<>>
  <2>1. d = DecodeSlice(b)
    BY <1>2 DEF DecodeInto
  <2> QED BY <2>1, SliceType
<1>3. CASE left # <<>>
  <2>1. /\ d.text = Cat(DecodeSlice(z).text, DecodeSlice(y).text)
        /\ d.left \in {DecodeSlice(y).left, DecodeSlice(z).left}
    BY <1>3 DEF DecodeInto, Cat
  <2> HIDE DEF x, y, d
  <2>2. z \in Seq(Bytes)
    BY <1>1, CatType
  <2> HIDE DEF z
  <2>3. /\ DecodeSlice(z).text \in Seq(Chars) /\ DecodeSlice(z).left \in Seq(Bytes)
        /\ DecodeSlice(y).text \in Seq(Chars) /\ DecodeSlice(y).left \in Seq(Bytes)
    BY <1>1, <2>2, SliceType
  <2>4. Cat(DecodeSlice(z).text, DecodeSlice(y).text) \in Seq(Chars)
    BY <2>3, CatType
  <2> QED BY <2>1, <2>3, <2>4 DEF d
<1> QED BY <1>2, <1>3

-----------------------------------------------------------------------------
(* The counters are those of the text. *)

\* What comes before the rolling tail t of the text d: whether it ends inside a
\* line is what the tail remembers of it, and a tail that has lost something is
\* still as long as the trimming leaves it.
Before(p, d, t, atBoundary) ==
    /\ d = Cat(p, t) /\ (atBoundary <=> ~Open(p))
    /\ p = <<>> \/ Size(t) + 2 >= MaxRolling

\* The decoded text has the rolling tail at its end, and the counters count it.
Counted(a) ==
    /\ DOMAIN a = AccFields
    /\ a.decoded \in Seq(Chars) /\ a.tail \in Seq(Chars) /\ a.pending \in Seq(Bytes)
    /\ a.atBoundary \in BOOLEAN
    /\ \E p \in Seq(Chars) : Before(p, a.decoded, a.tail, a.atBoundary)
    /\ a.decodedBytes = Size(a.decoded)
    /\ a.completed = Tally(a.decoded, {"nl"})
    /\ a.openLine <=> Open(a.decoded)

\* The fields it is about.
LEMMA CountedSame ==
    ASSUME NEW a, NEW b, Counted(a), DOMAIN b = AccFields, b.pending \in Seq(Bytes),
           b.decoded = a.decoded, b.tail = a.tail, b.decodedBytes = a.decodedBytes,
           b.completed = a.completed, b.openLine = a.openLine, b.atBoundary = a.atBoundary
    PROVE  Counted(b)
BY DEF Counted

\* The empty accumulator.
LEMMA CountedEmpty == Counted(Empty)
<1>1. <<>> \in Seq(Chars) /\ <<>> \in Seq(Bytes) /\ "x" \in Chars
  BY EmptySeq DEF Chars
<1>2. Size(<<>>) = 0 /\ Tally(<<>>, {"nl"}) = 0
  BY <1>1, SizeLaws, TallyStep
<1>3. Cat(<<>>, <<>>) = <<>>
  BY <1>1, CatEmpty
<1>4. ~Open(<<>>)
  BY DEF Open
<1>5. DOMAIN Empty = AccFields
  BY DEF Empty, AccFields
<1>6. Before(<<>>, <<>>, <<>>, TRUE)
  BY <1>3, <1>4 DEF Before
<1> QED BY <1>1, <1>2, <1>4, <1>5, <1>6 DEF Counted, Empty

\* append_decoded_text counts what it appends, and trims the tail at its front.
LEMMA AppendDecodedCounts ==
    ASSUME NEW a, Counted(a), NEW text \in Seq(Chars)
    PROVE  Counted(AppendDecoded(a, text))
<1> DEFINE added    == [a EXCEPT !.decoded = @ \o text, !.tail = @ \o text,
                                 !.decodedBytes = @ + Size(text)]
           trimmed  == IF Size(added.tail) > 2 * MaxRolling THEN TrimTail(added) ELSE added
           newlines == Cardinality({i \in DOMAIN text : text[i] = "nl"})
           last     == SelectLastInSeq(text, LAMBDA c : c = "nl")
           open     == IF newlines = 0 THEN text ELSE SubSeq(text, last + 1, Len(text))
           b        == AppendDecoded(a, text)
           current  == (IF newlines = 0 THEN trimmed.currentBytes ELSE 0) + Size(open)
<1>1. CASE text = <<>>
  <2>1. b = a
    BY <1>1 DEF AppendDecoded
  <2> QED BY <2>1
<1>2. CASE text # <<>>
  <2>1. b = [trimmed EXCEPT !.completed = @ + newlines, !.currentBytes = current,
                            !.openLine = newlines = 0 \/ open # <<>>]
    BY <1>2 DEF AppendDecoded
  <2>2. newlines = Tally(text, {"nl"}) /\ ((newlines = 0 \/ open # <<>>) <=> text[Len(text)] # "nl")
    BY <1>2, OpenEnd
  <2> DEFINE more == newlines = 0 \/ open # <<>>
  <2> HIDE DEF newlines, open, last, current, more
  <2>3. /\ DOMAIN added = AccFields /\ added.decoded = Cat(a.decoded, text)
        /\ added.tail = Cat(a.tail, text) /\ added.decodedBytes = a.decodedBytes + Size(text)
        /\ added.completed = a.completed /\ added.pending = a.pending
        /\ added.atBoundary = a.atBoundary
    BY DEF Counted, AccFields, Cat
  <2> HIDE DEF added
  <2>4. PICK p \in Seq(Chars) : Before(p, a.decoded, a.tail, a.atBoundary)
    BY DEF Counted
  <2>5. a.decoded \in Seq(Chars) /\ a.tail \in Seq(Chars)
    BY DEF Counted
  <2>14. "x" \in Chars /\ MaxRolling \in Nat
    BY TextAssumption DEF Chars, MaxRolling
  <2>6. /\ added.tail \in Seq(Chars) /\ added.decoded \in Seq(Chars)
        /\ Before(p, added.decoded, added.tail, added.atBoundary)
    <3>1. Cat(Cat(p, a.tail), text) = Cat(p, Cat(a.tail, text))
      BY <2>5, CatAssociative
    <3>2. Cat(a.tail, text) \in Seq(Chars) /\ Cat(a.decoded, text) \in Seq(Chars)
      BY <2>5, CatType
    <3>3. /\ Size(Cat(a.tail, text)) = Size(a.tail) + Size(text)
          /\ Size(a.tail) \in Nat /\ Size(text) \in Nat
      BY <2>5, <2>14, SizeLaws
    <3>4. Size(a.tail) + 2 >= MaxRolling => Size(Cat(a.tail, text)) + 2 >= MaxRolling
      BY <3>3, <2>14
    <3> QED BY <2>3, <2>4, <3>1, <3>2, <3>4 DEF Before
  <2>7. /\ DOMAIN trimmed = AccFields /\ trimmed.decoded = added.decoded
        /\ trimmed.decodedBytes = added.decodedBytes /\ trimmed.completed = added.completed
        /\ trimmed.pending = added.pending
        /\ trimmed.tail \in Seq(Chars) /\ trimmed.atBoundary \in BOOLEAN
        /\ \E q \in Seq(Chars) : Before(q, added.decoded, trimmed.tail, trimmed.atBoundary)
    <3>3. added.atBoundary \in BOOLEAN
      BY <2>3 DEF Counted
    <3>1. CASE trimmed = added
      <4> HIDE DEF trimmed
      <4> QED BY <3>1, <3>3, <2>3, <2>6
    <3>2. CASE trimmed = TrimTail(added)
      <4> DEFINE rest == CutFromEnd(added.tail, MaxRolling)
                 tt   == TrimTail(added)
                 cut  == Len(added.tail) - Len(rest)
                 at   == IF cut > 0 THEN added.tail[cut] = "nl" ELSE added.atBoundary
      <4>1. /\ DOMAIN tt = AccFields /\ tt.decoded = added.decoded
            /\ tt.decodedBytes = added.decodedBytes /\ tt.completed = added.completed
            /\ tt.pending = added.pending /\ tt.tail = rest /\ tt.atBoundary = at
        BY <2>3 DEF TrimTail, AccFields
      <4>2. at \in BOOLEAN
        BY <3>3
      <4>3. /\ rest \in Seq(Chars)
            /\ \E q \in Seq(Chars) : added.tail = Cat(q, rest) /\ (q # <<>> => Size(rest) + 3 > MaxRolling)
        BY <2>6, <2>14, CutIsEnd
      <4> HIDE DEF trimmed, tt, rest
      <4>4. PICK q \in Seq(Chars) : added.tail = Cat(q, rest) /\ (q # <<>> => Size(rest) + 3 > MaxRolling)
        BY <4>3
      <4> DEFINE h == Cat(p, q)
      <4>5. added.decoded = Cat(h, rest) /\ h \in Seq(Chars)
        BY <2>6, <4>3, <4>4, CatAssociative, CatType DEF Before
      <4>6. /\ cut = Len(q) /\ Len(q) \in Nat
            /\ q # <<>> => Len(q) # 0 /\ added.tail[Len(q)] = q[Len(q)]
        <5>1. /\ Len(q) \in Nat /\ Len(rest) \in Nat /\ Len(added.tail) = Len(q) + Len(rest)
              /\ \A i \in 1..Len(q) + Len(rest) :
                    added.tail[i] = IF i <= Len(q) THEN q[i] ELSE rest[i - Len(q)]
          BY <4>3, <4>4, LenProperties, ConcatProperties DEF Cat
        <5>2. q # <<>> => Len(q) # 0
          BY EmptySeq
        <5>3. Len(q) # 0 => Len(q) \in 1..Len(q) + Len(rest) /\ Len(q) <= Len(q)
          BY <5>1
        <5> QED BY <5>1, <5>2, <5>3
      <4>7. Before(h, added.decoded, rest, at)
        <5>1. CASE q = <<>>
          <6>1. Len(q) = 0
            BY <5>1, EmptySeq
          <6>2. at = added.atBoundary
            BY <4>6, <6>1
          <6>3. h = p /\ rest = added.tail
            BY <5>1, <4>3, <4>4, CatEmpty
          <6> QED BY <2>6, <6>2, <6>3
        <5>2. CASE q # <<>>
          <6>1. at <=> q[Len(q)] = "nl"
            BY <4>6, <5>2
          <6>2. Open(h) <=> q[Len(q)] # "nl"
            BY <5>2, OpenCat
          <6>3. Size(rest) + 2 >= MaxRolling
            <7>1. Size(rest) \in Nat
              BY <2>14, <4>3, SizeLaws
            <7> QED BY <2>14, <4>4, <5>2, <7>1
          <6> HIDE DEF at, h
          <6> QED BY <4>5, <6>1, <6>2, <6>3 DEF Before
        <5> QED BY <5>1, <5>2
      <4> HIDE DEF at, h
      <4> QED BY <3>2, <4>1, <4>2, <4>3, <4>5, <4>7 DEF tt
    <3> QED BY <3>1, <3>2
  <2> HIDE DEF trimmed
  <2>8. /\ DOMAIN b = AccFields /\ b.decoded = trimmed.decoded /\ b.tail = trimmed.tail
        /\ b.decodedBytes = trimmed.decodedBytes /\ b.pending = trimmed.pending
        /\ b.completed = trimmed.completed + newlines /\ b.openLine = more
        /\ b.atBoundary = trimmed.atBoundary
    BY <2>1, <2>7 DEF AccFields, more
  <2> HIDE DEF b
  <2>9. b.decodedBytes = Size(b.decoded)
    <3>1. Size(Cat(a.decoded, text)) = Size(a.decoded) + Size(text)
      <4>1. "x" \in Chars
        BY DEF Chars
      <4> QED BY <2>5, <4>1, SizeLaws
    <3>2. a.decodedBytes = Size(a.decoded)
      BY DEF Counted
    <3> QED BY <2>3, <2>7, <2>8, <3>1, <3>2
  <2>10. b.completed = Tally(b.decoded, {"nl"})
    <3>1. Tally(Cat(a.decoded, text), {"nl"}) = Tally(a.decoded, {"nl"}) + Tally(text, {"nl"})
      BY <2>5, TallyCat
    <3>2. a.completed = Tally(a.decoded, {"nl"})
      BY DEF Counted
    <3> QED BY <2>2, <2>3, <2>7, <2>8, <3>1, <3>2
  <2>11. b.openLine <=> Open(b.decoded)
    <3>1. Open(Cat(a.decoded, text)) <=> text[Len(text)] # "nl"
      BY <1>2, <2>5, OpenCat
    <3>2. more <=> text[Len(text)] # "nl"
      BY <2>2 DEF more
    <3>3. b.decoded = Cat(a.decoded, text)
      BY <2>3, <2>7, <2>8
    <3> QED BY <2>8, <3>1, <3>2, <3>3
  <2>12. b.pending \in Seq(Bytes)
    BY <2>3, <2>7, <2>8 DEF Counted
  <2>13. /\ b.decoded \in Seq(Chars) /\ b.tail \in Seq(Chars) /\ b.atBoundary \in BOOLEAN
         /\ \E q \in Seq(Chars) : Before(q, b.decoded, b.tail, b.atBoundary)
    BY <2>6, <2>7, <2>8
  <2> QED BY <2>8, <2>9, <2>10, <2>11, <2>12, <2>13 DEF Counted, b
<1> QED BY <1>1, <1>2

\* append's first half.
LEMMA CountCounts ==
    ASSUME NEW a, Counted(a), NEW chunk \in Seq(Bytes)
    PROVE  Counted(Count(a, chunk))
<1> DEFINE d == DecodeInto(a.pending, chunk)
           b == [a EXCEPT !.rawBytes = @ + Len(chunk), !.pending = d.left]
<1>1. d.text \in Seq(Chars) /\ d.left \in Seq(Bytes)
  BY DecodeType DEF Counted
<1>2. Count(a, chunk) = AppendDecoded(b, d.text)
  BY DEF Count
<1> HIDE DEF d
<1>3. /\ DOMAIN b = AccFields /\ b.pending = d.left /\ b.decoded = a.decoded /\ b.tail = a.tail
      /\ b.decodedBytes = a.decodedBytes /\ b.completed = a.completed /\ b.openLine = a.openLine
      /\ b.atBoundary = a.atBoundary
  BY DEF Counted, AccFields
<1> HIDE DEF b
<1>4. Counted(b)
  BY <1>1, <1>3, CountedSame
<1> QED BY <1>1, <1>2, <1>4, AppendDecodedCounts

\* Its second half, and the making of the spill file.
LEMMA KeepCounts ==
    ASSUME NEW a, Counted(a), NEW chunk, NEW how
    PROVE  Counted(EnsureTemp(a, how)) /\ Counted(Keep(a, chunk, how))
<1> DEFINE e == EnsureTemp(a, how)
           b == Keep(a, chunk, how)
           r0 == IF how = "lost" THEN <<>> ELSE a.raw
<1>1. ASSUME NEW c, Counted(c), NEW r, NEW s
      PROVE  /\ Counted([c EXCEPT !.spill = s, !.raw = r])
             /\ Counted([c EXCEPT !.raw = r]) /\ Counted([c EXCEPT !.spill = s])
  <2>1. c.pending \in Seq(Bytes) /\ DOMAIN c = AccFields
    BY <1>1 DEF Counted
  <2>2. Counted([c EXCEPT !.spill = s, !.raw = r])
    <3> DEFINE x == [c EXCEPT !.spill = s, !.raw = r]
    <3>1. /\ DOMAIN x = AccFields /\ x.pending = c.pending /\ x.decoded = c.decoded /\ x.tail = c.tail
          /\ x.decodedBytes = c.decodedBytes /\ x.completed = c.completed /\ x.openLine = c.openLine
          /\ x.atBoundary = c.atBoundary
      BY <2>1 DEF AccFields
    <3> HIDE DEF x
    <3>2. Counted(x)
      BY <1>1, <2>1, <3>1, CountedSame
    <3> QED BY <3>2 DEF x
  <2>3. Counted([c EXCEPT !.raw = r])
    <3> DEFINE x == [c EXCEPT !.raw = r]
    <3>1. /\ DOMAIN x = AccFields /\ x.pending = c.pending /\ x.decoded = c.decoded /\ x.tail = c.tail
          /\ x.decodedBytes = c.decodedBytes /\ x.completed = c.completed /\ x.openLine = c.openLine
          /\ x.atBoundary = c.atBoundary
      BY <2>1 DEF AccFields
    <3> HIDE DEF x
    <3>2. Counted(x)
      BY <1>1, <2>1, <3>1, CountedSame
    <3> QED BY <3>2 DEF x
  <2>4. Counted([c EXCEPT !.spill = s])
    <3> DEFINE x == [c EXCEPT !.spill = s]
    <3>1. /\ DOMAIN x = AccFields /\ x.pending = c.pending /\ x.decoded = c.decoded /\ x.tail = c.tail
          /\ x.decodedBytes = c.decodedBytes /\ x.completed = c.completed /\ x.openLine = c.openLine
          /\ x.atBoundary = c.atBoundary
      BY <2>1 DEF AccFields
    <3> HIDE DEF x
    <3>2. Counted(x)
      BY <1>1, <2>1, <3>1, CountedSame
    <3> QED BY <3>2 DEF x
  <2> QED BY <2>2, <2>3, <2>4
<1>2. e = a \/ e = [a EXCEPT !.spill = r0, !.raw = <<>>]
  BY DEF EnsureTemp
<1> HIDE DEF r0
<1>3. Counted(e)
  <2> DEFINE x == [a EXCEPT !.spill = r0, !.raw = <<>>]
  <2>1. Counted(x)
    BY <1>1
  <2> HIDE DEF e, x
  <2> QED BY <1>2, <2>1 DEF x
<1>4. \/ b = [a EXCEPT !.raw = a.raw \o chunk]
      \/ b = [e EXCEPT !.spill = IF e.spill = Unset \/ how = "lost" THEN e.spill
                               ELSE e.spill \o chunk]
  <2>1. DOMAIN e = AccFields /\ DOMAIN a = AccFields
    BY <1>3 DEF Counted
  <2> HIDE DEF e
  <2>2. b = IF a.spill = Unset /\ ~Outgrown(a) THEN [a EXCEPT !.raw = @ \o chunk]
            ELSE [e EXCEPT !.spill = IF @ = Unset \/ how = "lost" THEN @ ELSE @ \o chunk]
    BY DEF Keep, e
  <2> HIDE DEF b
  <2> QED BY <2>1, <2>2 DEF AccFields
<1>5. Counted(b)
  <2> HIDE DEF e
  <2> DEFINE x == [a EXCEPT !.raw = a.raw \o chunk]
             s == IF e.spill = Unset \/ how = "lost" THEN e.spill ELSE e.spill \o chunk
             y == [e EXCEPT !.spill = s]
  <2>1. Counted(x)
    BY <1>1
  <2>2. Counted(y)
    <3> HIDE DEF s
    <3> QED BY <1>1, <1>3
  <2>3. b = x \/ b = y
    BY <1>4
  <2> HIDE DEF b, x, y
  <2> QED BY <2>1, <2>2, <2>3
<1> QED BY <1>3, <1>5

\* finish.
LEMMA FinishCounts ==
    ASSUME NEW a, Counted(a), NEW how
    PROVE  Counted(FinishAcc(a, how))
<1> DEFINE e == [a EXCEPT !.pending = <<>>]
           f == AppendDecoded(e, Flushed(a.pending))
<1>1. <<>> \in Seq(Bytes) /\ Flushed(a.pending) \in Seq(Chars)
  <2>1. "r" \in Chars /\ <<>> \in Seq(Chars) /\ <<>> \in Seq(Bytes)
    BY EmptySeq DEF Chars
  <2>2. <<"r">> \in Seq(Chars)
    BY <2>1, CatOne
  <2> QED BY <2>1, <2>2 DEF Flushed
<1>2. /\ DOMAIN e = AccFields /\ e.pending = <<>> /\ e.decoded = a.decoded /\ e.tail = a.tail
      /\ e.decodedBytes = a.decodedBytes /\ e.completed = a.completed /\ e.openLine = a.openLine
      /\ e.atBoundary = a.atBoundary
  BY DEF Counted, AccFields
<1>3. FinishAcc(a, how) = IF Outgrown(f) THEN EnsureTemp(f, how) ELSE f
  BY DEF FinishAcc
<1> HIDE DEF e
<1>4. Counted(e)
  BY <1>1, <1>2, CountedSame
<1>5. Counted(f)
  BY <1>1, <1>4, AppendDecodedCounts
<1> HIDE DEF f
<1> QED BY <1>3, <1>5, KeepCounts

\* A chunk, and a batch of them.
LEMMA FedCounts ==
    ASSUME NEW q \in Seq(Chunks), Counted(acc), NEW st \in Fed(q)
    PROVE  Counted(st.acc)
<1>1. Len(q) \in Nat
  BY LenProperties
<1>2. PICK f : /\ f = [n \in 0..Len(q) |->
                         IF n = 0 THEN {[acc |-> acc, hole |-> hole]}
                         ELSE UNION {AfterChunk(t, q[n]) : t \in f[n - 1]}]
               /\ Fed(q) = f[Len(q)]
  BY <1>1, FedFix
<1> DEFINE T == {n \in Nat : n <= Len(q) => \A t \in f[n] : Counted(t.acc)}
<1>3. 0 \in T
  <2>1. f[0] = {[acc |-> acc, hole |-> hole]}
    BY <1>1, <1>2
  <2> QED BY <2>1
<1>4. ASSUME NEW n \in Nat, n \in T PROVE n + 1 \in T
  <2>1. SUFFICES ASSUME n + 1 <= Len(q), NEW t \in f[n + 1] PROVE Counted(t.acc)
    OBVIOUS
  <2>2. n + 1 \in 1..Len(q) /\ n \in 0..Len(q) /\ n + 1 - 1 = n
    BY <2>1, <1>1
  <2>3. f[n + 1] = UNION {AfterChunk(u, q[n + 1]) : u \in f[n]}
    <3> DEFINE j == n + 1
    <3>1. j \in 0..Len(q) /\ j # 0 /\ j - 1 = n
      BY <2>2
    <3> HIDE DEF j
    <3>2. f[j] = UNION {AfterChunk(u, q[j]) : u \in f[j - 1]}
      BY <1>2, <3>1
    <3> QED BY <3>1, <3>2 DEF j
  <2>4. PICK u \in f[n] : t \in AfterChunk(u, q[n + 1])
    BY <2>1, <2>3
  <2>5. Counted(u.acc)
    BY <1>4, <2>2
  <2> DEFINE c == q[n + 1]
             counted == Count(u.acc, c.bytes)
  <2>6. c.bytes \in Seq(Bytes)
    <3>1. c \in Chunks
      BY <2>2, ElementOfSeq
    <3> HIDE DEF c
    <3> QED BY <3>1 DEF Chunks
  <2>7. \E how \in Writes : t.acc = Keep(counted, c.bytes, how)
    BY <2>4 DEF AfterChunk
  <2> HIDE DEF c
  <2>8. Counted(counted)
    BY <2>5, <2>6, CountCounts
  <2> HIDE DEF counted
  <2> QED BY <2>7, <2>8, KeepCounts
<1>5. \A n \in Nat : n \in T
  <2> HIDE DEF T
  <2> QED BY <1>3, <1>4, NatInduct
<1>6. Len(q) \in T
  <2> HIDE DEF T
  <2> QED BY <1>1, <1>5
<1>7. Len(q) <= Len(q)
  BY <1>1
<1> QED BY <1>2, <1>6, <1>7

\* The steps.
LEMMA CountedNext ==
    ASSUME FlowInv, Counted(acc), [OutputNext]_outputVars
    PROVE  Counted(acc)'
<1>1. Batch(chan) \in Seq(Chunks)
  BY BatchKeepsStreams DEF FlowInv, FlowTypes
<1>2. CASE Flush
  <2>1. PICK st \in Fed(Batch(chan)) : acc' = st.acc
    BY <1>2 DEF Flush
  <2>2. Counted(st.acc)
    BY <1>1, FedCounts
  <2> QED BY <2>1, <2>2 DEF Counted
<1>3. CASE Finish
  <2>1. PICK st \in Fed(Batch(chan)), how \in Writes : acc' = FinishAcc(st.acc, how)
    BY <1>3 DEF Finish
  <2>2. Counted(st.acc)
    BY <1>1, FedCounts
  <2>3. Counted(FinishAcc(st.acc, how))
    BY <2>2, FinishCounts
  <2> QED BY <2>1, <2>3 DEF Counted
<1>4. CASE UNCHANGED acc
  BY <1>4 DEF Counted
<1>5. Flush \/ Finish \/ UNCHANGED acc
  BY DEF OutputNext, outputVars, SpawnFails, Spawn, ShellExits, Release, Reaped, WaitFails,
         Deadline, DrainReturns, Done, ReadPipe, Write
<1> QED BY <1>2, <1>3, <1>4, <1>5

\* total_lines is the number of lines.
LEMMA CountedLines ==
    ASSUME NEW a, Counted(a)
    PROVE  TotalLines(a) = Len(LinesOf(a.decoded))
<1>1. a.decoded \in Seq(Chars) /\ a.completed = Tally(a.decoded, {"nl"})
      /\ (a.openLine <=> Open(a.decoded))
  BY DEF Counted
<1>2. Len(LinesOf(a.decoded)) = Tally(a.decoded, {"nl"}) + IF Open(a.decoded) THEN 1 ELSE 0
  BY <1>1, LinesCount
<1> QED BY <1>1, <1>2 DEF TotalLines

\* The counters of the accumulator (decoded_bytes, completed_lines, the open line) count the
\* text decoded so far, of which the rolling tail is the end.
THEOREM CountersInductive == OutputSpec => []Counted(acc)
<1>1. OutputInit => Counted(acc)
  BY CountedEmpty DEF OutputInit
<1>2. FlowInv /\ Counted(acc) /\ [OutputNext]_outputVars => Counted(acc)'
  BY CountedNext
<1>3. OutputSpec => []FlowInv
  BY OutputInductive
<1> QED BY <1>1, <1>2, <1>3, PTL DEF OutputSpec

\* The types of the run, and what TotalLines and the byte counters say of the decoded text.
THEOREM OutputTypeCorrect == OutputSpec => []OutputTypeOK
<1>1. FlowInv /\ Counted(acc) => OutputTypeOK
  <2>1. SUFFICES ASSUME FlowInv, Counted(acc) PROVE OutputTypeOK
    OBVIOUS
  <2>2. IsSuffix(acc.tail, acc.decoded)
    <3>1. PICK p \in Seq(Chars) : acc.decoded = Cat(p, acc.tail)
      BY <2>1 DEF Counted, Before
    <3>2. acc.tail \in Seq(Chars)
      BY <2>1 DEF Counted
    <3>3. IsSuffix(acc.tail, Cat(p, acc.tail))
      BY <3>2, SuffixOfCat
    <3> QED BY <3>1, <3>3
  <2>3. TotalLines(acc) = Len(LinesOf(acc.decoded))
    BY <2>1, CountedLines
  <2>4. /\ acc.decoded \in Seq(Chars) /\ acc.decodedBytes = Size(acc.decoded)
    BY <2>1 DEF Counted
  <2>5. acc.rawBytes = Len(FedBytes) /\ (acc.spill = Unset \/ acc.raw = <<>>)
    BY <2>1 DEF FlowInv, RawKept, RawOK
  <2>6. /\ phase \in {"start", "loop", "drain", "last", "done"}
        /\ shell \in {"none", "running", "exited"} /\ held \in BOOLEAN
        /\ pipe \in [Streams -> Seq(Bytes)] /\ wrote \in [Streams -> Seq(Words)]
        /\ outcome \in {"ok", "spawn", "timeout", "io", Unset}
    BY <2>1 DEF FlowInv, FlowTypes
  <2> QED BY <2>2, <2>3, <2>4, <2>5, <2>6 DEF OutputTypeOK
<1>2. OutputSpec => []FlowInv /\ []Counted(acc)
  BY OutputInductive, CountersInductive
<1> QED BY <1>1, <1>2, PTL
-----------------------------------------------------------------------------
(* The lines of a text that grows. *)

\* What is appended comes at the end of what was there.
LEMMA CatAppend ==
    ASSUME NEW S, NEW u \in Seq(S), NEW p \in Seq(S), NEW e \in S
    PROVE  /\ Cat(u, Append(p, e)) = Append(Cat(u, p), e)
           /\ Cat(u, p) \in Seq(S) /\ Append(p, e) \in Seq(S)
<1> DEFINE o == <<e>>
<1>1. /\ Append(p, e) \in Seq(S) /\ Append(p, e) = Cat(p, o) /\ o \in Seq(S) /\ Cat(u, p) \in Seq(S)
  BY CatOne, CatType
<1>2. Append(Cat(u, p), e) = Cat(Cat(u, p), o)
  BY <1>1, CatOne
<1> HIDE DEF o
<1>3. Cat(u, Append(p, e)) = Append(Cat(u, p), e)
  BY <1>1, <1>2, CatAssociative
<1> QED BY <1>1, <1>3

\* A piece of a longer sequence, and one that takes in its last element.
LEMMA SubSeqGrows ==
    ASSUME NEW S, NEW q \in Seq(S), NEW e \in S, NEW i \in 1..Len(q) + 1, NEW j \in 0..Len(q)
    PROVE  /\ SubSeq(Append(q, e), i, j) = SubSeq(q, i, j)
           /\ SubSeq(q, i, j) \in Seq(S)
           /\ SubSeq(Append(q, e), i, Len(q) + 1) = Append(SubSeq(q, i, Len(q)), e)
<1> DEFINE n == Len(q)
           r == Append(q, e)
<1>1. /\ r \in Seq(S) /\ Len(r) = n + 1 /\ (\A k \in 1..n : r[k] = q[k]) /\ r[n + 1] = e /\ n \in Nat
      /\ \A k \in 1..n : q[k] \in S
  BY AppendProperties, LenProperties, ElementOfSeq
<1> HIDE DEF r
<1>2. ASSUME NEW m \in 0..n PROVE SubSeq(r, i, m) = SubSeq(q, i, m) /\ SubSeq(q, i, m) \in Seq(S)
  <2>1. \A k \in i..m : q[k] \in S /\ r[k] \in S /\ r[k] = q[k]
    BY <1>1
  <2>2. i \in Int /\ m \in Int
    BY <1>1
  <2> DEFINE a == SubSeq(r, i, m)
             b == SubSeq(q, i, m)
  <2>3. /\ a \in Seq(S) /\ Len(a) = IF i <= m THEN m - i + 1 ELSE 0
        /\ \A k \in 1..m - i + 1 : a[k] = r[i + k - 1]
    BY <2>1, <2>2, SubSeqProperties
  <2>4. /\ b \in Seq(S) /\ Len(b) = IF i <= m THEN m - i + 1 ELSE 0
        /\ \A k \in 1..m - i + 1 : b[k] = q[i + k - 1]
    BY <2>1, <2>2, SubSeqProperties
  <2> HIDE DEF a, b
  <2>5. ASSUME NEW k \in 1..Len(a) PROVE a[k] = b[k]
    <3>1. k \in 1..m - i + 1 /\ i + k - 1 \in i..m
      BY <2>2, <2>3
    <3> QED BY <3>1, <2>1, <2>3, <2>4
  <2>6. a = b
    BY <2>3, <2>4, <2>5, SeqEqual
  <2> QED BY <2>4, <2>6 DEF a, b
<1>3. SubSeq(r, i, n + 1) = Append(SubSeq(q, i, n), e)
  <2> DEFINE l == n + 1
             o == <<e>>
  <2>1. i \in 1..Len(r) /\ l \in i..Len(r) /\ r \in Seq(S) /\ l = n + 1 /\ l - 1 = n /\ r[l] = e /\ n \in 0..n
    BY <1>1
  <2>2. SubSeq(q, i, n) \in Seq(S) /\ SubSeq(r, i, n) = SubSeq(q, i, n)
    BY <1>2, <2>1
  <2>3. Append(SubSeq(q, i, n), e) = SubSeq(q, i, n) \o o
    BY <2>2, AppendIsConcat
  <2> HIDE DEF l
  <2>4. SubSeq(r, i, l) = SubSeq(r, i, l - 1) \o <<r[l]>>
    BY <2>1, SubSeqRecursiveSecond
  <2>5. SubSeq(r, i, l) = SubSeq(q, i, n) \o o
    BY <2>1, <2>2, <2>4
  <2> HIDE DEF o
  <2> QED BY <2>1, <2>3, <2>5
<1> QED BY <1>2, <1>3 DEF r

\* A line that grows by a character; the newline is not of the line.
Grow(x, e) == IF e = "nl" THEN x ELSE Append(x, e)

\* A character starts a line, or it grows or closes the one that is open.
LEMMA LinesStep ==
    ASSUME NEW q \in Seq(Chars), NEW e \in Chars
    PROVE  /\ ~Open(q) => LinesOf(Append(q, e)) = Append(LinesOf(q), Grow(<<>>, e))
           /\ Open(q) => \E p \in Seq(Seq(Plain)), x \in Seq(Plain) :
                 /\ x # <<>> /\ LinesOf(q) = Append(p, x)
                 /\ LinesOf(Append(q, e)) = Append(p, Grow(x, e))
<1> DEFINE n  == Len(q)
           r  == Append(q, e)
           a  == StartSeq(q)
           b  == StartSeq(r)
           m  == Len(a)
           lq == LinesOf(q)
           lr == LinesOf(r)
<1>1. /\ r \in Seq(Chars) /\ r # <<>> /\ Len(r) = n + 1 /\ (\A k \in 1..n : r[k] = q[k]) /\ r[n + 1] = e
      /\ n \in Nat /\ \A k \in 1..n : q[k] \in Chars
  BY AppendProperties, LenProperties, ElementOfSeq
<1>2. b = (IF Open(q) THEN a ELSE Append(a, n + 1)) /\ a \in Seq(Nat) /\ m \in Nat
  BY StartsStep
<1>3. lq \in Seq(Seq(Plain)) /\ Len(lq) = m /\ lr \in Seq(Seq(Plain)) /\ Len(lr) = Len(b)
  BY <1>1, LinesType, LinesLen
<1>4. ASSUME NEW k \in 1..m
      PROVE  /\ q # <<>> /\ a[k] \in 1..n /\ LineEnd(q, k) \in 0..n
             /\ lq[k] = SubSeq(q, a[k], LineEnd(q, k)) /\ lq[k] \in Seq(Plain)
  <2>1. q # <<>>
    <3>1. SUFFICES ASSUME q = <<>> PROVE FALSE
      OBVIOUS
    <3>2. a = <<>>
      BY <3>1, AscendingStep, EmptySeq DEF StartSeq
    <3> QED BY <3>2, EmptySeq
  <2> QED BY <2>1, LineRange
<1>5. ASSUME NEW k \in 1..Len(b) PROVE lr[k] = SubSeq(r, b[k], LineEnd(r, k))
  BY <1>1, <1>5, LineRange
<1>6. ASSUME NEW i \in 1..n + 1, NEW j \in 0..n
      PROVE  SubSeq(r, i, j) = SubSeq(q, i, j) /\ SubSeq(r, i, n + 1) = Append(SubSeq(q, i, n), e)
  BY SubSeqGrows
<1>7. ASSUME NEW k, k \in 1..Len(b)
      PROVE  /\ k < Len(b) => LineEnd(r, k) = b[k + 1] - 2
             /\ k = Len(b) => LineEnd(r, k) = IF e = "nl" THEN n ELSE n + 1
  BY <1>1, <1>7 DEF LineEnd
<1>8. ASSUME NEW k, k \in 1..m
      PROVE  /\ k < m => LineEnd(q, k) = a[k + 1] - 2
             /\ k = m => LineEnd(q, k) = IF q[n] = "nl" THEN n - 1 ELSE n
  BY <1>2, <1>8 DEF LineEnd
<1> HIDE DEF r, lq, lr
<1>9. CASE ~Open(q)
  <2> DEFINE z == Append(lq, Grow(<<>>, e))
  <2>1. b = Append(a, n + 1)
    BY <1>2, <1>9
  <2>2. /\ Len(b) = m + 1 /\ b[m + 1] = n + 1 /\ \A k \in 1..m : b[k] = a[k]
    <3>1. n + 1 \in Nat
      BY <1>1
    <3> HIDE DEF a, b
    <3> QED BY <1>2, <2>1, <3>1, AppendProperties
  <2>3. Grow(<<>>, e) \in Seq(Plain)
    <3>1. CASE e = "nl"
      BY <3>1, EmptySeq DEF Grow
    <3>2. CASE e # "nl"
      <4>1. e \in Plain /\ <<>> \in Seq(Plain)
        BY <3>2, EmptySeq DEF Plain
      <4> QED BY <3>2, <4>1, AppendProperties DEF Grow
    <3> QED BY <3>1, <3>2
  <2>4. /\ z \in Seq(Seq(Plain)) /\ Len(z) = m + 1 /\ z[m + 1] = Grow(<<>>, e)
        /\ \A k \in 1..m : z[k] = lq[k]
    <3> DEFINE g == Grow(<<>>, e)
    <3>1. g \in Seq(Plain)
      BY <2>3
    <3> HIDE DEF g
    <3>2. /\ Append(lq, g) \in Seq(Seq(Plain)) /\ Len(Append(lq, g)) = Len(lq) + 1
          /\ (\A k \in 1..Len(lq) : Append(lq, g)[k] = lq[k]) /\ Append(lq, g)[Len(lq) + 1] = g
      BY <1>3, <3>1, AppendProperties
    <3> QED BY <1>3, <3>2 DEF g
  <2> HIDE DEF a, b, m, z
  <2>5. ASSUME NEW k \in 1..m PROVE lr[k] = lq[k]
    <3>1. k \in 1..Len(b) /\ k < Len(b) /\ k \in Nat
      BY <1>2, <2>2
    <3>2. LineEnd(r, k) = LineEnd(q, k)
      <4>1. CASE k < m
        <5>1. k + 1 \in 1..m
          BY <1>2, <4>1
        <5>2. b[k + 1] = a[k + 1]
          BY <2>2, <5>1
        <5> QED BY <1>7, <1>8, <3>1, <4>1, <5>2
      <4>2. CASE k = m
        <5>1. LineEnd(r, k) = n + 1 - 2
          BY <1>7, <2>2, <3>1, <4>2
        <5>2. q # <<>> /\ q[n] = "nl"
          BY <1>4, <1>9 DEF Open
        <5>3. LineEnd(q, k) = n - 1
          BY <1>8, <4>2, <5>2
        <5> QED BY <5>1, <5>3, <1>1
      <4> QED BY <4>1, <4>2, <1>2
    <3>3. /\ lr[k] = SubSeq(r, a[k], LineEnd(q, k)) /\ lq[k] = SubSeq(q, a[k], LineEnd(q, k))
          /\ a[k] \in 1..n + 1 /\ LineEnd(q, k) \in 0..n
      <4>1. lr[k] = SubSeq(r, b[k], LineEnd(r, k))
        BY <3>1, <1>5
      <4>2. a[k] \in 1..n + 1
        BY <1>1, <1>4
      <4> QED BY <4>1, <4>2, <1>4, <2>2, <3>2
    <3> QED BY <3>3, <1>6
  <2>6. lr[m + 1] = Grow(<<>>, e)
    <3>1. m + 1 \in 1..Len(b) /\ m + 1 = Len(b)
      BY <1>2, <2>2
    <3>2. lr[m + 1] = SubSeq(r, n + 1, IF e = "nl" THEN n ELSE n + 1)
      <4>1. LineEnd(r, m + 1) = IF e = "nl" THEN n ELSE n + 1
        BY <1>7, <3>1
      <4>2. lr[m + 1] = SubSeq(r, b[m + 1], LineEnd(r, m + 1))
        BY <1>5, <3>1
      <4> QED BY <4>1, <4>2, <2>2
    <3>3. n + 1 \in 1..n + 1 /\ n \in 0..n /\ SubSeq(q, n + 1, n) = <<>>
      BY <1>1, SubSeqEmpty
    <3>4. /\ SubSeq(r, n + 1, n) = SubSeq(q, n + 1, n)
          /\ SubSeq(r, n + 1, n + 1) = Append(SubSeq(q, n + 1, n), e)
      BY <3>3, <1>6
    <3> QED BY <3>2, <3>3, <3>4 DEF Grow
  <2>7. lr = z
    <3>1. \A k \in 1..Len(lr) : k \in 1..m \/ k = m + 1
      BY <1>2, <1>3, <2>2
    <3>2. \A k \in 1..Len(lr) : lr[k] = z[k]
      BY <3>1, <2>4, <2>5, <2>6
    <3> QED BY <1>3, <2>2, <2>4, <3>2, SeqEqual
  <2> QED BY <1>9, <2>7 DEF z, lr, lq, r
<1>10. CASE Open(q)
  <2>1. b = a /\ q # <<>> /\ q[n] # "nl" /\ n \in 1..n
    BY <1>1, <1>2, <1>10, EmptySeq DEF Open
  <2>2. m \in 1..m
    <3>1. 1 \in LineStarts(q) /\ 1 \in 1..n
      BY <1>1, <2>1 DEF LineStarts
    <3>2. \E k \in 1..m : a[k] = 1
      BY <1>1, <3>1, AscendingLaws DEF StartSeq
    <3> HIDE DEF a, b, m
    <3> QED BY <1>2, <3>2
  <2> HIDE DEF a, b, m
  <2>3. PICK p \in Seq(Seq(Plain)), x \in Seq(Plain) : lq = Append(p, x)
    <3>1. lq # <<>>
      BY <1>3, <2>2, EmptySeq
    <3> QED BY <1>3, <3>1, SequenceEmptyOrAppend
  <2>4. /\ Len(p) = m - 1 /\ Len(p) \in Nat /\ lq[m] = x /\ \A k \in 1..m - 1 : lq[k] = p[k]
    <3>1. /\ Len(Append(p, x)) = Len(p) + 1 /\ (\A k \in 1..Len(p) : Append(p, x)[k] = p[k])
          /\ Append(p, x)[Len(p) + 1] = x /\ Len(p) \in Nat
      BY AppendProperties, LenProperties
    <3>2. Len(p) = m - 1 /\ Len(p) + 1 = m
      BY <1>2, <1>3, <2>3, <3>1
    <3> QED BY <2>3, <3>1, <3>2
  <2>5. a[m] \in 1..n /\ LineEnd(q, m) = n /\ x = SubSeq(q, a[m], n)
    BY <1>4, <1>8, <2>1, <2>2, <2>4
  <2>6. x # <<>>
    <3>1. /\ \A k \in a[m]..n : q[k] \in Chars
          /\ a[m] \in Int /\ n \in Int /\ a[m] <= n
      BY <1>1, <2>5
    <3>2. Len(x) = n - a[m] + 1
      BY <2>5, <3>1, SubSeqProperties
    <3>3. Len(x) # 0
      BY <3>1, <3>2
    <3> QED BY <3>3, EmptySeq
  <2>7. ASSUME NEW k \in 1..m - 1 PROVE lr[k] = p[k]
    <3>1. k \in 1..m /\ k < m /\ k \in 1..Len(b) /\ k < Len(b) /\ k + 1 \in 1..m
      BY <1>2, <2>1 DEF m
    <3>2. LineEnd(r, k) = LineEnd(q, k)
      BY <1>7, <1>8, <3>1, <2>1
    <3>3. /\ lr[k] = SubSeq(r, a[k], LineEnd(q, k)) /\ lq[k] = SubSeq(q, a[k], LineEnd(q, k))
          /\ a[k] \in 1..n + 1 /\ LineEnd(q, k) \in 0..n
      <4>1. lr[k] = SubSeq(r, b[k], LineEnd(r, k))
        BY <3>1, <1>5
      <4>2. a[k] \in 1..n + 1
        BY <1>1, <1>4, <3>1
      <4> QED BY <4>1, <4>2, <1>4, <2>1, <3>1, <3>2
    <3>4. lr[k] = lq[k]
      BY <3>3, <1>6
    <3> QED BY <3>4, <2>4
  <2>8. lr[m] = Grow(x, e)
    <3>1. m \in 1..Len(b) /\ m = Len(b)
      BY <2>1, <2>2 DEF m
    <3>2. lr[m] = SubSeq(r, a[m], IF e = "nl" THEN n ELSE n + 1)
      <4>1. LineEnd(r, m) = IF e = "nl" THEN n ELSE n + 1
        BY <1>7, <3>1
      <4>2. lr[m] = SubSeq(r, b[m], LineEnd(r, m))
        BY <1>5, <3>1
      <4> QED BY <4>1, <4>2, <2>1
    <3>3. a[m] \in 1..n + 1 /\ n \in 0..n
      BY <1>1, <2>5
    <3>4. SubSeq(r, a[m], n) = SubSeq(q, a[m], n) /\ SubSeq(r, a[m], n + 1) = Append(SubSeq(q, a[m], n), e)
      BY <3>3, <1>6
    <3> QED BY <2>5, <3>2, <3>4 DEF Grow
  <2>9. Grow(x, e) \in Seq(Plain)
    <3>1. e # "nl" => e \in Plain
      BY DEF Plain
    <3> QED BY <3>1, AppendProperties DEF Grow
  <2>10. lr = Append(p, Grow(x, e))
    <3> DEFINE g == Grow(x, e)
    <3>1. g \in Seq(Plain) /\ lr[m] = g
      BY <2>8, <2>9
    <3> HIDE DEF g
    <3> DEFINE z == Append(p, g)
    <3>2. /\ z \in Seq(Seq(Plain)) /\ Len(z) = Len(p) + 1
          /\ (\A k \in 1..Len(p) : z[k] = p[k]) /\ z[Len(p) + 1] = g
      BY <3>1, AppendProperties
    <3>3. Len(lr) = m /\ Len(p) + 1 = m
      BY <1>2, <1>3, <2>1, <2>4 DEF m
    <3> HIDE DEF z
    <3>4. \A k \in 1..Len(lr) : k \in 1..m - 1 \/ k = m
      BY <1>2, <3>3
    <3>5. \A k \in 1..Len(lr) : lr[k] = z[k]
      BY <2>4, <2>7, <3>1, <3>2, <3>3, <3>4
    <3>7. lr \in Seq(Seq(Plain)) /\ z \in Seq(Seq(Plain)) /\ Len(lr) = Len(z)
      BY <1>3, <3>2, <3>3
    <3>6. lr = z
      BY <3>5, <3>7, SeqEqual
    <3> QED BY <3>6 DEF z, g
  <2> QED BY <1>10, <2>3, <2>6, <2>10 DEF lr, lq, r
<1> QED BY <1>9, <1>10
-----------------------------------------------------------------------------
(* Lines of a text and its continuation. *)

\* Only the last character says whether a line is open.
LEMMA OpenAppend ==
    ASSUME NEW q \in Seq(Chars), NEW e \in Chars
    PROVE  Open(Append(q, e)) <=> e # "nl"
<1> DEFINE r == Append(q, e)
<1>1. Len(r) = Len(q) + 1 /\ Len(q) \in Nat /\ r[Len(q) + 1] = e /\ r \in Seq(Chars)
  BY AppendProperties, LenProperties
<1> HIDE DEF r
<1>2. Len(r) # 0 /\ r[Len(r)] = e
  BY <1>1
<1>3. r # <<>>
  BY <1>2, EmptySeq
<1> QED BY <1>2, <1>3 DEF Open, r

\* A line that grows is a line, and text.
LEMMA GrowType ==
    ASSUME NEW x \in Seq(Plain), NEW e \in Chars
    PROVE  Grow(x, e) \in Seq(Plain) /\ x \in Seq(Chars) /\ <<>> \in Seq(Plain)
<1>1. e # "nl" => e \in Plain
  BY DEF Plain
<1>2. x \in Seq(Chars)
  <2>1. Len(x) \in Nat /\ x = [i \in 1..Len(x) |-> x[i]] /\ \A i \in 1..Len(x) : x[i] \in Plain
    BY LenProperties, ElementOfSeq
  <2>2. \A i \in 1..Len(x) : x[i] \in Chars
    BY <2>1 DEF Plain
  <2>3. [i \in 1..Len(x) |-> x[i]] \in Seq(Chars)
    BY <2>1, <2>2, IsASeq
  <2> QED BY <2>1, <2>3
<1> QED BY <1>1, <1>2, AppendProperties, EmptySeq DEF Grow

\* Where no line is open, the lines of what follows follow the lines so far.
LEMMA LinesCat ==
    ASSUME NEW p \in Seq(Chars), ~Open(p), NEW t \in Seq(Chars)
    PROVE  LinesOf(Cat(p, t)) = Cat(LinesOf(p), LinesOf(t)) /\ (Open(Cat(p, t)) <=> Open(t))
<1> DEFINE lp == LinesOf(p)
           P  == Seq(Plain)
           T  == {q \in Seq(Chars) : /\ LinesOf(Cat(p, q)) = Cat(lp, LinesOf(q))
                                     /\ Open(Cat(p, q)) <=> Open(q)}
<1>1. lp \in Seq(P)
  BY LinesType
<1>2. <<>> \in T
  <2>1. LinesOf(<<>>) = <<>> /\ ~Open(<<>>)
    BY DEF LinesOf, Open
  <2>2. Cat(p, <<>>) = p /\ Cat(lp, <<>>) = lp /\ <<>> \in Seq(Chars)
    <3> HIDE DEF lp
    <3> QED BY <1>1, CatEmpty, EmptySeq
  <2> QED BY <2>1, <2>2
<1>3. ASSUME NEW q \in Seq(Chars), NEW e \in Chars, q \in T PROVE Append(q, e) \in T
  <2> DEFINE lq == LinesOf(q)
             c  == Cat(p, q)
             r  == Append(q, e)
  <2>1. Cat(p, r) = Append(c, e) /\ c \in Seq(Chars) /\ r \in Seq(Chars)
    BY CatAppend
  <2>2. LinesOf(c) = Cat(lp, lq) /\ (Open(c) <=> Open(q))
    BY <1>3
  <2>3. lq \in Seq(P)
    BY LinesType
  <2>4. Open(Cat(p, r)) <=> Open(r)
    <3>1. (Open(Append(c, e)) <=> e # "nl") /\ (Open(r) <=> e # "nl")
      BY <2>1, OpenAppend
    <3> QED BY <2>1, <3>1
  <2>5. CASE ~Open(q)
    <3> DEFINE g == Grow(<<>>, e)
    <3>1. g \in P
      BY GrowType, EmptySeq
    <3>2. LinesOf(r) = Append(lq, g)
      BY <2>5, LinesStep
    <3>3. LinesOf(Append(c, e)) = Append(Cat(lp, lq), g)
      BY <2>1, <2>2, <2>5, LinesStep
    <3> HIDE DEF lp, lq, g, P
    <3>4. Cat(lp, Append(lq, g)) = Append(Cat(lp, lq), g)
      BY <1>1, <2>3, <3>1, CatAppend
    <3> QED BY <2>1, <2>4, <3>2, <3>3, <3>4 DEF lp
  <2>6. CASE Open(q)
    <3>1. PICK a \in Seq(P), x \in P : lq = Append(a, x) /\ LinesOf(r) = Append(a, Grow(x, e))
      BY <2>6, LinesStep
    <3>2. PICK b \in Seq(P), y \in P : /\ LinesOf(c) = Append(b, y)
                                       /\ LinesOf(Append(c, e)) = Append(b, Grow(y, e))
      BY <2>1, <2>2, <2>6, LinesStep
    <3> DEFINE g == Grow(x, e)
    <3>3. g \in P
      BY GrowType
    <3> HIDE DEF lp, lq, P, g
    <3>4. Cat(lp, Append(a, x)) = Append(Cat(lp, a), x) /\ Cat(lp, a) \in Seq(P)
      BY <1>1, <3>1, CatAppend
    <3>5. Append(Cat(lp, a), x) = Append(b, y)
      BY <2>2, <3>1, <3>2, <3>4
    <3>6. Cat(lp, a) = b /\ x = y
      BY <3>1, <3>2, <3>4, <3>5, AppendInjective
    <3>7. Cat(lp, Append(a, g)) = Append(Cat(lp, a), g)
      BY <1>1, <3>1, <3>3, CatAppend
    <3>8. LinesOf(Append(c, e)) = Append(b, g) /\ LinesOf(r) = Append(a, g)
      BY <3>1, <3>2, <3>6 DEF g
    <3> QED BY <2>1, <2>4, <3>6, <3>7, <3>8 DEF lp
  <2> QED BY <2>5, <2>6
<1>4. \A q \in Seq(Chars) : q \in T
  <2> HIDE DEF T
  <2> QED BY <1>2, <1>3, SeqInduct
<1> QED BY <1>4

\* A line that is open goes on until there is a newline.
LEMMA LineGoesOn ==
    ASSUME NEW p \in Seq(Chars), Open(p), NEW u \in Seq(Plain)
    PROVE  \E a \in Seq(Seq(Plain)), x \in Seq(Plain) :
              /\ x # <<>> /\ LinesOf(p) = Append(a, x)
              /\ LinesOf(Cat(p, u)) = Append(a, Cat(x, u))
              /\ LinesOf(Append(Cat(p, u), "nl")) = Append(a, Cat(x, u))
<1> DEFINE P == Seq(Plain)
<1>0. "nl" \in Chars /\ "x" \in Chars /\ \A e \in Plain : e \in Chars /\ e # "nl"
  BY DEF Chars, Plain
<1>1. PICK a \in Seq(P), x \in P : x # <<>> /\ LinesOf(p) = Append(a, x)
  BY <1>0, LinesStep
<1> DEFINE T == {q \in Seq(Plain) : /\ Open(Cat(p, q))
                                    /\ LinesOf(Cat(p, q)) = Append(a, Cat(x, q))}
<1>2. <<>> \in T
  BY <1>1, CatEmpty, EmptySeq
<1>3. ASSUME NEW q \in Seq(Plain), NEW e \in Plain, q \in T PROVE Append(q, e) \in T
  <2> DEFINE c == Cat(p, q)
             y == Cat(x, q)
             r == Append(q, e)
  <2>1. q \in Seq(Chars) /\ e \in Chars /\ e # "nl"
    BY <1>0, GrowType
  <2>2. Cat(p, r) = Append(c, e) /\ c \in Seq(Chars)
    BY <2>1, CatAppend
  <2>3. Cat(x, r) = Append(y, e) /\ y \in Seq(Plain) /\ r \in Seq(Plain)
    BY CatAppend
  <2>4. Open(c) /\ LinesOf(c) = Append(a, y)
    BY <1>3
  <2>5. PICK b \in Seq(P), z \in P : /\ LinesOf(c) = Append(b, z)
                                     /\ LinesOf(Append(c, e)) = Append(b, Grow(z, e))
    BY <2>1, <2>2, <2>4, LinesStep
  <2>6. Open(Append(c, e))
    BY <2>1, <2>2, OpenAppend
  <2> HIDE DEF c, y, r, P
  <2>7. a = b /\ y = z
    <3>1. Append(a, y) = Append(b, z) /\ y \in P
      BY <2>3, <2>4, <2>5 DEF P
    <3> QED BY <1>1, <2>5, <3>1, AppendInjective
  <2>8. LinesOf(Append(c, e)) = Append(a, Append(y, e))
    BY <2>1, <2>5, <2>7 DEF Grow
  <2> QED BY <2>2, <2>3, <2>6, <2>8 DEF r
<1>4. \A q \in Seq(Plain) : q \in T
  <2> HIDE DEF T
  <2> QED BY <1>2, <1>3, SeqInduct
<1> DEFINE c == Cat(p, u)
           y == Cat(x, u)
<1>5. Open(c) /\ LinesOf(c) = Append(a, y)
  BY <1>4
<1>6. c \in Seq(Chars) /\ y \in P
  BY <1>0, GrowType, CatType
<1>7. PICK b \in Seq(P), z \in P : /\ LinesOf(c) = Append(b, z)
                                   /\ LinesOf(Append(c, "nl")) = Append(b, Grow(z, "nl"))
  BY <1>0, <1>5, <1>6, LinesStep
<1>8. LinesOf(Append(c, "nl")) = Append(a, y)
  <2> HIDE DEF c, y, P
  <2>1. a = b /\ y = z
    <3>1. Append(a, y) = Append(b, z)
      BY <1>5, <1>7
    <3> QED BY <1>1, <1>6, <1>7, <3>1, AppendInjective
  <2> QED BY <1>7, <2>1 DEF Grow
<1> QED BY <1>1, <1>5, <1>8

\* A text without a newline is one line.
LEMMA OneLine ==
    ASSUME NEW u \in Seq(Plain), u # <<>>
    PROVE  LinesOf(u) = Append(<<>>, u) /\ u \in Seq(Chars)
<1> DEFINE P == Seq(Plain)
           T == {q \in P : q # <<>> => Open(q) /\ LinesOf(q) = Append(<<>>, q)}
<1>1. <<>> \in T
  BY EmptySeq
<1>2. ASSUME NEW q \in P, NEW e \in Plain, q \in T PROVE Append(q, e) \in T
  <2> DEFINE r == Append(q, e)
  <2>1. q \in Seq(Chars) /\ e \in Chars /\ e # "nl" /\ r \in P
    <3>1. e \in Chars /\ e # "nl"
      BY DEF Plain
    <3> QED BY <3>1, GrowType, AppendProperties
  <2>2. Open(r)
    BY <2>1, OpenAppend
  <2>3. CASE q = <<>>
    <3>1. ~Open(q) /\ LinesOf(q) = <<>>
      BY <2>3 DEF Open, LinesOf
    <3>2. LinesOf(r) = Append(LinesOf(q), Grow(<<>>, e))
      BY <2>1, <3>1, LinesStep
    <3> QED BY <2>1, <2>2, <2>3, <3>1, <3>2 DEF Grow
  <2>4. CASE q # <<>>
    <3>1. Open(q) /\ LinesOf(q) = Append(<<>>, q)
      BY <1>2, <2>4
    <3>2. PICK b \in Seq(P), z \in P : LinesOf(q) = Append(b, z) /\ LinesOf(r) = Append(b, Grow(z, e))
      BY <2>1, <3>1, LinesStep
    <3> HIDE DEF r, P
    <3>3. b = <<>> /\ z = q
      <4>1. <<>> \in Seq(P) /\ Append(<<>>, q) = Append(b, z)
        BY <3>1, <3>2, EmptySeq
      <4> QED BY <3>2, <4>1, AppendInjective
    <3> QED BY <2>1, <2>2, <3>2, <3>3 DEF Grow, r
  <2> QED BY <2>3, <2>4
<1>3. \A q \in P : q \in T
  <2> HIDE DEF T
  <2> QED BY <1>1, <1>2, SeqInduct
<1>4. u \in Seq(Chars)
  <2>1. "x" \in Chars
    BY DEF Chars
  <2> QED BY <2>1, GrowType
<1> QED BY <1>3, <1>4
-----------------------------------------------------------------------------
(* Joined lines. *)

\* A line with its newline in front, for the lines of a text.
LedBy == [x \in Seq(Plain) |-> <<"nl">> \o x]

\* JoinLines in these terms.
LEMMA JoinIs ==
    ASSUME NEW ls \in Seq(Seq(Plain)), ls # <<>>
    PROVE  JoinLines(ls) = Tail(Flat(LedBy, ls)) /\ Gives(LedBy, Seq(Plain), Chars)
<1>1. Len(ls) \in Nat /\ \A i \in 1..Len(ls) : ls[i] \in Seq(Plain)
  BY LenProperties, ElementOfSeq
<1>2. [k \in 1..Len(ls) |-> <<"nl">> \o ls[k]] = [k \in 1..Len(ls) |-> LedBy[ls[k]]]
  BY <1>1 DEF LedBy
<1>3. Gives(LedBy, Seq(Plain), Chars)
  <2>1. \A x \in Seq(Plain) : <<"nl">> \o x \in Seq(Chars)
    BY LedLine
  <2> QED BY <2>1 DEF Gives, LedBy
<1> QED BY <1>2, <1>3 DEF JoinLines, Flat

\* What is behind the first element stays behind it.
LEMMA TailOfCat ==
    ASSUME NEW S, NEW u \in Seq(S), u # <<>>, NEW v \in Seq(S)
    PROVE  Tail(Cat(u, v)) = Cat(Tail(u), v) /\ Tail(u) \in Seq(S) /\ Cat(u, v) # <<>>
<1> DEFINE c == Cat(u, v)
           a == Tail(c)
           w == Tail(u)
           b == Cat(w, v)
<1>1. Len(u) \in Nat /\ Len(u) # 0 /\ Len(v) \in Nat
  BY LenProperties, EmptySeq
<1>2. /\ c \in Seq(S) /\ Len(c) = Len(u) + Len(v)
      /\ \A i \in 1..Len(u) + Len(v) : c[i] = IF i <= Len(u) THEN u[i] ELSE v[i - Len(u)]
  BY ConcatProperties DEF Cat
<1> HIDE DEF c
<1>3. Len(c) # 0
  BY <1>1, <1>2
<1>4. c # <<>>
  BY <1>3, EmptySeq
<1>5. a \in Seq(S) /\ Len(a) = Len(c) - 1 /\ \A i \in 1..Len(a) : a[i] = c[i + 1]
  BY <1>2, <1>4, HeadTailProperties
<1>6. w \in Seq(S) /\ Len(w) = Len(u) - 1 /\ \A i \in 1..Len(w) : w[i] = u[i + 1]
  BY HeadTailProperties
<1> HIDE DEF a, w
<1>7. /\ b \in Seq(S) /\ Len(b) = Len(w) + Len(v)
      /\ \A i \in 1..Len(w) + Len(v) : b[i] = IF i <= Len(w) THEN w[i] ELSE v[i - Len(w)]
  BY <1>6, ConcatProperties DEF Cat
<1> HIDE DEF b
<1>8. Len(a) = Len(b)
  BY <1>1, <1>2, <1>5, <1>6, <1>7
<1>9. ASSUME NEW i \in 1..Len(a) PROVE a[i] = b[i]
  <2>1. i \in 1..Len(w) + Len(v) /\ i + 1 \in 1..Len(u) + Len(v) /\ i \in Nat
    BY <1>1, <1>2, <1>5, <1>6
  <2>2. a[i] = c[i + 1]
    BY <1>5
  <2>3. CASE i <= Len(w)
    <3>1. i \in 1..Len(w) /\ i + 1 <= Len(u)
      BY <1>1, <1>6, <2>1, <2>3
    <3> QED BY <2>1, <2>2, <3>1, <1>2, <1>6, <1>7
  <2>4. CASE ~(i <= Len(w))
    <3> DEFINE j == i + 1
               k == i - Len(w)
    <3>1. ~(j <= Len(u)) /\ j - Len(u) = k /\ j \in 1..Len(u) + Len(v) /\ a[i] = c[j]
      BY <1>1, <1>6, <2>1, <2>2, <2>4
    <3>2. b[i] = v[k]
      BY <2>1, <2>4, <1>7
    <3> HIDE DEF j, k
    <3>3. c[j] = v[j - Len(u)]
      BY <3>1, <1>2
    <3> QED BY <3>1, <3>2, <3>3
  <2> QED BY <2>3, <2>4
<1>10. a = b
  BY <1>5, <1>7, <1>8, <1>9, SeqEqual
<1> QED BY <1>4, <1>6, <1>10 DEF a, b, c, w

\* One line is its own text; a further one is set off by a newline.
LEMMA JoinAppend ==
    ASSUME NEW ls \in Seq(Seq(Plain)), NEW x \in Seq(Plain)
    PROVE  /\ JoinLines(Append(<<>>, x)) = x
           /\ ls # <<>> => JoinLines(Append(ls, x)) = Cat(Append(JoinLines(ls), "nl"), x)
           /\ JoinLines(ls) \in Seq(Chars) /\ x \in Seq(Chars) /\ Append(JoinLines(ls), "nl") \in Seq(Chars)
<1> DEFINE P == Seq(Plain)
           h == <<"nl">>
           y == LedBy[x]
           F(q) == Flat(LedBy, q)
<1>0. "nl" \in Chars /\ h \in Seq(Chars) /\ h # <<>> /\ Tail(h) = <<>>
  BY DEF Chars
<1>1. x \in Seq(Chars) /\ JoinLines(ls) \in Seq(Chars)
  BY <1>0, GrowType, JoinType
<1>2. y = Cat(h, x) /\ y \in Seq(Chars)
  <2>1. y = Cat(h, x)
    BY DEF LedBy, Cat
  <2> HIDE DEF h, y
  <2> QED BY <2>1, <1>0, <1>1, CatType
<1>3. ASSUME NEW q \in Seq(P)
      PROVE  JoinLines(Append(q, x)) = Tail(Cat(F(q), y)) /\ F(q) \in Seq(Chars)
  <2>1. Append(q, x) \in Seq(P) /\ Append(q, x) # <<>>
    BY AppendProperties
  <2>2. JoinLines(Append(q, x)) = Tail(F(Append(q, x))) /\ Gives(LedBy, P, Chars)
    BY <2>1, JoinIs
  <2>3. F(Append(q, x)) = Cat(F(q), y) /\ F(q) \in Seq(Chars)
    BY <2>2, FlatAppend
  <2> QED BY <2>2, <2>3
<1>4. JoinLines(Append(<<>>, x)) = x
  <2>1. <<>> \in Seq(P) /\ F(<<>>) = <<>>
    BY FlatEmpty, EmptySeq
  <2>2. JoinLines(Append(<<>>, x)) = Tail(Cat(<<>>, y))
    BY <1>3, <2>1
  <2> HIDE DEF h, y
  <2>3. Cat(<<>>, y) = y
    BY <1>2, CatEmpty
  <2>4. Tail(y) = Cat(Tail(h), x)
    BY <1>0, <1>1, <1>2, TailOfCat
  <2>5. Cat(<<>>, x) = x
    BY <1>1, CatEmpty
  <2> QED BY <1>0, <2>2, <2>3, <2>4, <2>5
<1>5. ASSUME ls # <<>> PROVE JoinLines(Append(ls, x)) = Cat(Append(JoinLines(ls), "nl"), x)
  <2> DEFINE f == F(ls)
  <2>1. JoinLines(Append(ls, x)) = Tail(Cat(f, y)) /\ f \in Seq(Chars)
    BY <1>3
  <2>2. JoinLines(ls) = Tail(f)
    BY <1>5, JoinIs
  <2>3. f # <<>>
    <3>1. PICK p \in Seq(P), z \in P : ls = Append(p, z)
      BY <1>5, SequenceEmptyOrAppend
    <3> DEFINE w == <<"nl">> \o z
    <3>2. w \in Seq(Chars) /\ w # <<>> /\ w = LedBy[z]
      BY LedLine DEF LedBy
    <3>3. Gives(LedBy, P, Chars)
      BY <1>5, JoinIs
    <3>4. f = Cat(F(p), w) /\ F(p) \in Seq(Chars)
      <4>1. Flat(LedBy, Append(p, z)) = Cat(Flat(LedBy, p), LedBy[z]) /\ Flat(LedBy, p) \in Seq(Chars)
        BY <3>3, FlatAppend
      <4> HIDE DEF w
      <4> QED BY <3>1, <3>2, <4>1
    <3> HIDE DEF f, w
    <3>5. Len(w) # 0 /\ Len(w) \in Nat /\ Len(F(p)) \in Nat
      BY <3>2, <3>4, EmptySeq, LenProperties
    <3>6. Len(f) = Len(F(p)) + Len(w)
      BY <3>2, <3>4, ConcatProperties DEF Cat
    <3>7. Len(f) # 0
      BY <3>5, <3>6
    <3> QED BY <3>7, EmptySeq
  <2> DEFINE j == JoinLines(ls)
  <2> HIDE DEF f, h, y, j
  <2>4. Tail(Cat(f, y)) = Cat(j, Cat(h, x))
    BY <1>2, <2>1, <2>2, <2>3, TailOfCat DEF j
  <2>5. j \in Seq(Chars)
    BY <1>1 DEF j
  <2>6. Cat(j, Cat(h, x)) = Cat(Cat(j, h), x)
    BY <1>0, <1>1, <2>5, CatAssociative
  <2>7. Append(j, "nl") = Cat(j, h)
    BY <1>0, <2>5, CatOne DEF h
  <2> QED BY <2>1, <2>4, <2>6, <2>7 DEF j
<1> QED BY <1>0, <1>1, <1>4, <1>5, AppendProperties

\* The lines of two texts, one below the other.
LEMMA JoinCat ==
    ASSUME NEW u \in Seq(Seq(Plain)), u # <<>>, NEW v \in Seq(Seq(Plain)), v # <<>>
    PROVE  JoinLines(Cat(u, v)) = Cat(Append(JoinLines(u), "nl"), JoinLines(v))
<1> DEFINE P == Seq(Plain)
           h == Append(JoinLines(u), "nl")
           T == {q \in Seq(P) : q # <<>> => JoinLines(Cat(u, q)) = Cat(h, JoinLines(q))}
<1>0. "nl" \in Chars
  BY DEF Chars
<1>1. h \in Seq(Chars)
  BY <1>0, JoinType, AppendProperties
<1>2. <<>> \in T
  BY EmptySeq
<1>3. ASSUME NEW q \in Seq(P), NEW e \in P, q \in T PROVE Append(q, e) \in T
  <2> DEFINE c == Cat(u, q)
  <2>1. Cat(u, Append(q, e)) = Append(c, e) /\ c \in Seq(P) /\ Append(q, e) \in Seq(P)
    BY CatAppend
  <2>2. CASE q = <<>>
    <3>1. c = u
      BY <2>2, CatEmpty
    <3>2. JoinLines(Append(u, e)) = Cat(h, e) /\ JoinLines(Append(q, e)) = e
      BY <2>2, JoinAppend
    <3> HIDE DEF h, c
    <3> QED BY <2>1, <3>1, <3>2
  <2>3. CASE q # <<>>
    <3> DEFINE jq == JoinLines(q)
               k  == Append(jq, "nl")
    <3>1. JoinLines(c) = Cat(h, jq)
      BY <1>3, <2>3
    <3>2. c # <<>>
      <4>1. Len(u) # 0 /\ Len(u) \in Nat /\ Len(q) \in Nat
        BY EmptySeq, LenProperties
      <4>2. Len(c) = Len(u) + Len(q)
        BY ConcatProperties DEF Cat
      <4> HIDE DEF c
      <4>3. Len(c) # 0
        BY <4>1, <4>2
      <4> QED BY <4>3, EmptySeq
    <3>3. jq \in Seq(Chars) /\ k \in Seq(Chars) /\ e \in Seq(Chars)
      BY <1>0, JoinType, AppendProperties, GrowType
    <3> HIDE DEF h, c, jq
    <3>4. JoinLines(Append(c, e)) = Cat(Append(Cat(h, jq), "nl"), e)
      BY <2>1, <3>1, <3>2, JoinAppend
    <3>5. Append(Cat(h, jq), "nl") = Cat(h, k)
      BY <1>0, <1>1, <3>3, CatAppend
    <3> HIDE DEF k
    <3>6. Cat(Cat(h, k), e) = Cat(h, Cat(k, e))
      BY <1>1, <3>3, CatAssociative
    <3>7. JoinLines(Append(q, e)) = Cat(k, e)
      BY <2>3, JoinAppend DEF jq, k
    <3> QED BY <2>1, <3>4, <3>5, <3>6, <3>7
  <2> QED BY <2>2, <2>3
<1>4. \A q \in Seq(P) : q \in T
  <2> HIDE DEF T
  <2> QED BY <1>2, <1>3, SeqInduct
<1> QED BY <1>4

\* The lines of a text, joined, are the text, but for a newline at its end.
LEMMA JoinText ==
    ASSUME NEW t \in Seq(Chars), t # <<>>
    PROVE  /\ LinesOf(t) # <<>> /\ JoinLines(LinesOf(t)) \in Seq(Chars)
           /\ t = IF Open(t) THEN JoinLines(LinesOf(t)) ELSE Append(JoinLines(LinesOf(t)), "nl")
<1> DEFINE P == Seq(Plain)
           J(q) == JoinLines(LinesOf(q))
           T == {q \in Seq(Chars) : q # <<>> =>
                     /\ LinesOf(q) # <<>>
                     /\ q = IF Open(q) THEN J(q) ELSE Append(J(q), "nl")}
<1>0. "nl" \in Chars /\ <<>> \in P /\ <<>> \in Seq(P)
  BY EmptySeq DEF Chars
<1>1. <<>> \in T
  BY EmptySeq
<1>2. ASSUME NEW q \in Seq(Chars), NEW e \in Chars, q \in T PROVE Append(q, e) \in T
  <2> DEFINE r == Append(q, e)
             lq == LinesOf(q)
             lr == LinesOf(r)
  <2>1. r \in Seq(Chars) /\ lq \in Seq(P) /\ (Open(r) <=> e # "nl")
    BY AppendProperties, LinesType, OpenAppend
  <2> SUFFICES /\ lr # <<>>
               /\ e = "nl" => r = Append(JoinLines(lr), "nl")
               /\ e # "nl" => r = JoinLines(lr)
    BY <2>1
  <2>2. CASE ~Open(q)
    <3> DEFINE g == Grow(<<>>, e)
    <3>1. lr = Append(lq, g) /\ g \in P
      BY <2>2, LinesStep, GrowType, <1>0
    <3>2. (e = "nl" => g = <<>>) /\ (e # "nl" => g = Append(<<>>, e))
      BY DEF Grow
    <3>3. JoinLines(lr) = Cat(q, g)
      <4>1. CASE q = <<>>
        <5>1. lq = <<>>
          BY <4>1 DEF LinesOf
        <5>2. g \in Seq(Chars)
          BY <1>0, <3>1, GrowType
        <5> HIDE DEF g, lq, lr
        <5>3. JoinLines(Append(<<>>, g)) = g
          BY <1>0, <3>1, JoinAppend
        <5>4. Cat(<<>>, g) = g
          BY <5>2, CatEmpty
        <5> QED BY <3>1, <4>1, <5>1, <5>3, <5>4
      <4>2. CASE q # <<>>
        <5>1. lq # <<>> /\ q = Append(JoinLines(lq), "nl")
          BY <1>2, <2>2, <4>2
        <5> HIDE DEF g, lq, lr
        <5>2. JoinLines(Append(lq, g)) = Cat(Append(JoinLines(lq), "nl"), g)
          BY <2>1, <3>1, <5>1, JoinAppend
        <5> QED BY <3>1, <5>1, <5>2
      <4> QED BY <4>1, <4>2
    <3>4. e = "nl" => Cat(q, g) = q
      BY <3>2, CatEmpty
    <3>5. e # "nl" => Cat(q, g) = r
      <4>1. SUFFICES ASSUME e # "nl" PROVE Cat(q, g) = r
        OBVIOUS
      <4> DEFINE o == <<>>
      <4>3. o \in Seq(Chars) /\ Cat(q, o) = q
        BY CatEmpty, EmptySeq
      <4> HIDE DEF o
      <4>4. Cat(q, Append(o, e)) = Append(Cat(q, o), e)
        BY <4>3, CatAppend
      <4>2. Cat(q, Append(<<>>, e)) = Append(Cat(q, <<>>), e) /\ Cat(q, <<>>) = q
        BY <4>3, <4>4 DEF o
      <4> QED BY <3>2, <4>1, <4>2
    <3>6. lr # <<>>
      <4> HIDE DEF g, lq, lr
      <4> QED BY <2>1, <3>1, AppendProperties
    <3> HIDE DEF lr, lq, g
    <3> QED BY <3>3, <3>4, <3>5, <3>6
  <2>3. CASE Open(q)
    <3>1. PICK a \in Seq(P), x \in P : lq = Append(a, x) /\ lr = Append(a, Grow(x, e))
      BY <2>3, LinesStep
    <3>2. q = JoinLines(lq)
      <4>1. q # <<>>
        BY <2>3 DEF Open
      <4> QED BY <1>2, <2>3, <4>1
    <3> HIDE DEF lq, lr
    <3>3. lr # <<>>
      <4> DEFINE g == Grow(x, e)
      <4>1. g \in P /\ lr = Append(a, g)
        BY <3>1, GrowType
      <4> HIDE DEF g
      <4>2. Len(lr) = Len(a) + 1 /\ Len(a) \in Nat
        BY <3>1, <4>1, AppendProperties, LenProperties
      <4>3. Len(lr) # 0
        BY <4>2
      <4> QED BY <4>3, EmptySeq
    <3>4. CASE e = "nl"
      <4>1. lr = lq
        BY <3>1, <3>4 DEF Grow
      <4> QED BY <3>2, <3>3, <3>4, <4>1
    <3>5. CASE e # "nl"
      <4> DEFINE y == Append(x, e)
      <4>1. lr = Append(a, y)
        BY <3>1, <3>5 DEF Grow
      <4>2. y \in P
        <5>1. Grow(x, e) \in P /\ Grow(x, e) = y
          BY <3>5, GrowType DEF Grow
        <5> QED BY <5>1
      <4>3. JoinLines(lr) = Append(JoinLines(lq), e)
        <5>1. CASE a = <<>>
          <6>1. JoinLines(Append(<<>>, x)) = x /\ JoinLines(Append(<<>>, y)) = y
            BY <1>0, <4>2, JoinAppend
          <6> QED BY <3>1, <4>1, <5>1, <6>1
        <5>2. CASE a # <<>>
          <6> DEFINE h == Append(JoinLines(a), "nl")
          <6>1. /\ JoinLines(Append(a, x)) = Cat(h, x) /\ JoinLines(Append(a, y)) = Cat(h, y)
                /\ h \in Seq(Chars) /\ x \in Seq(Chars)
            BY <4>2, <5>2, JoinAppend
          <6> HIDE DEF h
          <6>2. Cat(h, y) = Append(Cat(h, x), e)
            BY <6>1, CatAppend
          <6> QED BY <3>1, <4>1, <6>1, <6>2
        <5> QED BY <5>1, <5>2
      <4> QED BY <3>2, <3>3, <3>5, <4>3
    <3> QED BY <3>4, <3>5
  <2> QED BY <2>2, <2>3
<1>3. \A q \in Seq(Chars) : q \in T
  <2> HIDE DEF T
  <2> QED BY <1>1, <1>2, SeqInduct
<1>4. JoinLines(LinesOf(t)) \in Seq(Chars)
  BY LinesType, JoinType
<1> QED BY <1>3, <1>4
-----------------------------------------------------------------------------
(* The end of a text. *)

\* What is in front of a text that is too long does not matter to its end.
LEMMA CutSame ==
    ASSUME NEW x \in Seq(Chars), NEW t \in Seq(Chars), NEW n \in Nat, Size(t) > n
    PROVE  CutFromEnd(Cat(x, t), n) = CutFromEnd(t, n)
<1> DEFINE c == Cat(x, t)
           D(q) == {j \in 0..Len(q) : Size(LastLines(q, j)) <= n}
           k == Max(D(t))
<1>0. "x" \in Chars
  BY DEF Chars
<1>1. /\ Len(x) \in Nat /\ Len(t) \in Nat /\ Len(c) = Len(x) + Len(t) /\ c \in Seq(Chars)
  BY LenProperties, ConcatProperties DEF Cat
<1>2. \A j \in 0..Len(t) : LastLines(c, j) = LastLines(t, j)
  BY LastOfCat
<1>3. ASSUME NEW j \in 1..Len(x) PROVE ~(Size(LastLines(c, Len(t) + j)) <= n)
  <2> DEFINE a == LastLines(x, j)
  <2>1. LastLines(c, Len(t) + j) = Cat(a, t)
    BY LastOfCat
  <2>2. a \in Seq(Chars)
    <3>1. j \in 0..Len(x)
      BY <1>1
    <3> QED BY <3>1, LastSplit
  <2> HIDE DEF a
  <2>3. Size(Cat(a, t)) = Size(a) + Size(t) /\ Size(a) \in Nat /\ Size(t) \in Nat
    BY <1>0, <2>2, SizeLaws
  <2>4. ~(Size(Cat(a, t)) <= n)
    BY <2>3
  <2> QED BY <2>1, <2>4
<1> HIDE DEF c
<1>4. D(c) = D(t)
  <2>1. ASSUME NEW j \in D(c) PROVE j \in D(t)
    <3>1. j \in 0..Len(c) /\ Size(LastLines(c, j)) <= n
      OBVIOUS
    <3>2. j \in 0..Len(t)
      <4>1. SUFFICES ASSUME ~(j \in 0..Len(t)) PROVE FALSE
        OBVIOUS
      <4> DEFINE i == j - Len(t)
      <4>2. i \in 1..Len(x) /\ Len(t) + i = j
        BY <1>1, <3>1, <4>1
      <4> HIDE DEF i
      <4>3. ~(Size(LastLines(c, Len(t) + i)) <= n)
        BY <1>3, <4>2
      <4> QED BY <3>1, <4>2, <4>3
    <3> QED BY <1>2, <3>1, <3>2
  <2>2. ASSUME NEW j \in D(t) PROVE j \in D(c)
    <3>1. j \in 0..Len(t) /\ Size(LastLines(t, j)) <= n /\ j \in 0..Len(c)
      BY <1>1
    <3> QED BY <1>2, <3>1
  <2> HIDE DEF D
  <2> QED BY <2>1, <2>2
<1>5. k \in 0..Len(t)
  <2>1. 0 \in D(t)
    <3>1. LastLines(t, 0) = <<>>
      <4>1. 0 \in 0..Len(t)
        BY <1>1
      <4>2. LastLines(t, 0) \in Seq(Chars) /\ Len(LastLines(t, 0)) = 0
        BY <4>1, LastSplit
      <4> QED BY <4>2, EmptySeq
    <3>2. Size(<<>>) = 0
      BY <1>0, SizeLaws
    <3> QED BY <1>1, <3>1, <3>2
  <2>2. D(t) \in SUBSET (0..Len(t)) /\ D(t) # {}
    BY <2>1
  <2> HIDE DEF D
  <2> QED BY <1>1, <2>2, GreatestExists
<1>6. CutFromEnd(c, n) = LastLines(c, Max(D(c))) /\ CutFromEnd(t, n) = LastLines(t, Max(D(t)))
  BY DEF CutFromEnd
<1> HIDE DEF D
<1>7. LastLines(c, k) = LastLines(t, k)
  <2> HIDE DEF k
  <2> QED BY <1>2, <1>5
<1> QED BY <1>4, <1>6, <1>7 DEF c
-----------------------------------------------------------------------------
(* truncate_tail of a text and of its end. *)

\* How many whole lines truncate_tail finds room for.
Room(ls) == {k \in 0..Least(MaxLines, Len(ls)) : Size(JoinLines(LastLines(ls, k))) <= MaxBytes}
Kept(ls) == Max(Room(ls))

\* truncate_tail in these terms.
LEMMA TruncateIs ==
    ASSUME NEW t
    PROVE  /\ Fits(t, MaxLines, MaxBytes) =>
                 /\ TruncateTail(t).content = t /\ TruncateTail(t).outputLines = Len(LinesOf(t))
                 /\ TruncateTail(t).partial = FALSE
           /\ ~Fits(t, MaxLines, MaxBytes) =>
                 /\ TruncateTail(t).content =
                       IF Kept(LinesOf(t)) = 0 THEN CutFromEnd(Last(LinesOf(t)), MaxBytes)
                       ELSE JoinLines(LastLines(LinesOf(t), Kept(LinesOf(t))))
                 /\ TruncateTail(t).outputLines = (IF Kept(LinesOf(t)) = 0 THEN 1 ELSE Kept(LinesOf(t)))
                 /\ TruncateTail(t).partial = (Kept(LinesOf(t)) = 0)
BY DEF TruncateTail, Kept, Room

\* There is room for some number of lines.
LEMMA KeptType ==
    ASSUME NEW ls \in Seq(Seq(Plain))
    PROVE  /\ Kept(ls) \in Room(ls) /\ Kept(ls) \in 0..Least(MaxLines, Len(ls))
           /\ \A k \in Room(ls) : k <= Kept(ls)
           /\ MaxBytes \in Nat /\ MaxLines \in Nat /\ Len(ls) \in Nat
           /\ \A k \in 0..Least(MaxLines, Len(ls)) : k \in Nat /\ k <= MaxLines /\ k <= Len(ls)
           /\ \A k \in Nat : k <= MaxLines /\ k <= Len(ls) => k \in 0..Least(MaxLines, Len(ls))
<1> DEFINE n == Least(MaxLines, Len(ls))
<1>1. MaxBytes \in Nat /\ MaxLines \in Nat /\ Len(ls) \in Nat
  BY TextAssumption, LenProperties
<1>2. /\ n \in Nat /\ \A k \in 0..n : k \in Nat /\ k <= MaxLines /\ k <= Len(ls)
      /\ \A k \in Nat : k <= MaxLines /\ k <= Len(ls) => k \in 0..n
  BY <1>1 DEF Least
<1> HIDE DEF n
<1>3. 0 \in Room(ls)
  <2>1. LastLines(ls, 0) = <<>>
    <3>1. 0 \in 0..Len(ls)
      BY <1>1
    <3>2. LastLines(ls, 0) \in Seq(Seq(Plain)) /\ Len(LastLines(ls, 0)) = 0
      BY <3>1, LastSplit
    <3> QED BY <3>2, EmptySeq
  <2>2. Size(<<>>) = 0
    <3>1. "x" \in Chars /\ <<>> \in Seq(Chars)
      BY EmptySeq DEF Chars
    <3> QED BY <3>1, SizeLaws
  <2>3. JoinLines(<<>>) = <<>>
    BY DEF JoinLines
  <2> QED BY <1>1, <1>2, <2>1, <2>2, <2>3 DEF Room, n
<1>4. Room(ls) \in SUBSET (0..n)
  BY DEF Room, n
<1>5. Kept(ls) \in Room(ls) /\ \A k \in Room(ls) : k <= Kept(ls)
  BY <1>2, <1>3, <1>4, GreatestExists DEF Kept
<1> QED BY <1>1, <1>2, <1>4, <1>5 DEF n

\* The joined lines of a text are as long as the text, or a newline shorter.
LEMMA JoinSize ==
    ASSUME NEW t \in Seq(Chars), t # <<>>
    PROVE  /\ Size(JoinLines(LinesOf(t))) \in Nat /\ Size(t) \in Nat
           /\ Size(JoinLines(LinesOf(t))) <= Size(t) /\ Size(t) <= Size(JoinLines(LinesOf(t))) + 1
<1> DEFINE j == JoinLines(LinesOf(t))
<1>1. j \in Seq(Chars) /\ (t = j \/ t = Append(j, "nl"))
  BY JoinText
<1>2. "nl" \in Chars
  BY DEF Chars
<1> HIDE DEF j
<1>3. Size(j) \in Nat /\ Size(t) \in Nat /\ Size(Append(j, "nl")) = Size(j) + 1
  BY <1>1, <1>2, SizeLaws
<1>4. Size(j) <= Size(t) /\ Size(t) <= Size(j) + 1
  <2>1. CASE t = j
    BY <1>3, <2>1
  <2>2. CASE t = Append(j, "nl")
    BY <1>3, <2>2
  <2> QED BY <1>1, <2>1, <2>2
<1> QED BY <1>3, <1>4 DEF j

\* Lines that end in w are at least as long as w.
LEMMA LastLineFits ==
    ASSUME NEW p \in Seq(Seq(Plain)), NEW w \in Seq(Plain), NEW i \in 1..Len(Append(p, w))
    PROVE  /\ LastLines(Append(p, w), i) \in Seq(Seq(Plain)) /\ LastLines(Append(p, w), i) # <<>>
           /\ Size(JoinLines(LastLines(Append(p, w), i))) >= Size(w)
           /\ Size(JoinLines(LastLines(Append(p, w), i))) \in Nat /\ Size(w) \in Nat
<1> DEFINE P == Seq(Plain)
           l == Append(p, w)
           a == LastLines(l, i)
<1>1. l \in Seq(P) /\ i \in 0..Len(l) /\ i # 0
  <2>1. l \in Seq(P) /\ Len(l) \in Nat /\ i \in 1..Len(l)
    BY AppendProperties, LenProperties
  <2> HIDE DEF l
  <2> QED BY <2>1
<1>2. a \in Seq(P) /\ Len(a) = i /\ \E r \in Seq(P) : l = Cat(r, a)
  <2> HIDE DEF l
  <2> QED BY <1>1, LastSplit
<1> HIDE DEF a
<1>3. PICK r \in Seq(P) : l = Cat(r, a)
  BY <1>2
<1>4. a # <<>>
  BY <1>1, <1>2, EmptySeq
<1>5. PICK b \in Seq(P), z \in P : a = Append(b, z)
  <2>1. a \in Seq(P) /\ a # <<>>
    BY <1>2, <1>4
  <2> HIDE DEF P
  <2> QED BY <2>1, SequenceEmptyOrAppend
<1>6. z = w
  <2>1. Cat(r, Append(b, z)) = Append(Cat(r, b), z) /\ Cat(r, b) \in Seq(P)
    BY <1>3, <1>5, CatAppend
  <2>2. Append(Cat(r, b), z) = Append(p, w)
    BY <1>3, <1>5, <2>1
  <2> HIDE DEF l
  <2> QED BY <1>5, <2>1, <2>2, AppendInjective
<1>7. "x" \in Chars /\ w \in Seq(Chars)
  <2>1. "x" \in Chars
    BY DEF Chars
  <2> QED BY <2>1, GrowType
<1>8. Size(w) \in Nat
  BY <1>7, SizeLaws
<1>9. Size(JoinLines(a)) >= Size(w) /\ Size(JoinLines(a)) \in Nat
  <2>1. CASE b = <<>>
    <3>1. JoinLines(Append(<<>>, w)) = w
      BY <1>5, JoinAppend
    <3> QED BY <1>5, <1>6, <1>8, <2>1, <3>1
  <2>2. CASE b # <<>>
    <3> DEFINE h == Append(JoinLines(b), "nl")
    <3>1. JoinLines(Append(b, w)) = Cat(h, w) /\ h \in Seq(Chars)
      BY <1>5, <2>2, JoinAppend
    <3> HIDE DEF h
    <3>2. Size(Cat(h, w)) = Size(h) + Size(w) /\ Size(h) \in Nat
      BY <1>7, <3>1, SizeLaws
    <3> QED BY <1>5, <1>6, <1>8, <3>1, <3>2
  <2> QED BY <2>1, <2>2
<1> QED BY <1>2, <1>4, <1>8, <1>9 DEF a, l

\* An end of a text that starts a line, and is with the line before it longer
\* than the display, is displayed as the text is.
LEMMA TailShows ==
    ASSUME NEW p \in Seq(Chars), ~Open(p), NEW s \in Seq(Chars), s # <<>>,
           NEW a \in Seq(Seq(Plain)), NEW w \in Seq(Plain), LinesOf(p) = Append(a, w),
           Size(w) + Size(s) > MaxBytes, Size(Cat(p, s)) > MaxBytes
    PROVE  /\ TruncateTail(s).content \in
                 {TruncateTail(Cat(p, s)).content, Append(TruncateTail(Cat(p, s)).content, "nl")}
           /\ TruncateTail(s).outputLines = TruncateTail(Cat(p, s)).outputLines
           /\ TruncateTail(s).partial = TruncateTail(Cat(p, s)).partial
<1> DEFINE P  == Seq(Plain)
           t  == Cat(p, s)
           lp == LinesOf(p)
           ls == LinesOf(s)
           lt == LinesOf(t)
           n  == Len(ls)
           k  == Kept(ls)
<1>1. t \in Seq(Chars) /\ lp \in Seq(P) /\ ls \in Seq(P) /\ lt \in Seq(P) /\ lt = Cat(lp, ls)
  <2>1. t \in Seq(Chars)
    BY CatType
  <2> QED BY <2>1, LinesType, LinesCat
<1>2. ls # <<>> /\ n \in Nat /\ n # 0
  BY <1>1, JoinText, LenProperties, EmptySeq
<1>3. /\ Len(lp) \in Nat /\ Len(lt) = Len(lp) + n
      /\ \A i \in 1..Len(lp) + n : lt[i] = IF i <= Len(lp) THEN lp[i] ELSE ls[i - Len(lp)]
  <2> HIDE DEF lp, ls, lt
  <2> QED BY <1>1, LenProperties, ConcatProperties DEF Cat
<1>4. /\ \A j \in 0..n : LastLines(lt, j) = LastLines(ls, j)
      /\ \A j \in 1..Len(lp) : LastLines(lt, n + j) = Cat(LastLines(lp, j), ls)
      /\ LastLines(ls, n) = ls
  <2> HIDE DEF lp, ls, lt
  <2> QED BY <1>1, LastOfCat
<1>5. Last(lt) = Last(ls)
  <2> DEFINE i == Len(lp) + n
  <2>1. i \in 1..Len(lp) + n /\ ~(i <= Len(lp)) /\ i - Len(lp) = n /\ Len(lt) = i
    BY <1>2, <1>3
  <2> HIDE DEF i, lp, ls, lt
  <2>2. lt[i] = ls[n]
    BY <1>3, <2>1
  <2> QED BY <2>1, <2>2 DEF Last, ls
<1>6. ASSUME NEW j \in 1..Len(lp) PROVE ~(Size(JoinLines(LastLines(lt, n + j))) <= MaxBytes)
  <2> DEFINE b == LastLines(lp, j)
             h == Append(JoinLines(b), "nl")
             js == JoinLines(ls)
  <2>1. /\ b \in Seq(P) /\ b # <<>> /\ Size(JoinLines(b)) >= Size(w)
        /\ Size(JoinLines(b)) \in Nat /\ Size(w) \in Nat
    BY LastLineFits
  <2>2. JoinLines(LastLines(lt, n + j)) = Cat(h, js)
    <3>1. LastLines(lt, n + j) = Cat(b, ls)
      BY <1>4
    <3>2. JoinLines(Cat(b, ls)) = Cat(h, js)
      <4> HIDE DEF b, ls
      <4> QED BY <1>1, <1>2, <2>1, JoinCat
    <3> HIDE DEF b, ls, h, js
    <3> QED BY <3>1, <3>2
  <2>3. Size(h) = Size(JoinLines(b)) + 1 /\ h \in Seq(Chars)
    <3>1. JoinLines(b) \in Seq(Chars) /\ "nl" \in Chars
      <4> HIDE DEF b
      <4> QED BY <2>1, JoinType DEF Chars
    <3> HIDE DEF b
    <3> QED BY <3>1, SizeLaws, AppendProperties
  <2>4. Size(js) \in Nat /\ Size(s) \in Nat /\ Size(s) <= Size(js) + 1 /\ js \in Seq(Chars)
    BY JoinSize, JoinText
  <2> HIDE DEF b, h, js
  <2>5. Size(Cat(h, js)) = Size(h) + Size(js)
    <3>1. "x" \in Chars
      BY DEF Chars
    <3> QED BY <2>3, <2>4, <3>1, SizeLaws
  <2>6. MaxBytes \in Nat
    BY TextAssumption
  <2> DEFINE A == Size(JoinLines(b))
             B == Size(js)
             C == Size(w)
             D == Size(s)
  <2>7. A \in Nat /\ B \in Nat /\ C \in Nat /\ D \in Nat /\ A >= C /\ D <= B + 1 /\ C + D > MaxBytes
    BY <2>1, <2>4
  <2>8. Size(Cat(h, js)) = A + 1 + B
    BY <2>3, <2>5
  <2> HIDE DEF A, B, C, D
  <2>9. ~(A + 1 + B <= MaxBytes)
    BY <2>6, <2>7
  <2> QED BY <2>2, <2>8, <2>9
<1> HIDE DEF lp, ls, lt, t
<1>7. Room(lt) = Room(ls)
  <2>1. ASSUME NEW j \in Room(ls) PROVE j \in Room(lt)
    <3>1. /\ j \in 0..Least(MaxLines, Len(ls)) /\ Size(JoinLines(LastLines(ls, j))) <= MaxBytes
      BY DEF Room
    <3>2. j \in Nat /\ j <= MaxLines /\ j <= n
      BY <1>1, <3>1, KeptType
    <3>3. j <= Len(lt) /\ j \in 0..n
      BY <1>2, <1>3, <3>2
    <3>4. j \in 0..Least(MaxLines, Len(lt))
      BY <1>1, <3>2, <3>3, KeptType
    <3>5. LastLines(lt, j) = LastLines(ls, j)
      BY <1>4, <3>3
    <3> QED BY <3>1, <3>4, <3>5 DEF Room
  <2>2. ASSUME NEW j \in Room(lt) PROVE j \in Room(ls)
    <3>1. /\ j \in 0..Least(MaxLines, Len(lt)) /\ Size(JoinLines(LastLines(lt, j))) <= MaxBytes
      BY DEF Room
    <3>2. j \in Nat /\ j <= MaxLines /\ j <= Len(lt)
      BY <1>1, <3>1, KeptType
    <3>3. j <= n
      <4>1. SUFFICES ASSUME ~(j <= n) PROVE FALSE
        OBVIOUS
      <4> DEFINE i == j - n
      <4>2. i \in 1..Len(lp) /\ n + i = j
        BY <1>2, <1>3, <3>2, <4>1
      <4> HIDE DEF i
      <4>3. ~(Size(JoinLines(LastLines(lt, n + i))) <= MaxBytes)
        BY <1>6, <4>2
      <4> QED BY <3>1, <4>2, <4>3
    <3>4. j \in 0..n /\ j \in 0..Least(MaxLines, Len(ls))
      BY <1>1, <1>2, <3>2, <3>3, KeptType
    <3>5. LastLines(lt, j) = LastLines(ls, j)
      BY <1>4, <3>4
    <3> QED BY <3>1, <3>4, <3>5 DEF Room
  <2> QED BY <2>1, <2>2
<1>8. Kept(lt) = k
  BY <1>7 DEF Kept
<1>9. /\ k \in Room(ls) /\ k \in Nat /\ k <= MaxLines /\ k <= n /\ k \in 0..n
      /\ \A j \in Room(ls) : j <= k
  <2>1. k \in Room(ls) /\ k \in 0..Least(MaxLines, Len(ls)) /\ \A j \in Room(ls) : j <= k
    BY <1>1, KeptType
  <2> HIDE DEF k
  <2>2. k \in Nat /\ k <= MaxLines /\ k <= Len(ls)
    BY <1>1, <2>1, KeptType
  <2> QED BY <1>2, <2>1, <2>2
<1> HIDE DEF k
<1>10. LastLines(lt, k) = LastLines(ls, k)
  BY <1>4, <1>9
<1>11. ~Fits(t, MaxLines, MaxBytes)
  <2>1. Size(t) > MaxBytes
    BY DEF t
  <2>2. Size(t) \in Nat /\ MaxBytes \in Nat
    <3>1. "x" \in Chars
      BY DEF Chars
    <3> QED BY <1>1, <3>1, SizeLaws, TextAssumption
  <2>3. ~(Size(t) <= MaxBytes)
    BY <2>1, <2>2
  <2> QED BY <2>3 DEF Fits
<1> DEFINE ct == IF k = 0 THEN CutFromEnd(Last(ls), MaxBytes) ELSE JoinLines(LastLines(ls, k))
<1>12. /\ TruncateTail(t).content = ct /\ TruncateTail(t).outputLines = (IF k = 0 THEN 1 ELSE k)
       /\ TruncateTail(t).partial = (k = 0)
  BY <1>5, <1>8, <1>10, <1>11, TruncateIs DEF lt
<1>13. CASE ~Fits(s, MaxLines, MaxBytes)
  <2>1. /\ TruncateTail(s).content = ct /\ TruncateTail(s).outputLines = (IF k = 0 THEN 1 ELSE k)
        /\ TruncateTail(s).partial = (k = 0)
    BY <1>13, TruncateIs DEF ls, k
  <2> HIDE DEF ct
  <2> QED BY <1>12, <2>1 DEF t
<1>14. CASE Fits(s, MaxLines, MaxBytes)
  <2>1. /\ TruncateTail(s).content = s /\ TruncateTail(s).outputLines = n
        /\ TruncateTail(s).partial = FALSE
    BY <1>14, TruncateIs DEF ls
  <2>2. n <= MaxLines /\ Size(s) <= MaxBytes
    BY <1>14 DEF Fits, ls
  <2>3. Size(JoinLines(ls)) <= MaxBytes
    <3>1. Size(JoinLines(ls)) <= Size(s) /\ Size(s) \in Nat /\ Size(JoinLines(ls)) \in Nat /\ MaxBytes \in Nat
      BY JoinSize, TextAssumption DEF ls
    <3> QED BY <2>2, <3>1
  <2>4. n \in Room(ls)
    <3>1. n \in 0..Least(MaxLines, Len(ls))
      <4>1. n <= n
        BY <1>2
      <4> QED BY <1>1, <1>2, <2>2, <4>1, KeptType
    <3> QED BY <1>4, <2>3, <3>1 DEF Room
  <2>5. k = n /\ k # 0
    <3>1. n <= k
      BY <1>9, <2>4
    <3> QED BY <1>2, <1>9, <3>1
  <2>6. ct = JoinLines(ls)
    BY <1>4, <2>5
  <2>7. s = ct \/ s = Append(ct, "nl")
    BY <2>6, JoinText DEF ls
  <2> HIDE DEF ct
  <2> QED BY <1>12, <2>1, <2>5, <2>7 DEF t
<1> QED BY <1>13, <1>14
-----------------------------------------------------------------------------
(* The display is that of the whole text. *)

\* Two truncations show the same lines, but for a newline at the end.
Agree(s, t) ==
    /\ s.content \in {t.content, Append(t.content, "nl")}
    /\ s.outputLines = t.outputLines /\ s.partial = t.partial

\* A last line that is too long is shown by its end alone.
LEMMA PieceShows ==
    ASSUME NEW t \in Seq(Chars), NEW a \in Seq(Seq(Plain)), NEW z \in Seq(Plain),
           LinesOf(t) = Append(a, z), Size(z) > MaxBytes, Size(t) > MaxBytes
    PROVE  /\ TruncateTail(t).content = CutFromEnd(z, MaxBytes)
           /\ TruncateTail(t).outputLines = 1 /\ TruncateTail(t).partial = TRUE
<1> DEFINE P == Seq(Plain)
           ls == LinesOf(t)
           k == Kept(ls)
<1>1. ls \in Seq(P) /\ MaxBytes \in Nat /\ "x" \in Chars
  BY LinesType, TextAssumption DEF Chars
<1>2. Last(ls) = z
  <2>1. Len(Append(a, z)) = Len(a) + 1 /\ Append(a, z)[Len(a) + 1] = z
    BY AppendProperties
  <2> DEFINE l == Append(a, z)
  <2>2. l[Len(l)] = z
    BY <2>1
  <2> QED BY <2>2 DEF Last
<1>3. k = 0
  <2>1. SUFFICES ASSUME k # 0 PROVE FALSE
    OBVIOUS
  <2>2. k \in Room(ls) /\ k \in 0..Least(MaxLines, Len(ls))
    BY <1>1, KeptType
  <2>3. k \in Nat /\ k <= Len(ls) /\ Len(ls) \in Nat
    <3> HIDE DEF k, ls
    <3> QED BY <1>1, <2>2, KeptType
  <2> HIDE DEF k
  <2>4. k \in 1..Len(Append(a, z))
    BY <2>1, <2>3
  <2>5. /\ Size(JoinLines(LastLines(ls, k))) >= Size(z)
        /\ Size(JoinLines(LastLines(ls, k))) \in Nat /\ Size(z) \in Nat
    BY <2>4, LastLineFits
  <2>6. Size(JoinLines(LastLines(ls, k))) <= MaxBytes
    BY <2>2 DEF Room
  <2> QED BY <1>1, <2>5, <2>6
<1>4. ~Fits(t, MaxLines, MaxBytes)
  <2>1. Size(t) \in Nat
    BY <1>1, SizeLaws
  <2>2. ~(Size(t) <= MaxBytes)
    BY <1>1, <2>1
  <2> QED BY <2>2 DEF Fits
<1> HIDE DEF k
<1> QED BY <1>2, <1>3, <1>4, TruncateIs DEF k

\* The first newline of a text.
LEMMA FirstNewline ==
    ASSUME NEW t \in Seq(Chars)
    PROVE  LET nl == SelectInSeq(t, LAMBDA c : c = "nl")
           IN  \/ nl = 0 /\ t \in Seq(Plain)
               \/ /\ nl \in 1..Len(t) /\ SubSeq(t, 1, nl - 1) \in Seq(Plain)
                  /\ SubSeq(t, nl + 1, Len(t)) \in Seq(Chars)
                  /\ t = Cat(Append(SubSeq(t, 1, nl - 1), "nl"), SubSeq(t, nl + 1, Len(t)))
                  /\ nl # Len(t) => SubSeq(t, nl + 1, Len(t)) # <<>>
<1> DEFINE n == Len(t)
           S == {i \in 1..n : t[i] = "nl"}
           nl == SelectInSeq(t, LAMBDA c : c = "nl")
           m == Min(S)
<1>1. n \in Nat /\ \A i \in 1..n : t[i] \in Chars
  BY LenProperties, ElementOfSeq
<1>2. CASE S = {}
  <2>1. nl = 0
    BY <1>2 DEF SelectInSeq
  <2>2. \A i \in 1..n : t[i] \in Plain
    BY <1>1, <1>2 DEF Plain
  <2>3. t = [i \in 1..n |-> t[i]] /\ [i \in 1..n |-> t[i]] \in Seq(Plain)
    <3>1. t = [i \in 1..n |-> t[i]]
      BY LenProperties
    <3> HIDE DEF n
    <3>2. [i \in 1..n |-> t[i]] \in Seq(Plain)
      BY <1>1, <2>2, IsASeq
    <3> QED BY <3>1, <3>2
  <2> QED BY <2>1, <2>3
<1>3. CASE S # {}
  <2>1. nl = m
    BY <1>3 DEF SelectInSeq
  <2>2. m \in S /\ \A i \in S : m <= i
    <3>1. S \in SUBSET (1..n)
      OBVIOUS
    <3> HIDE DEF S
    <3>2. PICK k \in S : \A i \in S : k <= i
      BY <1>1, <1>3, <3>1, LeastExists
    <3> QED BY <3>2 DEF Min
  <2>3. m \in 1..n /\ t[m] = "nl"
    <3> HIDE DEF m
    <3> QED BY <2>2
  <2>4. ASSUME NEW i \in 1..m - 1 PROVE t[i] \in Plain
    <3>1. i \in 1..n /\ ~(m <= i)
      BY <1>1, <2>3
    <3>2. i \notin S
      <4> HIDE DEF S, m
      <4> QED BY <2>2, <3>1
    <3> QED BY <1>1, <3>1, <3>2 DEF Plain
  <2> HIDE DEF m
  <2>5. SubSeq(t, 1, m - 1) \in Seq(Plain)
    <3>1. m - 1 \in Int
      BY <2>3
    <3> QED BY <2>4, <3>1, SubSeqProperties
  <2>6. /\ SubSeq(t, m + 1, n) \in Seq(Chars)
        /\ t = Cat(Append(SubSeq(t, 1, m - 1), t[m]), SubSeq(t, m + 1, n))
    BY <2>3, SplitAt
  <2>7. m # n => SubSeq(t, m + 1, n) # <<>>
    <3>1. SUFFICES ASSUME m # n PROVE SubSeq(t, m + 1, n) # <<>>
      OBVIOUS
    <3> DEFINE f == m + 1
               r == SubSeq(t, f, n)
    <3>2. f \in Int /\ n \in Int /\ f <= n /\ n - f + 1 # 0 /\ \A i \in f..n : t[i] \in Chars
      BY <1>1, <2>3, <3>1
    <3> HIDE DEF f, n
    <3>3. Len(r) = n - f + 1
      BY <3>2, SubSeqProperties
    <3>4. Len(r) # 0
      BY <3>2, <3>3
    <3>5. r # <<>>
      BY <3>4, EmptySeq
    <3> QED BY <3>5 DEF f
  <2> QED BY <2>1, <2>3, <2>5, <2>6, <2>7
<1> QED BY <1>2, <1>3

\* The end that snapshot_text takes of the rolling tail.
Taken(t, atBoundary) ==
    LET nl == SelectInSeq(t, LAMBDA c : c = "nl")
    IN  IF atBoundary \/ nl = 0 THEN t ELSE SubSeq(t, nl + 1, Len(t))

\* It is shown as the whole text would be, unless it is empty.
LEMMA TakenShows ==
    ASSUME NEW p \in Seq(Chars), NEW d \in Seq(Chars), NEW t \in Seq(Chars), NEW at \in BOOLEAN,
           Before(p, d, t, at), ~(~at /\ SelectInSeq(t, LAMBDA c : c = "nl") = Len(t))
    PROVE  Agree(TruncateTail(Taken(t, at)), TruncateTail(d))
<1> DEFINE nl == SelectInSeq(t, LAMBDA c : c = "nl")
           x  == Taken(t, at)
<1>1. d = Cat(p, t) /\ (at <=> ~Open(p)) /\ (p = <<>> \/ Size(t) + 2 >= MaxRolling)
  BY DEF Before
<1>2. "nl" \in Chars /\ "x" \in Chars /\ MaxBytes \in Nat /\ MaxBytes >= 3
  BY TextAssumption DEF Chars
<1>3. CASE p = <<>>
  <2>1. x = t /\ d = t
    <3>1. ~Open(p)
      BY <1>3 DEF Open
    <3> QED BY <1>1, <1>3, <3>1, CatEmpty DEF Taken
  <2> QED BY <2>1 DEF Agree
<1>4. CASE p # <<>>
  <2>1. Size(t) \in Nat /\ Size(t) > MaxBytes /\ Size(p) \in Nat
    <3>1. Size(t) \in Nat /\ Size(p) \in Nat /\ Size(t) + 2 >= 2 * MaxBytes
      BY <1>1, <1>2, <1>4, SizeLaws DEF MaxRolling
    <3> QED BY <1>2, <3>1
  <2>2. Size(d) > MaxBytes
    <3>1. Size(Cat(p, t)) = Size(p) + Size(t)
      BY <1>2, SizeLaws
    <3> QED BY <1>1, <1>2, <2>1, <3>1
  <2>3. t # <<>>
    <3>1. Size(<<>>) = 0
      BY <1>2, SizeLaws
    <3> QED BY <1>2, <2>1, <3>1
  <2>4. CASE at
    <3>1. PICK a \in Seq(Seq(Plain)), w \in Seq(Plain) : LinesOf(p) = Append(a, w)
      <4>1. LinesOf(p) \in Seq(Seq(Plain)) /\ LinesOf(p) # <<>>
        BY <1>4, LinesType, JoinText
      <4> QED BY <4>1, SequenceEmptyOrAppend
    <3>2. Size(w) + Size(t) > MaxBytes
      <4>1. w \in Seq(Chars)
        BY <1>2, GrowType
      <4>2. Size(w) \in Nat
        BY <1>2, <4>1, SizeLaws
      <4> QED BY <1>2, <2>1, <4>2
    <3>3. x = t
      BY <2>4 DEF Taken
    <3>4. Agree(TruncateTail(t), TruncateTail(Cat(p, t)))
      <4>1. ~Open(p) /\ Size(Cat(p, t)) > MaxBytes
        BY <1>1, <2>2, <2>4
      <4> QED BY <2>3, <3>1, <3>2, <4>1, TailShows DEF Agree
    <3> QED BY <1>1, <3>3, <3>4
  <2>5. CASE ~at /\ nl = 0
    <3>1. t \in Seq(Plain)
      <4>1. \/ nl = 0 /\ t \in Seq(Plain)
            \/ nl \in 1..Len(t)
        BY FirstNewline
      <4>2. Len(t) \in Nat
        BY LenProperties
      <4> HIDE DEF nl
      <4> QED BY <2>5, <4>1, <4>2
    <3>2. x = t
      BY <2>5 DEF Taken
    <3>3. PICK a \in Seq(Seq(Plain)), y \in Seq(Plain) : LinesOf(Cat(p, t)) = Append(a, Cat(y, t))
      BY <1>1, <2>5, <3>1, LineGoesOn
    <3>4. LinesOf(t) = Append(<<>>, t) /\ <<>> \in Seq(Seq(Plain))
      BY <2>3, <3>1, OneLine, EmptySeq
    <3> DEFINE z == Cat(y, t)
    <3>5. y \in Seq(Chars) /\ z \in Seq(Plain)
      BY <1>2, <3>1, GrowType, CatType
    <3>6. Size(z) > MaxBytes
      <4>1. Size(z) = Size(y) + Size(t) /\ Size(y) \in Nat
        BY <1>2, <3>5, SizeLaws
      <4> QED BY <1>2, <2>1, <4>1
    <3>7. CutFromEnd(z, MaxBytes) = CutFromEnd(t, MaxBytes)
      BY <1>2, <2>1, <3>5, CutSame
    <3> HIDE DEF z
    <3>8. /\ TruncateTail(t).content = CutFromEnd(t, MaxBytes)
          /\ TruncateTail(t).outputLines = 1 /\ TruncateTail(t).partial = TRUE
      BY <2>1, <3>1, <3>4, PieceShows
    <3>9. /\ TruncateTail(d).content = CutFromEnd(z, MaxBytes)
          /\ TruncateTail(d).outputLines = 1 /\ TruncateTail(d).partial = TRUE
      <4>1. LinesOf(d) = Append(a, z)
        BY <1>1, <3>3 DEF z
      <4> QED BY <2>2, <3>5, <3>6, <4>1, PieceShows
    <3> QED BY <3>2, <3>7, <3>8, <3>9 DEF Agree
  <2>6. CASE ~at /\ nl # 0
    <3> DEFINE u == SubSeq(t, 1, nl - 1)
               s == SubSeq(t, nl + 1, Len(t))
               q == Append(Cat(p, u), "nl")
    <3>1. /\ u \in Seq(Plain) /\ s \in Seq(Chars) /\ t = Cat(Append(u, "nl"), s)
          /\ s # <<>>
      BY <2>6, FirstNewline
    <3>2. x = s
      BY <2>6 DEF Taken
    <3> HIDE DEF nl, u, s, x
    <3>3. u \in Seq(Chars) /\ Cat(p, u) \in Seq(Chars) /\ Append(u, "nl") \in Seq(Chars)
      <4>1. u \in Seq(Chars)
        BY <1>2, <3>1, GrowType
      <4> QED BY <1>2, <4>1, CatAppend
    <3>4. q \in Seq(Chars) /\ ~Open(q)
      BY <1>2, <3>3, OpenAppend, AppendProperties
    <3>5. d = Cat(q, s)
      <4>1. Cat(p, Append(u, "nl")) = q
        BY <1>2, <3>3, CatAppend
      <4> HIDE DEF q
      <4> DEFINE v == Append(u, "nl")
      <4>2. v \in Seq(Chars) /\ d = Cat(p, Cat(v, s)) /\ Cat(p, v) = q
        BY <1>1, <3>1, <3>3, <4>1
      <4> HIDE DEF v
      <4>3. Cat(Cat(p, v), s) = Cat(p, Cat(v, s))
        BY <1>2, <3>1, <4>2, CatAssociative
      <4> QED BY <4>2, <4>3
    <3>6. PICK a \in Seq(Seq(Plain)), y \in Seq(Plain) : y # <<>> /\ LinesOf(q) = Append(a, Cat(y, u))
      BY <1>1, <2>6, <3>1, LineGoesOn
    <3> DEFINE w == Cat(y, u)
    <3>7. w \in Seq(Plain) /\ y \in Seq(Chars)
      BY <1>2, <3>1, GrowType, CatType
    <3>8. Size(w) + Size(s) > MaxBytes
      <4>1. Size(w) = Size(y) + Size(u) /\ Size(y) \in Nat /\ Size(y) >= Len(y)
        BY <1>2, <3>3, <3>7, SizeLaws
      <4>2. Size(Append(u, "nl")) = Size(u) + 1 /\ Size(u) \in Nat
        BY <1>2, <3>3, SizeLaws
      <4>3. Size(Cat(Append(u, "nl"), s)) = Size(Append(u, "nl")) + Size(s) /\ Size(s) \in Nat
        <5> DEFINE v == Append(u, "nl")
        <5>1. v \in Seq(Chars)
          BY <3>3
        <5> HIDE DEF v
        <5>2. Size(Cat(v, s)) = Size(v) + Size(s) /\ Size(s) \in Nat
          BY <1>2, <3>1, <5>1, SizeLaws
        <5> QED BY <5>2 DEF v
      <4>4. Len(y) \in Nat /\ Len(y) # 0
        BY <3>6, <3>7, EmptySeq, LenProperties
      <4> DEFINE A == Size(y)
                 B == Size(u)
                 C == Size(s)
      <4>5. A \in Nat /\ B \in Nat /\ C \in Nat /\ A >= 1
        BY <4>1, <4>2, <4>3, <4>4
      <4>6. Size(t) = B + 1 + C /\ Size(w) = A + B
        BY <3>1, <4>1, <4>2, <4>3
      <4> HIDE DEF A, B, w
      <4>7. A + B + C > MaxBytes
        BY <1>2, <2>1, <4>5, <4>6
      <4> QED BY <4>6, <4>7
    <3> HIDE DEF q, w
    <3>9. Agree(TruncateTail(s), TruncateTail(Cat(q, s)))
      <4>1. Size(Cat(q, s)) > MaxBytes /\ LinesOf(q) = Append(a, w)
        BY <2>2, <3>5, <3>6 DEF w
      <4> QED BY <3>1, <3>4, <3>6, <3>7, <3>8, <4>1, TailShows DEF Agree
    <3> QED BY <3>2, <3>5, <3>9 DEF x
  <2> QED BY <2>4, <2>5, <2>6
<1> QED BY <1>3, <1>4

\* The last line is complete and longer than the tail that is left of it.
LongLast(a) == ~a.atBoundary /\ SelectInSeq(a.tail, LAMBDA c : c = "nl") = Len(a.tail)

\* What the counters and the rolling tail give a display.
LEMMA SnapshotShows ==
    ASSUME NEW a, Counted(a), ~LongLast(a)
    PROVE  /\ Agree(Snapshot(a), TruncateTail(a.decoded))
           /\ Snapshot(a).truncated /\ ~Snapshot(a).partial =>
                 /\ Note(Snapshot(a)).from \in 1..Len(LinesOf(a.decoded))
                 /\ Note(Snapshot(a)).to = Len(LinesOf(a.decoded))
                 /\ TruncateTail(a.decoded).content =
                       JoinLines(SubSeq(LinesOf(a.decoded), Note(Snapshot(a)).from, Note(Snapshot(a)).to))
           /\ Snapshot(a).truncated <=> ~Fits(a.decoded, MaxLines, MaxBytes)
<1> DEFINE d  == a.decoded
           ls == LinesOf(d)
           n  == Len(ls)
           k  == Kept(ls)
           s  == Snapshot(a)
           t  == TruncateTail(d)
           v  == TruncateTail(SnapshotText(a))
<1>2. d \in Seq(Chars) /\ a.tail \in Seq(Chars) /\ a.decodedBytes = Size(d) /\ TotalLines(a) = n
  BY CountedLines DEF Counted
<1>3. ls \in Seq(Seq(Plain)) /\ n \in Nat /\ Size(d) \in Nat /\ MaxBytes \in Nat /\ MaxLines \in Nat
  <2>1. "x" \in Chars
    BY DEF Chars
  <2> QED BY <1>2, <2>1, LinesType, LenProperties, SizeLaws, TextAssumption
<1>4. Agree(v, t)
  <2>1. PICK p \in Seq(Chars) : Before(p, d, a.tail, a.atBoundary)
    BY DEF Counted
  <2>2. ~(~a.atBoundary /\ SelectInSeq(a.tail, LAMBDA c : c = "nl") = Len(a.tail))
    BY DEF LongLast
  <2>3. SnapshotText(a) = Taken(a.tail, a.atBoundary)
    BY DEF SnapshotText, Taken
  <2>4. a.atBoundary \in BOOLEAN
    BY DEF Counted
  <2> QED BY <1>2, <2>1, <2>2, <2>3, <2>4, TakenShows
<1>5. /\ s.content = v.content /\ s.outputLines = v.outputLines /\ s.partial = v.partial
      /\ s.totalLines = TotalLines(a)
      /\ s.truncated = (a.decodedBytes > MaxBytes \/ TotalLines(a) > MaxLines)
  BY DEF Snapshot
<1> HIDE DEF s, v
<1>6. Agree(s, t)
  BY <1>4, <1>5 DEF Agree
<1>7. s.truncated <=> ~Fits(d, MaxLines, MaxBytes)
  <2>1. s.truncated <=> (Size(d) > MaxBytes \/ n > MaxLines)
    BY <1>2, <1>5
  <2>2. Fits(d, MaxLines, MaxBytes) <=> n <= MaxLines /\ Size(d) <= MaxBytes
    BY DEF Fits
  <2> HIDE DEF n, d
  <2> QED BY <1>3, <2>1, <2>2
<1>8. ASSUME s.truncated, ~s.partial
      PROVE  /\ Note(s).from \in 1..n /\ Note(s).to = n
             /\ t.content = JoinLines(SubSeq(ls, Note(s).from, Note(s).to))
  <2>1. /\ t.content = (IF k = 0 THEN CutFromEnd(Last(ls), MaxBytes) ELSE JoinLines(LastLines(ls, k)))
        /\ t.outputLines = (IF k = 0 THEN 1 ELSE k) /\ t.partial = (k = 0)
    BY <1>7, <1>8, TruncateIs
  <2>2. k \in Nat /\ k <= n
    <3>1. k \in 0..Least(MaxLines, Len(ls))
      BY <1>3, KeptType
    <3> HIDE DEF k, ls
    <3> QED BY <1>3, <3>1, KeptType
  <2>3. s.outputLines = t.outputLines /\ s.partial = t.partial
    BY <1>6 DEF Agree
  <2> HIDE DEF t, k
  <2>4. k # 0
    BY <1>8, <2>1, <2>3
  <2>5. t.content = JoinLines(LastLines(ls, k)) /\ s.outputLines = k
    BY <2>1, <2>3, <2>4
  <2>6. Note(s).from = Minus(n, k) + 1 /\ Note(s).to = n
    BY <1>2, <1>5, <2>5 DEF Note
  <2> HIDE DEF n
  <2>7. Minus(n, k) = n - k
    BY <1>3, <2>2 DEF Minus
  <2>8. LastLines(ls, k) = SubSeq(ls, n - k + 1, n)
    BY DEF LastLines, n
  <2>9. n - k + 1 \in 1..n
    BY <1>3, <2>2, <2>4
  <2> QED BY <2>5, <2>6, <2>7, <2>8, <2>9
<1> HIDE DEF n, t
<1>9. s.truncated /\ ~s.partial =>
         /\ Note(s).from \in 1..n /\ Note(s).to = n
         /\ t.content = JoinLines(SubSeq(ls, Note(s).from, Note(s).to))
  BY <1>8
<1> QED BY <1>6, <1>7, <1>9 DEF s, n, t

\* The display of the stream.
LEMMA CountedShows ==
    ASSUME Counted(acc)
    PROVE  SnapshotIsTail
<1>1. SUFFICES ASSUME ~LongLastLine PROVE SnapshotIsTail
  BY DEF SnapshotIsTail
<1>2. ~LongLast(acc)
  BY <1>1 DEF LongLastLine, LongLast
<1> DEFINE s == Snapshot(acc)
           t == TruncateTail(acc.decoded)
<1>3. /\ s.content \in {t.content, Append(t.content, "nl")} /\ s.outputLines = t.outputLines
      /\ s.partial = t.partial
      /\ s.truncated /\ ~s.partial =>
            t.content = JoinLines(SubSeq(LinesOf(acc.decoded), Note(s).from, Note(s).to))
      /\ s.truncated <=> ~Fits(acc.decoded, MaxLines, MaxBytes)
  BY <1>2, SnapshotShows DEF Agree
<1> HIDE DEF s, t
<1> QED BY <1>3 DEF SnapshotIsTail, s, t

\* The display - a partial result, the text of a timeout - is the tail truncation of
\* everything decoded so far, and its note names the lines it shows, unless the last
\* line is complete and longer than the rolling tail (LongLastLine).
THEOREM SnapshotsAreTails == OutputSpec => []SnapshotIsTail
<1>1. Counted(acc) => SnapshotIsTail
  BY CountedShows
<1>2. OutputSpec => []Counted(acc)
  BY CountersInductive
<1> QED BY <1>1, <1>2, PTL
-----------------------------------------------------------------------------
(* The error lines, from the stream to the text the model sees. *)

\* What precedes a line is empty or ends in a newline, what follows it is empty
\* or starts with one.
Above(u) == u = <<>> \/ \E w \in Seq(Chars) : u = Cat(w, <<"nl">>)
Below(v) == v = <<>> \/ \E w \in Seq(Chars) : v = Cat(<<"nl">>, w)

\* The characters of a concatenation.
LEMMA CatLaws ==
    ASSUME NEW S, NEW u \in Seq(S), NEW v \in Seq(S)
    PROVE  /\ Cat(u, v) \in Seq(S) /\ Len(Cat(u, v)) = Len(u) + Len(v)
           /\ \A i \in 1..Len(u) + Len(v) :
                 Cat(u, v)[i] = IF i <= Len(u) THEN u[i] ELSE v[i - Len(u)]
BY ConcatProperties DEF Cat

\* The newline as a text.
LEMMA NewlineIs == <<"nl">> \in Seq(Chars) /\ Len(<<"nl">>) = 1 /\ (<<"nl">>)[1] = "nl"
<1>1. "nl" \in Chars /\ <<>> \in Seq(Chars)
  BY EmptySeq DEF Chars
<1> QED BY <1>1, CatOne

\* A text between two such texts is a line.
LEMMA BetweenIsLine ==
    ASSUME NEW u \in Seq(Chars), NEW v \in Seq(Chars), NEW x \in Seq(Plain),
           Above(u), Below(v), x # <<>>
    PROVE  /\ Cat(Cat(u, x), v) \in Seq(Chars)
           /\ Contains(LinesOf(Cat(Cat(u, x), v)), x)
<1> DEFINE c == Cat(u, x)
           t == Cat(c, v)
           p == Len(u) + 1
           q == Len(u) + Len(x)
           h == <<"nl">>
<1>1. /\ Len(u) \in Nat /\ Len(v) \in Nat /\ Len(x) \in Nat /\ Len(x) # 0 /\ x \in Seq(Chars)
      /\ \A i \in 1..Len(x) : x[i] \in Plain
  BY LenProperties, EmptySeq, IsASeq, ElementOfSeq DEF Plain
<1>2. /\ c \in Seq(Chars) /\ Len(c) = Len(u) + Len(x)
      /\ \A i \in 1..Len(u) + Len(x) : c[i] = IF i <= Len(u) THEN u[i] ELSE x[i - Len(u)]
  BY <1>1, CatLaws
<1> HIDE DEF c
<1>3. /\ t \in Seq(Chars) /\ Len(t) = Len(c) + Len(v)
      /\ \A i \in 1..Len(c) + Len(v) : t[i] = IF i <= Len(c) THEN c[i] ELSE v[i - Len(c)]
  <2>1. c \in Seq(Chars) /\ v \in Seq(Chars)
    BY <1>2
  <2> QED BY <2>1, CatLaws
<1>4. h \in Seq(Chars) /\ Len(h) = 1 /\ h[1] = "nl"
  BY NewlineIs
<1> HIDE DEF t, h
<1>5. p \in 1..Len(t) /\ q \in p..Len(t)
  BY <1>1, <1>2, <1>3
<1>6. p = 1 \/ t[p - 1] = "nl"
  <2>1. CASE u = <<>>
    BY <2>1, EmptySeq
  <2>2. ASSUME NEW w \in Seq(Chars), u = Cat(w, h) PROVE t[p - 1] = "nl"
    <3>1. /\ Len(u) = Len(w) + 1 /\ Len(w) \in Nat
          /\ \A i \in 1..Len(w) + 1 : u[i] = IF i <= Len(w) THEN w[i] ELSE h[i - Len(w)]
      <4>1. w \in Seq(Chars) /\ h \in Seq(Chars)
        BY <1>4
      <4>2. /\ Len(Cat(w, h)) = Len(w) + Len(h)
            /\ \A i \in 1..Len(w) + Len(h) : Cat(w, h)[i] = IF i <= Len(w) THEN w[i] ELSE h[i - Len(w)]
        BY <4>1, CatLaws
      <4> QED BY <4>2, <2>2, <1>4, LenProperties
    <3> DEFINE l == Len(u)
    <3>2. /\ p - 1 = l /\ l \in 1..Len(w) + 1 /\ ~(l <= Len(w)) /\ l - Len(w) = 1
          /\ l \in 1..Len(u) + Len(x) /\ l <= Len(u) /\ l \in 1..Len(c) + Len(v) /\ l <= Len(c)
      BY <3>1, <1>1, <1>2
    <3> HIDE DEF l, p
    <3>3. u[l] = "nl"
      BY <3>1, <3>2, <1>4
    <3>4. t[l] = u[l]
      BY <3>2, <1>2, <1>3
    <3> QED BY <3>2, <3>3, <3>4
  <2> QED BY <2>1, <2>2 DEF Above, h
<1>7. q = Len(t) \/ t[q + 1] = "nl"
  <2>1. CASE v = <<>>
    <3>1. Len(v) = 0
      BY <2>1, EmptySeq
    <3> QED BY <3>1, <1>1, <1>2, <1>3
  <2>2. ASSUME NEW w \in Seq(Chars), v = Cat(h, w) PROVE t[q + 1] = "nl"
    <3>1. /\ Len(v) = 1 + Len(w) /\ Len(w) \in Nat
          /\ \A i \in 1..1 + Len(w) : v[i] = IF i <= 1 THEN h[i] ELSE w[i - 1]
      <4>1. w \in Seq(Chars) /\ h \in Seq(Chars)
        BY <1>4
      <4>2. /\ Len(Cat(h, w)) = Len(h) + Len(w)
            /\ \A i \in 1..Len(h) + Len(w) : Cat(h, w)[i] = IF i <= Len(h) THEN h[i] ELSE w[i - Len(h)]
        BY <4>1, CatLaws
      <4> QED BY <4>2, <2>2, <1>4, LenProperties
    <3>2. v[1] = "nl"
      BY <3>1, <1>4
    <3>3. /\ q + 1 \in 1..Len(c) + Len(v) /\ ~(q + 1 <= Len(c)) /\ (q + 1) - Len(c) = 1
      BY <3>1, <1>1, <1>2
    <3> HIDE DEF q
    <3> QED BY <3>2, <3>3, <1>3
  <2> QED BY <2>1, <2>2 DEF Below, h
<1>8. ASSUME NEW i \in 1..Len(x) PROVE Len(u) + i \in p..q /\ t[Len(u) + i] = x[i]
  <2> DEFINE j == Len(u) + i
  <2>1. /\ j \in p..q /\ j \in 1..Len(u) + Len(x) /\ ~(j <= Len(u)) /\ j - Len(u) = i
        /\ j \in 1..Len(c) + Len(v) /\ j <= Len(c)
    BY <1>1, <1>2
  <2> HIDE DEF j, p, q
  <2>2. t[j] = x[i]
    BY <2>1, <1>2, <1>3
  <2> QED BY <2>1, <2>2 DEF j
<1>9. ASSUME NEW i \in p..q PROVE t[i] \in Plain
  <2>1. i - Len(u) \in 1..Len(x) /\ Len(u) + (i - Len(u)) = i
    BY <1>1
  <2>2. t[i] = x[i - Len(u)]
    BY <2>1, <1>8
  <2> QED BY <2>1, <2>2, <1>1
<1>10. SubSeq(t, p, q) = x
  <2>1. p \in Int /\ q \in Int /\ p <= q /\ (q - p) + 1 = Len(x)
    BY <1>1
  <2>2. /\ SubSeq(t, p, q) \in Seq(Plain) /\ Len(SubSeq(t, p, q)) = IF p <= q THEN (q - p) + 1 ELSE 0
        /\ \A i \in 1..(q - p) + 1 : SubSeq(t, p, q)[i] = t[p + i - 1]
    <3> HIDE DEF p, q
    <3> QED BY <2>1, <1>9, SubSeqProperties
  <2> DEFINE z == SubSeq(t, p, q)
  <2>3. z \in Seq(Plain) /\ Len(z) = Len(x)
    BY <2>1, <2>2
  <2>4. ASSUME NEW i \in 1..Len(x) PROVE z[i] = x[i]
    <3>1. i \in 1..(q - p) + 1 /\ p + i - 1 = Len(u) + i
      BY <2>1, <1>1
    <3>2. z[i] = t[p + i - 1]
      BY <2>2, <3>1
    <3> HIDE DEF z, p, q
    <3> QED BY <3>1, <3>2, <1>8
  <2> HIDE DEF z
  <2>5. z = x
    BY <2>3, <2>4, SeqEqual
  <2> QED BY <2>5 DEF z
<1>11. Contains(LinesOf(t), SubSeq(t, p, q))
  <2> HIDE DEF p, q
  <2>1. \A i \in p..q : t[i] # "nl"
    BY <1>9 DEF Plain
  <2> QED BY <2>1, <1>3, <1>5, <1>6, <1>7, PieceIsLine
<1> QED BY <1>3, <1>10, <1>11 DEF t, c

\* And every line of a text is such a text.
LEMMA LineIsBetween ==
    ASSUME NEW t \in Seq(Chars), NEW k \in 1..Len(LinesOf(t))
    PROVE  /\ LinesOf(t)[k] \in Seq(Plain)
           /\ \E u \in Seq(Chars), v \in Seq(Chars) :
                 Above(u) /\ Below(v) /\ t = Cat(Cat(u, LinesOf(t)[k]), v)
<1> DEFINE n == Len(t)
           a == StartSeq(t)
           p == a[k]
           e == LineEnd(t, k)
           x == LinesOf(t)[k]
           h == <<"nl">>
<1>1. t # <<>> /\ n \in Nat /\ n # 0
  <2>1. LinesOf(<<>>) = <<>> /\ Len(<<>>) = 0 /\ 1..0 = {}
    BY DEF LinesOf
  <2>2. t # <<>>
    BY <2>1
  <2> QED BY <2>2, LenProperties, EmptySeq
<1>2. a \in Seq(Nat) /\ Len(a) \in Nat /\ Len(LinesOf(t)) = Len(a) /\ k \in 1..Len(a)
  <2>1. a \in Seq(Nat)
    BY <1>1, AscendingLaws DEF StartSeq
  <2>2. Len(a) \in Nat
    BY <2>1, LenProperties
  <2>3. LinesOf(t) = [i \in 1..Len(a) |-> SubSeq(t, a[i], LineEnd(t, i))]
    BY <1>1, LinesAre
  <2> HIDE DEF a
  <2>4. Len(LinesOf(t)) = Len(a)
    BY <2>2, <2>3
  <2> QED BY <2>1, <2>2, <2>4
<1>3. /\ p \in 1..n /\ e \in 0..n /\ x = SubSeq(t, p, e) /\ x \in Seq(Plain)
      /\ \A i \in p..e : t[i] \in Plain
  BY <1>1, <1>2, LineRange
<1>4. /\ \A i \in 1..Len(a) : a[i] \in LineStarts(t) /\ a[i] \in 1..n
      /\ \A i, l \in 1..Len(a) : i < l => a[i] < a[l]
  BY <1>1, AscendingLaws DEF StartSeq
<1>5. p = 1 \/ t[p - 1] = "nl"
  BY <1>2, <1>4 DEF LineStarts
<1>6. p <= e + 1 /\ (e = n \/ (e + 1 \in 1..n /\ t[e + 1] = "nl"))
  <2>1. CASE k < Len(a)
    <3>1. k + 1 \in 1..Len(a) /\ k < k + 1
      BY <2>1, <1>2
    <3>2. e = a[k + 1] - 2
      BY <2>1 DEF LineEnd
    <3> DEFINE s == a[k + 1]
    <3>3. s \in LineStarts(t) /\ s \in 1..n /\ p < s
      BY <3>1, <1>2, <1>4
    <3>4. s = 1 \/ t[s - 1] = "nl"
      BY <3>3 DEF LineStarts
    <3> HIDE DEF s, p, e
    <3>5. s # 1 /\ s - 1 = e + 1 /\ e + 1 \in 1..n /\ p <= e + 1
      <4>1. s \in Nat /\ p \in Nat /\ e \in Nat /\ n \in Nat /\ s <= n /\ p < s /\ e = s - 2 /\ 1 <= p
        BY <3>2, <3>3, <1>1, <1>3 DEF s
      <4> QED BY <4>1
    <3> QED BY <3>4, <3>5
  <2>2. CASE ~(k < Len(a))
    <3>1. e = IF t[n] = "nl" THEN n - 1 ELSE n
      BY <2>2 DEF LineEnd
    <3> HIDE DEF p, e
    <3> QED BY <3>1, <1>1, <1>3
  <2> QED BY <2>1, <2>2
<1> HIDE DEF a, p, e, x, n
<1> DEFINE u == SubSeq(t, 1, p - 1)
           r == SubSeq(t, p, n)
           v == SubSeq(t, e + 1, n)
<1>7. u \in Seq(Chars) /\ r \in Seq(Chars) /\ t = Cat(u, r)
  <2>1. p - 1 \in 0..Len(t) /\ (p - 1) + 1 = p
    BY <1>1, <1>3 DEF n
  <2> QED BY <2>1, Halves DEF n
<1>8. v \in Seq(Chars) /\ r = Cat(x, v)
  <2>1. p \in 1..Len(t) + 1 /\ e \in p - 1..Len(t) /\ n \in e..Len(t)
    BY <1>1, <1>3, <1>6 DEF n
  <2>2. SubSeq(t, p, e) \o SubSeq(t, e + 1, n) = SubSeq(t, p, n)
    BY <2>1, ConcatAdjacentSubSeq
  <2>3. \A i \in e + 1..n : t[i] \in Chars
    BY <1>1, <1>3, ElementOfSeq DEF n
  <2>4. v \in Seq(Chars)
    BY <2>3, <1>1, <1>3, SubSeqProperties
  <2> QED BY <2>2, <2>4, <1>3 DEF Cat
<1>9. h \in Seq(Chars) /\ Len(h) = 1 /\ h[1] = "nl"
  BY NewlineIs
<1>10. Above(u)
  <2>1. CASE p = 1
    <3>1. u = <<>>
      BY <2>1, SubSeqEmpty
    <3> QED BY <3>1 DEF Above
  <2>2. CASE p # 1
    <3>1. /\ p - 1 \in 1..n /\ p - 1 \in 0..Len(t) /\ 1 <= p - 1 /\ t[p - 1] = "nl"
      BY <2>2, <1>1, <1>3, <1>5 DEF n
    <3> DEFINE w == SubSeq(t, 1, (p - 1) - 1)
    <3>2. \A i \in 1..(p - 1) - 1 : t[i] \in Chars
      BY <3>1, <1>1, ElementOfSeq DEF n
    <3>3. w \in Seq(Chars)
      BY <3>1, <3>2, SubSeqProperties
    <3>4. u = w \o <<t[p - 1]>>
      <4>1. 1 \in 1..Len(t) /\ p - 1 \in 1..Len(t)
        BY <3>1, <1>1 DEF n
      <4> QED BY <4>1, SubSeqRecursiveSecond
    <3>5. u = Cat(w, <<"nl">>)
      BY <3>1, <3>4 DEF Cat
    <3> HIDE DEF w, u
    <3> QED BY <3>3, <3>5 DEF Above
  <2> QED BY <2>1, <2>2
<1>11. Below(v)
  <2>1. CASE e = n
    <3>1. v = <<>>
      BY <2>1, <1>1, SubSeqEmpty
    <3> QED BY <3>1 DEF Below
  <2>2. CASE e # n
    <3>1. e + 1 \in 1..n /\ t[e + 1] = "nl" /\ e + 1 \in 1..Len(t) + 1 /\ e + 1 \in (e + 1) - 1..Len(t)
          /\ n \in e + 1..Len(t)
      BY <2>2, <1>1, <1>3, <1>6 DEF n
    <3> DEFINE f == e + 1
               w == SubSeq(t, f + 1, n)
    <3>2. \A i \in f + 1..n : t[i] \in Chars
      BY <3>1, <1>1, ElementOfSeq DEF n
    <3>3. w \in Seq(Chars)
      BY <3>1, <3>2, <1>1, SubSeqProperties
    <3>4. v = <<t[f]>> \o w
      <4>1. f \in 1..Len(t) /\ n \in f..Len(t)
        BY <3>1, <1>1 DEF n
      <4> HIDE DEF f
      <4>2. SubSeq(t, f, n) = <<t[f]>> \o SubSeq(t, f + 1, n)
        BY <4>1, SubSeqRecursiveFirst
      <4> QED BY <4>2 DEF v, f
    <3>5. t[f] = "nl"
      BY <3>1
    <3>6. v = Cat(<<"nl">>, w)
      BY <3>4, <3>5 DEF Cat
    <3> HIDE DEF w, v
    <3> QED BY <3>3, <3>6 DEF Below
  <2> QED BY <2>1, <2>2
<1> HIDE DEF u, v, r
<1>12. x \in Seq(Chars)
  BY <1>3, LenProperties, ElementOfSeq, IsASeq DEF Plain
<1>13. t = Cat(Cat(u, x), v)
  BY <1>7, <1>8, <1>12, CatAssociative
<1> QED BY <1>3, <1>7, <1>8, <1>10, <1>11, <1>13 DEF x

\* strip_ansi takes characters away one by one, and no newline.
LEMMA StripLaws ==
    ASSUME NEW u \in Seq(Chars), NEW v \in Seq(Chars)
    PROVE  /\ Strip(u) \in Seq(Chars) /\ Strip(Cat(u, v)) = Cat(Strip(u), Strip(v))
           /\ u \in Seq(Plain) => Strip(u) \in Seq(Plain)
           /\ Strip(<<"nl">>) = <<"nl">> /\ Strip(<<>>) = <<>>
<1> DEFINE Piece(c) == IF c = "z" THEN <<>> ELSE <<c>>
           m == [c \in Chars |-> Piece(c)]
           o == <<"nl">>
<1>1. ASSUME NEW S, NEW c \in S PROVE Piece(c) \in Seq(S)
  BY EmptySeq, CatOne
<1>2. Gives(m, Chars, Chars)
  BY <1>1 DEF Gives
<1>3. ASSUME NEW t \in Seq(Chars) PROVE Strip(t) = Flat(m, t)
  <2>1. \A i \in 1..Len(t) : t[i] \in Chars
    BY ElementOfSeq
  <2>2. [i \in 1..Len(t) |-> m[t[i]]] = [i \in 1..Len(t) |-> IF t[i] = "z" THEN <<>> ELSE <<t[i]>>]
    BY <2>1
  <2> HIDE DEF m
  <2> QED BY <2>2 DEF Flat, Strip
<1>4. u \in Seq(Plain) => Strip(u) \in Seq(Plain)
  <2> DEFINE pm == [c \in Plain |-> Piece(c)]
  <2>1. SUFFICES ASSUME u \in Seq(Plain) PROVE Strip(u) \in Seq(Plain)
    OBVIOUS
  <2>2. Gives(pm, Plain, Plain)
    BY <1>1 DEF Gives
  <2>3. \A i \in 1..Len(u) : u[i] \in Plain
    BY <2>1, ElementOfSeq
  <2>4. [i \in 1..Len(u) |-> pm[u[i]]] = [i \in 1..Len(u) |-> IF u[i] = "z" THEN <<>> ELSE <<u[i]>>]
    BY <2>3
  <2> HIDE DEF pm
  <2>5. Strip(u) = Flat(pm, u)
    BY <2>4 DEF Flat, Strip
  <2> QED BY <2>1, <2>2, <2>5, FlatType
<1>5. m["nl"] = o /\ "nl" \in Chars /\ o \in Seq(Chars) /\ <<>> \in Seq(Chars)
  <2>1. "nl" \in Chars
    BY DEF Chars
  <2> QED BY <2>1, EmptySeq, NewlineIs
<1> HIDE DEF m, o
<1>6. Flat(m, o) = o
  <2> DEFINE z == <<>>
             c == "nl"
  <2>1. z \in Seq(Chars) /\ c \in Chars /\ o = Append(z, c) /\ m[c] = o
    BY <1>5, CatOne DEF o
  <2>2. Flat(m, z) = z
    BY FlatEmpty
  <2>3. Cat(z, o) = o
    BY <1>5, CatEmpty
  <2> HIDE DEF z, c
  <2>4. Flat(m, Append(z, c)) = Cat(Flat(m, z), m[c])
    <3> HIDE DEF o
    <3>1. \A y \in Seq(Chars), g \in Chars : Flat(m, Append(y, g)) = Cat(Flat(m, y), m[g])
      BY <1>2, FlatAppend
    <3> QED BY <3>1, <2>1
  <2> QED BY <2>1, <2>2, <2>3, <2>4
<1>7. Cat(u, v) \in Seq(Chars)
  BY CatType
<1>8. Strip(u) \in Seq(Chars) /\ Strip(Cat(u, v)) = Cat(Strip(u), Strip(v))
  BY <1>2, <1>3, <1>7, FlatType, FlatCat
<1>9. Strip(o) = o /\ Strip(<<>>) = <<>>
  BY <1>3, <1>5, <1>6, FlatEmpty
<1> QED BY <1>4, <1>8, <1>9 DEF o

\* A line without its escapes is a line of the text without them.
LEMMA StripKeepsLine ==
    ASSUME NEW t \in Seq(Chars), NEW k \in 1..Len(LinesOf(t)), Strip(LinesOf(t)[k]) # <<>>
    PROVE  Contains(LinesOf(Strip(t)), Strip(LinesOf(t)[k]))
<1> DEFINE x == LinesOf(t)[k]
           h == <<"nl">>
<1>1. PICK u \in Seq(Chars), v \in Seq(Chars) : Above(u) /\ Below(v) /\ t = Cat(Cat(u, x), v)
  BY LineIsBetween
<1>2. x \in Seq(Plain) /\ x \in Seq(Chars)
  <2>1. x \in Seq(Plain)
    BY LineIsBetween
  <2> HIDE DEF x
  <2> QED BY <2>1, LenProperties, ElementOfSeq, IsASeq DEF Plain
<1>3. h \in Seq(Chars) /\ Strip(h) = h /\ Strip(<<>>) = <<>>
  BY <1>1, NewlineIs, StripLaws
<1> HIDE DEF x, h
<1>4. Cat(u, x) \in Seq(Chars)
  BY <1>1, <1>2, CatType
<1>5. Strip(t) = Cat(Cat(Strip(u), Strip(x)), Strip(v))
  BY <1>1, <1>2, <1>4, StripLaws
<1>6. Strip(u) \in Seq(Chars) /\ Strip(v) \in Seq(Chars) /\ Strip(x) \in Seq(Plain)
  BY <1>1, <1>2, StripLaws
<1>7. Above(Strip(u))
  <2>1. CASE u = <<>>
    BY <2>1, <1>3 DEF Above
  <2>2. ASSUME NEW w \in Seq(Chars), u = Cat(w, h) PROVE Above(Strip(u))
    <3>1. Strip(u) = Cat(Strip(w), h) /\ Strip(w) \in Seq(Chars)
      BY <2>2, <1>3, StripLaws
    <3> QED BY <3>1 DEF Above, h
  <2> QED BY <2>1, <2>2, <1>1 DEF Above, h
<1>8. Below(Strip(v))
  <2>1. CASE v = <<>>
    BY <2>1, <1>3 DEF Below
  <2>2. ASSUME NEW w \in Seq(Chars), v = Cat(h, w) PROVE Below(Strip(v))
    <3>1. Strip(v) = Cat(h, Strip(w)) /\ Strip(w) \in Seq(Chars)
      BY <2>2, <1>3, StripLaws
    <3> QED BY <3>1 DEF Below, h
  <2> QED BY <2>1, <2>2, <1>1 DEF Below, h
<1>9. Strip(x) # <<>>
  BY DEF x
<1> QED BY <1>5, <1>6, <1>7, <1>8, <1>9, BetweenIsLine DEF x

\* A line that is not empty stays one when a newline is put behind the text.
LEMMA LineStays ==
    ASSUME NEW t \in Seq(Chars), NEW x, x # <<>>, Contains(LinesOf(t), x)
    PROVE  Contains(LinesOf(Append(t, "nl")), x)
<1> DEFINE h == <<"nl">>
<1>1. PICK k \in 1..Len(LinesOf(t)) : LinesOf(t)[k] = x
  BY DEF Contains
<1>2. PICK u \in Seq(Chars), v \in Seq(Chars) : Above(u) /\ Below(v) /\ t = Cat(Cat(u, x), v)
  BY <1>1, LineIsBetween
<1>3. x \in Seq(Plain) /\ x \in Seq(Chars)
  <2>1. x \in Seq(Plain)
    BY <1>1, LineIsBetween
  <2> QED BY <2>1, LenProperties, ElementOfSeq, IsASeq DEF Plain
<1>4. h \in Seq(Chars) /\ Append(t, "nl") = Cat(t, h)
  <2>1. "nl" \in Chars
    BY DEF Chars
  <2> QED BY <2>1, NewlineIs, CatOne
<1> HIDE DEF h
<1>5. Cat(u, x) \in Seq(Chars) /\ Cat(v, h) \in Seq(Chars)
  BY <1>2, <1>3, <1>4, CatType
<1>6. Append(t, "nl") = Cat(Cat(u, x), Cat(v, h))
  BY <1>2, <1>4, <1>5, CatAssociative
<1>7. Below(Cat(v, h))
  <2>1. CASE v = <<>>
    <3>1. Cat(v, h) = Cat(h, <<>>) /\ <<>> \in Seq(Chars)
      BY <2>1, <1>4, CatEmpty, EmptySeq
    <3> QED BY <3>1 DEF Below, h
  <2>2. ASSUME NEW w \in Seq(Chars), v = Cat(h, w) PROVE Below(Cat(v, h))
    <3>1. Cat(v, h) = Cat(h, Cat(w, h)) /\ Cat(w, h) \in Seq(Chars)
      BY <2>2, <1>4, CatAssociative, CatType
    <3> QED BY <3>1 DEF Below, h
  <2> QED BY <2>1, <2>2, <1>2 DEF Below, h
<1> QED BY <1>2, <1>3, <1>5, <1>6, <1>7, BetweenIsLine
\* head_tail cuts, or returns the text as it is.
LEMMA HeadTailCuts ==
    ASSUME NEW t, NEW success
    PROVE  HeadTail(t, success).strategy = "head-tail" \/ HeadTail(t, success) = Verbatim(t)
BY DEF HeadTail

\* Unless head_tail cuts, an error line of a test command is a line of the
\* compressed text, as it is or stripped.
LEMMA CompressKeeps ==
    ASSUME NEW t \in Seq(Chars), NEW success, NEW k \in 1..Len(LinesOf(t)),
           Actionable(Strip(LinesOf(t)[k])),
           CompressOutput(t, "test", success).strategy # "head-tail"
    PROVE  /\ CompressOutput(t, "test", success).content \in Seq(Chars)
           /\ \E x \in {LinesOf(t)[k], Strip(LinesOf(t)[k])} :
                 x # <<>> /\ Contains(LinesOf(CompressOutput(t, "test", success).content), x)
<1> DEFINE stripped == Strip(t)
           cleaned == Dedup(stripped)
           byError == ErrorPriority(cleaned)
           c == CompressOutput(t, "test", success)
           line == LinesOf(t)[k]
           bare == Strip(line)
<1>1. \/ c = Verbatim(t)
      \/ c = byError
      \/ c = HeadTail(cleaned, success)
  BY DEF CompressOutput
<1>2. /\ stripped \in Seq(Chars) /\ Strip(<<>>) = <<>>
  <2>1. <<>> \in Seq(Chars)
    BY EmptySeq
  <2> QED BY <2>1, StripLaws
<1>3. Actionable(bare) /\ bare # <<>> /\ line # <<>>
  <2>1. bare # <<>>
    BY DEF Actionable, Contains
  <2> HIDE DEF line
  <2> QED BY <2>1, <1>2 DEF line
<1>4. Contains(LinesOf(stripped), bare)
  BY <1>3, StripKeepsLine
<1> HIDE DEF stripped, line, bare
<1>5. cleaned \in Seq(Chars) /\ Contains(LinesOf(cleaned), bare)
  <2>1. PICK j \in 1..Len(LinesOf(stripped)) : LinesOf(stripped)[j] = bare
    BY <1>4 DEF Contains
  <2> QED BY <1>2, <1>3, <2>1, DedupKeeps
<1> HIDE DEF cleaned
<1>6. Contains(LinesOf(byError.content), bare) /\ byError.content \in Seq(Chars)
  <2>1. PICK j \in 1..Len(LinesOf(cleaned)) : LinesOf(cleaned)[j] = bare
    BY <1>5 DEF Contains
  <2>2. Actionable(LinesOf(cleaned)[j])
    BY <2>1, <1>3
  <2>3. /\ Contains(LinesOf(byError.content), LinesOf(cleaned)[j])
        /\ byError.content \in Seq(Chars)
    BY <1>5, <2>2, ErrorPriorityKeeps
  <2> QED BY <2>1, <2>3
<1>7. \/ c.content \in Seq(Chars) /\ Contains(LinesOf(c.content), line)
      \/ c.content \in Seq(Chars) /\ Contains(LinesOf(c.content), bare)
  <2>1. CASE c = Verbatim(t)
    <3>1. c.content = t
      BY <2>1 DEF Verbatim
    <3>2. Contains(LinesOf(t), line)
      BY DEF Contains, line
    <3> HIDE DEF c
    <3> QED BY <3>1, <3>2
  <2>2. CASE c = byError
    <3> HIDE DEF c, byError
    <3> QED BY <2>2, <1>6
  <2>3. CASE c = HeadTail(cleaned, success)
    <3>1. c = Verbatim(cleaned)
      BY <2>3, HeadTailCuts
    <3>2. c.content = cleaned
      BY <3>1 DEF Verbatim
    <3> HIDE DEF c
    <3> QED BY <3>2, <1>5
  <2> QED BY <1>1, <2>1, <2>2, <2>3
<1> HIDE DEF c
<1> QED BY <1>3, <1>7 DEF c, line, bare

\* The scratch accumulator holds the text it is fed with.
LEMMA ShadowHolds ==
    ASSUME NEW text \in Seq(Chars)
    PROVE  Counted(Shadow(text)) /\ Shadow(text).decoded = text
<1> DEFINE e == [Empty EXCEPT !.rawBytes = Size(text)]
<1>1. /\ DOMAIN e = AccFields /\ e.pending = Empty.pending /\ e.decoded = <<>> /\ e.tail = <<>>
      /\ e.decodedBytes = Empty.decodedBytes /\ e.completed = Empty.completed
      /\ e.openLine = Empty.openLine /\ e.atBoundary = Empty.atBoundary
      /\ Empty.decoded = <<>> /\ Empty.tail = <<>> /\ Empty.pending = <<>>
  BY DEF Empty, AccFields
<1>2. Shadow(text) = AppendDecoded(e, text)
  BY DEF Shadow
<1> HIDE DEF e
<1>3. Counted(e)
  <2>1. e.pending \in Seq(Bytes)
    BY <1>1, EmptySeq
  <2> QED BY <1>1, <2>1, CountedEmpty, CountedSame
<1>4. Counted(AppendDecoded(e, text))
  BY <1>3, AppendDecodedCounts
<1>5. AppendDecoded(e, text).decoded = text
  <2>1. CASE text = <<>>
    BY <1>1, <2>1 DEF AppendDecoded
  <2>2. CASE text # <<>>
    <3>1. AppendDecoded(e, text).decoded = e.decoded \o text
      BY <1>1, <2>2 DEF AppendDecoded, TrimTail, AccFields
    <3>2. <<>> \o text = text
      BY ConcatEmptySeq
    <3> QED BY <1>1, <3>1, <3>2
  <2> QED BY <2>1, <2>2
<1> QED BY <1>2, <1>4, <1>5

\* Every line of a text is a line of its display, unless the display leaves it
\* out.
LEMMA DisplayShows ==
    ASSUME NEW text \in Seq(Chars), NEW j \in 1..Len(LinesOf(text)), LinesOf(text)[j] # <<>>
    PROVE  \/ Contains(LinesOf(Snapshot(Shadow(text)).content), LinesOf(text)[j])
           \/ LeftOut(Snapshot(Shadow(text)), j)
<1> DEFINE a == Shadow(text)
           s == Snapshot(a)
           ls == LinesOf(text)
           n == Len(ls)
           f == Note(s).from
           t == TruncateTail(text)
<1>1. Counted(a) /\ a.decoded = text
  BY ShadowHolds
<1>2. ls \in Seq(Seq(Plain)) /\ n \in Nat /\ ls[j] \in Seq(Plain)
  BY LinesType, LenProperties, ElementOfSeq
<1>3. SUFFICES ASSUME ~LeftOut(s, j) PROVE Contains(LinesOf(s.content), ls[j])
  OBVIOUS
<1>4. CASE ~LongLast(a)
  <2>1. /\ Agree(s, t)
        /\ s.truncated /\ ~s.partial =>
              /\ f \in 1..n /\ Note(s).to = n /\ t.content = JoinLines(SubSeq(ls, f, n))
        /\ s.truncated <=> ~Fits(text, MaxLines, MaxBytes)
    <3> HIDE DEF a
    <3> QED BY <1>1, <1>4, SnapshotShows
  <2> HIDE DEF a, s
  <2>2. ~s.truncated \/ (~s.partial /\ ~(j < f))
    BY <1>3 DEF LeftOut
  <2>3. t.content \in Seq(Chars) /\ Contains(LinesOf(t.content), ls[j])
    <3>1. CASE ~s.truncated
      <4>1. t.content = text
        BY <2>1, <3>1, TruncateIs
      <4> HIDE DEF t
      <4> QED BY <4>1 DEF Contains
    <3>2. CASE s.truncated
      <4> DEFINE S == Seq(Plain)
                 q == SubSeq(ls, f, n)
                 i == j - f + 1
      <4>1. f \in 1..n /\ f <= j /\ t.content = JoinLines(q) /\ j \in 1..n
        BY <2>1, <2>2, <3>2, <1>2
      <4> HIDE DEF t, n, f
      <4>2. \A l \in f..n : ls[l] \in S
        BY <1>2, <4>1, ElementOfSeq DEF n
      <4> HIDE DEF S, ls
      <4>3. /\ f \in Int /\ n \in Int /\ i \in 1..n - f + 1 /\ f <= n /\ f + i - 1 = j
        BY <1>2, <4>1
      <4>4. /\ q \in Seq(S) /\ Len(q) = n - f + 1 /\ q[i] = ls[j]
        <5>1. /\ q \in Seq(S) /\ Len(q) = IF f <= n THEN n - f + 1 ELSE 0
              /\ \A l \in 1..n - f + 1 : q[l] = ls[f + l - 1]
          BY <4>2, <4>3, SubSeqProperties
        <5> HIDE DEF q, i
        <5> QED BY <5>1, <4>3
      <4> HIDE DEF q, i
      <4>5. JoinLines(q) \in Seq(Chars) /\ Contains(LinesOf(JoinLines(q)), q[i])
        BY <4>3, <4>4, JoinType, JoinKeeps DEF S, ls
      <4> QED BY <4>1, <4>4, <4>5
    <3> QED BY <3>1, <3>2
  <2>4. s.content = t.content \/ s.content = Append(t.content, "nl")
    BY <2>1 DEF Agree
  <2> HIDE DEF t, ls
  <2> QED BY <2>3, <2>4, LineStays DEF ls
<1>5. CASE LongLast(a)
  <2> DEFINE z == SelectInSeq(a.tail, LAMBDA c : c = "nl")
             m == Len(a.tail)
  <2>1. PICK p \in Seq(Chars) : Before(p, text, a.tail, a.atBoundary)
    BY <1>1 DEF Counted
  <2>2. /\ a.tail \in Seq(Chars) /\ a.decodedBytes = Size(text) /\ TotalLines(a) = n
        /\ ~a.atBoundary /\ z = m
    <3> HIDE DEF a
    <3> QED BY <1>1, <1>5, CountedLines DEF Counted, LongLast
  <2> HIDE DEF a
  <2>3. text = Cat(p, a.tail) /\ p # <<>> /\ Size(a.tail) + 2 >= MaxRolling
    BY <2>1, <2>2 DEF Before, Open
  <2>4. "x" \in Chars /\ MaxBytes \in Nat /\ MaxBytes >= 3 /\ MaxLines \in Nat /\ Size(<<>>) = 0
        /\ <<>> \in Seq(Chars)
    BY TextAssumption, SizeLaws, EmptySeq DEF Chars
  <2>5. Size(a.tail) \in Nat /\ Size(text) \in Nat /\ Size(text) > MaxBytes /\ a.tail # <<>>
    <3>1. /\ Size(text) = Size(p) + Size(a.tail) /\ Size(p) \in Nat /\ Size(a.tail) \in Nat
          /\ Size(text) \in Nat /\ Size(p) >= Len(p)
      BY <2>2, <2>3, <2>4, SizeLaws
    <3>2. Size(a.tail) + 2 >= 2 * MaxBytes
      BY <2>3 DEF MaxRolling
    <3>3. Size(a.tail) > 0 /\ Size(a.tail) >= MaxBytes
      BY <2>4, <3>1, <3>2
    <3>4. Len(p) \in Nat /\ Len(p) # 0
      BY <2>3, LenProperties, EmptySeq
    <3> QED BY <2>4, <3>1, <3>3, <3>4
  <2>6. SnapshotText(a) = <<>>
    <3>1. m \in Nat /\ m # 0
      BY <2>2, <2>5, LenProperties, EmptySeq
    <3>2. SnapshotText(a) = SubSeq(a.tail, m + 1, m)
      BY <2>2, <3>1 DEF SnapshotText
    <3> HIDE DEF m
    <3> QED BY <3>1, <3>2, SubSeqEmpty
  <2>7. Fits(<<>>, MaxLines, MaxBytes) /\ LinesOf(<<>>) = <<>> /\ Len(<<>>) = 0
    <3>1. LinesOf(<<>>) = <<>> /\ Len(<<>>) = 0
      BY DEF LinesOf
    <3> QED BY <3>1, <2>4 DEF Fits
  <2>8. TruncateTail(<<>>).outputLines = 0 /\ TruncateTail(<<>>).partial = FALSE
    BY <2>7, TruncateIs
  <2>9. s.truncated /\ ~s.partial /\ s.outputLines = 0 /\ s.totalLines = n
    BY <2>2, <2>5, <2>6, <2>8 DEF Snapshot
  <2> HIDE DEF s, n
  <2>10. f = n + 1
    BY <2>9, <1>2 DEF Note, Minus
  <2>11. j < f
    BY <2>10, <1>2 DEF n
  <2> QED BY <1>3, <2>9, <2>11 DEF LeftOut
<1> QED BY <1>4, <1>5

\* No error line of a test or build command is lost in silence: compress_output
\* keeps it, or the answer names head-tail as its strategy, or it is truncated as
\* the spill file cannot be read; and the display of the compressed text shows
\* it, or its note leaves it out.
THEOREM ErrorsSurvive == OutputSpec => []ErrorLinesSurvive
<1>1. FlowInv => ErrorLinesSurvive
  <2> DEFINE t == Lossy(FedBytes)
             all == LinesOf(t)
  <2>1. SUFFICES ASSUME FlowInv, outcome = "ok", ~hole, NEW readable \in BOOLEAN,
                        NEW c \in Compressed("test", readable), NEW r \in Response(c, readable),
                        NEW i \in DOMAIN all, Actionable(Strip(all[i]))
                 PROVE  LET lines == LinesOf(c.content)
                        IN  \/ \E j \in DOMAIN lines :
                                  /\ lines[j] \in {all[i], Strip(all[i])}
                                  /\ \/ Contains(LinesOf(r.display.content), lines[j])
                                     \/ LeftOut(r.display, j)
                            \/ r.strategy = "head-tail"
                            \/ ~readable /\ r.truncated
    BY DEF ErrorLinesSurvive
  <2> DEFINE text == c.content
  <2>2. FullBytes(acc) \in Seq(Bytes) /\ FullBytes(acc) = FedBytes
    BY <2>1 DEF FlowInv, RawKept, RawOK, FullBytes
  <2>3. t \in Seq(Chars)
    BY <2>2, LossyIs
  <2>4. /\ r.display = Snapshot(Shadow(text)) /\ r.strategy = c.strategy
        /\ r.truncated = (acc.spill # Unset \/ r.display.truncated)
    BY <2>1 DEF Response
  <2>5. CASE ~(readable \/ acc.spill = Unset)
    BY <2>4, <2>5
  <2>6. CASE readable \/ acc.spill = Unset
    <3>1. PICK success \in BOOLEAN : c = CompressOutput(t, "test", success)
      BY <2>1, <2>2, <2>6 DEF Compressed, FullText
    <3>2. SUFFICES ASSUME c.strategy # "head-tail"
                   PROVE  \E j \in DOMAIN LinesOf(text) :
                             /\ LinesOf(text)[j] \in {all[i], Strip(all[i])}
                             /\ \/ Contains(LinesOf(r.display.content), LinesOf(text)[j])
                                \/ LeftOut(r.display, j)
      BY <2>4
    <3> HIDE DEF t
    <3>3. i \in 1..Len(all) /\ Actionable(Strip(all[i]))
      <4>1. all \in Seq(Seq(Plain))
        BY <2>3, LinesType
      <4>2. DOMAIN all = 1..Len(all)
        <5> HIDE DEF all
        <5> QED BY <4>1, LenProperties
      <4> QED BY <4>2, <2>1 DEF t
    <3>4. /\ CompressOutput(t, "test", success).content \in Seq(Chars)
          /\ \E x \in {LinesOf(t)[i], Strip(LinesOf(t)[i])} :
                x # <<>> /\ Contains(LinesOf(CompressOutput(t, "test", success).content), x)
      BY <2>3, <3>1, <3>2, <3>3, CompressKeeps
    <3>5. PICK x \in {all[i], Strip(all[i])} : x # <<>> /\ Contains(LinesOf(text), x)
      BY <3>1, <3>4
    <3>6. PICK j \in 1..Len(LinesOf(text)) : LinesOf(text)[j] = x
      BY <3>5 DEF Contains
    <3>7. text \in Seq(Chars)
      BY <3>1, <3>4
    <3> HIDE DEF text, all
    <3>8. j \in DOMAIN LinesOf(text)
      <4>1. LinesOf(text) \in Seq(Seq(Plain))
        BY <3>7, LinesType
      <4> QED BY <4>1, <3>6, LenProperties
    <3>9. \/ Contains(LinesOf(r.display.content), LinesOf(text)[j])
          \/ LeftOut(r.display, j)
      BY <2>4, <3>5, <3>6, <3>7, DisplayShows DEF text
    <3> QED BY <3>5, <3>6, <3>8, <3>9
  <2> QED BY <2>5, <2>6
<1> QED BY <1>1, OutputInductive, PTL
=============================================================================
